---------------------------- MODULE ContainerProofs ---------------------------
(***************************************************************************)
(* Shadow implements Container for Lists and Collections of any size, any  *)
(* names and any number of requests, with the given members numbered in    *)
(* any way and order, as long as they are numbered and sessions are        *)
(* committed as a whole.  (The runs MCShadowArray, MCShadowUnnamed and     *)
(* MCShadowAtomic show that Arrays, members given without a name, and      *)
(* commits of a target, do not.)                                           *)
(*                                                                         *)
(* What a commit leaves are the children of the shadow, in their order;    *)
(* the invariant relates those to what the request asks for, while it is   *)
(* still being put.                                                        *)
(***************************************************************************)
EXTENDS ShadowProofs

(* The containers, clients and callers that Container describes.           *)
OrdinaryUse ==
    Bases \subseteq {"LIST", "COLLECTION"} /\ ~Unnamed /\ Scopes \subseteq {"session"}

-------------------------------------------------------------------------------
(* The inductive invariant.                                                *)

(* Every content is of its own request and in one place only.              *)
ContentsInv ==
    /\ \A j, k \in DOMAIN original : original[j].value = original[k].value => j = k
    /\ \A k \in DOMAIN original : original[k].value[1] <= ops /\ (pc # "idle" => original[k].value[1] < ops)

(* The shadow has a member for every original one, in the same places, and *)
(* after them those that are new.                                          *)
Changed == {k \in DOMAIN subs : subs[k].state \in {"dirty", "fresh"}}

ShadowsInv ==
    /\ Len(subs) >= Len(original)
    /\ \A k \in DOMAIN original : /\ subs[k].name = original[k].name
                                  /\ subs[k].state \in {"clean", "dirty", "deleted"}
                                  /\ subs[k].state = "clean" => subs[k].value = original[k].value
    /\ \A k \in DOMAIN subs : k > Len(original) => subs[k].state = "fresh"

(* A container that is only dirty below has no new and no deleted members, *)
(* and no more are to come.                                                *)
OwnInv ==
    /\ own \in {"below", "dirty"}
    /\ todo # <<>> => own = "dirty"
    /\ own = "below" => \A k \in DOMAIN subs : subs[k].state \in {"clean", "dirty"}

(* The contents that are to go are those of the members that are changed,  *)
(* deleted, or still to be put; the ones to come are numbered, and those   *)
(* of the members that were put are there.                                 *)
PromiseInv ==
    /\ promise.drops = {original[k].value : k \in {j \in DOMAIN original :
                            subs[j].state # "clean" \/ original[j].name \in ToSet(todo)}}
    /\ promise.adds = {<<ops, i>> : i \in 1..Cardinality(promise.adds)}
    /\ {subs[k].value : k \in Changed}
         = {<<ops, i>> : i \in 1..Cardinality(promise.adds) - Len(todo)}
    /\ \A j, k \in Changed : subs[j].value = subs[k].value => j = k

(* What is still to be put has a name, was not put yet, and is not         *)
(* deleted.                                                                *)
TodoInv ==
    /\ todo \in Seq(Names) /\ IsInjective(todo)
    /\ \A j \in DOMAIN todo, k \in DOMAIN subs : todo[j] = subs[k].name => subs[k].state = "clean"

EditInv ==
    IF pc = "idle" THEN promise = Nothing
    ELSE ShadowsInv /\ OwnInv /\ PromiseInv /\ TodoInv

-------------------------------------------------------------------------------
(* Lemmas about the operators.                                             *)

(* Taking all elements, or all but the new last one.                       *)
LEMMA AtAll ==
    ASSUME NEW T, NEW list \in Seq(T), NEW x \in T
    PROVE  /\ At(list, 1..Len(list)) = list
           /\ At(Append(list, x), 1..Len(list)) = list
<1>. DEFINE n == Len(list)
            more == Append(list, x)
<1>1. n \in Nat /\ DOMAIN list = 1..n /\ list = [k \in 1..n |-> list[k]]
  OBVIOUS
<1>2. \A k \in 1..n : more[k] = list[k]
  BY <1>1
<1>. HIDE DEF n, more
<1>3. Cardinality(1..n) = n /\ \A k \in 1..n : Nth(1..n, k) = k
  BY <1>1, NthOfAll
<1>4. At(list, 1..n) = [k \in 1..n |-> list[k]]
  BY <1>3 DEF At
<1>5. At(more, 1..n) = [k \in 1..n |-> list[k]]
  BY <1>2, <1>3 DEF At
<1>. QED BY <1>1, <1>4, <1>5 DEF n, more

(* Adding a member whose name is new, once or twice.                       *)
LEMMA AddLocalNew ==
    ASSUME NEW list \in Seq(Sub), NEW s \in Sub, s.name \notin NamesOf(list)
    PROVE  /\ AddLocal(list, s) = Append(list, s)
           /\ AddLocal(Append(list, s), s) = Append(list, s)
<1>. DEFINE n == Len(list)
            more == Append(list, s)
<1>1. /\ n \in Nat /\ DOMAIN list = 1..n /\ DOMAIN more = 1..n + 1
      /\ more[n + 1] = s /\ \A k \in 1..n : more[k] = list[k]
  OBVIOUS
<1>2. \A k \in 1..n : list[k].name # s.name
  BY <1>1 DEF NamesOf, ToSet
<1>. HIDE DEF n, more
<1>3. {k \in DOMAIN list : list[k].name # s.name} = 1..n
  BY <1>1, <1>2
<1>4. {k \in DOMAIN more : more[k].name # s.name} = 1..n
  BY <1>1, <1>2
<1>5. At(list, 1..n) = list /\ At(more, 1..n) = list
  BY AtAll DEF n, more
<1>. QED BY <1>3, <1>4, <1>5 DEF AddLocal, Where, more

LEMMA ChildrenAll ==
    ASSUME NEW list \in Seq(Sub), \A k \in DOMAIN list : list[k].state # "deleted"
    PROVE  Children(list) = list
<1>1. {k \in DOMAIN list : list[k].state # "deleted"} = 1..Len(list)
  OBVIOUS
<1>2. CASE list = <<>>
  <2>1. At(list, 1..Len(list)) = <<>>
    <3>1. 1..Len(list) = {} /\ Cardinality({}) = 0
      BY <1>2, FS_EmptySet
    <3>. QED BY <3>1 DEF At
  <2>. QED BY <1>1, <1>2, <2>1 DEF Children, Where
<1>3. CASE list # <<>>
  <2>1. list[1] \in Sub
    BY <1>3
  <2>2. At(list, 1..Len(list)) = list
    BY <2>1, AtAll
  <2>. QED BY <1>1, <2>2 DEF Children, Where
<1>. QED BY <1>2, <1>3

(* The name chosen for the first new member is not in use.                 *)
LEMMA NextNameNew ==
    ASSUME NEW list \in Seq(Sub), base \in {"LIST", "COLLECTION"}, NEW wanted \in Names,
           base = "LIST" => \A k \in DOMAIN list : list[k].name = Position(k),
           \A k \in DOMAIN list : list[k].state # "deleted"
    PROVE  NextName(list, wanted) \notin NamesOf(list)
<1>1. CASE base = "LIST"
  <2>1. NextName(list, wanted) = Position(Len(list) + 1)
    BY <1>1, ChildrenAll DEF NextName, Positional
  <2>2. \A k \in DOMAIN list : list[k].name # Position(Len(list) + 1)
    <3>1. \A k \in DOMAIN list : k # Len(list) + 1
      OBVIOUS
    <3>2. \A j, k \in Nat : Position(j) = Position(k) => j = k
      BY DEF Position
    <3>3. \A k \in DOMAIN list : k \in Nat /\ Len(list) + 1 \in Nat
      OBVIOUS
    <3>. QED BY <1>1, <3>1, <3>2, <3>3
  <2>. QED BY <1>1, <2>1, <2>2 DEF NamesOf, ToSet
<1>2. CASE base = "COLLECTION" /\ wanted \notin NamesOf(list)
  BY <1>2 DEF NextName, Positional
<1>3. CASE base = "COLLECTION" /\ wanted \in NamesOf(list)
  <2>. DEFINE top == Max({0} \cup Numbers(list, wanted[1]))
  <2>1. NextName(list, wanted) = <<wanted[1], 1 + top>>
    BY <1>3 DEF NextName, Positional
  <2>2. top \in Nat /\ \A n \in Numbers(list, wanted[1]) : n <= top
    BY NumbersFinite
  <2>3. Children(list) = list
    BY <1>3, ChildrenAll
  <2>. HIDE DEF top
  <2>4. ASSUME NEW s \in ToSet(list), s.name = <<wanted[1], 1 + top>> PROVE FALSE
    <3>1. s.name[1] = wanted[1] /\ s.name[2] = 1 + top
      BY <2>4
    <3>2. 1 + top \in Numbers(list, wanted[1])
      BY <2>3, <3>1 DEF Numbers
    <3>. QED BY <2>2, <3>2
  <2>. QED BY <1>3, <2>1, <2>4 DEF NamesOf
<1>. QED BY <1>1, <1>2, <1>3

(* A member is found under its name.                                       *)
LEMMA NamedAt ==
    ASSUME NEW list, NamesDiffer(list), NEW k \in DOMAIN list
    PROVE  list[k].name \in NamesOf(list) /\ Named(list, list[k].name) = list[k]
<1>1. list[k] \in ToSet(list)
  BY DEF ToSet
<1>2. list[k].name \in NamesOf(list)
  BY <1>1 DEF NamesOf
<1>3. Named(list, list[k].name) \in ToSet(list) /\ Named(list, list[k].name).name = list[k].name
  BY <1>2, NamedIsThere
<1>4. PICK j \in DOMAIN list : Named(list, list[k].name) = list[j]
  BY <1>3 DEF ToSet
<1>5. j = k
  BY <1>3, <1>4 DEF NamesDiffer
<1>. QED BY <1>2, <1>4, <1>5

-------------------------------------------------------------------------------
(* The requests keep the invariant.                                        *)

OrdinaryInv == ShadowInv /\ ListNumbered /\ ContentsInv /\ EditInv

LEMMA OrdinaryFacts ==
    ASSUME OrdinaryUse, ShadowInv
    PROVE  /\ base \in {"LIST", "COLLECTION"} /\ ops \in Nat
           /\ original \in Seq(Member) /\ NamesDiffer(original)
           /\ Len(original) \in Nat /\ DOMAIN original = 1..Len(original)
           /\ subs \in Seq(Sub) /\ NamesDiffer(subs)
           /\ Len(subs) \in Nat /\ DOMAIN subs = 1..Len(subs)
           /\ \A k \in DOMAIN original : /\ original[k].value \in Values
                                         /\ original[k].value[1] \in Nat
                                         /\ original[k].name \in Names
<1>1. /\ original \in Seq(Member) /\ subs \in Seq(Sub) /\ NamesDiffer(original) /\ NamesDiffer(subs)
      /\ base \in Bases /\ ops \in 0..MaxOps
  BY DEF ShadowInv, TypeOK
<1>2. base \in {"LIST", "COLLECTION"}
  BY <1>1 DEF OrdinaryUse
<1>3. ops \in Nat
  BY <1>1
<1>4. Len(original) \in Nat /\ DOMAIN original = 1..Len(original)
  BY <1>1
<1>5. Len(subs) \in Nat /\ DOMAIN subs = 1..Len(subs)
  BY <1>1
<1>6. ASSUME NEW k \in DOMAIN original
      PROVE  original[k].value \in Values /\ original[k].value[1] \in Nat /\ original[k].name \in Names
  <2>1. original[k] \in Member
    BY <1>1
  <2>2. original[k].value \in Values /\ original[k].name \in Names
    BY <2>1 DEF Member
  <2>3. \A v \in Values : v[1] \in Nat
    BY DEF Values
  <2>. QED BY <2>2, <2>3
<1>. QED BY <1>1, <1>2, <1>3, <1>4, <1>5, <1>6

LEMMA AskKeepsContents ==
    ASSUME OrdinaryUse, ShadowInv, ContentsInv,
           NEW member, NEW drops, NEW adds, Ask(member, drops, adds), pc' # "idle"
    PROVE  ContentsInv' /\ ops' = ops + 1 /\ todo = <<>>
<1>1. ops' = ops + 1 /\ original' = original /\ pc = "idle"
  BY DEF Ask
<1>2. ops \in Nat /\ \A k \in DOMAIN original : original[k].value[1] \in Nat
  BY OrdinaryFacts
<1>3. \A k \in DOMAIN original : original[k].value[1] <= ops
  BY DEF ContentsInv
<1>4. \A k \in DOMAIN original : original[k].value[1] <= ops + 1 /\ original[k].value[1] < ops + 1
  BY <1>2, <1>3
<1>5. \A j, k \in DOMAIN original : original[j].value = original[k].value => j = k
  BY DEF ContentsInv
<1>6. ContentsInv'
  BY <1>1, <1>4, <1>5 DEF ContentsInv
<1>7. todo = <<>>
  BY <1>1 DEF ShadowInv, RequestInv
<1>. QED BY <1>1, <1>6, <1>7

(* PUT and DELETE of a member change the shadow in one place.              *)
LEMMA MemberRequestsKeepOrder ==
    ASSUME OrdinaryUse, OrdinaryInv, NEW name \in NamesOf(original),
           PutMember(name) \/ DeleteMember(name)
    PROVE  ContentsInv' /\ EditInv'
<1>1. /\ ShadowInv /\ ListNumbered /\ ContentsInv
      /\ original \in Seq(Member) /\ NamesDiffer(original) /\ ops \in Nat
      /\ Len(original) \in Nat /\ DOMAIN original = 1..Len(original)
  BY OrdinaryFacts DEF OrdinaryInv
<1>2. PICK i \in DOMAIN original : original[i].name = name
  BY DEF NamesOf, ToSet
<1>3. \A k \in DOMAIN original : original[k].name = name <=> k = i
  BY <1>1, <1>2 DEF NamesDiffer
<1>4. Named(original, name) = original[i]
  BY <1>1, <1>2, NamedAt
<1>5. /\ Preread \in Seq(Sub) /\ DOMAIN Preread = DOMAIN original
      /\ \A k \in DOMAIN original : Preread[k] = [name |-> original[k].name,
                                                  value |-> original[k].value,
                                                  state |-> "clean"]
  BY <1>1, PrereadType
<1>6. original' = original /\ base' = base /\ pc' = "edited" /\ pc' # "idle"
  BY DEF PutMember, DeleteMember, Ask
<1>7. ContentsInv' /\ ops' = ops + 1 /\ todo = <<>> /\ todo' = <<>>
  <2>1. \E drops, adds : Ask(name, drops, adds)
    BY DEF PutMember, DeleteMember
  <2>2. ContentsInv' /\ ops' = ops + 1 /\ todo = <<>>
    BY <1>1, <1>6, <2>1, AskKeepsContents
  <2>. QED BY <2>2 DEF PutMember, DeleteMember
<1>8. TodoInv'
  BY <1>7 DEF TodoInv, IsInjective
<1>9. CASE PutMember(name)
  <2>. DEFINE value == Content(1)
  <2>1. /\ promise' = [drops |-> {original[i].value}, adds |-> {value}]
        /\ subs' = PutValue(Preread, name, value) /\ own' = "below"
    BY <1>4, <1>9 DEF PutMember, Ask
  <2>2. value = <<ops', 1>>
    BY <1>7 DEF Content
  <2>. HIDE DEF value
  <2>3. DOMAIN subs' = DOMAIN original
    BY <1>5, <2>1 DEF PutValue
  <2>4. ASSUME NEW k \in DOMAIN original
        PROVE  /\ subs'[k].name = original[k].name
               /\ k = i => subs'[k].state = "dirty" /\ subs'[k].value = value
               /\ k # i => subs'[k].state = "clean" /\ subs'[k].value = original[k].value
    <3>. DEFINE p == Preread[k]
    <3>1. p = [name |-> original[k].name, value |-> original[k].value, state |-> "clean"]
      BY <1>5
    <3>2. subs'[k] = IF p.name # name THEN p
                     ELSE [p EXCEPT !.value = value, !.state = IF @ = "clean" THEN "dirty" ELSE @]
      BY <1>5, <2>1 DEF PutValue
    <3>. HIDE DEF p
    <3>. QED BY <1>3, <3>1, <3>2
  <2>5. ShadowsInv'
    <3>1. Len(subs') = Len(original)
      <4>1. subs' \in Seq(Sub)
        BY <1>1, MemberRequestsKeepTypes DEF ShadowInv, TypeOK
      <4>. QED BY <1>1, <2>3, <4>1
    <3>. QED BY <1>1, <1>6, <2>3, <2>4, <3>1 DEF ShadowsInv
  <2>6. OwnInv'
    BY <1>7, <2>1, <2>3, <2>4 DEF OwnInv
  <2>7. PromiseInv'
    <3>1. promise'.drops = {original[i].value} /\ promise'.adds = {value}
      BY <2>1
    <3>2. {j \in DOMAIN original : subs'[j].state # "clean" \/ original[j].name \in ToSet(todo')} = {i}
      BY <1>7, <2>4 DEF ToSet
    <3>3. Changed' = {i}
      BY <2>3, <2>4 DEF Changed
    <3>4. Cardinality({value}) = 1 /\ Len(todo') = 0
      BY <1>7, FS_Singleton
    <3>5. {<<ops', j>> : j \in 1..1} = {value}
      BY <2>2
    <3>6. {subs'[k].value : k \in Changed'} = {value}
      BY <2>4, <3>3
    <3>7. promise'.drops = {original'[k].value : k \in {j \in DOMAIN original' :
                                subs'[j].state # "clean" \/ original'[j].name \in ToSet(todo')}}
      BY <1>6, <3>1, <3>2
    <3>8. /\ Cardinality(promise'.adds) = 1
          /\ promise'.adds = {<<ops', j>> : j \in 1..Cardinality(promise'.adds)}
      BY <3>1, <3>4, <3>5
    <3>9. {subs'[k].value : k \in Changed'}
             = {<<ops', j>> : j \in 1..Cardinality(promise'.adds) - Len(todo')}
      BY <3>4, <3>5, <3>6, <3>8
    <3>. QED BY <3>3, <3>7, <3>8, <3>9 DEF PromiseInv
  <2>. QED BY <1>6, <1>7, <1>8, <2>5, <2>6, <2>7 DEF EditInv
<1>10. CASE DeleteMember(name)
  <2>1. /\ promise' = [drops |-> {original[i].value}, adds |-> {}]
        /\ subs' = Delete(Preread, {name}) /\ own' = "dirty"
    BY <1>4, <1>10 DEF DeleteMember, Ask
  <2>2. DOMAIN subs' = DOMAIN original
    BY <1>5, <2>1 DEF Delete
  <2>3. ASSUME NEW k \in DOMAIN original
        PROVE  /\ subs'[k].name = original[k].name
               /\ k = i => subs'[k].state = "deleted"
               /\ k # i => subs'[k].state = "clean" /\ subs'[k].value = original[k].value
    <3>. DEFINE p == Preread[k]
    <3>1. p = [name |-> original[k].name, value |-> original[k].value, state |-> "clean"]
      BY <1>5
    <3>2. subs'[k] = IF p.name \in {name} THEN [p EXCEPT !.state = "deleted"] ELSE p
      BY <1>5, <2>1 DEF Delete
    <3>. HIDE DEF p
    <3>. QED BY <1>3, <3>1, <3>2
  <2>4. ShadowsInv'
    <3>1. Len(subs') = Len(original)
      BY <1>1, <1>5, <2>1, <2>2 DEF Delete
    <3>. QED BY <1>1, <1>6, <2>2, <2>3, <3>1 DEF ShadowsInv
  <2>5. OwnInv'
    BY <2>1 DEF OwnInv
  <2>6. PromiseInv'
    <3>1. promise'.drops = {original[i].value} /\ promise'.adds = {}
      BY <2>1
    <3>2. {j \in DOMAIN original : subs'[j].state # "clean" \/ original[j].name \in ToSet(todo')} = {i}
      BY <1>7, <2>3 DEF ToSet
    <3>3. Changed' = {}
      BY <2>2, <2>3 DEF Changed
    <3>4. Cardinality(promise'.adds) = 0 /\ Len(todo') = 0
      BY <1>7, <3>1, FS_EmptySet
    <3>5. {<<ops', j>> : j \in 1..0} = {}
      OBVIOUS
    <3>. QED BY <1>6, <3>1, <3>2, <3>3, <3>4, <3>5 DEF PromiseInv
  <2>. QED BY <1>6, <1>7, <1>8, <2>4, <2>5, <2>6 DEF EditInv
<1>. QED BY <1>9, <1>10

(* POST, and PUT of a member that is not there, add one at the end.        *)
OneNew(name, child) ==
    /\ Ask(NoTarget, {}, {Content(1)})
    /\ \/ subs' = CreateChild(Preread, name, Content(1))
       \/ subs' = AddLocal(CreateChild(Preread, name, Content(1)), child)
    /\ own' = "dirty"
    /\ pc' = "edited"
    /\ UNCHANGED todo

LEMMA RequestsForOneNew ==
    /\ \A key \in Keys : Post(<<key, 0>>) =>
          LET name == NextName(Preread, <<key, 0>>)
          IN  <<key, 0>> \in Names /\ OneNew(name, Fresh(name, Content(1)))
    /\ \A wanted \in Givable : PutNewMember(wanted) =>
          LET name == NextName(Preread, wanted)
          IN  wanted \in Names /\ OneNew(name, Fresh(name, Content(1)))
<1>1. \A key \in Keys : <<key, 0>> \in Names
  BY ShadowAssumption DEF ShadowAssumption, Names, NoName, Position
<1>. QED BY <1>1, GivableType DEF Post, PutNewMember, OneNew

LEMMA OneNewKeepsOrder ==
    ASSUME OrdinaryUse, OrdinaryInv, NEW wanted \in Names,
           NEW name, name = NextName(Preread, wanted),
           NEW child, child = Fresh(name, Content(1)), OneNew(name, child)
    PROVE  ContentsInv' /\ EditInv'
<1>. DEFINE value == Content(1)
            n == Len(original)
<1>1. /\ ShadowInv /\ ListNumbered /\ ContentsInv /\ base \in {"LIST", "COLLECTION"}
      /\ original \in Seq(Member) /\ NamesDiffer(original) /\ ops \in Nat
      /\ n \in Nat /\ DOMAIN original = 1..n
  BY OrdinaryFacts DEF OrdinaryInv
<1>2. /\ Preread \in Seq(Sub) /\ DOMAIN Preread = DOMAIN original /\ Len(Preread) = n
      /\ \A k \in DOMAIN original : /\ Preread[k].name = original[k].name
                                    /\ Preread[k].value = original[k].value
                                    /\ Preread[k].state = "clean"
  <2>1. /\ Preread \in Seq(Sub) /\ DOMAIN Preread = DOMAIN original
        /\ \A k \in DOMAIN original : Preread[k] = [name |-> original[k].name,
                                                    value |-> original[k].value,
                                                    state |-> "clean"]
    BY <1>1, PrereadType
  <2>2. Len(Preread) = n
    BY <1>1, <2>1
  <2>. QED BY <2>1, <2>2
<1>3. /\ Ask(NoTarget, {}, {value}) /\ pc' = "edited" /\ own' = "dirty" /\ todo' = todo
      /\ \/ subs' = CreateChild(Preread, name, value)
         \/ subs' = AddLocal(CreateChild(Preread, name, value), child)
      /\ promise' = [drops |-> {}, adds |-> {value}]
      /\ original' = original /\ base' = base /\ ops < MaxOps
  BY DEF OneNew, Ask
<1>4. ContentsInv' /\ ops' = ops + 1 /\ todo = <<>> /\ todo' = <<>>
  <2>1. pc' # "idle"
    BY <1>3
  <2>. HIDE DEF value
  <2>. QED BY <1>1, <1>3, <2>1, AskKeepsContents
<1>6. name \notin NamesOf(Preread) /\ name \in Names
  <2>1. base = "LIST" => \A k \in DOMAIN Preread : Preread[k].name = Position(k)
    BY <1>1, <1>2 DEF ListNumbered
  <2>2. \A k \in DOMAIN Preread : Preread[k].state # "deleted"
    BY <1>2
  <2>. QED BY <1>1, <1>2, <2>1, <2>2, NextNameNew, NextNameType
<1>7. value \in Values /\ value = <<ops', 1>>
  BY <1>1, <1>3, <1>4, ContentType DEF Content
<1>8. child \in Sub /\ child.name = name /\ child.value = value /\ child.state = "fresh"
  <2>1. child = Fresh(name, value)
    OBVIOUS
  <2>. HIDE DEF value
  <2>. QED BY <1>6, <1>7, <2>1 DEF Fresh, Sub
<1>9. CreateChild(Preread, name, value) = AddLocal(Preread, child)
  BY <1>1 DEF CreateChild
<1>. HIDE DEF value
<1>10. subs' = Append(Preread, child)
  BY <1>2, <1>3, <1>6, <1>8, <1>9, AddLocalNew
<1>11. /\ Len(subs') = n + 1 /\ DOMAIN subs' = 1..n + 1
       /\ subs'[n + 1] = child /\ \A k \in 1..n : subs'[k] = Preread[k]
  BY <1>2, <1>10
<1>. HIDE DEF n
<1>12. \A k \in 1..n + 1 : k \in 1..n \/ k = n + 1
  BY <1>1
<1>13. ShadowsInv'
  <2>2. \A k \in DOMAIN original :
           /\ subs'[k].name = original[k].name
           /\ subs'[k].state \in {"clean", "dirty", "deleted"}
           /\ subs'[k].state = "clean" => subs'[k].value = original[k].value
    BY <1>1, <1>2, <1>11
  <2>3. \A k \in DOMAIN subs' : k > n => subs'[k].state = "fresh"
    BY <1>1, <1>8, <1>11
  <2>4. Len(subs') >= n
    BY <1>1, <1>11
  <2>. QED BY <1>3, <2>2, <2>3, <2>4 DEF ShadowsInv, n
<1>14. OwnInv'
  BY <1>3 DEF OwnInv
<1>15. TodoInv'
  BY <1>4 DEF TodoInv, IsInjective
<1>16. PromiseInv'
  <2>1. promise'.drops = {} /\ promise'.adds = {value} /\ Len(todo') = 0
    BY <1>3, <1>4
  <2>2. \A j \in DOMAIN original : ~(subs'[j].state # "clean" \/ original[j].name \in ToSet(todo'))
    BY <1>1, <1>2, <1>4, <1>11 DEF ToSet
  <2>3. Changed' = {n + 1}
    BY <1>1, <1>2, <1>8, <1>11, <1>12 DEF Changed
  <2>4. Cardinality(promise'.adds) = 1
    BY <2>1, FS_Singleton
  <2>5. {<<ops', j>> : j \in 1..1} = {value}
    BY <1>7
  <2>6. {subs'[k].value : k \in Changed'} = {value}
    BY <1>8, <1>11, <2>3
  <2>7. promise'.drops = {original'[k].value : k \in {j \in DOMAIN original' :
                              subs'[j].state # "clean" \/ original'[j].name \in ToSet(todo')}}
    BY <1>3, <2>1, <2>2
  <2>8. promise'.adds = {<<ops', j>> : j \in 1..Cardinality(promise'.adds)}
    BY <2>1, <2>4, <2>5
  <2>9. {subs'[k].value : k \in Changed'}
           = {<<ops', j>> : j \in 1..Cardinality(promise'.adds) - Len(todo')}
    <3>1. Cardinality(promise'.adds) - Len(todo') = 1
      BY <2>1, <2>4
    <3>. QED BY <2>5, <2>6, <3>1
  <2>. QED BY <2>3, <2>7, <2>8, <2>9 DEF PromiseInv
<1>. QED BY <1>3, <1>4, <1>13, <1>14, <1>15, <1>16 DEF EditInv

(* PUT of the container deletes what is not given.                         *)
LEMMA PutAllKeepsOrder ==
    ASSUME OrdinaryUse, OrdinaryInv,
           NEW given \in Given, NEW partial \in BOOLEAN, PutAll(given, partial)
    PROVE  ContentsInv' /\ EditInv'
<1>. DEFINE missing == IF partial THEN {} ELSE NamesOf(original) \ ToSet(given)
            replaced == {m.value : m \in {x \in ToSet(original) : x.name \in missing \cup ToSet(given)}}
            adds == {Content(k) : k \in DOMAIN given}
            n == Len(original)
<1>1. /\ ShadowInv /\ ListNumbered /\ ContentsInv /\ base \in {"LIST", "COLLECTION"}
      /\ original \in Seq(Member) /\ NamesDiffer(original) /\ ops \in Nat
      /\ n \in Nat /\ DOMAIN original = 1..n
  BY OrdinaryFacts DEF OrdinaryInv
<1>2. /\ Preread \in Seq(Sub) /\ DOMAIN Preread = DOMAIN original
      /\ \A k \in DOMAIN original : Preread[k] = [name |-> original[k].name,
                                                  value |-> original[k].value,
                                                  state |-> "clean"]
  BY <1>1, PrereadType
<1>3. /\ Ask(NoTarget, replaced, adds) /\ pc' # "idle" /\ own' = "dirty" /\ todo' = given
      /\ subs' = Delete(Preread, missing)
      /\ promise' = [drops |-> replaced, adds |-> adds]
      /\ original' = original /\ base' = base
  BY DEF PutAll, Ask
<1>4. ContentsInv' /\ ops' = ops + 1
  <2>. HIDE DEF replaced, adds
  <2>. QED BY <1>1, <1>3, AskKeepsContents
<1>5. /\ given \in Seq(Names) /\ IsInjective(given)
      /\ Len(given) \in Nat /\ DOMAIN given = 1..Len(given)
  <2>1. given \in Seq(Names) /\ IsInjective(given)
    BY GivenType DEF OrdinaryUse
  <2>. QED BY <2>1
<1>6. ASSUME NEW k \in DOMAIN original
      PROVE  /\ subs'[k].name = original[k].name
             /\ original[k].name \in missing => subs'[k].state = "deleted"
             /\ original[k].name \notin missing => /\ subs'[k].state = "clean"
                                                   /\ subs'[k].value = original[k].value
  <2>. DEFINE p == Preread[k]
  <2>1. p = [name |-> original[k].name, value |-> original[k].value, state |-> "clean"]
    BY <1>2
  <2>2. subs'[k] = IF p.name \in missing THEN [p EXCEPT !.state = "deleted"] ELSE p
    BY <1>2, <1>3 DEF Delete
  <2>. HIDE DEF p, missing
  <2>. QED BY <2>1, <2>2
<1>7. DOMAIN subs' = DOMAIN original /\ Len(subs') = n
  <2>1. DOMAIN subs' = DOMAIN original
    BY <1>2, <1>3 DEF Delete
  <2>2. subs' \in Seq(Sub)
    BY <1>1, PutAllKeepsTypes DEF ShadowInv, TypeOK
  <2>. QED BY <1>1, <2>1, <2>2
<1>8. \A x \in missing : x \notin ToSet(given) /\ ~partial
  OBVIOUS
<1>9. \A k \in DOMAIN original : original[k].name \in NamesOf(original)
  BY DEF NamesOf, ToSet
<1>10. ShadowsInv'
  <2>2. \A k \in DOMAIN original : subs'[k].state \in {"clean", "dirty", "deleted"}
    BY <1>6
  <2>. HIDE DEF missing
  <2>. QED BY <1>1, <1>3, <1>6, <1>7, <2>2 DEF ShadowsInv
<1>11. OwnInv'
  BY <1>3 DEF OwnInv
<1>12. PromiseInv'
  <2>1. promise'.drops = replaced /\ promise'.adds = adds
    BY <1>3
  <2>2. adds = {<<ops', j>> : j \in 1..Len(given)} /\ Cardinality(adds) = Len(given)
    <3>1. adds = {<<ops', j>> : j \in 1..Len(given)}
      BY <1>4, <1>5 DEF Content
    <3>. QED BY <1>5, <3>1, ContentsCounted
  <2>3. replaced = {original[k].value : k \in {j \in DOMAIN original :
                       subs'[j].state # "clean" \/ original[j].name \in ToSet(given)}}
    <3>1. \A k \in DOMAIN original : subs'[k].state # "clean" <=> original[k].name \in missing
      BY <1>6
    <3>. HIDE DEF missing
    <3>. QED BY <3>1 DEF ToSet
  <2>4. Changed' = {}
    BY <1>6, <1>7 DEF Changed
  <2>5. {<<ops', j>> : j \in 1..Len(given) - Len(given)} = {}
    BY <1>5
  <2>. HIDE DEF replaced, adds
  <2>6. {subs'[k].value : k \in Changed'}
           = {<<ops', j>> : j \in 1..Cardinality(promise'.adds) - Len(todo')}
    BY <1>3, <2>1, <2>2, <2>4, <2>5
  <2>7. promise'.drops = {original'[k].value : k \in {j \in DOMAIN original' :
                              subs'[j].state # "clean" \/ original'[j].name \in ToSet(todo')}}
    BY <1>3, <2>1, <2>3
  <2>8. promise'.adds = {<<ops', j>> : j \in 1..Cardinality(promise'.adds)}
    BY <2>1, <2>2
  <2>. QED BY <2>4, <2>6, <2>7, <2>8 DEF PromiseInv
<1>13. TodoInv'
  <2>1. ASSUME NEW j \in DOMAIN given, NEW k \in DOMAIN original, given[j] = subs'[k].name
        PROVE  subs'[k].state = "clean"
    <3>1. original[k].name \in ToSet(given)
      BY <1>6, <2>1 DEF ToSet
    <3>. QED BY <1>6, <1>8, <3>1
  <2>2. todo' \in Seq(Names) /\ IsInjective(todo')
    BY <1>3, <1>5
  <2>. QED BY <1>3, <1>7, <2>1, <2>2 DEF TodoInv
<1>. QED BY <1>3, <1>4, <1>10, <1>11, <1>12, <1>13 DEF EditInv

(* Putting the next given member, found or new, moves it from the contents *)
(* that are still to come to those that are there.                         *)
LEMMA PutChildKeepsOrder ==
    ASSUME OrdinaryUse, OrdinaryInv, PutChild
    PROVE  ContentsInv' /\ EditInv'
<1>. DEFINE name == Head(todo)
            c == Cardinality(promise.adds)
            l == Len(todo)
            value == <<ops, c - l + 1>>
            rest == Tail(todo)
<1>1. /\ pc = "putting" /\ pc' \in {"putting", "edited"} /\ todo' = rest
      /\ name \in NamesOf(subs) => subs' = PutValue(subs, name, value)
      /\ name \notin NamesOf(subs) => /\ name \in {NextName(subs, name), NoName}
                                      /\ subs' = CreateChild(subs, NextName(subs, name), value)
      /\ UNCHANGED <<base, original, own, promise, ops>>
  BY DEF PutChild
<1>2. /\ ShadowInv /\ ContentsInv /\ base \in {"LIST", "COLLECTION"} /\ ops \in Nat
      /\ original \in Seq(Member) /\ NamesDiffer(original)
      /\ Len(original) \in Nat /\ DOMAIN original = 1..Len(original)
      /\ subs \in Seq(Sub) /\ NamesDiffer(subs)
      /\ Len(subs) \in Nat /\ DOMAIN subs = 1..Len(subs)
  BY OrdinaryFacts DEF OrdinaryInv
<1>3. ShadowsInv /\ OwnInv /\ PromiseInv /\ TodoInv
  BY <1>1 DEF OrdinaryInv, EditInv
<1>4. /\ todo # <<>> /\ IsFiniteSet(promise.adds) /\ l <= c /\ todo \in Seq(Names)
  BY <1>1, <1>2, <1>3 DEF ShadowInv, RequestInv, TodoInv
<1>5. /\ l \in Nat \ {0} /\ c \in Nat /\ DOMAIN todo = 1..l
      /\ rest \in Seq(Names) /\ Len(rest) = l - 1 /\ DOMAIN rest = 1..l - 1
      /\ name = todo[1] /\ name \in Names
      /\ \A j \in 1..l - 1 : rest[j] = todo[j + 1] /\ j + 1 \in DOMAIN todo
  <2>1. c \in Nat
    BY <1>4, FS_CardinalityType
  <2>2. l \in Nat \ {0} /\ DOMAIN todo = 1..l
    BY <1>2, <1>4
  <2>3. rest \in Seq(Names) /\ Len(rest) = l - 1
    BY <1>2, <1>4
  <2>4. DOMAIN rest = 1..l - 1
    BY <2>3
  <2>5. name = todo[1] /\ name \in Names
    BY <1>2, <1>4
  <2>6. \A j \in 1..l - 1 : rest[j] = todo[j + 1]
    BY <1>2, <1>4
  <2>7. \A j \in 1..l - 1 : j + 1 \in 1..l
    BY <2>2
  <2>. QED BY <2>1, <2>2, <2>3, <2>4, <2>5, <2>6, <2>7
<1>6. value \in Values
  <2>1. ops \in 1..MaxOps
    BY <1>1, <1>2 DEF ShadowInv, RequestInv
  <2>2. c - l + 1 \in Nat \ {0}
    BY <1>4, <1>5
  <2>. HIDE DEF c, l
  <2>. QED BY <2>1, <2>2 DEF Values
<1>. HIDE DEF name, c, l, rest
<1>7. ToSet(todo) = ToSet(rest) \cup {name} /\ name \notin ToSet(rest) /\ IsInjective(rest)
  <2>1. IsInjective(todo)
    BY <1>3 DEF TodoInv
  <2>2. \A j \in 1..l : j = 1 \/ j - 1 \in 1..l - 1
    BY <1>5
  <2>3. 1 \in DOMAIN todo /\ \A j \in 1..l - 1 : j + 1 # 1 /\ (j - 1) + 1 = j
    BY <1>5
  <2>4. \A x : x \in ToSet(todo) <=> x \in ToSet(rest) \/ x = name
    <3>1. ASSUME NEW j \in 1..l PROVE todo[j] \in ToSet(rest) \/ todo[j] = name
      <4>1. CASE j = 1
        BY <1>5, <4>1
      <4>2. CASE j - 1 \in 1..l - 1
        <5>1. rest[j - 1] = todo[(j - 1) + 1] /\ (j - 1) + 1 = j
          BY <1>5, <4>2
        <5>. QED BY <1>5, <4>2, <5>1 DEF ToSet
      <4>. QED BY <2>2, <4>1, <4>2
    <3>2. \A j \in 1..l - 1 : rest[j] \in ToSet(todo)
      BY <1>5 DEF ToSet
    <3>3. name \in ToSet(todo)
      BY <1>5, <2>3 DEF ToSet
    <3>. QED BY <1>5, <3>1, <3>2, <3>3 DEF ToSet
  <2>5. name \notin ToSet(rest)
    <3>1. \A j \in 1..l - 1 : rest[j] # name
      BY <1>5, <2>1, <2>3 DEF IsInjective
    <3>. QED BY <1>5, <3>1 DEF ToSet
  <2>6. \A i, j \in 1..l - 1 : rest[i] = rest[j] => i = j
    <3>. SUFFICES ASSUME NEW i \in 1..l - 1, NEW j \in 1..l - 1, rest[i] = rest[j] PROVE i = j
      OBVIOUS
    <3>1. i + 1 = j + 1
      BY <1>5, <2>1 DEF IsInjective
    <3>. QED BY <1>5, <3>1
  <2>. QED BY <1>5, <2>4, <2>5, <2>6 DEF IsInjective
<1>8. ContentsInv'
  <2>1. pc # "idle" /\ pc' # "idle"
    BY <1>1
  <2>. QED BY <1>1, <1>2, <2>1 DEF ContentsInv
(* The contents put so far, and one more.                                  *)
<1>9. /\ {<<ops, j>> : j \in 1..c - l} \cup {value} = {<<ops, j>> : j \in 1..c - (l - 1)}
      /\ value \notin {<<ops, j>> : j \in 1..c - l}
  <2>1. \A j : j \in 1..c - (l - 1) <=> j \in 1..c - l \/ j = c - l + 1
    BY <1>4, <1>5
  <2>2. c - l + 1 \notin 1..c - l
    BY <1>4, <1>5
  <2>. QED BY <2>1, <2>2
<1>10. own = "dirty"
  BY <1>3, <1>4 DEF OwnInv
<1>11. OwnInv'
  BY <1>1, <1>10 DEF OwnInv
<1>. HIDE DEF value
<1>14. CASE name \in NamesOf(subs)
  <2>1. PICK i \in DOMAIN subs : subs[i].name = name
    BY <1>14 DEF NamesOf, ToSet
  <2>2. /\ subs[i].state = "clean" /\ i \in DOMAIN original /\ original[i].name = name
        /\ \A k \in DOMAIN subs : subs[k].name = name <=> k = i
    <3>1. subs[i].state = "clean"
      <4>1. 1 \in DOMAIN todo /\ todo[1] = subs[i].name
        BY <1>5, <2>1
      <4>. QED BY <1>3, <4>1 DEF TodoInv
    <3>2. i \in DOMAIN original /\ original[i].name = name
      <4>1. ~(i > Len(original))
        BY <1>3, <3>1 DEF ShadowsInv
      <4>2. i \in DOMAIN original
        BY <1>2, <4>1
      <4>. QED BY <1>3, <2>1, <4>2 DEF ShadowsInv
    <3>3. \A k \in DOMAIN subs : subs[k].name = name <=> k = i
      BY <1>2, <2>1 DEF NamesDiffer
    <3>. QED BY <3>1, <3>2, <3>3
  <2>3. /\ subs' = PutValue(subs, name, value) /\ subs' \in Seq(Sub)
        /\ DOMAIN subs' = DOMAIN subs /\ Len(subs') = Len(subs)
    <3>1. subs' = PutValue(subs, name, value)
      BY <1>1, <1>14
    <3>2. subs' \in Seq(Sub) /\ DOMAIN subs' = DOMAIN subs
      BY <1>2, <1>6, <3>1, PutValueType
    <3>. QED BY <1>2, <3>1, <3>2
  <2>4. ASSUME NEW k \in DOMAIN subs
        PROVE  /\ subs'[k].name = subs[k].name
               /\ k = i => subs'[k].state = "dirty" /\ subs'[k].value = value
               /\ k # i => subs'[k].state = subs[k].state /\ subs'[k].value = subs[k].value
    <3>. DEFINE p == subs[k]
    <3>1. p \in Sub
      BY <1>2
    <3>2. subs'[k] = IF p.name # name THEN p
                     ELSE [p EXCEPT !.value = value, !.state = IF @ = "clean" THEN "dirty" ELSE @]
      BY <2>3 DEF PutValue
    <3>3. p.name = name <=> k = i
      BY <2>2
    <3>4. k = i => p.state = "clean"
      BY <2>2
    <3>. HIDE DEF p
    <3>5. CASE k = i
      <4>1. subs'[k].name = p.name /\ subs'[k].state = "dirty" /\ subs'[k].value = value
        BY <3>1, <3>2, <3>3, <3>4, <3>5 DEF Sub
      <4>. QED BY <3>5, <4>1 DEF p
    <3>6. CASE k # i
      <4>1. subs'[k] = p
        BY <3>2, <3>3, <3>6
      <4>. QED BY <3>6, <4>1 DEF p
    <3>. QED BY <3>5, <3>6
  <2>5. \A k \in DOMAIN original : k \in DOMAIN subs
    BY <1>2, <1>3 DEF ShadowsInv
  <2>6. ShadowsInv'
    <3>1. \A k \in DOMAIN original : /\ subs'[k].name = original[k].name
                                     /\ subs'[k].state \in {"clean", "dirty", "deleted"}
                                     /\ subs'[k].state = "clean" => subs'[k].value = original[k].value
      BY <1>3, <2>2, <2>4, <2>5 DEF ShadowsInv
    <3>2. \A k \in DOMAIN subs : k > Len(original) => subs'[k].state = "fresh"
      <4>1. \A k \in DOMAIN subs : k > Len(original) => k # i
        BY <1>2, <2>2
      <4>. QED BY <1>3, <2>4, <4>1 DEF ShadowsInv
    <3>4. Len(subs') >= Len(original)
      BY <1>3, <2>3 DEF ShadowsInv
    <3>. QED BY <1>1, <2>3, <3>1, <3>2, <3>4 DEF ShadowsInv
  <2>7. Changed' = Changed \cup {i} /\ i \notin Changed /\ \A k \in Changed : subs'[k].value = subs[k].value
    <3>1. i \notin Changed
      BY <2>2 DEF Changed
    <3>2. \A k \in DOMAIN subs : k \in Changed' <=> k \in Changed \/ k = i
      BY <2>3, <2>4 DEF Changed
    <3>3. Changed' \subseteq DOMAIN subs /\ Changed \subseteq DOMAIN subs
      BY <2>3 DEF Changed
    <3>. QED BY <2>4, <3>1, <3>2, <3>3
  <2>8. PromiseInv'
    <3>1. {j \in DOMAIN original : subs'[j].state # "clean" \/ original[j].name \in ToSet(rest)}
            = {j \in DOMAIN original : subs[j].state # "clean" \/ original[j].name \in ToSet(todo)}
      <4>1. ASSUME NEW j \in DOMAIN original
            PROVE  subs'[j].state # "clean" \/ original[j].name \in ToSet(rest)
                     <=> subs[j].state # "clean" \/ original[j].name \in ToSet(todo)
        <5>1. CASE j = i
          BY <1>7, <2>2, <2>4, <5>1
        <5>2. CASE j # i
          <6>1. original[j].name # name
            BY <1>2, <2>2, <5>2 DEF NamesDiffer
          <6>. QED BY <1>7, <2>4, <2>5, <5>2, <6>1
        <5>. QED BY <5>1, <5>2
      <4>. QED BY <4>1
    <3>2. {subs'[k].value : k \in Changed'} = {subs[k].value : k \in Changed} \cup {value}
      <4>1. subs'[i].value = value
        BY <2>4
      <4>. QED BY <2>7, <4>1
    <3>3. promise'.drops = {original'[k].value : k \in {j \in DOMAIN original' :
                                subs'[j].state # "clean" \/ original'[j].name \in ToSet(todo')}}
      BY <1>1, <1>3, <3>1 DEF PromiseInv
    <3>4. promise'.adds = {<<ops', j>> : j \in 1..Cardinality(promise'.adds)}
      BY <1>1, <1>3 DEF PromiseInv
    <3>5. {subs[k].value : k \in Changed} = {<<ops, j>> : j \in 1..c - l}
      BY <1>3 DEF PromiseInv, c, l
    <3>6. {subs'[k].value : k \in Changed'}
             = {<<ops', j>> : j \in 1..Cardinality(promise'.adds) - Len(todo')}
      <4>1. Cardinality(promise'.adds) - Len(todo') = c - (l - 1) /\ ops' = ops
        BY <1>1, <1>5 DEF c
      <4>2. {subs'[k].value : k \in Changed'} = {<<ops, j>> : j \in 1..c - (l - 1)}
        BY <1>9, <3>2, <3>5
      <4>. QED BY <4>1, <4>2
    <3>7. \A j, k \in Changed' : subs'[j].value = subs'[k].value => j = k
      <4>1. \A k \in Changed : subs[k].value # value
        BY <1>9, <3>5
      <4>2. \A j, k \in Changed : subs[j].value = subs[k].value => j = k
        BY <1>3 DEF PromiseInv
      <4>3. subs'[i].value = value
        BY <2>4
      <4>. QED BY <2>7, <4>1, <4>2, <4>3
    <3>. QED BY <3>3, <3>4, <3>6, <3>7 DEF PromiseInv
  <2>9. TodoInv'
    <3>1. ASSUME NEW j \in DOMAIN rest, NEW k \in DOMAIN subs, rest[j] = subs'[k].name
          PROVE  subs'[k].state = "clean"
      <4>1. rest[j] # name
        BY <1>7 DEF ToSet
      <4>2. k # i /\ subs[k].name = rest[j]
        BY <2>2, <2>4, <3>1, <4>1
      <4>3. subs[k].state = "clean"
        <5>1. j + 1 \in DOMAIN todo /\ todo[j + 1] = subs[k].name
          BY <1>5, <4>2
        <5>. QED BY <1>3, <5>1 DEF TodoInv
      <4>. QED BY <2>4, <4>2, <4>3
    <3>. QED BY <1>1, <1>5, <1>7, <2>3, <3>1 DEF TodoInv
  <2>. QED BY <1>1, <1>8, <1>11, <2>6, <2>8, <2>9 DEF EditInv
<1>15. CASE name \notin NamesOf(subs)
  <2>. DEFINE new == NextName(subs, name)
              child == Fresh(new, value)
              n == Len(subs)
  <2>2. new = name /\ new \notin NamesOf(subs) /\ new \in Names
    <3>1. name # NoName
      BY <1>5 DEF Names
    <3>. QED BY <1>1, <1>5, <1>15, <3>1
  <2>3. subs' = CreateChild(subs, new, value) /\ CreateChild(subs, new, value) = AddLocal(subs, child)
    BY <1>1, <1>2, <1>15 DEF CreateChild
  <2>. HIDE DEF new
  <2>4. child \in Sub /\ child.name = new /\ child.value = value /\ child.state = "fresh"
    BY <1>6, <2>2 DEF Fresh, Sub
  <2>. HIDE DEF child
  <2>5. subs' = Append(subs, child)
    BY <1>2, <2>2, <2>3, <2>4, AddLocalNew
  <2>6. /\ n \in Nat /\ DOMAIN subs = 1..n /\ Len(subs') = n + 1 /\ DOMAIN subs' = 1..n + 1
        /\ subs'[n + 1] = child /\ \A k \in 1..n : subs'[k] = subs[k]
    BY <1>2, <2>5
  <2>7. \A k \in 1..n + 1 : k \in 1..n \/ k = n + 1
    BY <2>6
  <2>8. Len(original) <= n /\ \A k \in DOMAIN original : k \in 1..n
    <3>1. Len(original) <= n
      BY <1>2, <1>3 DEF ShadowsInv
    <3>. QED BY <1>2, <2>6, <3>1
  <2>. HIDE DEF n
  <2>9. ShadowsInv'
    <3>1. \A k \in DOMAIN original : /\ subs'[k].name = original[k].name
                                     /\ subs'[k].state \in {"clean", "dirty", "deleted"}
                                     /\ subs'[k].state = "clean" => subs'[k].value = original[k].value
      BY <1>3, <2>6, <2>8 DEF ShadowsInv
    <3>2. \A k \in 1..n + 1 : k > Len(original) => subs'[k].state = "fresh"
      BY <1>3, <2>4, <2>6, <2>7 DEF ShadowsInv
    <3>4. Len(subs') >= Len(original)
      BY <1>2, <2>6, <2>8
    <3>. QED BY <1>1, <2>6, <3>1, <3>2, <3>4 DEF ShadowsInv
  <2>10. /\ Changed' = Changed \cup {n + 1} /\ n + 1 \notin Changed
         /\ \A k \in Changed : subs'[k].value = subs[k].value
    <3>1. n + 1 \notin 1..n /\ n + 1 \in 1..n + 1 /\ \A k \in 1..n : k \in 1..n + 1
      BY <2>6
    <3>2. n + 1 \notin Changed
      BY <2>6, <3>1 DEF Changed
    <3>3. \A k \in 1..n + 1 : k \in Changed' <=> k \in Changed \/ k = n + 1
      BY <2>4, <2>6, <2>7, <3>1 DEF Changed
    <3>4. Changed' \subseteq 1..n + 1 /\ Changed \subseteq 1..n
      BY <2>6 DEF Changed
    <3>. QED BY <2>6, <3>1, <3>2, <3>3, <3>4
  <2>11. PromiseInv'
    <3>1. {j \in DOMAIN original : subs'[j].state # "clean" \/ original[j].name \in ToSet(rest)}
            = {j \in DOMAIN original : subs[j].state # "clean" \/ original[j].name \in ToSet(todo)}
      <4>1. ASSUME NEW j \in DOMAIN original PROVE original[j].name # name
        <5>1. subs[j].name \in NamesOf(subs) /\ subs[j].name = original[j].name
          BY <1>3, <2>6, <2>8 DEF ShadowsInv, NamesOf, ToSet
        <5>. QED BY <1>15, <5>1
      <4>. QED BY <1>7, <2>6, <2>8, <4>1
    <3>2. {subs'[k].value : k \in Changed'} = {subs[k].value : k \in Changed} \cup {value}
      <4>1. subs'[n + 1].value = value
        BY <2>4, <2>6
      <4>. QED BY <2>10, <4>1
    <3>3. promise'.drops = {original'[k].value : k \in {j \in DOMAIN original' :
                                subs'[j].state # "clean" \/ original'[j].name \in ToSet(todo')}}
      BY <1>1, <1>3, <3>1 DEF PromiseInv
    <3>4. promise'.adds = {<<ops', j>> : j \in 1..Cardinality(promise'.adds)}
      BY <1>1, <1>3 DEF PromiseInv
    <3>5. {subs[k].value : k \in Changed} = {<<ops, j>> : j \in 1..c - l}
      BY <1>3 DEF PromiseInv, c, l
    <3>6. {subs'[k].value : k \in Changed'}
             = {<<ops', j>> : j \in 1..Cardinality(promise'.adds) - Len(todo')}
      <4>1. Cardinality(promise'.adds) - Len(todo') = c - (l - 1) /\ ops' = ops
        BY <1>1, <1>5 DEF c
      <4>2. {subs'[k].value : k \in Changed'} = {<<ops, j>> : j \in 1..c - (l - 1)}
        BY <1>9, <3>2, <3>5
      <4>. QED BY <4>1, <4>2
    <3>7. \A j, k \in Changed' : subs'[j].value = subs'[k].value => j = k
      <4>1. \A k \in Changed : subs[k].value # value
        BY <1>9, <3>5
      <4>2. \A j, k \in Changed : subs[j].value = subs[k].value => j = k
        BY <1>3 DEF PromiseInv
      <4>3. subs'[n + 1].value = value
        BY <2>4, <2>6
      <4>. QED BY <2>10, <4>1, <4>2, <4>3
    <3>. QED BY <3>3, <3>4, <3>6, <3>7 DEF PromiseInv
  <2>12. TodoInv'
    <3>1. \A j \in 1..l - 1 : rest[j] # new
      BY <1>5, <1>7, <2>2 DEF ToSet
    <3>2. ASSUME NEW j \in DOMAIN rest, NEW k \in 1..n + 1, rest[j] = subs'[k].name
          PROVE  subs'[k].state = "clean"
      <4>1. k \in 1..n
        BY <1>5, <2>4, <2>6, <2>7, <3>1, <3>2
      <4>2. j + 1 \in DOMAIN todo /\ todo[j + 1] = subs[k].name /\ k \in DOMAIN subs
        BY <1>5, <2>6, <3>2, <4>1
      <4>3. subs[k].state = "clean"
        BY <1>3, <4>2 DEF TodoInv
      <4>. QED BY <2>6, <4>1, <4>3
    <3>. QED BY <1>1, <1>5, <1>7, <2>6, <3>2 DEF TodoInv
  <2>. QED BY <1>1, <1>8, <1>11, <2>9, <2>11, <2>12 DEF EditInv
<1>. QED BY <1>14, <1>15

-------------------------------------------------------------------------------
(* What a commit leaves.                                                   *)

(* Members that were put get their new value, all others keep theirs.      *)
LEMMA UpdatedValue ==
    ASSUME OrdinaryUse, OrdinaryInv, pc = "edited", NEW k \in DOMAIN original
    PROVE  /\ k \in DOMAIN subs /\ subs[k].name = original[k].name
           /\ subs[k].state # "deleted" => Updated(original, subs)[k].value = subs[k].value
<1>1. /\ ShadowsInv /\ NamesDiffer(subs)
      /\ DOMAIN original = 1..Len(original) /\ DOMAIN subs = 1..Len(subs)
      /\ Len(original) \in Nat /\ Len(subs) \in Nat
  BY OrdinaryFacts DEF OrdinaryInv, EditInv
<1>2. k \in DOMAIN subs /\ subs[k].name = original[k].name
  BY <1>1 DEF ShadowsInv
<1>3. Named(subs, original[k].name) = subs[k]
  BY <1>1, <1>2, NamedAt
<1>4. original[k].name \in NamesIn(subs, "dirty") <=> subs[k].state = "dirty"
  <2>1. \A j \in DOMAIN subs : subs[j].name = original[k].name => j = k
    BY <1>1, <1>2 DEF NamesDiffer
  <2>. QED BY <1>2, <2>1 DEF NamesIn, ToSet
<1>5. CASE subs[k].state = "dirty"
  <2>1. Updated(original, subs)[k] = [original[k] EXCEPT !.value = subs[k].value]
    BY <1>3, <1>4, <1>5 DEF Updated
  <2>2. original[k] \in Member
    BY OrdinaryFacts DEF OrdinaryInv
  <2>. QED BY <1>2, <1>5, <2>1, <2>2 DEF Member
<1>6. CASE subs[k].state = "clean"
  <2>1. Updated(original, subs)[k] = original[k]
    BY <1>4, <1>6 DEF Updated
  <2>. QED BY <1>1, <1>2, <1>6, <2>1 DEF ShadowsInv
<1>. QED BY <1>1, <1>2, <1>5, <1>6 DEF ShadowsInv

(* The contents after a commit are those of the children of the shadow.    *)
LEMMA CommittedValues ==
    ASSUME OrdinaryUse, OrdinaryInv, pc = "edited",
           NEW S, S = {k \in DOMAIN subs : subs[k].state # "deleted"},
           NEW s, s = Committed(original, subs)
    PROVE  /\ DOMAIN s = 1..Cardinality(S)
           /\ \A k \in 1..Cardinality(S) : s[k].value = subs[Nth(S, k)].value
<1>. DEFINE n == Len(original)
            m == Len(subs)
            u == Updated(original, subs)
<1>1. /\ ShadowsInv /\ OwnInv /\ NamesDiffer(subs) /\ NamesDiffer(original)
      /\ original \in Seq(Member) /\ subs \in Seq(Sub)
      /\ DOMAIN original = 1..n /\ DOMAIN subs = 1..m /\ n \in Nat /\ m \in Nat /\ n <= m
  BY OrdinaryFacts DEF OrdinaryInv, EditInv, ShadowsInv
<1>2. /\ u \in Seq(Member) /\ DOMAIN u = 1..n /\ Len(u) = n
      /\ \A k \in 1..n : u[k].name = original[k].name
  <2>1. /\ u \in Seq(Member) /\ DOMAIN u = DOMAIN original
        /\ \A k \in DOMAIN original : u[k].name = original[k].name
    BY <1>1, UpdatedType
  <2>2. DOMAIN u = 1..n
    BY <1>1, <2>1
  <2>. HIDE DEF u
  <2>. QED BY <1>1, <2>1, <2>2
<1>3. \A k \in 1..n : /\ k \in 1..m /\ subs[k].name = original[k].name
                      /\ subs[k].state # "deleted" => u[k].value = subs[k].value
  BY <1>1, UpdatedValue
<1>4. \A k \in 1..m : k > n <=> subs[k].state = "fresh"
  BY <1>1 DEF ShadowsInv
<1>. HIDE DEF u, n, m
<1>5. CASE own = "below"
  <2>1. \A k \in 1..m : subs[k].state # "deleted" /\ k <= n
    BY <1>1, <1>4, <1>5 DEF OwnInv
  <2>2. n = m
    BY <1>1, <2>1
  <2>3. S = 1..n /\ Cardinality(S) = n /\ \A k \in 1..n : Nth(S, k) = k
    <3>1. S = 1..n
      BY <1>1, <2>1, <2>2
    <3>. QED BY <1>1, <3>1, NthOfAll
  <2>4. s = u
    BY <1>5 DEF Committed, u
  <2>. QED BY <1>2, <1>3, <2>1, <2>2, <2>3, <2>4
<1>6. CASE own = "dirty"
  <2>. DEFINE K == {k \in 1..n : subs[k].state # "deleted"}
              F == {k \in 1..m : subs[k].state = "fresh"}
              kept == At(u, K)
              fresh == At(subs, F)
              added == Added(subs)
              all == kept \o added
  <2>1. K \in SUBSET (1..n) /\ K \in SUBSET (1..Len(u))
    BY <1>2
  <2>2. F \in SUBSET (n + 1..m) /\ F \in SUBSET (1..Len(subs))
    <3>1. F \in SUBSET (n + 1..m)
      BY <1>1, <1>4
    <3>2. F \in SUBSET (1..Len(subs))
      BY DEF m
    <3>. QED BY <3>1, <3>2
  <2>3. S = K \cup F
    <3>1. \A k \in 1..m : k \in 1..n \/ k > n
      BY <1>1
    <3>2. \A k \in 1..m : subs[k].state = "fresh" => subs[k].state # "deleted"
      OBVIOUS
    <3>. QED BY <1>1, <1>3, <1>4, <3>1, <3>2
  <2>4. Kept(original, subs) = kept
    <3>1. \A k \in 1..n : u[k].name \in NamesIn(subs, "deleted") \cup NamesIn(subs, "fresh")
                             <=> subs[k].state \in {"deleted", "fresh"}
      <4>. SUFFICES ASSUME NEW k \in 1..n
                    PROVE  u[k].name \in NamesIn(subs, "deleted") \cup NamesIn(subs, "fresh")
                             <=> subs[k].state \in {"deleted", "fresh"}
        OBVIOUS
      <4>1. \A j \in 1..m : subs[j].name = u[k].name <=> j = k
        BY <1>1, <1>2, <1>3 DEF NamesDiffer
      <4>2. k \in 1..m
        BY <1>3
      <4>. QED BY <1>1, <4>1, <4>2 DEF NamesIn, ToSet
    <3>2. \A k \in 1..n : subs[k].state # "fresh"
      BY <1>1, <1>3, <1>4
    <3>3. {k \in DOMAIN u : u[k].name \notin NamesIn(subs, "deleted") \cup NamesIn(subs, "fresh")} = K
      BY <1>2, <3>1, <3>2
    <3>. QED BY <3>3 DEF Kept, Where, u
  <2>5. added = [k \in DOMAIN fresh |-> [name |-> fresh[k].name, value |-> fresh[k].value]]
    BY <1>1 DEF Added, Where
  <2>6. /\ kept \in Seq(Member) /\ Len(kept) = Cardinality(K)
        /\ \A k \in 1..Cardinality(K) : Nth(K, k) \in K /\ kept[k] = u[Nth(K, k)]
    BY <1>2, <2>1, AtProperties
  <2>7. /\ DOMAIN fresh = 1..Cardinality(F)
        /\ \A k \in 1..Cardinality(F) : fresh[k] = subs[Nth(F, k)]
    BY <1>1, <2>2, AtProperties
  <2>8. added \in Seq(Member)
    BY <1>1, KeptAndAddedType
  <2>9. /\ Cardinality(K) \in Nat /\ Cardinality(F) \in Nat
        /\ Cardinality(S) = Cardinality(K) + Cardinality(F)
        /\ \A k \in 1..Cardinality(K) + Cardinality(F) :
              Nth(S, k) = IF k <= Cardinality(K) THEN Nth(K, k) ELSE Nth(F, k - Cardinality(K))
    <3>1. n \in Nat /\ m \in Nat /\ n <= m
      BY <1>1
    <3>2. K \in SUBSET (1..n) /\ F \in SUBSET (n + 1..m)
      BY <2>1, <2>2
    <3>. HIDE DEF K, F
    <3>3. /\ Cardinality(K) \in Nat /\ Cardinality(F) \in Nat
          /\ Cardinality(K \cup F) = Cardinality(K) + Cardinality(F)
          /\ \A k \in 1..Cardinality(K) + Cardinality(F) :
                Nth(K \cup F, k) = IF k <= Cardinality(K) THEN Nth(K, k)
                                   ELSE Nth(F, k - Cardinality(K))
      BY <3>1, <3>2, NthOfTwo
    <3>. QED BY <2>3, <3>3
  <2>. DEFINE a == Cardinality(K)
              b == Cardinality(F)
  <2>10. \A k \in 1..a : kept[k].value = subs[Nth(K, k)].value
    <3>1. \A i \in K : u[i].value = subs[i].value
      BY <1>3
    <3>. QED BY <2>6, <3>1
  <2>11. DOMAIN added = 1..b /\ \A k \in 1..b : added[k].value = subs[Nth(F, k)].value
    <3>. HIDE DEF F
    <3>. QED BY <2>5, <2>7
  <2>12. a \in Nat /\ b \in Nat /\ Len(kept) = a
    BY <2>6, <2>9
  <2>. HIDE DEF K, F, fresh, kept, added
  <2>13. /\ DOMAIN all = 1..a + b
         /\ \A k \in 1..a + b : all[k] = IF k <= a THEN kept[k] ELSE added[k - a]
    <3>. HIDE DEF a, b
    <3>1. Len(added) = b
      BY <2>8, <2>11, <2>12
    <3>. QED BY <2>6, <2>8, <2>12, <3>1
  <2>14. ASSUME NEW k \in 1..a + b PROVE all[k].value = subs[Nth(S, k)].value
    <3>1. CASE k <= a
      <4>1. k \in 1..a
        BY <2>12, <3>1
      <4>. QED BY <2>9, <2>10, <2>13, <3>1, <4>1
    <3>2. CASE ~(k <= a)
      <4>1. k - a \in 1..b
        BY <2>12, <3>2
      <4>. QED BY <2>9, <2>11, <2>13, <3>2, <4>1
    <3>. QED BY <3>1, <3>2
  <2>15. all \in Seq(Member)
    BY <2>6, <2>8
  <2>16. s = Renumber(all)
    BY <1>6, <2>4 DEF Committed, added
  <2>. HIDE DEF all
  <2>17. DOMAIN s = DOMAIN all /\ \A k \in DOMAIN all : s[k].value = all[k].value
    <3>1. CASE base = "LIST"
      <4>1. s = [k \in DOMAIN all |-> [all[k] EXCEPT !.name = Position(k)]]
        BY <2>16, <3>1 DEF Renumber
      <4>2. \A k \in DOMAIN all : all[k] \in Member
        BY <2>15
      <4>. QED BY <4>1, <4>2 DEF Member
    <3>2. CASE base # "LIST"
      BY <2>16, <3>2 DEF Renumber
    <3>. QED BY <3>1, <3>2
  <2>. QED BY <2>9, <2>13, <2>14, <2>17
<1>. QED BY <1>1, <1>5, <1>6 DEF OwnInv

(* A commit keeps the promise of Container.                                *)
LEMMA CommitKeepsPromise ==
    ASSUME OrdinaryUse, OrdinaryInv, Commit,
           NEW c, c = [k \in DOMAIN original |-> original[k].value],
           NEW d, d = [k \in DOMAIN original' |-> original'[k].value]
    PROVE  /\ ContentsInv' /\ EditInv'
           /\ ToSet(d) = (ToSet(c) \ promise.drops) \cup promise.adds
           /\ IsInjective(d)
           /\ At(d, {k \in DOMAIN d : d[k] \in ToSet(c)})
                = At(c, {k \in DOMAIN c : c[k] \notin promise.drops})
<1>. DEFINE n == Len(original)
            m == Len(subs)
            S == {k \in DOMAIN subs : subs[k].state # "deleted"}
            C == {k \in 1..n : subs[k].state = "clean"}
            l == Cardinality(S)
<1>1. /\ pc = "edited" /\ original' = Committed(original, subs)
      /\ pc' = "idle" /\ promise' = Nothing /\ ops' = ops
  BY DEF Commit, EndSession, OrdinaryUse
<1>2. /\ ShadowInv /\ ContentsInv /\ ShadowsInv /\ PromiseInv
      /\ subs \in Seq(Sub) /\ ops \in Nat
      /\ DOMAIN original = 1..n /\ DOMAIN subs = 1..m /\ n \in Nat /\ m \in Nat /\ n <= m
      /\ \A k \in DOMAIN original : original[k].value[1] \in Nat
  BY <1>1, OrdinaryFacts DEF OrdinaryInv, EditInv, ShadowsInv
<1>3. todo = <<>> /\ Len(todo) = 0 /\ ToSet(todo) = {}
  BY <1>1, <1>2 DEF ShadowInv, RequestInv, ToSet
<1>4. /\ DOMAIN d = 1..l
      /\ \A k \in 1..l : d[k] = subs[Nth(S, k)].value
  <2>1. /\ DOMAIN original' = 1..l
        /\ \A k \in 1..l : original'[k].value = subs[Nth(S, k)].value
    BY <1>1, CommittedValues
  <2>. HIDE DEF S, l
  <2>. QED BY <2>1
<1>5. S \in SUBSET (1..m) /\ C \subseteq S /\ S = C \cup Changed /\ Changed \subseteq 1..m
  <2>1. \A k \in 1..m : /\ subs[k].state \in {"clean", "dirty", "deleted", "fresh"}
                        /\ k > n => subs[k].state = "fresh"
    <3>1. \A k \in 1..m : subs[k] \in Sub
      BY <1>2
    <3>. QED BY <1>2, <3>1 DEF Sub, ShadowsInv
  <2>2. \A k \in 1..m : k \in 1..n \/ k > n
    BY <1>2
  <2>3. \A k \in 1..n : k \in 1..m
    BY <1>2
  <2>. HIDE DEF n, m
  <2>. QED BY <1>2, <2>1, <2>2, <2>3 DEF Changed
<1>6. \A k \in 1..n : c[k] = original[k].value /\ (k \in C => subs[k].value = c[k])
  BY <1>2 DEF ShadowsInv
<1>7. \A v \in ToSet(c) : \E k \in 1..n : v = c[k] /\ v[1] < ops
  <2>1. \A k \in 1..n : original[k].value[1] < ops
    BY <1>1, <1>2 DEF ContentsInv
  <2>. QED BY <1>2, <1>6, <2>1 DEF ToSet
<1>8. /\ promise.adds = {subs[k].value : k \in Changed}
      /\ \A k \in Changed : subs[k].value \notin ToSet(c)
  <2>. DEFINE a == Cardinality(promise.adds)
  <2>1. a \in Nat
    BY <1>2, FS_CardinalityType DEF ShadowInv, RequestInv
  <2>2. {subs[k].value : k \in Changed} = {<<ops, i>> : i \in 1..a - Len(todo)}
    BY <1>2 DEF PromiseInv
  <2>3. promise.adds = {<<ops, i>> : i \in 1..a}
    BY <1>2 DEF PromiseInv
  <2>. HIDE DEF a
  <2>4. a - Len(todo) = a
    BY <1>3, <2>1
  <2>5. \A v \in {subs[k].value : k \in Changed} : v[1] = ops
    BY <2>2
  <2>. QED BY <1>2, <1>7, <2>2, <2>3, <2>4, <2>5
<1>9. \A k \in 1..n : c[k] \in ToSet(c) /\ (c[k] \notin promise.drops <=> k \in C)
  <2>1. promise.drops = {c[k] : k \in {j \in 1..n : subs[j].state # "clean"}}
    <3>1. promise.drops = {original[k].value : k \in {j \in DOMAIN original : subs[j].state # "clean"}}
      BY <1>2, <1>3 DEF PromiseInv
    <3>. QED BY <1>2, <1>6, <3>1
  <2>2. \A j, k \in 1..n : c[j] = c[k] => j = k
    BY <1>2, <1>6 DEF ContentsInv
  <2>3. DOMAIN c = 1..n
    BY <1>2
  <2>. QED BY <2>1, <2>2, <2>3 DEF ToSet
<1>10. \A j, k \in S : subs[j].value = subs[k].value => j = k
  <2>1. \A j, k \in C : subs[j].value = subs[k].value => j = k
    BY <1>2, <1>6 DEF ContentsInv
  <2>2. \A j, k \in Changed : subs[j].value = subs[k].value => j = k
    BY <1>2 DEF PromiseInv
  <2>3. \A k \in C : subs[k].value \in ToSet(c)
    BY <1>6, <1>9
  <2>. QED BY <1>5, <1>8, <2>1, <2>2, <2>3
<1>11. /\ l \in Nat
       /\ \A k \in 1..l : Nth(S, k) \in S /\ Cardinality(UpTo(S, Nth(S, k))) = k
       /\ \A i \in S : \E k \in 1..l : Nth(S, k) = i
  <2>1. S \in SUBSET (1..m) /\ m \in Nat
    BY <1>2, <1>5
  <2>. HIDE DEF S, m
  <2>2. l \in Nat
    BY <2>1, PositionsFinite
  <2>3. \A k \in 1..l : Nth(S, k) \in S /\ Cardinality(UpTo(S, Nth(S, k))) = k
    BY <2>1, NthDefinition
  <2>4. \A i \in S : \E k \in 1..l : Nth(S, k) = i
    BY <2>1, NthReachesAll
  <2>. QED BY <2>2, <2>3, <2>4
<1>12. DOMAIN c = 1..n
  BY <1>2
<1>. HIDE DEF S, l, C, n, m
<1>13. IsInjective(d)
  <2>1. ASSUME NEW j \in 1..l, NEW k \in 1..l, d[j] = d[k] PROVE j = k
    <3>1. Nth(S, j) = Nth(S, k)
      BY <1>4, <1>10, <1>11, <2>1
    <3>. QED BY <1>11, <3>1
  <2>. QED BY <1>4, <2>1 DEF IsInjective
<1>14. ToSet(d) = (ToSet(c) \ promise.drops) \cup promise.adds
  <2>1. ToSet(d) = {subs[i].value : i \in S}
    BY <1>4, <1>11 DEF ToSet
  <2>2. {subs[i].value : i \in S} = {subs[i].value : i \in C} \cup promise.adds
    BY <1>5, <1>8
  <2>3. {subs[i].value : i \in C} = ToSet(c) \ promise.drops
    <3>1. \A i \in C : i \in 1..n
      BY DEF C
    <3>2. {subs[i].value : i \in C} \subseteq ToSet(c) \ promise.drops
      BY <1>6, <1>9, <3>1
    <3>3. ASSUME NEW v \in ToSet(c), v \notin promise.drops PROVE v \in {subs[i].value : i \in C}
      BY <1>6, <1>7, <1>9, <3>3
    <3>. QED BY <3>2, <3>3
  <2>. QED BY <2>1, <2>2, <2>3
<1>15. At(d, {k \in DOMAIN d : d[k] \in ToSet(c)}) = At(c, {k \in DOMAIN c : c[k] \notin promise.drops})
  <2>. DEFINE T == {k \in 1..l : d[k] \in ToSet(c)}
  <2>1. {k \in DOMAIN c : c[k] \notin promise.drops} = C
    BY <1>9, <1>12 DEF C
  <2>2. \A k \in 1..l : k \in T <=> Nth(S, k) \in C
    <3>1. \A i \in C : subs[i].value \in ToSet(c)
      BY <1>6, <1>9 DEF C
    <3>. QED BY <1>4, <1>5, <1>8, <1>11, <3>1
  <2>3. T \in SUBSET (1..l) /\ {k \in DOMAIN d : d[k] \in ToSet(c)} = T
    BY <1>4
  <2>. HIDE DEF T
  <2>4. C = Among(S, T)
    BY <1>5, <1>11, <2>2, <2>3 DEF Among
  <2>5. /\ Cardinality(C) = Cardinality(T)
        /\ \A k \in 1..Cardinality(T) : Nth(C, k) = Nth(S, Nth(T, k))
    <3>1. m \in Nat /\ S \in SUBSET (1..m) /\ T \in SUBSET (1..Cardinality(S))
      BY <1>2, <1>5, <2>3 DEF l
    <3>. QED BY <2>4, <3>1, NthOfNth
  <2>6. \A k \in 1..Cardinality(T) : Nth(T, k) \in T
    BY <1>11, <2>3, NthDefinition
  <2>7. ASSUME NEW k \in 1..Cardinality(T) PROVE d[Nth(T, k)] = c[Nth(C, k)]
    <3>1. Nth(T, k) \in 1..l /\ Nth(C, k) = Nth(S, Nth(T, k)) /\ Nth(C, k) \in C
      BY <2>2, <2>3, <2>5, <2>6
    <3>2. subs[Nth(C, k)].value = c[Nth(C, k)]
      BY <1>6, <3>1 DEF C
    <3>. QED BY <1>4, <3>1, <3>2
  <2>8. At(d, T) = At(c, C)
    BY <2>5, <2>7 DEF At
  <2>. QED BY <2>1, <2>3, <2>8
<1>16. ContentsInv'
  <2>1. DOMAIN original' = DOMAIN d /\ \A k \in DOMAIN d : d[k] = original'[k].value
    OBVIOUS
  <2>2. \A j, k \in DOMAIN original' : original'[j].value = original'[k].value => j = k
    BY <1>13, <2>1 DEF IsInjective
  <2>3. \A v \in promise.adds : v[1] = ops
    BY <1>2 DEF PromiseInv
  <2>4. \A v \in ToSet(d) : v[1] <= ops
    <3>1. \A v \in ToSet(c) : v[1] <= ops
      <4>1. \A k \in 1..n : c[k][1] \in Nat
        BY <1>2, <1>6
      <4>. QED BY <1>2, <1>7, <4>1
    <3>2. \A v \in promise.adds : v[1] <= ops
      BY <1>2, <2>3
    <3>. QED BY <1>14, <3>1, <3>2
  <2>5. \A k \in DOMAIN d : d[k] \in ToSet(d)
    BY DEF ToSet
  <2>. QED BY <1>1, <2>1, <2>2, <2>4, <2>5 DEF ContentsInv
<1>17. EditInv'
  BY <1>1 DEF EditInv
<1>. QED BY <1>13, <1>14, <1>15, <1>16, <1>17

-------------------------------------------------------------------------------
(* The refinement.                                                         *)

LEMMA OrdinaryInit == Init => OrdinaryInv
<1>. SUFFICES ASSUME Init PROVE OrdinaryInv
  OBVIOUS
<1>1. original = <<>> /\ pc = "idle" /\ promise = Nothing
  BY DEF Init
<1>2. ContentsInv /\ EditInv
  BY <1>1 DEF ContentsInv, EditInv
<1>. QED BY <1>2, ShadowInit DEF OrdinaryInv

LEMMA OrdinaryStep ==
    ASSUME OrdinaryUse, OrdinaryInv, [Next]_vars
    PROVE  OrdinaryInv'
<1>1. ShadowInv' /\ ListNumbered'
  BY ShadowStep DEF OrdinaryInv
<1>. SUFFICES ContentsInv' /\ EditInv'
  BY <1>1 DEF OrdinaryInv
<1>2. ASSUME NEW name \in NamesOf(original), PutMember(name) \/ DeleteMember(name)
      PROVE  ContentsInv' /\ EditInv'
  BY <1>2, MemberRequestsKeepOrder
<1>3. ASSUME \/ \E key \in Keys : Post(<<key, 0>>)
             \/ \E name \in Givable : PutNewMember(name)
      PROVE  ContentsInv' /\ EditInv'
  <2>1. PICK wanted \in Names : LET name == NextName(Preread, wanted)
                                IN  OneNew(name, Fresh(name, Content(1)))
    BY <1>3, RequestsForOneNew
  <2>. QED BY <2>1, OneNewKeepsOrder
<1>4. ASSUME NEW given \in Given, NEW partial \in BOOLEAN, PutAll(given, partial)
      PROVE  ContentsInv' /\ EditInv'
  BY <1>4, PutAllKeepsOrder
<1>5. CASE PutChild
  BY <1>5, PutChildKeepsOrder
<1>6. CASE Discard
  <2>1. /\ pc' = "idle" /\ promise' = Nothing /\ ops' = ops /\ original' = original /\ pc # "idle"
    BY <1>6 DEF Discard, EndSession
  <2>2. ContentsInv'
    BY <2>1 DEF OrdinaryInv, ContentsInv
  <2>. QED BY <2>1, <2>2 DEF EditInv
<1>7. CASE Commit
  BY <1>7, CommitKeepsPromise
<1>8. CASE UNCHANGED vars
  BY <1>8 DEF vars, OrdinaryInv, ContentsInv, EditInv, ShadowsInv, OwnInv, PromiseInv, TodoInv, Changed
<1>. QED BY <1>2, <1>3, <1>4, <1>5, <1>6, <1>7, <1>8 DEF Next

(* Container's operators are those of Shadow.                              *)
LEMMA ContainerOperators ==
    /\ Abstract!Nothing = Nothing
    /\ \A list : Abstract!ToSet(list) = ToSet(list)
    /\ \A list : Abstract!IsInjective(list) <=> IsInjective(list)
    /\ \A list, S : Abstract!At(list, S) = At(list, S)
<1>1. \A S : Abstract!Cardinality(S) = Cardinality(S)
  BY DEF Abstract!Cardinality, Cardinality
<1>2. \A S, k : Abstract!Nth(S, k) = Nth(S, k)
  BY <1>1 DEF Abstract!Nth, Abstract!UpTo, Nth, UpTo
<1>. QED BY <1>1, <1>2 DEF Abstract!Nothing, Nothing, Abstract!ToSet, ToSet, Abstract!IsInjective,
                     IsInjective, Abstract!At, At

(* Every request is an Ask of Container.                                   *)
LEMMA AskMaps ==
    ASSUME OrdinaryUse, OrdinaryInv,
           NEW member, NEW drops, NEW adds, Ask(member, drops, adds),
           drops \subseteq ValuesOf(original),
           \A v \in adds : v \in Values /\ v[1] = ops + 1
    PROVE  Abstract!Ask
<1>. DEFINE c == [k \in DOMAIN original |-> original[k].value]
<1>1. /\ pc = "idle" /\ promise' = [drops |-> drops, adds |-> adds] /\ answer' = "none"
      /\ original' = original
  BY DEF Ask
<1>2. promise = Nothing
  BY <1>1 DEF OrdinaryInv, EditInv
<1>3. ToSet(c) = ValuesOf(original)
  BY DEF ToSet, ValuesOf
<1>4. \A v \in ToSet(c) : v[1] # ops + 1
  <2>1. \A k \in DOMAIN original : original[k].value[1] \in Nat /\ ops \in Nat
    BY OrdinaryFacts DEF OrdinaryInv
  <2>2. \A k \in DOMAIN original : original[k].value[1] <= ops
    BY DEF OrdinaryInv, ContentsInv
  <2>3. \A k \in DOMAIN original : original[k].value[1] # ops + 1
    BY <2>1, <2>2
  <2>. QED BY <2>3 DEF ToSet
<1>. HIDE DEF c
<1>5. adds \subseteq Values \ ToSet(c)
  BY <1>4
<1>6. promise' \in [drops : SUBSET ToSet(c), adds : SUBSET (Values \ ToSet(c))]
  BY <1>1, <1>3, <1>5
<1>. QED BY <1>1, <1>2, <1>6, ContainerOperators DEF Abstract!Ask, c

(* Every step is a step of Container or leaves it alone.                   *)
LEMMA ContainerStep ==
    ASSUME OrdinaryUse, OrdinaryInv, [Next]_vars
    PROVE  [Abstract!Next]_Abstract!containerVars
<1>. DEFINE c == [k \in DOMAIN original |-> original[k].value]
            d == [k \in DOMAIN original' |-> original'[k].value]
<1>1. ShadowInv /\ original \in Seq(Member) /\ NamesDiffer(original)
  BY OrdinaryFacts DEF OrdinaryInv
<1>2. ASSUME ops < MaxOps, NEW k \in Nat \ {0} PROVE Content(k) \in Values /\ Content(k)[1] = ops + 1
  BY <1>1, <1>2, ContentType DEF Content
<1>3. ASSUME NEW name \in NamesOf(original), PutMember(name) \/ DeleteMember(name)
      PROVE  Abstract!Ask
  <2>. DEFINE drops == {Named(original, name).value}
  <2>1. drops \subseteq ValuesOf(original)
    BY NamedIsThere DEF ValuesOf
  <2>2. PICK adds : Ask(name, drops, adds) /\ adds \subseteq {Content(1)}
    BY <1>3 DEF PutMember, DeleteMember
  <2>3. \A v \in adds : v \in Values /\ v[1] = ops + 1
    BY <1>2, <2>2 DEF Ask
  <2>. HIDE DEF drops
  <2>. QED BY <2>1, <2>2, <2>3, AskMaps
<1>4. ASSUME \/ \E key \in Keys : Post(<<key, 0>>)
             \/ \E name \in Givable : PutNewMember(name)
      PROVE  Abstract!Ask
  <2>. DEFINE drops == {}
              adds == {Content(1)}
  <2>1. Ask(NoTarget, drops, adds) /\ drops \subseteq ValuesOf(original)
    BY <1>4 DEF Post, PutNewMember
  <2>2. \A v \in adds : v \in Values /\ v[1] = ops + 1
    BY <1>2, <2>1 DEF Ask
  <2>. HIDE DEF drops, adds
  <2>. QED BY <2>1, <2>2, AskMaps
<1>5. ASSUME NEW given \in Given, NEW partial \in BOOLEAN, PutAll(given, partial)
      PROVE  Abstract!Ask
  <2>. DEFINE missing == IF partial THEN {} ELSE NamesOf(original) \ ToSet(given)
              drops == {m.value : m \in {x \in ToSet(original) : x.name \in missing \cup ToSet(given)}}
              adds == {Content(k) : k \in DOMAIN given}
  <2>1. Ask(NoTarget, drops, adds)
    BY <1>5 DEF PutAll
  <2>2. drops \subseteq ValuesOf(original)
    BY DEF ValuesOf
  <2>3. \A k \in DOMAIN given : k \in Nat \ {0}
    BY GivenType
  <2>4. \A v \in adds : v \in Values /\ v[1] = ops + 1
    BY <1>2, <2>1, <2>3 DEF Ask
  <2>. HIDE DEF drops, adds
  <2>. QED BY <2>1, <2>2, <2>4, AskMaps
<1>6. CASE PutChild
  BY <1>6 DEF PutChild, Abstract!containerVars
<1>7. CASE Discard
  BY <1>7, ContainerOperators DEF Discard, EndSession, Abstract!Forget, Abstract!Next
<1>8. CASE Commit
  <2>1. /\ ToSet(d) = (ToSet(c) \ promise.drops) \cup promise.adds
        /\ IsInjective(d)
        /\ At(d, {k \in DOMAIN d : d[k] \in ToSet(c)})
             = At(c, {k \in DOMAIN c : c[k] \notin promise.drops})
    BY <1>8, CommitKeepsPromise
  <2>2. promise' = Nothing /\ answer' = "done"
    BY <1>8 DEF Commit, EndSession
  <2>. HIDE DEF c, d
  <2>3. Abstract!Keep
    BY <2>1, <2>2, ContainerOperators DEF Abstract!Keep, Abstract!Where, c, d
  <2>. QED BY <2>3 DEF Abstract!Next
<1>9. CASE UNCHANGED vars
  BY <1>9 DEF vars, Abstract!containerVars
<1>. QED BY <1>3, <1>4, <1>5, <1>6, <1>7, <1>8, <1>9 DEF Next, Abstract!Next

(* Lists and Collections: a committed request has done exactly what it     *)
(* asked for and left all other members in place and in order; any other   *)
(* request has changed nothing.                                            *)
THEOREM ContainerRefinement ==
    ASSUME OrdinaryUse
    PROVE  Spec => ContainerSpec
<1>1. Init => Abstract!Init
  <2>. SUFFICES ASSUME Init PROVE Abstract!Init
    OBVIOUS
  <2>1. original = <<>> /\ promise = Nothing /\ answer = "none"
    BY DEF Init
  <2>2. [k \in DOMAIN original |-> original[k].value] = <<>>
    BY <2>1
  <2>. QED BY <2>1, <2>2, ContainerOperators DEF Abstract!Init
<1>2. OrdinaryInv /\ [Next]_vars => OrdinaryInv'
  BY OrdinaryStep
<1>3. OrdinaryInv /\ [Next]_vars => [Abstract!Next]_Abstract!containerVars
  BY ContainerStep
<1>. QED BY <1>1, <1>2, <1>3, OrdinaryInit, PTL DEF Spec, ContainerSpec, Abstract!Spec
===============================================================================
