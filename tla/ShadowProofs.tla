----------------------------- MODULE ShadowProofs -----------------------------
(***************************************************************************)
(* Theorems about Shadow for containers of any size, any names and any     *)
(* number of requests: the types, that no two members share a name, and    *)
(* that a List stays numbered.                                             *)
(***************************************************************************)
EXTENDS Shadow, ListProofs

-------------------------------------------------------------------------------
(* The inductive invariant behind the types.                               *)

(* A session that has made its request has counted it, a PUT has something *)
(* left to put until all is put, and has one new content for each.  Only   *)
(* positions go without a name.  The target of a request is a member.      *)
RequestInv ==
    /\ pc # "idle" => ops \in 1..MaxOps
    /\ pc = "putting" <=> todo # <<>>
    /\ IsFiniteSet(promise.adds) /\ Len(todo) <= Cardinality(promise.adds)
    /\ Positional \/ todo \in Seq(Names)
    /\ target # NoTarget => pc = "edited" /\ target \in NamesOf(subs)

ShadowInv == TypeOK /\ RequestInv

-------------------------------------------------------------------------------
(* Lemmas about the operators.                                             *)

(* Selecting members keeps their type and their names apart.               *)
LEMMA SelectedMembers ==
    ASSUME NEW T, NEW list \in Seq(T), NamesDiffer(list), NEW S \in SUBSET (1..Len(list))
    PROVE  At(list, S) \in Seq(T) /\ NamesDiffer(At(list, S))
<1>. DEFINE s == At(list, S)
<1>1. /\ s \in Seq(T) /\ DOMAIN s = 1..Cardinality(S)
      /\ \A k \in 1..Cardinality(S) : Nth(S, k) \in S /\ s[k] = list[Nth(S, k)]
  BY AtProperties
<1>2. Len(list) \in Nat /\ DOMAIN list = 1..Len(list) /\ Cardinality(S) \in Nat
  BY PositionsFinite
<1>3. ASSUME NEW j \in 1..Cardinality(S), NEW k \in 1..Cardinality(S), s[j].name = s[k].name
      PROVE  j = k
  <2>. HIDE DEF s
  <2>1. Nth(S, j) \in DOMAIN list /\ Nth(S, k) \in DOMAIN list
    BY <1>1, <1>2
  <2>2. Nth(S, j) = Nth(S, k)
    BY <1>1, <1>3, <2>1 DEF NamesDiffer
  <2>3. \A i \in 1..Cardinality(S) : Cardinality(UpTo(S, Nth(S, i))) = i
    BY <1>2, NthDefinition
  <2>. QED BY <2>2, <2>3
<1>. QED BY <1>1, <1>3 DEF NamesDiffer

LEMMA ChildrenType ==
    ASSUME NEW list \in Seq(Sub)
    PROVE  Children(list) \in Seq(Sub) /\ ToSet(Children(list)) \subseteq ToSet(list)
<1>. DEFINE S == {k \in DOMAIN list : list[k].state # "deleted"}
<1>1. S \in SUBSET (1..Len(list))
  OBVIOUS
<1>2. At(list, S) \in Seq(Sub) /\ ToSet(At(list, S)) = {list[k] : k \in S}
  BY <1>1, AtProperties
<1>3. {list[k] : k \in S} \subseteq ToSet(list)
  BY DEF ToSet
<1>4. Children(list) = At(list, S)
  BY DEF Children, Where
<1>. QED BY <1>2, <1>3, <1>4

LEMMA NumbersFinite ==
    ASSUME NEW list \in Seq(Sub), NEW prefix
    PROVE  /\ Numbers(list, prefix) \in SUBSET Nat
           /\ Max({0} \cup Numbers(list, prefix)) \in Nat
           /\ \A n \in Numbers(list, prefix) : n <= Max({0} \cup Numbers(list, prefix))
<1>. DEFINE X == {t \in ToSet(Children(list)) : t.name[1] = prefix}
            N == Numbers(list, prefix)
            f == [s \in X |-> s.name[2]]
<1>1. X \subseteq Sub /\ IsFiniteSet(X)
  <2>1. Children(list) \in Seq(Sub)
    BY ChildrenType
  <2>2. IsFiniteSet(ToSet(Children(list))) /\ ToSet(Children(list)) \subseteq Sub
    BY <2>1, ToSetFinite DEF ToSet
  <2>. QED BY <2>2, FS_Subset
<1>2. \A s \in Sub : s.name[2] \in Nat
  BY DEF Sub, Names
<1>3. N = {s.name[2] : s \in X}
  BY DEF Numbers
<1>4. f \in Surjection(X, N)
  <2>. HIDE DEF X
  <2>. QED BY <1>3 DEF Surjection
<1>5. IsFiniteSet(N)
  BY <1>1, <1>4, FS_Surjection
<1>6. N \in SUBSET Nat
  BY <1>1, <1>2, <1>3
<1>. HIDE DEF N
<1>7. IsFiniteSet({0} \cup N) /\ {0} \cup N \in SUBSET Nat
  BY <1>5, <1>6, FS_AddElement
<1>8. Max({0} \cup N) \in {0} \cup N /\ \A n \in {0} \cup N : n <= Max({0} \cup N)
  BY <1>7, MaxOfNaturals
<1>. QED BY <1>6, <1>7, <1>8 DEF N

LEMMA PositionIsName == \A n \in Nat \ {0} : Position(n) \in Names
BY DEF Position, NoName, Names

LEMMA NextNameType ==
    ASSUME NEW list \in Seq(Sub), NEW wanted, Positional \/ wanted \in Names
    PROVE  NextName(list, wanted) \in Names
<1>1. Children(list) \in Seq(Sub)
  BY ChildrenType
<1>2. Len(Children(list)) + 1 \in Nat \ {0}
  BY <1>1
<1>3. Position(Len(Children(list)) + 1) \in Names
  BY <1>2, PositionIsName
<1>. DEFINE top == Max({0} \cup Numbers(list, wanted[1]))
<1>4. top \in Nat
  BY NumbersFinite
<1>5. wanted \in Names => <<wanted[1], 1 + top>> \in Names
  <2>. SUFFICES ASSUME wanted \in Names PROVE <<wanted[1], 1 + top>> \in Names
    OBVIOUS
  <2>1. wanted[1] \in Keys \cup {""}
    BY DEF Names
  <2>. HIDE DEF top
  <2>2. 1 + top \in Nat /\ 1 + top # 0
    BY <1>4
  <2>3. <<wanted[1], 1 + top>> \in (Keys \cup {""}) \X Nat
    BY <2>1, <2>2
  <2>4. <<wanted[1], 1 + top>> # NoName
    BY <2>2 DEF NoName, Position
  <2>. QED BY <2>3, <2>4 DEF Names
<1>. HIDE DEF top
<1>. QED BY <1>3, <1>5 DEF NextName, top

LEMMA AddLocalType ==
    ASSUME NEW list \in Seq(Sub), NamesDiffer(list), NEW s \in Sub
    PROVE  AddLocal(list, s) \in Seq(Sub) /\ NamesDiffer(AddLocal(list, s))
<1>. DEFINE S == {k \in DOMAIN list : list[k].name # s.name}
            r == At(list, S)
<1>1. S \in SUBSET (1..Len(list))
  OBVIOUS
<1>2. /\ r \in Seq(Sub) /\ NamesDiffer(r) /\ ToSet(r) = {list[k] : k \in S}
      /\ Len(r) \in Nat /\ DOMAIN r = 1..Len(r)
  BY <1>1, SelectedMembers, AtProperties
<1>3. \A k \in DOMAIN r : r[k].name # s.name
  <2>1. \A k \in DOMAIN r : r[k] \in {list[j] : j \in S}
    BY <1>2 DEF ToSet
  <2>. QED BY <2>1
<1>4. AddLocal(list, s) = Append(r, s)
  BY DEF AddLocal, Where
<1>. HIDE DEF r
<1>5. DOMAIN Append(r, s) = 1..Len(r) + 1
  BY <1>2
<1>6. \A k \in 1..Len(r) + 1 : Append(r, s)[k] = IF k = Len(r) + 1 THEN s ELSE r[k]
  BY <1>2
<1>7. NamesDiffer(Append(r, s))
  <2>. SUFFICES ASSUME NEW j \in 1..Len(r) + 1, NEW k \in 1..Len(r) + 1,
                       Append(r, s)[j].name = Append(r, s)[k].name
                PROVE  j = k
    BY <1>5 DEF NamesDiffer
  <2>1. \A i \in 1..Len(r) + 1 : i = Len(r) + 1 \/ i \in DOMAIN r
    BY <1>2
  <2>. QED BY <1>2, <1>3, <1>6, <2>1 DEF NamesDiffer
<1>. QED BY <1>2, <1>4, <1>7

LEMMA CreateChildType ==
    ASSUME NEW list \in Seq(Sub), NamesDiffer(list), NEW name \in Names, NEW value \in Values
    PROVE  /\ CreateChild(list, name, value) \in Seq(Sub)
           /\ NamesDiffer(CreateChild(list, name, value))
<1>. DEFINE S == {k \in DOMAIN list : list[k].state = "deleted"}
            from == IF base = "CHOICE" THEN At(list, S) ELSE list
<1>1. At(list, S) \in Seq(Sub) /\ NamesDiffer(At(list, S))
  <2>1. S \in SUBSET (1..Len(list))
    OBVIOUS
  <2>. QED BY <2>1, SelectedMembers
<1>2. from \in Seq(Sub) /\ NamesDiffer(from)
  BY <1>1
<1>3. Fresh(name, value) \in Sub
  BY DEF Fresh, Sub
<1>4. CreateChild(list, name, value) = AddLocal(from, Fresh(name, value))
  BY DEF CreateChild, Where
<1>. HIDE DEF from
<1>. QED BY <1>2, <1>3, <1>4, AddLocalType

(* Changing members in place keeps their type, names and number.           *)
LEMMA PutValueType ==
    ASSUME NEW list \in Seq(Sub), NEW name, NEW value \in Values
    PROVE  /\ PutValue(list, name, value) \in Seq(Sub)
           /\ DOMAIN PutValue(list, name, value) = DOMAIN list
           /\ \A k \in DOMAIN list : PutValue(list, name, value)[k].name = list[k].name
<1>. DEFINE s == PutValue(list, name, value)
<1>1. ASSUME NEW k \in DOMAIN list PROVE s[k] \in Sub /\ s[k].name = list[k].name
  <2>1. list[k] \in Sub
    OBVIOUS
  <2>2. s[k] = IF list[k].name # name THEN list[k]
               ELSE [list[k] EXCEPT !.value = value,
                                    !.state = IF @ = "clean" THEN "dirty" ELSE @]
    BY DEF PutValue
  <2>. HIDE DEF s
  <2>. QED BY <2>1, <2>2 DEF Sub
<1>2. DOMAIN s = DOMAIN list /\ s = [k \in DOMAIN list |-> s[k]]
  BY DEF PutValue
<1>3. Len(list) \in Nat /\ DOMAIN list = 1..Len(list)
  OBVIOUS
<1>. HIDE DEF s
<1>4. s \in Seq(Sub)
  BY <1>1, <1>2, <1>3
<1>. QED BY <1>1, <1>2, <1>4 DEF s

LEMMA DeleteType ==
    ASSUME NEW list \in Seq(Sub), NEW names
    PROVE  /\ Delete(list, names) \in Seq(Sub) /\ DOMAIN Delete(list, names) = DOMAIN list
           /\ \A k \in DOMAIN list : Delete(list, names)[k].name = list[k].name
<1>. DEFINE s == Delete(list, names)
<1>1. ASSUME NEW k \in DOMAIN list PROVE s[k] \in Sub /\ s[k].name = list[k].name
  <2>1. list[k] \in Sub
    OBVIOUS
  <2>2. s[k] = IF list[k].name \in names THEN [list[k] EXCEPT !.state = "deleted"] ELSE list[k]
    BY DEF Delete
  <2>. HIDE DEF s
  <2>. QED BY <2>1, <2>2 DEF Sub
<1>2. DOMAIN s = DOMAIN list /\ s = [k \in DOMAIN list |-> s[k]]
  BY DEF Delete
<1>3. Len(list) \in Nat /\ DOMAIN list = 1..Len(list)
  OBVIOUS
<1>. HIDE DEF s
<1>4. s \in Seq(Sub)
  BY <1>1, <1>2, <1>3
<1>. QED BY <1>1, <1>2, <1>4 DEF s

LEMMA PrereadType ==
    ASSUME original \in Seq(Member)
    PROVE  /\ Preread \in Seq(Sub) /\ DOMAIN Preread = DOMAIN original
           /\ \A k \in DOMAIN original : Preread[k] = [name |-> original[k].name,
                                                       value |-> original[k].value,
                                                       state |-> "clean"]
<1>1. Len(original) \in Nat /\ DOMAIN original = 1..Len(original)
  OBVIOUS
<1>2. \A k \in DOMAIN original : Preread[k] \in Sub
  <2>. SUFFICES ASSUME NEW k \in DOMAIN original PROVE Preread[k] \in Sub
    OBVIOUS
  <2>1. original[k] \in Member
    BY <1>1
  <2>. QED BY <2>1 DEF Preread, Sub, Member
<1>3. Preread = [k \in 1..Len(original) |-> Preread[k]]
  BY DEF Preread
<1>4. Preread \in Seq(Sub)
  BY <1>1, <1>2, <1>3
<1>. QED BY <1>4 DEF Preread

(* Lists with the same names in the same places.                           *)
LEMMA SameNames ==
    ASSUME NEW list, NEW other, DOMAIN other = DOMAIN list,
           \A k \in DOMAIN list : other[k].name = list[k].name
    PROVE  /\ NamesOf(other) = NamesOf(list)
           /\ NamesDiffer(list) => NamesDiffer(other)
BY DEF NamesOf, NamesDiffer, ToSet
LEMMA NamedIsThere ==
    ASSUME NEW list, NEW name \in NamesOf(list)
    PROVE  Named(list, name) \in ToSet(list) /\ Named(list, name).name = name
BY DEF Named, NamesOf

LEMMA NamedValue ==
    ASSUME NEW list, NEW name \in NamesOf(list), list \in Seq(Sub) \/ list \in Seq(Member)
    PROVE  Named(list, name).value \in Values /\ name \in Names
<1>1. PICK k \in DOMAIN list : Named(list, name) = list[k] /\ list[k].name = name
  BY NamedIsThere DEF ToSet
<1>2. CASE list \in Seq(Sub)
  <2>1. list[k] \in Sub
    BY <1>1, <1>2
  <2>. QED BY <1>1, <2>1 DEF Sub
<1>3. CASE list \in Seq(Member)
  <2>1. list[k] \in Member
    BY <1>1, <1>3
  <2>. QED BY <1>1, <2>1 DEF Member
<1>. QED BY <1>2, <1>3

LEMMA UpdatedType ==
    ASSUME NEW members \in Seq(Member), NEW list \in Seq(Sub)
    PROVE  /\ Updated(members, list) \in Seq(Member)
           /\ DOMAIN Updated(members, list) = DOMAIN members
           /\ \A k \in DOMAIN members : Updated(members, list)[k].name = members[k].name
<1>. DEFINE s == Updated(members, list)
<1>1. ASSUME NEW k \in DOMAIN members PROVE s[k] \in Member /\ s[k].name = members[k].name
  <2>1. members[k] \in Member
    OBVIOUS
  <2>2. CASE members[k].name \in NamesIn(list, "dirty")
    <3>1. members[k].name \in NamesOf(list)
      BY <2>2 DEF NamesIn, NamesOf
    <3>2. Named(list, members[k].name).value \in Values
      BY <3>1, NamedValue
    <3>3. s[k] = [members[k] EXCEPT !.value = Named(list, members[k].name).value]
      BY <2>2 DEF Updated
    <3>. HIDE DEF s
    <3>. QED BY <2>1, <3>2, <3>3 DEF Member
  <2>3. CASE members[k].name \notin NamesIn(list, "dirty")
    BY <2>1, <2>3 DEF Updated
  <2>. QED BY <2>2, <2>3
<1>2. DOMAIN s = DOMAIN members /\ s = [k \in DOMAIN members |-> s[k]]
  BY DEF Updated
<1>3. Len(members) \in Nat /\ DOMAIN members = 1..Len(members)
  OBVIOUS
<1>. HIDE DEF s
<1>4. s \in Seq(Member)
  BY <1>1, <1>2, <1>3
<1>. QED BY <1>1, <1>2, <1>4 DEF s

(* The members that stay and those that are new: no name is among both.    *)
LEMMA KeptAndAddedType ==
    ASSUME NEW members \in Seq(Member), NamesDiffer(members),
           NEW list \in Seq(Sub), NamesDiffer(list)
    PROVE  /\ Kept(members, list) \in Seq(Member) /\ NamesDiffer(Kept(members, list))
           /\ Added(list) \in Seq(Member) /\ NamesDiffer(Added(list))
           /\ \A j \in DOMAIN Kept(members, list), k \in DOMAIN Added(list) :
                 Kept(members, list)[j].name # Added(list)[k].name
<1>. DEFINE u == Updated(members, list)
            gone == NamesIn(list, "deleted") \cup NamesIn(list, "fresh")
            S == {k \in DOMAIN u : u[k].name \notin gone}
            F == {k \in DOMAIN list : list[k].state = "fresh"}
            kept == At(u, S)
            fresh == At(list, F)
            added == Added(list)
<1>1. u \in Seq(Member) /\ NamesDiffer(u)
  BY UpdatedType, SameNames
<1>. HIDE DEF u
<1>2. S \in SUBSET (1..Len(u)) /\ F \in SUBSET (1..Len(list))
  BY <1>1
<1>3. /\ kept \in Seq(Member) /\ NamesDiffer(kept)
      /\ DOMAIN kept = 1..Cardinality(S)
      /\ \A k \in 1..Cardinality(S) : Nth(S, k) \in S /\ kept[k] = u[Nth(S, k)]
  BY <1>1, <1>2, SelectedMembers, AtProperties
<1>4. /\ fresh \in Seq(Sub) /\ NamesDiffer(fresh)
      /\ DOMAIN fresh = 1..Cardinality(F)
      /\ \A k \in 1..Cardinality(F) : Nth(F, k) \in F /\ fresh[k] = list[Nth(F, k)]
  BY <1>2, SelectedMembers, AtProperties
<1>5. Kept(members, list) = kept
  BY DEF Kept, Where, u
<1>6. added = [k \in DOMAIN fresh |-> [name |-> fresh[k].name, value |-> fresh[k].value]]
  BY DEF Added, Where
<1>. HIDE DEF kept, fresh, added, S, F
<1>7. added \in Seq(Member) /\ DOMAIN added = DOMAIN fresh
  <2>1. \A k \in DOMAIN fresh : [name |-> fresh[k].name, value |-> fresh[k].value] \in Member
    <3>. SUFFICES ASSUME NEW k \in DOMAIN fresh
                  PROVE  [name |-> fresh[k].name, value |-> fresh[k].value] \in Member
      OBVIOUS
    <3>1. fresh[k] \in Sub
      <4>1. fresh \in Seq(Sub)
        BY <1>4
      <4>. QED BY <4>1
    <3>. QED BY <3>1 DEF Sub, Member
  <2>2. Len(fresh) \in Nat /\ DOMAIN fresh = 1..Len(fresh)
    BY <1>4
  <2>. QED BY <1>6, <2>1, <2>2
<1>8. \A k \in DOMAIN added : added[k].name = fresh[k].name
  BY <1>6
<1>9. NamesDiffer(added)
  BY <1>4, <1>7, <1>8 DEF NamesDiffer
<1>10. ASSUME NEW j \in DOMAIN kept, NEW k \in DOMAIN added PROVE kept[j].name # added[k].name
  <2>1. kept[j].name \notin NamesIn(list, "fresh")
    BY <1>3 DEF S
  <2>2. added[k].name \in NamesIn(list, "fresh")
    BY <1>4, <1>7, <1>8 DEF F, NamesIn, ToSet
  <2>. QED BY <2>1, <2>2
<1>. QED BY <1>3, <1>5, <1>7, <1>9, <1>10 DEF added

LEMMA RenumberType ==
    ASSUME NEW members \in Seq(Member), NamesDiffer(members)
    PROVE  /\ Renumber(members) \in Seq(Member) /\ NamesDiffer(Renumber(members))
           /\ DOMAIN Renumber(members) = DOMAIN members
           /\ base = "LIST" => \A k \in DOMAIN members : Renumber(members)[k].name = Position(k)
<1>1. CASE base # "LIST"
  BY <1>1 DEF Renumber
<1>2. CASE base = "LIST"
  <2>. DEFINE s == [k \in DOMAIN members |-> [members[k] EXCEPT !.name = Position(k)]]
  <2>1. Len(members) \in Nat /\ DOMAIN members = 1..Len(members)
    OBVIOUS
  <2>2. \A k \in DOMAIN members : s[k] \in Member /\ s[k].name = Position(k)
    <3>. SUFFICES ASSUME NEW k \in DOMAIN members PROVE s[k] \in Member /\ s[k].name = Position(k)
      OBVIOUS
    <3>1. members[k] \in Member /\ Position(k) \in Names
      BY <2>1, PositionIsName
    <3>. QED BY <3>1 DEF Member
  <2>3. Renumber(members) = s /\ DOMAIN s = DOMAIN members /\ s = [k \in DOMAIN members |-> s[k]]
    BY <1>2 DEF Renumber
  <2>. HIDE DEF s
  <2>4. s \in Seq(Member)
    BY <2>1, <2>2, <2>3
  <2>5. \A j, k \in DOMAIN members : Position(j) = Position(k) => j = k
    BY DEF Position
  <2>6. NamesDiffer(s)
    BY <2>2, <2>3, <2>5 DEF NamesDiffer
  <2>. QED BY <2>2, <2>3, <2>4, <2>6
<1>. QED BY <1>1, <1>2

LEMMA JoinedType ==
    ASSUME NEW left \in Seq(Member), NamesDiffer(left), NEW right \in Seq(Member), NamesDiffer(right),
           \A j \in DOMAIN left, k \in DOMAIN right : left[j].name # right[k].name
    PROVE  left \o right \in Seq(Member) /\ NamesDiffer(left \o right)
<1>. DEFINE s == left \o right
<1>1. s \in Seq(Member)
  OBVIOUS
<1>2. /\ Len(left) \in Nat /\ DOMAIN left = 1..Len(left)
      /\ Len(right) \in Nat /\ DOMAIN right = 1..Len(right)
      /\ DOMAIN s = 1..Len(left) + Len(right)
      /\ \A k \in 1..Len(left) + Len(right) :
            s[k] = IF k <= Len(left) THEN left[k] ELSE right[k - Len(left)]
  OBVIOUS
<1>. HIDE DEF s
<1>3. \A k \in DOMAIN s : \/ k \in DOMAIN left /\ s[k] = left[k]
                          \/ k - Len(left) \in DOMAIN right /\ s[k] = right[k - Len(left)]
  BY <1>2
<1>4. ASSUME NEW j \in DOMAIN s, NEW k \in DOMAIN s, s[j].name = s[k].name PROVE j = k
  <2>1. CASE j \in DOMAIN left /\ s[j] = left[j] /\ k \in DOMAIN left /\ s[k] = left[k]
    BY <1>4, <2>1 DEF NamesDiffer
  <2>2. CASE /\ j - Len(left) \in DOMAIN right /\ s[j] = right[j - Len(left)]
             /\ k - Len(left) \in DOMAIN right /\ s[k] = right[k - Len(left)]
    <3>1. j - Len(left) = k - Len(left)
      BY <1>4, <2>2 DEF NamesDiffer
    <3>. QED BY <1>2, <3>1
  <2>. QED BY <1>3, <1>4, <2>1, <2>2
<1>. QED BY <1>1, <1>4 DEF NamesDiffer, s

(* commit() leaves members of the right type, with different names, and    *)
(* those of a List numbered if they were.                                  *)
LEMMA CommittedType ==
    ASSUME NEW members \in Seq(Member), NamesDiffer(members),
           NEW list \in Seq(Sub), NamesDiffer(list), own \in {"clean", "below", "dirty"}
    PROVE  /\ Committed(members, list) \in Seq(Member) /\ NamesDiffer(Committed(members, list))
           /\ base = "LIST" /\ (\A k \in DOMAIN members : members[k].name = Position(k))
                => \A k \in DOMAIN Committed(members, list) :
                      Committed(members, list)[k].name = Position(k)
<1>1. CASE own = "clean"
  BY <1>1 DEF Committed
<1>2. CASE own = "below"
  <2>1. Committed(members, list) = Updated(members, list)
    BY <1>2 DEF Committed
  <2>2. /\ Updated(members, list) \in Seq(Member)
        /\ DOMAIN Updated(members, list) = DOMAIN members
        /\ \A k \in DOMAIN members : Updated(members, list)[k].name = members[k].name
    BY UpdatedType
  <2>3. NamesDiffer(Updated(members, list))
    BY <2>2, SameNames
  <2>. QED BY <2>1, <2>2, <2>3
<1>3. CASE own = "dirty"
  <2>. DEFINE s == Kept(members, list) \o Added(list)
  <2>1. Committed(members, list) = Renumber(s)
    BY <1>3 DEF Committed
  <2>2. s \in Seq(Member) /\ NamesDiffer(s)
    BY KeptAndAddedType, JoinedType
  <2>. HIDE DEF s
  <2>. QED BY <2>1, <2>2, RenumberType
<1>. QED BY <1>1, <1>2, <1>3
(* What a client may give is a list of different names.                    *)
LEMMA GivableType == Givable \subseteq Names
<1>1. CASE Positional
  <2>1. MaxSize \in Nat
    BY ShadowAssumption DEF ShadowAssumption
  <2>2. \A n \in 1..MaxSize + 1 : Position(n) \in Names
    BY <2>1, PositionIsName
  <2>. QED BY <1>1, <2>2 DEF Givable
<1>2. CASE ~Positional
  <2>1. "" \notin Keys
    BY ShadowAssumption DEF ShadowAssumption
  <2>2. ASSUME NEW x \in Keys \X (0..1) PROVE x \in Names
    <3>1. PICK key \in Keys, n \in 0..1 : x = <<key, n>>
      BY <2>2
    <3>2. n \in Nat
      OBVIOUS
    <3>3. key # ""
      BY <2>1
    <3>. QED BY <3>1, <3>2, <3>3 DEF Names, NoName, Position
  <2>. QED BY <1>2, <2>2 DEF Givable
<1>. QED BY <1>1, <1>2

LEMMA GivenType ==
    ASSUME NEW given \in Given
    PROVE  /\ given \in Seq(Names \cup {NoName}) /\ IsInjective(given)
           /\ Positional \/ given \in Seq(Names)
           /\ Unnamed \/ given \in Seq(Names)
<1>. DEFINE names == Givable \cup IF Unnamed /\ Positional THEN {NoName} ELSE {}
<1>1. PICK n \in 0..MaxSize : given \in [1..n -> names] /\ IsInjective(given)
  BY DEF Given
<1>2. names \subseteq Names \cup {NoName} /\ ((Positional /\ Unnamed) \/ names \subseteq Names)
  BY GivableType
<1>. HIDE DEF names
<1>3. n \in Nat
  <2>1. MaxSize \in Nat
    BY ShadowAssumption DEF ShadowAssumption
  <2>. QED BY <2>1
<1>. QED BY <1>1, <1>2, <1>3

LEMMA ContentsCounted ==
    ASSUME NEW o, NEW n \in Nat
    PROVE  IsFiniteSet({<<o, k>> : k \in 1..n}) /\ Cardinality({<<o, k>> : k \in 1..n}) = n
<1>. DEFINE C == {<<o, k>> : k \in 1..n}
            f == [k \in 1..n |-> <<o, k>>]
<1>1. f \in Bijection(1..n, C)
  BY DEF Bijection, Injection, Surjection, IsInjective
<1>2. IsFiniteSet(1..n) /\ Cardinality(1..n) = n
  BY FS_Interval
<1>. QED BY <1>1, <1>2, FS_Bijection DEF ExistsBijection

-------------------------------------------------------------------------------
(* Types and numbers of all reachable states.                              *)

LEMMA ShadowInit == Init => ShadowInv /\ ListNumbered
<1>. SUFFICES ASSUME Init PROVE ShadowInv /\ ListNumbered
  OBVIOUS
<1>1. /\ base \in Bases /\ own = "clean" /\ pc = "idle" /\ answer = "none" /\ ops = 0
      /\ original = <<>> /\ subs = <<>> /\ todo = <<>> /\ target = NoTarget /\ promise = Nothing
  BY DEF Init
<1>2. ops \in 0..MaxOps
  <2>1. MaxOps \in Nat
    BY ShadowAssumption DEF ShadowAssumption
  <2>. QED BY <1>1, <2>1
<1>3. promise \in [drops : SUBSET Values, adds : SUBSET Values] /\ promise.adds = {}
  BY <1>1 DEF Nothing
<1>4. NamesDiffer(original) /\ NamesDiffer(subs)
  BY <1>1 DEF NamesDiffer
<1>5. TypeOK
  BY <1>1, <1>2, <1>3, <1>4 DEF TypeOK
<1>6. Len(todo) = 0 /\ Cardinality(promise.adds) = 0 /\ IsFiniteSet(promise.adds)
  BY <1>1, <1>3, FS_EmptySet
<1>7. RequestInv
  BY <1>1, <1>6 DEF RequestInv
<1>. QED BY <1>1, <1>5, <1>7 DEF ShadowInv, ListNumbered

(* A request that starts as it should keeps the types.                     *)
LEMMA AskKeepsTypes ==
    ASSUME ShadowInv, NEW member, NEW drops \in SUBSET Values, NEW adds \in SUBSET Values,
           Ask(member, drops, adds), member \in {NoTarget} \cup Names,
           subs' \in Seq(Sub), NamesDiffer(subs'), own' \in {"below", "dirty"},
           pc' \in {"putting", "edited"}, todo' \in Seq(Names \cup {NoName}),
           Positional \/ todo' \in Seq(Names), pc' = "putting" <=> todo' # <<>>,
           IsFiniteSet(adds), Len(todo') <= Cardinality(adds),
           member # NoTarget => pc' = "edited" /\ member \in NamesOf(subs')
    PROVE  ShadowInv'
<1>1. /\ ops' = ops + 1 /\ ops < MaxOps /\ target' = member /\ answer' = "none"
      /\ promise' = [drops |-> drops, adds |-> adds] /\ UNCHANGED <<base, original>>
  BY DEF Ask
<1>2. ops \in 0..MaxOps /\ MaxOps \in Nat
  BY ShadowAssumption DEF ShadowInv, TypeOK, ShadowAssumption
<1>3. ops' \in 1..MaxOps /\ ops' \in 0..MaxOps
  BY <1>1, <1>2
<1>4. promise' \in [drops : SUBSET Values, adds : SUBSET Values] /\ promise'.adds = adds
  BY <1>1
<1>5. /\ base' \in Bases /\ original' \in Seq(Member) /\ NamesDiffer(original')
  BY <1>1 DEF ShadowInv, TypeOK
<1>6. TypeOK'
  BY <1>1, <1>3, <1>4, <1>5 DEF TypeOK
<1>7. RequestInv'
  <2>1. target' # NoTarget => pc' = "edited" /\ target' \in NamesOf(subs')
    BY <1>1
  <2>2. (Positional \/ todo \in Seq(Names))'
    BY <1>1 DEF Positional
  <2>. QED BY <1>3, <1>4, <2>1, <2>2 DEF RequestInv
<1>. QED BY <1>6, <1>7 DEF ShadowInv

LEMMA ContentType ==
    ASSUME ShadowInv, ops < MaxOps, NEW k \in Nat \ {0}
    PROVE  Content(k) \in Values
<1>1. ops \in 0..MaxOps /\ MaxOps \in Nat
  BY ShadowAssumption DEF ShadowInv, TypeOK, ShadowAssumption
<1>2. ops + 1 \in 1..MaxOps
  BY <1>1
<1>. QED BY <1>2 DEF Content, Values

LEMMA MemberRequestsKeepTypes ==
    ASSUME ShadowInv, NEW name \in NamesOf(original), PutMember(name) \/ DeleteMember(name)
    PROVE  ShadowInv'
<1>1. original \in Seq(Member) /\ NamesDiffer(original)
  BY DEF ShadowInv, TypeOK
<1>2. Named(original, name).value \in Values /\ name \in Names
  BY <1>1, NamedValue
<1>3. /\ Preread \in Seq(Sub) /\ NamesDiffer(Preread) /\ name \in NamesOf(Preread)
  <2>1. /\ Preread \in Seq(Sub) /\ DOMAIN Preread = DOMAIN original
        /\ \A k \in DOMAIN original : Preread[k].name = original[k].name
    BY <1>1, PrereadType
  <2>. QED BY <1>1, <2>1, SameNames
<1>. DEFINE value == Content(1)
<1>4. pc = "idle" /\ ops < MaxOps
  BY DEF PutMember, DeleteMember, Ask
<1>5. value \in Values
  BY <1>4, ContentType
<1>. HIDE DEF value
<1>6. /\ IsFiniteSet({value}) /\ Cardinality({value}) = 1
      /\ IsFiniteSet({}) /\ Cardinality({}) = 0
  BY FS_Singleton, FS_EmptySet
<1>7. todo = <<>>
  BY <1>4 DEF ShadowInv, RequestInv
<1>8. CASE PutMember(name)
  <2>1. /\ Ask(name, {Named(original, name).value}, {value})
        /\ subs' = PutValue(Preread, name, value)
        /\ own' = "below" /\ pc' = "edited" /\ todo' = <<>>
    BY <1>7, <1>8 DEF PutMember, value
  <2>2. subs' \in Seq(Sub) /\ NamesDiffer(subs') /\ name \in NamesOf(subs')
    <3>1. /\ subs' \in Seq(Sub) /\ DOMAIN subs' = DOMAIN Preread
          /\ \A k \in DOMAIN Preread : subs'[k].name = Preread[k].name
      BY <1>3, <1>5, <2>1, PutValueType
    <3>. QED BY <1>3, <3>1, SameNames
  <2>3. Len(todo') <= Cardinality({value})
    BY <1>6, <2>1
  <2>. QED BY <1>2, <1>5, <1>6, <2>1, <2>2, <2>3, AskKeepsTypes
<1>9. CASE DeleteMember(name)
  <2>1. /\ Ask(name, {Named(original, name).value}, {})
        /\ subs' = Delete(Preread, {name})
        /\ own' = "dirty" /\ pc' = "edited" /\ todo' = <<>>
    BY <1>7, <1>9 DEF DeleteMember
  <2>2. subs' \in Seq(Sub) /\ NamesDiffer(subs') /\ name \in NamesOf(subs')
    <3>1. /\ subs' \in Seq(Sub) /\ DOMAIN subs' = DOMAIN Preread
          /\ \A k \in DOMAIN Preread : subs'[k].name = Preread[k].name
      BY <1>3, <2>1, DeleteType
    <3>. QED BY <1>3, <3>1, SameNames
  <2>. DEFINE none == {}
              drops == {Named(original, name).value}
  <2>3. none \in SUBSET Values /\ drops \in SUBSET Values /\ IsFiniteSet(none) /\ Ask(name, drops, none)
    BY <1>2, <1>6, <2>1
  <2>4. Len(todo') <= Cardinality(none)
    BY <1>6, <2>1
  <2>5. /\ todo' \in Seq(Names) /\ own' \in {"below", "dirty"} /\ pc' \in {"putting", "edited"}
        /\ pc' = "putting" <=> todo' # <<>>
        /\ name \in {NoTarget} \cup Names
        /\ name # NoTarget => pc' = "edited" /\ name \in NamesOf(subs')
    BY <1>2, <2>1, <2>2
  <2>. HIDE DEF none, drops
  <2>. QED BY <2>2, <2>3, <2>4, <2>5, AskKeepsTypes
<1>. QED BY <1>8, <1>9

(* POST, or PUT to a member that is not there: one new member.             *)
LEMMA OneNewKeepsTypes ==
    ASSUME ShadowInv, NEW wanted \in Names, Ask(NoTarget, {}, {Content(1)}),
           NEW name, name = NextName(Preread, wanted), NEW child, child = Fresh(name, Content(1)),
           \/ subs' = CreateChild(Preread, name, Content(1))
           \/ subs' = AddLocal(CreateChild(Preread, name, Content(1)), child),
           own' = "dirty", pc' = "edited", UNCHANGED todo
    PROVE  ShadowInv'
<1>. DEFINE value == Content(1)
<1>1. original \in Seq(Member) /\ NamesDiffer(original)
  BY DEF ShadowInv, TypeOK
<1>2. Preread \in Seq(Sub) /\ NamesDiffer(Preread)
  BY <1>1, PrereadType, SameNames
<1>3. pc = "idle" /\ ops < MaxOps
  BY DEF Ask
<1>4. value \in Values
  BY <1>3, ContentType
<1>5. name \in Names
  BY <1>2, NextNameType
<1>6. child \in Sub
  <2>. HIDE DEF value
  <2>. QED BY <1>4, <1>5 DEF Fresh, Sub, value
<1>7. todo' = <<>>
  BY <1>3 DEF ShadowInv, RequestInv
<1>. HIDE DEF value
<1>8. subs' \in Seq(Sub) /\ NamesDiffer(subs')
  <2>1. /\ CreateChild(Preread, name, value) \in Seq(Sub)
        /\ NamesDiffer(CreateChild(Preread, name, value))
    BY <1>2, <1>4, <1>5, CreateChildType
  <2>. QED BY <1>6, <2>1, AddLocalType DEF value
<1>9. IsFiniteSet({value}) /\ Cardinality({value}) = 1
  BY FS_Singleton
<1>10. Ask(NoTarget, {}, {value})
  BY DEF value
<1>. QED BY <1>4, <1>7, <1>8, <1>9, <1>10, AskKeepsTypes

LEMMA NewRequestsKeepTypes ==
    ASSUME ShadowInv,
           \/ \E key \in Keys : Post(<<key, 0>>)
           \/ \E name \in Givable : PutNewMember(name)
    PROVE  ShadowInv'
<1>1. ASSUME NEW key \in Keys, Post(<<key, 0>>) PROVE ShadowInv'
  <2>. DEFINE name == NextName(Preread, <<key, 0>>)
              child == Fresh(name, Content(1))
  <2>1. <<key, 0>> \in Names
    BY ShadowAssumption DEF ShadowAssumption, Names, NoName, Position
  <2>2. /\ Ask(NoTarget, {}, {Content(1)})
        /\ subs' = AddLocal(CreateChild(Preread, name, Content(1)), child)
        /\ own' = "dirty" /\ pc' = "edited" /\ todo' = todo
    BY <1>1 DEF Post
  <2>3. name = NextName(Preread, <<key, 0>>) /\ child = Fresh(name, Content(1))
    OBVIOUS
  <2>. HIDE DEF name, child
  <2>. QED BY <2>1, <2>2, <2>3, OneNewKeepsTypes
<1>2. ASSUME NEW wanted \in Givable, PutNewMember(wanted) PROVE ShadowInv'
  <2>. DEFINE name == NextName(Preread, wanted)
              child == Fresh(name, Content(1))
  <2>1. wanted \in Names
    BY GivableType
  <2>2. /\ Ask(NoTarget, {}, {Content(1)})
        /\ subs' = CreateChild(Preread, name, Content(1))
        /\ own' = "dirty" /\ pc' = "edited" /\ todo' = todo
    BY <1>2 DEF PutNewMember
  <2>3. name = NextName(Preread, wanted) /\ child = Fresh(name, Content(1))
    OBVIOUS
  <2>. HIDE DEF name, child
  <2>. QED BY <2>1, <2>2, <2>3, OneNewKeepsTypes
<1>. QED BY <1>1, <1>2

LEMMA PutAllKeepsTypes ==
    ASSUME ShadowInv, NEW given \in Given, NEW partial \in BOOLEAN, PutAll(given, partial)
    PROVE  ShadowInv'
<1>. DEFINE missing == IF partial THEN {} ELSE NamesOf(original) \ ToSet(given)
            replaced == {m.value : m \in {x \in ToSet(original) : x.name \in missing \cup ToSet(given)}}
            adds == {Content(k) : k \in DOMAIN given}
<1>1. original \in Seq(Member) /\ NamesDiffer(original)
  BY DEF ShadowInv, TypeOK
<1>2. /\ Preread \in Seq(Sub) /\ NamesDiffer(Preread)
  BY <1>1, PrereadType, SameNames
<1>3. pc = "idle" /\ ops < MaxOps
  BY DEF PutAll, Ask
<1>4. /\ Ask(NoTarget, replaced, adds)
      /\ subs' = Delete(Preread, missing)
      /\ own' = "dirty" /\ todo' = given
      /\ pc' = IF given = <<>> THEN "edited" ELSE "putting"
  BY DEF PutAll
<1>5. given \in Seq(Names \cup {NoName}) /\ (Positional \/ given \in Seq(Names))
  BY GivenType
<1>6. replaced \in SUBSET Values
  <2>1. ASSUME NEW m \in ToSet(original) PROVE m.value \in Values
    <3>1. m \in Member
      BY <1>1 DEF ToSet
    <3>. QED BY <3>1 DEF Member
  <2>. HIDE DEF missing
  <2>. QED BY <2>1
<1>7. adds \in SUBSET Values
  <2>1. \A k \in DOMAIN given : k \in Nat \ {0}
    BY <1>5
  <2>. QED BY <1>3, <2>1, ContentType
<1>8. IsFiniteSet(adds) /\ Cardinality(adds) = Len(given) /\ Len(given) \in Nat
  <2>1. Len(given) \in Nat /\ DOMAIN given = 1..Len(given)
    BY <1>5
  <2>2. adds = {<<ops + 1, k>> : k \in 1..Len(given)}
    BY <2>1 DEF Content
  <2>. QED BY <2>1, <2>2, ContentsCounted
<1>9. subs' \in Seq(Sub) /\ NamesDiffer(subs')
  <2>. HIDE DEF missing
  <2>. QED BY <1>2, <1>4, DeleteType, SameNames
<1>. HIDE DEF missing, replaced, adds
<1>10. pc' \in {"putting", "edited"} /\ (pc' = "putting" <=> todo' # <<>>)
  BY <1>4
<1>11. Len(todo') <= Cardinality(adds)
  BY <1>4, <1>8
<1>. QED BY <1>4, <1>5, <1>6, <1>7, <1>8, <1>9, <1>10, <1>11, AskKeepsTypes

LEMMA PutChildKeepsTypes ==
    ASSUME ShadowInv, PutChild
    PROVE  ShadowInv'
<1>. DEFINE name == Head(todo)
            n == Cardinality(promise.adds) - Len(todo) + 1
            value == <<ops, n>>
<1>1. /\ pc = "putting"
      /\ \/ name \in NamesOf(subs) /\ subs' = PutValue(subs, name, value)
         \/ name \notin NamesOf(subs) /\ subs' = CreateChild(subs, NextName(subs, name), value)
      /\ todo' = Tail(todo)
      /\ pc' = IF Tail(todo) = <<>> THEN "edited" ELSE "putting"
      /\ UNCHANGED <<base, original, own, target, promise, answer, ops>>
  BY DEF PutChild
<1>2. /\ todo # <<>> /\ todo \in Seq(Names \cup {NoName}) /\ subs \in Seq(Sub) /\ NamesDiffer(subs)
      /\ ops \in 1..MaxOps /\ IsFiniteSet(promise.adds) /\ Len(todo) <= Cardinality(promise.adds)
  BY <1>1 DEF ShadowInv, RequestInv, TypeOK
<1>3. /\ name \in Names \cup {NoName} /\ Tail(todo) \in Seq(Names \cup {NoName})
      /\ Len(todo) \in Nat /\ Len(Tail(todo)) = Len(todo) - 1
      /\ todo \in Seq(Names) => name \in Names /\ Tail(todo) \in Seq(Names)
  BY <1>2
<1>11. Positional \/ todo \in Seq(Names)
  BY DEF ShadowInv, RequestInv
<1>4. Cardinality(promise.adds) \in Nat
  BY <1>2, FS_CardinalityType
<1>5. value \in Values
  <2>1. n \in Nat \ {0}
    BY <1>2, <1>3, <1>4
  <2>. HIDE DEF n
  <2>. QED BY <1>2, <2>1 DEF Values
<1>. HIDE DEF name, value
<1>6. subs' \in Seq(Sub) /\ NamesDiffer(subs')
  <2>1. CASE name \in NamesOf(subs)
    BY <1>1, <1>2, <1>5, <2>1, PutValueType, SameNames
  <2>2. CASE name \notin NamesOf(subs)
    <3>1. NextName(subs, name) \in Names
      BY <1>2, <1>3, <1>11, NextNameType
    <3>. QED BY <1>1, <1>2, <1>5, <2>2, <3>1, CreateChildType
  <2>. QED BY <2>1, <2>2
<1>7. TypeOK'
  BY <1>1, <1>3, <1>6 DEF ShadowInv, TypeOK
<1>8. Len(todo') <= Cardinality(promise'.adds)
  BY <1>1, <1>2, <1>3, <1>4
<1>9. target = NoTarget
  BY <1>1 DEF ShadowInv, RequestInv
<1>10. RequestInv'
  BY <1>1, <1>2, <1>3, <1>8, <1>9, <1>11 DEF RequestInv, Positional
<1>. QED BY <1>7, <1>10 DEF ShadowInv

(* The end of a session, with or without a commit.                         *)
LEMMA EndKeepsTypes ==
    ASSUME ShadowInv, NEW how \in {"done", "failed"}, EndSession(how),
           original' \in Seq(Member), NamesDiffer(original')
    PROVE  ShadowInv'
<1>1. /\ subs' = <<>> /\ own' = "clean" /\ pc' = "idle" /\ todo' = <<>> /\ target' = NoTarget
      /\ promise' = Nothing /\ answer' = how /\ UNCHANGED <<base, ops>>
  BY DEF EndSession
<1>2. promise' \in [drops : SUBSET Values, adds : SUBSET Values] /\ promise'.adds = {}
  BY <1>1 DEF Nothing
<1>3. NamesDiffer(subs')
  BY <1>1 DEF NamesDiffer
<1>4. TypeOK'
  BY <1>1, <1>2, <1>3 DEF ShadowInv, TypeOK
<1>5. IsFiniteSet(promise'.adds) /\ Cardinality(promise'.adds) = 0
  BY <1>2, FS_EmptySet
<1>6. RequestInv'
  <2>1. Len(todo') = 0
    BY <1>1
  <2>. QED BY <1>1, <1>5, <2>1 DEF RequestInv
<1>. QED BY <1>4, <1>6 DEF ShadowInv

(* What Session.atomicPut and its like commit: the value of the target.    *)
LEMMA TargetCommitType ==
    ASSUME NEW members \in Seq(Member), NEW list \in Seq(Sub), NEW name \in NamesOf(list),
           NEW s, s = [k \in DOMAIN members |->
                         IF members[k].name = name
                         THEN [members[k] EXCEPT !.value = Named(list, name).value]
                         ELSE members[k]]
    PROVE  /\ s \in Seq(Member) /\ DOMAIN s = DOMAIN members
           /\ \A k \in DOMAIN members : s[k].name = members[k].name
<1>1. Named(list, name).value \in Values
  BY NamedValue
<1>2. ASSUME NEW k \in DOMAIN members PROVE s[k] \in Member /\ s[k].name = members[k].name
  <2>1. members[k] \in Member
    OBVIOUS
  <2>. QED BY <1>1, <2>1 DEF Member
<1>3. DOMAIN s = DOMAIN members /\ s = [k \in DOMAIN members |-> s[k]]
  OBVIOUS
<1>4. Len(members) \in Nat /\ DOMAIN members = 1..Len(members)
  OBVIOUS
<1>5. s \in Seq(Member)
  BY <1>2, <1>3, <1>4
<1>. QED BY <1>2, <1>3, <1>5

LEMMA CommitKeepsTypes ==
    ASSUME ShadowInv, ListNumbered, Commit
    PROVE  ShadowInv' /\ ListNumbered'
<1>1. PICK scope \in Scopes :
         original' = IF scope = "session" \/ target = NoTarget
                     THEN Committed(original, subs)
                     ELSE [k \in DOMAIN original |->
                             IF original[k].name = target
                             THEN [original[k] EXCEPT !.value = Named(subs, target).value]
                             ELSE original[k]]
  BY DEF Commit
<1>2. EndSession("done") /\ base' = base
  BY DEF Commit, EndSession
<1>3. /\ original \in Seq(Member) /\ NamesDiffer(original)
      /\ subs \in Seq(Sub) /\ NamesDiffer(subs) /\ own \in {"clean", "below", "dirty"}
  BY DEF ShadowInv, TypeOK
<1>4. CASE original' = Committed(original, subs)
  <2>1. /\ original' \in Seq(Member) /\ NamesDiffer(original')
        /\ base = "LIST" /\ (\A k \in DOMAIN original : original[k].name = Position(k))
             => \A k \in DOMAIN original' : original'[k].name = Position(k)
    BY <1>3, <1>4, CommittedType
  <2>. QED BY <1>2, <2>1, EndKeepsTypes DEF ListNumbered
<1>5. CASE ~(scope = "session" \/ target = NoTarget)
  <2>1. target \in NamesOf(subs)
    BY <1>5 DEF ShadowInv, RequestInv
  <2>2. /\ original' \in Seq(Member) /\ DOMAIN original' = DOMAIN original
        /\ \A k \in DOMAIN original : original'[k].name = original[k].name
    BY <1>1, <1>3, <1>5, <2>1, TargetCommitType
  <2>3. NamesDiffer(original')
    BY <1>3, <2>2, SameNames
  <2>. QED BY <1>2, <2>2, <2>3, EndKeepsTypes DEF ListNumbered
<1>. QED BY <1>1, <1>4, <1>5

LEMMA ShadowStep == ShadowInv /\ ListNumbered /\ [Next]_vars => (ShadowInv /\ ListNumbered)'
<1>. SUFFICES ASSUME ShadowInv, ListNumbered, [Next]_vars PROVE ShadowInv' /\ ListNumbered'
  OBVIOUS
<1>1. ASSUME UNCHANGED <<base, original>> PROVE ListNumbered'
  BY <1>1 DEF ListNumbered
<1>2. ASSUME NEW name \in NamesOf(original), PutMember(name) \/ DeleteMember(name)
      PROVE  ShadowInv' /\ ListNumbered'
  BY <1>1, <1>2, MemberRequestsKeepTypes DEF PutMember, DeleteMember, Ask
<1>3. ASSUME \/ \E key \in Keys : Post(<<key, 0>>)
             \/ \E name \in Givable : PutNewMember(name)
      PROVE  ShadowInv' /\ ListNumbered'
  BY <1>1, <1>3, NewRequestsKeepTypes DEF Post, PutNewMember, Ask
<1>4. ASSUME NEW given \in Given, NEW partial \in BOOLEAN, PutAll(given, partial)
      PROVE  ShadowInv' /\ ListNumbered'
  BY <1>1, <1>4, PutAllKeepsTypes DEF PutAll, Ask
<1>5. CASE PutChild
  BY <1>1, <1>5, PutChildKeepsTypes DEF PutChild
<1>6. CASE Discard
  <2>1. EndSession("failed") /\ UNCHANGED <<base, original>>
    BY <1>6 DEF Discard, EndSession
  <2>2. original' \in Seq(Member) /\ NamesDiffer(original')
    BY <2>1 DEF ShadowInv, TypeOK
  <2>. QED BY <1>1, <2>1, <2>2, EndKeepsTypes
<1>7. CASE Commit
  BY <1>7, CommitKeepsTypes
<1>8. CASE UNCHANGED vars
  BY <1>8 DEF vars, ShadowInv, TypeOK, RequestInv, ListNumbered, Positional
<1>. QED BY <1>2, <1>3, <1>4, <1>5, <1>6, <1>7, <1>8 DEF Next

(* The types, among them that no two members of a container share a name,  *)
(* for every kind of container and request.                                *)
THEOREM ShadowTypes == Spec => []TypeOK
<1>1. ShadowInv /\ ListNumbered => TypeOK
  BY DEF ShadowInv
<1>. QED BY <1>1, ShadowInit, ShadowStep, PTL DEF Spec

(* The members of a List are numbered 1, 2, ... after every commit.        *)
THEOREM ListsStayNumbered == Spec => []ListNumbered
BY ShadowInit, ShadowStep, PTL DEF Spec
===============================================================================
