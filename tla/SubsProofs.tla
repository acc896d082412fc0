------------------------------ MODULE SubsProofs ------------------------------
(***************************************************************************)
(* Theorems about Subs for any number of clients, records, paths, values,  *)
(* renewals and changes of the data: the types, that no two records have   *)
(* the same name, that a request keeps the database until it is done, and  *)
(* that the watcher compares with what the subscriber knows, whichever     *)
(* callbacks fail, or the record says otherwise.                           *)
(***************************************************************************)
EXTENDS Subs, ListProofs

-------------------------------------------------------------------------------
(* The inductive invariant.                                                *)

(* A client is in a request as long as it holds the database, and what it  *)
(* has found to renew or delete can be renewed once more.                  *)
RequestInv ==
    \A c \in Clients :
        /\ holder = c <=> client[c] # Idle
        /\ client[c] # Idle /\ client[c].op # "post" => version[client[c].name] < MaxVersions

(* As long as nobody has changed the list, the watcher's iterator is in it.*)
CursorInv == modified \/ cursor \in 1..Len(records) + 1

(* Nothing was reported for entries that are not made yet, and nothing for *)
(* those made since the watcher looked up the ones it is comparing.        *)
UnreportedFrom(n, given) ==
    \A v \in Versions, p \in Paths : v > given => previous[n][v][p] = NoValue

UnreportedInv ==
    /\ \A n \in Names : UnreportedFrom(n, version[n])
    /\ watcher = "comparing" => /\ current.version <= version[current.name]
                                /\ UnreportedFrom(current.name, current.version)

(* A name that no record has had yet: it is not in the list, the watcher   *)
(* is not at it, and nothing was reported for it. So it is with the names  *)
(* not given out and with the one a POST was given.                        *)
Unheard(n) ==
    /\ n \notin ToSet(records)
    /\ watcher \in {"acquiring", "comparing"} => current.name # n
    /\ UnreportedFrom(n, 0)

NewNamesInv ==
    /\ \A n \in Names \ used : Unheard(n)
    /\ \A c \in Clients : client[c] # Idle => client[c].name \in used
    /\ \A c \in Clients : client[c] # Idle /\ client[c].op = "post" => Unheard(client[c].name)

(* The record object in the list was made with entries of its own.         *)
MadeInv == \A n \in Names : made[n] <= version[n]

(* KnownToSubscriber, also for records that are not in the list (any more);*)
(* and the callback that will tell the subscriber is one for the entries   *)
(* the record has now, so that if it fails the record in the list gets the *)
(* error.                                                                  *)
Newest(n, p) == queue[Max(Waiting(n, p))]

Known(n, p) ==
    \/ previous[n][version[n]][p] = NoValue
    \/ callbackError[n]
    \/ /\ previous[n][version[n]][p] = OnItsWay(n, p)
       /\ Waiting(n, p) # {} => Newest(n, p).version = version[n]

KnownInv == queueWatcher = "taking" => \A n \in Names, p \in Paths : Known(n, p)

TypeInv == TypeOK /\ RequestInv /\ CursorInv
KnowledgeInv == UnreportedInv /\ NewNamesInv /\ MadeInv /\ KnownInv

Callbacks == [name : Names, version : Versions, path : Paths, value : Value]

-------------------------------------------------------------------------------
(* Lemmas about the operators.                                             *)

(* Every list of covs entries names subscribed paths.                      *)
LEMMA CovListsType == CovLists \subseteq Seq(Paths)
<1>. SUFFICES ASSUME NEW S \in SUBSET Paths PROVE SetToSeq(S) \in Seq(Paths)
  BY DEF CovLists
<1>1. IsFiniteSet(S)
  BY SubsAssumption, FS_Subset DEF SubsAssumption
<1>2. SetToSeq(S) \in Seq(S)
  BY <1>1, SetToSeqLists
<1>. QED BY <1>2

(* Removing names leaves a list of names, none twice if none was before.   *)
LEMMA WithoutProperties ==
    ASSUME NEW list \in Seq(Names), NEW names
    PROVE  /\ Without(list, names) \in Seq(Names)
           /\ IsInjective(list) => IsInjective(Without(list, names))
           /\ ToSet(Without(list, names)) \subseteq ToSet(list)
<1>. DEFINE S == {i \in DOMAIN list : list[i] \notin names}
<1>1. S \in SUBSET (1 .. Len(list))
  OBVIOUS
<1>2. Without(list, names) = At(list, S)
  BY DEF Without, Where
<1>. HIDE DEF S
<1>3. /\ At(list, S) \in Seq(Names) /\ (IsInjective(list) => IsInjective(At(list, S)))
      /\ ToSet(At(list, S)) = {list[i] : i \in S}
  BY <1>1, AtProperties
<1>4. {list[i] : i \in S} \subseteq ToSet(list)
  BY <1>1 DEF ToSet
<1>. QED BY <1>2, <1>3, <1>4

(* NoRecord is a record, and a POST is given a name that was not used.     *)
LEMMA NoRecordType == NoRecord \in [name : Names, version : Versions, entries : Seq(Paths)]
<1>1. (CHOOSE n \in Names : TRUE) \in Names
  BY SubsAssumption DEF SubsAssumption
<1>2. 1 \in Versions
  BY SubsAssumption DEF SubsAssumption, Versions
<1>. QED BY <1>1, <1>2 DEF NoRecord

-------------------------------------------------------------------------------
(* Types.                                                                  *)

LEMMA TypeInit == Init => TypeInv
<1>. SUFFICES ASSUME Init PROVE TypeInv
  OBVIOUS
<1>1. 1 \in Versions
  BY SubsAssumption DEF SubsAssumption, Versions
<1>2. /\ covs \in [Names -> Seq(Paths)] /\ life \in [Names -> 0..Lifetime]
      /\ version \in [Names -> Versions] /\ value \in [Paths -> Value]
  BY SubsAssumption, <1>1 DEF SubsAssumption, Init, Value
<1>3. /\ previous \in [Names -> [Versions -> [Paths -> Value \cup {NoValue}]]]
      /\ told \in [Names -> [Paths -> Value \cup {NoValue}]]
      /\ made \in [Names -> Versions] /\ callbackError \in [Names -> BOOLEAN]
  BY <1>2 DEF Init, Unreported
<1>4. /\ records \in Seq(Names) /\ queue \in Seq(Callbacks) /\ queueWatcher = "taking"
      /\ changes \in 0..MaxChanges /\ used \subseteq Names /\ expired \subseteq Names
      /\ cursor \in Nat
      /\ watcher \in {"sleeping", "iterating", "acquiring", "comparing", "pruning", "removing",
                      "dead"}
  BY SubsAssumption DEF SubsAssumption, Init
<1>5. /\ client \in [Clients -> {Idle} \cup [op : {"post", "put", "delete"}, name : Names,
                                            life : 0..Lifetime]]
      /\ holder \in Clients \cup {Watcher, NoOne}
  BY DEF Init
<1>6. current \in [name : Names, version : Versions, entries : Seq(Paths)]
  BY NoRecordType DEF Init
<1>7. modified \in BOOLEAN
  BY DEF Init
<1>8. TypeOK
  BY <1>7, <1>2, <1>3, <1>4, <1>5, <1>6 DEF TypeOK, Callbacks
<1>. QED BY <1>8, SubsAssumption DEF SubsAssumption, Init, TypeInv, RequestInv, CursorInv, Idle

LEMMA OpenKeepsTypes ==
    ASSUME TypeInv, NEW c \in Clients, Open(c)
    PROVE  TypeInv'
<1>. USE DEF TypeInv, TypeOK
<1>1. PICK op \in {"post", "put", "delete"}, n \in Names, l \in {0, Lifetime} :
         /\ op # "post" => n \in ToSet(records) /\ version[n] < MaxVersions
         /\ used' = used \cup {n}
         /\ client' = [client EXCEPT ![c] =
                          [op |-> op, name |-> n, life |-> IF op = "delete" THEN life[n] ELSE l]]
  BY DEF Open
<1>2. /\ UNCHANGED <<listVars, callbackVars, value, changes, watcherVars, modified>>
      /\ holder = NoOne /\ holder' = c /\ client[c] = Idle
  BY DEF Open
<1>3. l \in 0..Lifetime /\ life[n] \in 0..Lifetime
  BY SubsAssumption DEF SubsAssumption
<1>4. client'[c] \in [op : {"post", "put", "delete"}, name : Names, life : 0..Lifetime]
  BY <1>1, <1>3
<1>5. client' \in [Clients -> {Idle} \cup [op : {"post", "put", "delete"}, name : Names,
                                           life : 0..Lifetime]]
  BY <1>1, <1>4
<1>6. TypeOK'
  BY <1>1, <1>2, <1>5 DEF listVars, callbackVars, watcherVars
<1>7. RequestInv'
  BY <1>1, <1>2, SubsAssumption DEF SubsAssumption, RequestInv, Idle, listVars
<1>. QED BY <1>2, <1>6, <1>7 DEF CursorInv, listVars, watcherVars

LEMMA CommitKeepsTypes ==
    ASSUME TypeInv, NEW c \in Clients, Commit(c)
    PROVE  TypeInv'
<1>. USE DEF TypeInv, TypeOK
<1>. DEFINE n == client[c].name
<1>1. /\ holder = c /\ holder' = NoOne /\ client' = [client EXCEPT ![c] = Idle]
      /\ UNCHANGED <<callbackVars, value, changes, used, watcherVars, previous>>
  BY DEF Commit
<1>2. /\ client[c] \in [op : {"post", "put", "delete"}, name : Names, life : 0..Lifetime]
      /\ client[c].op # "post" => version[n] < MaxVersions
  BY <1>1 DEF RequestInv
<1>3. n \in Names /\ client[c].life \in 0..Lifetime
  BY <1>2
<1>4. /\ records' \in Seq(Names)
      /\ (records' = records /\ modified' = modified) \/ modified' = TRUE
  <2>1. Without(records, {n}) \in Seq(Names) /\ Append(records, n) \in Seq(Names)
    BY <1>3, WithoutProperties
  <2>2. \/ records' = Without(records, {n}) /\ modified' = TRUE
        \/ records' = records /\ modified' = modified
        \/ records' = Append(records, n) /\ modified' = TRUE
    BY DEF Commit
  <2>. QED BY <2>1, <2>2
<1>5. covs' \in [Names -> Seq(Paths)]
  <2>1. covs' = covs \/ \E list \in CovLists \cup {covs[n]} : covs' = [covs EXCEPT ![n] = list]
    BY DEF Commit
  <2>2. CovLists \cup {covs[n]} \subseteq Seq(Paths)
    BY <1>3, CovListsType
  <2>. HIDE DEF n
  <2>. QED BY <1>3, <2>1, <2>2
<1>6. life' \in [Names -> 0..Lifetime]
  BY <1>3 DEF Commit, NewLife
<1>7. version' \in [Names -> Versions] /\ made' \in [Names -> Versions]
  <2>. DEFINE next == IF client[c].op = "post" THEN version[n] ELSE version[n] + 1
  <2>1. client[c].op # "post" => version[n] + 1 \in Versions
    <3>1. version[n] \in 1..MaxVersions
      BY <1>3 DEF Versions
    <3>. HIDE DEF n, TypeInv, TypeOK
    <3>. QED BY <1>2, <3>1, SubsAssumption DEF SubsAssumption, Versions, n
  <2>2. next \in Versions
    BY <1>3, <2>1
  <2>3. \/ version' = version /\ made' = made
        \/ version' = [version EXCEPT ![n] = next] /\ made' = made
        \/ version' = [version EXCEPT ![n] = next] /\ made' = [made EXCEPT ![n] = version'[n]]
    BY DEF Commit
  <2>4. version \in [Names -> Versions] /\ made \in [Names -> Versions]
    OBVIOUS
  <2>. HIDE DEF n, next, TypeInv, TypeOK
  <2>. QED BY <1>3, <2>2, <2>3, <2>4
<1>11. callbackError' \in [Names -> BOOLEAN]
  BY <1>3 DEF Commit
<1>8. TypeOK'
  BY <1>1, <1>4, <1>5, <1>6, <1>7, <1>11 DEF watcherVars, callbackVars
<1>9. RequestInv'
  BY <1>1, SubsAssumption DEF SubsAssumption, RequestInv
<1>10. CursorInv'
  BY <1>1, <1>4 DEF CursorInv, watcherVars
<1>. QED BY <1>8, <1>9, <1>10

(* Updating one cell of a table of tables keeps its type.                  *)
LEMMA NestedUpdate ==
    ASSUME NEW A, NEW B, NEW C, NEW V, NEW f \in [A -> [B -> [C -> V]]],
           NEW a \in A, NEW b \in B, NEW c \in C, NEW v \in V
    PROVE  [f EXCEPT ![a][b][c] = v] \in [A -> [B -> [C -> V]]]
<1>. DEFINE row == [f[a][b] EXCEPT ![c] = v]
            table == [f[a] EXCEPT ![b] = row]
<1>1. row \in [C -> V]
  OBVIOUS
<1>2. table \in [B -> [C -> V]]
  <2>. HIDE DEF row
  <2>. QED BY <1>1
<1>3. [f EXCEPT ![a] = table] \in [A -> [B -> [C -> V]]]
  <2>. HIDE DEF table
  <2>. QED BY <1>2
<1>. QED BY <1>3

(* RequestInv speaks of three variables.                                   *)
LEMMA RequestUntouched ==
    ASSUME RequestInv, UNCHANGED <<holder, client, version>>
    PROVE  RequestInv'
BY DEF RequestInv

LEMMA SetsErrorType ==
    ASSUME TypeOK, NEW n \in Names, NEW v, SetsError(n, v)
    PROVE  callbackError' \in [Names -> BOOLEAN]
BY DEF TypeOK, SetsError

LEMMA CompareKeepsTypes ==
    ASSUME TypeInv, CompareEntry \/ EntryFails
    PROVE  TypeInv'
<1>. USE DEF TypeInv, TypeOK
<1>1. /\ current.entries \in Seq(Paths) /\ current.entries # <<>>
      /\ current.name \in Names /\ current.version \in Versions
  BY DEF CompareEntry, EntryFails
<1>2. Entry \in Paths /\ Tail(current.entries) \in Seq(Paths)
  BY <1>1 DEF Entry
<1>3. /\ current' = [current EXCEPT !.entries = Tail(current.entries)]
      /\ holder' = IF holder = Watcher THEN NoOne ELSE holder
      /\ UNCHANGED <<records, covs, life, version, made, told, queueWatcher, value, changes,
                     clientVars, watcher, cursor, modified, expired>>
  BY DEF CompareEntry, EntryFails, NextEntry, listVars, callbackVars
<1>4. current' \in [name : Names, version : Versions, entries : Seq(Paths)]
  BY <1>2, <1>3
<1>5. queue' \in Seq(Callbacks) /\ callbackError' \in [Names -> BOOLEAN]
  <2>. DEFINE new == [name |-> current.name, version |-> current.version, path |-> Entry,
                      value |-> value[Entry]]
  <2>1. new \in Callbacks /\ queue \in Seq(Callbacks)
    BY <1>1, <1>2 DEF Callbacks
  <2>2. \/ queue' = queue /\ callbackError' = callbackError
        \/ queue' = Append(queue, new) /\ callbackError' = callbackError
        \/ queue' = queue /\ SetsError(current.name, current.version)
    BY DEF CompareEntry, EntryFails, QueueCallback, listVars, callbackVars
  <2>3. SetsError(current.name, current.version) => callbackError' \in [Names -> BOOLEAN]
    BY <1>1, SetsErrorType
  <2>. HIDE DEF new, TypeInv, TypeOK
  <2>4. queue' \in Seq(Callbacks)
    BY <2>1, <2>2
  <2>. QED BY <2>2, <2>3, <2>4 DEF TypeInv, TypeOK
<1>6. previous' \in [Names -> [Versions -> [Paths -> Value \cup {NoValue}]]]
  <2>1. \/ previous' = previous
        \/ previous' = [previous EXCEPT ![current.name][current.version][Entry] = value[Entry]]
    BY DEF CompareEntry, EntryFails, listVars
  <2>2. value[Entry] \in Value \cup {NoValue}
    BY <1>2
  <2>3. [previous EXCEPT ![current.name][current.version][Entry] = value[Entry]]
           \in [Names -> [Versions -> [Paths -> Value \cup {NoValue}]]]
    BY <1>1, <1>2, <2>2, NestedUpdate
  <2>. QED BY <2>1, <2>3
<1>7. TypeOK'
  BY <1>3, <1>4, <1>5, <1>6 DEF clientVars, Callbacks
<1>8. RequestInv'
  BY <1>3, SubsAssumption DEF SubsAssumption, RequestInv, clientVars
<1>. QED BY <1>3, <1>7, <1>8 DEF CursorInv

LEMMA WatcherKeepsTypes ==
    ASSUME TypeInv, WatcherStep
    PROVE  TypeInv'
<1>. USE DEF TypeInv, TypeOK
<1>1. ASSUME Wake \/ StartPruning PROVE TypeInv'
  <2>1. /\ watcher' \in {"iterating", "pruning"} /\ cursor' = 1 /\ modified' = FALSE
        /\ UNCHANGED <<listVars, callbackVars, value, changes, holder, clientVars, current, expired>>
    BY <1>1 DEF Wake, StartPruning, StartLoop
  <2>2. TypeOK'
    BY <2>1 DEF listVars, callbackVars, clientVars
  <2>3. RequestInv'
    BY <2>1, RequestUntouched DEF listVars, callbackVars, clientVars
  <2>4. 1 \in 1..Len(records) + 1
    OBVIOUS
  <2>5. CursorInv'
    BY <2>1, <2>4 DEF CursorInv, listVars
  <2>. QED BY <2>2, <2>3, <2>5
<1>2. ASSUME IteratorThrows \/ Refused \/ EndPruning PROVE TypeInv'
  BY <1>2 DEF IteratorThrows, Refused, EndPruning, RequestInv, CursorInv, listVars, callbackVars, clientVars
<1>3. ASSUME NextRecord PROVE TypeInv'
  <2>1. cursor \in 1..Len(records) /\ records[cursor] \in Names
    BY <1>3 DEF NextRecord, HasNext, CursorInv
  <2>2. /\ current' = [current EXCEPT !.name = records[cursor]]
        /\ cursor' = cursor + 1 /\ watcher' = "acquiring"
        /\ UNCHANGED <<listVars, callbackVars, value, changes, holder, clientVars, modified, expired>>
    BY <1>3 DEF NextRecord
  <2>3. current' \in [name : Names, version : Versions, entries : Seq(Paths)]
    BY <2>1, <2>2
  <2>4. cursor' \in 1..Len(records) + 1 /\ cursor' \in Nat
    BY <2>1, <2>2
  <2>5. TypeOK'
    BY <2>2, <2>3, <2>4 DEF listVars, callbackVars, clientVars
  <2>6. RequestInv'
    BY <2>2, RequestUntouched DEF listVars, callbackVars, clientVars
  <2>. QED BY <2>2, <2>4, <2>5, <2>6 DEF CursorInv, listVars
<1>4. ASSUME Acquire PROVE TypeInv'
  <2>1. /\ holder = NoOne /\ holder' = Watcher /\ watcher' \in {"dead", "comparing"}
        /\ current' = [current EXCEPT !.version = version[current.name],
                                      !.entries = covs[current.name]]
        /\ UNCHANGED <<listVars, callbackVars, value, changes, clientVars, cursor, modified, expired>>
    BY <1>4 DEF Acquire
  <2>2. current' \in [name : Names, version : Versions, entries : Seq(Paths)]
    BY <2>1
  <2>3. TypeOK'
    BY <2>1, <2>2 DEF listVars, callbackVars, clientVars
  <2>4. RequestInv'
    BY <2>1, SubsAssumption DEF SubsAssumption, RequestInv, listVars, clientVars
  <2>. QED BY <2>1, <2>3, <2>4 DEF CursorInv, listVars
<1>5. ASSUME CompareEntry \/ EntryFails PROVE TypeInv'
  BY <1>5, CompareKeepsTypes
<1>6. ASSUME EndRecord PROVE TypeInv'
  BY <1>6, NoRecordType DEF EndRecord, RequestInv, CursorInv, listVars, callbackVars, clientVars
<1>7. ASSUME Age PROVE TypeInv'
  <2>. DEFINE n == records[cursor]
              left == IF life[n] > Elapsed THEN life[n] - Elapsed ELSE 0
  <2>1. cursor \in 1..Len(records) /\ n \in Names
    BY <1>7 DEF Age, HasNext, CursorInv
  <2>2. /\ life' = [life EXCEPT ![n] = left]
        /\ expired' = IF left = 0 THEN expired \cup {n} ELSE expired
        /\ cursor' = cursor + 1
        /\ UNCHANGED <<records, covs, version, made, previous, callbackError, callbackVars, value,
                       changes, holder, clientVars, watcher, modified, current>>
    BY <1>7 DEF Age
  <2>3. left \in 0..Lifetime
    <3>1. life[n] \in 0..Lifetime
      BY <2>1
    <3>. HIDE DEF n
    <3>. QED BY <3>1, SubsAssumption DEF SubsAssumption
  <2>4. life' \in [Names -> 0..Lifetime] /\ expired' \subseteq Names
    <3>. HIDE DEF n, left
    <3>. QED BY <2>1, <2>2, <2>3
  <2>. HIDE DEF n, left
  <2>5. cursor' \in 1..Len(records) + 1 /\ cursor' \in Nat
    BY <2>1, <2>2
  <2>6. TypeOK'
    BY <2>2, <2>4, <2>5 DEF callbackVars, clientVars
  <2>7. RequestInv'
    BY <2>2, RequestUntouched DEF clientVars
  <2>. QED BY <2>2, <2>5, <2>6, <2>7 DEF CursorInv
<1>8. ASSUME RemoveExpired PROVE TypeInv'
  <2>1. /\ records' = Without(records, expired) /\ expired' = {} /\ watcher' = "sleeping"
        /\ cursor' = 1 /\ modified' = FALSE
        /\ UNCHANGED <<covs, life, version, made, previous, callbackError, callbackVars, value,
                       changes, holder, clientVars, current>>
    BY <1>8 DEF RemoveExpired
  <2>2. records' \in Seq(Names) /\ Len(records') \in Nat
    BY <2>1, WithoutProperties
  <2>3. TypeOK'
    BY <2>1, <2>2 DEF callbackVars, clientVars
  <2>4. RequestInv'
    BY <2>1, RequestUntouched DEF clientVars
  <2>5. CursorInv'
    <3>. HIDE DEF TypeInv, TypeOK
    <3>. QED BY <2>1, <2>2 DEF CursorInv
  <2>. HIDE DEF TypeOK
  <2>. QED BY <2>3, <2>4, <2>5
<1>. QED
  BY <1>1, <1>2, <1>3, <1>4, <1>5, <1>6, <1>7, <1>8 DEF WatcherStep

LEMMA TypeStep ==
    ASSUME TypeInv, [Next]_vars
    PROVE  TypeInv'
<1>. USE DEF TypeInv, TypeOK
<1>1. ASSUME NEW p \in Paths, ChangeData(p) PROVE TypeInv'
  <2>1. value' \in [Paths -> Value]
    <3>1. PICK v \in Value : value' = [value EXCEPT ![p] = v]
      BY <1>1 DEF ChangeData
    <3>. QED BY <3>1
  <2>2. changes' \in 0..MaxChanges
    BY <1>1, SubsAssumption DEF SubsAssumption, ChangeData
  <2>. QED
    BY <1>1, <2>1, <2>2 DEF ChangeData, RequestInv, CursorInv, listVars, callbackVars, clientVars, watcherVars
<1>2. ASSUME NEW c \in Clients, Open(c) PROVE TypeInv'
  BY <1>2, OpenKeepsTypes
<1>3. ASSUME NEW c \in Clients, Commit(c) PROVE TypeInv'
  BY <1>3, CommitKeepsTypes
<1>4. ASSUME NEW c \in Clients, Abort(c) PROVE TypeInv'
  BY <1>4, SubsAssumption
  DEF SubsAssumption, Abort, RequestInv, CursorInv, listVars, callbackVars, watcherVars
<1>5. ASSUME WatcherStep PROVE TypeInv'
  BY <1>5, WatcherKeepsTypes
<1>6. ASSUME QueueWatcherStep PROVE TypeInv'
  <2>. DEFINE due == Head(queue)
  <2>1. /\ Take /\ queue \in Seq(Callbacks) /\ queue # <<>> /\ queue' = Tail(queue)
        /\ UNCHANGED <<records, covs, life, version, made, previous, value, changes, holder,
                       clientVars, watcherVars, modified>>
    BY <1>6 DEF QueueWatcherStep, Callback, CallbackFails, CallbackThrows, Take, Callbacks
  <2>2. due \in Callbacks /\ queue' \in Seq(Callbacks)
    <3>. HIDE DEF TypeInv, TypeOK
    <3>. QED BY <2>1
  <2>3. due.name \in Names /\ due.path \in Paths /\ due.value \in Value
    BY <2>2 DEF Callbacks
  <2>4. /\ told' = told \/ told' = [told EXCEPT ![due.name][due.path] = due.value]
        /\ callbackError' = callbackError \/ SetsError(due.name, due.version)
        /\ queueWatcher' = queueWatcher \/ queueWatcher' = "dead"
    BY <1>6 DEF QueueWatcherStep, Callback, CallbackFails, CallbackThrows, Due
  <2>. HIDE DEF due
  <2>5. told' \in [Names -> [Paths -> Value \cup {NoValue}]]
    <3>1. told \in [Names -> [Paths -> Value \cup {NoValue}]]
      OBVIOUS
    <3>. HIDE DEF TypeInv, TypeOK
    <3>. QED BY <2>3, <2>4, <3>1
  <2>6. callbackError' \in [Names -> BOOLEAN]
    BY <2>3, <2>4, SetsErrorType
  <2>7. queueWatcher' \in {"taking", "dead"}
    BY <2>4
  <2>8. TypeOK'
    BY <2>1, <2>2, <2>5, <2>6, <2>7 DEF Callbacks, clientVars, watcherVars
  <2>. QED BY <2>1, <2>8 DEF RequestInv, CursorInv, clientVars, watcherVars
<1>7. CASE UNCHANGED vars
  BY <1>7 DEF vars, RequestInv, CursorInv, listVars, callbackVars, clientVars, watcherVars
<1>. QED
  BY <1>1, <1>2, <1>3, <1>4, <1>5, <1>6, <1>7 DEF Next, ClientStep

(* Every variable keeps its type: no renewal makes one version of the      *)
(* entries too many, and no iterator reads past the end of the list.       *)
THEOREM SubsTypes == Spec => []TypeOK
<1>1. Spec => []TypeInv
  BY TypeInit, TypeStep, PTL DEF Spec
<1>. QED BY <1>1, PTL DEF TypeInv

-------------------------------------------------------------------------------
(* Names.                                                                  *)

(* A name that is not in a list can be appended to it.                     *)
LEMMA AppendKeepsInjective ==
    ASSUME NEW T, NEW list \in Seq(T), IsInjective(list), NEW e \in T, e \notin ToSet(list)
    PROVE  IsInjective(Append(list, e))
<1>. DEFINE new == Append(list, e)
<1>1. /\ Len(list) \in Nat /\ DOMAIN list = 1..Len(list) /\ DOMAIN new = 1..Len(list) + 1
      /\ new[Len(list) + 1] = e /\ \A i \in 1..Len(list) : new[i] = list[i]
  OBVIOUS
<1>2. \A i \in 1..Len(list) : list[i] # e
  BY <1>1 DEF ToSet
<1>. HIDE DEF new
<1>3. ASSUME NEW i \in DOMAIN new, NEW j \in DOMAIN new, new[i] = new[j] PROVE i = j
  <2>1. CASE i = Len(list) + 1 \/ j = Len(list) + 1
    BY <1>1, <1>2, <1>3, <2>1
  <2>2. CASE i # Len(list) + 1 /\ j # Len(list) + 1
    BY <1>1, <1>3, <2>2 DEF IsInjective
  <2>. QED BY <2>1, <2>2
<1>. QED BY <1>3 DEF IsInjective, new

(* A commit adds no name to the list but its own.                          *)
LEMMA CommitAddsOne ==
    ASSUME TypeInv, NEW c \in Clients, Commit(c)
    PROVE  ToSet(records)' \subseteq ToSet(records) \cup {client[c].name}
<1>. DEFINE n == client[c].name
<1>1. n \in Names /\ records \in Seq(Names)
  BY DEF TypeInv, TypeOK, RequestInv, Commit
<1>2. \/ records' = Without(records, {n})
      \/ records' = records
      \/ records' = Append(records, n)
  BY DEF Commit
<1>3. ToSet(Without(records, {n})) \subseteq ToSet(records)
  BY <1>1, WithoutProperties
<1>4. ToSet(Append(records, n)) \subseteq ToSet(records) \cup {n}
  <2>. HIDE DEF n
  <2>. QED BY <1>1 DEF ToSet
<1>. QED BY <1>2, <1>3, <1>4

LEMMA NamesStep ==
    ASSUME TypeInv, OneRecordPerName, [Next]_vars
    PROVE  OneRecordPerName'
<1>. USE DEF OneRecordPerName
<1>0. records \in Seq(Names)
  BY DEF TypeInv, TypeOK
<1>1. ASSUME NEW c \in Clients, Commit(c) PROVE OneRecordPerName'
  <2>. DEFINE n == client[c].name
  <2>1. n \in Names
    BY <1>1 DEF TypeInv, TypeOK, RequestInv, Commit
  <2>2. \/ records' = Without(records, {n})
        \/ records' = records
        \/ n \notin ToSet(records) /\ records' = Append(records, n)
    BY <1>1 DEF Commit
  <2>. HIDE DEF n
  <2>3. IsInjective(Without(records, {n}))
    BY <1>0, WithoutProperties
  <2>4. n \notin ToSet(records) => IsInjective(Append(records, n))
    BY <1>0, <2>1, AppendKeepsInjective
  <2>. QED BY <2>2, <2>3, <2>4
<1>2. ASSUME RemoveExpired PROVE OneRecordPerName'
  BY <1>0, <1>2, WithoutProperties DEF RemoveExpired
<1>3. CASE UNCHANGED records
  BY <1>3
<1>4. ASSUME NEW p \in Paths, ChangeData(p) PROVE UNCHANGED records
  BY <1>4 DEF ChangeData, listVars
<1>5. ASSUME NEW c \in Clients, Open(c) \/ Abort(c) PROVE UNCHANGED records
  BY <1>5 DEF Open, Abort, listVars
<1>6. ASSUME WatcherStep, ~RemoveExpired PROVE UNCHANGED records
  BY <1>6
  DEF WatcherStep, Wake, IteratorThrows, NextRecord, Acquire, Refused, CompareEntry, EntryFails,
      EndRecord, StartPruning, Age, EndPruning, listVars
<1>7. ASSUME QueueWatcherStep PROVE UNCHANGED records
  BY <1>7 DEF QueueWatcherStep, Callback, CallbackFails, CallbackThrows, Take
<1>8. CASE UNCHANGED vars
  BY <1>8 DEF vars
<1>. QED
  BY <1>1, <1>2, <1>3, <1>4, <1>5, <1>6, <1>7, <1>8 DEF Next, ClientStep

(* No two records have the same name, however many clients post and renew  *)
(* records while the watcher removes expired ones.                         *)
THEOREM NamesAreUnique == Spec => []OneRecordPerName
<1>1. Init => TypeInv /\ OneRecordPerName
  BY TypeInit DEF Init, OneRecordPerName, IsInjective
<1>2. TypeInv /\ OneRecordPerName /\ [Next]_vars => (TypeInv /\ OneRecordPerName)'
  BY TypeStep, NamesStep
<1>. QED BY <1>1, <1>2, PTL DEF Spec

(* A request that was given the database has it until it commits or aborts:*)
(* no discard of the watcher's session, however late, takes it away        *)
(* (Session.close() looks whose the lock is before it frees it).           *)
THEOREM RequestsKeepDatabase == Spec => []RequestHasDatabase
<1>1. TypeInv => RequestHasDatabase
  BY DEF TypeInv, RequestInv, RequestHasDatabase
<1>. QED BY <1>1, TypeInit, TypeStep, PTL DEF Spec

-------------------------------------------------------------------------------
(* What the subscriber knows.                                              *)

(* A new callback is the newest one for its record and path, and leaves    *)
(* what is on its way for the others as it is.                             *)
LEMMA QueuedIsNewest ==
    ASSUME TypeOK, NEW due \in Callbacks, queue' = Append(queue, due), told' = told,
           NEW m \in Names, NEW q \in Paths
    PROVE  IF m = due.name /\ q = due.path
           THEN Newest(m, q)' = due /\ OnItsWay(m, q)' = due.value
           ELSE /\ Waiting(m, q)' = Waiting(m, q) /\ OnItsWay(m, q)' = OnItsWay(m, q)
                /\ Waiting(m, q) # {} => Newest(m, q)' = Newest(m, q)
<1>. DEFINE L == Len(queue)
            W == Waiting(m, q)
<1>1. /\ L \in Nat /\ DOMAIN queue = 1..L /\ DOMAIN queue' = 1..L + 1
      /\ queue'[L + 1] = due /\ \A i \in 1..L : queue'[i] = queue[i]
  BY DEF TypeOK, Callbacks
<1>2. W \in SUBSET (1..L) /\ Waiting(m, q)' \in SUBSET (1..L + 1)
  BY <1>1 DEF Waiting
<1>3. CASE m = due.name /\ q = due.path
  <2>1. L + 1 \in Waiting(m, q)' /\ \A i \in Waiting(m, q)' : i <= L + 1
    BY <1>1, <1>3 DEF Waiting
  <2>2. Waiting(m, q)' \in SUBSET Int
    BY <1>2
  <2>3. Max(Waiting(m, q)') = L + 1
    <3>. HIDE DEF L
    <3>. QED BY <2>1, <2>2, MaxIs
  <2>. QED BY <1>1, <1>3, <2>1, <2>3 DEF OnItsWay, Newest
<1>4. CASE ~(m = due.name /\ q = due.path)
  <2>1. Waiting(m, q)' = W
    BY <1>1, <1>4 DEF Waiting
  <2>2. W # {} => Max(W) \in 1..L
    BY <1>1, <1>2, MaxOfPositions
  <2>. QED BY <1>1, <1>4, <2>1, <2>2 DEF OnItsWay, Newest
<1>. QED BY <1>3, <1>4

(* Taking the first callback of the queue leaves the newest ones where     *)
(* there are others; where there are none it was the newest itself.        *)
LEMMA TakeKeepsNewest ==
    ASSUME TypeOK, Take, NEW m \in Names, NEW q \in Paths
    PROVE  /\ Waiting(m, q)' # {} => Waiting(m, q) # {} /\ Newest(m, q)' = Newest(m, q)
           /\ Waiting(m, q)' = {} /\ Waiting(m, q) # {} =>
                  Newest(m, q) = Due /\ m = Due.name /\ q = Due.path
           /\ Waiting(m, q) = {} => ~(m = Due.name /\ q = Due.path)
<1>. DEFINE L == Len(queue)
            W == Waiting(m, q)
            V == Waiting(m, q)'
<1>1. /\ L \in Nat /\ DOMAIN queue = 1..L /\ L >= 1 /\ DOMAIN queue' = 1..L - 1
      /\ \A i \in 1..L - 1 : queue'[i] = queue[i + 1]
      /\ Due = queue[1]
  <2>1. queue \in Seq(Callbacks) /\ queue # <<>> /\ queue' = Tail(queue)
    BY DEF TypeOK, Take, Callbacks
  <2>2. Due = queue[1]
    BY <2>1 DEF Due
  <2>3. L \in Nat /\ DOMAIN queue = 1..L /\ L >= 1
    BY <2>1
  <2>4. DOMAIN queue' = 1..L - 1 /\ \A i \in 1..L - 1 : queue'[i] = queue[i + 1]
    BY <2>1
  <2>. QED BY <2>2, <2>3, <2>4
<1>2. W \in SUBSET (1..L) /\ V \in SUBSET (1..L - 1)
  BY <1>1 DEF Waiting
<1>3. \A i \in 1..L - 1 : i \in V <=> i + 1 \in W
  BY <1>1 DEF Waiting
<1>4. 1 \in W <=> m = Due.name /\ q = Due.path
  BY <1>1 DEF Waiting
<1>5. ASSUME V = {}, W # {} PROVE 1 \in W /\ Newest(m, q) = Due
  <2>1. \A i \in W : i = 1
    <3>. SUFFICES ASSUME NEW i \in W, i # 1 PROVE FALSE
      OBVIOUS
    <3>1. i - 1 \in 1..L - 1 /\ (i - 1) + 1 = i
      BY <1>1, <1>2
    <3>2. i - 1 \in V
      BY <1>3, <3>1
    <3>. QED BY <1>5, <3>2
  <2>2. 1 \in W /\ \A i \in W : i <= 1
    BY <1>5, <2>1
  <2>3. Max(W) = 1
    <3>1. W \in SUBSET Int
      BY <1>2
    <3>. QED BY <2>2, <3>1, MaxIs
  <2>. QED BY <1>1, <2>2, <2>3 DEF Newest
<1>6. ASSUME V # {} PROVE W # {} /\ Newest(m, q)' = Newest(m, q)
  <2>. DEFINE x == Max(V)
  <2>1. x \in V /\ \A i \in V : i <= x
    <3>1. PICK S : S = V
      OBVIOUS
    <3>2. PICK k : k = L - 1
      OBVIOUS
    <3>3. k \in Nat /\ S \in SUBSET (1..k) /\ S # {}
      BY <1>1, <1>2, <1>6, <3>1, <3>2
    <3>4. Max(S) \in S /\ \A i \in S : i <= Max(S)
      BY <3>3, MaxOfPositions
    <3>. QED BY <3>1, <3>4
  <2>2. x \in 1..L - 1 /\ x + 1 \in W
    BY <1>2, <1>3, <2>1
  <2>3. ASSUME NEW i \in W PROVE i <= x + 1
    <3>1. i \in 1..L
      BY <1>2
    <3>2. CASE i = 1
      BY <2>2, <3>2
    <3>3. CASE i # 1
      <4>1. i - 1 \in 1..L - 1 /\ (i - 1) + 1 = i
        BY <1>1, <3>1, <3>3
      <4>2. i - 1 \in V
        BY <1>3, <4>1
      <4>3. i - 1 <= x
        BY <2>1, <4>2
      <4>. HIDE DEF x
      <4>. QED BY <2>2, <3>1, <4>3
    <3>. QED BY <3>2, <3>3
  <2>4. Max(W) = x + 1
    <3>1. W \in SUBSET Int
      BY <1>2
    <3>. HIDE DEF x, W
    <3>. QED BY <2>2, <2>3, <3>1, MaxIs
  <2>. QED BY <1>1, <2>2, <2>4 DEF Newest
<1>. QED BY <1>4, <1>5, <1>6

(* An error is set in the record of the entries the list has now.          *)
LEMMA ErrorIsSet ==
    ASSUME TypeOK, NEW n \in Names, NEW v \in Versions, SetsError(n, v)
    PROVE  /\ v >= made[n] => callbackError'[n]
           /\ \A m \in Names : callbackError[m] => callbackError'[m]
BY DEF TypeOK, SetsError

LEMMA KnowledgeInit == Init => KnowledgeInv
<1>. SUFFICES ASSUME Init PROVE KnowledgeInv
  OBVIOUS
<1>1. \A n \in Names, v \in Versions, p \in Paths : previous[n][v][p] = NoValue
  BY DEF Init, Unreported
<1>2. version \in [Names -> Versions] /\ watcher = "sleeping" /\ ToSet(records) = {}
  BY TypeInit DEF Init, TypeInv, TypeOK, ToSet
<1>3. KnownInv /\ UnreportedInv
  BY <1>1, <1>2 DEF UnreportedInv, UnreportedFrom, KnownInv, Known
<1>4. NewNamesInv
  BY <1>1, <1>2 DEF Init, NewNamesInv, Unheard, UnreportedFrom
<1>5. MadeInv
  BY <1>2 DEF Init, MadeInv, Versions
<1>. QED BY <1>3, <1>4, <1>5 DEF KnowledgeInv

(* A name stays unheard of as long as no record gets it.                   *)
LEMMA StaysUnheard ==
    ASSUME NEW n, Unheard(n), previous' = previous,
           n \notin ToSet(records)',
           watcher' \in {"acquiring", "comparing"} =>
               \/ current'.name # n
               \/ watcher \in {"acquiring", "comparing"} /\ current'.name = current.name
    PROVE  Unheard(n)'
BY DEF Unheard, UnreportedFrom

(* Nothing changes as long as what was reported and what will be told      *)
(* stays, no names are given out, and the watcher does not start to        *)
(* compare.                                                                *)
LEMMA KnowledgeUntouched ==
    ASSUME TypeInv, KnowledgeInv, UNCHANGED <<version, made, previous, callbackError, callbackVars>>,
           UNCHANGED clientVars \/ \E c \in Clients : client' = [client EXCEPT ![c] = Idle]
                                                      /\ used' = used,
           watcher' = "comparing" => watcher = "comparing" /\ current' = current,
           watcher' = "acquiring" => \/ current'.name \in ToSet(records)
                                     \/ watcher = "acquiring" /\ current' = current,
           ToSet(records)' \subseteq ToSet(records)
    PROVE  KnowledgeInv'
<1>1. KnownInv'
  BY DEF KnowledgeInv, KnownInv, Known, OnItsWay, Waiting, Newest, callbackVars
<1>2. UnreportedInv' /\ MadeInv'
  BY DEF KnowledgeInv, UnreportedInv, UnreportedFrom, MadeInv
<1>3. NewNamesInv'
  <2>1. \A n : Unheard(n) => Unheard(n)'
    BY StaysUnheard DEF Unheard
  <2>2. used' = used /\ \A c \in Clients : client'[c] # Idle => client'[c] = client[c]
    BY DEF clientVars, TypeInv, TypeOK
  <2>. QED BY <2>1, <2>2 DEF KnowledgeInv, NewNamesInv
<1>. QED BY <1>1, <1>2, <1>3 DEF KnowledgeInv

(* A POST is given a name that no record has had.                          *)
LEMMA OpenKeepsKnowledge ==
    ASSUME TypeInv, KnowledgeInv, NEW c \in Clients, Open(c)
    PROVE  KnowledgeInv'
<1>1. UNCHANGED <<listVars, callbackVars, watcherVars>>
  BY DEF Open
<1>2. KnownInv' /\ UnreportedInv' /\ MadeInv'
  BY <1>1 DEF KnowledgeInv, KnownInv, Known, OnItsWay, Waiting, Newest, UnreportedInv,
      UnreportedFrom, MadeInv, listVars, callbackVars, watcherVars
<1>3. \A n : Unheard(n) => Unheard(n)'
  BY <1>1 DEF Unheard, UnreportedFrom, listVars, watcherVars
<1>4. PICK op \in {"post", "put", "delete"}, n \in Names, l \in {0, Lifetime} :
         /\ op = "post" => used # Names /\ n = FreshName
         /\ used' = used \cup {n}
         /\ client' = [client EXCEPT ![c] =
                          [op |-> op, name |-> n, life |-> IF op = "delete" THEN life[n] ELSE l]]
  BY DEF Open
<1>5. op = "post" => Unheard(n)
  <2>1. op = "post" => n \notin used
    <3>1. used \subseteq Names
      BY DEF TypeInv, TypeOK
    <3>2. used # Names => \E m \in Names : m \notin used
      BY <3>1
    <3>. QED BY <1>4, <3>2 DEF FreshName
  <2>. QED BY <2>1 DEF KnowledgeInv, NewNamesInv
<1>6. /\ client'[c].name = n /\ client'[c].op = op
      /\ \A d \in Clients \ {c} : client'[d] = client[d]
  BY <1>4 DEF TypeInv, TypeOK
<1>7. \A m \in Names \ used' : Unheard(m)'
  BY <1>3, <1>4 DEF KnowledgeInv, NewNamesInv
<1>8. \A d \in Clients : client'[d] # Idle => client'[d].name \in used'
  BY <1>4, <1>6 DEF KnowledgeInv, NewNamesInv
<1>9. (\A d \in Clients : client[d] # Idle /\ client[d].op = "post" => Unheard(client[d].name))'
  <2>. SUFFICES ASSUME NEW d \in Clients, client'[d] # Idle, client'[d].op = "post"
                PROVE  Unheard(client[d].name)'
    OBVIOUS
  <2>1. CASE d = c
    BY <1>3, <1>5, <1>6, <2>1 DEF Unheard, UnreportedFrom
  <2>2. CASE d # c
    <3>1. Unheard(client[d].name) /\ client'[d] = client[d]
      BY <1>6, <2>2 DEF KnowledgeInv, NewNamesInv
    <3>. QED BY <1>1, <3>1 DEF Unheard, UnreportedFrom, listVars, watcherVars
  <2>. QED BY <2>1, <2>2
<1>10. NewNamesInv'
  BY <1>7, <1>8, <1>9 DEF NewNamesInv
<1>. QED BY <1>2, <1>10 DEF KnowledgeInv

(* Renewing a record moves on to entries that have reported nothing, and   *)
(* so does adding one.                                                     *)
LEMMA CommitKeepsKnowledge ==
    ASSUME TypeInv, KnowledgeInv, NEW c \in Clients, Commit(c)
    PROVE  KnowledgeInv'
<1>. DEFINE n == client[c].name
            op == client[c].op
<1>1. /\ UNCHANGED <<told, queue, queueWatcher, previous, watcher, current, used>>
      /\ client' = [client EXCEPT ![c] = Idle]
  BY DEF Commit, watcherVars, callbackVars
<1>2. /\ n \in Names /\ version \in [Names -> Versions] /\ version' \in [Names -> Versions]
      /\ made \in [Names -> Versions] /\ made' \in [Names -> Versions]
      /\ callbackError \in [Names -> BOOLEAN] /\ client[c] # Idle
  <2>1. client[c].name \in Names /\ client[c] # Idle
    BY DEF Commit, TypeInv, RequestInv, TypeOK, Idle
  <2>. QED BY <2>1, CommitKeepsTypes DEF TypeInv, TypeOK
<1>3. \/ UNCHANGED <<version, made, callbackError>>
      \/ version' = [version EXCEPT ![n] = version[n] + 1]
      \/ op = "post" /\ version' = [version EXCEPT ![n] = version[n]]
  BY DEF Commit
<1>4. \A m \in Names : /\ version[m] \in Int /\ version'[m] \in Int /\ version[m] <= version'[m]
                       /\ m # n => /\ version'[m] = version[m] /\ made'[m] = made[m]
                                   /\ callbackError'[m] = callbackError[m]
  <2>1. \A m \in Names : version[m] \in Int /\ version'[m] \in Int
    BY <1>2 DEF Versions
  <2>2. \A m \in Names : version[m] <= version'[m] /\ (m # n => version'[m] = version[m])
    <3>. HIDE DEF n, op
    <3>. QED BY <1>2, <1>3, <2>1
  <2>3. \A m \in Names \ {n} : made'[m] = made[m] /\ callbackError'[m] = callbackError[m]
    BY <1>2 DEF Commit
  <2>. QED BY <2>1, <2>2, <2>3
<1>5. UnreportedInv'
  <2>1. \A m \in Names : UnreportedFrom(m, version[m])
    BY DEF KnowledgeInv, UnreportedInv
  <2>2. \A m \in Names : UnreportedFrom(m, version[m])'
    <3>. SUFFICES ASSUME NEW m \in Names, NEW v \in Versions, NEW p \in Paths, v > version'[m]
                  PROVE  previous[m][v][p] = NoValue
      BY <1>1 DEF UnreportedFrom
    <3>1. v > version[m]
      BY <1>4 DEF Versions
    <3>. QED BY <2>1, <3>1 DEF UnreportedFrom
  <2>3. watcher = "comparing" => /\ current.version <= version[current.name]
                                 /\ UnreportedFrom(current.name, current.version)
    BY DEF KnowledgeInv, UnreportedInv
  <2>4. current.name \in Names /\ current.version \in Int
    BY DEF TypeInv, TypeOK, Versions
  <2>5. watcher = "comparing" => current.version <= version'[current.name]
    BY <1>4, <2>3, <2>4
  <2>6. watcher = "comparing" => UnreportedFrom(current.name, current.version)'
    BY <1>1, <2>3 DEF UnreportedFrom
  <2>. QED BY <1>1, <2>2, <2>5, <2>6 DEF UnreportedInv
<1>6. MadeInv'
  <2>1. made'[n] <= version'[n]
    <3>1. made' = made \/ made' = [made EXCEPT ![n] = version'[n]]
      BY DEF Commit
    <3>2. made[n] <= version[n]
      BY <1>2 DEF KnowledgeInv, MadeInv
    <3>3. made[n] \in Int
      BY <1>2 DEF Versions
    <3>. HIDE DEF n
    <3>. QED BY <1>2, <1>4, <3>1, <3>2, <3>3
  <2>. QED BY <1>4, <2>1 DEF KnowledgeInv, MadeInv
<1>7. KnownInv'
  <2>1. ASSUME NEW m \in Names, NEW p \in Paths, Known(m, p) PROVE Known(m, p)'
    <3>1. CASE m # n
      BY <1>1, <1>4, <2>1, <3>1 DEF Known, OnItsWay, Waiting, Newest
    <3>2. CASE UNCHANGED <<version, made, callbackError>>
      BY <1>1, <2>1, <3>2 DEF Known, OnItsWay, Waiting, Newest
    <3>3. CASE m = n /\ version' = [version EXCEPT ![n] = version[n] + 1]
      <4>1. version'[n] \in Versions /\ version'[n] > version[n]
        BY <1>2, <3>3 DEF Versions
      <4>2. previous[n][version'[n]][p] = NoValue
        BY <1>2, <4>1 DEF KnowledgeInv, UnreportedInv, UnreportedFrom
      <4>. QED BY <1>1, <3>3, <4>2 DEF Known
    <3>4. CASE m = n /\ op = "post"
      <4>1. UnreportedFrom(n, 0) /\ version'[n] \in Versions /\ version'[n] > 0
        BY <1>2, <3>4 DEF KnowledgeInv, NewNamesInv, Unheard, Versions
      <4>2. previous[n][version'[n]][p] = NoValue
        BY <4>1 DEF UnreportedFrom
      <4>. QED BY <1>1, <3>4, <4>2 DEF Known
    <3>. QED BY <1>3, <3>1, <3>2, <3>3, <3>4
  <2>. QED BY <1>1, <2>1 DEF KnowledgeInv, KnownInv
<1>8. NewNamesInv'
  <2>1. n \in used
    BY <1>2 DEF KnowledgeInv, NewNamesInv
  <2>2. ToSet(records)' \subseteq ToSet(records) \cup {n}
    BY CommitAddsOne
  <2>3. ASSUME NEW m, Unheard(m), m # n PROVE Unheard(m)'
    <3>1. m \notin ToSet(records)'
      BY <2>2, <2>3 DEF Unheard
    <3>. QED BY <1>1, <2>3, <3>1, StaysUnheard
  <2>4. \A m \in Names \ used' : Unheard(m)'
    BY <1>1, <2>1, <2>3 DEF KnowledgeInv, NewNamesInv
  <2>5. \A d \in Clients : client'[d] = Idle
    BY <1>1, <1>2 DEF Commit, TypeInv, RequestInv, TypeOK
  <2>. QED BY <2>4, <2>5 DEF NewNamesInv
<1>. QED BY <1>5, <1>6, <1>7, <1>8 DEF KnowledgeInv

(* Looking up a record, the watcher gets the entries made last.            *)
LEMMA AcquireKeepsKnowledge ==
    ASSUME TypeInv, KnowledgeInv, Acquire
    PROVE  KnowledgeInv'
<1>. DEFINE n == current.name
<1>1. UNCHANGED <<listVars, callbackVars, clientVars>> /\ watcher = "acquiring"
  BY DEF Acquire
<1>2. n \in Names /\ version[n] \in Int /\ current'.name = n /\ current'.version = version[n]
  BY DEF Acquire, TypeInv, TypeOK, Versions
<1>3. UnreportedFrom(n, version[n])
  BY <1>2 DEF KnowledgeInv, UnreportedInv
<1>4. /\ current'.version <= version'[current'.name]
      /\ UnreportedFrom(current.name, current.version)'
  <2>1. UnreportedFrom(current.name, current.version)'
    BY <1>1, <1>2, <1>3 DEF UnreportedFrom, listVars
  <2>. QED BY <1>1, <1>2, <2>1 DEF listVars
<1>5. \A m \in Names : UnreportedFrom(m, version[m])'
  BY <1>1 DEF KnowledgeInv, UnreportedInv, UnreportedFrom, listVars
<1>6. UnreportedInv'
  BY <1>1, <1>4, <1>5 DEF UnreportedInv
<1>7. KnownInv' /\ MadeInv'
  BY <1>1
  DEF KnowledgeInv, KnownInv, Known, OnItsWay, Waiting, Newest, MadeInv, listVars, callbackVars
<1>8. NewNamesInv'
  <2>1. \A m : Unheard(m) => Unheard(m)'
    BY <1>1, <1>2 DEF Unheard, UnreportedFrom, listVars
  <2>. QED BY <1>1, <2>1 DEF KnowledgeInv, NewNamesInv, clientVars
<1>. QED BY <1>6, <1>7, <1>8 DEF KnowledgeInv

(* What is compared is remembered when and only when it is reported, in    *)
(* the entries that were looked up, which nobody may read any more. Where  *)
(* it is not queued the record gets the error.                             *)
LEMMA CompareKeepsKnowledge ==
    ASSUME TypeInv, KnowledgeInv, CompareEntry
    PROVE  KnowledgeInv'
<1>. DEFINE n == current.name
            g == current.version
            e == Entry
            now == value[e]
            due == [name |-> n, version |-> g, path |-> e, value |-> now]
<1>1. /\ n \in Names /\ g \in Versions /\ e \in Paths /\ now \in Value
      /\ UNCHANGED <<records, version, made, told, queueWatcher, clientVars, watcher>>
      /\ watcher = "comparing" /\ current'.name = n /\ current'.version = g
  <2>1. e \in Paths
    BY DEF CompareEntry, Entry, TypeInv, TypeOK
  <2>2. current \in [name : Names, version : Versions, entries : Seq(Paths)]
    BY DEF TypeInv, TypeOK
  <2>3. current'.name = n /\ current'.version = g
    BY <2>2 DEF CompareEntry, NextEntry
  <2>. QED BY <2>1, <2>2, <2>3 DEF CompareEntry, TypeInv, TypeOK
<1>2. due \in Callbacks
  BY <1>1 DEF Callbacks
<1>3. \/ UNCHANGED <<queue, previous, callbackError>>
      \/ /\ previous' = [previous EXCEPT ![n][g][e] = now]
         /\ \/ queue' = Append(queue, due) /\ callbackError' = callbackError
            \/ SetsError(n, g) /\ queue' = queue
  BY DEF CompareEntry, QueueCallback
<1>4. MadeInv'
  BY <1>1 DEF KnowledgeInv, MadeInv
<1>5. CASE UNCHANGED <<queue, previous, callbackError>>
  <2>1. KnownInv'
    BY <1>1, <1>5 DEF KnowledgeInv, KnownInv, Known, OnItsWay, Waiting, Newest
  <2>2. UnreportedInv'
    BY <1>1, <1>5 DEF KnowledgeInv, UnreportedInv, UnreportedFrom
  <2>3. NewNamesInv'
    BY <1>1, <1>5 DEF KnowledgeInv, NewNamesInv, Unheard, UnreportedFrom, clientVars
  <2>. QED BY <1>4, <2>1, <2>2, <2>3 DEF KnowledgeInv
<1>6. CASE /\ previous' = [previous EXCEPT ![n][g][e] = now]
           /\ \/ queue' = Append(queue, due) /\ callbackError' = callbackError
              \/ SetsError(n, g) /\ queue' = queue
  <2>1. \A m \in Names, v \in Versions, p \in Paths :
           previous'[m][v][p] = IF m = n /\ v = g /\ p = e THEN now ELSE previous[m][v][p]
    <3>. HIDE DEF n, g, e, now, due
    <3>. QED BY <1>1, <1>6 DEF TypeInv, TypeOK
  <2>2. /\ \A m \in Names : UnreportedFrom(m, version[m])
        /\ g <= version[n] /\ UnreportedFrom(n, g)
    BY <1>1 DEF KnowledgeInv, UnreportedInv
  <2>3. \A m \in Names : version[m] \in Versions
    BY DEF TypeInv, TypeOK
  <2>4. \A m \in Names : UnreportedFrom(m, version[m])'
    BY <1>1, <2>1, <2>2, <2>3 DEF UnreportedFrom, Versions
  <2>5. UnreportedFrom(n, g)'
    BY <1>1, <2>1, <2>2 DEF UnreportedFrom, Versions
  <2>6. UnreportedInv'
    BY <1>1, <2>2, <2>4, <2>5 DEF UnreportedInv, UnreportedFrom
  <2>7. NewNamesInv'
    <3>1. ASSUME NEW m \in Names, Unheard(m) PROVE Unheard(m)'
      <4>1. m # n
        BY <1>1, <3>1 DEF Unheard
      <4>2. UnreportedFrom(m, 0)'
        <5>. HIDE DEF n, g, e, now
        <5>. QED BY <2>1, <3>1, <4>1 DEF Unheard, UnreportedFrom
      <4>. QED BY <1>1, <3>1, <4>1, <4>2 DEF Unheard
    <3>2. used \subseteq Names /\ used' = used /\ client' = client
      BY <1>1 DEF TypeInv, TypeOK, clientVars
    <3>3. \A c \in Clients : client[c] # Idle => client[c].name \in Names
      BY <3>2 DEF KnowledgeInv, NewNamesInv
    <3>. QED BY <3>1, <3>2, <3>3 DEF KnowledgeInv, NewNamesInv
  <2>8. ASSUME NEW m \in Names, NEW p \in Paths, Known(m, p) PROVE Known(m, p)'
    <3>1. CASE m = n /\ g # version[m]
      <4>1. version[m] > g
        BY <1>1, <2>2, <2>3, <3>1 DEF Versions
      <4>2. previous'[m][version[m]][p] = NoValue
        BY <2>1, <2>2, <2>3, <3>1, <4>1 DEF UnreportedFrom
      <4>. QED BY <1>1, <4>2 DEF Known
    <3>2. CASE ~(m = n /\ g # version[m]) /\ queue' = Append(queue, due) /\ callbackError' = callbackError
      <4>1. CASE m = n /\ p = e
        <5>1. Newest(m, p)' = due /\ OnItsWay(m, p)' = now
          <6>1. due.name = n /\ due.path = e /\ due.value = now
            OBVIOUS
          <6>. HIDE DEF due, n, e, now
          <6>. QED BY <1>1, <1>2, <3>2, <4>1, <6>1, QueuedIsNewest DEF TypeInv
        <5>2. previous'[m][version'[m]][p] = now /\ due.version = version'[m]
          BY <1>1, <2>1, <2>3, <3>2, <4>1
        <5>. QED BY <5>1, <5>2 DEF Known
      <4>2. CASE ~(m = n /\ p = e)
        <5>1. /\ Waiting(m, p)' = Waiting(m, p) /\ OnItsWay(m, p)' = OnItsWay(m, p)
              /\ Waiting(m, p) # {} => Newest(m, p)' = Newest(m, p)
          <6>1. due.name = n /\ due.path = e
            OBVIOUS
          <6>. HIDE DEF due, n, e
          <6>. QED BY <1>1, <1>2, <3>2, <4>2, <6>1, QueuedIsNewest DEF TypeInv
        <5>2. previous'[m][version'[m]][p] = previous[m][version[m]][p]
          BY <1>1, <2>1, <2>3, <4>2
        <5>. QED BY <1>1, <2>8, <3>2, <5>1, <5>2 DEF Known
      <4>. QED BY <4>1, <4>2
    <3>3. CASE ~(m = n /\ g # version[m]) /\ SetsError(n, g) /\ queue' = queue
      <4>1. /\ g >= made[n] => callbackError'[n]
            /\ \A k \in Names : callbackError[k] => callbackError'[k]
        <5>. HIDE DEF n, g
        <5>. QED BY <1>1, <3>3, ErrorIsSet DEF TypeInv
      <4>2. CASE m = n
        <5>1. made[n] <= version[n]
          BY <1>1 DEF KnowledgeInv, MadeInv
        <5>2. made[n] \in Int /\ version[n] = g /\ g \in Int
          BY <1>1, <3>3, <4>2 DEF TypeInv, TypeOK, Versions
        <5>3. callbackError'[m]
          BY <4>1, <4>2, <5>1, <5>2
        <5>. QED BY <5>3 DEF Known
      <4>3. CASE m # n
        <5>1. previous'[m][version'[m]][p] = previous[m][version[m]][p]
          BY <1>1, <2>1, <2>3, <4>3
        <5>2. /\ Waiting(m, p)' = Waiting(m, p) /\ OnItsWay(m, p)' = OnItsWay(m, p)
              /\ Newest(m, p)' = Newest(m, p)
          BY <1>1, <3>3 DEF Waiting, OnItsWay, Newest
        <5>. QED BY <1>1, <2>8, <4>1, <5>1, <5>2 DEF Known
      <4>. QED BY <4>2, <4>3
    <3>. QED BY <1>6, <3>1, <3>2, <3>3
  <2>9. KnownInv'
    BY <1>1, <2>8 DEF KnowledgeInv, KnownInv
  <2>. QED BY <1>4, <2>6, <2>7, <2>9 DEF KnowledgeInv
<1>. QED BY <1>3, <1>5, <1>6

(* A callback that succeeds tells what was on its way; one that fails      *)
(* without a newer one waiting was for the entries the record has now, and *)
(* leaves it with the error.                                               *)
LEMMA QueueWatcherKeepsKnowledge ==
    ASSUME TypeInv, KnowledgeInv, QueueWatcherStep
    PROVE  KnowledgeInv'
<1>1. /\ Take /\ queueWatcher = "taking"
      /\ UNCHANGED <<records, version, made, previous, watcher, current, client, used>>
  BY DEF QueueWatcherStep, Callback, CallbackFails, CallbackThrows, Take, watcherVars, clientVars
<1>2. UnreportedInv' /\ MadeInv' /\ NewNamesInv'
  BY <1>1 DEF KnowledgeInv, UnreportedInv, UnreportedFrom, MadeInv, NewNamesInv, Unheard
<1>3. Due \in Callbacks
  <2>1. queue \in Seq(Callbacks) /\ queue # <<>>
    BY <1>1 DEF TypeInv, TypeOK, Take, Callbacks
  <2>. QED BY <2>1 DEF Due
<1>4. Due.name \in Names /\ Due.path \in Paths /\ Due.version \in Versions
  BY <1>3 DEF Callbacks
<1>5. ASSUME NEW m \in Names, NEW q \in Paths, Known(m, q), Callback PROVE Known(m, q)'
  <2>. DEFINE d == Due
  <2>1. told' = [told EXCEPT ![d.name][d.path] = d.value] /\ callbackError' = callbackError
    BY <1>5 DEF Callback
  <2>2. told \in [Names -> [Paths -> Value \cup {NoValue}]]
    BY DEF TypeInv, TypeOK
  <2>3. told'[m][q] = IF m = d.name /\ q = d.path THEN d.value ELSE told[m][q]
    <3>. HIDE DEF d
    <3>. QED BY <2>1, <2>2
  <2>4. OnItsWay(m, q)' = OnItsWay(m, q)
    BY <1>1, <2>3, TakeKeepsNewest DEF TypeInv, OnItsWay, Newest
  <2>5. Waiting(m, q)' # {} => Waiting(m, q) # {} /\ Newest(m, q)' = Newest(m, q)
    BY <1>1, TakeKeepsNewest DEF TypeInv
  <2>. HIDE DEF d
  <2>. QED BY <1>1, <1>5, <2>1, <2>4, <2>5 DEF Known
<1>6. ASSUME NEW m \in Names, NEW q \in Paths, Known(m, q), CallbackFails PROVE Known(m, q)'
  <2>1. told' = told /\ SetsError(Due.name, Due.version)
    BY <1>6 DEF CallbackFails
  <2>2. /\ Due.version >= made[Due.name] => callbackError'[Due.name]
        /\ \A k \in Names : callbackError[k] => callbackError'[k]
    BY <1>4, <2>1, ErrorIsSet DEF TypeInv
  <2>3. /\ Waiting(m, q)' # {} => Waiting(m, q) # {} /\ Newest(m, q)' = Newest(m, q)
        /\ Waiting(m, q)' = {} /\ Waiting(m, q) # {} => Newest(m, q) = Due /\ m = Due.name
    BY <1>1, TakeKeepsNewest DEF TypeInv
  <2>4. CASE previous[m][version[m]][q] = NoValue \/ callbackError[m]
    BY <1>1, <2>2, <2>4 DEF Known
  <2>5. CASE /\ previous[m][version[m]][q] = OnItsWay(m, q)
             /\ Waiting(m, q) # {} => Newest(m, q).version = version[m]
    <3>1. CASE Waiting(m, q)' = {} /\ Waiting(m, q) # {}
      <4>1. Due.version = version[m] /\ m = Due.name
        BY <2>3, <2>5, <3>1
      <4>2. made[m] <= version[m] /\ made[m] \in Int /\ version[m] \in Int
        BY DEF KnowledgeInv, MadeInv, TypeInv, TypeOK, Versions
      <4>3. callbackError'[m]
        BY <2>2, <4>1, <4>2
      <4>. QED BY <4>3 DEF Known
    <3>2. CASE ~(Waiting(m, q)' = {} /\ Waiting(m, q) # {})
      <4>1. OnItsWay(m, q)' = OnItsWay(m, q)
        BY <2>1, <2>3, <3>2 DEF OnItsWay, Newest
      <4>. QED BY <1>1, <2>3, <2>5, <3>2, <4>1 DEF Known
    <3>. QED BY <3>1, <3>2
  <2>. QED BY <1>6, <2>4, <2>5 DEF Known
<1>7. KnownInv'
  <2>1. \A m \in Names, q \in Paths : Known(m, q)
    BY <1>1 DEF KnowledgeInv, KnownInv
  <2>2. CASE CallbackThrows
    BY <2>2 DEF CallbackThrows, KnownInv
  <2>. QED BY <1>5, <1>6, <2>1, <2>2 DEF QueueWatcherStep, KnownInv
<1>. QED BY <1>2, <1>7 DEF KnowledgeInv

LEMMA KnowledgeStep == TypeInv /\ KnowledgeInv /\ [Next]_vars => KnowledgeInv'
<1>. SUFFICES ASSUME TypeInv, KnowledgeInv, [Next]_vars PROVE KnowledgeInv'
  OBVIOUS
<1>1. ASSUME NEW p \in Paths, ChangeData(p) PROVE KnowledgeInv'
  BY <1>1, KnowledgeUntouched DEF ChangeData, listVars, watcherVars
<1>2. ASSUME NEW c \in Clients, Open(c) PROVE KnowledgeInv'
  BY <1>2, OpenKeepsKnowledge
<1>3. ASSUME NEW c \in Clients, Commit(c) PROVE KnowledgeInv'
  BY <1>3, CommitKeepsKnowledge
<1>4. ASSUME NEW c \in Clients, Abort(c) PROVE KnowledgeInv'
  BY <1>4, KnowledgeUntouched DEF Abort, listVars, watcherVars
<1>5. CASE WatcherStep
  <2>1. CASE Wake
    BY <2>1, KnowledgeUntouched DEF Wake, StartLoop, listVars
  <2>2. CASE IteratorThrows
    BY <2>2, KnowledgeUntouched DEF IteratorThrows, listVars
  <2>3. CASE NextRecord
    <3>1. cursor \in 1..Len(records)
      BY <2>3 DEF NextRecord, HasNext, TypeInv, TypeOK, CursorInv
    <3>2. current'.name \in ToSet(records)
      BY <2>3, <3>1 DEF NextRecord, TypeInv, TypeOK, ToSet
    <3>. QED BY <2>3, <3>2, KnowledgeUntouched DEF NextRecord, listVars
  <2>4. CASE Acquire
    BY <2>4, AcquireKeepsKnowledge
  <2>5. CASE Refused
    BY <2>5, KnowledgeUntouched DEF Refused, listVars
  <2>6. CASE CompareEntry
    BY <2>6, CompareKeepsKnowledge
  <2>7. CASE EntryFails
    <3>1. UNCHANGED <<listVars, callbackVars, clientVars, watcher>>
      BY <2>7 DEF EntryFails
    <3>2. current'.name = current.name /\ current'.version = current.version
      BY <2>7 DEF EntryFails, NextEntry, TypeInv, TypeOK
    <3>3. UnreportedInv' /\ MadeInv'
      BY <3>1, <3>2 DEF KnowledgeInv, UnreportedInv, UnreportedFrom, MadeInv, listVars
    <3>4. KnownInv'
      BY <3>1
      DEF KnowledgeInv, KnownInv, Known, OnItsWay, Waiting, Newest, listVars, callbackVars
    <3>5. NewNamesInv'
      BY <3>1, <3>2
      DEF KnowledgeInv, NewNamesInv, Unheard, UnreportedFrom, listVars, clientVars
    <3>. QED BY <3>3, <3>4, <3>5 DEF KnowledgeInv
  <2>8. CASE EndRecord
    BY <2>8, KnowledgeUntouched DEF EndRecord, listVars
  <2>9. CASE StartPruning
    BY <2>9, KnowledgeUntouched DEF StartPruning, StartLoop, listVars
  <2>10. CASE Age
    BY <2>10, KnowledgeUntouched DEF Age
  <2>11. CASE EndPruning
    BY <2>11, KnowledgeUntouched DEF EndPruning, listVars
  <2>12. CASE RemoveExpired
    <3>1. ToSet(records)' \subseteq ToSet(records)
      BY <2>12, WithoutProperties DEF RemoveExpired, TypeInv, TypeOK
    <3>. QED BY <2>12, <3>1, KnowledgeUntouched DEF RemoveExpired
  <2>. QED BY <1>5, <2>1, <2>2, <2>3, <2>4, <2>5, <2>6, <2>7, <2>8, <2>9, <2>10, <2>11, <2>12
           DEF WatcherStep
<1>6. CASE QueueWatcherStep
  BY <1>6, QueueWatcherKeepsKnowledge
<1>7. CASE UNCHANGED vars
  BY <1>7, KnowledgeUntouched DEF vars, clientVars, callbackVars
<1>. QED BY <1>1, <1>2, <1>3, <1>4, <1>5, <1>6, <1>7 DEF Next, ClientStep

(* The watcher compares with the newest value that is on its way to the    *)
(* subscriber or has reached it, whatever renewals replace the entries     *)
(* while it compares them and whichever callbacks fail, unless the record  *)
(* shows the error (processSubscription(), queueCOVNotification() and      *)
(* QueueWatcher, while the latter runs).                                   *)
THEOREM ComparedIsKnown == Spec => []KnownToSubscriber
<1>1. Init => TypeInv /\ KnowledgeInv
  BY TypeInit, KnowledgeInit
<1>2. TypeInv /\ KnowledgeInv /\ [Next]_vars => (TypeInv /\ KnowledgeInv)'
  BY TypeStep, KnowledgeStep
<1>3. TypeInv /\ KnowledgeInv => KnownToSubscriber
  <2>. SUFFICES ASSUME TypeInv, KnowledgeInv, queueWatcher = "taking",
                       NEW n \in ToSet(records), NEW p \in Paths
                PROVE  \/ previous[n][version[n]][p] \in {NoValue, OnItsWay(n, p)}
                       \/ callbackError[n]
    BY DEF KnownToSubscriber
  <2>1. n \in Names
    BY DEF TypeInv, TypeOK, ToSet
  <2>2. Known(n, p)
    BY <2>1 DEF KnowledgeInv, KnownInv
  <2>. QED BY <2>2 DEF Known
<1>. QED BY <1>1, <1>2, <1>3, PTL DEF Spec
===============================================================================
