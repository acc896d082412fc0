--------------------------------- MODULE Subs ---------------------------------
(***************************************************************************)
(* Subscriptions under /.subs (managers/SubsManager.java): the list of     *)
(* native records, the HTTP threads that post, put and delete records in   *)
(* write sessions, the SubsWatcher thread that compares the subscribed     *)
(* data with what was last reported and prunes expired records, and the    *)
(* QueueWatcher thread that makes the queued callbacks, which may fail.    *)
(*                                                                         *)
(* WriteSession shows that a session has the database for itself; here the *)
(* database is a lock with a holder.  The list of records is a plain       *)
(* ArrayList shared by all threads: each of its operations is one step,    *)
(* and an iterator throws when the list was changed behind its back.       *)
(***************************************************************************)
EXTENDS Integers, Sequences, SequencesExt, Lists

CONSTANTS
    Clients,     \* HTTP threads with requests for /.subs
    Names,       \* names of records: UUIDs, one for every POST
    Paths,       \* subscribed data items
    MaxValue,    \* their values are 0..MaxValue
    Increment,   \* changes by more than this are reported (-1: none given)
    Lifetime,    \* lifetime given to a new or renewed record
    Elapsed,     \* what one round of the watcher takes off a lifetime
    Silent,      \* names of records that give no callback URL
    LogsOnly,    \* clients post records with 'logs' and no 'covs'
    MaxVersions, \* how often the covs entries of a record are made
    MaxChanges,  \* most changes of the subscribed data
    Watcher,     \* the SubsWatcher thread
    NoOne,       \* nobody has the database
    NoValue      \* previousValue == null

ASSUME SubsAssumption ==
    /\ Names # {} /\ IsFiniteSet(Paths)
    /\ MaxValue \in Nat /\ Increment \in Nat \cup {-1} /\ Lifetime \in Nat /\ Elapsed \in Nat
    /\ MaxVersions \in Nat \ {0} /\ MaxChanges \in Nat
    /\ LogsOnly \in BOOLEAN /\ Silent \subseteq Names
    /\ Watcher \notin Clients /\ NoOne \notin Clients \cup {Watcher}
    /\ NoValue \notin 0..MaxValue

VARIABLES
    records,   \* SubsManager.records
    covs,      \* name -> paths of record.covs, <<>> when it is null
    life,      \* name -> record.lifetime
    version,   \* name -> which incarnation of its SubsCovEntry objects
    made,      \* name -> the version its SubsRecord object was made with
    previous,  \* name -> version -> path -> entry.previousValue
    callbackError, \* name -> record.callbackError is set
    told,      \* name -> path -> value of the last callback that succeeded
    value,     \* path -> the data
    changes,   \* number of changes of the data
    holder,    \* the thread whose write session is open
    client,    \* client -> what it is doing
    used,      \* names given out
    watcher,   \* where the SubsWatcher is
    cursor,    \* index of the watcher's iterator over records
    modified,  \* records have been added or removed under that iterator
    current,   \* record being processed, its version and the entries left
    expired,   \* toRemove
    queue,     \* callbacks waiting for the QueueWatcher
    queueWatcher \* the QueueWatcher is taking them, or dead

listVars == <<records, covs, life, version, made, previous, callbackError>>
callbackVars == <<told, queue, queueWatcher>>
clientVars == <<client, used>>
watcherVars == <<watcher, cursor, current, expired>>
vars == <<records, covs, life, version, made, previous, callbackError, told, value, changes,
          holder, client, used, watcher, cursor, modified, current, expired, queue, queueWatcher>>

Value == 0..MaxValue
CovLists == {SetToSeq(S) : S \in (SUBSET Paths) \ (IF LogsOnly THEN {} ELSE {{}})}
Versions == 1..MaxVersions
Unreported == [v \in Versions |-> [p \in Paths |-> NoValue]]
Idle == [op |-> "none"]
NoRecord == [name |-> CHOOSE n \in Names : TRUE, version |-> 1, entries |-> <<>>]

TypeOK ==
    /\ records \in Seq(Names)
    /\ covs \in [Names -> Seq(Paths)]
    /\ life \in [Names -> 0..Lifetime]
    /\ version \in [Names -> Versions] /\ made \in [Names -> Versions]
    /\ previous \in [Names -> [Versions -> [Paths -> Value \cup {NoValue}]]]
    /\ callbackError \in [Names -> BOOLEAN]
    /\ told \in [Names -> [Paths -> Value \cup {NoValue}]]
    /\ value \in [Paths -> Value]
    /\ changes \in 0..MaxChanges
    /\ holder \in Clients \cup {Watcher, NoOne}
    /\ client \in [Clients -> {Idle} \cup [op : {"post", "put", "delete"}, name : Names,
                                            life : 0..Lifetime]]
    /\ used \subseteq Names
    /\ watcher \in {"sleeping", "iterating", "acquiring", "comparing", "pruning", "removing", "dead"}
    /\ cursor \in Nat
    /\ modified \in BOOLEAN
    /\ current \in [name : Names, version : Versions, entries : Seq(Paths)]
    /\ expired \subseteq Names
    /\ queue \in Seq([name : Names, version : Versions, path : Paths, value : Value])
    /\ queueWatcher \in {"taking", "dead"}

Init ==
    /\ records = <<>>
    /\ covs = [n \in Names |-> <<>>]
    /\ life = [n \in Names |-> 0]
    /\ version = [n \in Names |-> 1] /\ made = version
    /\ previous = [n \in Names |-> Unreported]
    /\ callbackError = [n \in Names |-> FALSE]
    /\ told = [n \in Names |-> [p \in Paths |-> NoValue]]
    /\ value \in [Paths -> {0}]
    /\ changes = 0
    /\ holder = NoOne
    /\ client = [c \in Clients |-> Idle]
    /\ used = {}
    /\ watcher = "sleeping"
    /\ cursor = 1
    /\ modified = FALSE
    /\ current = NoRecord
    /\ expired = {}
    /\ queue = <<>> /\ queueWatcher = "taking"

Without(list, names) == Where(list, LAMBDA n : n \notin names)

-------------------------------------------------------------------------------
(* HTTP requests.                                                          *)

(* A request that changes the subscribed data, in a session of its own.    *)
ChangeData(p) ==
    /\ holder = NoOne
    /\ changes < MaxChanges
    /\ value' \in {[value EXCEPT ![p] = v] : v \in Value \ {value[p]}}
    /\ changes' = changes + 1
    /\ UNCHANGED <<listVars, callbackVars, holder, clientVars, watcherVars, modified>>

(* UUID.randomUUID(): which of the new names it is makes no difference.    *)
FreshName == CHOOSE n \in Names : n \notin used

(* A POST opens its session and prepost() gives the record a new name; a   *)
(* PUT or DELETE finds the record, and what it will commit is a copy made  *)
(* by prefind().  A PUT renews the lifetime or cancels it with 0.          *)
Open(c) ==
    /\ client[c] = Idle
    /\ holder = NoOne
    /\ holder' = c
    /\ \E op \in {"post", "put", "delete"}, n \in Names, l \in {0, Lifetime} :
          /\ op = "post" => used # Names /\ n = FreshName /\ l = Lifetime
          /\ op # "post" => n \in ToSet(records) /\ version[n] < MaxVersions
          /\ op = "delete" => l = 0
          /\ used' = used \cup {n}
          /\ client' = [client EXCEPT ![c] =
                           [op |-> op, name |-> n, life |-> IF op = "delete" THEN life[n] ELSE l]]
    /\ UNCHANGED <<listVars, callbackVars, value, changes, watcherVars, modified>>

(* The lifetime of a written record, had a renewal prolonged it.            *)
Prolonged(n, given) == life[n] + given

(* dataToRecord(): the lifetime that is given replaces what was left.      *)
NewLife(n, given) == given

(* commit(), had it not looked for the record before it adds one.          *)
CommitAdds(c) ==
    /\ holder = c
    /\ records' = Append(records, client[c].name)
    /\ modified' = TRUE
    /\ \E list \in CovLists : covs' = [covs EXCEPT ![client[c].name] = list]
    /\ life' = [life EXCEPT ![client[c].name] = client[c].life]
    /\ client' = [client EXCEPT ![c] = Idle]
    /\ holder' = NoOne
    /\ UNCHANGED <<version, made, previous, callbackError, callbackVars, value, changes, used,
                   watcherVars>>

(* The session's commit() reaches SubsManager.commit(): a record that is   *)
(* there is removed, or given new covs entries that have reported nothing, *)
(* and its callbackError is reset; for one that is not there (any more) a  *)
(* new object is added, for a DELETE with the covs it was found with.      *)
(* Then the session closes.                                                *)
Commit(c) ==
    LET n == client[c].name
        op == client[c].op
        given == IF op = "delete" THEN {covs[n]} ELSE CovLists
    IN
    /\ holder = c
    /\ \/ /\ n \in ToSet(records) /\ op = "delete"
          /\ records' = Without(records, {n})
          /\ modified' = TRUE
          /\ UNCHANGED <<covs, life, version, made, callbackError>>
       \/ /\ n \in ToSet(records) /\ op = "put"
          /\ life' = [life EXCEPT ![n] = NewLife(n, client[c].life)]
          /\ version' = [version EXCEPT ![n] = @ + 1]
          /\ callbackError' = [callbackError EXCEPT ![n] = FALSE]
          /\ \E list \in given : covs' = [covs EXCEPT ![n] = list]
          /\ UNCHANGED <<records, modified, made>>
       \/ /\ n \notin ToSet(records)
          /\ records' = Append(records, n)
          /\ modified' = TRUE
          /\ \E list \in given : covs' = [covs EXCEPT ![n] = list]
          /\ life' = [life EXCEPT ![n] = client[c].life]
          /\ version' = [version EXCEPT ![n] = IF op = "post" THEN @ ELSE @ + 1]
          /\ made' = [made EXCEPT ![n] = version'[n]]
          /\ callbackError' = [callbackError EXCEPT ![n] = FALSE]
    /\ client' = [client EXCEPT ![c] = Idle]
    /\ holder' = NoOne
    /\ UNCHANGED <<previous, callbackVars, value, changes, used, watcherVars>>

(* The request throws (authorization, no path given, ...) and is discarded.*)
Abort(c) ==
    /\ holder = c
    /\ client' = [client EXCEPT ![c] = Idle]
    /\ holder' = NoOne
    /\ UNCHANGED <<listVars, callbackVars, value, changes, used, watcherVars, modified>>

-------------------------------------------------------------------------------
(* SubsWatcher: processSubscription() for every record, then prune.        *)

HasNext == cursor # Len(records) + 1

StartLoop(where) ==
    /\ watcher' = where
    /\ cursor' = 1
    /\ modified' = FALSE

(* Thread.sleep is over: "for (SubsRecord record : records)" starts.       *)
Wake ==
    /\ watcher = "sleeping"
    /\ StartLoop("iterating")
    /\ UNCHANGED <<listVars, callbackVars, value, changes, holder, clientVars, current, expired>>

(* The iterator throws ConcurrentModificationException, which nothing      *)
(* catches: the thread ends.                                               *)
IteratorThrows ==
    /\ watcher \in {"iterating", "pruning"}
    /\ HasNext /\ modified
    /\ watcher' = "dead"
    /\ UNCHANGED <<listVars, callbackVars, value, changes, holder, clientVars, cursor, modified,
                   current, expired>>

NextRecord ==
    /\ watcher = "iterating"
    /\ HasNext /\ ~modified
    /\ current' = [current EXCEPT !.name = records[cursor]]
    /\ cursor' = cursor + 1
    /\ watcher' = "acquiring"
    /\ UNCHANGED <<listVars, callbackVars, value, changes, holder, clientVars, modified, expired>>

(* processSubscription() makes its write session.  With record.covs null   *)
(* "for (SubsCovEntry entry : record.covs)" throws outside the try block:  *)
(* the thread ends and its session stays open.                             *)
Acquire ==
    /\ watcher = "acquiring"
    /\ holder = NoOne
    /\ holder' = Watcher
    /\ current' = [current EXCEPT !.version = version[current.name],
                                  !.entries = covs[current.name]]
    /\ watcher' = IF covs[current.name] = <<>> THEN "dead" ELSE "comparing"
    /\ UNCHANGED <<listVars, callbackVars, value, changes, clientVars, cursor, modified, expired>>

(* It is refused the session with an XDError, which nothing catches.       *)
Refused ==
    /\ watcher = "acquiring"
    /\ holder # NoOne
    /\ watcher' = "dead"
    /\ UNCHANGED <<listVars, callbackVars, value, changes, holder, clientVars, cursor, modified,
                   current, expired>>

Entry == Head(current.entries)
Distance(v, w) == IF v > w THEN v - w ELSE w - v

(* SetsError, had a failure left no trace in the record.                   *)
ErrorIsForgotten(n, v) == UNCHANGED callbackError

(* The record object that had the entries of version v gets an error; it   *)
(* shows in the list if that is still the object there.                    *)
SetsError(n, v) == callbackError' = [callbackError EXCEPT ![n] = @ \/ v >= made[n]]

(* queueCOVNotification(): the value is marshalled and queued. Without a   *)
(* URL, or when marshalling throws, the record gets an error instead.      *)
QueueCallback(now) ==
    \/ /\ current.name \notin Silent
       /\ queue' = Append(queue, [name |-> current.name, version |-> current.version,
                                  path |-> Entry, value |-> now])
       /\ UNCHANGED callbackError
    \/ SetsError(current.name, current.version) /\ UNCHANGED queue

(* NextEntry, had the finally block not been there.                        *)
NextEntryKeeps ==
    /\ current' = [current EXCEPT !.entries = Tail(@)]
    /\ UNCHANGED holder

(* NextEntry, had discard() released a lock its session no longer has.     *)
NextEntryReleases ==
    /\ holder' = NoOne
    /\ current' = [current EXCEPT !.entries = Tail(@)]

(* The finally block of every entry discards the session, so that only the *)
(* first entry is compared under the lock; the later discards, which may   *)
(* come when another thread has it, leave it alone.                        *)
NextEntry ==
    /\ holder' = IF holder = Watcher THEN NoOne ELSE holder
    /\ current' = [current EXCEPT !.entries = Tail(@)]

(* CompareEntry, had it remembered every value it compared.                *)
CompareAndRemember ==
    LET last == previous[current.name][current.version][Entry]
        now == value[Entry]
        report == last = NoValue \/ Distance(now, last) > Increment
    IN  /\ watcher = "comparing"
        /\ current.entries # <<>>
        /\ IF report THEN QueueCallback(now) ELSE UNCHANGED <<queue, callbackError>>
        /\ previous' = [previous EXCEPT ![current.name][current.version][Entry] = now]
        /\ NextEntry
        /\ UNCHANGED <<records, covs, life, version, made, told, queueWatcher, value, changes,
                       clientVars, watcher, cursor, modified, expired>>

(* One entry: queue a callback when the value has changed enough since the *)
(* last report, and remember the value, queued or not.                     *)
CompareEntry ==
    LET last == previous[current.name][current.version][Entry]
        now == value[Entry]
        report == last = NoValue \/ Distance(now, last) > Increment
    IN  /\ watcher = "comparing"
        /\ current.entries # <<>>
        /\ IF report
           THEN /\ QueueCallback(now)
                /\ previous' = [previous EXCEPT ![current.name][current.version][Entry] = now]
           ELSE UNCHANGED <<queue, previous, callbackError>>
        /\ NextEntry
        /\ UNCHANGED <<records, covs, life, version, made, told, queueWatcher, value, changes,
                       clientVars, watcher, cursor, modified, expired>>

(* The path cannot be followed or has no comparable value: dataError.      *)
EntryFails ==
    /\ watcher = "comparing"
    /\ current.entries # <<>>
    /\ NextEntry
    /\ UNCHANGED <<listVars, callbackVars, value, changes, clientVars, watcher, cursor, modified,
                   expired>>

EndRecord ==
    /\ watcher = "comparing"
    /\ current.entries = <<>>
    /\ watcher' = "iterating"
    /\ current' = NoRecord
    /\ UNCHANGED <<listVars, callbackVars, value, changes, holder, clientVars, cursor, modified,
                   expired>>

(* pruneRecords() goes through the list a second time ...                  *)
StartPruning ==
    /\ watcher = "iterating"
    /\ ~HasNext
    /\ StartLoop("pruning")
    /\ UNCHANGED <<listVars, callbackVars, value, changes, holder, clientVars, current, expired>>

Age ==
    LET n == records[cursor]
        left == IF life[n] > Elapsed THEN life[n] - Elapsed ELSE 0
    IN  /\ watcher = "pruning"
        /\ HasNext /\ ~modified
        /\ life' = [life EXCEPT ![n] = left]
        /\ expired' = IF left = 0 THEN expired \cup {n} ELSE expired
        /\ cursor' = cursor + 1
        /\ UNCHANGED <<records, covs, version, made, previous, callbackError, callbackVars, value,
                       changes, holder, clientVars, watcher, modified, current>>

EndPruning ==
    /\ watcher = "pruning"
    /\ ~HasNext
    /\ watcher' = "removing"
    /\ UNCHANGED <<listVars, callbackVars, value, changes, holder, clientVars, cursor, modified,
                   current, expired>>

(* ... and removes what it found expired.  (A lifetime below zero counts   *)
(* as zero here: nothing tells the two apart.)                             *)
RemoveExpired ==
    /\ watcher = "removing"
    /\ records' = Without(records, expired)
    /\ expired' = {}
    /\ watcher' = "sleeping"
    /\ cursor' = 1
    /\ modified' = FALSE
    /\ UNCHANGED <<covs, life, version, made, previous, callbackError, callbackVars, value, changes,
                   holder, clientVars, current>>

-------------------------------------------------------------------------------
(* QueueWatcher: Client.doCallback() for the record of the callback that   *)
(* waits longest.                                                          *)

Due == Head(queue)

Take ==
    /\ queueWatcher = "taking"
    /\ queue # <<>>
    /\ queue' = Tail(queue)
    /\ UNCHANGED <<records, covs, life, version, made, previous, value, changes, holder, clientVars,
                   watcherVars, modified>>

(* The subscriber takes it (a response of 2xx).                            *)
Callback ==
    /\ Take
    /\ told' = [told EXCEPT ![Due.name][Due.path] = Due.value]
    /\ UNCHANGED <<callbackError, queueWatcher>>

(* No connection, or a response that is no success: an XDException, and    *)
(* the record gets an error. It is not tried again.                        *)
CallbackFails ==
    /\ Take
    /\ SetsError(Due.name, Due.version)
    /\ UNCHANGED <<told, queueWatcher>>

(* A redirect, or a connection that breaks before the answer, has no error *)
(* stream; reading it throws what is no XDException and nothing catches.   *)
CallbackThrows ==
    /\ Take
    /\ queueWatcher' = "dead"
    /\ UNCHANGED <<told, callbackError>>

QueueWatcherStep == Callback \/ CallbackFails \/ CallbackThrows

ClientStep(c) == Commit(c) \/ Abort(c)
WatcherStep ==
    \/ Wake \/ IteratorThrows \/ NextRecord \/ Acquire \/ Refused \/ CompareEntry
    \/ EntryFails \/ EndRecord \/ StartPruning \/ Age \/ EndPruning \/ RemoveExpired

Next ==
    \/ \E p \in Paths : ChangeData(p)
    \/ \E c \in Clients : Open(c) \/ ClientStep(c)
    \/ WatcherStep
    \/ QueueWatcherStep

Spec == Init /\ [][Next]_vars

(* All threads are scheduled; requests come or do not come.                *)
FairSpec ==
    /\ Spec
    /\ \A c \in Clients : WF_vars(ClientStep(c))
    /\ WF_vars(WatcherStep)
    /\ WF_vars(QueueWatcherStep)

-------------------------------------------------------------------------------
(* No two records have the same name although commits run under the        *)
(* database lock and the watcher prunes without it.                        *)
OneRecordPerName == IsInjective(records)

(* The callbacks for a record and a path that wait to be made, and the     *)
(* value the subscriber will know after them if they succeed.              *)
Waiting(n, p) == {i \in DOMAIN queue : queue[i].name = n /\ queue[i].path = p}
OnItsWay(n, p) ==
    IF Waiting(n, p) = {} THEN told[n][p] ELSE queue[Max(Waiting(n, p))].value

(* The value the watcher compares with is the newest one on its way to the *)
(* subscriber: that of the last callback waiting, or else of the last one  *)
(* that succeeded. It is not what was last read, so that a slow drift is   *)
(* reported once it adds up; and it is not what a failed callback or none  *)
(* carried, unless the record says so in its callbackError. This holds     *)
(* across renewals that replace the entries while the watcher compares     *)
(* them, and that reset the error while callbacks wait; for as long as     *)
(* there is a QueueWatcher.                                                *)
KnownToSubscriber ==
    queueWatcher = "taking" =>
        \A n \in ToSet(records), p \in Paths :
            \/ previous[n][version[n]][p] \in {NoValue, OnItsWay(n, p)}
            \/ callbackError[n]

(* A request has the database until it commits or aborts: the watcher,     *)
(* which discards its session after every entry, never frees it for a      *)
(* request that got the database after the first of them.                  *)
RequestHasDatabase == \A c \in Clients : client[c] # Idle => holder = c

(* However a comparison or request ends, the database becomes free again.  *)
(* "no operation should take more than 10 seconds" (Application.java:70).  *)
DatabaseIsFreed == holder # NoOne ~> holder = NoOne

-------------------------------------------------------------------------------
(* A subscription cancelled by zeroing its lifetime is deleted in the end  *)
(* (SubscriptionTests.java:100 and 106).                                   *)
CancelledIsDeleted ==
    \A n \in Names :
        n \in ToSet(records) /\ life[n] = 0 ~> n \notin ToSet(records) \/ life[n] > 0
===============================================================================
