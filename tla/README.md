# A formal model of the AMPII server

These TLA+ modules model the parts of the AMPII BACnet/WS server (Java, package
`org.ampii.xd`) that are hard to test: write sessions and their lock, the shadow
tree that holds a session's changes, the threads that watch subscriptions, and the
playground page with its asynchronous requests. TLC checks them on small instances;
TLAPS proves, for every value of the constants, all safety properties that the passing runs
check: the session protocol, the naming of members and what a
commit does to Lists and Collections, the subscriptions, the clipboard, the instance form, where the data explorer
writes and that it shows what the server has. `PROJECT.json` lists the runs, the source
lines each definition stands for, the hazards found in the code, the findings and the theorems.

File names below are relative to `src/src/org/ampii/xd/`, and `playground.js` and
`ampii.html` are in `src/resources/webroot/ui/`.

## Inventory of the system

| Component | State | Operations | Hard behaviour | What makes it correct |
|---|---|---|---|---|
| Write sessions (`database/Session`, `DataStore`) | semaphore `lock`, `activeWriteSession`, root | makeWriteSession, makeWriteSubsession, commit, discard, atomicPut/Post/Delete | threads, timeouts, exceptions at any point, discard after commit | one writer; permit returned exactly once; no lost update |
| Shadow tree (`data/abstractions/AbstractData`, `data/Rules`) | shadows with dirty / dirtyBelow / deleted flags, originals | preread, put, post, delete, createChild, commit, discard | long sequences of requests; naming; partial commit | a committed request does exactly what it asked |
| Subscriptions (`managers/SubsManager`) | `records`, `previousValue` of each entry, callback queue | commit, prefind, prepost; SubsWatcher; QueueWatcher | list shared by threads without a lock, stale entries, dying threads | reports compare with what the subscriber got; requests keep the database; records end; callbacks are made |
| `/.multi` (`managers/MultiManager`) | `records` | prepost (write in subsessions, read copies), commit, prune | subsessions under a session, unlocked list | independent writes; no record twice |
| Remote client (`managers/ClientManager`, `client/Client`) | `records`, timers | poll loop, commit | blocking I/O inside an iteration | polling goes on |
| Listeners and workers (`server/Server`, `Worker`) | sockets, shutdown flags, respawn delay | start/stop of TCP and TLS, accept, parse | stop racing start, respawn | a started server listens in the end |
| Handlers (`server/*Handler`) | none | GET, PUT, POST, DELETE | call sessions | every session is discarded |
| Authentication (`security/AuthManager`, `AuthSettings`, `TLS`) | pending and active keys, activated flag | preread, commit, activate, factory reset | activation fails half way | active keys are a verified set |
| Authorization (`security/Authorizer`, `Token`, `JWT`) | god mode flag | checks, enterGodMode/exitGodMode | exceptions between enter and exit | god mode never outlives its scope |
| Indexes (`managers/IndexManager`) | none | preread | uses god mode | - |
| Strings (`data/basetypes/StringData`, `OctetStringData`, `common/LocalizedStrings`) | value per locale | merge at commit, setValue | boundaries of skip | merge equals splice |
| Filters and pages (`data/Context`) | filter counters | filterChildren | boundaries, reverse | pages partition the list |
| Prototypes (`definitions/*`) | shared maps | lazy creation | unlocked, shared by threads | one prototype per name |
| Playground server (`ui/Playground`, `UserSession`) | temporary database, current user | resetDatabase, csmlValidate, start/end session | replaces lock and root under open sessions; static fields shared by threads | the database afterwards is the one before; one user at a time |
| Data explorer (`playground.js` 282-1076) | Node objects with cached data, rows with ids, selected node, dialogs | expand, collapse, refresh, pencil, create, change, delete, cut, copy, paste | answers in any order while the user clicks on; several rows with one id | writes go where the user asked; rows show what the server has |
| Clipboard (`playground.js` 1079-1126) | text area, ring of ten texts, select | copy arrives, duplicate, select, keyup | copies arrive between keystrokes | the last entries are kept with their edits |
| Instance form (`playground.js` 776-824, `Playground.populate`) | texts of the fields | change of a field, request, draw | fields correct each other; text that is read as a number but is none | no draw fails or goes on for ever |
| Path evaluation, marshallers, bindings, hooks, BACnet objects, utilities | none of interest | | | |

How they interact: an HTTP worker thread runs a handler, which opens a session
(acquiring `DataStore.lock`), evaluates a path in the session's root shadow, calls
put, post or delete there and commits. The commit descends the dirty shadows; a
binding met on the way (`/.subs`, `/.multi`, `/.auth`, an application's own) takes over
below it and changes its native records. Watcher threads share those records and
open sessions of their own.

## Modules

**SerialStore** is the abstract promise of write sessions: one thread inside, every
change adds the operation of the thread inside, acknowledged only when stored.

**WriteSession** is the protocol of `Session`, `DataStore` and all callers. `permits`
is the semaphore, `active` is `activeWriteSession`, `store` the originals, and for each
thread its place (`pc`), the session it works in (`mode`: its own or a subsession),
the items still to edit, its shadows and which of them are dirty or already copied.
`makeWriteSession` is two steps (`Acquire`, `OpenSession`) because the semaphore is
taken before the session is published; `close()` is two steps (`Close`, `Release`) for the
same reason. `TimeOut` is the refusal. `Throw` stands for an exception from path
evaluation, authorization, put, post, delete or prepost; `CommitThrows` for one from
a binding's commit, after which the items already copied stay. `CommitEnds` has a
second alternative for the `atomic...` methods, which commit their target and leave closing to
`discard()`. The content of an item is the set of operations it reflects, which
is what makes a lost update visible. `OpenSession` cannot throw: lines 209-214 make a
shadow of the root, which exists, and nothing else, so the stretch between the semaphore and
the caller's `try` has no exception to model.

**Lists** is `At(list, S)`, the elements of a list at a set of positions, in order, and
`Where(list, Test)`, those that pass a test: what is left of the code's `ArrayList`s when others are
removed. `SelectSeq` says the same, but a prover cannot look into it.

**Container** is the abstract promise of a container: a request has contents to go and
contents to come; success does exactly that and leaves the rest in order, failure
changes nothing.

**Shadow** is one container and its members in `AbstractData`: `Preread`, `PutMember`,
`PutNewMember` (a path that ends where there is no member: `Eval` creates one), `Post`,
`DeleteMember`, `PutAll` with one step per given member (`PutChild`), the
naming of new members from `Rules`, `Committed` (the whole of `commit()`, with the
renumbering at its end) and `Discard`. `Scopes` says what is committed: the session, or
only the target as in `Session.atomicPut`, `atomicPost` and `atomicDelete`. Metadata, types
and values are not told apart: a member is a name and a content. A whole List may be given in
any numbering and any order. The code takes a given number that no member has only when it is
the one that `createChild` gives to the new member; for any other number `put` throws
("Given name does not match target name", AbstractData.java:509-514), and the whole request
fails: PUT of 2, 3, 4 over 1, 2, 3 finds 2 and 3, deletes 1, creates 4 as "3" and is refused.
`PutChild` has that check as its guard; without a step, only `Discard` is left. A given member
without a name, or named ".anonymous", is exempt from the check (`NoName`, allowed when the
constant `Unnamed` is TRUE).

**Subs** is `SubsManager`: HTTP requests that create, renew, cancel and delete
records, the SubsWatcher thread (process all records, prune, sleep) and the QueueWatcher.
The database lock is a `holder` here. `records` is an `ArrayList` that all
threads touch without a common lock; `cursor`, `HasNext` and `modified` model its iterator,
including that `next()` throws when the list was changed behind it. Each operation on
the list is one step. `version` tells the `SubsCovEntry` objects before a PUT from
those after it, `made` the version a record object began with. `previous` is
`previousValue`, set when a callback is queued. `queueWatcher` takes callbacks from the queue:
`Callback` succeeds and sets `told`; `CallbackFails` sets the record's `callbackError` and the
subscriber is not told, nor is it tried again; `CallbackThrows` is the exception that nothing
catches, and ends the thread. An error is set on the record object the callback was
queued for, so it shows only while that object is in the list (`SetsError`), and a PUT of the
record clears it. A record in `Silent` has no
callback URL, and its values are compared and remembered but never sent (whether a PUT
gives or takes away the URL is left out). A thread that dies of an uncaught error stays in `"dead"`.

**PageTree** is the tree of the page: the methods of `Node` in playground.js as functions
from tree to tree. A tree is the `Node` objects (`nodes`) and, for each path, the rows that
have its id (`dom`), the first one first, because jQuery's `$("#id")` is the first of them.
Path and object are tied by nothing else: `add` can put a second row next to one with the
same id, and then binds its handlers to the first; `remove` removes one row and cuts the
object from its parent, after which its path is relative. Objects that nothing
refers to any more are collected, so that their numbers can be used again.

**Explorer** is the data explorer with the server's data (`db`). Every click and every
answer is one action, the whole handler; requests are served one at a time and answered in
any order. A request carries the node its callback holds (`me`). A callback that throws (the node has
no parent any more) changes nothing. Data is reduced to names, the writable flags and what a
row shows. The three forms that make something new share one dialog state. The two kinds of
requests that follow every list (the details of a member, and whether `$writable` is really
there) are served and handled in one step (`ConfirmedToExist`, `InfoRefreshed`), so that a stale
answer to one of these two is not in the model. `ServePut` refuses a PUT to data that is not
there where the code may create an optional child (Eval.java:70-87): the page only puts to
items it lists, and Shadow models the creation. `DefinitionsListed` opens the one form there is
in the model when the definitions arrive; on the page that dialog may come up beside
another one that is open (playground.js:772), and the model then drops the older. Only this
page writes to the server.
`asked` and `hurried` are history: the row whose pencil was clicked, and how many clicks
there were since the first that did not wait for an answer.

"bws" stands for the root's name "/bws", and no other name has a slash: a path that starts with
another name is relative.

**RecentTexts** is what the clipboard's history promises: the entries added last, each with
its edits. **Clipboard** is the ring of slots, the select, the text area and the copies under way; a key
that goes down and the `keyup` handler that stores the text are two steps. The promise lets an
edit change any entry, because the ring lets the user choose one; that a keystroke is not
overtaken by a copy that arrives before its `keyup` is not promised by the page or by this module.

**InstanceForm** is the fields for the number of members and for the limit, the request
that sends them, and the draw in `populate`. A text is what the page's `parseInt` reads from it (a
number, or none for NaN) and whether the server's `Integer.parseInt` takes it: "2.5"
reads 2 but is not plain. The page compares what it reads and leaves the text, unless it
replaces it by a bound or by the neighbour of the other field. `createInstance` is refused
when any text is not plain, before the server makes its write session; the percentage has no
working handler and is any text.

**UserSession** is `UserSession.java` and its callers: one thread for each request, one step
for each access to a static field (`bumpSession`, `getSid` with its expiry, start and
end), and the pages that load, start and leave. `claims` is history: sessions granted and neither
left nor timed out. The steps are sequentially consistent; that a thread may also see old
values of fields that are not volatile is left out, and would only add to the finding.

The modules **WriteSessionProofs**, **ShadowProofs**, **ContainerProofs**, **SubsProofs** and
**ExplorerProofs** hold the theorems about the modules they are named for, **ExplorerSyncProofs**
the one about Explorer that needs most, **WidgetsProofs** those about Clipboard and
InstanceForm, and **ListProofs** the facts about lists and sets they share.

## Runs

| Run | Bounds | Result |
|---|---|---|
| session | 2 threads, 2 items (one with a binding that may throw), 2 requests each | all properties hold (472k states) |
| session_abort | 1 thread, 2 items, 1 request | finding: a failing commit is not undone |
| shadow | LIST and COLLECTION, 3 members, 4 requests, 1 name prefix with numbers 0 and 1, Lists given with any numbers of 1..4 in any order | all hold (21k states) |
| shadow_unnamed | LIST, 3 members, members given without a name too | finding: a given member is lost |
| shadow_array | ARRAY, 3 members, 4 requests | finding: POST overwrites a member |
| shadow_atomic | COLLECTION, commit of the session or of the target | finding: atomicDelete deletes nothing |
| subs | 1 client, 1 name, 2 paths, values 0..2, 2 versions of a record, 1 change | all hold (342k states) |
| subs_logs | 1 name, clients may give logs only | finding: the database stays locked |
| subs_cancelled | 1 name | finding: cancelled subscription is never deleted |
| explorer | root, its $writable, a child, its $displayName; 2 requests under way, 2 rows per id, 2 hurried clicks | all hold (1.07M states) |
| widgets | clipboard: ring of 3, 2 texts, 1 path, 2 copies under way; form: ranges 0..1, 1..3, 1..2, texts that read as numbers around and beyond them, plain or not, or as nothing | all hold (144k states) |
| user_session | 2 browsers, 3 ids, timeout of 1 tick, 1 click ahead | finding: two users at once |

Why the bounds are enough. *session*: the protocol's races are between one thread that
closes and one that acquires; two requests each let a late discard meet the
session of another thread and a later one of the same thread; two items let a commit fail
half way and a `/.multi` request fail between its values. *shadow*: names collide after at most
three requests (two to create, one to delete); the fourth shows the effect.
Lists are given in every numbering out of 1..4 and every order.
*subs*: the database lock lets one HTTP request be open at a time, so one client's
requests in sequence are all there is between two steps of the watcher. A record with two
entries is the least with one that is compared after the lock was given back. One name is enough for a
record to be added, removed, pruned, and added again by a PUT that found it before, at every place
of the watcher; the safety properties are proved for any number of names. A lifetime of 2
with 1 taken off per round is renewed or cancelled in the round before it ends. One change of
the data is enough to differ from what was last sent by more and by less than
the increment.
*explorer*: four paths are the least with rows inside rows, an inherited flag and a name
shown in another row. Two requests under way let any two handlers' answers pass each other;
each list adds its follow-ups on top. Rows are added twice by two lists of the same node,
so two rows with one id are what two requests make (a third only follows from
clicking on in the mess; `MaxRows` stops there). `MaxHurry` counts clicks from the
first impatient one up to a reload of the page, which is only done at rest; it does not bound
patient use, which can go on for ever. A paste writes the value "true" and any
set of items below its target. *widgets*: a ring of three has a slot that is newest, one that is oldest and one between, and
wraps after the third entry; with two copies under way one can arrive between a key and its
keyup while the other waits. The slots of the code are ten. The ranges of the form
are those of ampii.html made smaller, with numbers at, beyond and between their
ends; the proof has no such bound. The
clipboard and the form share no state, and a behaviour of the run uses one of them.

What the properties say:

- `MutualExclusion`, `NoLostUpdate`, `SessionInv`, `SerialSpec` - the promise of
  Session.java's class comment, with exceptions, refusals and late discards anywhere.
- `LockIsFreed` - no execution keeps the permit.
- `ContainerSpec`, `ListNumbered` - requests do what they ask for.
- `OneRecordPerName`, `KnownToSubscriber`, `RequestHasDatabase`, `DatabaseIsFreed` - subscriptions under
  races with the watcher. `KnownToSubscriber` says that a change is measured against what the
  subscriber has or will have, or else the record shows a callback error: the code remembers
  a value when its callback is queued and does not take it back when the callback fails. It is
  not claimed once the QueueWatcher is dead, as no callback is made then. `RequestHasDatabase` is about
  the discard after every entry. `DatabaseIsFreed` holds as long as every record has `covs` (run
  *subs*) and fails when one has `logs` only (run *subs_logs*).
- `WritesWhereAsked` - no order of answers, refreshes and clicks makes the page write to, delete
  or cut anything but the row whose pencil was clicked (or something new below it).
- `ButtonsActOnTheirRow` - with rows added twice and removed once, a row's buttons still
  belong to a node with the row's path.
- `TreeShowsServer` - for a user who waits for each answer the tree at rest is the server's.
  For one who does not it is not: duplicate rows stay, react twice and are never repaired.
- `ShownIsSelected`, `KeepsRecentTexts` - the clipboard loses and mixes up no entry.
- `MembersCanBeDrawn` - no request of the form fails in its write session or counts for ever in it. A
  text that is no whole number is refused before, which is an error for the user but holds no lock.

Deadlock is not checked in the runs of `WriteSession`, `Shadow` and `Subs`: requests end, and the
threads of `Subs` may be dead. It is checked in the runs of the page and of the user session.

### Fairness

`WriteSession` assumes weak fairness of every thread that has begun a request: the JVM
schedules it, path evaluation and commits terminate. New requests are not assumed.
`Subs` assumes it of an HTTP thread inside a session, of the watcher (a timer
thread) and of the callback thread (the HTTP client has a timeout or ends in an exception).
Nothing is assumed about clients: they may never ask again.

The page and the user session have safety properties only: no fairness is assumed of
users or of the network.

## Proofs

Every theorem is for all values of the constants that satisfy the named assumption of the
module that declares them. The invariant a run checks is seldom inductive, so each proof
module begins with a stronger one. Those were checked by TLC too, on the instances of the
runs or smaller ones.

**WriteSessionProofs** (from `WriteSessionAssumption`: `Bound` are items, `MaxOps` a natural
number, no session is the null value)

- `TypeCorrect` - `Spec => []TypeOK`
- `SessionInvariant` - `Spec => []SessionInv`
- `OneWriteSession` - `Spec => []MutualExclusion`
- `NothingLost` - `Spec => []NoLostUpdate`
- `Refinement` - `Spec => SerialSpec`

Neither mutual exclusion nor the absence of lost updates is inductive. The invariant
`SessionInv` adds three parts: `LockInv` (a permit exactly when nobody holds, so that a
second `Acquire` is impossible), `ActiveInv` (activeWriteSession is the main session
of the thread inside from `OpenSession` to its own close, and never otherwise, so that a
discard after a commit does not release another thread's permit) and `ShadowInv` (the
shadows of an open session are the originals plus its own operation, so that copying
them back loses nothing). `OwnershipStep` proves that a step keeps the first two,
`SessionStep` adds the shadows, `RefinementStep` maps each action to an action of
SerialStore or a stutter: `Acquire` enters, `CommitItem` changes, `CommitEnds`
acknowledges, `Release` leaves. The mapping takes `inside` to be the set of threads that
hold, which `InsideIsOne` shows to be at most one.

**ShadowProofs** (from `ShadowAssumption`: finitely many keys, none of them the empty name)

- `ShadowTypes` - `Spec => []TypeOK`, with it that no two members of a container share a name
- `ListsStayNumbered` - `Spec => []ListNumbered`

The invariant adds `RequestInv`: a request is putting as long as something is left to put,
which is no more than what it promised to add, and a target is a member of the shadow. The proof is for all five kinds of container, any numbering and order of
given members, named or not, and commits of a session or of a target. Names and contents are not bounded.

**ContainerProofs** (from `ShadowAssumption` and the hypothesis `OrdinaryUse`)

- `ContainerRefinement` - `Spec => ContainerSpec`: a committed request has done exactly what
  it asked and left the other members in place and in order; any other has changed nothing

`OrdinaryUse` says that containers are Lists or Collections, that the members clients give have names,
and that sessions are committed as a whole. How given Lists are numbered and ordered is free. It is the
widest use for which the statement was found to be true, and each thing it leaves out is a
finding or a known collision: Arrays (run `shadow_array`; Objects and Choices, where TLC finds counterexamples too, are among
the hazards), members without a name (run `shadow_unnamed`) and commits of a target (run `shadow_atomic`).
That numbers which do not fit lose nothing rests on the check of names in `PutChild`.
Within it the numbers of members, names and requests are any. `OrdinaryInv` relates the shadow to the
promise while a request is under way: every content is of one request and in one place
(`ContentsInv`); the shadow has the original members in their places, then the
new ones (`ShadowsInv`); a shadow that is only dirty below has no new or deleted members (`OwnInv`);
the promise is what was put plus what is still to be put (`PromiseInv`, `TodoInv`).
A request is the abstract `Ask`, `PutChild` a stutter, `Commit` is `Keep` and
`Discard` is `Forget`; `CommittedValues` and `CommitKeepsPromise` show that a commit leaves the contents of
the shadow's children in their order.

**SubsProofs** (from `SubsAssumption`: some names, finitely many paths, the watcher is no client)

- `SubsTypes` - `Spec => []TypeOK`
- `NamesAreUnique` - `Spec => []OneRecordPerName`
- `RequestsKeepDatabase` - `Spec => []RequestHasDatabase`
- `ComparedIsKnown` - `Spec => []KnownToSubscriber`

The types need `CursorInv` (the watcher's iterator is inside the list until somebody changes it)
and `RequestInv` (a thread is in a request exactly as long as it holds the database, from which
`RequestHasDatabase` follows). What the watcher compares
with needs `UnreportedInv`: nothing was reported for entries not made yet, nor for those made
since it looked up the ones it is comparing; and `KnownInv`, which is `KnownToSubscriber` for names
without a record too, as a removed name may be posted again. It adds that the newest callback that
waits is one for the entries the record has now: if it fails, the error shows in the record that is listed, also
when a PUT has cleared older errors meanwhile. `MadeInv` says that the object in the list was made with entries of its own.

**WidgetsProofs**, the clipboard (from `HistoryAssumption`: at least one slot, the null values are no text and no path)

- `ClipTypes` - `ClipSpec => []ClipTypeOK`
- `ShownTogether` - `ClipSpec => []ShownIsSelected`
- `HistoryRefinement` - `ClipSpec => KeepsRecentTexts`

`RingInv` says that slots are filled one after the other before the ring wraps, `CopiesInv` what the copies
under way carry, `ShownInv` includes slot 0, into which a text can be typed before anything was
copied. For the refinement, `SlotsInOrder` and `SlotsMoveBack` show that the slots from the
oldest to the newest are the list of `RecentTexts`, before and after an entry takes the oldest one's slot.

**WidgetsProofs**, the form (from `FormAssumption`: the minimum starts at 0 and the maximum at 1 as in
ampii.html, the range of the minimum ends before that of the maximum, the first numbers 1 and 3
are in range)

- `FormCanBeDrawn` - `FormSpec => []MembersCanBeDrawn`

`FormInv` adds that a field reads at most one number, that a plain text reads one, and (`Apart`) that what the
minimum reads is below what the maximum reads: the handlers compare one number with one.
`RangedHolds` says what the range check leaves in a field, `MinInputKeeps` and
`MaxInputKeeps` that one field corrects the other without taking it out of range.

**ExplorerProofs** (from `PathsAssumption`: finitely many paths, with each its parent, all below
"/bws" and no other name "bws"; `DatabasesAssumption`; `BoundsAssumption`)

- `ExplorerTypes` - `Spec => []TypeOK`
- `PageWritesWhereAsked` - `Spec => []WritesWhereAsked`
- `ButtonsOfRows` - `Spec => []ButtonsActOnTheirRow`

The invariant is `ExplorerInv`. Its main part, `TreeInv`, is about the page's linked objects: every object
has a path, so none is among its own ancestors; the subs of an object point back to
it and differ in name; of the rows with one path only the first is bound, and to an object
of that path; rows are inside rows of their parent. `SelectedInv` is what makes writes go
where they should although the tree is torn down below open dialogs: an object once
selected keeps the path that was asked for, or is cut off and its path becomes
relative, so that the request goes to no data at all. `RequestInv` and `ReplyInv` say the same of requests and
answers under way, in whatever order they arrive. One lemma per recursive function
(`RemoveProperties`, `AddProperties`, `RefreshProperties`, `CollectedProperties`, ...) says what it keeps of
the tree, one per handler that the step keeps the invariant; `InvStep` collects what every step has to show.
`ExplorerInvariant` is `Spec => []ExplorerInv`.

**ExplorerSyncProofs** (from the same assumptions)

- `RowsShowServer` - `Spec => []TreeShowsServer`

At rest the rows are right; between a click and the last answer they are not, so an invariant has
to say what is wrong and who will repair it. `SyncInv` adds to `ExplorerInv` the part `SyncPart`, which says
that the page of a user who has always waited (`hurried = 0`) is `Calm`:

- `PlainInv`: every path has at most one row, which is bound once; its object is
  listed in that of the row above, and all that an object lists has its row;
- `CallsInv`: one request or answer is under way, but for the "info" requests that follow a list, of which
  there may be any number, the same one several times, with the "list" or "exists" they came with;
- `CallInv`: what each was sent for is still there: a list is for an open row with
  nothing inside, a write for an object that has its row or was cut off;
- `RowRight` for every path but the `DueRows`, which a list, an "exists" or the refresh
  after an answer has still to make or remove; a value may differ while it is one of the `DueInfos`, unless the
  server has none (an answer without a value would leave the old one);
- `ListCurrent`: while a list is answered the server's data does not change.

Only what an edit may change is due after it: `Spared` says that the server's data changes inside the row that is
refreshed and nowhere else, and `SparedIsRight` that the other rows stay right. `RemoveAllExact`,
`AddGrows`, `FilledIsExact` and `InformedIsExact` say exactly what the methods of Node do to the rows of such
a page (`ExplorerProofs` only needs what they keep), `ExpandedIsCalm` puts them together for a
list, `CalmTrimmed` says that collecting objects changes none of it. There is one lemma for each
handler (`ClicksSync`, `AnswersSync`, `ServesSync` gather them) and `SyncShows` is the end: without
anything under way nothing is due.

The hypothesis that the user waits is part of the property and is needed: two refreshes of one node at
the same time leave two rows with one id, and `PlainInv` is false from then on. TLC checked `SyncPart` on the
instance of the run *explorer* (1.07M states) before it was proved.

**ListProofs** has what the others share. The induction theorems of the library have an operator
as a parameter, which no installed prover instantiates; `SetInduction` is induction
over the natural numbers as a fact about a set, proved from the pigeonhole principle for finite sets.
With it the recursive functions of the models (`getPath`, folds over sets, repeated handlers) are
shown to exist (`IterationExists`, `FoldExists`), and `Nth` and `At` to select in order.

Checked by TLC only: liveness (`LockIsFreed`, `DatabaseIsFreed`), which the provers cannot treat,
and the properties that the runs of the findings violate.

## Findings

1. A commit that throws half way leaves the store partly changed (`DiscardedChangesNothing`).
2. POST to an Array with a gap replaces its last member (`PostKeepsMembers`).
3. `Session.atomicDelete` does not delete (`DeleteDeletes`).
4. A subscription with logs only kills the watcher with the database locked (`DatabaseIsFreed`).
5. The watcher dies of a concurrent change to its list, after which subscriptions
   never end (`CancelledIsDeleted`).
6. Two users can start a session at the same time (`OneUserAtATime`).
7. A PUT of a whole List with a member without a name, or named ".anonymous", can be answered as
   done and lose a given member (`GivenIsStored`). Every other numbering that does not fit is
   refused as a whole.

Seen while reading, without a run: a callback that is answered with a redirect, or whose connection breaks
before the answer, ends the QueueWatcher thread (`new InputStreamReader(null)`, Client.java:66 and 76; Subs has
the step), and no callback is made any more; setting `$writable` to false refreshes the node that was changed and not
its parent (playground.js:957-958), whose pencil goes on to enable buttons that the server refuses;
a subscription without an increment has -1 (SubsManager.java:53), which makes every comparison a change;
the refusal of a session reads `activeWriteSession` twice (Session.java:203-205) and may meet null the second time; `random.nextInt(100)>optp` (Playground.java:342) makes
optional children in 100 - optp % of the cases, the comment says optp; line 53 of playground.js binds
`createInstanceMemberMaxInput`, which is no handler, so the percent field is never kept in
range, and a text like "2.5" or an empty one, which the page leaves in a field, makes `Integer.parseInt` on the
server throw NumberFormatException; a `$displayName` that was deleted, or changed by a paste, stays in the row of its parent; Duplicate
before anything was copied stores an entry without text, and what is typed before the
first copy is stored under `null`.

## Not modelled, and the plan

Order of the modules still to write, the most important first:

1. **DatabaseReset** - `DataStore.initialize`, `resetDatabase` and `csmlValidate` under open
   sessions: the lock and the root are replaced. Composes with WriteSession's protocol.
2. **Multi** and **Client** - the records and watcher threads of `MultiManager` and
   `ClientManager`.
3. **Listener** - start, stop and respawn of the TCP and TLS listeners.
4. **Auth** - pending and active keys and `TLS.activate` failing half way, god mode;
   composes with Listener.
5. **Pure algorithms** - priority arrays, string merging, filters and pages, naming:
   each against a reference definition over bounded inputs.
6. The tabs of the playground that validate (with DatabaseReset), then prototypes.
7. In `Shadow`: nested containers, Choice and Object, replacement of Any data. They are in its
   operators (`CreateChild`, `NextName`) but no run takes them yet.

Theorems to come: the safety of the new modules.

Of the page: the `$target` of a Link (the extra requests for its flag at
playground.js 448-465), the metadata filter, the text of rows and results, the sizes of text areas,
the history of changed values, the commented-out path explorer, and a failure of the
requests whose answers only add details. A write by another client between two requests
of this page would make the page stale by design, which no property excludes; it is left
out.

Left out for good: formats (marshallers, parsing of paths), signatures, sockets, logging,
and the contents of the definitions. Two threads that touch an `ArrayList` inside one of
its operations are not modelled: each operation is one step.
