----------------------------- MODULE WriteSession -----------------------------
(***************************************************************************)
(* Write sessions of the datastore (database/Session.java), the semaphore  *)
(* they share (database/DataStore.java) and the pattern every caller       *)
(* follows: makeWriteSession, try { edit; commit } finally { discard }     *)
(* (server/PutHandler, PostHandler, DeleteHandler, Session.atomicPut, ...).*)
(* A POST to /.multi edits through subsessions instead, one per value, and *)
(* returns ephemeral data without committing its own session               *)
(* (managers/MultiManager.prepost).                                        *)
(*                                                                         *)
(* The content of an item is abstracted to the set of operations it        *)
(* reflects: an edit reads the item into the session's shadow and adds the *)
(* operation of the request there, and commit copies the shadow over the   *)
(* original, so an operation that was stored and is later missing is a     *)
(* lost update.                                                            *)
(***************************************************************************)
EXTENDS Naturals

CONSTANTS Writers,    \* HTTP worker threads and internal threads that write
          Items,      \* data items of the store
          Bound,      \* items under a binding whose commit may throw
          MaxOps,     \* requests each thread makes
          NoSession   \* activeWriteSession == null

Modes == {"main", "sub"}
Sessions == Writers \X Modes

ASSUME WriteSessionAssumption ==
    /\ Bound \subseteq Items
    /\ MaxOps \in Nat
    /\ NoSession \notin Sessions

VARIABLES
    permits,   \* DataStore.lock, a Semaphore(1)
    active,    \* Session.activeWriteSession
    store,     \* the originals: item -> operations its content reflects
    pc,        \* where each thread is
    mode,      \* which of its sessions a thread is working in
    plan,      \* the values of a /.multi request still to be written
    target,    \* the items the thread's session still has to edit
    dirty,     \* the shadows that are dirty and not yet committed
    copied,    \* the shadows that commit() has copied to their originals
    shadow,    \* the content of the shadows
    count,     \* number of requests begun, names the current operation
    acked      \* item -> operations whose commit() returned normally

sessionVars == <<mode, target, dirty, copied, shadow>>
vars == <<permits, active, store, pc, mode, plan, target, dirty, copied,
          shadow, count, acked>>

Op == Writers \X (1..MaxOps)
OpOf(w) == <<w, count[w]>>
Main(w) == <<w, "main">>
This(w) == <<w, mode[w]>>     \* the Session object the thread is working in

Locations == {"idle", "acquiring", "acquired", "open", "multi",
              "committing", "closingCommit", "discarding", "closingDiscard", "returning"}

TypeOK ==
    /\ permits \in Nat
    /\ active \in Sessions \cup {NoSession}
    /\ store \in [Items -> SUBSET Op]
    /\ pc \in [Writers -> Locations]
    /\ mode \in [Writers -> Modes]
    /\ plan \in [Writers -> SUBSET Items]
    /\ target \in [Writers -> SUBSET Items]
    /\ dirty \in [Writers -> SUBSET Items]
    /\ copied \in [Writers -> SUBSET Items]
    /\ shadow \in [Writers -> [Items -> SUBSET Op]]
    /\ count \in [Writers -> 0..MaxOps]
    /\ \A w \in Writers : pc[w] # "idle" => count[w] > 0
    /\ acked \in [Items -> SUBSET Op]

Init ==
    /\ permits = 1
    /\ active = NoSession
    /\ store = [i \in Items |-> {}]
    /\ pc = [w \in Writers |-> "idle"]
    /\ mode = [w \in Writers |-> "main"]
    /\ plan = [w \in Writers |-> {}]
    /\ target = [w \in Writers |-> {}]
    /\ dirty = [w \in Writers |-> {}]
    /\ copied = [w \in Writers |-> {}]
    /\ shadow = [w \in Writers |-> [i \in Items |-> {}]]
    /\ count = [w \in Writers |-> 0]
    /\ acked = [i \in Items |-> {}]

Goto(w, location) == pc' = [pc EXCEPT ![w] = location]

-------------------------------------------------------------------------------
(* Acquiring the database.                                                 *)

(* A request that edits the items S in its own session, or a POST to       *)
(* /.multi that writes the items S, one subsession each.  Everything a     *)
(* handler does before makeWriteSession is private to the thread.          *)
Begin(w) ==
    /\ pc[w] = "idle"
    /\ count[w] < MaxOps
    /\ \E S \in (SUBSET Items) \ {{}} :
          \/ /\ target' = [target EXCEPT ![w] = S]
             /\ plan' = [plan EXCEPT ![w] = {}]
          \/ /\ target' = [target EXCEPT ![w] = {}]
             /\ plan' = [plan EXCEPT ![w] = S]
    /\ count' = [count EXCEPT ![w] = @ + 1]
    /\ Goto(w, "acquiring")
    /\ UNCHANGED <<permits, active, store, mode, dirty, copied, shadow, acked>>

(* Acquire(w), had tryAcquire not waited for a permit.                     *)
AcquireAtOnce(w) ==
    /\ pc[w] = "acquiring"
    /\ permits' = permits - 1
    /\ Goto(w, "acquired")
    /\ UNCHANGED <<active, store, plan, sessionVars, count, acked>>

(* DataStore.tryAcquire succeeds; activeWriteSession is still null.        *)
Acquire(w) ==
    /\ pc[w] = "acquiring"
    /\ permits > 0
    /\ permits' = permits - 1
    /\ Goto(w, "acquired")
    /\ UNCHANGED <<active, store, plan, sessionVars, count, acked>>

(* TimeOut(w), had the result of tryAcquire been ignored.                  *)
TimeOutIgnored(w) ==
    /\ pc[w] = "acquiring"
    /\ permits = 0
    /\ Goto(w, "acquired")
    /\ UNCHANGED <<permits, active, store, plan, sessionVars, count, acked>>

(* Nobody released the database for acquireDatabaseTimeout: the request is *)
(* refused.  This is outside the try block of the caller: no discard().    *)
TimeOut(w) ==
    /\ pc[w] = "acquiring"
    /\ permits = 0
    /\ plan' = [plan EXCEPT ![w] = {}]
    /\ target' = [target EXCEPT ![w] = {}]
    /\ Goto(w, "idle")
    /\ UNCHANGED <<permits, active, store, mode, dirty, copied, shadow, count, acked>>

(* A fresh root shadow with nothing preread below it.                      *)
FreshShadow(w) ==
    /\ dirty' = [dirty EXCEPT ![w] = {}]
    /\ copied' = [copied EXCEPT ![w] = {}]
    /\ shadow' = [shadow EXCEPT ![w] = [i \in Items |-> {}]]

(* The rest of makeWriteSession: shadow the root, publish the session.     *)
OpenSession(w) ==
    /\ pc[w] = "acquired"
    /\ FreshShadow(w)
    /\ active' = Main(w)
    /\ Goto(w, IF plan[w] = {} THEN "open" ELSE "multi")
    /\ UNCHANGED <<permits, store, mode, plan, target, count, acked>>

-------------------------------------------------------------------------------
(* Working in a session.                                                   *)

(* put(), post() and delete() on an item: the first access prereads the    *)
(* original into the shadow, the change is made there and marks it dirty.  *)
Edit(w, i) ==
    /\ pc[w] = "open"
    /\ i \in target[w]
    /\ shadow' = [shadow EXCEPT ![w][i] = store[i] \cup {OpOf(w)}]
    /\ dirty' = [dirty EXCEPT ![w] = @ \cup {i}]
    /\ target' = [target EXCEPT ![w] = @ \ {i}]
    /\ UNCHANGED <<permits, active, store, pc, mode, plan, copied, count, acked>>

(* Throw(w), had the caller no finally block.                              *)
ThrowWithoutFinally(w) ==
    /\ pc[w] \in {"open", "multi"}
    /\ Goto(w, "returning")
    /\ UNCHANGED <<permits, active, store, plan, sessionVars, count, acked>>

(* Eval, authorization, put, post, delete or prepost throws.               *)
Throw(w) ==
    /\ pc[w] \in {"open", "multi"}
    /\ Goto(w, "discarding")
    /\ UNCHANGED <<permits, active, store, plan, sessionVars, count, acked>>

(* MultiManager.prepost opens a subsession for the next value; it may only *)
(* do so under the session that is the active one.                         *)
OpenSubsession(w, i) ==
    /\ pc[w] = "multi"
    /\ i \in plan[w]
    /\ active = Main(w)
    /\ mode' = [mode EXCEPT ![w] = "sub"]
    /\ plan' = [plan EXCEPT ![w] = @ \ {i}]
    /\ target' = [target EXCEPT ![w] = {i}]
    /\ FreshShadow(w)
    /\ Goto(w, "open")
    /\ UNCHANGED <<permits, active, store, count, acked>>

(* The result of the POST is ephemeral: the handler does not commit.       *)
ReturnEphemeral(w) ==
    /\ pc[w] = "multi"
    /\ plan[w] = {}
    /\ Goto(w, "discarding")
    /\ UNCHANGED <<permits, active, store, plan, sessionVars, count, acked>>

-------------------------------------------------------------------------------
(* Ending a session.                                                       *)

(* Session.close() had it not compared activeWriteSession with this.       *)
CloseAny(w, released, kept) ==
    /\ active' = NoSession
    /\ Goto(w, released)

(* Session.close(): only the active session itself gives up the database;  *)
(* a subsession, and a discard() after a commit(), do not.                 *)
Close(w, released, kept) ==
    IF active = This(w)
    THEN active' = NoSession /\ Goto(w, released)
    ELSE UNCHANGED active /\ Goto(w, kept)

(* session.commit() is called once the edits are done.                     *)
StartCommit(w) ==
    /\ pc[w] = "open"
    /\ target[w] = {}
    /\ Goto(w, "committing")
    /\ UNCHANGED <<permits, active, store, plan, sessionVars, count, acked>>

(* root.commit() copies the dirty shadows to their originals one by one.   *)
CommitItem(w, i) ==
    /\ pc[w] = "committing"
    /\ i \in dirty[w]
    /\ store' = [store EXCEPT ![i] = shadow[w][i]]
    /\ dirty' = [dirty EXCEPT ![w] = @ \ {i}]
    /\ copied' = [copied EXCEPT ![w] = @ \cup {i}]
    /\ UNCHANGED <<permits, active, pc, mode, plan, target, shadow, count, acked>>

(* The commit() of a binding throws; items before it stay committed.       *)
CommitThrows(w) ==
    /\ pc[w] = "committing"
    /\ dirty[w] \cap Bound # {}
    /\ Goto(w, "discarding")
    /\ UNCHANGED <<permits, active, store, plan, sessionVars, count, acked>>

(* CommitEnds(w), had it not waited for every dirty item to be committed.  *)
CommitEndsEarly(w) ==
    /\ pc[w] = "committing"
    /\ acked' = [i \in Items |-> IF i \in copied[w] \cup dirty[w]
                               THEN acked[i] \cup {OpOf(w)} ELSE acked[i]]
    /\ Close(w, "closingCommit", "discarding")
    /\ UNCHANGED <<permits, store, plan, sessionVars, count>>

(* root.commit() has returned: close() if this is the active session.      *)
(* atomicPut and atomicPost commit the target and not the session, which   *)
(* leaves it to discard() to close.                                        *)
CommitEnds(w) ==
    /\ pc[w] = "committing"
    /\ dirty[w] = {}
    /\ acked' = [i \in Items |-> IF i \in copied[w] THEN acked[i] \cup {OpOf(w)} ELSE acked[i]]
    /\ \/ Close(w, "closingCommit", "discarding")
       \/ mode[w] = "main" /\ UNCHANGED active /\ Goto(w, "discarding")
    /\ UNCHANGED <<permits, store, plan, sessionVars, count>>

(* The finally block: discard() drops the shadows and calls close().       *)
Discard(w) ==
    /\ pc[w] = "discarding"
    /\ Close(w, "closingDiscard", "returning")
    /\ UNCHANGED <<permits, store, plan, sessionVars, count, acked>>

(* The second half of close(): DataStore.release() gives the permit back   *)
(* without asking who holds it.                                            *)
Release(w) ==
    /\ \/ pc[w] = "closingCommit" /\ Goto(w, "discarding")
       \/ pc[w] = "closingDiscard" /\ Goto(w, "returning")
    /\ permits' = permits + 1
    /\ UNCHANGED <<active, store, plan, sessionVars, count, acked>>

(* Back in prepost()'s loop after a subsession, else the request is over.  *)
Return(w) ==
    /\ pc[w] = "returning"
    /\ mode' = [mode EXCEPT ![w] = "main"]
    /\ target' = [target EXCEPT ![w] = {}]
    /\ FreshShadow(w)
    /\ IF mode[w] = "sub"
       THEN Goto(w, "multi") /\ UNCHANGED plan
       ELSE Goto(w, "idle") /\ plan' = [plan EXCEPT ![w] = {}]
    /\ UNCHANGED <<permits, active, store, count, acked>>

-------------------------------------------------------------------------------
(* What a thread does by itself once its request has begun.                *)
Step(w) ==
    \/ Acquire(w) \/ TimeOut(w) \/ OpenSession(w)
    \/ \E i \in Items : Edit(w, i) \/ OpenSubsession(w, i) \/ CommitItem(w, i)
    \/ Throw(w) \/ ReturnEphemeral(w)
    \/ StartCommit(w) \/ CommitThrows(w) \/ CommitEnds(w)
    \/ Discard(w) \/ Release(w) \/ Return(w)

Next == \E w \in Writers : Begin(w) \/ Step(w)

Spec == Init /\ [][Next]_vars

(* A thread that has begun a request is scheduled until it has answered it;*)
(* whether a client sends another request is up to the client.             *)
Fairness == \A w \in Writers : WF_vars(Step(w))

FairSpec == Spec /\ Fairness

-------------------------------------------------------------------------------
(* The threads that are between a successful tryAcquire and the release()  *)
(* that answers it.                                                        *)
Holds(w) ==
    \/ pc[w] \in {"acquired", "open", "multi", "committing", "closingCommit", "closingDiscard"}
    \/ mode[w] = "sub"
    \/ pc[w] = "discarding" /\ active = Main(w)

(* Session.java promises "one write session at a time": no two threads are *)
(* ever between acquiring the database and releasing it, whatever mixture  *)
(* of commits, late discards, subsessions, exceptions and timeouts ran.    *)
MutualExclusion == \A v, w \in Writers : Holds(v) /\ Holds(w) => v = w

(* A change whose commit() returned normally is still in the store: no     *)
(* later session, of this or another thread, overwrites it from a shadow   *)
(* that was read before the change.                                        *)
NoLostUpdate == \A i \in Items : acked[i] \subseteq store[i]

(* The permit is there exactly when no thread is inside a session: a       *)
(* discard() after commit() never returns it twice, an exception never     *)
(* keeps it.                                                               *)
LockInv ==
    /\ permits \in {0, 1}
    /\ permits = 1 => \A w \in Writers : ~Holds(w)
    /\ permits = 0 => \E w \in Writers : Holds(w)

(* activeWriteSession is the main session of the thread inside, while that *)
(* session is open and until it closes itself; a subsession never is.      *)
ActiveInv ==
    /\ active # NoSession => \E w \in Writers : active = Main(w)
    /\ \A w \in Writers :
          /\ active = Main(w) => \/ pc[w] \in {"open", "multi", "committing", "discarding"}
                                 \/ mode[w] = "sub"
          /\ pc[w] \in {"open", "multi", "committing"} \/ mode[w] = "sub" => active = Main(w)
          /\ mode[w] = "sub" => pc[w] \in {"open", "committing", "discarding", "returning"}

(* The shadows of an open session are the current originals plus the       *)
(* session's own operation: nobody else changes an original while the      *)
(* session is open.                                                        *)
ShadowInv ==
    \A w \in Writers : pc[w] \in {"open", "committing"} =>
        /\ \A i \in dirty[w] : shadow[w][i] = store[i] \cup {OpOf(w)}
        /\ \A i \in copied[w] : OpOf(w) \in store[i]

(* The inductive invariant behind MutualExclusion and NoLostUpdate, for    *)
(* Session.close() and the callers' commit-then-discard pattern.           *)
SessionInv == MutualExclusion /\ LockInv /\ ActiveInv /\ ShadowInv /\ NoLostUpdate

(* The detailed protocol implements the abstract serial store: the thread  *)
(* inside is the one that holds the permit.                                *)
Serial == INSTANCE SerialStore WITH inside <- {w \in Writers : Holds(w)}
SerialSpec == Serial!Spec

(* However a request ends, by return, exception, failing commit or         *)
(* refusal, the database becomes free again: no execution leaves it locked *)
(* for good.                                                               *)
LockIsFreed == permits = 0 ~> permits = 1

-------------------------------------------------------------------------------
(* A session that is discarded before all its changes are committed has    *)
(* changed nothing: "changes can be discarded if anything goes wrong after *)
(* partial modification has begun" (Session.java:19-20).                   *)
DiscardedChangesNothing ==
    \A w \in Writers :
        pc[w] = "discarding" /\ mode[w] = "main" /\ dirty[w] # {}
            => \A i \in Items : OpOf(w) \notin store[i]
===============================================================================
