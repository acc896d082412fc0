-------------------------- MODULE WriteSessionProofs --------------------------
(***************************************************************************)
(* Proofs about WriteSession, for every set of threads and items and every *)
(* number of requests: the types, the inductive invariant SessionInv with  *)
(* the properties it contains, and the refinement of SerialStore.          *)
(***************************************************************************)
EXTENDS WriteSession, TLAPS

(* Every variable of a write session keeps its type.                       *)
THEOREM TypeCorrect == Spec => []TypeOK
<1>1. Init => TypeOK
  BY WriteSessionAssumption DEF Init, TypeOK, Modes, Locations, Op, Sessions
<1>2. TypeOK /\ [Next]_vars => TypeOK'
  <2> SUFFICES ASSUME TypeOK, [Next]_vars PROVE TypeOK'
    OBVIOUS
  <2> USE DEF TypeOK, Goto, Locations, Modes, Op, Sessions, sessionVars
  <2>1. ASSUME NEW w \in Writers, Begin(w) PROVE TypeOK'
    <3>1. count[w] + 1 \in 0..MaxOps /\ count[w] + 1 > 0
      BY <2>1, WriteSessionAssumption DEF Begin
    <3>2. PICK S \in (SUBSET Items) \ {{}} :
             \/ /\ target' = [target EXCEPT ![w] = S]
                /\ plan' = [plan EXCEPT ![w] = {}]
             \/ /\ target' = [target EXCEPT ![w] = {}]
                /\ plan' = [plan EXCEPT ![w] = S]
      BY <2>1 DEF Begin
    <3> QED BY <2>1, <3>1, <3>2 DEF Begin
  <2>2. ASSUME NEW w \in Writers, Acquire(w) PROVE TypeOK'
    BY <2>2 DEF Acquire
  <2>3. ASSUME NEW w \in Writers, TimeOut(w) PROVE TypeOK'
    BY <2>3 DEF TimeOut
  <2>4. ASSUME NEW w \in Writers, OpenSession(w) PROVE TypeOK'
    BY <2>4 DEF OpenSession, FreshShadow, Main
  <2>5. ASSUME NEW w \in Writers, NEW i \in Items, Edit(w, i) PROVE TypeOK'
    <3>1. OpOf(w) \in Op
      BY <2>5, WriteSessionAssumption DEF Edit, OpOf
    <3> QED BY <2>5, <3>1 DEF Edit
  <2>6. ASSUME NEW w \in Writers, NEW i \in Items, OpenSubsession(w, i) PROVE TypeOK'
    BY <2>6 DEF OpenSubsession, FreshShadow
  <2>7. ASSUME NEW w \in Writers, NEW i \in Items, CommitItem(w, i) PROVE TypeOK'
    BY <2>7 DEF CommitItem
  <2>8. ASSUME NEW w \in Writers, Throw(w) \/ ReturnEphemeral(w) \/ StartCommit(w) \/ CommitThrows(w)
        PROVE TypeOK'
    BY <2>8 DEF Throw, ReturnEphemeral, StartCommit, CommitThrows
  <2>9. ASSUME NEW w \in Writers, CommitEnds(w) PROVE TypeOK'
    <3>1. OpOf(w) \in Op
      BY <2>9, pc[w] # "idle" DEF CommitEnds, OpOf
    <3>2. acked' \in [Items -> SUBSET Op]
      BY <2>9, <3>1 DEF CommitEnds
    <3>3. active' \in Sessions \cup {NoSession} /\ pc' \in [Writers -> Locations]
      BY <2>9 DEF CommitEnds, Close
    <3> QED BY <2>9, <3>2, <3>3 DEF CommitEnds, Close
  <2>10. ASSUME NEW w \in Writers, Discard(w) PROVE TypeOK'
    BY <2>10 DEF Discard, Close
  <2>11. ASSUME NEW w \in Writers, Release(w) PROVE TypeOK'
    BY <2>11 DEF Release
  <2>12. ASSUME NEW w \in Writers, Return(w) PROVE TypeOK'
    BY <2>12 DEF Return, FreshShadow
  <2>13. CASE UNCHANGED vars
    BY <2>13 DEF vars
  <2> QED
    BY <2>1, <2>2, <2>3, <2>4, <2>5, <2>6, <2>7, <2>8, <2>9, <2>10, <2>11, <2>12, <2>13
    DEF Next, Step
<1> QED
  BY <1>1, <1>2, PTL DEF Spec

(* The inductive step of SessionInv for the three parts that speak of who  *)
(* holds the database (MutualExclusion, LockInv, ActiveInv).               *)
LEMMA OwnershipStep ==
    ASSUME TypeOK, SessionInv, [Next]_vars
    PROVE  (MutualExclusion /\ LockInv /\ ActiveInv)'
<1> USE DEF TypeOK, Goto, Sessions, Modes, sessionVars, Holds, Main
<1>0. /\ \A v \in Writers : <<v, "main">> # NoSession
      /\ \A v, u \in Writers : <<v, "main">> = <<u, "main">> => v = u
      /\ \A v, u \in Writers : <<v, "sub">> # <<u, "main">>
  BY WriteSessionAssumption
<1>a. MutualExclusion /\ LockInv /\ ActiveInv
  BY DEF SessionInv
<1> USE <1>0, <1>a DEF MutualExclusion, LockInv, ActiveInv
<1>1. ASSUME NEW w \in Writers, Begin(w) PROVE (MutualExclusion /\ LockInv /\ ActiveInv)'
  BY <1>1 DEF Begin
<1>2. ASSUME NEW w \in Writers, Acquire(w) PROVE (MutualExclusion /\ LockInv /\ ActiveInv)'
  BY <1>2 DEF Acquire
<1>3. ASSUME NEW w \in Writers, TimeOut(w) PROVE (MutualExclusion /\ LockInv /\ ActiveInv)'
  BY <1>3 DEF TimeOut
<1>4. ASSUME NEW w \in Writers, OpenSession(w) PROVE (MutualExclusion /\ LockInv /\ ActiveInv)'
  BY <1>4 DEF OpenSession
<1>5. ASSUME NEW w \in Writers, NEW i \in Items, Edit(w, i)
      PROVE (MutualExclusion /\ LockInv /\ ActiveInv)'
  BY <1>5 DEF Edit
<1>6. ASSUME NEW w \in Writers, NEW i \in Items, OpenSubsession(w, i)
      PROVE (MutualExclusion /\ LockInv /\ ActiveInv)'
  BY <1>6 DEF OpenSubsession
<1>7. ASSUME NEW w \in Writers, NEW i \in Items, CommitItem(w, i)
      PROVE (MutualExclusion /\ LockInv /\ ActiveInv)'
  BY <1>7 DEF CommitItem
<1>8. ASSUME NEW w \in Writers, Throw(w) \/ ReturnEphemeral(w) \/ StartCommit(w) \/ CommitThrows(w)
      PROVE (MutualExclusion /\ LockInv /\ ActiveInv)'
  BY <1>8 DEF Throw, ReturnEphemeral, StartCommit, CommitThrows
<1>9. ASSUME NEW w \in Writers, CommitEnds(w) PROVE (MutualExclusion /\ LockInv /\ ActiveInv)'
  BY <1>9 DEF CommitEnds, Close, This
<1>10. ASSUME NEW w \in Writers, Discard(w) PROVE (MutualExclusion /\ LockInv /\ ActiveInv)'
  <2>1. /\ pc[w] = "discarding" /\ mode' = mode /\ permits' = permits
        /\ \A v \in Writers \ {w} : pc'[v] = pc[v]
    BY <1>10 DEF Discard, Close
  <2>2. CASE active = This(w)
    <3>1. mode[w] = "main"
      BY <2>2 DEF This
    <3>2. active' = NoSession /\ pc' = [pc EXCEPT ![w] = "closingDiscard"]
      BY <1>10, <2>2 DEF Discard, Close
    <3> QED BY <2>1, <2>2, <3>1, <3>2 DEF This
  <2>3. CASE active # This(w)
    <3>1. active' = active /\ pc' = [pc EXCEPT ![w] = "returning"]
      BY <1>10, <2>3 DEF Discard, Close
    <3> QED BY <2>1, <2>3, <3>1 DEF This
  <2> QED BY <2>2, <2>3
<1>11. ASSUME NEW w \in Writers, Release(w) PROVE (MutualExclusion /\ LockInv /\ ActiveInv)'
  BY <1>11 DEF Release
<1>12. ASSUME NEW w \in Writers, Return(w) PROVE (MutualExclusion /\ LockInv /\ ActiveInv)'
  BY <1>12 DEF Return
<1>13. CASE UNCHANGED vars
  BY <1>13 DEF vars
<1> QED
  BY <1>1, <1>2, <1>3, <1>4, <1>5, <1>6, <1>7, <1>8, <1>9, <1>10, <1>11, <1>12, <1>13
  DEF Next, Step

(* The inductive step of SessionInv: nobody but the holder changes an      *)
(* original, and a commit copies a shadow that contains all of it.         *)
LEMMA SessionStep ==
    ASSUME TypeOK, SessionInv, [Next]_vars
    PROVE  SessionInv'
<1>1. (MutualExclusion /\ LockInv /\ ActiveInv)'
  BY OwnershipStep
<1>2. (ShadowInv /\ NoLostUpdate)'
  <2> USE DEF TypeOK, Goto, sessionVars, ShadowInv, NoLostUpdate, SessionInv, OpOf
  <2>1. ASSUME NEW w \in Writers, Begin(w) PROVE (ShadowInv /\ NoLostUpdate)'
    BY <2>1 DEF Begin
  <2>2. ASSUME NEW w \in Writers, Acquire(w) \/ TimeOut(w) PROVE (ShadowInv /\ NoLostUpdate)'
    BY <2>2 DEF Acquire, TimeOut
  <2>3. ASSUME NEW w \in Writers, OpenSession(w) PROVE (ShadowInv /\ NoLostUpdate)'
    BY <2>3 DEF OpenSession, FreshShadow
  <2>4. ASSUME NEW w \in Writers, NEW i \in Items, Edit(w, i) PROVE (ShadowInv /\ NoLostUpdate)'
    BY <2>4 DEF Edit
  <2>5. ASSUME NEW w \in Writers, NEW i \in Items, OpenSubsession(w, i)
        PROVE (ShadowInv /\ NoLostUpdate)'
    BY <2>5 DEF OpenSubsession, FreshShadow
  <2>6. ASSUME NEW w \in Writers, NEW i \in Items, CommitItem(w, i)
        PROVE (ShadowInv /\ NoLostUpdate)'
    <3>1. shadow[w][i] = store[i] \cup {OpOf(w)}
      BY <2>6 DEF CommitItem
    <3>2. \A v \in Writers : pc[v] \in {"open", "committing"} => v = w
      BY <2>6 DEF CommitItem, MutualExclusion, Holds
    <3>3. store' = [store EXCEPT ![i] = store[i] \cup {OpOf(w)}]
      BY <2>6, <3>1 DEF CommitItem
    <3> QED BY <2>6, <3>2, <3>3 DEF CommitItem
  <2>7. ASSUME NEW w \in Writers, Throw(w) \/ ReturnEphemeral(w) \/ StartCommit(w) \/ CommitThrows(w)
        PROVE (ShadowInv /\ NoLostUpdate)'
    BY <2>7 DEF Throw, ReturnEphemeral, StartCommit, CommitThrows
  <2>8. ASSUME NEW w \in Writers, CommitEnds(w) PROVE (ShadowInv /\ NoLostUpdate)'
    BY <2>8 DEF CommitEnds, Close
  <2>9. ASSUME NEW w \in Writers, Discard(w) PROVE (ShadowInv /\ NoLostUpdate)'
    BY <2>9 DEF Discard, Close
  <2>10. ASSUME NEW w \in Writers, Release(w) PROVE (ShadowInv /\ NoLostUpdate)'
    BY <2>10 DEF Release
  <2>11. ASSUME NEW w \in Writers, Return(w) PROVE (ShadowInv /\ NoLostUpdate)'
    BY <2>11 DEF Return, FreshShadow
  <2>12. CASE UNCHANGED vars
    BY <2>12 DEF vars
  <2> QED
    BY <2>1, <2>2, <2>3, <2>4, <2>5, <2>6, <2>7, <2>8, <2>9, <2>10, <2>11, <2>12 DEF Next, Step
<1> QED
  BY <1>1, <1>2 DEF SessionInv

(* SessionInv holds in every reachable state.                              *)
THEOREM SessionInvariant == Spec => []SessionInv
<1>1. Init => SessionInv
  BY WriteSessionAssumption
  DEF Init, SessionInv, MutualExclusion, LockInv, ActiveInv, ShadowInv, NoLostUpdate,
      Holds, Main, Sessions, Modes
<1> QED
  BY <1>1, SessionStep, TypeCorrect, PTL DEF Spec

(* One write session at a time, for any number of threads.                 *)
THEOREM OneWriteSession == Spec => []MutualExclusion
BY SessionInvariant, PTL DEF SessionInv

(* No acknowledged change is overwritten, for any number of threads.       *)
THEOREM NothingLost == Spec => []NoLostUpdate
BY SessionInvariant, PTL DEF SessionInv

(* The value of "inside" under the refinement mapping.                     *)
Inside == {w \in Writers : Holds(w)}

(* The thread that holds the database is alone inside.                     *)
LEMMA InsideIsOne ==
    ASSUME TypeOK, SessionInv, NEW w \in Writers, Holds(w)
    PROVE  Inside = {w}
BY DEF SessionInv, MutualExclusion, Inside

(* How each step maps: a successful tryAcquire is Enter, copying one item  *)
(* at commit() is Change, the return of commit() is Acknowledge, release() *)
(* is Leave, and everything else is invisible to the serial store.         *)
LEMMA RefinementStep ==
    ASSUME TypeOK, TypeOK', SessionInv, SessionInv', [Next]_vars
    PROVE  [Serial!Next]_(Serial!serialVars)
<1> USE DEF TypeOK, Goto, sessionVars, Serial!serialVars, Inside
<1>0. /\ \A v \in Writers : <<v, "main">> # NoSession
      /\ \A v, u \in Writers : <<v, "main">> = <<u, "main">> => v = u
      /\ \A v, u \in Writers : <<v, "sub">> # <<u, "main">>
  BY WriteSessionAssumption DEF Sessions, Modes
<1>1. ASSUME NEW w \in Writers, Begin(w) PROVE UNCHANGED Serial!serialVars
  <2>1. \A v \in Writers : Holds(v)' <=> Holds(v)
    BY <1>1 DEF Begin, Holds, Main
  <2> QED BY <1>1, <2>1 DEF Begin
<1>2. ASSUME NEW w \in Writers, Acquire(w) PROVE Serial!Enter(w)
  <2>1. Inside = {}
    BY <1>2 DEF Acquire, SessionInv, LockInv
  <2>2. \A v \in Writers : Holds(v)' <=> v = w
    BY <1>2, <2>1 DEF Acquire, Holds, Main
  <2> QED BY <1>2, <2>1, <2>2 DEF Acquire, Serial!Enter
<1>3. ASSUME NEW w \in Writers, TimeOut(w) PROVE UNCHANGED Serial!serialVars
  <2>1. \A v \in Writers : Holds(v)' <=> Holds(v)
    BY <1>3 DEF TimeOut, Holds, Main
  <2> QED BY <1>3, <2>1 DEF TimeOut
<1>4. ASSUME NEW w \in Writers, OpenSession(w) PROVE UNCHANGED Serial!serialVars
  <2>1. \A v \in Writers : Holds(v) <=> v = w
    BY <1>4 DEF OpenSession, SessionInv, MutualExclusion, Holds
  <2>2. \A v \in Writers : Holds(v)' <=> v = w
    BY <1>0, <1>4, <2>1 DEF OpenSession, Holds, Main
  <2> QED BY <1>4, <2>1, <2>2 DEF OpenSession
<1>5. ASSUME NEW w \in Writers, NEW i \in Items, Edit(w, i) PROVE UNCHANGED Serial!serialVars
  BY <1>5 DEF Edit, Holds, Main
<1>6. ASSUME NEW w \in Writers, NEW i \in Items, OpenSubsession(w, i)
      PROVE UNCHANGED Serial!serialVars
  <2>1. \A v \in Writers : Holds(v)' <=> Holds(v)
    BY <1>6 DEF OpenSubsession, Holds, Main
  <2> QED BY <1>6, <2>1 DEF OpenSubsession
<1>7. ASSUME NEW w \in Writers, NEW i \in Items, CommitItem(w, i) PROVE Serial!Change(w, i)
  <2>1. /\ Holds(w) /\ count[w] \in 1..MaxOps
        /\ shadow[w][i] = store[i] \cup {OpOf(w)}
    BY <1>7 DEF CommitItem, Holds, SessionInv, ShadowInv
  <2>2. Inside = {w}
    BY <2>1, InsideIsOne
  <2>3. \A v \in Writers : Holds(v)' <=> Holds(v)
    BY <1>7 DEF CommitItem, Holds, Main
  <2>4. store' = [store EXCEPT ![i] = @ \cup {<<w, count[w]>>}]
    BY <1>7, <2>1 DEF CommitItem, OpOf
  <2> QED BY <1>7, <2>1, <2>2, <2>3, <2>4 DEF CommitItem, Serial!Change
<1>8. ASSUME NEW w \in Writers, Throw(w) \/ ReturnEphemeral(w) \/ StartCommit(w) \/ CommitThrows(w)
      PROVE UNCHANGED Serial!serialVars
  <2>1. \A v \in Writers : Holds(v)' <=> Holds(v)
    BY <1>8 DEF Throw, ReturnEphemeral, StartCommit, CommitThrows, Holds, Main, SessionInv, ActiveInv
  <2> QED BY <1>8, <2>1 DEF Throw, ReturnEphemeral, StartCommit, CommitThrows
<1>9. ASSUME NEW w \in Writers, CommitEnds(w) PROVE Serial!Acknowledge(w, copied[w])
  <2>1. Holds(w) /\ count[w] \in 1..MaxOps /\ \A i \in copied[w] : OpOf(w) \in store[i]
    BY <1>9 DEF CommitEnds, Holds, SessionInv, ShadowInv
  <2>2. Inside = {w}
    BY <2>1, InsideIsOne
  <2>3. \A v \in Writers : Holds(v)' <=> v = w
    BY <1>0, <1>9, <2>2
    DEF CommitEnds, Close, This, Holds, Main, SessionInv, ActiveInv, Modes
  <2>4. acked' = [i \in Items |-> IF i \in copied[w] THEN acked[i] \cup {<<w, count[w]>>}
                                                   ELSE acked[i]]
    BY <1>9 DEF CommitEnds, OpOf
  <2> QED BY <1>9, <2>1, <2>2, <2>3, <2>4 DEF CommitEnds, OpOf, Serial!Acknowledge
<1>10. ASSUME NEW w \in Writers, Discard(w) PROVE UNCHANGED Serial!serialVars
  <2>1. \A v \in Writers \ {w} : Holds(v)' <=> Holds(v)
    BY <1>0, <1>10 DEF Discard, Close, Holds, Main, This, Modes
  <2>2. Holds(w)' <=> Holds(w)
    BY <1>0, <1>10 DEF Discard, Close, Holds, Main, This, Modes
  <2> QED BY <1>10, <2>1, <2>2 DEF Discard
<1>11. ASSUME NEW w \in Writers, Release(w) PROVE Serial!Leave(w)
  <2>1. Holds(w)
    BY <1>11 DEF Release, Holds
  <2>2. Inside = {w}
    BY <2>1, InsideIsOne
  <2>3. mode[w] = "main" /\ active # Main(w)
    BY <1>11 DEF Release, SessionInv, ActiveInv, Modes
  <2>4. \A v \in Writers : ~Holds(v)'
    BY <1>11, <2>2, <2>3 DEF Release, Holds, Main
  <2> QED BY <1>11, <2>2, <2>4 DEF Release, Serial!Leave
<1>12. ASSUME NEW w \in Writers, Return(w) PROVE UNCHANGED Serial!serialVars
  <2>1. \A v \in Writers : Holds(v)' <=> Holds(v)
    BY <1>12 DEF Return, Holds, Main, Modes
  <2> QED BY <1>12, <2>1 DEF Return
<1>13. CASE UNCHANGED vars
  BY <1>13 DEF vars, Holds, Main
<1> QED
  <2>1. ASSUME NEW w \in Writers, Begin(w) \/ Step(w)
        PROVE  Serial!Next \/ UNCHANGED Serial!serialVars
    <3>1. ASSUME CommitEnds(w) PROVE Serial!Next
      <4>1. copied[w] \in SUBSET Items
        OBVIOUS
      <4> QED BY <1>9, <3>1, <4>1 DEF Serial!Next
    <3> QED
      BY <2>1, <1>1, <1>2, <1>3, <1>4, <1>5, <1>6, <1>7, <1>8, <1>10, <1>11, <1>12, <3>1
      DEF Step, Serial!Next
  <2> QED BY <2>1, <1>13 DEF Next

(* Write sessions (Session.java with DataStore.lock) implement the serial  *)
(* store, for any number of threads, items and requests.                   *)
THEOREM Refinement == Spec => SerialSpec
<1>1. Init => Serial!Init
  BY DEF Init, Serial!Init, Holds, Main
<1>2. TypeOK /\ TypeOK' /\ SessionInv /\ SessionInv' /\ [Next]_vars => [Serial!Next]_(Serial!serialVars)
  BY RefinementStep
<1> QED
  BY <1>1, <1>2, TypeCorrect, SessionInvariant, PTL DEF Spec, SerialSpec, Serial!Spec
===============================================================================
