----------------------------- MODULE SerialStore -----------------------------
(***************************************************************************)
(* What write sessions promise to the rest of the server, without saying   *)
(* how: at most one thread is inside the datastore at a time, every change *)
(* is made by the thread that is inside and adds its own operation to what *)
(* is already there, and a thread is told that a change is stored only     *)
(* after it is.  WriteSession implements this (its property SerialSpec).   *)
(***************************************************************************)
EXTENDS Naturals

CONSTANTS Writers,   \* threads that open write sessions
          Items,     \* data items of the store
          MaxOps     \* requests each thread makes

VARIABLES inside,    \* the threads inside a write session
          store,     \* item -> the operations its content reflects
          acked      \* item -> the operations whose commit() returned normally

serialVars == <<inside, store, acked>>

Op == Writers \X (1..MaxOps)

Init ==
    /\ inside = {}
    /\ store = [i \in Items |-> {}]
    /\ acked = [i \in Items |-> {}]

(* A thread comes in only when nobody is inside. *)
Enter(w) ==
    /\ inside = {}
    /\ inside' = {w}
    /\ UNCHANGED <<store, acked>>

(* The thread inside adds one operation of its own to one item and keeps   *)
(* every operation that is already there.                                  *)
Change(w, i) ==
    /\ inside = {w}
    /\ \E n \in 1..MaxOps : store' = [store EXCEPT ![i] = @ \cup {<<w, n>>}]
    /\ UNCHANGED <<inside, acked>>

(* The thread inside learns that one of its operations is stored in S.     *)
Acknowledge(w, S) ==
    /\ inside = {w}
    /\ \E n \in 1..MaxOps :
          /\ \A i \in S : <<w, n>> \in store[i]
          /\ acked' = [i \in Items |-> IF i \in S THEN acked[i] \cup {<<w, n>>} ELSE acked[i]]
    /\ UNCHANGED <<inside, store>>

Leave(w) ==
    /\ inside = {w}
    /\ inside' = {}
    /\ UNCHANGED <<store, acked>>

Next ==
    \E w \in Writers :
        \/ Enter(w)
        \/ \E i \in Items : Change(w, i)
        \/ \E S \in SUBSET Items : Acknowledge(w, S)
        \/ Leave(w)

Spec == Init /\ [][Next]_serialVars
==============================================================================
