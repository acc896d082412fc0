------------------------------ MODULE Container ------------------------------
(***************************************************************************)
(* What a data container (List, Collection, ...) promises to the clients   *)
(* that POST to it, PUT it, PUT or DELETE its members, without shadows,    *)
(* names or dirty flags.  A request asks for some contents to go and for   *)
(* others to come; when it succeeds exactly that has happened and every    *)
(* other member is where it was, and when it fails nothing has.  Shadow    *)
(* implements this (its property ContainerSpec).                           *)
(***************************************************************************)
EXTENDS Naturals, Sequences, SequencesExt, Lists

CONSTANT Values        \* the contents members can have

VARIABLES content,     \* the contents of the members, in order
          promise,     \* what the current request asks for
          answer       \* how the last request ended

containerVars == <<content, promise, answer>>

Nothing == [drops |-> {}, adds |-> {}]

Init == content = <<>> /\ promise = Nothing /\ answer = "none"

(* A request names members that exist and brings contents of its own.      *)
Ask ==
    /\ promise = Nothing
    /\ promise' \in [drops : SUBSET ToSet(content), adds : SUBSET (Values \ ToSet(content))]
    /\ answer' = "none"
    /\ UNCHANGED content

(* The request succeeds.                                                   *)
Keep ==
    /\ ToSet(content') = (ToSet(content) \ promise.drops) \cup promise.adds
    /\ IsInjective(content')
    /\ Where(content', LAMBDA v : v \in ToSet(content))
         = Where(content, LAMBDA v : v \notin promise.drops)
    /\ promise' = Nothing
    /\ answer' = "done"

(* The request fails.                                                      *)
Forget == promise' = Nothing /\ answer' = "failed" /\ UNCHANGED content

Next == Ask \/ Keep \/ Forget

Spec == Init /\ [][Next]_containerVars
==============================================================================
