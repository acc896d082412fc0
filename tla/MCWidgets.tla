------------------------------ MODULE MCWidgets ------------------------------
(* The clipboard and the instance form of the page, small, for TLC. They   *)
(* share no state, so that it is enough to use one or the other: the state *)
(* graph is the sum of both and not the product.                           *)
EXTENDS Clipboard, InstanceForm

const_TypedNumbers == -1 .. 4

Init == ClipInit /\ FormInit
Next ==
    \/ FormInit /\ ClipNext /\ UNCHANGED formVars
    \/ ClipInit /\ FormNext /\ UNCHANGED clipVars
Spec == Init /\ [][Next]_<<clipVars, formVars>>
==============================================================================
