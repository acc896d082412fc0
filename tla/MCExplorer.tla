----------------------------- MODULE MCExplorer -----------------------------
(* A small instance of Explorer for TLC.                                   *)
EXTENDS Explorer

B == <<"bws">>
BW == <<"bws", "$writable">>
A == <<"bws", "a">>
AD == <<"bws", "a", "$displayName">>

const_Paths == {B, BW, A, AD}
const_Databases == {(B :> "" @@ BW :> "true" @@ A :> "" @@ AD :> "true")}
=============================================================================
