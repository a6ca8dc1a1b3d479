----------------------------- MODULE MCWriteTrack -----------------------------
(***************************************************************************)
(* Instances of WriteTrack for TLC: four writes, three to one resource and *)
(* one to another.                                                         *)
(***************************************************************************)
EXTENDS WriteTrack

CONSTANTS w1, w2, w3, w4

MCWrite == {w1, w2, w3, w4}

MCTarget == [w \in MCWrite |-> IF w = w4 THEN "account" ELSE "order"]

MCResource == {"order", "account"}

\* Write modes: all exclusive; an independent write that meets two exclusive ones
\* on its resource; two that meet each other.
NoneIndependent == {}
OneIndependent == {w1}
TwoIndependent == {w1, w2}

=============================================================================
