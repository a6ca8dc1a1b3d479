----------------------------- MODULE MCStateVault -----------------------------
(***************************************************************************)
(* An instance of StateVault for TLC: any mix of three calls, a time to    *)
(* live of a second and two thirds in ticks of a third, and a clock that   *)
(* lets the keys of one Set expire under another.                          *)
(***************************************************************************)
EXTENDS StateVault, TLC

CONSTANTS c1, c2, c3

MCCall == {c1, c2, c3}

CallSymmetry == Permutations(MCCall)

=============================================================================
