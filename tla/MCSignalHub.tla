----------------------------- MODULE MCSignalHub -----------------------------
(***************************************************************************)
(* Instances of SignalHub for TLC.  A channel of two slots and three       *)
(* signals make it fill up; two streams meet, three make a reconnect       *)
(* during an overlap.                                                      *)
(***************************************************************************)
EXTENDS SignalHub

CONSTANTS s1, s2, s3

TwoStreams == {s1, s2}
ThreeStreams == {s1, s2, s3}

=============================================================================
