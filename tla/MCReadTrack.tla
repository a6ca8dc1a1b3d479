----------------------------- MODULE MCReadTrack -----------------------------
(***************************************************************************)
(* Instances of ReadTrack for TLC: one endpoint with a field of every      *)
(* class (and one the configuration does not name), and documents that     *)
(* between them make the Formal Track publish every kind of signal.        *)
(***************************************************************************)
EXTENDS ReadTrack, TLC

CONSTANTS
  q1, q2,                          (* requests                              *)
  id, name, team, score, ext,      (* fields                                *)
  null, u1, x, y                   (* values                                *)

MCField == {id, name, team, score, ext}
MCValue == {null, u1, x, y}

\* Strings and null.
MCTypeOf == [v \in MCValue |-> IF v = null THEN "nil" ELSE "string"]

MCFieldConfig ==
  id :> "INVARIANT" @@ name :> "SPECULATIVE" @@ score :> "DEFERRED"
    @@ ext :> "PROVISIONAL"

MakeDoc(i, n, t, s, e) ==
  id :> i @@ name :> n @@ team :> t @@ score :> s @@ ext :> e

Base == MakeDoc(u1, x, x, x, x)

\* Against Base: one or two of two SPECULATIVE fields changed (PATCH, REPLACE
\* by the threshold).  Equal documents make a FILL: the deferred fields are
\* always due.
FullDocs == {Base, MakeDoc(u1, y, x, y, x), MakeDoc(u1, y, y, x, x)}

\* An endpoint whose documents have no deferred field (CONFIRM): one value changed
\* or cleared (a changed type, REPLACE), the INVARIANT cleared (ABORT).
PlainDoc(i, n, t) == id :> i @@ name :> n @@ team :> t

PlainDocs ==
  {PlainDoc(u1, x, x), PlainDoc(u1, y, x), PlainDoc(u1, null, x), PlainDoc(null, x, x)}

MCDocs == FullDocs \cup PlainDocs

OneResource == {"r"}
TwoRequests == {q1, q2}
TwoTargets == [q \in TwoRequests |-> "r"]

=============================================================================
