--------------------------- MODULE Reconciliation ---------------------------
(***************************************************************************)
(* The pure part of Spec-Link's read path: how one endpoint classifies the *)
(* fields of a JSON document, what the Fast Track withholds from the       *)
(* vault's copy, and which signals the Formal Track derives from the       *)
(* snapshot and the authoritative document.                                *)
(*                                                                         *)
(* A JSON object is a function from a set of top-level fields to values.   *)
(* A field name and a value are opaque; all the code looks at is whether   *)
(* two values are equal and whether they have the same dynamic type.       *)
(***************************************************************************)
EXTENDS Integers, FiniteSets

CONSTANTS
  Field,         (* names of top-level JSON fields                          *)
  Value,         (* JSON values a field can hold                            *)
  Null,          (* the JSON value null, Go's nil interface                 *)
  TypeOf,        (* the dynamic type of each value: what %T prints          *)
  FieldConfig,   (* the endpoint's "fields": some fields to a class name    *)
  DefaultClass,  (* the endpoint's "default_class"                          *)
  ThresholdNum,  (* the endpoint's "replace_threshold" is the fraction      *)
  ThresholdDen   (*   ThresholdNum / ThresholdDen                           *)

ClassName == {"SPECULATIVE", "DEFERRED", "INVARIANT", "PROVISIONAL"}

ASSUME FieldAssumption == IsFiniteSet(Field)

ASSUME ValueAssumption ==
  /\ Null \in Value
  /\ \A v \in Value : TypeOf[v] = TypeOf[Null] => v = Null

ASSUME ThresholdAssumption ==
  /\ ThresholdNum \in Nat
  /\ ThresholdDen \in Nat \ {0}

-----------------------------------------------------------------------------
(***************************************************************************)
(* Documents.                                                              *)
(***************************************************************************)

Doc == UNION {[S -> Value] : S \in SUBSET Field}

EmptyDoc == [f \in {} |-> Null]

\* A Go map read: a field that is absent reads as nil.
At(doc, f) == IF f \in DOMAIN doc THEN doc[f] ELSE Null

Merge(doc, more) ==
  [f \in DOMAIN doc \cup DOMAIN more |->
     IF f \in DOMAIN more THEN more[f] ELSE doc[f]]

Project(doc, S) == [f \in DOMAIN doc \cap S |-> doc[f]]

-----------------------------------------------------------------------------
(***************************************************************************)
(* Classification.  The classifier upper-cases the configured class name   *)
(* (left out here) and reads every name it does not know as SPECULATIVE.   *)
(***************************************************************************)

normaliseClass(c) == IF c \in ClassName THEN c ELSE "SPECULATIVE"

ClassOf(f) ==
  IF f \in DOMAIN FieldConfig /\ FieldConfig[f] # ""
    THEN normaliseClass(FieldConfig[f])
    ELSE normaliseClass(DefaultClass)

\* PROVISIONAL belongs to the write path; a read treats it as DEFERRED.
DeferredFields(doc) ==
  {f \in DOMAIN doc : ClassOf(f) \in {"DEFERRED", "PROVISIONAL"}}

InvariantFields(doc) == {f \in DOMAIN doc : ClassOf(f) = "INVARIANT"}

SpeculativeFields(doc) == {f \in DOMAIN doc : ClassOf(f) = "SPECULATIVE"}

-----------------------------------------------------------------------------
(***************************************************************************)
(* The Fast Track's body: the vault's document with null for every         *)
(* deferred field.                                                         *)
(***************************************************************************)

\* Mutant: only DEFERRED is withheld, PROVISIONAL is served from the vault.
PayloadLeaksProvisional(doc) ==
  [f \in DOMAIN doc |-> IF ClassOf(f) = "DEFERRED" THEN Null ELSE doc[f]]

Payload(doc) ==
  [f \in DOMAIN doc |-> IF f \in DeferredFields(doc) THEN Null ELSE doc[f]]

-----------------------------------------------------------------------------
(***************************************************************************)
(* The Formal Track's decisions about a snapshot and a fresh document.     *)
(***************************************************************************)

\* Mutant: only the presence of a field is looked at.
InvariantViolatedIfGone(snap, fresh) ==
  \E f \in InvariantFields(snap) : f \notin DOMAIN fresh

InvariantViolated(snap, fresh) ==
  \E f \in InvariantFields(snap) : snap[f] # At(fresh, f)

TypeChanged(snap, fresh, f) == TypeOf[snap[f]] # TypeOf[At(fresh, f)]

\* Mutant: types are not compared.
structuralChangeByName(snap, fresh) == DOMAIN fresh # DOMAIN snap

structuralChange(snap, fresh) ==
  \/ DOMAIN fresh # DOMAIN snap
  \/ \E f \in DOMAIN snap : TypeChanged(snap, fresh, f)

ChangedSpeculative(snap, fresh) ==
  {f \in SpeculativeFields(snap) : snap[f] # At(fresh, f)}

OverThreshold(snap, fresh) ==
  LET total   == Cardinality(SpeculativeFields(snap))
      changed == Cardinality(ChangedSpeculative(snap, fresh))
  IN  total > 0 /\ changed * ThresholdDen >= ThresholdNum * total

ReplaceDue(snap, fresh) ==
  structuralChange(snap, fresh) \/ OverThreshold(snap, fresh)

PatchOps(snap, fresh) == Project(fresh, ChangedSpeculative(snap, fresh))

DeferredValues(snap, fresh) == Project(fresh, DeferredFields(snap))

-----------------------------------------------------------------------------
(***************************************************************************)
(* Signals, and what a client makes of one.                                *)
(***************************************************************************)

\* "upstream_error" stands for upstream_error, upstream_timeout and
\* upstream_<status>, which the client may retry; "auth_revoked" for auth_revoked
\* and schema_mismatch, which it may not.
FailureReason == {"upstream_error", "auth_revoked"}

AbortReason == FailureReason \cup {"invariant_violation"}

SignalName == {"PATCH", "FILL", "REPLACE", "CONFIRM", "ABORT"}

\* A PATCH carries its ops as data, a FILL its fields, a REPLACE the document; an
\* ABORT carries a reason.
Signal ==
  [signal : SignalName,
   data   : Doc,
   reason : AbortReason \cup {""}]

DataSignal(name, doc) == [signal |-> name, data |-> doc, reason |-> ""]

ConfirmSignal == DataSignal("CONFIRM", EmptyDoc)

\* Mutant: the reason is left out.
AbortWithoutReason(why) == [signal |-> "ABORT", data |-> EmptyDoc]

AbortSignal(why) == [signal |-> "ABORT", data |-> EmptyDoc, reason |-> why]

Retryable(why) == why = "upstream_error"

Apply(view, sig) ==
  CASE sig.signal \in {"PATCH", "FILL"} -> Merge(view, sig.data)
    [] sig.signal = "REPLACE"           -> sig.data
    [] OTHER                            -> view

=============================================================================
