----------------------------- MODULE Validation -----------------------------
(***************************************************************************)
(* The advisory check of a document against the bundled specification      *)
(* (schema/validation.py).  A finding is [at, kind, member]: the position  *)
(* it points at, and the member it is about.                               *)
(***************************************************************************)
EXTENDS Specification

CONSTANT CheckDepth     \* _MAX_DEPTH of validation.py

ASSUME CheckAssumption == CheckDepth \in Nat

Finding(p, kind, m) == [at |-> p, kind |-> kind, member |-> m]
Certain(f) == f.kind # "unknown_member"

MatchesLoose(v, accepted) ==    \* (mutant) Python's isinstance(True, int)
    \/ accepted = {} \/ TypeOf(v) \in accepted
    \/ TypeOf(v) = "boolean" /\ "integer" \in accepted

(* _matches, and no objection from a node that does not constrain types.   *)
Matches(v, accepted) == accepted = {} \/ TypeOf(v) \in accepted

InEnum(v, enum) == enum # {} /\ TypeOf(v) = "string" => FirstWord(v[2]) \in enum

(* The described members of v that have an acceptable type.                *)
Fitting(props, v) ==
    {m \in Members(v) \cap DOMAIN props : Matches(v[2][m], Accepted[props[m]])}

(* A type the specification does not know: no member name can be judged.   *)
KindUnknown(props, v) ==
    /\ "type" \in DOMAIN props /\ "type" \in Members(v)
    /\ ~ InEnum(v[2]["type"], Spec[props["type"]].enum)

(* What is reported of the object v, stored at path, itself.               *)
FindingsAt(path, v, p) ==
    LET d == Describe(path, v)
        known == DOMAIN d.props
        fitting == Fitting(d.props, v)
    IN  {Finding(p, "missing_required", m) : m \in (known \cap d.required) \ Members(v)}
        \cup (IF known = {} \/ KindUnknown(d.props, v) THEN {}
              ELSE {Finding(Append(p, m), "unknown_member", m) : m \in Members(v) \ known})
        \cup {Finding(Append(p, m), "wrong_type", m) : m \in (Members(v) \cap known) \ fitting}
        \cup {Finding(Append(p, m), "not_in_enum", m) :
                 m \in {n \in fitting : ~ InEnum(v[2][n], Spec[d.props[n]].enum)}}

(* The objects _check visits: a member is descended into when it fits.     *)
Checked(path, v) ==
    Below(CheckDepth, LAMBDA p :
        LET w == At(v, p)  objects == {m \in Members(w) : IsObject(w[2][m])} IN
        IF objects = {} THEN {} ELSE objects \cap Fitting(Describe(path \o p, w).props, w))

Findings(path, v) ==
    IF ~ IsObject(v) THEN {}
    ELSE UNION {FindingsAt(path \o p, At(v, p), p) : p \in Checked(path, v)}
=============================================================================
