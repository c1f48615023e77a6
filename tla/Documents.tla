----------------------------- MODULE Documents -----------------------------
(***************************************************************************)
(* JSON documents as Python holds them once decoded.  A value is its type  *)
(* and its content, <<type, content>>: "integer" and "float" are the two   *)
(* number types Python tells apart, and a float's content counts halves,   *)
(* so that some floats are whole and some are not.  Arrays are opaque.     *)
(* The content of a string is a text, itself tagged by how it reads: an    *)
(* integer or a float literal, or a sequence of words, with ("padded") or  *)
(* without ("words") white space around it.  A position in a document is   *)
(* the sequence of member names that leads to it: a JSON pointer.          *)
(***************************************************************************)
EXTENDS Integers, SequencesExt

CONSTANT MaxNest    \* bound: how deep the documents that are compared nest

ASSUME NestAssumption == MaxNest \in Nat \ {0}

Types      == {"null", "boolean", "integer", "float", "string", "object", "array"}
Null       == <<"null", 0>>
Text(t)    == <<"string", t>>
Object(f)  == <<"object", f>>
TypeOf(v)  == v[1]
IsObject(v) == TypeOf(v) = "object"
Members(v) == IF IsObject(v) THEN DOMAIN v[2] ELSE {}
Get(v, m)  == IF m \in Members(v) THEN v[2][m] ELSE Null

-----------------------------------------------------------------------------
(* Texts.                                                                  *)

Words(s) == <<"words", s>>
Blank    == Words(<< >>)
Strip(t) == IF t[1] = "padded" THEN Words(t[2]) ELSE t
IsBlank(t) == Strip(t) = Blank

(* first_word: the first word, or no word of any list when there is none.  *)
FirstWord(t) ==
    IF t[1] \in {"words", "padded"} /\ t[2] # << >> THEN Head(t[2]) ELSE ""

-----------------------------------------------------------------------------
(* Positions, and Python's equality.                                       *)

At(v, p) ==
    LET along[k \in 0..Len(p)] == IF k = 0 THEN v ELSE along[k-1][2][p[k]] IN along[Len(p)]

(* The positions of the root, and below every position of from that keep   *)
(* selects, to the depth given.                                            *)
Below(depth, Children(_)) ==
    LET reached[k \in 0..depth] ==
            IF k = 0 THEN {<< >>}
            ELSE LET above == reached[k-1] IN
                 above \cup UNION {{Append(p, m) : m \in Children(p)} : p \in above}
    IN  reached[depth]

Positions(v) == Below(MaxNest, LAMBDA p : Members(At(v, p)))

(* A document that the bound takes in as a whole.                          *)
Nested(v) == \A p \in Positions(v) : Len(p) = MaxNest => Members(At(v, p)) = {}

(* In Python True == 1 == 1.0: what a number amounts to, in halves.        *)
Halves(v) ==
    CASE TypeOf(v) = "integer" -> 2 * v[2]
      [] TypeOf(v) = "float"   -> v[2]
      [] TypeOf(v) = "boolean" -> IF v[2] THEN 2 ELSE 0
IsNumeric(v) == TypeOf(v) \in {"integer", "float", "boolean"}

Alike(v, w) ==
    \/ IsObject(v) /\ IsObject(w)
    \/ IsNumeric(v) /\ IsNumeric(w) /\ Halves(v) = Halves(w)
    \/ v = w

PyEqual(v, w) ==
    LET positions == Positions(v) IN
    /\ positions = Positions(w)
    /\ \A p \in positions : Alike(At(v, p), At(w, p))
=============================================================================
