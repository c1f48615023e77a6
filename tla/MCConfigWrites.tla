--------------------------- MODULE MCConfigWrites ---------------------------
(* Small instances of ConfigWrites for TLC.                                *)
EXTENDS ConfigWrites, TLC

CONSTANTS op1, op2, member, other, x

MCOperators == {op1, op2}
Symmetry    == Permutations(MCOperators)

\* One member the guided form manages and one it preserves; the object that
\* holds both is the configuration, and one of them can be edited by itself.
MCLeaves  == {member, other}
MCTargets == {{other}, MCLeaves}
MCGuided  == {MCLeaves}
MCFields  == {member}
MCValues  == {x}
MCNothing == {}
MCStart   == {[l \in MCLeaves |-> x]}
=============================================================================
