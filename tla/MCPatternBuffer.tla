-------------------------- MODULE MCPatternBuffer --------------------------
(* PatternBuffer with two sets and one plain append, for TLC.              *)
EXTENDS PatternBuffer

CONSTANTS s1, s2, a1

MCCalls == {s1, s2, a1}
MCSets == {s1, s2}

=============================================================================
