-------------------------- MODULE MCStreamRegistry --------------------------
(* Two streams, one with two URLs and one with another.                    *)
EXTENDS StreamRegistry, TLC

CONSTANTS s1, s2, u1, u2, v1

MCUrlsOf == [s \in {s1, s2} |-> IF s = s1 THEN {u1, u2} ELSE {v1}]
MCSymmetry == Permutations(Requests) \cup Permutations({u1, u2})

=============================================================================
