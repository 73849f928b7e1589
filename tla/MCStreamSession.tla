-------------------------- MODULE MCStreamSession --------------------------
(* StreamSession for TLC.  Clients are interchangeable: safety runs use it. *)
EXTENDS StreamSession, TLC

ClientSymmetry == Permutations(Clients)

=============================================================================
