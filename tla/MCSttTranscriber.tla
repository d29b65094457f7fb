-------------------------- MODULE MCSttTranscriber --------------------------
(***************************************************************************)
(* SttTranscriber for TLC: the connections are interchangeable.            *)
(***************************************************************************)
EXTENDS SttTranscriber, TLC

Symmetry == Permutations(Conns)
=============================================================================
