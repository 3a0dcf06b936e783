--------------------------- MODULE MCSctpStreams ---------------------------
(***************************************************************************)
(* SctpStreams for TLC.  Nothing tells two streams or the two ends apart.  *)
(***************************************************************************)
EXTENDS SctpStreamsProperties, TLC

Symmetry == Permutations(Endpoints) \cup Permutations(Sids)

=============================================================================
