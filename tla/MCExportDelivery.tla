--------------------------- MODULE MCExportDelivery ---------------------------
(* Model values of ExportDelivery for TLC. *)
EXTENDS ExportDelivery, TLC

Symmetry == Permutations(Calls) \cup Permutations(Digests)
=============================================================================
