------------------------------ MODULE MCIngest ------------------------------
(***************************************************************************)
(* Small instances of Ingest over the sources of MCCorroboration.          *)
(***************************************************************************)
EXTENDS Ingest, MCCorroboration

(* JobsAreGreen is checked where Ingest_proofs!JobsStayGreen proves it.    *)
ASSUME UnmixedAssumption == Unmixed

=============================================================================
