------------------------- MODULE MCAcquisitionMemory -------------------------
(***************************************************************************)
(* The instances of MCAcquisition, run under AcquisitionMemory.            *)
(***************************************************************************)
EXTENDS MCAcquisition, AcquisitionMemory

=============================================================================
