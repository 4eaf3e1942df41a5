------------------------ MODULE MCAcquisitionLiveness ------------------------
(***************************************************************************)
(* The instances of MCAcquisition, run under AcquisitionLiveness.          *)
(***************************************************************************)
EXTENDS MCAcquisition, AcquisitionLiveness

=============================================================================
