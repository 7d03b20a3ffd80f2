--------------------------- MODULE MCDeviceGrant ----------------------------
(***************************************************************************)
(* The model-checking instance of DeviceGrant: the sets are model values   *)
(* of the configuration.  No symmetry is declared, as liveness is checked. *)
(***************************************************************************)
EXTENDS DeviceGrant
=============================================================================
