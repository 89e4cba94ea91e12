--------------------------- MODULE MCDeviceRegistry ---------------------------
(***************************************************************************)
(* Bounded instances of DeviceRegistry.                                    *)
(***************************************************************************)
EXTENDS DeviceRegistry

CONSTANTS a, b    \* two devices
=============================================================================
