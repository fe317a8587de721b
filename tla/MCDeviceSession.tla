-------------------------- MODULE MCDeviceSession --------------------------
(* One deck with one key and one picture, and a dial that may turn. *)
EXTENDS DeviceSession

CONSTANTS p, key, dim

MCReport ==
  [kind : Kind, control : {key},
   at : {Nothing}
         \cup [connection : 0..MaxEra, binding : 0..(MaxEra + 1), lockEpoch : 0..MaxEra]]
=============================================================================
