--------------------------- MODULE MCDeviceActor ---------------------------
(* A deck of keys and a touch strip with pictures p and q. *)
EXTENDS DeviceActor

CONSTANTS p, q, dim

MCPicture == {p, q}
=============================================================================
