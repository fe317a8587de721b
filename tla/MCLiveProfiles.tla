-------------------------- MODULE MCLiveProfiles --------------------------
(* Two callers that save to one deck. *)
EXTENDS LiveProfiles
CONSTANTS d1, r1, r2
=============================================================================
