------------------------- MODULE MCMicrophoneHolds -------------------------
(* A key of one deck in two contexts and a key of another deck in one; of     *)
(* three microphones two fit at a time; revisions run out after the fourth.  *)
EXTENDS MicrophoneHolds, TLC

CONSTANTS k1, k2, s1, s2, s3, d1, d2, m1, m2, m3

MCControl == {k1, k2}
MCDeckOf == (k1 :> d1) @@ (k2 :> d2)
MCScope == {s1, s2, s3}
MCControlOf == (s1 :> k1) @@ (s2 :> k1) @@ (s3 :> k2)
MCMic == {m1, m2, m3}
MCSymmetry == Permutations({m1, m2, m3})
=============================================================================
