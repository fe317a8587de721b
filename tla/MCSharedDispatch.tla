-------------------------- MODULE MCSharedDispatch --------------------------
(* Two decks with one context each, which may be fenced and accepted again,  *)
(* a third that stays idle between them and that the round has to pass over, *)
(* and two targets, which no definition tells apart.                         *)
(* MaxPending is below twice PerDevicePending, so that both limits refuse.   *)
EXTENDS SharedDispatch

CONSTANTS a, b, mic, vol

MCScope == {a, b}
MCDeviceOf == [s \in MCScope |-> IF s = a THEN 0 ELSE 2]
MCTarget == {mic, vol}
MCAmount == {-1, 0, 1}
=============================================================================
