--------------------------- MODULE MCSharedWorker ---------------------------
(* Two threads, two decks and two targets; one adjustment by one joins        *)
(* another, and one reply fits the queue.                                    *)
EXTENDS SharedWorker

CONSTANTS a, b, mic, vol, w1, w2

MCScope == {a, b}
MCDeviceOf == [s \in MCScope |-> IF s = a THEN 0 ELSE 1]
MCTarget == {mic, vol}
MCAmount == {0, 1}
MCWorker == {w1, w2}
=============================================================================
