---------------------------- MODULE MCDeckWorker ----------------------------
(* One key that acts on the first page and is a push-to-talk on the second; *)
(* a flick of the strip turns the page.                                     *)
EXTENDS DeckWorker

CONSTANTS only, A, B, k, on

MCAssigned == only :> ((A :> (k :> "act")) @@ (B :> (k :> "ptt")))

MCCommands ==
  {[kind |-> "test", layout |-> only, page |-> A, slot |-> k], [kind |-> "page", page |-> B], [kind |-> "layout", layout |-> only],
   [kind |-> "level", level |-> on]}
=============================================================================
