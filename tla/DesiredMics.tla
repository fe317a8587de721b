---------------------------- MODULE DesiredMics ----------------------------
(***************************************************************************)
(* What a guardian may rely on when it follows the microphone coordinator: *)
(* the desired state of every target, without the holds, presses, clocks   *)
(* and revisions it follows from.  MicrophoneHolds implements it, and      *)
(* MicrophoneGuardian only asks for the steps it allows.                   *)
(***************************************************************************)

CONSTANT Mic

VARIABLES
  desired,  \* "none", "Muted" or "Live"; "none" is a target nobody knows
  stopped   \* no target is desired Live again

Init ==
  /\ desired = [m \in Mic |-> "none"]
  /\ stopped = FALSE

\* A target that was desired Live is forgotten only after a mute of it was
\* wanted, and seen: it passes through Muted.
MayBecome(from, to) ==
  to = from \/ to \in {"Live", "Muted"} \/ (from = "Muted" /\ to = "none")

\* One call may close several targets and open one.
Change ==
  \E next \in [Mic -> {"none", "Muted", "Live"}] :
    /\ desired' = next
    /\ \A m \in Mic : MayBecome(desired[m], next[m])

Next ==
  /\ Change
  /\ stopped' \in BOOLEAN
  /\ stopped => stopped'
  /\ stopped' => \A m \in Mic : desired'[m] # "Live"

Spec == Init /\ [][Next]_<<desired, stopped>>

=============================================================================
