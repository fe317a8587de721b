--------------------------- MODULE DeviceSession ---------------------------
(***************************************************************************)
(* One deck's session of the device manager                                *)
(* (crates/decksmith-device/src/manager.rs) on top of its I/O owner: the   *)
(* fences that separate pages, locks and connections, the drain that must  *)
(* follow each, and the edges that may pass.                               *)
(*                                                                         *)
(* The manager is one thread: a call runs to its end before the next, but  *)
(* the I/O owner moves between any two of its looks at the mailbox, which  *)
(* matters in poll_round alone.  Pages are not told apart: what matters of *)
(* a page change is the new binding.  Locked and suspended are one flag.   *)
(* Checked counters do not run out within the bounds.                      *)
(***************************************************************************)
EXTENDS DeviceActor

CONSTANTS
  Control,     \* controls of the deck
  Kind,        \* kinds of input the user and the deck produce
  Saved,       \* whether the session may start with a saved layout
  Chosen,      \* the levels among Level a client may ask for later
  DrainBudget, \* DRAIN_BUDGET, reads in one turn of a draining session
  MaxEra,      \* bound: fences explored
  Stamped      \* history: whether reports carry the context they happened in

ASSUME SessionAssumption ==
  /\ DrainBudget \in Nat \ {0} /\ MaxEra \in Nat /\ Stamped \in BOOLEAN
  /\ Chosen \subseteq Level /\ Saved \subseteq BOOLEAN
  /\ Kind \subseteq {"down", "up", "turn", "invalid"}
  /\ Nothing \notin [connection : Nat, binding : Nat, lockEpoch : Nat]

\* The reports that may arrive are those of a user of this deck.
ASSUME ReportAssumption ==
  /\ \A report \in Report : report.kind \in Kind /\ report.control \in Control
  /\ IF Stamped
       THEN [kind : Kind, control : Control,
             at : [connection : 0..MaxEra, binding : 0..(MaxEra + 1), lockEpoch : 0..MaxEra]]
              \subseteq Report
       ELSE [kind : Kind, control : Control, at : {Nothing}] \subseteq Report

VARIABLES
  sess,    \* the fields of Session, and the manager's gate
  mgr,     \* where poll_round is, and its locals
  era,     \* history: fences so far
  out,     \* history: what the last step delivered, or Nothing
  pressed, \* history: the context the last unreleased down was delivered in
  painted  \* history: the context of the last complete frame

sessionVars == <<vars, sess, mgr, era, out, pressed, painted>>
history == <<out, pressed, painted>>

Poller == [pc |-> "idle", left |-> 0, event |-> Nothing, drained |-> FALSE]

Context == [connection |-> sess.connection, binding |-> sess.binding,
            lockEpoch |-> sess.lockEpoch]

\* Known to the registry (DeviceManager::new), or enrolled with a layout.
SessionInit ==
  /\ mail = Mailbox /\ io = [Thread EXCEPT !.pc = "ended"]
  /\ alive = FALSE /\ epoch = 1 /\ drained = 0 /\ asked = {}
  /\ unit = [shown |-> Dark, level |-> Nothing, reports |-> <<>>]
  /\ \E level \in Level, saved \in Saved :
       sess = [device |-> "none", connection |-> 0, binding |-> IF saved THEN 1 ELSE 0,
               lockEpoch |-> 0, layout |-> saved, blocked |-> FALSE, draining |-> TRUE,
               held |-> {}, armed |-> {}, brightness |-> level]
  /\ mgr = Poller /\ era = 0
  /\ out = Nothing /\ painted = Nothing /\ pressed = [c \in Control |-> Nothing]

-----------------------------------------------------------------------------
(* Deliberately faulty variants of definitions below; nothing refers to them. *)

AcceptRearming(s, event, blocked) ==
  CASE event.kind = "down" ->
         [held |-> s.held \cup {event.control},
          armed |-> IF blocked THEN s.armed ELSE s.armed \cup {event.control},
          deliver |-> ~blocked]
    [] event.kind = "up" ->
         [held |-> s.held \ {event.control}, armed |-> s.armed \ {event.control},
          deliver |-> event.control \in s.armed /\ ~blocked]
    [] OTHER -> [held |-> s.held, armed |-> s.armed, deliver |-> ~blocked]

DrainingForever(s, acknowledged) == s.draining

HiddenNever(event) == FALSE

-----------------------------------------------------------------------------
(* The manager's calls *)

Attached == sess.device = "attached"

\* Session::fence: nothing that is armed or queued survives it.
NewlyFenced(s) == [s EXCEPT !.armed = {}, !.draining = TRUE]

FenceDevice == IF Attached THEN InvalidateOutputs ELSE UNCHANGED vars

\* Session::failed: dropping the device shuts its owner down.
Lost(s) == [NewlyFenced(s) EXCEPT !.device = "none", !.held = {}]

Calling == mgr.pc = "idle" /\ era < MaxEra
NewEra == era' = era + 1 /\ UNCHANGED mgr /\ out' = Nothing /\ UNCHANGED <<pressed, painted>>
SameEra == UNCHANGED <<mgr, era, pressed>> /\ out' = Nothing

FailSession == Shutdown /\ sess' = Lost(sess) /\ era' = era + 1

\* Pool::spawn around a newly opened unit, once the last owner was reaped.
Spawn ==
  /\ Calling /\ sess.device = "none" /\ At("ended")
  /\ mail' = Mailbox /\ io' = Thread /\ alive' = TRUE /\ epoch' = 1 /\ drained' = 0
  /\ unit' = [unit EXCEPT !.reports = <<>>] /\ asked' = {}
  /\ sess' = [sess EXCEPT !.device = "opened"]
  /\ SameEra /\ UNCHANGED painted

\* attach: the session is fenced before it owns the device, and hands it the
\* saved brightness.
Attach ==
  /\ Calling /\ sess.device = "opened"
  /\ LET attaching == [NewlyFenced(sess) EXCEPT !.connection = @ + 1, !.held = {}]
     IN \/ /\ SetBrightness(sess.brightness)
           /\ sess' = [attaching EXCEPT !.device = "attached"]
        \/ /\ ~Usable /\ Shutdown /\ sess' = Lost(attaching)
  /\ NewEra

\* attach refused before it starts (stale discovery, unassigned, wrong model).
AttachRefused ==
  /\ Calling /\ sess.device = "opened"
  /\ Shutdown /\ sess' = [sess EXCEPT !.device = "none"]
  /\ SameEra /\ UNCHANGED painted

\* disconnect, and reconcile when the unit is gone from the discovery.
Disconnect ==
  /\ Calling /\ Attached
  /\ FailSession /\ UNCHANGED <<mgr, pressed, painted>> /\ out' = Nothing

NewBinding(s) == [NewlyFenced(s) EXCEPT !.binding = @ + 1]

\* configure
Configure ==
  /\ Calling /\ ~sess.blocked
  /\ FenceDevice /\ sess' = [NewBinding(sess) EXCEPT !.layout = TRUE]
  /\ NewEra

\* page, to another page of the layout
Page ==
  /\ Calling /\ ~sess.blocked /\ sess.layout
  /\ FenceDevice /\ sess' = NewBinding(sess)
  /\ NewEra

InvalidateBinding ==
  /\ Calling
  /\ FenceDevice /\ sess' = NewBinding(sess)
  /\ NewEra

\* gate and fence_gate: locking, unlocking, suspending, or a cycle nobody saw.
FenceGate(blocked) ==
  /\ Calling
  /\ FenceDevice
  /\ sess' = [NewlyFenced(sess) EXCEPT !.blocked = blocked, !.lockEpoch = @ + 1]
  /\ NewEra

\* stop: blank every owner; sessions stay fenced until attached again.
StopAll ==
  /\ Calling
  /\ IF Attached THEN Shutdown ELSE UNCHANGED vars
  /\ sess' = IF Attached THEN Lost(sess) ELSE [NewlyFenced(sess) EXCEPT !.held = {}]
  /\ NewEra

\* A call on the attached device that closes it when refused.
OnDevice(operation) ==
  \/ operation /\ UNCHANGED era
  \/ ~Usable /\ Shutdown /\ era' = era + 1

Brightness(level) ==
  /\ Calling /\ ~sess.blocked
  /\ LET saved == [sess EXCEPT !.brightness = level]
     IN IF Attached
        THEN /\ OnDevice(SetBrightness(level))
             /\ sess' = IF Usable THEN saved ELSE Lost(saved)
        ELSE UNCHANGED <<vars, era>> /\ sess' = saved
  /\ out' = Nothing /\ UNCHANGED <<mgr, pressed, painted>>

\* context(): there are action contexts only in a drained, unlocked session.
HasContext == ~sess.blocked /\ Attached /\ sess.layout /\ ~sess.draining

\* paint and write_key, by a holder of the current context
Paint(frame) ==
  /\ Calling /\ HasContext
  /\ OnDevice(QueueFrame(frame))
  /\ sess' = IF Usable THEN sess ELSE Lost(sess)
  /\ painted' = IF Usable THEN Context ELSE painted
  /\ out' = Nothing /\ UNCHANGED <<mgr, pressed>>

WriteKey(k, picture) ==
  /\ Calling /\ HasContext
  /\ OnDevice(SetKeyImage(k, picture))
  /\ sess' = IF Usable THEN sess ELSE Lost(sess)
  /\ out' = Nothing /\ UNCHANGED <<mgr, pressed, painted>>

\* paint_gated, the lock screen
PaintGated(frame) ==
  /\ mgr.pc = "idle" /\ sess.blocked /\ Attached
  /\ OnDevice(QueueFrame(frame))
  /\ sess' = IF Usable THEN sess ELSE Lost(sess)
  /\ painted' = IF Usable THEN Context ELSE painted
  /\ out' = Nothing /\ UNCHANGED <<mgr, pressed>>

-----------------------------------------------------------------------------
(* poll_round, one session *)

\* poll_event_nonblocking
Pop ==
  /\ mgr.pc \in {"idle", "more"} /\ Attached
  /\ \/ /\ TakeInput
        /\ LET turns == IF mgr.pc = "more" THEN mgr.left
                        ELSE IF sess.draining THEN DrainBudget ELSE 1
           IN mgr' = [pc |-> "look", left |-> turns - 1, drained |-> FALSE,
                      event |-> IF mail.input = <<>> THEN Nothing ELSE Head(mail.input)]
        /\ UNCHANGED <<sess, era>>
     \/ ~Usable /\ FailSession /\ mgr' = Poller
  /\ out' = Nothing /\ UNCHANGED <<pressed, painted>>

\* input_drained
Look ==
  /\ mgr.pc = "look"
  /\ mgr' = [mgr EXCEPT !.pc = "judge", !.drained = InputDrained]
  /\ out' = Nothing /\ UNCHANGED <<vars, sess, era, pressed, painted>>

\* Session::accept
Accept(s, event, blocked) ==
  CASE event.kind = "down" ->
         [held |-> s.held \cup {event.control},
          armed |-> IF event.control \in s.held \/ blocked THEN s.armed
                    ELSE s.armed \cup {event.control},
          deliver |-> event.control \notin s.held /\ ~blocked]
    [] event.kind = "up" ->
         [held |-> s.held \ {event.control}, armed |-> s.armed \ {event.control},
          deliver |-> event.control \in s.armed /\ ~blocked]
    [] OTHER -> [held |-> s.held, armed |-> s.armed, deliver |-> ~blocked]

\* A down cannot arm while the page is not completely drawn.
Hidden(event) == event.kind = "down" /\ ~Ready

\* An empty read ends the drain only if the owner acknowledged the generation.
StillDraining(s, acknowledged) == s.draining /\ ~acknowledged

JudgeNothing ==
  /\ mgr.pc = "judge" /\ mgr.event = Nothing
  /\ sess' = [sess EXCEPT !.draining = StillDraining(sess, mgr.drained)]
  /\ mgr' = Poller
  /\ out' = Nothing /\ UNCHANGED <<vars, era, pressed, painted>>

\* display_ready, accept and the context the input goes out with
JudgeEvent ==
  /\ mgr.pc = "judge" /\ mgr.event # Nothing /\ mgr.event.kind # "invalid"
  /\ LET blocked == sess.blocked \/ ~sess.layout \/ sess.draining \/ Hidden(mgr.event)
         verdict == Accept(sess, mgr.event, blocked)
         c == mgr.event.control
     IN /\ sess' = [sess EXCEPT !.held = verdict.held, !.armed = verdict.armed]
        /\ out' = IF verdict.deliver THEN [event |-> mgr.event, context |-> Context] ELSE Nothing
        /\ pressed' = IF ~verdict.deliver \/ mgr.event.kind = "turn" THEN pressed
                      ELSE [pressed EXCEPT ![c] = IF mgr.event.kind = "down" THEN Context
                                                  ELSE Nothing]
        /\ mgr' = IF verdict.deliver \/ mgr.left = 0 THEN Poller
                  ELSE [Poller EXCEPT !.pc = "more", !.left = mgr.left]
  /\ UNCHANGED <<vars, era, painted>>

\* valid_input refuses it: a report of another model, or a clock running backwards
JudgeInvalid ==
  /\ mgr.pc = "judge" /\ mgr.event # Nothing /\ mgr.event.kind = "invalid"
  /\ FailSession /\ mgr' = Poller
  /\ out' = Nothing /\ UNCHANGED <<pressed, painted>>

Poll == Pop \/ Look \/ JudgeNothing \/ JudgeEvent \/ JudgeInvalid

-----------------------------------------------------------------------------

Call ==
  \/ Spawn \/ Attach \/ AttachRefused \/ Disconnect
  \/ Configure \/ Page \/ InvalidateBinding \/ StopAll
  \/ \E blocked \in BOOLEAN : FenceGate(blocked)
  \/ \E level \in Chosen : Brightness(level)
  \/ \E frame \in Frame : Paint(frame) \/ PaintGated(frame)
  \/ \E k \in Keys, picture \in Picture : WriteKey(k, picture)

OwnerStep == Turn /\ out' = Nothing /\ UNCHANGED <<sess, mgr, era, pressed, painted>>

UserActs ==
  /\ ~At("ended")
  /\ \E kind \in Kind, c \in Control :
       Arrive([kind |-> kind, control |-> c, at |-> IF Stamped THEN Context ELSE Nothing])
  /\ out' = Nothing /\ UNCHANGED <<sess, mgr, era, pressed, painted>>

SessionNext == Call \/ Poll \/ OwnerStep \/ UserActs

SessionSpec == SessionInit /\ [][SessionNext]_sessionVars

\* The supervisor's loop keeps polling, and the I/O thread keeps running.
SessionFairSpec ==
  SessionSpec /\ WF_sessionVars(Poll) /\ WF_sessionVars(OwnerStep)

-----------------------------------------------------------------------------
(* Properties *)

SessionTypeOK ==
  /\ TypeOK
  /\ sess \in [device : {"none", "opened", "attached"}, connection : Nat, binding : Nat,
               lockEpoch : Nat, layout : BOOLEAN, blocked : BOOLEAN, draining : BOOLEAN,
               held : SUBSET Control, armed : SUBSET Control, brightness : Level]
  /\ sess.armed \subseteq sess.held
  /\ mgr \in [pc : {"idle", "look", "judge", "more"}, left : 0..DrainBudget,
              event : Report \cup {Nothing}, drained : BOOLEAN]
  /\ era \in 0..(MaxEra + 1)

\* A control goes down and up in turns within one context, and a release
\* that is delivered belongs to a press delivered in that very context: a
\* control held across a fence must be released and pressed again.
EdgesPaired ==
  [][out' # Nothing =>
       LET c == out'.event.control
       IN /\ out'.event.kind = "up" => pressed[c] = out'.context
          /\ out'.event.kind = "down" => pressed[c] # out'.context]_sessionVars

\* A down is delivered only while the deck shows, on every key, the page
\* painted in the very context the down is delivered with.
DownOnOwnPage ==
  out # Nothing /\ out.event.kind = "down" =>
    /\ painted = out.context
    /\ alive => \A k \in Keys : unit.shown[k] = mail.desired[k]

\* With the manager polling and the user and the host quiet, a fence's drain
\* ends: an empty read acknowledges it, or the owner is found dead.
DrainEnds ==
  (<>[][Poll \/ OwnerStep]_sessionVars) =>
    [](Attached /\ sess.draining => <>(~Attached \/ ~sess.draining))

\* Rotations that happened before a fence of the same connection do not
\* become fresh actions after it (docs/device-sessions.md).
QueuedTurnsDropped ==
  out # Nothing /\ out.event.kind = "turn" /\ Stamped
  /\ out.event.at.connection = out.context.connection
    => out.event.at = out.context

=============================================================================
