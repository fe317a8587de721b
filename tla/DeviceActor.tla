---------------------------- MODULE DeviceActor ----------------------------
(***************************************************************************)
(* The sole I/O owner of one connected deck                                *)
(* (crates/decksmith-device/src/actor.rs): a mailbox of desired pictures   *)
(* and received input under a mutex, the host's calls on it, and the       *)
(* thread that alternates one input probe with at most one output.         *)
(*                                                                         *)
(* A label of io.pc stands for one acquisition of the mutex, one group of  *)
(* atomics read together, or one call of the adapter; between two labels   *)
(* the host may do anything.  The wait that ends an idle turn is bounded   *)
(* (wait_timeout), so the thread merely goes back to "top".  A panic in    *)
(* the thread takes the path of an error.                                  *)
(*                                                                         *)
(* `unit` is the deck itself, behind the adapter, modelled from how run()  *)
(* calls it: what it shows and the reports it holds for the next probe.    *)
(***************************************************************************)
EXTENDS Integers, Sequences, FiniteSets

CONSTANTS
  KeyCount, HasTouch,    \* the surfaces of the model of deck
  Picture, Level,        \* images and brightness levels the host may ask for
  Report,                \* input events
  InputLimit,            \* INPUT_LIMIT, the capacity of the mailbox
  MaxReports,            \* bound: reports the unit holds back
  MaxRevision, MaxEpoch, \* bounds: frames and generations explored
  Nothing, Light         \* Option::None, and usize::MAX, the slot of brightness

ASSUME SurfaceAssumption == KeyCount \in Nat \ {0} /\ HasTouch \in BOOLEAN
ASSUME LimitAssumption ==
  /\ InputLimit \in Nat \ {0} /\ MaxReports \in Nat
  /\ MaxRevision \in Nat /\ MaxEpoch \in Nat \ {0}
ASSUME NothingAssumption ==
  Nothing \notin Picture \cup Level \cup Report \cup Nat \cup {Light} /\ Light \notin Nat

VARIABLES
  mail,    \* State, what the mutex protects
  alive,   \* atomic: the owner still works
  epoch,   \* atomic: the output generation, advanced by every fence
  drained, \* atomic: the last generation an empty probe acknowledged
  io,      \* the thread: where it is and its locals
  unit,    \* the deck
  asked    \* history: pictures the strip may show (see ReadyIsCurrent)

vars == <<mail, alive, epoch, drained, io, unit, asked>>

Keys == 0..(KeyCount - 1)
Touch == KeyCount
Slots == IF HasTouch THEN Keys \cup {Touch} ELSE Keys
Dark == [s \in Slots |-> Nothing]
Frame == [Slots -> Picture]
Output == [slot : Slots, value : Picture] \cup [slot : {Light}, value : Level]

Mailbox == [
  desired |-> Dark, sent |-> Dark, pending |-> [s \in Slots |-> FALSE],
  brightness |-> Nothing, input |-> <<>>, stop |-> FALSE, error |-> FALSE,
  full |-> FALSE, writing |-> Nothing, revision |-> 0, guarded |-> FALSE,
  cursor |-> 0]

Thread == [pc |-> "top", epoch |-> 0, revision |-> 0, event |-> Nothing, output |-> Nothing]

\* What Pool::spawn sets up, around a unit that is dark.
Spawned ==
  /\ mail = Mailbox /\ io = Thread
  /\ alive = TRUE /\ epoch = 1 /\ drained = 0
  /\ asked = {}

Init == Spawned /\ unit = [shown |-> Dark, level |-> Nothing, reports |-> <<>>]

-----------------------------------------------------------------------------
(* Deliberately faulty variants of definitions below; nothing refers to them. *)

UnwrittenIgnoringFlight(frame) ==
  [s \in Slots |-> frame[s] # mail.sent[s]]

CreditedAsDesired(m, current) ==
  IF ~current \/ io.output.slot = Light
  THEN [m EXCEPT !.writing = Nothing, !.sent = IF current THEN @ ELSE Dark]
  ELSE [m EXCEPT !.writing = Nothing, !.pending[io.output.slot] = FALSE,
                 !.sent[io.output.slot] = m.desired[io.output.slot],
                 !.guarded = @ /\ io.output.slot # Touch]

CreditedForgettingPending(m, current) ==
  IF ~current \/ io.output.slot = Light
  THEN [m EXCEPT !.writing = Nothing, !.sent = IF current THEN @ ELSE Dark]
  ELSE [m EXCEPT !.writing = Nothing, !.sent[io.output.slot] = io.output.value,
                 !.guarded = @ /\ io.output.slot # Touch]

-----------------------------------------------------------------------------
(* Operations of the host *)

\* Device::state refuses every operation of a failed or stopped owner.
Usable == ~mail.error /\ ~mail.stop

\* Lease::ready: the page asked for is on the keys.
Ready ==
  /\ alive /\ mail.full /\ mail.brightness = Nothing
  /\ mail.writing \notin Keys \cup {Light}
  /\ ~mail.guarded
  /\ \A s \in Slots : ~mail.pending[s]
  /\ \A k \in Keys : mail.desired[k] = mail.sent[k]

InputDrained == drained = epoch

SetKeyImage(k, picture) ==
  /\ Usable
  /\ mail' = [mail EXCEPT !.desired[k] = picture]
  /\ UNCHANGED <<alive, epoch, drained, io, unit, asked>>

SetTouchImage(picture) ==
  /\ HasTouch /\ Usable
  /\ mail' = [mail EXCEPT !.desired[Touch] = picture,
                          !.guarded = picture # mail.sent[Touch] \/ mail.writing = Touch]
  /\ asked' = {picture}
  /\ UNCHANGED <<alive, epoch, drained, io, unit>>

SetMeterImage(picture) ==
  /\ HasTouch /\ Usable
  /\ mail' = [mail EXCEPT !.desired[Touch] = picture]
  /\ asked' = asked \cup {picture}
  /\ UNCHANGED <<alive, epoch, drained, io, unit>>

\* Surfaces that must be written before a new frame counts as shown; one
\* being written right now may still come out with the old picture.
Unwritten(frame) ==
  [s \in Slots |-> frame[s] # mail.sent[s] \/ mail.writing = s]

QueueFrame(frame) ==
  /\ Usable /\ mail.revision < MaxRevision
  /\ mail' = [mail EXCEPT !.revision = @ + 1, !.pending = Unwritten(frame),
                          !.desired = frame, !.guarded = FALSE, !.full = TRUE]
  /\ asked' = IF HasTouch THEN {frame[Touch]} ELSE {}
  /\ UNCHANGED <<alive, epoch, drained, io, unit>>

SetBrightness(level) ==
  /\ Usable
  /\ mail' = [mail EXCEPT !.brightness = level]
  /\ UNCHANGED <<alive, epoch, drained, io, unit, asked>>

\* poll_event_nonblocking of the host's side: the oldest received event.
TakeInput ==
  /\ Usable
  /\ mail' = [mail EXCEPT !.input = IF @ = <<>> THEN @ ELSE Tail(@)]
  /\ UNCHANGED <<alive, epoch, drained, io, unit, asked>>

\* invalidate_outputs, the fence: received input stays for the host to drain.
Fenced(m) ==
  [m EXCEPT !.desired = Dark, !.sent = Dark, !.full = FALSE, !.guarded = FALSE,
            !.pending = [s \in Slots |-> FALSE]]

InvalidateOutputs ==
  /\ epoch < MaxEpoch
  /\ epoch' = epoch + 1 /\ mail' = Fenced(mail)
  /\ asked' = {}
  /\ UNCHANGED <<alive, drained, io, unit>>

\* Device::shutdown, by blank() and by dropping the device.
Shutdown ==
  /\ epoch' = epoch + 1 /\ alive' = FALSE
  /\ mail' = [mail EXCEPT !.stop = TRUE, !.input = <<>>, !.desired = Dark]
  /\ UNCHANGED <<drained, io, unit, asked>>

\* Pool::stop, for every owner, before joining them.
PoolStop ==
  /\ epoch' = epoch + 1 /\ alive' = FALSE
  /\ mail' = [mail EXCEPT !.stop = TRUE]
  /\ UNCHANGED <<drained, io, unit, asked>>

-----------------------------------------------------------------------------
(* The I/O thread *)

At(label) == io.pc = label
Goto(label) == io' = [io EXCEPT !.pc = label]
Again == io' = Thread

Top ==
  /\ At("top")
  /\ io' = IF mail.stop THEN [io EXCEPT !.pc = "blank"]
           ELSE [io EXCEPT !.pc = "probe", !.epoch = epoch]
  /\ UNCHANGED <<mail, alive, epoch, drained, unit, asked>>

\* One nonblocking read of the adapter.
Probe ==
  /\ At("probe")
  /\ \/ /\ unit.reports # <<>>
        /\ io' = [io EXCEPT !.pc = "deposit", !.event = Head(unit.reports)]
        /\ unit' = [unit EXCEPT !.reports = Tail(@)]
     \/ /\ unit.reports = <<>> /\ Goto("deposit") /\ UNCHANGED unit
     \/ Goto("fail") /\ UNCHANGED unit
  /\ UNCHANGED <<mail, alive, epoch, drained, asked>>

Full(m) == Len(m.input) = InputLimit

Deposit ==
  /\ At("deposit")
  /\ \/ mail.stop /\ Goto("blank") /\ UNCHANGED <<mail, drained>>
     \/ /\ ~mail.stop /\ io.event # Nothing /\ Full(mail)
        /\ Goto("fail") /\ UNCHANGED <<mail, drained>>
     \/ /\ ~mail.stop /\ io.event # Nothing /\ ~Full(mail)
        /\ mail' = [mail EXCEPT !.input = Append(@, io.event)]
        /\ Goto("select") /\ UNCHANGED drained
     \/ /\ ~mail.stop /\ io.event = Nothing
        /\ drained' = IF epoch = io.epoch THEN epoch ELSE drained
        /\ Goto("select") /\ UNCHANGED mail
  /\ UNCHANGED <<alive, epoch, unit, asked>>

\* The surfaces that differ from what was sent or belong to an unfinished frame.
Stale(m) ==
  {s \in Slots : m.desired[s] # Nothing /\ (m.desired[s] # m.sent[s] \/ m.pending[s])}

\* The first of them from the cursor on.
NextSlot(m) ==
  LET distance(s) == (s + Cardinality(Slots) - m.cursor) % Cardinality(Slots)
  IN CHOOSE s \in Stale(m) : \A t \in Stale(m) : distance(s) <= distance(t)

\* Brightness goes before pictures; what is selected is taken with the
\* generation and the frame it belongs to.
Select ==
  /\ At("select")
  /\ \/ mail.stop /\ Goto("blank") /\ UNCHANGED mail
     \/ /\ ~mail.stop /\ mail.brightness # Nothing
        /\ mail' = [mail EXCEPT !.brightness = Nothing, !.writing = Light]
        /\ io' = [Thread EXCEPT !.pc = "issue", !.epoch = epoch, !.revision = mail.revision,
                    !.output = [slot |-> Light, value |-> mail.brightness]]
     \/ /\ ~mail.stop /\ mail.brightness = Nothing /\ Stale(mail) # {}
        /\ LET s == NextSlot(mail)
           IN /\ mail' = [mail EXCEPT !.cursor = (s + 1) % Cardinality(Slots), !.writing = s]
              /\ io' = [Thread EXCEPT !.pc = "issue", !.epoch = epoch,
                          !.revision = mail.revision,
                          !.output = [slot |-> s, value |-> mail.desired[s]]]
     \/ /\ ~mail.stop /\ mail.brightness = Nothing /\ Stale(mail) = {}
        /\ mail' = [mail EXCEPT !.writing = Nothing]
        /\ Again
  /\ UNCHANGED <<alive, epoch, drained, unit, asked>>

\* A fence cancels what was selected, but no longer what was issued.
Issue ==
  /\ At("issue")
  /\ Goto(IF epoch = io.epoch /\ alive THEN "write" ELSE "skip")
  /\ UNCHANGED <<mail, alive, epoch, drained, unit, asked>>

Write ==
  /\ At("write")
  /\ \/ /\ unit' = IF io.output.slot = Light THEN [unit EXCEPT !.level = io.output.value]
                   ELSE [unit EXCEPT !.shown[io.output.slot] = io.output.value]
        /\ Goto("credit")
     \/ Goto("fail") /\ UNCHANGED unit
  /\ UNCHANGED <<mail, alive, epoch, drained, asked>>

\* What a finished write means to a mailbox still in its generation or not.
Credited(m, current) ==
  LET s == io.output.slot
      done == [m EXCEPT !.writing = Nothing]
  IN IF ~current THEN [done EXCEPT !.sent = Dark]
     ELSE IF s = Light THEN done
     ELSE [done EXCEPT
             !.sent[s] = io.output.value,
             !.pending[s] = @ /\ io.revision # m.revision,
             !.guarded = @ /\ ~(s = Touch /\ m.desired[s] = io.output.value)]

Credit ==
  /\ At("credit")
  /\ mail' = Credited(mail, epoch = io.epoch)
  /\ Again
  /\ UNCHANGED <<alive, epoch, drained, unit, asked>>

Skip ==
  /\ At("skip")
  /\ mail' = [mail EXCEPT !.writing = Nothing]
  /\ Again
  /\ UNCHANGED <<alive, epoch, drained, unit, asked>>

Failed(m) == [m EXCEPT !.error = TRUE, !.stop = TRUE, !.input = <<>>]

Fail ==
  /\ At("fail")
  /\ epoch' = epoch + 1 /\ alive' = FALSE
  /\ mail' = Failed(mail)
  /\ Goto("blank")
  /\ UNCHANGED <<drained, unit, asked>>

\* After its last write the owner blanks every surface, and fails if it cannot.
Blank ==
  /\ At("blank")
  /\ \/ /\ unit' = [unit EXCEPT !.shown = Dark] /\ UNCHANGED <<mail, epoch>>
     \/ /\ \E lit \in SUBSET Slots :
             unit' = [unit EXCEPT !.shown = [s \in Slots |-> IF s \in lit THEN @[s] ELSE Nothing]]
        /\ epoch' = epoch + 1 /\ mail' = Failed(mail)
  /\ alive' = FALSE
  /\ io' = [Thread EXCEPT !.pc = "ended"]
  /\ UNCHANGED <<drained, asked>>

Turn ==
  \/ Top \/ Probe \/ Deposit \/ Select \/ Issue \/ Write \/ Credit \/ Skip \/ Fail \/ Blank

\* The user acts on the deck.
Arrive(report) ==
  /\ Len(unit.reports) < MaxReports
  /\ unit' = [unit EXCEPT !.reports = Append(@, report)]
  /\ UNCHANGED <<mail, alive, epoch, drained, io, asked>>

HostStep ==
  \/ \E k \in Keys, picture \in Picture : SetKeyImage(k, picture)
  \/ \E picture \in Picture : SetTouchImage(picture) \/ SetMeterImage(picture)
  \/ \E frame \in Frame : QueueFrame(frame)
  \/ \E level \in Level : SetBrightness(level)
  \/ TakeInput
  \/ InvalidateOutputs
  \/ ~mail.stop /\ (Shutdown \/ PoolStop)

Next == HostStep \/ Turn \/ \E report \in Report : Arrive(report)

Spec == Init /\ [][Next]_vars

\* The operating system keeps scheduling the thread; the adapter's calls are
\* bounded, as Pool::join already demands.
FairSpec == Spec /\ WF_vars(Turn)

-----------------------------------------------------------------------------
(* Properties *)

TypeOK ==
  /\ mail \in [
       desired : [Slots -> Picture \cup {Nothing}], sent : [Slots -> Picture \cup {Nothing}],
       pending : [Slots -> BOOLEAN], brightness : Level \cup {Nothing},
       input : Seq(Report), stop : BOOLEAN, error : BOOLEAN, full : BOOLEAN,
       writing : Slots \cup {Light, Nothing}, revision : Nat, guarded : BOOLEAN,
       cursor : Slots]
  /\ alive \in BOOLEAN /\ epoch \in Nat /\ drained \in 0..epoch
  /\ io \in [pc : {"top", "probe", "deposit", "select", "issue", "write", "credit", "skip",
                   "fail", "blank", "ended"},
             epoch : 0..epoch, revision : 0..mail.revision,
             event : Report \cup {Nothing}, output : Output \cup {Nothing}]
  /\ unit \in [shown : [Slots -> Picture \cup {Nothing}], level : Level \cup {Nothing},
               reports : Seq(Report)]
  /\ asked \subseteq Picture
  /\ Len(mail.input) <= InputLimit /\ mail.revision <= MaxRevision

\* When the owner calls the display ready, every key shows the picture that is
\* desired for it, whatever writes fences overtook on the way, and the strip
\* the last guarded picture or a meter drawn over it since: never a strip of
\* the page before.
ReadyIsCurrent ==
  Ready =>
    /\ \A k \in Keys : unit.shown[k] = mail.desired[k]
    /\ HasTouch => unit.shown[Touch] \in asked

\* A write is credited to the mailbox only while the unit still shows it:
\* what `sent` records is what suppresses identical pictures later.
SentIsShown ==
  alive => \A s \in Slots :
    mail.sent[s] = Nothing \/ mail.sent[s] = unit.shown[s] \/ mail.writing = s

\* Once the host leaves the deck alone, every picture it desired is on the
\* deck, in spite of frames superseded and generations fenced while they were
\* written, and nothing is left to write.  Pictures only: a brightness taken
\* from the mailbox (actor.rs:412) is dropped when a fence cancels its write
\* (433, 467), so the level the host asked for may never reach the deck.
DesiredTransmitted ==
  (<>[][~HostStep]_vars) =>
    [](alive => <>(~alive \/ /\ Stale(mail) = {}
                             /\ \A s \in Slots : mail.desired[s] # Nothing =>
                                  unit.shown[s] = mail.desired[s]))

=============================================================================
