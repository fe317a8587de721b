------------------------- MODULE DeviceSessionProofs -------------------------
(***************************************************************************)
(* Proofs about the owner of a deck (DeviceActor) and about the session of *)
(* the manager above it (DeviceSession), for any deck: any number of keys, *)
(* with a touch strip or without, any pictures, any capacity of the        *)
(* mailbox, any number of controls, fences and reads in a turn.            *)
(*                                                                         *)
(* IInv relates the owner's locals to the mailbox: what is in flight       *)
(* (Placed), what of it the unit shows (Agreed), what the host wants       *)
(* (Wanted), and what the strip may come to show (Strip).  It is proved of *)
(* the owner's own specification first.                                    *)
(*                                                                         *)
(* Every call of the manager moves its owner the way DeviceActor allows,   *)
(* so IInv holds of a session as well; SessionInv relates the session to   *)
(* its owner and to the history.  The calls of the manager either leave    *)
(* the context alone (StayStep) or disarm everything and, on a device in   *)
(* use, change it (FenceStep); only an event that is judged arms or        *)
(* disarms anything else.                                                  *)
(***************************************************************************)
EXTENDS DeviceSession, FiniteSetTheorems, WellFoundedInduction, TLAPS

Drawn == Picture \cup {Nothing}
Labels == {"top", "probe", "deposit", "select", "issue", "write", "credit", "skip",
           "fail", "blank", "ended"}
MailType == [
  desired : [Slots -> Drawn], sent : [Slots -> Drawn], pending : [Slots -> BOOLEAN],
  brightness : Level \cup {Nothing}, input : Seq(Report), stop : BOOLEAN, error : BOOLEAN,
  full : BOOLEAN, writing : Slots \cup {Light, Nothing}, revision : Nat, guarded : BOOLEAN,
  cursor : Slots]
ThreadType == [pc : Labels, epoch : Nat, revision : Nat,
               event : Report \cup {Nothing}, output : Output \cup {Nothing}]
UnitType == [shown : [Slots -> Drawn], level : Level \cup {Nothing}, reports : Seq(Report)]

Flying == io.pc \in {"issue", "write", "credit", "skip"}
Credits == io.pc = "credit"

\* What the thread has selected is what the mailbox calls `writing`; an owner
\* that is to stop, or has, is not alive.
Placed ==
  /\ Flying => io.output \in Output /\ mail.writing = io.output.slot
  /\ io.pc \in {"top", "probe", "deposit", "select"} => mail.writing = Nothing
  /\ mail.stop \/ io.pc \in {"blank", "ended"} => ~alive

\* `sent` is what the unit shows, but for a picture just written; that one it
\* shows as well.
Agreed ==
  alive =>
    /\ \A s \in Slots : \/ mail.sent[s] = Nothing \/ mail.sent[s] = unit.shown[s]
                        \/ Credits /\ io.output.slot = s
    /\ Credits /\ io.output.slot \in Slots => unit.shown[io.output.slot] = io.output.value

\* A full mailbox wants a picture on every surface, and on the strip one that
\* was asked for.
Wanted ==
  alive =>
    /\ mail.full => \A s \in Slots : mail.desired[s] # Nothing
    /\ HasTouch => mail.desired[Touch] = Nothing \/ mail.desired[Touch] \in asked

\* The strip shows what was asked for, or is still to be written; what is being
\* written was asked for, or something remembers that it must be followed.
Strip ==
  alive /\ HasTouch /\ mail.full =>
    /\ mail.guarded \/ mail.pending[Touch] \/ unit.shown[Touch] \in asked
    /\ Flying /\ io.output.slot = Touch =>
         IF epoch = io.epoch
           THEN \/ io.output.value \in asked \/ mail.guarded
                \/ (mail.pending[Touch] /\ io.revision # mail.revision)
           ELSE mail.pending[Touch]

IInv == TypeOK /\ Placed /\ Agreed /\ Wanted /\ Strip

-----------------------------------------------------------------------------
(* Types.                                                                  *)

LEMMA SlotsFinite ==
  /\ Slots \subseteq Nat /\ IsFiniteSet(Slots)
  /\ Cardinality(Slots) \in Nat \ {0} /\ Slots = 0..(Cardinality(Slots) - 1)
  /\ (HasTouch => Touch \in Slots) /\ Keys \subseteq Slots /\ Touch \notin Keys
<1>1. CASE HasTouch
  <2>1. Slots = 0..KeyCount
    BY <1>1, SurfaceAssumption DEF Slots, Keys, Touch
  <2>2. IsFiniteSet(0..KeyCount) /\ Cardinality(0..KeyCount) = KeyCount - 0 + 1
    BY SurfaceAssumption, FS_Interval
  <2>3. QED
    BY <2>1, <2>2, SurfaceAssumption DEF Keys, Touch
<1>2. CASE ~HasTouch
  <2>1. Slots = 0..(KeyCount - 1)
    BY <1>2 DEF Slots, Keys
  <2>2. IsFiniteSet(0..(KeyCount - 1)) /\ Cardinality(0..(KeyCount - 1)) = KeyCount - 1 - 0 + 1
    BY SurfaceAssumption, FS_Interval
  <2>3. QED
    BY <1>2, <2>1, <2>2, SurfaceAssumption DEF Keys, Touch
<1>3. QED
  BY <1>1, <1>2

LEMMA TypeFacts ==
  ASSUME TypeOK
  PROVE  /\ mail \in MailType /\ io \in ThreadType /\ unit \in UnitType
         /\ alive \in BOOLEAN /\ epoch \in Nat /\ drained \in 0..epoch /\ asked \subseteq Picture
         /\ io.epoch <= epoch /\ io.revision <= mail.revision
         /\ Len(mail.input) <= InputLimit /\ mail.revision <= MaxRevision
         /\ epoch >= io.epoch /\ mail.revision \in Nat /\ io.revision \in Nat
<1>1. mail \in MailType /\ unit \in UnitType /\ epoch \in Nat
  BY DEF TypeOK, MailType, UnitType, Drawn
<1>2. mail.revision \in Nat
  BY <1>1 DEF MailType
<1>3. io \in [pc : Labels, epoch : 0..epoch, revision : 0..mail.revision,
             event : Report \cup {Nothing}, output : Output \cup {Nothing}]
  BY DEF TypeOK, Labels
<1>4. io \in ThreadType /\ io.epoch \in 0..epoch /\ io.revision \in 0..mail.revision
  BY <1>1, <1>2, <1>3 DEF ThreadType
<1>5. QED
  BY <1>1, <1>2, <1>4 DEF TypeOK

LEMMA TypeFrom ==
  ASSUME mail' \in MailType, io' \in ThreadType, unit' \in UnitType,
         alive' \in BOOLEAN, epoch' \in Nat, drained' \in 0..epoch', asked' \subseteq Picture,
         io'.epoch <= epoch', io'.revision <= mail'.revision,
         Len(mail'.input) <= InputLimit, mail'.revision <= MaxRevision
  PROVE  TypeOK'
<1>1. mail'.revision \in Nat /\ io'.epoch \in Nat /\ io'.revision \in Nat
  BY DEF MailType, ThreadType
<1>2. io'.epoch \in 0..epoch' /\ io'.revision \in 0..mail'.revision
  BY <1>1
<1>3. io' \in [pc : Labels, epoch : 0..epoch', revision : 0..mail'.revision,
              event : Report \cup {Nothing}, output : Output \cup {Nothing}]
  BY <1>2 DEF ThreadType
<1>4. QED
  BY <1>3 DEF TypeOK, MailType, UnitType, Drawn, Labels

\* Who is where, without the record types.
LEMMA Fields ==
  ASSUME IInv
  PROVE  /\ mail.desired \in [Slots -> Drawn] /\ mail.sent \in [Slots -> Drawn]
         /\ mail.pending \in [Slots -> BOOLEAN] /\ mail.guarded \in BOOLEAN
         /\ unit.shown \in [Slots -> Drawn] /\ Nothing \notin Picture
         /\ Light \notin Slots /\ Nothing \notin Slots /\ Nothing # Light
         /\ mail.input \in Seq(Report) /\ Placed /\ Agreed /\ Wanted /\ Strip
BY TypeFacts, SlotsFinite, NothingAssumption DEF IInv, MailType, UnitType, ThreadType

-----------------------------------------------------------------------------
(* The host.                                                               *)

\* The host leaves the thread and the unit alone, and does not revive an owner.
LEMMA HostStepLemma ==
  ASSUME IInv, io' = io, unit' = unit, drained' = drained,
         mail' \in MailType, mail'.revision \in {mail.revision, mail.revision + 1},
         mail'.revision <= MaxRevision, Len(mail'.input) <= InputLimit,
         epoch' \in {epoch, epoch + 1}, alive' \in BOOLEAN, alive' => alive, asked' \subseteq Picture,
         mail'.writing = mail.writing, mail'.stop /\ ~mail.stop => ~alive',
         alive' => \A s \in Slots : mail'.sent[s] \in {Nothing, mail.sent[s]},
         Wanted', Strip'
  PROVE  IInv'
<1>1. TypeOK'
  <2>1. /\ epoch \in Nat /\ mail.revision \in Nat /\ io.epoch \in Nat /\ io.revision \in Nat
        /\ drained \in 0..epoch /\ io.epoch <= epoch /\ io.revision <= mail.revision
        /\ io \in ThreadType /\ unit \in UnitType
    BY TypeFacts DEF IInv, ThreadType
  <2>2. epoch' \in Nat /\ drained' \in 0..epoch' /\ io.epoch <= epoch' /\ io.revision <= mail'.revision
    BY <2>1
  <2>3. QED
    BY <2>1, <2>2, TypeFrom
<1>2. Placed'
  BY DEF IInv, Placed, Flying
<1>3. Agreed'
  BY DEF IInv, Agreed, Credits
<1>4. QED
  BY <1>1, <1>2, <1>3 DEF IInv

LEMMA SetKeyImageStep ==
  ASSUME IInv, NEW k \in Keys, NEW picture \in Picture, SetKeyImage(k, picture)
  PROVE  IInv'
<1> DEFINE d == [mail.desired EXCEPT ![k] = picture]
<1>1. mail \in MailType /\ mail.desired \in [Slots -> Drawn] /\ k \in Slots /\ k # Touch
  BY TypeFacts, Fields, SlotsFinite DEF IInv
<1>2. d \in [Slots -> Drawn] /\ \A s \in Slots : d[s] = IF s = k THEN picture ELSE mail.desired[s]
  BY <1>1 DEF Drawn
<1>3. mail' = [mail EXCEPT !.desired = d]
  BY <1>1 DEF SetKeyImage, MailType
<1> HIDE DEF d
<1>4. /\ mail' \in MailType /\ mail'.desired = d /\ mail'.sent = mail.sent
      /\ mail'.pending = mail.pending /\ mail'.full = mail.full /\ mail'.guarded = mail.guarded
      /\ mail'.revision = mail.revision /\ mail'.writing = mail.writing /\ mail'.stop = mail.stop
      /\ mail'.input = mail.input
  BY <1>1, <1>2, <1>3 DEF MailType
<1>5. UNCHANGED <<alive, epoch, drained, io, unit, asked>>
  BY DEF SetKeyImage
<1>6. Wanted'
  BY <1>1, <1>2, <1>4, <1>5, Fields, SlotsFinite DEF Wanted
<1>7. Strip'
  BY <1>4, <1>5, Fields DEF Strip, Flying
<1>8. QED
  BY <1>4, <1>5, <1>6, <1>7, TypeFacts, HostStepLemma DEF IInv

LEMMA SetTouchImageStep ==
  ASSUME IInv, NEW picture \in Picture, SetTouchImage(picture)
  PROVE  IInv'
<1> DEFINE d == [mail.desired EXCEPT ![Touch] = picture]
           g == picture # mail.sent[Touch] \/ mail.writing = Touch
<1>1. mail \in MailType /\ mail.desired \in [Slots -> Drawn] /\ HasTouch /\ Touch \in Slots
  BY TypeFacts, Fields, SlotsFinite DEF IInv, SetTouchImage
<1>2. d \in [Slots -> Drawn] /\ \A s \in Slots : d[s] = IF s = Touch THEN picture ELSE mail.desired[s]
  BY <1>1 DEF Drawn
<1>3. g \in BOOLEAN /\ (~g => picture = mail.sent[Touch] /\ mail.writing # Touch)
  OBVIOUS
<1>4. mail' = [mail EXCEPT !.desired = d, !.guarded = g]
  BY <1>1 DEF SetTouchImage, MailType
<1> HIDE DEF d, g
<1>5. /\ mail' \in MailType /\ mail'.desired = d /\ mail'.sent = mail.sent
      /\ mail'.pending = mail.pending /\ mail'.full = mail.full /\ mail'.guarded = g
      /\ mail'.revision = mail.revision /\ mail'.writing = mail.writing /\ mail'.stop = mail.stop
      /\ mail'.input = mail.input
  BY <1>1, <1>2, <1>3, <1>4 DEF MailType
<1>6. UNCHANGED alive /\ UNCHANGED epoch /\ UNCHANGED drained /\ UNCHANGED io /\ UNCHANGED unit
      /\ asked' = {picture}
  BY DEF SetTouchImage
<1>7. Wanted'
  BY <1>1, <1>2, <1>5, <1>6, Fields DEF Wanted
<1>8. Strip'
  <2> SUFFICES ASSUME alive, mail.full PROVE Strip'
    BY <1>5, <1>6 DEF Strip
  <2>1. g \/ unit.shown[Touch] = picture
    BY <1>1, <1>3, Fields DEF Agreed, Placed, Flying, Credits
  <2>2. Flying /\ io.output.slot = Touch => g /\ (epoch # io.epoch => mail.pending[Touch])
    <3>1. Flying /\ io.output.slot = Touch => mail.writing = Touch
      BY Fields DEF Placed
    <3>2. QED
      BY <1>1, <1>3, <3>1, Fields DEF Strip, g
  <2>3. QED
    BY <1>5, <1>6, <2>1, <2>2 DEF Strip, Flying
<1>9. QED
  BY <1>5, <1>6, <1>7, <1>8, TypeFacts, HostStepLemma DEF IInv

LEMMA SetMeterImageStep ==
  ASSUME IInv, NEW picture \in Picture, SetMeterImage(picture)
  PROVE  IInv'
<1> DEFINE d == [mail.desired EXCEPT ![Touch] = picture]
<1>1. mail \in MailType /\ mail.desired \in [Slots -> Drawn] /\ HasTouch /\ Touch \in Slots
  BY TypeFacts, Fields, SlotsFinite DEF IInv, SetMeterImage
<1>2. d \in [Slots -> Drawn] /\ \A s \in Slots : d[s] = IF s = Touch THEN picture ELSE mail.desired[s]
  BY <1>1 DEF Drawn
<1>3. mail' = [mail EXCEPT !.desired = d]
  BY <1>1 DEF SetMeterImage, MailType
<1> HIDE DEF d
<1>4. /\ mail' \in MailType /\ mail'.desired = d /\ mail'.sent = mail.sent
      /\ mail'.pending = mail.pending /\ mail'.full = mail.full /\ mail'.guarded = mail.guarded
      /\ mail'.revision = mail.revision /\ mail'.writing = mail.writing /\ mail'.stop = mail.stop
      /\ mail'.input = mail.input
  BY <1>1, <1>2, <1>3 DEF MailType
<1>5. UNCHANGED alive /\ UNCHANGED epoch /\ UNCHANGED drained /\ UNCHANGED io /\ UNCHANGED unit
      /\ asked' = asked \cup {picture}
  BY DEF SetMeterImage
<1>6. Wanted'
  BY <1>1, <1>2, <1>4, <1>5, Fields DEF Wanted
<1>7. Strip'
  BY <1>4, <1>5, Fields DEF Strip, Flying
<1>8. QED
  BY <1>4, <1>5, <1>6, <1>7, TypeFacts, HostStepLemma DEF IInv

LEMMA QueueFrameStep ==
  ASSUME IInv, NEW frame \in Frame, QueueFrame(frame)
  PROVE  IInv'
<1> DEFINE r == mail.revision + 1
           p == Unwritten(frame)
<1>1. mail \in MailType /\ mail.revision < MaxRevision /\ frame \in [Slots -> Picture]
  BY TypeFacts DEF IInv, QueueFrame, Frame
<1>2. /\ p \in [Slots -> BOOLEAN] /\ r \in Nat /\ r <= MaxRevision /\ frame \in [Slots -> Drawn]
      /\ \A s \in Slots : ~p[s] => frame[s] = mail.sent[s] /\ mail.writing # s
  <2>1. r \in Nat /\ r <= MaxRevision
    BY <1>1, LimitAssumption DEF MailType
  <2>2. frame \in [Slots -> Drawn]
    BY <1>1 DEF Drawn
  <2>3. p \in [Slots -> BOOLEAN] /\ \A s \in Slots : p[s] <=> (frame[s] # mail.sent[s] \/ mail.writing = s)
    BY DEF Unwritten
  <2>4. QED
    BY <2>1, <2>2, <2>3
<1>3. mail' = [mail EXCEPT !.revision = r, !.pending = p,
                           !.desired = frame, !.guarded = FALSE, !.full = TRUE]
  BY DEF QueueFrame
<1>4. r = mail.revision + 1
  OBVIOUS
<1> HIDE DEF p, r
<1>5. /\ mail' \in MailType /\ mail'.desired = frame /\ mail'.sent = mail.sent
      /\ mail'.pending = p /\ mail'.full /\ ~mail'.guarded
      /\ mail'.revision = r /\ mail'.writing = mail.writing /\ mail'.stop = mail.stop
      /\ mail'.input = mail.input
  BY <1>1, <1>2, <1>3 DEF MailType
<1>6. UNCHANGED alive /\ UNCHANGED epoch /\ UNCHANGED drained /\ UNCHANGED io /\ UNCHANGED unit
      /\ asked' = IF HasTouch THEN {frame[Touch]} ELSE {}
  BY DEF QueueFrame
<1>7. Wanted'
  BY <1>1, <1>5, <1>6, Fields DEF Wanted
<1>8. Strip'
  <2> SUFFICES ASSUME alive, HasTouch PROVE Strip'
    BY <1>6 DEF Strip
  <2>1. Touch \in Slots
    BY SlotsFinite
  <2>2. p[Touch] \/ unit.shown[Touch] = frame[Touch]
    BY <1>1, <1>2, <2>1, Fields DEF Agreed, Placed, Flying, Credits
  <2>3. Flying /\ io.output.slot = Touch => p[Touch] /\ io.revision # r
    BY <1>2, <1>4, <2>1, TypeFacts, Fields DEF Placed, IInv
  <2>4. QED
    BY <1>5, <1>6, <2>2, <2>3 DEF Strip, Flying
<1>9. asked' \subseteq Picture
  BY <1>1, <1>6, SlotsFinite
<1>10. QED
  BY <1>1, <1>2, <1>4, <1>5, <1>6, <1>7, <1>8, <1>9, TypeFacts, HostStepLemma DEF IInv

\* What does not concern the pictures.
LEMMA ElsewhereStep ==
  ASSUME IInv, UNCHANGED <<alive, epoch, drained, io, unit, asked>>,
         \/ \E level \in Level : mail' = [mail EXCEPT !.brightness = level]
         \/ mail' = [mail EXCEPT !.input = IF @ = <<>> THEN @ ELSE Tail(@)]
  PROVE  IInv'
<1> DEFINE q == IF mail.input = <<>> THEN mail.input ELSE Tail(mail.input)
<1>1. mail \in MailType /\ mail.input \in Seq(Report) /\ Len(mail.input) <= InputLimit
  BY TypeFacts, Fields DEF IInv
<1>2. q \in Seq(Report) /\ Len(q) <= InputLimit
  BY <1>1, LimitAssumption
<1>3. \/ \E level \in Level : mail' = [mail EXCEPT !.brightness = level]
      \/ mail' = [mail EXCEPT !.input = q]
  OBVIOUS
<1> HIDE DEF q
<1>4. /\ mail' \in MailType /\ mail'.desired = mail.desired /\ mail'.sent = mail.sent
      /\ mail'.pending = mail.pending /\ mail'.full = mail.full /\ mail'.guarded = mail.guarded
      /\ mail'.revision = mail.revision /\ mail'.writing = mail.writing /\ mail'.stop = mail.stop
      /\ Len(mail'.input) <= InputLimit
  BY <1>1, <1>2, <1>3 DEF MailType
<1>5. UNCHANGED alive /\ UNCHANGED epoch /\ UNCHANGED drained /\ UNCHANGED io /\ UNCHANGED unit
      /\ UNCHANGED asked
  OBVIOUS
<1>6. Wanted' /\ Strip'
  BY <1>4, <1>5, Fields DEF Wanted, Strip, Flying
<1>7. QED
  BY <1>4, <1>5, <1>6, TypeFacts, HostStepLemma DEF IInv

LEMMA DarkPaint == Dark \in [Slots -> Drawn] /\ \A s \in Slots : Dark[s] = Nothing
BY DEF Dark, Drawn

LEMMA InvalidateOutputsStep ==
  ASSUME IInv, InvalidateOutputs
  PROVE  IInv'
<1> DEFINE p == [s \in Slots |-> FALSE]
<1>1. mail \in MailType /\ p \in [Slots -> BOOLEAN] /\ Dark \in [Slots -> Drawn]
  BY TypeFacts, DarkPaint DEF IInv
<1>2. mail' = [mail EXCEPT !.desired = Dark, !.sent = Dark, !.full = FALSE, !.guarded = FALSE,
                           !.pending = p]
  BY DEF InvalidateOutputs, Fenced
<1> HIDE DEF p
<1>3. /\ mail' \in MailType /\ mail'.desired = Dark /\ mail'.sent = Dark /\ ~mail'.full
      /\ mail'.revision = mail.revision /\ mail'.writing = mail.writing /\ mail'.stop = mail.stop
      /\ mail'.input = mail.input
  BY <1>1, <1>2 DEF MailType
<1>4. UNCHANGED alive /\ UNCHANGED drained /\ UNCHANGED io /\ UNCHANGED unit
      /\ epoch' = epoch + 1 /\ asked' = {}
  BY DEF InvalidateOutputs
<1>5. Wanted' /\ Strip'
  BY <1>3, <1>4, DarkPaint, SlotsFinite DEF Wanted, Strip
<1>6. QED
  BY <1>3, <1>4, <1>5, TypeFacts, DarkPaint, HostStepLemma DEF IInv

LEMMA StopStep ==
  ASSUME IInv, Shutdown \/ PoolStop
  PROVE  IInv'
<1>1. mail \in MailType /\ Dark \in [Slots -> Drawn] /\ <<>> \in Seq(Report) /\ Len(<<>>) = 0
  BY TypeFacts, DarkPaint DEF IInv
<1>2. \/ mail' = [mail EXCEPT !.stop = TRUE, !.input = <<>>, !.desired = Dark]
      \/ mail' = [mail EXCEPT !.stop = TRUE]
  BY DEF Shutdown, PoolStop
<1>3. /\ mail' \in MailType
      /\ mail'.revision = mail.revision /\ mail'.writing = mail.writing
      /\ mail'.input \in {mail.input, <<>>}
  BY <1>1, <1>2 DEF MailType
<1>4. /\ UNCHANGED drained /\ UNCHANGED io /\ UNCHANGED unit /\ UNCHANGED asked
      /\ epoch' = epoch + 1 /\ alive' = FALSE
  BY DEF Shutdown, PoolStop
<1>5. Wanted' /\ Strip'
  BY <1>4 DEF Wanted, Strip
<1>6. Len(mail'.input) <= InputLimit
  BY <1>1, <1>3, TypeFacts, LimitAssumption DEF IInv
<1>7. QED
  BY <1>3, <1>4, <1>5, <1>6, TypeFacts, HostStepLemma DEF IInv

LEMMA HostStepStep ==
  ASSUME IInv, HostStep
  PROVE  IInv'
BY SetKeyImageStep, SetTouchImageStep, SetMeterImageStep, QueueFrameStep, ElsewhereStep,
   InvalidateOutputsStep, StopStep DEF HostStep, SetBrightness, TakeInput

-----------------------------------------------------------------------------
(* The thread.                                                             *)

LEMMA GotoThread ==
  ASSUME io \in ThreadType, NEW l \in Labels, Goto(l)
  PROVE  /\ io' \in ThreadType /\ io'.pc = l
         /\ io'.epoch = io.epoch /\ io'.revision = io.revision /\ io'.output = io.output
BY DEF ThreadType, Goto

LEMMA LabelFacts ==
  /\ "blank" \in Labels /\ "deposit" \in Labels /\ "fail" \in Labels /\ "select" \in Labels
  /\ "write" \in Labels /\ "skip" \in Labels /\ "credit" \in Labels
BY DEF Labels

LEMMA AgainThread ==
  Thread \in ThreadType /\ Thread.pc = "top" /\ Thread.epoch = 0 /\ Thread.revision = 0
BY DEF Thread, ThreadType, Labels

\* Between two outputs.
LEMMA QuietStep ==
  ASSUME IInv, ~Flying, ~Flying', io' \in ThreadType, io'.epoch <= epoch, io'.revision <= mail.revision,
         epoch' = epoch, alive' = alive, asked' = asked, drained' \in 0..epoch,
         mail' \in MailType, Len(mail'.input) <= InputLimit,
         mail'.desired = mail.desired, mail'.sent = mail.sent, mail'.pending = mail.pending,
         mail'.full = mail.full, mail'.guarded = mail.guarded, mail'.revision = mail.revision,
         mail'.writing = mail.writing, mail'.stop = mail.stop,
         unit' \in UnitType, unit'.shown = unit.shown,
         io'.pc \in {"blank", "ended"} => ~alive,
         io'.pc \in {"top", "probe", "deposit", "select"} => mail.writing = Nothing
  PROVE  IInv'
<1>1. TypeOK'
  BY TypeFacts, TypeFrom DEF IInv
<1>2. Placed'
  BY Fields DEF Placed
<1>3. Agreed' /\ Wanted' /\ Strip'
  BY Fields DEF Agreed, Wanted, Strip, Credits, Flying
<1>4. QED
  BY <1>1, <1>2, <1>3 DEF IInv

LEMMA TopStep ==
  ASSUME IInv, Top
  PROVE  IInv'
<1>1. /\ io.pc = "top" /\ UNCHANGED <<mail, alive, epoch, drained, unit, asked>>
      /\ io \in ThreadType /\ epoch \in Nat
  BY TypeFacts DEF Top, At, IInv
<1>2. CASE mail.stop /\ Goto("blank")
  <2>1. io' \in ThreadType /\ io'.pc = "blank" /\ io'.epoch = io.epoch /\ io'.revision = io.revision
    BY <1>1, <1>2, GotoThread, LabelFacts
  <2>2. ~alive
    BY <1>2, Fields DEF Placed
  <2>3. QED
    BY <1>1, <2>1, <2>2, TypeFacts, QuietStep DEF IInv, Flying
<1>3. CASE io' = [io EXCEPT !.pc = "probe", !.epoch = epoch]
  <2>1. io' \in ThreadType /\ io'.pc = "probe" /\ io'.epoch = epoch /\ io'.revision = io.revision
    BY <1>1, <1>3 DEF ThreadType, Labels
  <2>2. mail.writing = Nothing
    BY <1>1, Fields DEF Placed
  <2>3. epoch <= epoch
    BY <1>1
  <2>4. QED
    BY <1>1, <2>1, <2>2, <2>3, TypeFacts, QuietStep DEF IInv, Flying
<1>4. QED
  BY <1>2, <1>3 DEF Top, Goto

LEMMA ProbeStep ==
  ASSUME IInv, Probe
  PROVE  IInv'
<1>1. /\ io.pc = "probe" /\ UNCHANGED <<mail, alive, epoch, drained, asked>>
      /\ io \in ThreadType /\ unit \in UnitType /\ unit.reports \in Seq(Report) /\ mail.writing = Nothing
  BY TypeFacts, Fields DEF Probe, At, IInv, Placed, UnitType
<1>2. /\ io' \in ThreadType /\ io'.pc \in {"deposit", "fail"}
      /\ io'.epoch = io.epoch /\ io'.revision = io.revision
      /\ unit' \in UnitType /\ unit'.shown = unit.shown
  <2>1. CASE /\ unit.reports # <<>>
             /\ io' = [io EXCEPT !.pc = "deposit", !.event = Head(unit.reports)]
             /\ unit' = [unit EXCEPT !.reports = Tail(unit.reports)]
    <3> DEFINE h == Head(unit.reports)
               t == Tail(unit.reports)
    <3>1. h \in Report /\ t \in Seq(Report)
      BY <1>1, <2>1
    <3> HIDE DEF h, t
    <3>2. io' = [io EXCEPT !.pc = "deposit", !.event = h] /\ unit' = [unit EXCEPT !.reports = t]
      BY <2>1 DEF h, t
    <3>3. QED
      BY <1>1, <3>1, <3>2 DEF ThreadType, UnitType, Labels
  <2>2. CASE (Goto("deposit") \/ Goto("fail")) /\ unit' = unit
    BY <1>1, <2>2, GotoThread, LabelFacts
  <2>3. QED
    BY <2>1, <2>2 DEF Probe
<1>3. QED
  BY <1>1, <1>2, TypeFacts, QuietStep DEF IInv, Flying

LEMMA DepositStep ==
  ASSUME IInv, Deposit
  PROVE  IInv'
<1>1. /\ io.pc = "deposit" /\ UNCHANGED <<alive, epoch, unit, asked>>
      /\ io \in ThreadType /\ mail \in MailType /\ mail.input \in Seq(Report) /\ mail.writing = Nothing
      /\ Len(mail.input) <= InputLimit /\ epoch \in Nat /\ drained \in 0..epoch
      /\ mail.stop => ~alive
  BY TypeFacts, Fields DEF Deposit, At, IInv, Placed
<1>2. \/ Goto("blank") /\ mail.stop
      \/ Goto("fail")
      \/ Goto("select")
  BY DEF Deposit
<1>3. /\ io' \in ThreadType /\ io'.pc \in {"blank", "fail", "select"} /\ (io'.pc = "blank" => mail.stop)
      /\ io'.epoch = io.epoch /\ io'.revision = io.revision
  BY <1>1, <1>2, GotoThread, LabelFacts
<1>4. drained' \in 0..epoch
  BY <1>1 DEF Deposit
<1>5. /\ mail' \in MailType /\ Len(mail'.input) <= InputLimit
      /\ mail'.desired = mail.desired /\ mail'.sent = mail.sent /\ mail'.pending = mail.pending
      /\ mail'.full = mail.full /\ mail'.guarded = mail.guarded /\ mail'.revision = mail.revision
      /\ mail'.writing = mail.writing /\ mail'.stop = mail.stop
  <2>1. CASE mail' = mail
    BY <1>1, <2>1
  <2>2. CASE io.event # Nothing /\ ~Full(mail) /\ mail' = [mail EXCEPT !.input = Append(@, io.event)]
    <3> DEFINE q == Append(mail.input, io.event)
    <3>1. io.event \in Report
      BY <1>1, <2>2 DEF ThreadType
    <3>2. q \in Seq(Report) /\ Len(q) <= InputLimit
      BY <1>1, <2>2, <3>1, LimitAssumption DEF Full
    <3>3. mail' = [mail EXCEPT !.input = q]
      BY <2>2
    <3> HIDE DEF q
    <3>4. QED
      BY <1>1, <3>2, <3>3 DEF MailType
  <2>3. QED
    BY <2>1, <2>2 DEF Deposit
<1>6. QED
  BY <1>1, <1>3, <1>4, <1>5, TypeFacts, QuietStep DEF IInv, Flying

\* The least-number principle, for a set.
LEMMA Least ==
  ASSUME NEW T \in SUBSET Nat, T # {}
  PROVE  \E x \in T : \A y \in T : x <= y
<1> DEFINE R == {ss \in Nat \X Nat : ss[1] < ss[2]}
<1>1. IsWellFoundedOn(R, Nat)
  BY NatLessThanWellFounded DEF OpToRel
<1> HIDE DEF R
<1>2. PICK x \in T : \A y \in T : <<y, x>> \notin R
  BY <1>1, WFMin
<1>3. \A i, j \in Nat : <<i, j>> \in R <=> i < j
  BY DEF R
<1>4. ASSUME NEW y \in T PROVE x <= y
  <2>1. x \in Nat /\ y \in Nat /\ ~(y < x)
    BY <1>2, <1>3
  <2>2. QED
    BY <2>1
<1>5. QED
  BY <1>4

LEMMA ModFacts ==
  ASSUME NEW a \in Int, NEW n \in Nat \ {0}
  PROVE  a % n \in 0..(n - 1)
OBVIOUS

\* The surface selected is one that is stale: some surface is the first from the
\* cursor on.
LEMMA NextSlotStale ==
  ASSUME mail \in MailType, Stale(mail) # {}
  PROVE  NextSlot(mail) \in Stale(mail)
<1> DEFINE N == Cardinality(Slots)
           distance(s) == (s + N - mail.cursor) % N
           T == {distance(s) : s \in Stale(mail)}
<1>1. N \in Nat \ {0} /\ Slots \subseteq Nat /\ mail.cursor \in Nat /\ Stale(mail) \subseteq Slots
  BY SlotsFinite DEF MailType, Stale
<1>2. \A s \in Stale(mail) : distance(s) \in Nat
  <2> HIDE DEF N
  <2> SUFFICES ASSUME NEW s \in Stale(mail) PROVE distance(s) \in Nat
    OBVIOUS
  <2> DEFINE a == s + N - mail.cursor
  <2>1. s \in Nat
    BY <1>1
  <2>2. a \in Int
    BY <1>1, <2>1
  <2> HIDE DEF a
  <2>3. a % N \in Nat
    BY <1>1, <2>2, ModFacts
  <2>4. QED
    BY <2>3 DEF a
<1>3. NextSlot(mail) = CHOOSE s \in Stale(mail) : \A t \in Stale(mail) : distance(s) <= distance(t)
  BY DEF NextSlot
<1> HIDE DEF distance
<1>4. T \in SUBSET Nat /\ T # {}
  BY <1>2
<1>5. PICK x \in T : \A y \in T : x <= y
  BY <1>4, Least
<1>6. PICK s \in Stale(mail) : x = distance(s)
  BY <1>5
<1>7. \A t \in Stale(mail) : distance(s) <= distance(t)
  BY <1>5, <1>6
<1>8. QED
  BY <1>3, <1>6, <1>7

\* An output is selected: brightness, or what is desired of a surface.
LEMMA SelectOutput ==
  ASSUME IInv, io.pc = "select", NEW o \in Output,
         o.slot # Light => o.slot \in Slots /\ o.value = mail.desired[o.slot] /\ o.value # Nothing,
         alive' = alive, epoch' = epoch, drained' = drained, unit' = unit, asked' = asked,
         mail' \in MailType, mail'.input = mail.input,
         mail'.desired = mail.desired, mail'.sent = mail.sent, mail'.pending = mail.pending,
         mail'.full = mail.full, mail'.guarded = mail.guarded, mail'.revision = mail.revision,
         mail'.writing = o.slot, mail'.stop = mail.stop,
         io' = [Thread EXCEPT !.pc = "issue", !.epoch = epoch, !.revision = mail.revision, !.output = o]
  PROVE  IInv'
<1> DEFINE r == mail.revision
<1>1. r \in Nat /\ epoch \in Nat /\ r <= r /\ epoch <= epoch
  BY TypeFacts DEF IInv
<1>2. io' = [Thread EXCEPT !.pc = "issue", !.epoch = epoch, !.revision = r, !.output = o]
  OBVIOUS
<1>3. r = mail.revision
  OBVIOUS
<1> HIDE DEF r
<1>4. /\ io' \in ThreadType /\ io'.pc = "issue" /\ io'.epoch = epoch /\ io'.revision = r
      /\ io'.output = o
  BY <1>1, <1>2 DEF Thread, ThreadType, Labels
<1>5. TypeOK'
  BY <1>1, <1>3, <1>4, TypeFacts, TypeFrom DEF IInv
<1>6. Placed'
  BY <1>4, Fields DEF Placed, Flying
<1>7. Agreed' /\ Wanted'
  BY <1>4, Fields DEF Agreed, Wanted, Credits
<1>8. Strip'
  <2> SUFFICES ASSUME alive, HasTouch, mail.full PROVE Strip'
    BY DEF Strip
  <2>1. Touch \in Slots /\ Touch # Light
    BY SlotsFinite, Fields
  <2>2. o.slot = Touch => o.value \in asked
    BY <2>1, Fields DEF Wanted
  <2>3. QED
    BY <1>4, <2>2, Fields DEF Strip
<1>9. QED
  BY <1>5, <1>6, <1>7, <1>8 DEF IInv

LEMMA SelectStep ==
  ASSUME IInv, Select
  PROVE  IInv'
<1>1. /\ io.pc = "select" /\ io \in ThreadType /\ mail \in MailType /\ mail.writing = Nothing
      /\ alive' = alive /\ epoch' = epoch /\ drained' = drained /\ unit' = unit /\ asked' = asked
      /\ mail.stop => ~alive
  BY TypeFacts, Fields DEF Select, At, IInv, Placed
<1>2. CASE mail.stop /\ Goto("blank") /\ mail' = mail
  <2>1. io' \in ThreadType /\ io'.pc = "blank" /\ io'.epoch = io.epoch /\ io'.revision = io.revision
    BY <1>1, <1>2, GotoThread, LabelFacts
  <2>2. QED
    BY <1>1, <1>2, <2>1, TypeFacts, QuietStep DEF IInv, Flying
<1>3. CASE /\ mail.brightness # Nothing
           /\ mail' = [mail EXCEPT !.brightness = Nothing, !.writing = Light]
           /\ io' = [Thread EXCEPT !.pc = "issue", !.epoch = epoch, !.revision = mail.revision,
                       !.output = [slot |-> Light, value |-> mail.brightness]]
  <2> DEFINE o == [slot |-> Light, value |-> mail.brightness]
  <2>1. o \in Output /\ o.slot = Light
    BY <1>1, <1>3 DEF Output, MailType
  <2>2. /\ mail' \in MailType /\ mail'.input = mail.input
        /\ mail'.desired = mail.desired /\ mail'.sent = mail.sent /\ mail'.pending = mail.pending
        /\ mail'.full = mail.full /\ mail'.guarded = mail.guarded /\ mail'.revision = mail.revision
        /\ mail'.writing = Light /\ mail'.stop = mail.stop
    BY <1>1, <1>3 DEF MailType
  <2>3. io' = [Thread EXCEPT !.pc = "issue", !.epoch = epoch, !.revision = mail.revision, !.output = o]
    BY <1>3
  <2> HIDE DEF o
  <2>4. QED
    BY <1>1, <2>1, <2>2, <2>3, SelectOutput
<1>4. CASE /\ Stale(mail) # {}
           /\ LET s == NextSlot(mail)
              IN /\ mail' = [mail EXCEPT !.cursor = (s + 1) % Cardinality(Slots), !.writing = s]
                 /\ io' = [Thread EXCEPT !.pc = "issue", !.epoch = epoch,
                             !.revision = mail.revision,
                             !.output = [slot |-> s, value |-> mail.desired[s]]]
  <2> DEFINE s == NextSlot(mail)
             o == [slot |-> s, value |-> mail.desired[s]]
             n == (s + 1) % Cardinality(Slots)
  <2>1. s \in Slots /\ mail.desired[s] # Nothing
    BY <1>1, <1>4, NextSlotStale DEF Stale
  <2>2. o \in Output /\ o.slot = s /\ o.value = mail.desired[s]
    BY <2>1, Fields DEF Output, Drawn
  <2>3. n \in Slots
    <3>1. s + 1 \in Int
      BY <2>1, SlotsFinite
    <3>2. QED
      BY <3>1, SlotsFinite, ModFacts
  <2>4. mail' = [mail EXCEPT !.cursor = n, !.writing = s]
    BY <1>4
  <2>5. io' = [Thread EXCEPT !.pc = "issue", !.epoch = epoch, !.revision = mail.revision, !.output = o]
    BY <1>4
  <2> HIDE DEF s, n, o
  <2>6. /\ mail' \in MailType /\ mail'.input = mail.input
        /\ mail'.desired = mail.desired /\ mail'.sent = mail.sent /\ mail'.pending = mail.pending
        /\ mail'.full = mail.full /\ mail'.guarded = mail.guarded /\ mail'.revision = mail.revision
        /\ mail'.writing = s /\ mail'.stop = mail.stop
    BY <1>1, <2>1, <2>3, <2>4 DEF MailType
  <2>7. QED
    BY <1>1, <2>1, <2>2, <2>5, <2>6, SelectOutput
<1>5. CASE mail' = [mail EXCEPT !.writing = Nothing] /\ Again
  <2>1. mail' = mail
    BY <1>1, <1>5 DEF MailType
  <2>2. io' \in ThreadType /\ io'.pc = "top" /\ io'.epoch = 0 /\ io'.revision = 0
    BY <1>5, AgainThread DEF Again
  <2>3. 0 <= epoch /\ 0 <= mail.revision
    BY TypeFacts DEF IInv
  <2>4. QED
    BY <1>1, <2>1, <2>2, <2>3, TypeFacts, QuietStep DEF IInv, Flying
<1>6. QED
  BY <1>2, <1>3, <1>4, <1>5 DEF Select

\* Nothing happens but that the thread goes on with its output, or gives it up.
LEMMA OnwardStep ==
  ASSUME IInv, io.pc \in {"issue", "write"}, NEW l \in {"write", "skip", "fail"}, Goto(l),
         UNCHANGED <<mail, alive, epoch, drained, unit, asked>>
  PROVE  IInv'
<1>1. io \in ThreadType /\ l \in Labels
  BY TypeFacts, LabelFacts DEF IInv
<1>2. /\ io' \in ThreadType /\ io'.pc = l /\ io'.epoch = io.epoch /\ io'.revision = io.revision
      /\ io'.output = io.output
  BY <1>1, GotoThread
<1>3. TypeOK'
  BY <1>2, TypeFacts, TypeFrom DEF IInv
<1>4. Placed'
  BY <1>2, Fields DEF Placed, Flying
<1>5. Agreed' /\ Wanted' /\ Strip'
  BY <1>2, Fields DEF Agreed, Wanted, Strip, Credits, Flying
<1>6. QED
  BY <1>3, <1>4, <1>5 DEF IInv

LEMMA WriteStep ==
  ASSUME IInv, Write
  PROVE  IInv'
<1>1. /\ io.pc = "write" /\ io \in ThreadType /\ unit \in UnitType /\ mail \in MailType
      /\ mail' = mail /\ alive' = alive /\ epoch' = epoch /\ drained' = drained /\ asked' = asked
      /\ io.output \in Output /\ mail.writing = io.output.slot
  BY TypeFacts, Fields DEF Write, At, IInv, Placed, Flying
<1>2. CASE Goto("fail") /\ UNCHANGED unit
  BY <1>1, <1>2, OnwardStep
<1>3. CASE /\ Goto("credit")
           /\ unit' = IF io.output.slot = Light THEN [unit EXCEPT !.level = io.output.value]
                      ELSE [unit EXCEPT !.shown[io.output.slot] = io.output.value]
  <2> DEFINE o == io.output
             w == [unit.shown EXCEPT ![o.slot] = o.value]
  <2>1. /\ io' \in ThreadType /\ io'.pc = "credit" /\ io'.epoch = io.epoch
        /\ io'.revision = io.revision /\ io'.output = o
    BY <1>1, <1>3, GotoThread, LabelFacts
  <2>2. \/ o.slot = Light /\ o.value \in Level
        \/ o.slot \in Slots /\ o.slot # Light /\ o.value \in Picture
    BY <1>1, Fields DEF Output
  <2>3. o.slot # Light => /\ w \in [Slots -> Drawn]
                          /\ \A s \in Slots : w[s] = IF s = o.slot THEN o.value ELSE unit.shown[s]
    BY <2>2, Fields DEF Drawn
  <2>4. unit' = IF o.slot = Light THEN [unit EXCEPT !.level = o.value] ELSE [unit EXCEPT !.shown = w]
    BY <1>1, <1>3 DEF UnitType
  <2> HIDE DEF w, o
  <2>5. unit' \in UnitType /\ unit'.shown = IF o.slot = Light THEN unit.shown ELSE w
    BY <1>1, <2>2, <2>3, <2>4 DEF UnitType
  <2>6. \A s \in Slots : unit'.shown[s] = IF s = o.slot THEN o.value ELSE unit.shown[s]
    BY <2>2, <2>3, <2>5, Fields
  <2>7. TypeOK'
    BY <1>1, <2>1, <2>5, TypeFacts, TypeFrom DEF IInv, o
  <2>8. Placed'
    BY <1>1, <2>1, Fields DEF Placed, Flying, o
  <2>9. Agreed'
    BY <1>1, <2>1, <2>6, Fields DEF Agreed, Credits
  <2>10. Wanted'
    BY <1>1, Fields DEF Wanted
  <2>11. Strip'
    <3> SUFFICES ASSUME alive, HasTouch, mail.full PROVE Strip'
      BY <1>1 DEF Strip
    <3>1. unit'.shown[Touch] = IF o.slot = Touch THEN o.value ELSE unit.shown[Touch]
      BY <2>6, SlotsFinite
    <3>2. QED
      BY <1>1, <2>1, <3>1, Fields DEF Strip, Flying, o
  <2>12. QED
    BY <2>7, <2>8, <2>9, <2>10, <2>11 DEF IInv
<1>4. QED
  BY <1>2, <1>3 DEF Write

LEMMA IssueStep ==
  ASSUME IInv, Issue
  PROVE  IInv'
<1>1. CASE Goto("write")
  BY <1>1, OnwardStep DEF Issue, At
<1>2. CASE Goto("skip")
  BY <1>2, OnwardStep DEF Issue, At
<1>3. QED
  BY <1>1, <1>2 DEF Issue

\* The output is over: the thread begins anew, and what it leaves in the mailbox
\* is true of the unit.
LEMMA OverStep ==
  ASSUME IInv, Flying, Again, alive' = alive, epoch' = epoch, drained' = drained, unit' = unit,
         asked' = asked, mail' \in MailType, mail'.input = mail.input,
         mail'.desired = mail.desired, mail'.full = mail.full, mail'.revision = mail.revision,
         mail'.writing = Nothing, mail'.stop = mail.stop,
         alive => \A s \in Slots : mail'.sent[s] = Nothing \/ mail'.sent[s] = unit.shown[s],
         alive /\ HasTouch /\ mail.full =>
           mail'.guarded \/ mail'.pending[Touch] \/ unit.shown[Touch] \in asked
  PROVE  IInv'
<1>1. io' \in ThreadType /\ io'.pc = "top" /\ io'.epoch = 0 /\ io'.revision = 0
  BY AgainThread DEF Again
<1>2. 0 <= epoch /\ 0 <= mail.revision
  BY TypeFacts DEF IInv
<1>3. TypeOK'
  BY <1>1, <1>2, TypeFacts, TypeFrom DEF IInv
<1>4. Placed'
  BY <1>1, Fields DEF Placed, Flying
<1>5. Agreed' /\ Wanted' /\ Strip'
  BY <1>1, Fields DEF Agreed, Wanted, Strip, Credits, Flying
<1>6. QED
  BY <1>3, <1>4, <1>5 DEF IInv

LEMMA SkipStep ==
  ASSUME IInv, Skip
  PROVE  IInv'
<1>1. /\ io.pc = "skip" /\ mail \in MailType /\ mail' = [mail EXCEPT !.writing = Nothing] /\ Again
      /\ alive' = alive /\ epoch' = epoch /\ drained' = drained /\ unit' = unit /\ asked' = asked
  BY TypeFacts DEF Skip, At, IInv
<1>2. /\ mail' \in MailType /\ mail'.input = mail.input
      /\ mail'.desired = mail.desired /\ mail'.full = mail.full /\ mail'.revision = mail.revision
      /\ mail'.writing = Nothing /\ mail'.stop = mail.stop
      /\ mail'.sent = mail.sent /\ mail'.pending = mail.pending /\ mail'.guarded = mail.guarded
  BY <1>1 DEF MailType
<1>3. alive => \A s \in Slots : mail'.sent[s] = Nothing \/ mail'.sent[s] = unit.shown[s]
  BY <1>1, <1>2, Fields DEF Agreed, Credits
<1>4. alive /\ HasTouch /\ mail.full =>
        mail'.guarded \/ mail'.pending[Touch] \/ unit.shown[Touch] \in asked
  BY <1>2, Fields DEF Strip
<1>5. QED
  BY <1>1, <1>2, <1>3, <1>4, OverStep DEF Flying

LEMMA CreditStep ==
  ASSUME IInv, Credit
  PROVE  IInv'
<1> DEFINE o == io.output
           done == [mail EXCEPT !.writing = Nothing]
<1>1. /\ io.pc = "credit" /\ mail \in MailType /\ Again /\ o \in Output
      /\ alive' = alive /\ epoch' = epoch /\ drained' = drained /\ unit' = unit /\ asked' = asked
  BY TypeFacts, Fields DEF Credit, At, IInv, Placed, Flying
<1>2. /\ done \in MailType /\ done.input = mail.input
      /\ done.desired = mail.desired /\ done.full = mail.full /\ done.revision = mail.revision
      /\ done.writing = Nothing /\ done.stop = mail.stop
      /\ done.sent = mail.sent /\ done.pending = mail.pending /\ done.guarded = mail.guarded
  BY <1>1 DEF MailType
<1>3. alive => \A s \in Slots : mail.sent[s] = Nothing \/ mail.sent[s] = unit.shown[s] \/ o.slot = s
  BY Fields DEF Agreed
<1>4. CASE epoch # io.epoch
  <2>1. mail' = [done EXCEPT !.sent = Dark]
    BY <1>4 DEF Credit, Credited
  <2> HIDE DEF done
  <2>2. /\ mail' \in MailType /\ mail'.input = mail.input
        /\ mail'.desired = mail.desired /\ mail'.full = mail.full /\ mail'.revision = mail.revision
        /\ mail'.writing = Nothing /\ mail'.stop = mail.stop
        /\ mail'.sent = Dark /\ mail'.pending = mail.pending /\ mail'.guarded = mail.guarded
    BY <1>2, <2>1, DarkPaint DEF MailType
  <2>3. QED
    BY <1>1, <2>2, DarkPaint, Fields, OverStep DEF Flying, Strip
<1>5. CASE epoch = io.epoch /\ o.slot = Light
  <2>1. mail' = done
    BY <1>5 DEF Credit, Credited
  <2> HIDE DEF done
  <2>2. alive => \A s \in Slots : mail'.sent[s] = Nothing \/ mail'.sent[s] = unit.shown[s]
    BY <1>2, <1>3, <1>5, <2>1, Fields
  <2>3. alive /\ HasTouch /\ mail.full =>
          mail'.guarded \/ mail'.pending[Touch] \/ unit.shown[Touch] \in asked
    BY <1>2, <2>1, Fields DEF Strip
  <2>4. QED
    BY <1>1, <1>2, <2>1, <2>2, <2>3, OverStep DEF Flying
<1>6. CASE epoch = io.epoch /\ o.slot # Light
  <2> DEFINE w == [mail.sent EXCEPT ![o.slot] = o.value]
             b == mail.pending[o.slot] /\ io.revision # mail.revision
             p == [mail.pending EXCEPT ![o.slot] = b]
             g == mail.guarded /\ ~(o.slot = Touch /\ mail.desired[o.slot] = o.value)
  <2>1. o.slot \in Slots /\ o.value \in Picture
    BY <1>1, <1>6 DEF Output
  <2>2. w \in [Slots -> Drawn] /\ \A s \in Slots : w[s] = IF s = o.slot THEN o.value ELSE mail.sent[s]
    BY <2>1, Fields DEF Drawn
  <2>3. b \in BOOLEAN /\ g \in BOOLEAN
    OBVIOUS
  <2>4. mail' = [done EXCEPT !.sent = w, !.pending = p, !.guarded = g]
    BY <1>2, <1>6 DEF Credit, Credited, MailType
  <2>5. (b <=> mail.pending[o.slot] /\ io.revision # mail.revision)
        /\ (g <=> mail.guarded /\ ~(o.slot = Touch /\ mail.desired[o.slot] = o.value))
    OBVIOUS
  <2> HIDE DEF b, g
  <2>6. p \in [Slots -> BOOLEAN] /\ p[o.slot] = b
        /\ \A s \in Slots \ {o.slot} : p[s] = mail.pending[s]
    BY <2>1, <2>3, Fields
  <2> HIDE DEF w, p, done
  <2>7. /\ mail' \in MailType /\ mail'.input = mail.input
        /\ mail'.desired = mail.desired /\ mail'.full = mail.full /\ mail'.revision = mail.revision
        /\ mail'.writing = Nothing /\ mail'.stop = mail.stop
        /\ mail'.sent = w /\ mail'.pending = p /\ mail'.guarded = g
    BY <1>2, <2>2, <2>3, <2>4, <2>6 DEF MailType
  <2>8. alive => \A s \in Slots : w[s] = Nothing \/ w[s] = unit.shown[s]
    BY <1>1, <1>3, <2>1, <2>2, Fields DEF Agreed, Credits
  <2>9. ASSUME alive, HasTouch, mail.full, ~g, ~p[Touch]
        PROVE  unit.shown[Touch] \in asked
    <3>1. Touch \in Slots
      BY <2>9, SlotsFinite
    <3>2. CASE o.slot = Touch
      <4>1. unit.shown[Touch] = o.value
        BY <1>1, <2>1, <2>9, <3>2, Fields DEF Agreed, Credits
      <4>2. \/ o.value \in asked \/ mail.guarded
            \/ (mail.pending[Touch] /\ io.revision # mail.revision)
        BY <1>1, <1>6, <2>9, <3>2, Fields DEF Strip, Flying
      <4>3. ~b
        BY <2>6, <2>9, <3>2
      <4>4. o.value \in asked \/ mail.desired[Touch] = o.value
        BY <2>5, <2>9, <3>2, <4>2, <4>3
      <4>5. o.value \in asked
        BY <2>9, <3>1, <4>4, Fields DEF Wanted
      <4>6. QED
        BY <4>1, <4>5
    <3>3. CASE o.slot # Touch
      <4>1. ~mail.guarded /\ ~mail.pending[Touch]
        BY <2>5, <2>6, <2>9, <3>1, <3>3
      <4>2. QED
        BY <2>9, <4>1, Fields DEF Strip
    <3>4. QED
      BY <3>2, <3>3
  <2>10. QED
    BY <1>1, <2>7, <2>8, <2>9, OverStep DEF Flying
<1>7. QED
  BY <1>4, <1>5, <1>6

\* The owner fails or ends: nothing is ready any more.
LEMMA EndStep ==
  ASSUME IInv, ~alive', epoch' \in {epoch, epoch + 1}, alive' \in BOOLEAN, UNCHANGED <<drained, asked>>,
         mail' \in {mail, Failed(mail)}, unit' \in UnitType,
         io' \in ThreadType, io'.pc \in {"blank", "ended"}, io'.epoch <= epoch,
         io'.revision <= mail.revision
  PROVE  IInv'
<1>1. /\ mail \in MailType /\ <<>> \in Seq(Report) /\ Len(<<>>) = 0 /\ epoch \in Nat /\ drained \in 0..epoch
      /\ Len(mail.input) <= InputLimit /\ mail.revision <= MaxRevision
  BY TypeFacts DEF IInv
<1>2. /\ mail' \in MailType /\ mail'.revision = mail.revision /\ mail'.input \in {mail.input, <<>>}
  BY <1>1 DEF Failed, MailType
<1>3. Len(mail'.input) <= InputLimit
  BY <1>1, <1>2, LimitAssumption
<1>4. epoch' \in Nat /\ drained' \in 0..epoch' /\ io'.epoch <= epoch'
  <2>1. io'.epoch \in Nat
    BY DEF ThreadType
  <2>2. QED
    BY <1>1, <2>1
<1>5. TypeOK'
  BY <1>1, <1>2, <1>3, <1>4, TypeFacts, TypeFrom DEF IInv
<1>6. QED
  BY <1>5 DEF IInv, Placed, Agreed, Wanted, Strip, Flying

LEMMA FailStep ==
  ASSUME IInv, Fail
  PROVE  IInv'
<1>1. io \in ThreadType /\ unit \in UnitType /\ io.epoch <= epoch /\ io.revision <= mail.revision
  BY TypeFacts DEF IInv
<1>2. io' \in ThreadType /\ io'.pc = "blank" /\ io'.epoch = io.epoch /\ io'.revision = io.revision
  BY <1>1, GotoThread, LabelFacts DEF Fail
<1>3. QED
  BY <1>1, <1>2, EndStep DEF Fail

LEMMA BlankStep ==
  ASSUME IInv, Blank
  PROVE  IInv'
<1>1. /\ io' \in ThreadType /\ io'.pc = "ended" /\ io'.epoch = 0 /\ io'.revision = 0
  BY DEF Blank, Thread, ThreadType, Labels
<1>2. 0 <= epoch /\ 0 <= mail.revision /\ unit \in UnitType
  BY TypeFacts DEF IInv
<1>3. unit' \in UnitType /\ mail' \in {mail, Failed(mail)} /\ epoch' \in {epoch, epoch + 1}
  <2>1. CASE unit' = [unit EXCEPT !.shown = Dark] /\ UNCHANGED <<mail, epoch>>
    BY <1>2, <2>1, DarkPaint DEF UnitType
  <2>2. CASE /\ \E lit \in SUBSET Slots :
                  unit' = [unit EXCEPT !.shown = [s \in Slots |-> IF s \in lit THEN @[s] ELSE Nothing]]
             /\ epoch' = epoch + 1 /\ mail' = Failed(mail)
    <3>1. PICK lit \in SUBSET Slots :
            unit' = [unit EXCEPT !.shown = [s \in Slots |-> IF s \in lit THEN @[s] ELSE Nothing]]
      BY <2>2
    <3> DEFINE w == [s \in Slots |-> IF s \in lit THEN unit.shown[s] ELSE Nothing]
    <3>2. w \in [Slots -> Drawn]
      BY Fields DEF Drawn
    <3>3. unit' = [unit EXCEPT !.shown = w]
      BY <1>2, <3>1
    <3> HIDE DEF w
    <3>4. QED
      BY <1>2, <2>2, <3>2, <3>3 DEF UnitType
  <2>3. QED
    BY <2>1, <2>2 DEF Blank
<1>4. QED
  BY <1>1, <1>2, <1>3, EndStep DEF Blank

LEMMA ArriveStep ==
  ASSUME IInv, NEW report \in Report, Arrive(report)
  PROVE  IInv'
<1> DEFINE q == Append(unit.reports, report)
<1>1. unit \in UnitType /\ unit.reports \in Seq(Report)
  BY TypeFacts DEF IInv, UnitType
<1>2. q \in Seq(Report)
  BY <1>1
<1>3. unit' = [unit EXCEPT !.reports = q]
  BY DEF Arrive
<1> HIDE DEF q
<1>4. unit' \in UnitType /\ unit'.shown = unit.shown
  BY <1>1, <1>2, <1>3 DEF UnitType
<1>5. mail' = mail /\ alive' = alive /\ epoch' = epoch /\ drained' = drained /\ io' = io /\ asked' = asked
  BY DEF Arrive
<1>6. TypeOK'
  BY <1>4, <1>5, TypeFacts, TypeFrom DEF IInv
<1>7. QED
  BY <1>4, <1>5, <1>6 DEF IInv, Placed, Agreed, Wanted, Strip, Flying, Credits

-----------------------------------------------------------------------------
(* The theorems.                                                           *)

LEMMA InitIInv == Init => IInv
<1> SUFFICES ASSUME Init PROVE IInv
  OBVIOUS
<1> DEFINE p == [s \in Slots |-> FALSE]
<1>1. /\ mail = Mailbox /\ io = Thread /\ alive = TRUE /\ epoch = 1 /\ drained = 0 /\ asked = {}
      /\ unit = [shown |-> Dark, level |-> Nothing, reports |-> <<>>]
  BY DEF Init, Spawned
<1>2. /\ Dark \in [Slots -> Drawn] /\ \A s \in Slots : Dark[s] = Nothing
      /\ p \in [Slots -> BOOLEAN] /\ 0 \in Slots /\ <<>> \in Seq(Report) /\ Len(<<>>) = 0
  BY DarkPaint, SlotsFinite
<1>3. Mailbox = [desired |-> Dark, sent |-> Dark, pending |-> p, brightness |-> Nothing,
                 input |-> <<>>, stop |-> FALSE, error |-> FALSE, full |-> FALSE,
                 writing |-> Nothing, revision |-> 0, guarded |-> FALSE, cursor |-> 0]
  BY DEF Mailbox
<1> HIDE DEF p
<1>4. /\ mail \in MailType /\ mail.desired = Dark /\ mail.sent = Dark /\ ~mail.full /\ ~mail.stop
      /\ mail.writing = Nothing /\ mail.revision = 0 /\ mail.input = <<>>
  BY <1>1, <1>2, <1>3 DEF MailType
<1>5. unit \in UnitType /\ unit.shown = Dark
  BY <1>1, <1>2 DEF UnitType
<1>6. io \in ThreadType /\ io.pc = "top" /\ io.epoch = 0 /\ io.revision = 0 /\ io.event = Nothing
      /\ io.output = Nothing
  BY <1>1 DEF Thread, ThreadType, Labels
<1>7. TypeOK
  <2>1. /\ io \in [pc : Labels, epoch : 0..epoch, revision : 0..mail.revision,
                   event : Report \cup {Nothing}, output : Output \cup {Nothing}]
    BY <1>1, <1>4, <1>6 DEF Thread, Labels
  <2>2. Len(mail.input) <= InputLimit /\ mail.revision <= MaxRevision
    BY <1>2, <1>4, LimitAssumption
  <2>3. QED
    BY <1>1, <1>4, <1>5, <2>1, <2>2 DEF TypeOK, MailType, UnitType, Drawn, Labels
<1>8. Placed /\ Agreed /\ Wanted /\ Strip
  BY <1>1, <1>2, <1>4, <1>5, <1>6, SlotsFinite DEF Placed, Agreed, Wanted, Strip, Flying, Credits
<1>9. QED
  BY <1>7, <1>8 DEF IInv

LEMMA NextIInv == IInv /\ [Next]_vars => IInv'
<1> SUFFICES ASSUME IInv, [Next]_vars PROVE IInv'
  OBVIOUS
<1>1. CASE HostStep
  BY <1>1, HostStepStep
<1>2. CASE Turn
  BY <1>2, TopStep, ProbeStep, DepositStep, SelectStep, IssueStep, WriteStep, CreditStep, SkipStep,
     FailStep, BlankStep DEF Turn
<1>3. CASE \E report \in Report : Arrive(report)
  BY <1>3, ArriveStep
<1>4. CASE UNCHANGED vars
  BY <1>4 DEF vars, IInv, TypeOK, Placed, Agreed, Wanted, Strip, Flying, Credits
<1>5. QED
  BY <1>1, <1>2, <1>3, <1>4 DEF Next

\* The thread and the mailbox stay in step, whatever the host does between two
\* of the thread's acquisitions of the mutex (run() in actor.rs).
THEOREM Invariance == Spec => []IInv
BY InitIInv, NextIInv, PTL DEF Spec

\* The mailbox, the thread's locals and the generations keep their types; input
\* never exceeds INPUT_LIMIT.
THEOREM TypeCorrect == Spec => []TypeOK
<1>1. IInv => TypeOK
  BY DEF IInv
<1>2. QED
  BY <1>1, Invariance, PTL

\* What `sent` credits to the unit is what the unit shows: an identical picture
\* may be suppressed (finish() in actor.rs).
THEOREM CreditIsDue == Spec => []SentIsShown
<1>1. IInv => SentIsShown
  BY DEF IInv, SentIsShown, Agreed, Placed, Flying, Credits
<1>2. QED
  BY <1>1, Invariance, PTL

LEMMA ReadyCurrent ==
  ASSUME IInv
  PROVE  ReadyIsCurrent
<1> SUFFICES ASSUME Ready
             PROVE  /\ \A k \in Keys : unit.shown[k] = mail.desired[k]
                    /\ HasTouch => unit.shown[Touch] \in asked
  BY DEF ReadyIsCurrent
<1>1. alive /\ mail.full /\ ~mail.guarded /\ mail.writing \notin Keys \cup {Light}
      /\ (\A s \in Slots : ~mail.pending[s]) /\ \A k \in Keys : mail.desired[k] = mail.sent[k]
  BY DEF Ready
<1>2. ASSUME NEW k \in Keys PROVE unit.shown[k] = mail.desired[k]
  <2>1. k \in Slots
    BY SlotsFinite
  <2>2. mail.desired[k] # Nothing /\ mail.desired[k] = mail.sent[k]
    BY <1>1, <2>1 DEF IInv, Wanted
  <2>3. ~(Credits /\ io.output.slot = k)
    BY <1>1 DEF IInv, Placed, Flying, Credits
  <2>4. QED
    BY <1>1, <2>1, <2>2, <2>3 DEF IInv, Agreed
<1>3. HasTouch => unit.shown[Touch] \in asked
  BY <1>1, SlotsFinite DEF IInv, Strip
<1>4. QED
  BY <1>2, <1>3

\* Lease::ready tells the truth about every key and about the strip.
THEOREM ReadyIsTrue == Spec => []ReadyIsCurrent
<1>1. IInv => ReadyIsCurrent
  BY ReadyCurrent
<1>2. QED
  BY <1>1, Invariance, PTL

-----------------------------------------------------------------------------
(* The session of the manager.                                             *)

Contexts == [connection : Nat, binding : Nat, lockEpoch : Nat]
Sessions ==
  [device : {"none", "opened", "attached"}, connection : Nat, binding : Nat, lockEpoch : Nat,
   layout : BOOLEAN, blocked : BOOLEAN, draining : BOOLEAN,
   held : SUBSET Control, armed : SUBSET Control, brightness : Level]
Managers ==
  [pc : {"idle", "look", "judge", "more"}, left : 0..DrainBudget,
   event : Report \cup {Nothing}, drained : BOOLEAN]

Typed ==
  /\ sess \in Sessions /\ mgr \in Managers /\ era \in Nat
  /\ pressed \in [Control -> Contexts \cup {Nothing}]

\* Every fence takes an era, and the device is polled only while attached.
Counted ==
  /\ sess.connection <= era /\ sess.connection <= MaxEra
  /\ sess.binding <= era + 1 /\ sess.binding <= MaxEra + 1
  /\ sess.lockEpoch <= era /\ sess.lockEpoch <= MaxEra
  /\ era <= MaxEra + 1
  /\ sess.device # "none" => era <= MaxEra
  /\ mgr.pc # "idle" => Attached
  /\ mgr.pc = "more" => mgr.left > 0

\* What is armed was pressed in the present context, and the other way round;
\* no press is of a context to come.
Armed ==
  /\ sess.armed \subseteq sess.held
  /\ sess.armed # {} => Attached /\ ~sess.draining /\ ~sess.blocked /\ sess.layout
  /\ \A c \in sess.armed : pressed[c] = Context
  /\ \A c \in Control : pressed[c] # Nothing =>
       /\ pressed[c].connection <= sess.connection
       /\ pressed[c].binding <= sess.binding
       /\ pressed[c].lockEpoch <= sess.lockEpoch
       /\ pressed[c] = Context /\ Attached => c \in sess.armed

\* What a living owner shows completely was painted in the present context.
Painted ==
  alive /\ mail.full => sess.device # "opened" /\ (Attached => painted = Context)

SessionInv == Typed /\ Counted /\ Armed /\ Painted /\ DownOnOwnPage
SessionIInv == IInv /\ SessionInv

-----------------------------------------------------------------------------
(* The owner, as the manager calls it.                                     *)

LEMMA ContextTyped ==
  ASSUME Typed
  PROVE  Context \in Contexts /\ Context # Nothing
BY SessionAssumption DEF Typed, Sessions, Contexts, Context

\* Pool::spawn starts as DeviceActor does, but the unit may still show something.
LEMMA SpawnStep ==
  ASSUME IInv, Spawn
  PROVE  IInv' /\ ~mail'.full
<1> DEFINE p == [s \in Slots |-> FALSE]
<1>1. /\ mail' = Mailbox /\ io' = Thread /\ alive' = TRUE /\ epoch' = 1 /\ drained' = 0
      /\ asked' = {} /\ unit' = [unit EXCEPT !.reports = <<>>]
  BY DEF Spawn
<1>2. /\ Dark \in [Slots -> Drawn] /\ \A s \in Slots : Dark[s] = Nothing
      /\ p \in [Slots -> BOOLEAN] /\ 0 \in Slots /\ <<>> \in Seq(Report) /\ Len(<<>>) = 0
  BY DarkPaint, SlotsFinite
<1>3. Mailbox = [desired |-> Dark, sent |-> Dark, pending |-> p, brightness |-> Nothing,
                 input |-> <<>>, stop |-> FALSE, error |-> FALSE, full |-> FALSE,
                 writing |-> Nothing, revision |-> 0, guarded |-> FALSE, cursor |-> 0]
  BY DEF Mailbox
<1> HIDE DEF p
<1>4. /\ mail' \in MailType /\ mail'.desired = Dark /\ mail'.sent = Dark /\ ~mail'.full
      /\ ~mail'.stop /\ mail'.writing = Nothing /\ mail'.revision = 0 /\ mail'.input = <<>>
  BY <1>1, <1>2, <1>3 DEF MailType
<1>5. unit' \in UnitType
  BY <1>1, <1>2, TypeFacts DEF IInv, UnitType
<1>6. io' \in ThreadType /\ io'.pc = "top" /\ io'.epoch = 0 /\ io'.revision = 0
  BY <1>1 DEF Thread, ThreadType, Labels
<1>7. TypeOK'
  BY <1>1, <1>2, <1>4, <1>5, <1>6, TypeFrom, LimitAssumption
<1>8. Placed' /\ Agreed' /\ Wanted' /\ Strip'
  BY <1>1, <1>2, <1>4, <1>6, SlotsFinite DEF Placed, Agreed, Wanted, Strip, Flying, Credits
<1>9. QED
  BY <1>4, <1>7, <1>8 DEF IInv

\* Whether the mailbox is full, and its owner alive.
Faded == mail'.full /\ alive' => mail.full /\ alive

LEMMA TurnFades ==
  ASSUME IInv, Turn
  PROVE  Faded
<1>1. mail \in MailType
  BY TypeFacts DEF IInv
<1>2. CASE Top \/ Probe \/ Issue \/ Write
  BY <1>2 DEF Top, Probe, Issue, Write, Faded
<1>3. CASE Deposit \/ Select \/ Skip
  BY <1>1, <1>3 DEF Deposit, Select, Skip, MailType, Faded
<1>4. CASE Credit
  <2>1. mail'.full = mail.full
    BY <1>1, <1>4 DEF Credit, Credited, MailType
  <2>2. QED
    BY <1>4, <2>1 DEF Credit, Faded
<1>5. CASE Fail \/ Blank
  BY <1>5 DEF Fail, Blank, Faded
<1>6. QED
  BY <1>2, <1>3, <1>4, <1>5 DEF Turn

\* What the host calls, but for a frame, fills no mailbox; a fence empties it.
LEMMA HostFades ==
  ASSUME IInv,
         \/ \E level \in Level : SetBrightness(level)
         \/ \E k \in Keys, picture \in Picture : SetKeyImage(k, picture)
         \/ TakeInput \/ InvalidateOutputs \/ Shutdown
  PROVE  /\ Faded
         /\ InvalidateOutputs => ~mail'.full
         /\ SetBrightness(sess.brightness) => mail'.full = mail.full
<1>1. mail \in MailType
  BY TypeFacts DEF IInv
<1>2. ASSUME NEW level, SetBrightness(level) PROVE mail'.full = mail.full /\ alive' = alive
  BY <1>1, <1>2 DEF SetBrightness, MailType
<1>3. ASSUME NEW k \in Keys, NEW picture \in Picture, SetKeyImage(k, picture) PROVE Faded
  <2> DEFINE d == [mail.desired EXCEPT ![k] = picture]
  <2>1. mail' = [mail EXCEPT !.desired = d] /\ alive' = alive
    BY <1>3 DEF SetKeyImage
  <2> HIDE DEF d
  <2>2. QED
    BY <1>1, <2>1 DEF MailType, Faded
<1>4. ASSUME TakeInput PROVE Faded
  BY <1>1, <1>4 DEF TakeInput, MailType, Faded
<1>5. ASSUME InvalidateOutputs PROVE ~mail'.full
  BY <1>1, <1>5 DEF InvalidateOutputs, Fenced, MailType
<1>6. ASSUME Shutdown PROVE Faded
  BY <1>6 DEF Shutdown, Faded
<1>7. QED
  BY <1>2, <1>3, <1>4, <1>5, <1>6 DEF Faded

\* Every step of the session moves the owner as DeviceActor allows.
LEMMA OwnerKeeps ==
  ASSUME IInv, Typed, Counted, SessionNext
  PROVE  IInv'
<1>1. ASSUME UNCHANGED vars PROVE IInv'
  BY <1>1, NextIInv
<1>2. ASSUME NEW level \in Level, SetBrightness(level) PROVE IInv'
  BY <1>2, HostStepStep DEF HostStep
<1>3. ASSUME Shutdown PROVE IInv'
  BY <1>3, StopStep
<1>4. ASSUME FenceDevice PROVE IInv'
  BY <1>1, <1>4, InvalidateOutputsStep DEF FenceDevice
<1>5. ASSUME NEW frame \in Frame, QueueFrame(frame) PROVE IInv'
  BY <1>5, HostStepStep DEF HostStep
<1>6. CASE Spawn
  BY <1>6, SpawnStep
<1>7. CASE Attach
  <2>1. sess.brightness \in Level
    BY DEF Typed, Sessions
  <2>2. QED
    BY <1>2, <1>3, <1>7, <2>1 DEF Attach
<1>8. CASE AttachRefused \/ Disconnect \/ StopAll
  BY <1>1, <1>3, <1>8 DEF AttachRefused, Disconnect, FailSession, StopAll
<1>9. CASE Configure \/ Page \/ InvalidateBinding \/ \E blocked \in BOOLEAN : FenceGate(blocked)
  BY <1>4, <1>9 DEF Configure, Page, InvalidateBinding, FenceGate
<1>10. CASE \E level \in Chosen : Brightness(level)
  BY <1>1, <1>2, <1>3, <1>10, SessionAssumption DEF Brightness, OnDevice
<1>11. CASE \E frame \in Frame : Paint(frame) \/ PaintGated(frame)
  BY <1>3, <1>5, <1>11 DEF Paint, PaintGated, OnDevice
<1>12. CASE \E k \in Keys, picture \in Picture : WriteKey(k, picture)
  BY <1>3, <1>12, SetKeyImageStep DEF WriteKey, OnDevice
<1>13. CASE Poll
  <2>1. ASSUME TakeInput PROVE IInv'
    BY <2>1, HostStepStep DEF HostStep
  <2>2. QED
    BY <1>1, <1>3, <1>13, <2>1
    DEF Poll, Pop, Look, JudgeNothing, JudgeEvent, JudgeInvalid, FailSession
<1>14. CASE OwnerStep
  BY <1>14, NextIInv DEF OwnerStep, Next
<1>15. CASE UserActs
  <2>1. PICK kind \in Kind, c \in Control :
          Arrive([kind |-> kind, control |-> c, at |-> IF Stamped THEN Context ELSE Nothing])
    BY <1>15 DEF UserActs
  <2>2. Stamped => Context \in [connection : 0..MaxEra, binding : 0..(MaxEra + 1),
                                lockEpoch : 0..MaxEra]
    BY SessionAssumption DEF Typed, Sessions, Counted, Context
  <2>3. [kind |-> kind, control |-> c, at |-> IF Stamped THEN Context ELSE Nothing] \in Report
    BY <2>2, ReportAssumption
  <2>4. QED
    BY <2>1, <2>3, ArriveStep
<1>16. QED
  BY <1>6, <1>7, <1>8, <1>9, <1>10, <1>11, <1>12, <1>13, <1>14, <1>15 DEF SessionNext, Call
-----------------------------------------------------------------------------
(* The session.                                                            *)

LEMMA PollerTyped == Poller \in Managers
BY SessionAssumption DEF Poller, Managers

\* The context stays, nothing is armed or disarmed.
LEMMA StayStep ==
  ASSUME SessionInv, sess' \in Sessions,
         sess'.device = sess.device, sess'.connection = sess.connection,
         sess'.binding = sess.binding, sess'.lockEpoch = sess.lockEpoch,
         sess'.layout = sess.layout, sess'.blocked = sess.blocked,
         sess'.held = sess.held, sess'.armed = sess.armed, sess'.draining => sess.draining,
         mgr' \in Managers, mgr'.pc = "idle" \/ Attached, mgr'.pc # "more" \/ mgr'.left > 0,
         era' = era, pressed' = pressed, out' = Nothing,
         (Faded /\ painted' = painted) \/ (Attached /\ painted' = Context)
  PROVE  SessionInv'
<1>1. Context' = Context /\ (Attached' <=> Attached)
  BY DEF Context, Attached
<1>2. Typed' /\ Counted'
  BY <1>1 DEF SessionInv, Typed, Counted
<1>3. Armed'
  BY <1>1 DEF SessionInv, Armed
<1>4. Painted'
  BY <1>1 DEF SessionInv, Painted, Faded, Attached
<1>5. QED
  BY <1>2, <1>3, <1>4 DEF SessionInv, DownOnOwnPage

\* Everything is disarmed, and a device in use gets another context.
LEMMA FenceStep ==
  ASSUME SessionInv, sess' \in Sessions, sess'.armed = {},
         sess'.connection \in {sess.connection, sess.connection + 1},
         sess'.binding \in {sess.binding, sess.binding + 1},
         sess'.lockEpoch \in {sess.lockEpoch, sess.lockEpoch + 1},
         sess'.device = "attached" =>
           \/ sess'.connection = sess.connection + 1
           \/ sess'.binding = sess.binding + 1
           \/ sess'.lockEpoch = sess.lockEpoch + 1,
         mgr' \in Managers, mgr'.pc = "idle", era' \in Nat, Counted',
         pressed' = pressed, out' = Nothing,
         alive' /\ mail'.full => sess'.device = "none"
  PROVE  SessionInv'
<1>1. Typed'
  BY DEF SessionInv, Typed
<1>2. Armed'
  <2> SUFFICES ASSUME NEW c \in Control, pressed[c] # Nothing
               PROVE  /\ pressed[c].connection <= sess'.connection
                      /\ pressed[c].binding <= sess'.binding
                      /\ pressed[c].lockEpoch <= sess'.lockEpoch
                      /\ ~(pressed[c] = Context' /\ Attached')
    BY DEF Armed
  <2>1. /\ pressed[c].connection \in Nat /\ pressed[c].connection <= sess.connection
        /\ pressed[c].binding \in Nat /\ pressed[c].binding <= sess.binding
        /\ pressed[c].lockEpoch \in Nat /\ pressed[c].lockEpoch <= sess.lockEpoch
        /\ sess.connection \in Nat /\ sess.binding \in Nat /\ sess.lockEpoch \in Nat
    BY DEF SessionInv, Armed, Typed, Contexts, Sessions
  <2>2. pressed[c] = Context' =>
          /\ pressed[c].connection = sess'.connection
          /\ pressed[c].binding = sess'.binding
          /\ pressed[c].lockEpoch = sess'.lockEpoch
    BY DEF Context
  <2>3. QED
    BY <2>1, <2>2 DEF Attached
<1>3. Painted'
  BY DEF Painted, Attached
<1>4. QED
  BY <1>1, <1>2, <1>3 DEF SessionInv, DownOnOwnPage

\* Session::fence and Session::failed.
LEMMA FencedFacts ==
  ASSUME NEW s \in Sessions
  PROVE  /\ NewlyFenced(s) \in Sessions /\ Lost(s) \in Sessions
         /\ NewlyFenced(s).armed = {} /\ NewlyFenced(s).device = s.device
         /\ NewlyFenced(s).connection = s.connection /\ NewlyFenced(s).binding = s.binding
         /\ NewlyFenced(s).lockEpoch = s.lockEpoch
         /\ Lost(s).armed = {} /\ Lost(s).device = "none"
         /\ Lost(s).connection = s.connection /\ Lost(s).binding = s.binding
         /\ Lost(s).lockEpoch = s.lockEpoch
BY DEF NewlyFenced, Lost, Sessions

\* The device of a session is given up.
LEMMA LoseStep ==
  ASSUME SessionInv, Attached, NEW s \in Sessions, sess' = Lost(s),
         s.connection = sess.connection, s.binding = sess.binding,
         s.lockEpoch = sess.lockEpoch,
         era' = era + 1, mgr' \in Managers, mgr'.pc = "idle", pressed' = pressed, out' = Nothing
  PROVE  SessionInv'
<1>1. /\ sess' \in Sessions /\ sess'.armed = {} /\ sess'.device = "none"
      /\ sess'.connection = sess.connection /\ sess'.binding = sess.binding
      /\ sess'.lockEpoch = sess.lockEpoch
  BY FencedFacts
<1>2. /\ sess.connection \in Nat /\ sess.binding \in Nat /\ sess.lockEpoch \in Nat
      /\ era \in Nat /\ MaxEra \in Nat
  BY SessionAssumption DEF SessionInv, Typed, Sessions
<1>3. Counted'
  BY <1>1, <1>2 DEF SessionInv, Counted, Attached
<1>4. QED
  BY <1>1, <1>2, <1>3, FenceStep

\* A call that gives the session another binding or lock epoch.
LEMMA ChangeStep ==
  ASSUME IInv, SessionInv, Calling, FenceDevice, NEW s \in Sessions, sess' = s,
         s.armed = {}, s.device = sess.device, s.connection = sess.connection,
         \/ s.binding = sess.binding + 1 /\ s.lockEpoch = sess.lockEpoch
         \/ s.binding = sess.binding /\ s.lockEpoch = sess.lockEpoch + 1,
         NewEra
  PROVE  SessionInv'
<1>1. /\ sess.connection \in Nat /\ sess.binding \in Nat /\ sess.lockEpoch \in Nat
      /\ era \in Nat /\ MaxEra \in Nat /\ mgr \in Managers
  BY SessionAssumption DEF SessionInv, Typed, Sessions
<1>2. era < MaxEra /\ era' = era + 1 /\ mgr' = mgr /\ mgr.pc = "idle" /\ pressed' = pressed
      /\ out' = Nothing
  BY DEF Calling, NewEra
<1>3. Counted'
  BY <1>1, <1>2 DEF SessionInv, Counted
<1>4. ASSUME alive', mail'.full PROVE sess'.device = "none"
  <2>1. CASE Attached
    BY <1>4, <2>1, HostFades DEF FenceDevice
  <2>2. CASE ~Attached
    <3>1. alive /\ mail.full
      BY <1>4, <2>2 DEF FenceDevice, vars
    <3>2. sess.device # "opened"
      BY <3>1 DEF SessionInv, Painted
    <3>3. QED
      BY <2>2, <3>2 DEF SessionInv, Typed, Sessions, Attached
  <2>3. QED
    BY <2>1, <2>2
<1>5. QED
  BY <1>1, <1>2, <1>3, <1>4, FenceStep

LEMMA ReboundFacts ==
  ASSUME NEW s \in Sessions
  PROVE  /\ NewBinding(s) \in Sessions /\ NewBinding(s).armed = {}
         /\ NewBinding(s).device = s.device /\ NewBinding(s).connection = s.connection
         /\ NewBinding(s).binding = s.binding + 1 /\ NewBinding(s).lockEpoch = s.lockEpoch
<1> DEFINE f == NewlyFenced(s)
           n == f.binding + 1
<1>1. /\ f \in Sessions /\ f.armed = {} /\ f.device = s.device /\ f.connection = s.connection
      /\ f.binding = s.binding /\ f.lockEpoch = s.lockEpoch
  BY FencedFacts
<1>2. n \in Nat /\ n = s.binding + 1
  BY <1>1 DEF Sessions
<1>3. NewBinding(s) = [f EXCEPT !.binding = n]
  BY DEF NewBinding
<1> HIDE DEF f, n
<1>4. QED
  BY <1>1, <1>2, <1>3 DEF Sessions

LEMMA ChangeSteps ==
  ASSUME IInv, SessionInv,
         Configure \/ Page \/ InvalidateBinding \/ \E blocked \in BOOLEAN : FenceGate(blocked)
  PROVE  SessionInv'
<1>1. sess \in Sessions
  BY DEF SessionInv, Typed
<1>2. CASE Configure \/ Page \/ InvalidateBinding
  <2>1. Calling /\ FenceDevice /\ NewEra
    BY <1>2 DEF Configure, Page, InvalidateBinding
  <2>2. CASE sess' = NewBinding(sess)
    BY <1>1, <2>1, <2>2, ReboundFacts, ChangeStep
  <2>3. CASE sess' = [NewBinding(sess) EXCEPT !.layout = TRUE]
    <3> DEFINE s == NewBinding(sess)
               t == [s EXCEPT !.layout = TRUE]
    <3>1. /\ s \in Sessions /\ s.armed = {} /\ s.device = sess.device
          /\ s.connection = sess.connection /\ s.binding = sess.binding + 1
          /\ s.lockEpoch = sess.lockEpoch
      BY <1>1, ReboundFacts
    <3> HIDE DEF s
    <3>2. /\ t \in Sessions /\ t.armed = {} /\ t.device = sess.device
          /\ t.connection = sess.connection /\ t.binding = sess.binding + 1
          /\ t.lockEpoch = sess.lockEpoch
      BY <3>1 DEF Sessions
    <3>3. sess' = t
      BY <2>3 DEF s
    <3> HIDE DEF t
    <3>4. QED
      BY <2>1, <3>2, <3>3, ChangeStep
  <2>4. QED
    BY <1>2, <2>2, <2>3 DEF Configure, Page, InvalidateBinding
<1>3. ASSUME NEW blocked \in BOOLEAN, FenceGate(blocked) PROVE SessionInv'
  <2> DEFINE s == NewlyFenced(sess)
             n == s.lockEpoch + 1
             t == [s EXCEPT !.blocked = blocked, !.lockEpoch = n]
  <2>1. /\ s \in Sessions /\ s.armed = {} /\ s.device = sess.device
        /\ s.connection = sess.connection /\ s.binding = sess.binding
        /\ s.lockEpoch = sess.lockEpoch
    BY <1>1, FencedFacts
  <2>2. Calling /\ FenceDevice /\ NewEra /\ sess' = t
    BY <1>3 DEF FenceGate
  <2>n. n \in Nat /\ n = sess.lockEpoch + 1
    BY <2>1 DEF Sessions
  <2> HIDE DEF s, n
  <2>3. /\ t \in Sessions /\ t.armed = {} /\ t.device = sess.device
        /\ t.connection = sess.connection /\ t.binding = sess.binding
        /\ t.lockEpoch = sess.lockEpoch + 1
    BY <2>1, <2>n DEF Sessions
  <2> HIDE DEF t
  <2>4. QED
    BY <2>2, <2>3, ChangeStep
<1>4. QED
  BY <1>2, <1>3

\* A session whose device is not in use has nothing armed.
LEMMA Resting ==
  ASSUME SessionInv
  PROVE  /\ sess \in Sessions /\ mgr \in Managers /\ era \in Nat /\ MaxEra \in Nat
         /\ sess.connection \in Nat /\ sess.binding \in Nat /\ sess.lockEpoch \in Nat
         /\ ~Attached => sess.armed = {}
BY SessionAssumption DEF SessionInv, Typed, Sessions, Armed

\* The device is opened, refused, attached or stopped.
LEMMA OpenSteps ==
  ASSUME IInv, SessionInv, Spawn \/ AttachRefused
  PROVE  SessionInv'
<1>1. PICK d \in {"none", "opened"} : sess' = [sess EXCEPT !.device = d]
  BY DEF Spawn, AttachRefused
<1>2. /\ Calling /\ era' = era /\ mgr' = mgr /\ pressed' = pressed /\ out' = Nothing
      /\ ~Attached
  BY DEF Spawn, AttachRefused, SameEra, Attached
<1>3. /\ sess' \in Sessions /\ sess'.armed = {} /\ sess'.device = d
      /\ sess'.connection = sess.connection /\ sess'.binding = sess.binding
      /\ sess'.lockEpoch = sess.lockEpoch
  BY <1>1, <1>2, Resting DEF Sessions
<1>4. alive' /\ mail'.full => FALSE
  BY SpawnStep DEF AttachRefused, Shutdown
<1>5. era < MaxEra /\ mgr.pc = "idle"
  BY <1>2 DEF Calling
<1>6. Counted'
  BY <1>2, <1>3, <1>5, Resting DEF SessionInv, Counted
<1>7. QED
  BY <1>2, <1>3, <1>4, <1>5, <1>6, Resting, FenceStep

LEMMA AttachStep ==
  ASSUME IInv, SessionInv, Attach
  PROVE  SessionInv'
<1> DEFINE f == NewlyFenced(sess)
           n == f.connection + 1
           s == [f EXCEPT !.connection = n, !.held = {}]
<1>1. /\ f \in Sessions /\ f.armed = {} /\ f.connection = sess.connection
      /\ f.binding = sess.binding /\ f.lockEpoch = sess.lockEpoch
  BY FencedFacts, Resting
<1>2. n \in Nat /\ n = sess.connection + 1
  BY <1>1, Resting
<1>3. \/ SetBrightness(sess.brightness) /\ sess' = [s EXCEPT !.device = "attached"]
      \/ Shutdown /\ sess' = Lost(s)
  BY DEF Attach
<1>4. /\ era < MaxEra /\ era' = era + 1 /\ mgr' = mgr /\ mgr.pc = "idle" /\ pressed' = pressed
      /\ out' = Nothing /\ sess.device = "opened"
  BY DEF Attach, NewEra, Calling
<1> HIDE DEF f, n
<1>5. /\ s \in Sessions /\ s.armed = {} /\ s.connection = n
      /\ s.binding = sess.binding /\ s.lockEpoch = sess.lockEpoch
  BY <1>1, <1>2 DEF Sessions
<1> HIDE DEF s
<1>6. /\ sess' \in Sessions /\ sess'.armed = {} /\ sess'.connection = sess.connection + 1
      /\ sess'.binding = sess.binding /\ sess'.lockEpoch = sess.lockEpoch
  <2>1. CASE sess' = Lost(s)
    BY <1>2, <1>5, <2>1, FencedFacts
  <2>2. CASE sess' = [s EXCEPT !.device = "attached"]
    BY <1>2, <1>5, <2>2 DEF Sessions
  <2>3. QED
    BY <1>3, <2>1, <2>2
<1>7. alive' /\ mail'.full => FALSE
  <2>1. CASE Shutdown
    BY <2>1 DEF Shutdown
  <2>2. CASE SetBrightness(sess.brightness)
    <3>1. sess.brightness \in Level
      BY Resting DEF Sessions
    <3>2. Faded
      BY <2>2, <3>1, HostFades
    <3>3. QED
      BY <1>4, <3>2 DEF SessionInv, Painted, Faded
  <2>3. QED
    BY <1>3, <2>1, <2>2
<1>8. Counted'
  BY <1>4, <1>6, Resting DEF SessionInv, Counted
<1>9. QED
  BY <1>4, <1>6, <1>7, <1>8, Resting, FenceStep

LEMMA StopSteps ==
  ASSUME IInv, SessionInv, Disconnect \/ StopAll
  PROVE  SessionInv'
<1>1. CASE Attached
  <2>1. /\ sess' = Lost(sess) /\ era' = era + 1 /\ mgr' = mgr /\ mgr.pc = "idle"
        /\ pressed' = pressed /\ out' = Nothing
    BY <1>1 DEF Disconnect, FailSession, StopAll, NewEra, Calling
  <2>2. QED
    BY <1>1, <2>1, Resting, LoseStep
<1>2. CASE ~Attached
  <2> DEFINE f == NewlyFenced(sess)
  <2>1. /\ f \in Sessions /\ f.armed = {} /\ f.device = sess.device
        /\ f.connection = sess.connection
        /\ f.binding = sess.binding /\ f.lockEpoch = sess.lockEpoch
    BY FencedFacts, Resting
  <2>2. /\ sess' = [f EXCEPT !.held = {}] /\ era' = era + 1 /\ mgr' = mgr /\ mgr.pc = "idle"
        /\ pressed' = pressed /\ out' = Nothing /\ era < MaxEra /\ UNCHANGED vars
    BY <1>2 DEF Disconnect, StopAll, NewEra, Calling
  <2> HIDE DEF f
  <2>3. /\ sess' \in Sessions /\ sess'.armed = {} /\ sess'.device = sess.device
        /\ sess'.connection = sess.connection
        /\ sess'.binding = sess.binding /\ sess'.lockEpoch = sess.lockEpoch
    BY <2>1, <2>2 DEF Sessions
  <2>4. Counted'
    BY <2>2, <2>3, Resting DEF SessionInv, Counted
  <2>5. alive' /\ mail'.full => sess.device = "none"
    <3>1. sess.device \in {"none", "opened"}
      BY <1>2, Resting DEF Sessions, Attached
    <3>2. QED
      BY <2>2, <3>1 DEF SessionInv, Painted, vars
  <2>6. QED
    BY <1>2, <2>2, <2>3, <2>4, <2>5, Resting, FenceStep DEF Attached
<1>3. QED
  BY <1>1, <1>2

\* A call on the device in use, which may find it gone.
LEMMA BrightnessStep ==
  ASSUME IInv, SessionInv, NEW level \in Chosen, Brightness(level)
  PROVE  SessionInv'
<1> DEFINE s == [sess EXCEPT !.brightness = level]
<1>1. /\ s \in Sessions /\ s.device = sess.device /\ s.connection = sess.connection
      /\ s.binding = sess.binding /\ s.lockEpoch = sess.lockEpoch /\ s.layout = sess.layout
      /\ s.blocked = sess.blocked /\ s.held = sess.held /\ s.armed = sess.armed
      /\ s.draining = sess.draining
  BY Resting, SessionAssumption DEF Sessions
<1>2. /\ mgr' = mgr /\ mgr.pc = "idle" /\ pressed' = pressed /\ painted' = painted
      /\ out' = Nothing /\ level \in Level
  BY SessionAssumption DEF Brightness, Calling
<1>3. \/ /\ SetBrightness(level) \/ UNCHANGED vars
         /\ sess' = s /\ era' = era
      \/ Attached /\ Shutdown /\ sess' = Lost(s) /\ era' = era + 1
  BY DEF Brightness, OnDevice, SetBrightness
<1> HIDE DEF s
<1>4. CASE SetBrightness(level) \/ UNCHANGED vars
  <2>1. Faded
    BY <1>2, <1>4, HostFades DEF vars, Faded
  <2>2. CASE sess' = s /\ era' = era
    <3>1. mgr' \in Managers /\ mgr'.pc = "idle"
      BY <1>2, Resting
    <3>2. QED
      BY <1>1, <1>2, <2>1, <2>2, <3>1, StayStep
  <2>3. CASE Attached /\ sess' = Lost(s) /\ era' = era + 1
    BY <1>1, <1>2, <2>3, Resting, LoseStep
  <2>4. QED
    BY <1>3, <2>2, <2>3
<1>5. CASE Attached /\ Shutdown /\ sess' = Lost(s) /\ era' = era + 1
  BY <1>1, <1>2, <1>5, Resting, LoseStep
<1>6. QED
  BY <1>3, <1>4, <1>5

LEMMA DrawSteps ==
  ASSUME IInv, SessionInv,
         \/ \E frame \in Frame : Paint(frame) \/ PaintGated(frame)
         \/ \E k \in Keys, picture \in Picture : WriteKey(k, picture)
  PROVE  SessionInv'
<1>1. /\ mgr' = mgr /\ mgr.pc = "idle" /\ pressed' = pressed /\ out' = Nothing /\ Attached
  BY DEF Paint, PaintGated, WriteKey, Calling, HasContext
<1>2. CASE ~Usable
  <2>1. sess' = Lost(sess) /\ era' = era + 1
    BY <1>2 DEF Paint, PaintGated, WriteKey, OnDevice, QueueFrame, SetKeyImage
  <2>2. QED
    BY <1>1, <2>1, Resting, LoseStep
<1>3. CASE Usable
  <2>1. sess' = sess /\ era' = era
    BY <1>3 DEF Paint, PaintGated, WriteKey, OnDevice
  <2>2. CASE \E frame \in Frame : Paint(frame) \/ PaintGated(frame)
    <3>1. painted' = Context
      BY <1>3, <2>2 DEF Paint, PaintGated
    <3>2. QED
      BY <1>1, <2>1, <3>1, Resting, StayStep
  <2>3. CASE \E k \in Keys, picture \in Picture : WriteKey(k, picture)
    <3>1. painted' = painted /\ \E k \in Keys, picture \in Picture : SetKeyImage(k, picture)
      BY <1>3, <2>3 DEF WriteKey, OnDevice
    <3>2. Faded
      BY <3>1, HostFades
    <3>3. QED
      BY <1>1, <2>1, <3>1, <3>2, Resting, StayStep
  <2>4. QED
    BY <2>2, <2>3
<1>4. QED
  BY <1>2, <1>3

\* Nobody calls: the owner, the user, and the polls that judge no event.
LEMMA IdleSteps ==
  ASSUME IInv, SessionInv, OwnerStep \/ UserActs
  PROVE  SessionInv'
<1>1. sess' = sess /\ mgr' = mgr /\ era' = era /\ pressed' = pressed /\ painted' = painted
      /\ out' = Nothing
  BY DEF OwnerStep, UserActs
<1>2. Faded
  BY TurnFades DEF OwnerStep, UserActs, Arrive, Faded
<1>3. /\ mgr' \in Managers /\ (mgr'.pc # "idle" => Attached)
      /\ (mgr'.pc = "more" => mgr'.left > 0)
  BY <1>1, Resting DEF SessionInv, Counted
<1>4. QED
  BY <1>1, <1>2, <1>3, Resting, StayStep

LEMMA PopStep ==
  ASSUME IInv, SessionInv, Pop
  PROVE  SessionInv'
<1> DEFINE turns == IF mgr.pc = "more" THEN mgr.left
                    ELSE IF sess.draining THEN DrainBudget ELSE 1
           e == IF mail.input = <<>> THEN Nothing ELSE Head(mail.input)
<1>1. Attached /\ out' = Nothing /\ pressed' = pressed /\ painted' = painted
  BY DEF Pop
<1>2. CASE FailSession /\ mgr' = Poller
  <2>1. sess' = Lost(sess) /\ era' = era + 1 /\ mgr' = Poller /\ Poller.pc = "idle"
    BY <1>2 DEF FailSession, Poller
  <2>2. QED
    BY <1>1, <2>1, PollerTyped, Resting, LoseStep
<1>3. CASE /\ TakeInput /\ sess' = sess /\ era' = era
           /\ mgr' = [pc |-> "look", left |-> turns - 1, drained |-> FALSE, event |-> e]
  <2>1. turns \in 1..DrainBudget
    BY SessionAssumption, Resting DEF SessionInv, Counted, Managers
  <2>2. e \in Report \cup {Nothing}
    <3>1. mail.input \in Seq(Report)
      BY Fields
    <3>2. QED
      BY <3>1
  <2> DEFINE n == turns - 1
  <2>3. n \in 0..DrainBudget
    BY <2>1, SessionAssumption
  <2> HIDE DEF e, n
  <2>4. mgr' \in Managers /\ mgr'.pc = "look"
    BY <1>3, <2>2, <2>3 DEF Managers, n
  <2>5. Faded
    BY <1>3, HostFades
  <2>6. QED
    BY <1>1, <1>3, <2>4, <2>5, Resting, StayStep
<1>4. QED
  BY <1>2, <1>3 DEF Pop

LEMMA LookSteps ==
  ASSUME IInv, SessionInv, Look \/ JudgeNothing \/ JudgeInvalid
  PROVE  SessionInv'
<1>1. /\ Attached /\ mgr.pc # "idle" /\ out' = Nothing /\ pressed' = pressed /\ painted' = painted
  BY DEF SessionInv, Counted, Look, JudgeNothing, JudgeInvalid
<1>2. Poller.pc = "idle"
  BY DEF Poller
<1>3. CASE Look
  <2>1. sess' = sess /\ era' = era /\ Faded
    BY <1>3 DEF Look, vars, Faded
  <2>2. mgr' \in Managers /\ mgr'.pc = "judge"
    BY <1>3, Resting DEF Look, InputDrained, Managers
  <2>3. QED
    BY <1>1, <2>1, <2>2, Resting, StayStep
<1>4. CASE JudgeNothing
  <2> DEFINE d == StillDraining(sess, mgr.drained)
  <2>1. sess' = [sess EXCEPT !.draining = d] /\ era' = era /\ mgr' = Poller /\ Faded
    BY <1>4 DEF JudgeNothing, vars, Faded
  <2>2. d \in BOOLEAN /\ (d => sess.draining)
    BY Resting DEF StillDraining
  <2> HIDE DEF d
  <2>3. /\ sess' \in Sessions /\ sess'.device = sess.device /\ sess'.connection = sess.connection
        /\ sess'.binding = sess.binding /\ sess'.lockEpoch = sess.lockEpoch
        /\ sess'.layout = sess.layout /\ sess'.blocked = sess.blocked
        /\ sess'.held = sess.held /\ sess'.armed = sess.armed /\ sess'.draining = d
    BY <2>1, <2>2, Resting DEF Sessions
  <2>4. QED
    BY <1>1, <1>2, <2>1, <2>2, <2>3, PollerTyped, StayStep
<1>5. CASE JudgeInvalid
  <2>1. sess' = Lost(sess) /\ era' = era + 1 /\ mgr' = Poller
    BY <1>5 DEF JudgeInvalid, FailSession
  <2>2. QED
    BY <1>1, <1>2, <2>1, PollerTyped, Resting, LoseStep
<1>6. QED
  BY <1>3, <1>4, <1>5

\* What accept makes of the event that poll_round has found.
Gated == sess.blocked \/ ~sess.layout \/ sess.draining \/ Hidden(mgr.event)
Verdict == Accept(sess, mgr.event, Gated)

LEMMA VerdictFacts ==
  ASSUME SessionInv, mgr.event # Nothing, mgr.event.kind # "invalid"
  PROVE  /\ mgr.event \in Report /\ mgr.event.control \in Control
         /\ mgr.event.kind \in {"down", "up", "turn"}
         /\ mgr.event.kind = "down" =>
              /\ Verdict.held = sess.held \cup {mgr.event.control}
              /\ Verdict.armed = IF Verdict.deliver THEN sess.armed \cup {mgr.event.control}
                                                    ELSE sess.armed
              /\ Verdict.deliver <=> (mgr.event.control \notin sess.held /\ ~Gated)
         /\ mgr.event.kind = "up" =>
              /\ Verdict.held = sess.held \ {mgr.event.control}
              /\ Verdict.armed = sess.armed \ {mgr.event.control}
              /\ Verdict.deliver <=> (mgr.event.control \in sess.armed /\ ~Gated)
         /\ mgr.event.kind = "turn" =>
              Verdict.held = sess.held /\ Verdict.armed = sess.armed
<1>1. /\ mgr.event \in Report /\ mgr.event.control \in Control
      /\ mgr.event.kind \in {"down", "up", "turn"}
  BY Resting, ReportAssumption, SessionAssumption DEF Managers
<1>2. CASE mgr.event.kind = "down"
  <2>1. Verdict =
          [held |-> sess.held \cup {mgr.event.control},
           armed |-> IF mgr.event.control \in sess.held \/ Gated THEN sess.armed
                     ELSE sess.armed \cup {mgr.event.control},
           deliver |-> mgr.event.control \notin sess.held /\ ~Gated]
    BY <1>2 DEF Verdict, Accept
  <2>2. QED
    BY <1>1, <1>2, <2>1
<1>3. CASE mgr.event.kind = "up"
  <2>1. Verdict =
          [held |-> sess.held \ {mgr.event.control}, armed |-> sess.armed \ {mgr.event.control},
           deliver |-> mgr.event.control \in sess.armed /\ ~Gated]
    BY <1>3 DEF Verdict, Accept
  <2>2. QED
    BY <1>1, <1>3, <2>1
<1>4. CASE mgr.event.kind = "turn"
  <2>1. Verdict = [held |-> sess.held, armed |-> sess.armed, deliver |-> ~Gated]
    BY <1>4 DEF Verdict, Accept
  <2>2. QED
    BY <1>1, <1>4, <2>1
<1>5. QED
  BY <1>1, <1>2, <1>3, <1>4

\* What is armed may be delivered when it is released.
LEMMA ReleaseFacts ==
  ASSUME SessionInv, mgr.event # Nothing, mgr.event.kind = "up",
         mgr.event.control \in sess.armed
  PROVE  Verdict.deliver
BY VerdictFacts DEF SessionInv, Armed, Gated, Hidden

LEMMA JudgeFacts ==
  ASSUME SessionInv, JudgeEvent
  PROVE  /\ mgr.event # Nothing /\ mgr.event.kind # "invalid"
         /\ sess' = [sess EXCEPT !.held = Verdict.held, !.armed = Verdict.armed]
         /\ out' = IF Verdict.deliver THEN [event |-> mgr.event, context |-> Context]
                   ELSE Nothing
         /\ mgr.event.kind = "turn" \/ ~Verdict.deliver => pressed' = pressed
         /\ mgr.event.kind = "down" /\ Verdict.deliver =>
              pressed' = [pressed EXCEPT ![mgr.event.control] = Context]
         /\ mgr.event.kind = "up" /\ Verdict.deliver =>
              pressed' = [pressed EXCEPT ![mgr.event.control] = Nothing]
         /\ mgr' = (IF Verdict.deliver \/ mgr.left = 0 THEN Poller
                    ELSE [Poller EXCEPT !.pc = "more", !.left = mgr.left])
         /\ UNCHANGED <<vars, era, painted>> /\ Attached
BY DEF JudgeEvent, Verdict, Gated, SessionInv, Counted

\* The presses and releases that an event leaves behind.
LEMMA JudgeArmed ==
  ASSUME SessionInv, JudgeEvent
  PROVE  /\ sess' \in Sessions /\ Context' = Context /\ Attached'
         /\ sess'.draining = sess.draining /\ sess'.blocked = sess.blocked
         /\ sess'.layout = sess.layout /\ sess'.device = sess.device
         /\ pressed' \in [Control -> Contexts \cup {Nothing}]
         /\ Armed'
<1> DEFINE e == mgr.event
           c == e.control
           h == Verdict.held
           a == Verdict.armed
           d == Verdict.deliver
<1>1. /\ e # Nothing /\ e.kind # "invalid" /\ Attached
      /\ sess' = [sess EXCEPT !.held = h, !.armed = a]
      /\ (e.kind = "turn" \/ ~d) => pressed' = pressed
      /\ (e.kind = "down" /\ d) => pressed' = [pressed EXCEPT ![c] = Context]
      /\ (e.kind = "up" /\ d) => pressed' = [pressed EXCEPT ![c] = Nothing]
  BY JudgeFacts
<1>2. /\ e \in Report /\ c \in Control /\ e.kind \in {"down", "up", "turn"}
      /\ e.kind = "down" => /\ h = sess.held \cup {c}
                            /\ a = IF d THEN sess.armed \cup {c} ELSE sess.armed
                            /\ d <=> (c \notin sess.held /\ ~Gated)
      /\ e.kind = "up" => /\ h = sess.held \ {c} /\ a = sess.armed \ {c}
                          /\ d <=> (c \in sess.armed /\ ~Gated)
      /\ e.kind = "turn" => h = sess.held /\ a = sess.armed
  BY <1>1, VerdictFacts
<1>3. e.kind = "up" /\ c \in sess.armed => d
  BY <1>1, ReleaseFacts
<1>4. ~Gated => ~sess.draining /\ ~sess.blocked /\ sess.layout
  BY DEF Gated
<1>5. /\ sess \in Sessions /\ sess.held \in SUBSET Control /\ sess.armed \in SUBSET Control
      /\ sess.armed \subseteq sess.held
      /\ pressed \in [Control -> Contexts \cup {Nothing}]
      /\ Context \in Contexts /\ Context # Nothing
  BY Resting, ContextTyped DEF SessionInv, Typed, Sessions, Armed
<1>6. h \in SUBSET Control /\ a \in SUBSET Control /\ a \subseteq h
  <2> HIDE DEF h, a, d, c, e
  <2>1. QED
    BY <1>2, <1>5
<1> HIDE DEF h, a, d, c, e
<1>7. /\ sess' \in Sessions /\ sess'.held = h /\ sess'.armed = a
      /\ sess'.draining = sess.draining /\ sess'.blocked = sess.blocked
      /\ sess'.layout = sess.layout /\ sess'.device = sess.device
      /\ sess'.connection = sess.connection /\ sess'.binding = sess.binding
      /\ sess'.lockEpoch = sess.lockEpoch
  BY <1>1, <1>5, <1>6 DEF Sessions
<1>8. Context' = Context /\ Attached'
  BY <1>1, <1>7 DEF Context, Attached
<1>9. /\ pressed' \in [Control -> Contexts \cup {Nothing}]
      /\ \A x \in Control \ {c} : pressed'[x] = pressed[x]
      /\ pressed'[c] = IF ~d \/ e.kind = "turn" THEN pressed[c]
                       ELSE IF e.kind = "down" THEN Context ELSE Nothing
  <2>1. CASE e.kind = "turn" \/ ~d
    BY <1>1, <1>2, <1>5, <2>1
  <2>2. CASE e.kind = "down" /\ d
    BY <1>1, <1>2, <1>5, <2>2
  <2>3. CASE e.kind = "up" /\ d
    BY <1>1, <1>2, <1>5, <2>3
  <2>4. QED
    BY <1>2, <2>1, <2>2, <2>3
<1>10. a # {} => ~sess.draining /\ ~sess.blocked /\ sess.layout
  BY <1>2, <1>4 DEF SessionInv, Armed
<1>11. \A x \in Control :
         /\ x \in a => pressed'[x] = Context
         /\ pressed'[x] # Nothing => pressed'[x] = Context \/ pressed'[x] = pressed[x]
         /\ pressed'[x] = Context => x \in a
  <2> SUFFICES ASSUME NEW x \in Control
               PROVE  /\ x \in a => pressed'[x] = Context
                      /\ pressed'[x] # Nothing => pressed'[x] = Context \/ pressed'[x] = pressed[x]
                      /\ pressed'[x] = Context => x \in a
    OBVIOUS
  <2>1. /\ x \in sess.armed => pressed[x] = Context
        /\ pressed[x] = Context => x \in sess.armed
    BY <1>1, <1>5 DEF SessionInv, Armed
  <2>2. CASE x # c
    BY <1>2, <1>9, <2>1, <2>2
  <2>3. CASE x = c
    <3>1. CASE e.kind = "down"
      BY <1>2, <1>5, <1>9, <2>1, <2>3, <3>1
    <3>2. CASE e.kind = "up"
      BY <1>2, <1>3, <1>5, <1>9, <2>1, <2>3, <3>2
    <3>3. CASE e.kind = "turn"
      BY <1>2, <1>9, <2>1, <2>3, <3>3
    <3>4. QED
      BY <1>2, <3>1, <3>2, <3>3
  <2>4. QED
    BY <2>2, <2>3
<1>12. Armed'
  <2>1. ASSUME NEW x \in Control, pressed'[x] # Nothing
        PROVE  /\ pressed'[x].connection <= sess.connection
               /\ pressed'[x].binding <= sess.binding
               /\ pressed'[x].lockEpoch <= sess.lockEpoch
    <3>1. CASE pressed'[x] = Context
      BY <3>1, Resting DEF Context
    <3>2. CASE pressed'[x] = pressed[x]
      BY <2>1, <3>2 DEF SessionInv, Armed
    <3>3. QED
      BY <1>11, <2>1, <3>1, <3>2
  <2>2. QED
    BY <1>6, <1>7, <1>8, <1>10, <1>11, <2>1 DEF Armed
<1>13. QED
  BY <1>7, <1>8, <1>9, <1>12

LEMMA JudgeEventStep ==
  ASSUME IInv, SessionInv, JudgeEvent
  PROVE  SessionInv'
<1>1. /\ mgr.event # Nothing /\ mgr.event.kind # "invalid" /\ Attached
      /\ UNCHANGED <<vars, era, painted>>
      /\ out' = IF Verdict.deliver THEN [event |-> mgr.event, context |-> Context] ELSE Nothing
      /\ mgr' = (IF Verdict.deliver \/ mgr.left = 0 THEN Poller
                 ELSE [Poller EXCEPT !.pc = "more", !.left = mgr.left])
  BY JudgeFacts
<1>2. /\ sess' \in Sessions /\ Context' = Context /\ Attached' /\ Armed'
      /\ sess'.device = sess.device
      /\ pressed' \in [Control -> Contexts \cup {Nothing}]
  BY JudgeArmed
<1>3. /\ mgr' \in Managers /\ (mgr'.pc = "more" => mgr'.left > 0)
  <2>1. mgr.left \in 0..DrainBudget
    BY Resting DEF Managers
  <2>2. CASE mgr' = Poller
    BY <2>2, PollerTyped DEF Poller
  <2>3. CASE mgr.left # 0 /\ mgr' = [Poller EXCEPT !.pc = "more", !.left = mgr.left]
    <3>1. mgr' \in Managers /\ mgr'.left = mgr.left
      BY <2>1, <2>3, PollerTyped DEF Managers
    <3>2. QED
      BY <2>1, <2>3, <3>1
  <2>4. QED
    BY <1>1, <2>2, <2>3
<1>4. Typed' /\ Counted'
  <2>1. /\ sess'.connection = sess.connection /\ sess'.binding = sess.binding
        /\ sess'.lockEpoch = sess.lockEpoch
    BY <1>2 DEF Context
  <2>2. QED
    BY <1>1, <1>2, <1>3, <2>1 DEF SessionInv, Typed, Counted
<1>5. Painted'
  BY <1>1, <1>2 DEF SessionInv, Painted, vars
<1>6. DownOnOwnPage'
  <2> SUFFICES ASSUME out' # Nothing, out'.event.kind = "down"
               PROVE  painted' = out'.context /\ \A k \in Keys : unit'.shown[k] = mail'.desired[k]
    BY DEF DownOnOwnPage
  <2>1. /\ Verdict.deliver /\ out'.context = Context /\ mgr.event.kind = "down"
    BY <1>1
  <2>2. Ready
    BY <1>1, <2>1, VerdictFacts DEF Gated, Hidden
  <2>3. alive /\ mail.full /\ \A k \in Keys : unit.shown[k] = mail.desired[k]
    BY <2>2, ReadyCurrent DEF Ready, ReadyIsCurrent
  <2>4. painted = Context
    BY <1>1, <2>3 DEF SessionInv, Painted
  <2>5. QED
    BY <1>1, <2>1, <2>3, <2>4 DEF vars
<1>7. QED
  BY <1>2, <1>4, <1>5, <1>6 DEF SessionInv

-----------------------------------------------------------------------------
(* The theorems.                                                           *)

LEMMA InitSession ==
  ASSUME SessionInit
  PROVE  SessionIInv
<1> DEFINE p == [s \in Slots |-> FALSE]
<1>1. /\ mail = Mailbox /\ io = [Thread EXCEPT !.pc = "ended"]
      /\ alive = FALSE /\ epoch = 1 /\ drained = 0 /\ asked = {}
      /\ unit = [shown |-> Dark, level |-> Nothing, reports |-> <<>>]
  BY DEF SessionInit
<1>2. /\ Dark \in [Slots -> Drawn] /\ (\A s \in Slots : Dark[s] = Nothing)
      /\ p \in [Slots -> BOOLEAN] /\ 0 \in Slots /\ <<>> \in Seq(Report) /\ Len(<<>>) = 0
  BY DarkPaint, SlotsFinite
<1>3. Mailbox = [desired |-> Dark, sent |-> Dark, pending |-> p, brightness |-> Nothing,
                 input |-> <<>>, stop |-> FALSE, error |-> FALSE, full |-> FALSE,
                 writing |-> Nothing, revision |-> 0, guarded |-> FALSE, cursor |-> 0]
  BY DEF Mailbox
<1> HIDE DEF p
<1>4. /\ mail \in MailType /\ mail.desired = Dark /\ mail.sent = Dark /\ ~mail.full
      /\ ~mail.stop /\ mail.writing = Nothing /\ mail.revision = 0 /\ mail.input = <<>>
  BY <1>1, <1>2, <1>3 DEF MailType
<1>5. unit \in UnitType
  BY <1>1, <1>2 DEF UnitType
<1>6. io \in ThreadType /\ io.pc = "ended" /\ io.epoch = 0 /\ io.revision = 0
  <2>1. Thread \in ThreadType /\ Thread.epoch = 0 /\ Thread.revision = 0
    BY <1>1 DEF Thread, ThreadType, Labels
  <2>2. QED
    BY <1>1, <2>1 DEF ThreadType, Labels
<1>7. TypeOK
  <2>1. /\ alive \in BOOLEAN /\ epoch \in Nat /\ drained \in 0..epoch /\ asked \subseteq Picture
        /\ Len(mail.input) <= InputLimit /\ mail.revision <= MaxRevision
    <3>1. alive \in BOOLEAN /\ epoch \in Nat /\ drained \in 0..epoch /\ asked \subseteq Picture
      <4>1. alive \in BOOLEAN
        BY <1>1, Zenon
      <4>2. epoch \in Nat /\ drained \in 0..epoch
        BY <1>1
      <4>3. asked \subseteq Picture
        BY <1>1, Zenon
      <4>4. QED
        BY <4>1, <4>2, <4>3
    <3>2. Len(mail.input) <= InputLimit /\ mail.revision <= MaxRevision
      BY <1>2, <1>4, LimitAssumption
    <3>3. QED
      BY <3>1, <3>2
  <2>2. io \in [pc : Labels, epoch : 0..epoch, revision : 0..mail.revision,
                event : Report \cup {Nothing}, output : Output \cup {Nothing}]
    <3>1. 0 \in 0..epoch /\ 0 \in 0..mail.revision
      BY <1>1, <1>4
    <3>2. QED
      BY <1>6, <3>1 DEF ThreadType
  <2>3. QED
    BY <1>4, <1>5, <2>1, <2>2 DEF TypeOK, MailType, UnitType, Drawn, Labels
<1>8. IInv
  BY <1>1, <1>2, <1>4, <1>6, <1>7, SlotsFinite
  DEF IInv, Placed, Agreed, Wanted, Strip, Flying, Credits
<1>9. Typed
  <2>1. PICK level \in Level, saved \in BOOLEAN :
          sess = [device |-> "none", connection |-> 0, binding |-> IF saved THEN 1 ELSE 0,
                  lockEpoch |-> 0, layout |-> saved, blocked |-> FALSE, draining |-> TRUE,
                  held |-> {}, armed |-> {}, brightness |-> level]
    BY SessionAssumption DEF SessionInit
  <2>2. sess \in Sessions
    BY <2>1 DEF Sessions
  <2>3. pressed \in [Control -> Contexts \cup {Nothing}] /\ mgr = Poller /\ era = 0
    BY DEF SessionInit
  <2>4. QED
    BY <2>2, <2>3, PollerTyped DEF Typed
<1>10. Counted /\ Armed /\ Painted /\ DownOnOwnPage
  BY SessionAssumption
  DEF SessionInit, Counted, Armed, Painted, DownOnOwnPage, Attached, Context, Poller
<1>11. QED
  BY <1>8, <1>9, <1>10 DEF SessionIInv, SessionInv

LEMMA SessionKeeps ==
  ASSUME SessionIInv, [SessionNext]_sessionVars
  PROVE  SessionIInv'
<1>1. IInv /\ SessionInv
  BY DEF SessionIInv
<1>2. CASE UNCHANGED sessionVars
  <2>1. IInv'
    BY <1>1, <1>2, NextIInv DEF sessionVars
  <2>2. SessionInv'
    <3>1. Typed' /\ Counted'
      BY <1>1, <1>2 DEF sessionVars, SessionInv, Typed, Counted, Attached
    <3>2. Armed' /\ Painted' /\ DownOnOwnPage'
      BY <1>1, <1>2
      DEF sessionVars, vars, SessionInv, Armed, Painted, DownOnOwnPage, Context, Attached
    <3>3. QED
      BY <3>1, <3>2 DEF SessionInv
  <2>3. QED
    BY <2>1, <2>2 DEF SessionIInv
<1>3. CASE SessionNext
  <2>1. IInv'
    BY <1>1, <1>3, OwnerKeeps DEF SessionInv
  <2>2. SessionInv'
    <3>1. ASSUME Call PROVE SessionInv'
      BY <1>1, <3>1, OpenSteps, AttachStep, StopSteps, ChangeSteps, BrightnessStep, DrawSteps
      DEF Call
    <3>2. ASSUME Poll PROVE SessionInv'
      BY <1>1, <3>2, PopStep, LookSteps, JudgeEventStep DEF Poll
    <3>3. ASSUME OwnerStep \/ UserActs PROVE SessionInv'
      BY <1>1, <3>3, IdleSteps
    <3>4. QED
      BY <1>3, <3>1, <3>2, <3>3 DEF SessionNext
  <2>3. QED
    BY <2>1, <2>2 DEF SessionIInv
<1>4. QED
  BY <1>2, <1>3

\* The inductive invariant of a session and its owner.
THEOREM SessionInvariance == SessionSpec => []SessionIInv
<1>1. SessionInit => SessionIInv
  BY InitSession
<1>2. SessionIInv /\ [SessionNext]_sessionVars => SessionIInv'
  BY SessionKeeps
<1>3. QED
  BY <1>1, <1>2, PTL DEF SessionSpec

\* The session, the manager's place in a round and the owner keep their types.
THEOREM SessionTyping == SessionSpec => []SessionTypeOK
<1>1. SessionIInv => SessionTypeOK
  <2> SUFFICES ASSUME SessionIInv PROVE SessionTypeOK
    OBVIOUS
  <2>1. TypeOK /\ sess \in Sessions /\ mgr \in Managers /\ sess.armed \subseteq sess.held
    BY DEF SessionIInv, SessionInv, IInv, Typed, Armed
  <2>2. era \in 0..(MaxEra + 1)
    BY SessionAssumption DEF SessionIInv, SessionInv, Typed, Counted
  <2>3. QED
    BY <2>1, <2>2 DEF SessionTypeOK, Sessions, Managers
<1>2. QED
  BY <1>1, SessionInvariance, PTL

\* A down reaches a page only while the deck shows exactly that page.
THEOREM DownsMeetTheirPage == SessionSpec => []DownOnOwnPage
<1>1. SessionIInv => DownOnOwnPage
  BY DEF SessionIInv, SessionInv
<1>2. QED
  BY <1>1, SessionInvariance, PTL

\* Presses and releases go out in turns and in pairs of one context.
THEOREM EdgesArePaired == SessionSpec => EdgesPaired
<1> DEFINE Paired ==
      out' # Nothing =>
        /\ out'.event.kind = "up" => pressed[out'.event.control] = out'.context
        /\ out'.event.kind = "down" => pressed[out'.event.control] # out'.context
<1>1. ASSUME SessionIInv, SessionNext PROVE Paired
  <2>1. CASE JudgeEvent
    <3> SUFFICES ASSUME out' # Nothing
                 PROVE  /\ out'.event.kind = "up" => pressed[out'.event.control] = out'.context
                        /\ out'.event.kind = "down" => pressed[out'.event.control] # out'.context
      OBVIOUS
    <3>1. /\ mgr.event # Nothing /\ mgr.event.kind # "invalid" /\ Attached
          /\ Verdict.deliver /\ out' = [event |-> mgr.event, context |-> Context]
      BY <1>1, <2>1, JudgeFacts DEF SessionIInv
    <3>2. /\ mgr.event.control \in Control
          /\ mgr.event.kind = "up" => mgr.event.control \in sess.armed
          /\ mgr.event.kind = "down" => mgr.event.control \notin sess.held
      BY <1>1, <3>1, VerdictFacts DEF SessionIInv
    <3>3. /\ mgr.event.kind = "up" => pressed[mgr.event.control] = Context
          /\ mgr.event.kind = "down" => pressed[mgr.event.control] # Context
      BY <1>1, <3>1, <3>2, ContextTyped DEF SessionIInv, SessionInv, Armed
    <3>4. QED
      BY <3>1, <3>3
  <2>2. CASE ~JudgeEvent
    <3>1. out' = Nothing
      BY <1>1, <2>2
      DEF SessionNext, Call, Poll, OwnerStep, UserActs, Spawn, Attach, AttachRefused,
          Disconnect, Configure, Page, InvalidateBinding, StopAll, FenceGate, Brightness,
          Paint, PaintGated, WriteKey, Pop, Look, JudgeNothing, JudgeInvalid, NewEra, SameEra
    <3>2. QED
      BY <3>1
  <2>3. QED
    BY <2>1, <2>2
<1>2. ASSUME SessionIInv, [SessionNext]_sessionVars PROVE [Paired]_sessionVars
  BY <1>1, <1>2
<1>3. EdgesPaired <=> [][Paired]_sessionVars
  BY PTL DEF EdgesPaired
<1>4. QED
  BY <1>2, <1>3, SessionInvariance, PTL DEF SessionSpec
=============================================================================
