----------------------------- MODULE DeckWorker -----------------------------
(***************************************************************************)
(* The worker of one Plus deck (worker.rs) with what it shares: the audio  *)
(* thread (audio_worker.rs), the push-to-talk slots (ptt.rs), the queue of *)
(* desired images (display.rs), the lock gate (session_lock.rs), the       *)
(* foreground report and the control queue of D-Bus (control.rs).          *)
(*                                                                         *)
(* A turn of the loop is split where another thread may come between: it   *)
(* looks at the gate (turn), takes a control command (control), writes one *)
(* image (paint), takes an audio answer (reply) and reads one input        *)
(* (input), or opens the deck (open).  The code keeps the parts of the     *)
(* worker in one Session; so does `w`.  Two of its fields are cells other  *)
(* threads read: `active`, the session the audio thread accepts, and       *)
(* `held`, the slots the push-to-talk thread keeps open.                   *)
(***************************************************************************)
EXTENDS Naturals, Sequences, TLC

CONSTANTS Layouts, FirstLayout,   \* saved layouts, the one at start
          Pages, Home,            \* pages of every layout, its default page
          Slots,                  \* keys, the same on every page
          Assigned,               \* Assigned[layout][page][slot]: "act", "ptt", "go"
          Inputs,                 \* kinds of input the person uses
          Commands,               \* control commands the clients send
          Shades,                 \* what the strip's meters or the brightness may be
          Saved,                  \* brightness saved by an earlier run, or None
          None, LockImage,        \* no image; the image of a locked deck
          MaxReports, MaxRequests, MaxReplies,
          MaxEpoch, MaxFocus, MaxTroubles,
          FlipsPerTurn            \* changes of the lock within one turn

ASSUME WorkerAssumption ==
    /\ Home \in Pages /\ FirstLayout \in Layouts
    /\ Assigned \in [Layouts -> [Pages -> [Slots -> {"act", "ptt", "go"}]]]
    /\ Inputs \subseteq {"key", "flick", "turn", "level"}
    /\ {MaxReports, MaxRequests, MaxReplies} \subseteq Nat \ {0}
    /\ {MaxEpoch, MaxFocus, MaxTroubles, FlipsPerTurn} \subseteq Nat

VARIABLES
    pc,        \* where the worker is in its turn
    w,         \* its Session
    gate,      \* the lock gate, with the number of changes in this turn
    focus,     \* revision of the foreground report
    audio,     \* the audio thread, its queues and `read_pending`
    deck,      \* the device: keys, reports waiting to be read, what it shows
    troubles   \* losses of the deck and suspends so far

vars == <<pc, w, gate, focus, audio, deck, troubles>>

(***************************************************************************)
(* Images: a key picture and the strip, standing for the nine slots.       *)
(***************************************************************************)
Surfaces == {"key", "strip"}
Nothing == [s \in Surfaces |-> None]
Unarmed == [s \in Slots |-> None]
Drawn(layout, page, shade) ==
    [s \in Surfaces |-> IF s = "key" THEN <<layout, page>> ELSE <<layout, page, shade>>]
LockPaint == [s \in Surfaces |-> LockImage]

Due(x) == {s \in Surfaces : x.desired[s] # None /\ x.desired[s] # x.sent[s]}
Pending(x) == Due(x) # {}

Here(x) == [layout |-> x.layout, page |-> x.page, gen |-> x.gen]

(***************************************************************************)
(* What parts of a turn do to the session.                                 *)
(***************************************************************************)
\* Faulty: an armed press outlives the page it was made on.
ShowKeepingArmed(x, page) ==
    [x EXCEPT !.page = page, !.desired = Drawn(x.layout, page, x.shade)]

Show(x, page) ==
    [x EXCEPT !.page = page, !.armed = Unarmed, !.desired = Drawn(x.layout, page, x.shade)]

Repaint(x) == [x EXCEPT !.desired = Drawn(x.layout, x.page, x.shade)]

CancelHolds(x) == [x EXCEPT !.held = {}]

DropDevice(x) == CancelHolds([x EXCEPT !.dev = FALSE, !.active = 0])

Turned(x, page) == [Show(CancelHolds(x), page) EXCEPT !.settle = TRUE]

\* A change of the gate seen at the start of a turn.
SeeLock(x) ==
    LET y == Show(CancelHolds([x EXCEPT !.epoch = gate.epoch, !.locked = gate.locked,
                                        !.gen = @ + 1,
                                        !.active = IF gate.locked THEN 0 ELSE x.gen + 1]),
                  x.page)
    IN  IF gate.epoch = x.epoch THEN x
        ELSE IF x.epoch # 0 \/ gate.enabled THEN [y EXCEPT !.drain = TRUE, !.settle = TRUE]
        ELSE y

\* Faulty: an automatic page drains the input but keeps what is held.
SeeFocusHolding(x, page) ==
    IF x.locked \/ ~x.dev \/ focus = x.focus THEN x
    ELSE IF page \in {None, x.page} THEN [x EXCEPT !.focus = focus]
    ELSE [Show([x EXCEPT !.focus = focus, !.gen = @ + 1, !.active = x.gen + 1], page)
             EXCEPT !.drain = TRUE, !.settle = TRUE]

\* Another application came forward; `page` is where it belongs.
SeeFocus(x, page) ==
    IF x.locked \/ ~x.dev \/ focus = x.focus THEN x
    ELSE IF page \in {None, x.page} THEN [x EXCEPT !.focus = focus]
    ELSE [Turned([x EXCEPT !.focus = focus, !.gen = @ + 1, !.active = x.gen + 1], page)
             EXCEPT !.drain = TRUE]

SeeMeters(x, shade) ==
    IF shade = x.shade THEN x
    ELSE [x EXCEPT !.shade = shade, !.desired.strip = <<x.layout, x.page, shade>>]

TickHolds(x) == IF x.dev THEN x ELSE CancelHolds(x)

(***************************************************************************)
(* The audio thread's queues.  A request carries its session, the epoch    *)
(* and revision read when it was submitted and, as history, the epochs in  *)
(* which the person made the press and the release.                        *)
(***************************************************************************)
Request(kind, edges) ==
    [kind |-> kind, gen |-> w.gen, epoch |-> gate.epoch, focus |-> focus, edges |-> edges]

Submitted(a, r) ==
    IF a.alive /\ Len(a.queue) < MaxRequests THEN [a EXCEPT !.queue = Append(@, r)] ELSE a

\* A reading is submitted once at a time; one that finds no room is forgotten.
ReadSubmitted(a) ==
    IF a.readPending \/ ~a.alive \/ Len(a.queue) = MaxRequests THEN a
    ELSE [Submitted(a, Request("read", {})) EXCEPT !.readPending = TRUE]

Accepts(epoch) == ~gate.locked /\ epoch = gate.epoch

\* The others' steps fall before a turn or, when its first part read what they
\* change, before its command.  After that they commute with the worker's.
Between == pc \in {"turn", "control"}

(***************************************************************************)
(* A turn: the gate, the foreground, meters and push-to-talk.              *)
(***************************************************************************)
Turn ==
    /\ pc = "turn"
    /\ gate' = [gate EXCEPT !.flips = 0]
    /\ \E page \in Pages \cup {None}, shade \in Shades, repaint \in BOOLEAN :
          LET seen == SeeFocus(SeeLock(w), page)
          IN  w' = TickHolds(SeeMeters(IF repaint THEN Repaint(seen) ELSE seen, shade))
    /\ pc' = "control"
    /\ UNCHANGED <<focus, audio, deck, troubles>>

\* The machine was suspended: nothing of the old connection is kept.
Resume ==
    /\ pc = "turn" /\ troubles < MaxTroubles
    /\ troubles' = troubles + 1
    /\ w' = [DropDevice(w) EXCEPT !.gen = @ + 1, !.desired = Nothing, !.sent = Nothing,
                                  !.cursor = "key", !.resume = TRUE, !.drain = TRUE]
    /\ UNCHANGED <<pc, gate, focus, audio, deck>>

(***************************************************************************)
(* One control command.                                                    *)
(***************************************************************************)
GoTo(page) == w' = Turned(w, page)

\* The handle fails when the deck it was opened for is gone.
SetLevel(level, d) ==
    \/ d.alive /\ w' = [w EXCEPT !.level = level] /\ deck' = [d EXCEPT !.level = level]
    \/ ~d.alive /\ w' = DropDevice(w) /\ deck' = d

OtherPage(page) == CHOOSE q \in Pages : q # page

Testable(c) == w.dev /\ ~Pending(w) /\ ~w.drain /\ w.page = c.page /\ w.layout = c.layout

\* An editor's click on a saved control; a push-to-talk cannot be tested.
ApplyTest(c) ==
    /\ UNCHANGED deck
    /\ CASE Testable(c) /\ Assigned[w.layout][w.page][c.slot] = "go" ->
              /\ w' = [Show(w, OtherPage(w.page)) EXCEPT !.settle = TRUE]
              /\ UNCHANGED audio
         [] Testable(c) /\ Assigned[w.layout][w.page][c.slot] = "act" ->
              /\ audio' = IF w.audio
                          THEN Submitted(audio, Request("act", {gate.epoch}))
                          ELSE audio
              /\ UNCHANGED w
         [] OTHER -> UNCHANGED <<w, audio>>

ApplyPage(c) ==
    /\ w' = IF w.dev THEN Turned(w, c.page) ELSE CancelHolds(w)
    /\ UNCHANGED <<audio, deck>>

ApplyLayout(c) ==
    /\ w' = Turned([w EXCEPT !.layout = c.layout, !.shade = CHOOSE s \in Shades : TRUE], Home)
    /\ UNCHANGED <<audio, deck>>

ApplyLevel(c) ==
    /\ UNCHANGED audio
    /\ IF w.dev THEN SetLevel(c.level, deck) ELSE UNCHANGED <<w, deck>>

\* A command is refused when the session locked since it was asked, and a
\* page also when the foreground changed.
Refused(c, epoch, revision) ==
    w.locked \/ ~Accepts(epoch) \/ (c.kind = "page" /\ revision # focus)

Apply(c) ==
    \/ c.kind = "test" /\ ApplyTest(c)
    \/ c.kind = "page" /\ ApplyPage(c)
    \/ c.kind = "layout" /\ ApplyLayout(c)
    \/ c.kind = "level" /\ ApplyLevel(c)

\* The queue may hold a command asked in any earlier epoch and revision.
Control ==
    /\ pc = "control" /\ pc' = "paint"
    /\ \/ UNCHANGED <<w, audio, deck>>
       \/ \E c \in Commands, epoch \in 1..gate.epoch, revision \in 0..focus :
             IF Refused(c, epoch, revision) THEN UNCHANGED <<w, audio, deck>> ELSE Apply(c)
    /\ UNCHANGED <<gate, focus, troubles>>

(***************************************************************************)
(* At most one image a turn, the next one after the last that was written. *)
(***************************************************************************)
After(surface) == IF surface = "key" THEN "strip" ELSE "key"

NextDue(x) == IF x.cursor \in Due(x) THEN x.cursor ELSE After(x.cursor)

Overlaid(x) == IF x.locked THEN [x EXCEPT !.desired = LockPaint] ELSE x

Written(x) ==
    [x EXCEPT !.sent[NextDue(x)] = x.desired[NextDue(x)], !.cursor = After(NextDue(x))]

\* The turn ends when it reports that the display settled.
Settled(x) ==
    /\ w' = IF x.settle /\ ~Pending(x) THEN [x EXCEPT !.settle = FALSE] ELSE x
    /\ pc' = IF x.settle /\ ~Pending(x) THEN "turn" ELSE "reply"

Paint ==
    /\ pc = "paint"
    /\ LET x == Overlaid(w)
       IN  CASE ~x.dev -> w' = x /\ pc' = "open" /\ UNCHANGED deck
             [] x.dev /\ ~Pending(x) -> Settled(x) /\ UNCHANGED deck
             [] x.dev /\ Pending(x) /\ ~deck.alive ->
                  w' = DropDevice(x) /\ pc' = "turn" /\ UNCHANGED deck
             [] x.dev /\ Pending(x) /\ deck.alive ->
                  /\ Settled(Written(x))
                  /\ deck' = [deck EXCEPT !.shown[NextDue(x)] = x.desired[NextDue(x)]]
    /\ UNCHANGED <<gate, focus, audio, troubles>>

(***************************************************************************)
(* One answer of the audio thread, then perhaps a new reading.             *)
(***************************************************************************)
AskReading(a) ==
    /\ pc' = "input"
    /\ audio' \in {a, ReadSubmitted(a)}
    /\ UNCHANGED w

\* An outcome is reported and drawn.  A reading redraws what it changed and
\* ends the turn; so does one asked for the targets of another page.
Answered(r) ==
    /\ audio' = [audio EXCEPT !.replies = Tail(@)]
    /\ pc' = "turn"
    /\ \/ r.kind = "act" /\ w' = Repaint(w)
       \/ r.kind = "read" /\ \E shade \in Shades \ {w.shade} :
             w' = [SeeMeters(w, shade) EXCEPT !.settle = TRUE]
       \/ r.kind = "read" /\ UNCHANGED w

Reply ==
    /\ pc = "reply"
    /\ \/ ~w.audio /\ UNCHANGED <<w, audio>> /\ pc' = "input"
       \/ w.audio /\ audio.replies = <<>> /\ audio.alive /\ AskReading(audio)
       \/ /\ w.audio /\ audio.replies = <<>> /\ ~audio.alive
          /\ w' = [w EXCEPT !.audio = FALSE] /\ pc' = "turn" /\ UNCHANGED audio
       \/ /\ w.audio /\ audio.replies # <<>>
          /\ LET r == Head(audio.replies)
             IN  \/ r.gen = w.gen /\ Answered(r)
                 \/ (r.gen # w.gen \/ r.kind = "read")
                    /\ AskReading([audio EXCEPT !.replies = Tail(@)])
    /\ UNCHANGED <<gate, focus, deck, troubles>>

(***************************************************************************)
(* One input.  The report says in which epoch of the gate it was made.     *)
(***************************************************************************)
Does(slot) == Assigned[w.layout][w.page][slot]

\* A release ends the hold of its slot whatever the page shows by now.
Released(x, e) == IF e.kind = "up" THEN [x EXCEPT !.held = @ \ {e.slot}] ELSE x

\* Without input for long enough the drain ends.
TakeNothing ==
    /\ w' \in {w, [w EXCEPT !.drain = @ /\ (w.locked \/ Pending(w))]}
    /\ UNCHANGED <<audio, deck>>

Discard == w' = [w EXCEPT !.drain = TRUE] /\ UNCHANGED audio

\* Push-to-talk is held from a press on a drawn page.
Talk(e) ==
    /\ w' = IF e.kind = "down" /\ ~Pending(w) THEN [w EXCEPT !.held = @ \cup {e.slot}]
            ELSE Released(w, e)
    /\ UNCHANGED audio

\* The press arms what the page assigns, the release fires what was armed.
Arm(e) ==
    /\ w' = [w EXCEPT !.armed[e.slot] = [does |-> Does(e.slot), from |-> Here(w), at |-> e.at]]
    /\ UNCHANGED audio

Fire(e) ==
    LET armed == w.armed[e.slot]
        x == [Released(w, e) EXCEPT !.armed[e.slot] = None]
    IN  \/ armed = None /\ w' = x /\ UNCHANGED audio
        \/ /\ armed # None /\ armed.does = "go"
           /\ w' = Turned(x, OtherPage(x.page))
           /\ UNCHANGED audio
        \/ /\ armed # None /\ armed.does = "act"
           /\ w' = x
           /\ audio' = IF w.audio
                       THEN Submitted(audio, Request("act", {armed.at, e.at}))
                       ELSE audio

Key(e) ==
    \/ Does(e.slot) = "ptt" /\ Talk(e)
    \/ /\ Does(e.slot) # "ptt" /\ Pending(w)
       /\ w' = Released(w, e) /\ UNCHANGED audio
    \/ Does(e.slot) # "ptt" /\ ~Pending(w) /\ e.kind = "down" /\ Arm(e)
    \/ Does(e.slot) # "ptt" /\ ~Pending(w) /\ e.kind = "up" /\ Fire(e)

Spin(e) ==
    /\ audio' = IF w.audio THEN Submitted(audio, Request("act", {e.at})) ELSE audio
    /\ UNCHANGED w

\* A dial that adjusts the brightness, if one was ever set.
SpinLevel(d) ==
    /\ UNCHANGED audio
    /\ IF w.level = None THEN w' = w /\ deck' = d
       ELSE \E level \in Shades : SetLevel(level, d)

\* `d` is the deck without the report.
Read(e, d) ==
    \/ (w.locked \/ w.drain) /\ Discard /\ deck' = d
    \/ /\ ~(w.locked \/ w.drain)
       /\ \/ e.kind \in {"down", "up"} /\ Key(e) /\ deck' = d
          \/ e.kind = "flick" /\ GoTo(OtherPage(w.page)) /\ UNCHANGED audio /\ deck' = d
          \/ e.kind = "turn" /\ Spin(e) /\ deck' = d
          \/ e.kind = "level" /\ SpinLevel(d)

Input ==
    /\ pc = "input" /\ pc' = "turn"
    /\ \/ ~deck.alive /\ w' = DropDevice(w) /\ UNCHANGED <<audio, deck>>
       \/ deck.alive /\ deck.reports = <<>> /\ TakeNothing
       \/ /\ deck.alive /\ deck.reports # <<>>
          /\ Read(Head(deck.reports), [deck EXCEPT !.reports = Tail(@)])
    /\ UNCHANGED <<gate, focus, troubles>>

(***************************************************************************)
(* Opening the deck: everything it should show is written again.           *)
(***************************************************************************)
\* Faulty: what the lost deck showed is taken for what the new one shows.
OpenedRemembering(x) ==
    Show([x EXCEPT !.focus = 0], IF x.locked \/ x.resume THEN x.page ELSE Home)

Opened(x) ==
    Show([x EXCEPT !.focus = 0, !.sent = Nothing, !.cursor = "key"],
         IF x.locked \/ x.resume THEN x.page ELSE Home)

Open ==
    /\ pc = "open" /\ pc' = "turn"
    /\ \/ ~deck.present /\ UNCHANGED <<w, deck>>
       \* setting the saved brightness failed
       \/ deck.present /\ w.level # None /\ w' = Opened(w) /\ UNCHANGED deck
       \/ /\ deck.present
          /\ w' = [Opened(w) EXCEPT !.settle = TRUE, !.gen = @ + 1, !.dev = TRUE,
                                    !.active = IF w.locked THEN 0 ELSE w.gen + 1,
                                    !.resume = FALSE]
          /\ deck' = [deck EXCEPT !.alive = TRUE, !.reports = <<>>,
                                  !.level = IF w.level = None THEN @ ELSE w.level]
    /\ UNCHANGED <<gate, focus, audio, troubles>>

Stop ==
    /\ pc = "turn" /\ pc' = "stopped"
    /\ w' = CancelHolds([w EXCEPT !.active = 0])
    /\ deck' = IF w.dev /\ deck.alive THEN [deck EXCEPT !.shown = Nothing] ELSE deck
    /\ UNCHANGED <<gate, focus, audio, troubles>>

Worker == Turn \/ Control \/ Paint \/ Reply \/ Input \/ Open

(***************************************************************************)
(* The audio thread: a request of the past is dropped before it starts.    *)
(***************************************************************************)
\* Faulty: only the session is compared, which the worker clears a turn later.
CurrentBySession(r) == r.focus = focus /\ r.gen # 0 /\ r.gen = w.active

Current(r) ==
    Accepts(r.epoch) /\ r.focus = focus /\ r.gen # 0 /\ r.gen = w.active

\* The answer is given when the work is done; without room for it the thread ends.
Serve ==
    /\ Between /\ audio.alive /\ audio.queue # <<>>
    /\ LET r == Head(audio.queue)
           a == [audio EXCEPT !.queue = Tail(@), !.readPending = @ /\ r.kind # "read"]
       IN  audio' = IF ~Current(r) THEN a
                    ELSE IF Len(a.replies) < MaxReplies
                    THEN [a EXCEPT !.replies = Append(@, [kind |-> r.kind, gen |-> r.gen])]
                    ELSE [a EXCEPT !.alive = FALSE]
    /\ UNCHANGED <<pc, w, gate, focus, deck, troubles>>

\* The push-to-talk thread forgets holds the worker did not renew in time.
HoldsExpire ==
    /\ pc = "turn" /\ w.held # {} /\ w' = CancelHolds(w)
    /\ UNCHANGED <<pc, gate, focus, audio, deck, troubles>>

(***************************************************************************)
(* The session locks and unlocks, applications come forward.               *)
(***************************************************************************)
Flip ==
    /\ Between /\ gate.epoch < MaxEpoch /\ gate.flips < FlipsPerTurn
    /\ gate' = [locked |-> ~gate.locked, enabled |-> TRUE, epoch |-> gate.epoch + 1,
                flips |-> gate.flips + 1]
    /\ UNCHANGED <<pc, w, focus, audio, deck, troubles>>

Report ==
    /\ Between /\ focus < MaxFocus /\ focus' = focus + 1
    /\ UNCHANGED <<pc, w, gate, audio, deck, troubles>>

(***************************************************************************)
(* The deck.  Reports are queued for the handle that is open.              *)
(***************************************************************************)
Reported(kind, slot) ==
    IF deck.alive THEN Append(deck.reports, [kind |-> kind, slot |-> slot, at |-> gate.epoch])
    ELSE <<>>

Touch ==
    /\ pc = "turn" /\ Len(deck.reports) < MaxReports /\ deck.present
    /\ \/ \E slot \in Slots : "key" \in Inputs /\
             deck' = IF slot \in deck.down
                     THEN [deck EXCEPT !.down = @ \ {slot}, !.reports = Reported("up", slot)]
                     ELSE [deck EXCEPT !.down = @ \cup {slot}, !.reports = Reported("down", slot)]
       \/ \E kind \in Inputs \ {"key"} : deck' = [deck EXCEPT !.reports = Reported(kind, None)]
    /\ UNCHANGED <<pc, w, gate, focus, audio, troubles>>

Unplug ==
    /\ pc = "turn" /\ deck.present /\ troubles < MaxTroubles
    /\ troubles' = troubles + 1
    /\ deck' = [deck EXCEPT !.present = FALSE, !.alive = FALSE, !.reports = <<>>,
                            !.down = {}, !.shown = Nothing, !.level = None]
    /\ UNCHANGED <<pc, w, gate, focus, audio>>

Plug ==
    /\ pc = "turn" /\ ~deck.present /\ deck' = [deck EXCEPT !.present = TRUE]
    /\ UNCHANGED <<pc, w, gate, focus, audio, troubles>>

Init ==
    /\ pc = "turn"
    /\ w = [dev |-> FALSE, gen |-> 0, active |-> 0, held |-> {}, audio |-> TRUE,
            epoch |-> 0, locked |-> FALSE, focus |-> 0, drain |-> FALSE, resume |-> FALSE,
            layout |-> FirstLayout, page |-> Home, armed |-> Unarmed,
            shade |-> CHOOSE s \in Shades : TRUE, level |-> Saved,
            desired |-> Nothing, sent |-> Nothing, cursor |-> "key", settle |-> FALSE]
    /\ \E enabled \in BOOLEAN :
          gate = [locked |-> enabled, enabled |-> enabled, epoch |-> 1, flips |-> 0]
    /\ focus = 0
    /\ audio = [alive |-> TRUE, queue |-> <<>>, replies |-> <<>>,
                readPending |-> FALSE]
    /\ deck = [present |-> TRUE, alive |-> FALSE, down |-> {}, reports |-> <<>>,
               shown |-> Nothing, level |-> None]
    /\ troubles = 0

Others == HoldsExpire \/ Flip \/ Report \/ Touch \/ Unplug \/ Plug

Next == Worker \/ Resume \/ Stop \/ Serve \/ Others

Spec == Init /\ [][Next]_vars

-----------------------------------------------------------------------------
(* What waits for a release was armed on the page and the layout that are  *)
(* shown now, and on this connection and unlocking of it: however a page,  *)
(* a layout, a lock or a replugging comes in between, nothing stays armed. *)
ArmedHere ==
    w.dev => \A slot \in Slots : w.armed[slot] # None => w.armed[slot].from = Here(w)

(* No action starts whose press or release was made before the session     *)
(* last locked or unlocked (docs/auto-lock.md: queued actions from before  *)
(* the lock are invalidated, unlock does not replay releases).  A turn     *)
(* that saw the lock change twice would miss it; the monitor leaves 100 ms *)
(* between two observations (session_lock.rs:198), hence FlipsPerTurn.     *)
NothingCrossesLock ==
    [][(audio'.alive # audio.alive \/ Len(audio'.replies) > Len(audio.replies))
          => Head(audio.queue).edges \subseteq {gate.epoch}]_vars

(* A push-to-talk slot is held only while its key is down, or while the    *)
(* release or the loss of the deck is still to be read (worker.rs drops    *)
(* releases while it drains, so every drain has to cancel the holds).      *)
HeldWhileDown ==
    \A slot \in w.held :
       /\ w.dev
       /\ \/ ~deck.alive
          \/ slot \in deck.down
          \/ \E i \in DOMAIN deck.reports :
                deck.reports[i].kind = "up" /\ deck.reports[i].slot = slot

(* What the display believes sent is on the deck, through failed writes,   *)
(* replugging and suspend, and so is the brightness last set.              *)
SentIsShown ==
    (w.dev /\ deck.alive /\ pc # "stopped") =>
       /\ \A s \in Surfaces : w.sent[s] # None => deck.shown[s] = w.sent[s]
       /\ w.level # None => deck.level = w.level
=============================================================================
