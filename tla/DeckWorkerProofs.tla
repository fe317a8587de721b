-------------------------- MODULE DeckWorkerProofs --------------------------
(***************************************************************************)
(* Proofs about DeckWorker for any layouts, pages, keys and commands, any  *)
(* room in the queues and any number of locks, reports and failures.       *)
(* DeckIInv is inductive.  Of the session only what the properties tell    *)
(* apart is typed: the fields are there, and what is armed and sent are    *)
(* functions of the keys and of the images.                                *)
(***************************************************************************)
EXTENDS DeckWorker, TLAPS

Fields == {"dev", "gen", "active", "held", "audio", "epoch", "locked", "focus", "drain",
           "resume", "layout", "page", "armed", "shade", "level", "desired", "sent", "cursor",
           "settle"}
Places == {"turn", "control", "paint", "reply", "input", "open", "stopped"}

Reports == [kind : {"down", "up"}, slot : Slots, at : Nat]
           \cup [kind : {"flick", "turn", "level"}, slot : {None}, at : Nat]
Gates == [locked : BOOLEAN, enabled : BOOLEAN, epoch : Nat, flips : Nat]
Requests == [kind : {"act", "read"}, gen : Nat, epoch : Nat, focus : Nat, edges : SUBSET Nat]
Audios == [alive : BOOLEAN, queue : Seq(Requests), replies : Seq([kind : {"act", "read"}, gen : Nat]),
           readPending : BOOLEAN]

DeckTypeOK ==
    /\ pc \in Places
    /\ DOMAIN w = Fields
    /\ w.gen \in Nat /\ w.epoch \in Nat
    /\ w.dev \in BOOLEAN /\ w.locked \in BOOLEAN /\ w.drain \in BOOLEAN
    /\ w.armed = [slot \in Slots |-> w.armed[slot]]
    /\ w.sent = [s \in Surfaces |-> w.sent[s]]
    /\ gate \in Gates /\ focus \in Nat /\ audio \in Audios
    /\ DOMAIN deck = {"present", "alive", "down", "reports", "shown", "level"}
    /\ deck.alive \in BOOLEAN /\ deck.reports \in Seq(Reports)
    /\ deck.shown = [s \in Surfaces |-> deck.shown[s]]

\* A deck that is not read is not typed on: without a handle nothing waits, and
\* what is locked is drained, and what is drained holds nothing.
Drained ==
    /\ w.locked => w.drain
    /\ w.drain => w.held = {}
    /\ pc = "open" => ~w.dev
    /\ ~deck.alive => deck.reports = <<>>

\* A press that waits to be read is still down, or its release waits behind it.
Paired ==
    \A i \in 1..Len(deck.reports) : deck.reports[i].kind = "down" =>
       \/ deck.reports[i].slot \in deck.down
       \/ \E j \in i+1..Len(deck.reports) :
             deck.reports[j].kind = "up" /\ deck.reports[j].slot = deck.reports[i].slot

\* What the worker has seen of the gate.
Seen ==
    /\ gate.flips <= FlipsPerTurn /\ (gate.locked => gate.enabled) /\ gate.epoch > 0
    /\ w.epoch = 0 => pc \in {"turn", "stopped"} /\ ~deck.alive /\ ~w.locked
    /\ w.epoch = 0 /\ gate.flips > 0 => gate.enabled
    /\ w.epoch # 0 =>
         /\ gate.epoch = w.epoch + gate.flips
         /\ gate.flips > 0 => gate.enabled
         /\ gate.flips = 0 => gate.locked = w.locked
         /\ gate.flips = 1 => gate.locked # w.locked

\* What the person did is dated: what is armed by the epoch the worker knows,
ArmedNow ==
    \A slot \in Slots : w.armed[slot] # None => w.armed[slot].at = w.epoch

\* ... what waits to be read by that one or a later one, unless it is drained.
Unread ==
    ~w.drain => \A i \in 1..Len(deck.reports) :
         /\ w.epoch <= deck.reports[i].at /\ deck.reports[i].at <= gate.epoch
         /\ pc \notin {"turn", "stopped"} => deck.reports[i].at = w.epoch

\* The lock does not change twice while the worker does not look.
Calm == FlipsPerTurn <= 1

\* What waits for the audio thread was done in the epoch it was submitted in, or
\* that epoch is over, or it is one of a locked session.
Submissions ==
    \A i \in 1..Len(audio.queue) :
       LET r == audio.queue[i]
       IN  \/ r.edges \subseteq {r.epoch}
           \/ r.epoch < gate.epoch
           \/ r.epoch = gate.epoch /\ gate.locked

DeckIInv ==
    /\ DeckTypeOK /\ Drained /\ Paired /\ Seen /\ ArmedNow /\ Unread
    /\ ArmedHere /\ HeldWhileDown /\ SentIsShown
    /\ Calm => Submissions

-----------------------------------------------------------------------------
(* What parts of a turn do to the session.                                 *)

\* The same connection, as far as the properties can tell.
Alike(y, x) ==
    /\ DOMAIN y = Fields
    /\ y.dev = x.dev /\ y.gen = x.gen /\ y.epoch = x.epoch /\ y.locked = x.locked
    /\ y.layout = x.layout /\ y.level = x.level /\ y.sent = x.sent

\* ... with the same page, the same hands on it and the same input.
Same(y, x) ==
    Alike(y, x) /\ y.page = x.page /\ y.armed = x.armed /\ y.held = x.held /\ y.drain = x.drain

\* ... with nothing armed or held.
Cleared(y, x) == Alike(y, x) /\ y.armed = Unarmed /\ y.held = {}

LEMMA ShowFacts ==
    ASSUME NEW x, DOMAIN x = Fields, NEW page
    PROVE  /\ Alike(Show(x, page), x)
           /\ Show(x, page).armed = Unarmed /\ Show(x, page).page = page
           /\ Show(x, page).held = x.held /\ Show(x, page).drain = x.drain
BY DEF Show, Alike, Fields

LEMMA CancelFacts ==
    ASSUME NEW x, DOMAIN x = Fields
    PROVE  /\ Alike(CancelHolds(x), x)
           /\ CancelHolds(x).held = {} /\ CancelHolds(x).armed = x.armed
           /\ CancelHolds(x).page = x.page /\ CancelHolds(x).drain = x.drain
BY DEF CancelHolds, Alike, Fields

LEMMA SettleFacts ==
    ASSUME NEW x, DOMAIN x = Fields, NEW b
    PROVE  Same([x EXCEPT !.settle = b], x)
BY DEF Same, Alike, Fields

LEMMA TurnedFacts ==
    ASSUME NEW x, DOMAIN x = Fields, NEW page
    PROVE  /\ Cleared(Turned(x, page), x)
           /\ Turned(x, page).drain = x.drain
<1>1. Alike(CancelHolds(x), x) /\ CancelHolds(x).held = {} /\ CancelHolds(x).drain = x.drain
  BY CancelFacts
<1>2. DOMAIN CancelHolds(x) = Fields
  BY <1>1 DEF Alike
<1> DEFINE y == Show(CancelHolds(x), page)
<1>3. Alike(y, CancelHolds(x)) /\ y.armed = Unarmed /\ y.held = {} /\ y.drain = x.drain
  BY <1>1, <1>2, ShowFacts
<1>4. DOMAIN y = Fields
  BY <1>3 DEF Alike
<1>5. Turned(x, page) = [y EXCEPT !.settle = TRUE]
  BY DEF Turned
<1> HIDE DEF y
<1>6. Same(Turned(x, page), y)
  BY <1>4, <1>5, SettleFacts
<1>7. QED
  BY <1>1, <1>3, <1>6 DEF Same, Alike, Cleared

LEMMA PaintFacts ==
    ASSUME NEW x, DOMAIN x = Fields, NEW shade
    PROVE  /\ Same(Repaint(x), x) /\ Same(SeeMeters(x, shade), x)
           /\ Same(Overlaid(x), x)
<1>1. \A v : Same([x EXCEPT !.desired = v], x)
  BY DEF Same, Alike, Fields
<1>2. \A v : Same([x EXCEPT !.shade = shade, !.desired.strip = v], x)
  BY DEF Same, Alike, Fields
<1>3. Same(x, x)
  BY DEF Same, Alike
<1>4. QED
  BY <1>1, <1>2, <1>3 DEF Repaint, SeeMeters, Overlaid

LEMMA TickFacts ==
    ASSUME NEW x, DOMAIN x = Fields
    PROVE  /\ Alike(TickHolds(x), x)
           /\ TickHolds(x).armed = x.armed /\ TickHolds(x).page = x.page
           /\ TickHolds(x).drain = x.drain
           /\ TickHolds(x).held = {} \/ (TickHolds(x).held = x.held /\ x.dev)
BY CancelFacts DEF TickHolds, Alike

LEMMA DropFacts ==
    ASSUME NEW x, DOMAIN x = Fields
    PROVE  /\ DOMAIN DropDevice(x) = Fields /\ DropDevice(x).dev = FALSE
           /\ DropDevice(x).held = {} /\ DropDevice(x).gen = x.gen
           /\ DropDevice(x).epoch = x.epoch /\ DropDevice(x).locked = x.locked
           /\ DropDevice(x).drain = x.drain /\ DropDevice(x).armed = x.armed
           /\ DropDevice(x).sent = x.sent /\ DropDevice(x).level = x.level
BY DEF DropDevice, CancelHolds, Fields

\* A gate that changed, or another application, leaves nothing armed or held.
LEMMA SeeLockFacts ==
    ASSUME NEW x, DOMAIN x = Fields, x.gen \in Nat, x.epoch \in Nat
    PROVE  \/ SeeLock(x) = x /\ gate.epoch = x.epoch
           \/ /\ gate.epoch # x.epoch /\ DOMAIN SeeLock(x) = Fields
              /\ SeeLock(x).epoch = gate.epoch /\ SeeLock(x).locked = gate.locked
              /\ SeeLock(x).gen = x.gen + 1 /\ SeeLock(x).dev = x.dev
              /\ SeeLock(x).armed = Unarmed /\ SeeLock(x).held = {}
              /\ SeeLock(x).level = x.level /\ SeeLock(x).sent = x.sent
              /\ SeeLock(x).drain = TRUE \/ SeeLock(x).drain = x.drain
              /\ x.epoch # 0 \/ gate.enabled => SeeLock(x).drain = TRUE
<1> DEFINE v == IF gate.locked THEN 0 ELSE x.gen + 1
<1> DEFINE a == [x EXCEPT !.epoch = gate.epoch, !.locked = gate.locked,
                          !.gen = x.gen + 1, !.active = v]
<1> HIDE DEF v
<1>1. /\ DOMAIN a = Fields /\ a.epoch = gate.epoch /\ a.locked = gate.locked
      /\ a.gen = x.gen + 1 /\ a.dev = x.dev /\ a.level = x.level /\ a.sent = x.sent
      /\ a.page = x.page /\ a.drain = x.drain
  BY DEF Fields
<1> DEFINE b == CancelHolds(a)
<1> HIDE DEF a
<1>2. Alike(b, a) /\ b.held = {} /\ b.drain = a.drain
  BY <1>1, CancelFacts
<1> DEFINE y == Show(b, x.page)
<1> HIDE DEF b
<1>3. Alike(y, b) /\ y.armed = Unarmed /\ y.held = {} /\ y.drain = x.drain
  BY <1>1, <1>2, ShowFacts DEF Alike
<1>4. SeeLock(x) = IF gate.epoch = x.epoch THEN x
                   ELSE IF x.epoch # 0 \/ gate.enabled
                        THEN [y EXCEPT !.drain = TRUE, !.settle = TRUE] ELSE y
  BY DEF SeeLock, y, b, a, v
<1> HIDE DEF y
<1>5. /\ Alike([y EXCEPT !.drain = TRUE, !.settle = TRUE], y)
      /\ [y EXCEPT !.drain = TRUE, !.settle = TRUE].armed = y.armed
      /\ [y EXCEPT !.drain = TRUE, !.settle = TRUE].held = y.held
      /\ [y EXCEPT !.drain = TRUE, !.settle = TRUE].drain = TRUE
  BY <1>3 DEF Alike, Fields
<1>6. CASE gate.epoch = x.epoch
  BY <1>4, <1>6
<1>7. CASE gate.epoch # x.epoch /\ (x.epoch # 0 \/ gate.enabled)
  BY <1>1, <1>2, <1>3, <1>4, <1>5, <1>7 DEF Alike
<1>8. CASE gate.epoch # x.epoch /\ ~(x.epoch # 0 \/ gate.enabled)
  BY <1>1, <1>2, <1>3, <1>4, <1>8 DEF Alike
<1>9. QED
  BY <1>6, <1>7, <1>8

LEMMA SeeFocusFacts ==
    ASSUME NEW x, DOMAIN x = Fields, x.gen \in Nat, NEW page
    PROVE  LET y == SeeFocus(x, page)
           IN  \/ Same(y, x)
               \/ /\ DOMAIN y = Fields /\ x.dev /\ ~x.locked /\ y.dev = x.dev
                  /\ y.gen = x.gen + 1
                  /\ y.epoch = x.epoch /\ y.locked = x.locked /\ y.armed = Unarmed
                  /\ y.held = {} /\ y.drain = TRUE /\ y.level = x.level /\ y.sent = x.sent
<1>1. Same(x, x) /\ Same([x EXCEPT !.focus = focus], x)
  BY DEF Same, Alike, Fields
<1> DEFINE a == [x EXCEPT !.focus = focus, !.gen = x.gen + 1, !.active = x.gen + 1]
<1>2. /\ DOMAIN a = Fields /\ a.gen = x.gen + 1 /\ a.dev = x.dev /\ a.epoch = x.epoch
      /\ a.locked = x.locked /\ a.level = x.level /\ a.sent = x.sent
  BY DEF Fields
<1> DEFINE t == Turned(a, page)
<1>d. [t EXCEPT !.drain = TRUE] = [Turned([x EXCEPT !.focus = focus, !.gen = @ + 1,
                                                    !.active = x.gen + 1], page)
                                     EXCEPT !.drain = TRUE]
  OBVIOUS
<1> HIDE DEF a
<1>3. Cleared(t, a)
  BY <1>2, TurnedFacts
<1> HIDE DEF t
<1>4. /\ Cleared([t EXCEPT !.drain = TRUE], a) /\ [t EXCEPT !.drain = TRUE].drain = TRUE
  BY <1>3 DEF Cleared, Alike, Fields
<1>5. \/ SeeFocus(x, page) \in {x, [x EXCEPT !.focus = focus]}
      \/ SeeFocus(x, page) = [t EXCEPT !.drain = TRUE] /\ x.dev /\ ~x.locked
  BY <1>d DEF SeeFocus
<1>6. QED
  BY <1>1, <1>2, <1>4, <1>5 DEF Cleared, Alike

LEMMA WrittenFacts ==
    ASSUME NEW x, DOMAIN x = Fields
    PROVE  /\ DOMAIN Written(x) = Fields
           /\ Written(x).dev = x.dev /\ Written(x).gen = x.gen /\ Written(x).epoch = x.epoch
           /\ Written(x).locked = x.locked /\ Written(x).layout = x.layout
           /\ Written(x).level = x.level /\ Written(x).page = x.page
           /\ Written(x).armed = x.armed /\ Written(x).held = x.held
           /\ Written(x).drain = x.drain
           /\ Written(x).sent = [x.sent EXCEPT ![NextDue(x)] = x.desired[NextDue(x)]]
<1> DEFINE n == NextDue(x)
           v == x.desired[n]
           c == After(n)
<1>1. Written(x) = [x EXCEPT !.sent = [x.sent EXCEPT ![n] = v], !.cursor = c]
  BY DEF Written, Fields
<1> HIDE DEF n, v, c
<1>2. /\ DOMAIN Written(x) = Fields
      /\ Written(x).dev = x.dev /\ Written(x).gen = x.gen /\ Written(x).epoch = x.epoch
      /\ Written(x).locked = x.locked /\ Written(x).layout = x.layout
      /\ Written(x).level = x.level /\ Written(x).page = x.page
      /\ Written(x).armed = x.armed /\ Written(x).held = x.held
      /\ Written(x).drain = x.drain /\ Written(x).sent = [x.sent EXCEPT ![n] = v]
  BY <1>1 DEF Fields
<1>3. QED
  BY <1>2 DEF n, v

LEMMA OpenedFacts ==
    ASSUME NEW x, DOMAIN x = Fields
    PROVE  /\ DOMAIN Opened(x) = Fields /\ Opened(x).dev = x.dev /\ Opened(x).gen = x.gen
           /\ Opened(x).epoch = x.epoch /\ Opened(x).locked = x.locked
           /\ Opened(x).level = x.level /\ Opened(x).sent = Nothing
           /\ Opened(x).armed = Unarmed /\ Opened(x).held = x.held
           /\ Opened(x).drain = x.drain
<1> DEFINE a == [x EXCEPT !.focus = 0, !.sent = Nothing, !.cursor = "key"]
           page == IF x.locked \/ x.resume THEN x.page ELSE Home
<1>1. /\ DOMAIN a = Fields /\ a.dev = x.dev /\ a.gen = x.gen /\ a.epoch = x.epoch
      /\ a.locked = x.locked /\ a.level = x.level /\ a.sent = Nothing /\ a.held = x.held
      /\ a.drain = x.drain
  BY DEF Fields
<1>2. Opened(x) = Show(a, page)
  BY DEF Opened
<1> HIDE DEF a, page
<1>3. QED
  BY <1>1, <1>2, ShowFacts DEF Alike

-----------------------------------------------------------------------------
(* Steps.                                                                  *)

\* What is armed stays armed only where and when it was.
ArmedStays ==
    \A slot \in Slots :
       \/ w'.armed[slot] = None
       \/ /\ w'.armed[slot] = w.armed[slot] /\ w'.epoch = w.epoch
          /\ w'.dev => w.dev /\ w'.gen = w.gen /\ w'.layout = w.layout /\ w'.page = w.page

LEMMA ArmedKept ==
    ASSUME ArmedHere, ArmedNow, ArmedStays
    PROVE  ArmedHere' /\ ArmedNow'
BY DEF ArmedHere, ArmedNow, ArmedStays, Here

\* A step that takes nothing from the deck and does not look at the gate.
LEMMA SessionStep ==
    ASSUME DeckIInv, pc' \in Places, pc = "turn" => pc' \in {"turn", "stopped"},
           pc = "stopped" => pc' = "stopped", pc' = "open" => ~w'.dev,
           DOMAIN w' = Fields, w'.gen \in Nat, w'.epoch = w.epoch, w'.locked = w.locked,
           w'.dev \in BOOLEAN,
           w'.armed = [slot \in Slots |-> w'.armed[slot]], ArmedStays,
           w'.sent = [s \in Surfaces |-> w'.sent[s]],
           w'.drain = w.drain \/ (w'.drain = TRUE /\ w'.held = {}),
           w'.held = {} \/ (w'.held = w.held /\ w'.dev = w.dev),
           gate' = gate, focus' \in Nat,
           DOMAIN deck' = DOMAIN deck, deck'.alive = deck.alive, deck'.down = deck.down,
           deck'.reports = deck.reports, deck'.shown = [s \in Surfaces |-> deck'.shown[s]],
           SentIsShown', audio' \in Audios, Calm => Submissions'
    PROVE  DeckIInv'
<1>1. DeckTypeOK'
  BY DEF DeckIInv, DeckTypeOK
<1>2. Drained' /\ Paired' /\ HeldWhileDown'
  BY DEF DeckIInv, Drained, Paired, HeldWhileDown
<1>3. Seen'
  BY DEF DeckIInv, Seen, DeckTypeOK, Places
<1>4. ArmedHere' /\ ArmedNow'
  BY ArmedKept DEF DeckIInv
<1>5. Unread'
  BY DEF DeckIInv, DeckTypeOK, Places, Unread
<1>6. QED
  BY <1>1, <1>2, <1>3, <1>4, <1>5 DEF DeckIInv

LEMMA SentKept ==
    ASSUME SentIsShown,
           w'.dev /\ deck'.alive /\ pc' # "stopped" =>
             /\ w.dev /\ deck.alive /\ pc # "stopped"
             /\ w'.sent = w.sent /\ w'.level = w.level
             /\ deck'.shown = deck.shown /\ deck'.level = deck.level
    PROVE  SentIsShown'
BY DEF SentIsShown

LEMMA QuietSubmissions ==
    ASSUME Calm => Submissions, gate' = gate, audio'.queue = audio.queue
    PROVE  Calm => Submissions'
BY DEF Submissions

\* The session is as it was, but for what the properties do not see.
LEMMA SameStep ==
    ASSUME DeckIInv, pc' \in Places, pc = "turn" => pc' \in {"turn", "stopped"},
           pc = "stopped" => pc' = "stopped", pc' = "open" => ~w'.dev,
           Same(w', w), gate' = gate, focus' \in Nat,
           DOMAIN deck' = DOMAIN deck, deck'.alive = deck.alive, deck'.down = deck.down,
           deck'.reports = deck.reports, deck'.shown = deck.shown, deck'.level = deck.level,
           audio' \in Audios, Calm => Submissions'
    PROVE  DeckIInv'
<1>t. DeckTypeOK /\ SentIsShown
  BY DEF DeckIInv
<1>1. /\ DOMAIN w' = Fields /\ w'.gen \in Nat /\ w'.epoch = w.epoch /\ w'.locked = w.locked
      /\ w'.dev \in BOOLEAN /\ w'.drain = w.drain /\ w'.held = w.held /\ w'.dev = w.dev
      /\ w'.sent = w.sent /\ w'.level = w.level /\ w'.armed = w.armed
      /\ w'.sent = [s \in Surfaces |-> w'.sent[s]]
      /\ w'.armed = [slot \in Slots |-> w'.armed[slot]]
      /\ deck'.shown = [s \in Surfaces |-> deck'.shown[s]]
  BY <1>t DEF DeckTypeOK, Same, Alike
<1>2. ArmedStays
  BY DEF ArmedStays, Same, Alike
<1>3. SentIsShown'
  BY <1>t, <1>1, SentKept DEF DeckTypeOK, Places
<1>4. QED
  BY <1>1, <1>2, <1>3, SessionStep

\* What a turn sees, whatever the gate, the foreground, the meters say.
LEMMA SeenFacts ==
    ASSUME DeckTypeOK, NEW page, NEW shade, NEW repaint \in BOOLEAN,
           LET seen == SeeFocus(SeeLock(w), page)
           IN  w' = TickHolds(SeeMeters(IF repaint THEN Repaint(seen) ELSE seen, shade))
    PROVE  /\ DOMAIN w' = Fields /\ w'.gen \in Nat /\ w'.dev = w.dev
           /\ w'.sent = w.sent /\ w'.level = w.level
           /\ gate.epoch = w.epoch => w'.epoch = w.epoch /\ w'.locked = w.locked
           /\ gate.epoch # w.epoch =>
                /\ w'.epoch = gate.epoch /\ w'.locked = gate.locked
                /\ w'.armed = Unarmed /\ w'.held = {}
                /\ w.epoch # 0 \/ gate.enabled => w'.drain = TRUE
           /\ \/ w'.armed = Unarmed
              \/ /\ w'.armed = w.armed /\ w'.gen = w.gen /\ w'.layout = w.layout
                 /\ w'.page = w.page /\ w'.epoch = w.epoch
           /\ w'.drain = w.drain \/ (w'.drain = TRUE /\ w'.held = {})
           /\ w'.held = {} \/ w'.held = w.held
<1>t. DOMAIN w = Fields /\ w.gen \in Nat /\ w.epoch \in Nat
  BY DEF DeckTypeOK
<1> DEFINE l == SeeLock(w)
           s == SeeFocus(l, page)
           r == IF repaint THEN Repaint(s) ELSE s
           m == SeeMeters(r, shade)
<1>1. \/ l = w /\ gate.epoch = w.epoch
      \/ /\ gate.epoch # w.epoch /\ DOMAIN l = Fields
         /\ l.epoch = gate.epoch /\ l.locked = gate.locked
         /\ l.gen = w.gen + 1 /\ l.dev = w.dev /\ l.armed = Unarmed /\ l.held = {}
         /\ l.level = w.level /\ l.sent = w.sent
         /\ l.drain = TRUE \/ l.drain = w.drain
         /\ w.epoch # 0 \/ gate.enabled => l.drain = TRUE
  BY <1>t, SeeLockFacts
<1>d. DOMAIN l = Fields /\ l.gen \in Nat
  BY <1>t, <1>1
<1>s. s = SeeFocus(l, page)
  OBVIOUS
<1> HIDE DEF l
<1>2. \/ Same(s, l)
      \/ /\ DOMAIN s = Fields /\ l.dev /\ ~l.locked /\ s.dev = l.dev
         /\ s.gen = l.gen + 1
         /\ s.epoch = l.epoch /\ s.locked = l.locked /\ s.armed = Unarmed
         /\ s.held = {} /\ s.drain = TRUE /\ s.level = l.level /\ s.sent = l.sent
  BY <1>d, SeeFocusFacts
<1>3. DOMAIN s = Fields
  BY <1>2 DEF Same, Alike
<1>w. w' = TickHolds(m)
  BY DEF l
<1> HIDE DEF s
<1>4. Same(r, s) /\ DOMAIN r = Fields
  BY <1>3, PaintFacts DEF Same, Alike
<1> HIDE DEF r
<1>5. Same(m, r) /\ DOMAIN m = Fields
  BY <1>4, PaintFacts DEF Same, Alike
<1> HIDE DEF m
<1>6. /\ Alike(w', m)
      /\ w'.armed = m.armed /\ w'.page = m.page
      /\ w'.drain = m.drain /\ (w'.held = {} \/ (w'.held = m.held /\ m.dev))
  BY <1>5, <1>w, TickFacts
<1>7. /\ DOMAIN w' = Fields /\ w'.dev = s.dev /\ w'.gen = s.gen /\ w'.epoch = s.epoch
      /\ w'.locked = s.locked /\ w'.layout = s.layout /\ w'.level = s.level
      /\ w'.sent = s.sent /\ w'.armed = s.armed /\ w'.page = s.page /\ w'.drain = s.drain
      /\ w'.held = {} \/ w'.held = s.held
  BY <1>4, <1>5, <1>6 DEF Same, Alike
<1>8. CASE Same(s, l)
  <2>1. /\ s.dev = l.dev /\ s.gen = l.gen /\ s.epoch = l.epoch
        /\ s.locked = l.locked /\ s.layout = l.layout /\ s.level = l.level
        /\ s.sent = l.sent /\ s.armed = l.armed /\ s.page = l.page /\ s.drain = l.drain
        /\ s.held = l.held
    BY <1>8 DEF Same, Alike
  <2>2. QED
    BY <1>t, <1>1, <1>7, <2>1
<1>9. CASE ~Same(s, l)
  BY <1>t, <1>1, <1>2, <1>7, <1>9
<1>10. QED
  BY <1>8, <1>9

LEMMA TurnStep ==
    ASSUME DeckIInv, Turn
    PROVE  DeckIInv'
<1>t. /\ DeckTypeOK /\ Drained /\ Paired /\ Seen /\ ArmedNow /\ Unread
      /\ ArmedHere /\ HeldWhileDown /\ SentIsShown /\ (Calm => Submissions)
      /\ gate \in Gates /\ w.epoch \in Nat /\ gate.epoch \in Nat /\ w.dev \in BOOLEAN
  BY DEF DeckIInv, DeckTypeOK, Gates
<1>0. PICK page \in Pages \cup {None}, shade \in Shades, repaint \in BOOLEAN :
          LET seen == SeeFocus(SeeLock(w), page)
          IN  w' = TickHolds(SeeMeters(IF repaint THEN Repaint(seen) ELSE seen, shade))
  BY DEF Turn
<1>1. /\ DOMAIN w' = Fields /\ w'.gen \in Nat /\ w'.dev = w.dev
      /\ w'.sent = w.sent /\ w'.level = w.level
      /\ gate.epoch = w.epoch => w'.epoch = w.epoch /\ w'.locked = w.locked
      /\ gate.epoch # w.epoch =>
           /\ w'.epoch = gate.epoch /\ w'.locked = gate.locked
           /\ w'.armed = Unarmed /\ w'.held = {}
           /\ w.epoch # 0 \/ gate.enabled => w'.drain = TRUE
      /\ \/ w'.armed = Unarmed
         \/ /\ w'.armed = w.armed /\ w'.gen = w.gen /\ w'.layout = w.layout
            /\ w'.page = w.page /\ w'.epoch = w.epoch
      /\ w'.drain = w.drain \/ (w'.drain = TRUE /\ w'.held = {})
      /\ w'.held = {} \/ w'.held = w.held
  BY <1>t, <1>0, SeenFacts
<1>2. /\ pc = "turn" /\ pc' = "control" /\ focus' = focus /\ audio' = audio /\ deck' = deck
      /\ gate' = [gate EXCEPT !.flips = 0]
  BY DEF Turn
<1>3. /\ gate' \in Gates /\ gate'.flips = 0 /\ gate'.epoch = gate.epoch
      /\ gate'.locked = gate.locked /\ gate'.enabled = gate.enabled
  BY <1>t, <1>2 DEF Gates
<1>4. w'.epoch = gate.epoch /\ w'.locked = gate.locked /\ gate.epoch > 0
  <2>1. CASE gate.epoch = w.epoch
    <3>1. gate.flips = 0 /\ gate.epoch > 0
      BY <1>t, <2>1 DEF Seen, Gates
    <3>2. QED
      BY <1>t, <1>1, <2>1, <3>1 DEF Seen
  <2>2. CASE gate.epoch # w.epoch
    BY <1>t, <1>1, <2>2 DEF Seen
  <2>3. QED
    BY <2>1, <2>2
<1>5. w'.armed = [slot \in Slots |-> w'.armed[slot]] /\ w'.drain \in BOOLEAN
  BY <1>t, <1>1 DEF DeckTypeOK, Unarmed
<1>6. DeckTypeOK'
  BY <1>t, <1>1, <1>2, <1>3, <1>4, <1>5 DEF DeckTypeOK, Places, Gates
<1>7. ArmedHere' /\ ArmedNow'
  <2>1. ArmedStays
    BY <1>1 DEF ArmedStays, Unarmed
  <2>2. QED
    BY <1>t, <2>1, ArmedKept
<1>8. w'.locked => w'.drain
  <2>1. CASE gate.epoch = w.epoch
    BY <1>t, <1>1, <2>1 DEF Drained
  <2>2. CASE gate.epoch # w.epoch
    BY <1>t, <1>1, <1>4, <2>2 DEF Seen
  <2>3. QED
    BY <2>1, <2>2
<1>9. Drained' /\ Paired' /\ HeldWhileDown'
  BY <1>t, <1>1, <1>2, <1>8 DEF Drained, Paired, HeldWhileDown
<1>10. Seen'
  <2>1. FlipsPerTurn \in Nat
    BY WorkerAssumption
  <2>2. QED
    BY <1>t, <1>2, <1>3, <1>4, <2>1 DEF Seen, Gates
<1>11. Unread'
  <2> SUFFICES ASSUME ~w'.drain, NEW i \in 1..Len(deck.reports)
               PROVE  /\ w'.epoch <= deck.reports[i].at /\ deck.reports[i].at <= gate.epoch
                      /\ deck.reports[i].at = w'.epoch
    BY <1>2, <1>3 DEF Unread
  <2>1. w.epoch # 0
    BY <1>t DEF Seen, Drained
  <2>2. gate.epoch = w.epoch
    BY <1>1, <2>1
  <2>3. deck.reports[i] \in Reports
    BY <1>t DEF DeckTypeOK
  <2>4. deck.reports[i].at \in Nat
    BY <2>3 DEF Reports
  <2>5. w.epoch <= deck.reports[i].at /\ deck.reports[i].at <= gate.epoch
    BY <1>t, <1>1 DEF Unread
  <2>6. QED
    BY <1>t, <1>4, <2>2, <2>4, <2>5
<1>12. SentIsShown'
  BY <1>t, <1>1, <1>2, SentKept
<1>13. Calm => Submissions'
  BY <1>t, <1>2, <1>3 DEF Submissions
<1>14. QED
  BY <1>6, <1>7, <1>9, <1>10, <1>11, <1>12, <1>13 DEF DeckIInv

LEMMA ResumeStep ==
    ASSUME DeckIInv, Resume
    PROVE  DeckIInv'
<1>t. DeckTypeOK /\ SentIsShown /\ (Calm => Submissions) /\ w.gen \in Nat /\ DOMAIN w = Fields
  BY DEF DeckIInv, DeckTypeOK
<1>1. /\ pc' = pc /\ pc = "turn" /\ gate' = gate /\ focus' = focus /\ audio' = audio
      /\ deck' = deck
  BY DEF Resume
<1> DEFINE x == DropDevice(w)
<1>2. /\ DOMAIN x = Fields /\ x.dev = FALSE /\ x.held = {} /\ x.gen = w.gen
      /\ x.epoch = w.epoch /\ x.locked = w.locked /\ x.armed = w.armed /\ x.level = w.level
  BY <1>t, DropFacts
<1>3. w' = [x EXCEPT !.gen = x.gen + 1, !.desired = Nothing, !.sent = Nothing,
                     !.cursor = "key", !.resume = TRUE, !.drain = TRUE]
  BY DEF Resume
<1> HIDE DEF x
<1>4. /\ DOMAIN w' = Fields /\ w'.dev = FALSE /\ w'.held = {} /\ w'.gen = w.gen + 1
      /\ w'.epoch = w.epoch /\ w'.locked = w.locked /\ w'.armed = w.armed
      /\ w'.sent = Nothing /\ w'.drain = TRUE
  BY <1>2, <1>3 DEF Fields
<1>5. ArmedStays
  BY <1>4 DEF ArmedStays
<1>6. SentIsShown'
  BY <1>4 DEF SentIsShown
<1>7. Calm => Submissions'
  BY <1>t, <1>1, QuietSubmissions
<1>8. /\ w'.sent = [s \in Surfaces |-> w'.sent[s]] /\ w'.gen \in Nat
      /\ w'.armed = [slot \in Slots |-> w'.armed[slot]]
      /\ deck'.shown = [s \in Surfaces |-> deck'.shown[s]]
      /\ pc' \in Places /\ focus' \in Nat /\ audio' \in Audios
  BY <1>t, <1>1, <1>4 DEF DeckTypeOK, Nothing
<1>9. QED
  BY <1>1, <1>4, <1>5, <1>6, <1>7, <1>8, SessionStep

\* Nothing is armed or held that was not; the connection is the same.
LEMMA TidyStep ==
    ASSUME DeckIInv, pc' \in Places, pc = "turn" => pc' \in {"turn", "stopped"},
           pc = "stopped" => pc' = "stopped", pc' = "open" => ~w'.dev,
           DOMAIN w' = Fields, w'.dev = w.dev, w'.gen = w.gen, w'.epoch = w.epoch,
           w'.locked = w.locked, w'.level = w.level, w'.sent = w.sent, w'.drain = w.drain,
           w'.held = {} \/ w'.held = w.held,
           \/ w'.armed = Unarmed
           \/ w'.armed = w.armed /\ w'.layout = w.layout /\ w'.page = w.page,
           gate' = gate, focus' \in Nat, deck' = deck, audio' \in Audios, Calm => Submissions'
    PROVE  DeckIInv'
<1>t. DeckTypeOK /\ SentIsShown
  BY DEF DeckIInv
<1>1. ArmedStays
  BY DEF ArmedStays, Unarmed
<1>2. SentIsShown'
  BY <1>t, SentKept DEF DeckTypeOK, Places
<1>3. /\ w'.sent = [s \in Surfaces |-> w'.sent[s]] /\ w'.gen \in Nat /\ w'.dev \in BOOLEAN
      /\ w'.armed = [slot \in Slots |-> w'.armed[slot]]
      /\ deck'.shown = [s \in Surfaces |-> deck'.shown[s]]
  BY <1>t DEF DeckTypeOK, Unarmed
<1>4. QED
  BY <1>1, <1>2, <1>3, SessionStep

\* The deck is given up.
LEMMA DropStep ==
    ASSUME DeckIInv, NEW x, Same(x, w), w' = DropDevice(x), pc' \in Places,
           pc = "turn" => pc' \in {"turn", "stopped"}, pc # "stopped",
           gate' = gate, focus' = focus, deck' = deck, audio' = audio
    PROVE  DeckIInv'
<1>t. DeckTypeOK /\ (Calm => Submissions)
  BY DEF DeckIInv
<1>1. /\ DOMAIN x = Fields /\ x.gen = w.gen /\ x.epoch = w.epoch /\ x.locked = w.locked
      /\ x.drain = w.drain /\ x.armed = w.armed /\ x.sent = w.sent
  BY DEF Same, Alike
<1>2. /\ DOMAIN w' = Fields /\ w'.dev = FALSE /\ w'.held = {} /\ w'.gen = w.gen
      /\ w'.epoch = w.epoch /\ w'.locked = w.locked
      /\ w'.drain = w.drain /\ w'.armed = w.armed /\ w'.sent = w.sent
  BY <1>1, DropFacts
<1>3. ArmedStays /\ SentIsShown'
  BY <1>2 DEF ArmedStays, SentIsShown
<1>4. Calm => Submissions'
  BY <1>t, QuietSubmissions
<1>5. /\ w'.sent = [s \in Surfaces |-> w'.sent[s]] /\ w'.gen \in Nat /\ focus' \in Nat
      /\ w'.armed = [slot \in Slots |-> w'.armed[slot]] /\ audio' \in Audios
      /\ deck'.shown = [s \in Surfaces |-> deck'.shown[s]]
  BY <1>t, <1>2 DEF DeckTypeOK
<1>6. QED
  BY <1>2, <1>3, <1>4, <1>5, SessionStep

\* The brightness is set: on the deck and in the session.
LEMMA LevelStep ==
    ASSUME DeckIInv, NEW level, deck.alive, w' = [w EXCEPT !.level = level],
           deck' = [deck EXCEPT !.level = level], pc = "control", pc' = "paint",
           gate' = gate, focus' = focus, audio' = audio
    PROVE  DeckIInv'
<1>t. DeckTypeOK /\ SentIsShown /\ (Calm => Submissions)
  BY DEF DeckIInv
<1>1. /\ DOMAIN w' = Fields /\ w'.dev = w.dev /\ w'.gen = w.gen /\ w'.epoch = w.epoch
      /\ w'.locked = w.locked /\ w'.sent = w.sent /\ w'.drain = w.drain /\ w'.held = w.held
      /\ w'.armed = w.armed /\ w'.layout = w.layout /\ w'.page = w.page /\ w'.level = level
  BY <1>t DEF DeckTypeOK, Fields
<1>2. /\ DOMAIN deck' = DOMAIN deck /\ deck'.alive = deck.alive /\ deck'.down = deck.down
      /\ deck'.reports = deck.reports /\ deck'.shown = deck.shown /\ deck'.level = level
  BY <1>t DEF DeckTypeOK
<1>3. ArmedStays
  BY <1>1 DEF ArmedStays
<1>4. SentIsShown'
  BY <1>t, <1>1, <1>2 DEF SentIsShown
<1>5. Calm => Submissions'
  BY <1>t, QuietSubmissions
<1>6. /\ w'.sent = [s \in Surfaces |-> w'.sent[s]] /\ w'.gen \in Nat /\ focus' \in Nat
      /\ w'.armed = [slot \in Slots |-> w'.armed[slot]] /\ audio' \in Audios
      /\ deck'.shown = [s \in Surfaces |-> deck'.shown[s]] /\ w'.dev \in BOOLEAN
      /\ pc' \in Places
  BY <1>t, <1>1, <1>2 DEF DeckTypeOK, Places
<1>7. QED
  BY <1>1, <1>2, <1>3, <1>4, <1>5, <1>6, SessionStep

-----------------------------------------------------------------------------
(* The queue of the audio thread.                                          *)

LEMMA SubmittedFacts ==
    ASSUME NEW a \in Audios, NEW r \in Requests
    PROVE  /\ Submitted(a, r) \in Audios
           /\ \/ Submitted(a, r).queue = a.queue
              \/ Submitted(a, r).queue = Append(a.queue, r)
<1>1. Append(a.queue, r) \in Seq(Requests)
  BY DEF Audios
<1>2. \A q \in Seq(Requests) : [a EXCEPT !.queue = q] \in Audios /\ [a EXCEPT !.queue = q].queue = q
  BY DEF Audios
<1>3. QED
  BY <1>1, <1>2 DEF Submitted

LEMMA RequestFacts ==
    ASSUME DeckTypeOK, NEW kind \in {"act", "read"}, NEW edges \in SUBSET Nat
    PROVE  /\ Request(kind, edges) \in Requests /\ Request(kind, edges).epoch = gate.epoch
           /\ Request(kind, edges).edges = edges
BY DEF DeckTypeOK, Gates, Request, Requests

\* What is submitted now was done now, or the session has just locked.
LEMMA MoreSubmissions ==
    ASSUME Calm => Submissions, audio \in Audios, gate' = gate, NEW r \in Requests,
           r.epoch = gate.epoch, Calm => r.edges \subseteq {gate.epoch} \/ gate.locked,
           audio'.queue = audio.queue \/ audio'.queue = Append(audio.queue, r)
    PROVE  Calm => Submissions'
<1> SUFFICES ASSUME Calm, audio'.queue = Append(audio.queue, r)
             PROVE  Submissions'
  BY QuietSubmissions
<1>1. audio.queue \in Seq(Requests) /\ Len(audio.queue) \in Nat
  BY DEF Audios
<1>2. /\ Len(audio'.queue) = Len(audio.queue) + 1
      /\ \A i \in 1..Len(audio.queue) : audio'.queue[i] = audio.queue[i]
      /\ audio'.queue[Len(audio.queue) + 1] = r
  BY <1>1
<1>3. ASSUME NEW i \in 1..Len(audio'.queue)
      PROVE  \/ audio'.queue[i].edges \subseteq {audio'.queue[i].epoch}
             \/ audio'.queue[i].epoch < gate.epoch
             \/ audio'.queue[i].epoch = gate.epoch /\ gate.locked
  <2>1. CASE i \in 1..Len(audio.queue)
    BY <1>2, <2>1 DEF Submissions
  <2>2. CASE i = Len(audio.queue) + 1
    BY <1>2, <2>2
  <2>3. QED
    BY <1>1, <1>2, <2>1, <2>2
<1>4. QED
  BY <1>3 DEF Submissions

LEMMA ReadingFacts ==
    ASSUME DeckTypeOK, NEW a \in Audios
    PROVE  /\ ReadSubmitted(a) \in Audios
           /\ \/ ReadSubmitted(a).queue = a.queue
              \/ ReadSubmitted(a).queue = Append(a.queue, Request("read", {}))
<1> DEFINE b == Submitted(a, Request("read", {}))
<1>1. /\ b \in Audios
      /\ b.queue = a.queue \/ b.queue = Append(a.queue, Request("read", {}))
  BY RequestFacts, SubmittedFacts
<1>2. ReadSubmitted(a) = a \/ ReadSubmitted(a) = [b EXCEPT !.readPending = TRUE]
  BY DEF ReadSubmitted
<1> HIDE DEF b
<1>3. [b EXCEPT !.readPending = TRUE] \in Audios /\ [b EXCEPT !.readPending = TRUE].queue = b.queue
  BY <1>1 DEF Audios
<1>4. QED
  BY <1>1, <1>2, <1>3

-----------------------------------------------------------------------------
(* The worker's turn, part by part.                                        *)

LEMMA ControlStep ==
    ASSUME DeckIInv, Control
    PROVE  DeckIInv'
<1>t. /\ DeckTypeOK /\ (Calm => Submissions) /\ DOMAIN w = Fields /\ audio \in Audios
      /\ focus \in Nat /\ gate.epoch \in Nat
  BY DEF DeckIInv, DeckTypeOK, Gates
<1>0. /\ pc = "control" /\ pc' = "paint" /\ pc' \in Places /\ gate' = gate /\ focus' = focus
  BY DEF Control, Places
<1>k. ASSUME Same(w', w), deck' = deck, audio' \in Audios, Calm => Submissions'
      PROVE  DeckIInv'
  BY <1>t, <1>0, <1>k, SameStep
<1>1. CASE UNCHANGED <<w, audio, deck>>
  BY <1>t, <1>1, <1>0, <1>k, QuietSubmissions DEF Same, Alike
<1>2. ASSUME NEW c \in Commands, ApplyTest(c)
      PROVE  DeckIInv'
  <2>1. CASE /\ w' = [Show(w, OtherPage(w.page)) EXCEPT !.settle = TRUE]
             /\ UNCHANGED audio /\ UNCHANGED deck
    <3> DEFINE x == Show(w, OtherPage(w.page))
    <3>1. Alike(x, w) /\ x.armed = Unarmed /\ x.held = w.held /\ x.drain = w.drain
      BY <1>t, ShowFacts
    <3>2. w' = [x EXCEPT !.settle = TRUE]
      BY <2>1
    <3> HIDE DEF x
    <3>3. Same(w', x)
      BY <3>1, <3>2, SettleFacts DEF Alike
    <3>4. /\ DOMAIN w' = Fields /\ w'.dev = w.dev /\ w'.gen = w.gen /\ w'.epoch = w.epoch
          /\ w'.locked = w.locked /\ w'.level = w.level /\ w'.sent = w.sent
          /\ w'.drain = w.drain /\ w'.held = w.held /\ w'.armed = Unarmed
      BY <3>1, <3>3 DEF Same, Alike
    <3>5. Calm => Submissions'
      BY <1>t, <1>0, <2>1, QuietSubmissions
    <3>6. QED
      BY <1>t, <1>0, <2>1, <3>4, <3>5, TidyStep
  <2>2. CASE /\ audio' = IF w.audio THEN Submitted(audio, Request("act", {gate.epoch}))
                         ELSE audio
             /\ UNCHANGED w /\ UNCHANGED deck
    <3> DEFINE r == Request("act", {gate.epoch})
    <3>1. r \in Requests /\ r.epoch = gate.epoch /\ r.edges = {gate.epoch}
      BY <1>t, RequestFacts
    <3>2. audio' = audio \/ audio' = Submitted(audio, r)
      BY <2>2
    <3> HIDE DEF r
    <3>3. audio' \in Audios /\ (audio'.queue = audio.queue \/ audio'.queue = Append(audio.queue, r))
      BY <1>t, <3>1, <3>2, SubmittedFacts
    <3>4. Calm => Submissions'
      BY <1>t, <1>0, <3>1, <3>3, MoreSubmissions
    <3>5. QED
      BY <1>t, <1>k, <2>2, <3>3, <3>4 DEF Same, Alike
  <2>3. CASE UNCHANGED <<w, audio, deck>>
    BY <1>1, <2>3
  <2>4. QED
    BY <1>2, <2>1, <2>2, <2>3 DEF ApplyTest
<1>3. ASSUME NEW x, DOMAIN x = Fields, x.dev = w.dev, x.gen = w.gen, x.epoch = w.epoch,
             x.locked = w.locked, x.level = w.level, x.sent = w.sent, x.drain = w.drain,
             NEW page, w' = Turned(x, page), UNCHANGED <<audio, deck>>
      PROVE  DeckIInv'
  <2>1. Cleared(w', x) /\ w'.drain = x.drain
    BY <1>3, TurnedFacts
  <2>2. /\ DOMAIN w' = Fields /\ w'.dev = w.dev /\ w'.gen = w.gen /\ w'.epoch = w.epoch
        /\ w'.locked = w.locked /\ w'.level = w.level /\ w'.sent = w.sent
        /\ w'.drain = w.drain /\ w'.held = {} /\ w'.armed = Unarmed
    BY <1>3, <2>1 DEF Cleared, Alike
  <2>3. Calm => Submissions'
    BY <1>t, <1>0, <1>3, QuietSubmissions
  <2>4. QED
    BY <1>t, <1>0, <1>3, <2>2, <2>3, TidyStep
<1>4. ASSUME NEW c \in Commands, ApplyPage(c)
      PROVE  DeckIInv'
  <2>1. CASE w' = Turned(w, c.page)
    BY <1>t, <1>3, <1>4, <2>1 DEF ApplyPage
  <2>2. CASE w' = CancelHolds(w)
    <3>1. /\ DOMAIN w' = Fields /\ w'.dev = w.dev /\ w'.gen = w.gen /\ w'.epoch = w.epoch
          /\ w'.locked = w.locked /\ w'.level = w.level /\ w'.sent = w.sent
          /\ w'.drain = w.drain /\ w'.held = {} /\ w'.armed = w.armed
          /\ w'.layout = w.layout /\ w'.page = w.page
      BY <1>t, <2>2, CancelFacts DEF Alike
    <3>2. deck' = deck /\ audio' = audio /\ (Calm => Submissions')
      BY <1>t, <1>0, <1>4, QuietSubmissions DEF ApplyPage
    <3>3. QED
      BY <1>t, <1>0, <3>1, <3>2, TidyStep
  <2>3. QED
    BY <1>4, <2>1, <2>2 DEF ApplyPage
<1>5. ASSUME NEW c \in Commands, ApplyLayout(c)
      PROVE  DeckIInv'
  <2> DEFINE shade == CHOOSE s \in Shades : TRUE
             x == [w EXCEPT !.layout = c.layout, !.shade = shade]
  <2>1. w' = Turned(x, Home) /\ UNCHANGED <<audio, deck>>
    BY <1>5 DEF ApplyLayout
  <2> HIDE DEF shade
  <2>2. /\ DOMAIN x = Fields /\ x.dev = w.dev /\ x.gen = w.gen /\ x.epoch = w.epoch
        /\ x.locked = w.locked /\ x.level = w.level /\ x.sent = w.sent /\ x.drain = w.drain
    BY <1>t DEF Fields
  <2> HIDE DEF x
  <2>3. QED
    BY <1>3, <2>1, <2>2
<1>6. ASSUME NEW c \in Commands, ApplyLevel(c)
      PROVE  DeckIInv'
  <2>1. CASE SetLevel(c.level, deck)
    <3>1. CASE deck.alive /\ w' = [w EXCEPT !.level = c.level] /\ deck' = [deck EXCEPT !.level = c.level]
      BY <1>0, <1>6, <3>1, LevelStep DEF ApplyLevel
    <3>2. CASE w' = DropDevice(w) /\ deck' = deck
      <4>1. Same(w, w) /\ audio' = audio
        BY <1>t, <1>6 DEF Same, Alike, ApplyLevel
      <4>2. QED
        BY <1>0, <3>2, <4>1, DropStep
    <3>3. QED
      BY <2>1, <3>1, <3>2 DEF SetLevel
  <2>2. CASE UNCHANGED <<w, deck>>
    BY <1>1, <1>6, <2>2 DEF ApplyLevel
  <2>3. QED
    BY <1>6, <2>1, <2>2 DEF ApplyLevel
<1>7. QED
  BY <1>1, <1>2, <1>4, <1>5, <1>6 DEF Control, Apply

LEMMA SettledFacts ==
    ASSUME NEW x, DOMAIN x = Fields, Settled(x)
    PROVE  Same(w', x) /\ pc' \in {"turn", "reply"}
BY SettleFacts DEF Settled, Same, Alike

\* An image that is written is on the deck, and known to be.
LEMMA PaintStep ==
    ASSUME DeckIInv, Paint
    PROVE  DeckIInv'
<1>t. /\ DeckTypeOK /\ SentIsShown /\ (Calm => Submissions) /\ DOMAIN w = Fields
      /\ audio \in Audios /\ focus \in Nat /\ w.dev \in BOOLEAN
  BY DEF DeckIInv, DeckTypeOK
<1>0. pc = "paint" /\ gate' = gate /\ focus' = focus /\ audio' = audio
  BY DEF Paint
<1>q. Calm => Submissions'
  BY <1>t, <1>0, QuietSubmissions
<1> DEFINE x == Overlaid(w)
           n == NextDue(x)
<1>1. Same(x, w) /\ DOMAIN x = Fields
  BY <1>t, PaintFacts DEF Same, Alike
<1>2. \/ ~x.dev /\ w' = x /\ pc' = "open" /\ deck' = deck
      \/ Settled(x) /\ deck' = deck
      \/ w' = DropDevice(x) /\ pc' = "turn" /\ deck' = deck
      \/ /\ x.dev /\ deck.alive /\ Settled(Written(x))
         /\ deck' = [deck EXCEPT !.shown = [deck.shown EXCEPT ![n] = x.desired[n]]]
  <2>1. x.dev \in BOOLEAN /\ DOMAIN deck = {"present", "alive", "down", "reports", "shown", "level"}
    BY <1>t, <1>1 DEF Same, Alike, DeckTypeOK
  <2>2. [deck EXCEPT !.shown[n] = x.desired[n]] =
          [deck EXCEPT !.shown = [deck.shown EXCEPT ![n] = x.desired[n]]]
    BY <2>1
  <2>3. CASE ~x.dev
    BY <2>3 DEF Paint
  <2>4. CASE x.dev /\ ~Pending(x)
    BY <2>4 DEF Paint
  <2>5. CASE x.dev /\ Pending(x) /\ ~deck.alive
    BY <2>5 DEF Paint
  <2>6. CASE x.dev /\ Pending(x) /\ deck.alive
    BY <2>2, <2>6 DEF Paint
  <2>7. QED
    BY <2>1, <2>3, <2>4, <2>5, <2>6
<1>w. /\ DOMAIN Written(x) = Fields
      /\ Written(x).dev = x.dev /\ Written(x).gen = x.gen /\ Written(x).epoch = x.epoch
      /\ Written(x).locked = x.locked /\ Written(x).layout = x.layout
      /\ Written(x).level = x.level /\ Written(x).page = x.page
      /\ Written(x).armed = x.armed /\ Written(x).held = x.held
      /\ Written(x).drain = x.drain
      /\ Written(x).sent = [x.sent EXCEPT ![n] = x.desired[n]]
  BY <1>1, WrittenFacts
<1> DEFINE y == Written(x)
           v == x.desired[n]
<1> HIDE DEF y, x, n, v
<1>3. CASE ~x.dev /\ w' = x /\ pc' = "open" /\ deck' = deck
  <2>1. pc' \in Places /\ Same(w', w) /\ ~w'.dev
    BY <1>1, <1>3 DEF Places
  <2>2. QED
    BY <1>t, <1>0, <1>q, <1>3, <2>1, SameStep
<1>4. CASE Settled(x) /\ deck' = deck
  <2>1. Same(w', x) /\ pc' \in {"turn", "reply"}
    BY <1>1, <1>4, SettledFacts
  <2>2. Same(w', w) /\ pc' \in Places /\ pc' # "open"
    BY <1>1, <2>1 DEF Same, Alike, Places
  <2>3. QED
    BY <1>t, <1>0, <1>q, <1>4, <2>2, SameStep
<1>5. CASE w' = DropDevice(x) /\ pc' = "turn" /\ deck' = deck
  BY <1>t, <1>0, <1>1, <1>5, DropStep DEF Places
<1>6. CASE /\ x.dev /\ deck.alive /\ Settled(y)
           /\ deck' = [deck EXCEPT !.shown = [deck.shown EXCEPT ![n] = v]]
  <2>1. Same(w', y) /\ pc' \in {"turn", "reply"}
    BY <1>w, <1>6, SettledFacts DEF y
  <2>2. /\ DOMAIN w' = Fields /\ w'.dev = w.dev /\ w'.gen = w.gen /\ w'.epoch = w.epoch
        /\ w'.locked = w.locked /\ w'.layout = w.layout /\ w'.level = w.level
        /\ w'.page = w.page /\ w'.armed = w.armed /\ w'.held = w.held /\ w'.drain = w.drain
        /\ w'.sent = [w.sent EXCEPT ![n] = v]
    BY <1>1, <1>w, <2>1 DEF Same, Alike, y, v
  <2>3. /\ DOMAIN deck' = DOMAIN deck /\ deck'.alive = deck.alive /\ deck'.down = deck.down
        /\ deck'.reports = deck.reports /\ deck'.level = deck.level
        /\ deck'.shown = [deck.shown EXCEPT ![n] = v]
    BY <1>t, <1>6 DEF DeckTypeOK
  <2>4. /\ w'.sent = [s \in Surfaces |-> w'.sent[s]]
        /\ deck'.shown = [s \in Surfaces |-> deck'.shown[s]]
        /\ w'.armed = [slot \in Slots |-> w'.armed[slot]]
        /\ w'.gen \in Nat /\ pc' \in Places /\ w'.dev \in BOOLEAN
    BY <1>t, <2>1, <2>2, <2>3 DEF DeckTypeOK, Places
  <2>5. w.dev /\ deck.alive
    BY <1>1, <1>6 DEF Same, Alike
  <2>6. \A s \in Surfaces : w'.sent[s] # None => deck'.shown[s] = w'.sent[s]
    <3>1. \A s \in Surfaces : w.sent[s] # None => deck.shown[s] = w.sent[s]
      BY <1>t, <1>0, <2>5 DEF SentIsShown
    <3>2. DOMAIN w.sent = Surfaces /\ DOMAIN deck.shown = Surfaces
      BY <1>t DEF DeckTypeOK
    <3>3. QED
      BY <2>2, <2>3, <3>1, <3>2
  <2>7. SentIsShown'
    BY <1>t, <1>0, <2>2, <2>3, <2>5, <2>6 DEF SentIsShown
  <2>8. ArmedStays
    BY <2>2 DEF ArmedStays
  <2>9. QED
    BY <1>t, <1>0, <1>q, <2>1, <2>2, <2>3, <2>4, <2>7, <2>8, SessionStep
<1>7. QED
  BY <1>2, <1>3, <1>4, <1>5, <1>6 DEF y, v

LEMMA ReplyStep ==
    ASSUME DeckIInv, Reply
    PROVE  DeckIInv'
<1>t. /\ DeckTypeOK /\ (Calm => Submissions) /\ DOMAIN w = Fields /\ audio \in Audios
      /\ focus \in Nat /\ audio.replies \in Seq([kind : {"act", "read"}, gen : Nat])
      /\ gate.epoch \in Nat
  BY DEF DeckIInv, DeckTypeOK, Audios, Gates
<1>0. pc = "reply" /\ gate' = gate /\ focus' = focus /\ deck' = deck
  BY DEF Reply
<1>k. ASSUME Same(w', w), pc' \in {"turn", "input"}, audio' \in Audios, Calm => Submissions'
      PROVE  DeckIInv'
  <2>1. pc' \in Places
    BY <1>k DEF Places
  <2>2. QED
    BY <1>t, <1>0, <1>k, <2>1, SameStep
<1>s. Same(w, w)
  BY <1>t DEF Same, Alike
<1>1. ASSUME NEW a \in Audios, a.queue = audio.queue, AskReading(a)
      PROVE  DeckIInv'
  <2> DEFINE r == Request("read", {})
  <2>1. r \in Requests /\ r.epoch = gate.epoch /\ r.edges = {}
    BY <1>t, RequestFacts
  <2>2. audio' \in Audios /\ (audio'.queue = audio.queue \/ audio'.queue = Append(audio.queue, r))
    BY <1>t, <1>1, ReadingFacts DEF AskReading
  <2> HIDE DEF r
  <2>3. Calm => Submissions'
    BY <1>t, <1>0, <2>1, <2>2, MoreSubmissions
  <2>4. QED
    BY <1>1, <1>k, <1>s, <2>2, <2>3 DEF AskReading
<1>2. CASE ~w.audio /\ UNCHANGED <<w, audio>> /\ pc' = "input"
  BY <1>t, <1>0, <1>2, <1>k, <1>s, QuietSubmissions
<1>3. CASE audio.alive /\ AskReading(audio)
  BY <1>t, <1>1, <1>3
<1>4. CASE w' = [w EXCEPT !.audio = FALSE] /\ pc' = "turn" /\ UNCHANGED audio
  <2>1. Same(w', w)
    BY <1>t, <1>4 DEF Same, Alike, Fields
  <2>2. QED
    BY <1>t, <1>0, <1>4, <1>k, <2>1, QuietSubmissions
<1>5. ASSUME audio.replies # <<>>
      PROVE  /\ [audio EXCEPT !.replies = Tail(@)] \in Audios
             /\ [audio EXCEPT !.replies = Tail(@)].queue = audio.queue
  <2>1. Tail(audio.replies) \in Seq([kind : {"act", "read"}, gen : Nat])
    BY <1>t, <1>5
  <2>2. QED
    BY <1>t, <2>1 DEF Audios
<1>6. ASSUME NEW r, audio.replies # <<>>, Answered(r)
      PROVE  DeckIInv'
  <2>1. /\ audio' = [audio EXCEPT !.replies = Tail(@)] /\ pc' = "turn"
        /\ \/ w' = Repaint(w) \/ w' = w
           \/ \E shade \in Shades : w' = [SeeMeters(w, shade) EXCEPT !.settle = TRUE]
    BY <1>6 DEF Answered
  <2>2. Same(w', w)
    <3>1. \A shade : Same(SeeMeters(w, shade), w) /\ DOMAIN SeeMeters(w, shade) = Fields
      BY <1>t, PaintFacts DEF Same, Alike
    <3>2. ASSUME NEW shade, w' = [SeeMeters(w, shade) EXCEPT !.settle = TRUE]
          PROVE  Same(w', w)
      <4>1. Same(w', SeeMeters(w, shade))
        BY <3>1, <3>2, SettleFacts
      <4>2. QED
        BY <3>1, <4>1 DEF Same, Alike
    <3>3. QED
      BY <1>t, <1>s, <2>1, <3>2, PaintFacts
  <2>3. QED
    BY <1>t, <1>0, <1>5, <1>6, <1>k, <2>1, <2>2, QuietSubmissions
<1>7. CASE /\ w.audio /\ audio.replies # <<>>
           /\ LET r == Head(audio.replies)
              IN  \/ r.gen = w.gen /\ Answered(r)
                  \/ (r.gen # w.gen \/ r.kind = "read")
                     /\ AskReading([audio EXCEPT !.replies = Tail(@)])
  BY <1>1, <1>5, <1>6, <1>7
<1>8. QED
  BY <1>2, <1>3, <1>4, <1>7 DEF Reply

\* Who waits for an answer or an input has a deck.
Attached == pc \in {"reply", "input"} => w.dev

LEMMA AttachedStep ==
    ASSUME DeckIInv, Attached, [Next]_vars
    PROVE  Attached'
<1>t. DOMAIN w = Fields /\ w.dev \in BOOLEAN
  BY DEF DeckIInv, DeckTypeOK
<1>1. CASE Paint
  <2> DEFINE x == Overlaid(w)
  <2>1. Same(x, w) /\ DOMAIN x = Fields
    BY <1>t, PaintFacts DEF Same, Alike
  <2>2. \/ pc' \in {"open", "turn"}
        \/ x.dev /\ (Settled(x) \/ Settled(Written(x)))
    <3>1. CASE ~x.dev
      BY <1>1, <3>1 DEF Paint
    <3>2. CASE x.dev /\ ~Pending(x)
      BY <1>1, <3>2 DEF Paint
    <3>3. CASE x.dev /\ Pending(x) /\ ~deck.alive
      BY <1>1, <3>3 DEF Paint
    <3>4. CASE x.dev /\ Pending(x) /\ deck.alive
      BY <1>1, <3>4 DEF Paint
    <3>5. QED
      BY <2>1, <3>1, <3>2, <3>3, <3>4, <1>t DEF Same, Alike
  <2>3. DOMAIN Written(x) = Fields /\ Written(x).dev = x.dev
    BY <2>1, WrittenFacts
  <2> DEFINE y == Written(x)
  <2> HIDE DEF x, y
  <2>4. CASE x.dev /\ Settled(x)
    BY <2>1, <2>4, SettledFacts DEF Same, Alike, Attached
  <2>5. CASE x.dev /\ Settled(y)
    BY <2>1, <2>3, <2>5, SettledFacts DEF Same, Alike, Attached, y
  <2>6. QED
    BY <2>2, <2>4, <2>5 DEF Attached, y
<1>2. CASE Reply
  <2>1. pc = "reply" /\ w.dev = TRUE
    BY <1>2, <1>t DEF Reply, Attached
  <2>2. w'.dev = w.dev
    <3>1. \A shade : DOMAIN SeeMeters(w, shade) = Fields /\ SeeMeters(w, shade).dev = w.dev
      BY <1>t, PaintFacts DEF Same, Alike
    <3>2. Repaint(w).dev = w.dev
      BY <1>t, PaintFacts DEF Same, Alike
    <3>3. [w EXCEPT !.audio = FALSE].dev = w.dev
      BY <1>t DEF Fields
    <3>4. \A shade : [SeeMeters(w, shade) EXCEPT !.settle = TRUE].dev = w.dev
      BY <3>1 DEF Fields
    <3>5. QED
      BY <1>2, <3>2, <3>3, <3>4 DEF Reply, AskReading, Answered
  <2>3. QED
    BY <2>1, <2>2 DEF Attached
<1>3. CASE Serve \/ Flip \/ Report \/ UNCHANGED vars
  BY <1>3 DEF Serve, Flip, Report, vars, Attached
<1>4. CASE Turn \/ Control \/ Input \/ Open \/ Stop \/ Resume \/ HoldsExpire \/ Touch \/ Unplug \/ Plug
  <2>1. pc' \notin {"reply", "input"}
    BY <1>4 DEF Turn, Control, Input, Open, Stop, Resume, HoldsExpire, Touch, Unplug, Plug
  <2>2. QED
    BY <2>1 DEF Attached
<1>5. QED
  BY <1>1, <1>2, <1>3, <1>4 DEF Next, Worker, Others

LEMMA ReleasedFacts ==
    ASSUME NEW x, DOMAIN x = Fields, NEW e
    PROVE  /\ Alike(Released(x, e), x) /\ Released(x, e).page = x.page
           /\ Released(x, e).armed = x.armed /\ Released(x, e).drain = x.drain
           /\ Released(x, e).held \subseteq x.held
           /\ e.kind = "up" => e.slot \notin Released(x, e).held
<1>1. \A v : /\ Alike([x EXCEPT !.held = v], x) /\ [x EXCEPT !.held = v].page = x.page
             /\ [x EXCEPT !.held = v].armed = x.armed /\ [x EXCEPT !.held = v].drain = x.drain
             /\ [x EXCEPT !.held = v].held = v
  BY DEF Alike, Fields
<1>2. Alike(x, x)
  BY DEF Alike
<1>3. Released(x, e) = IF e.kind = "up" THEN [x EXCEPT !.held = x.held \ {e.slot}] ELSE x
  BY DEF Released
<1>4. CASE e.kind = "up"
  BY <1>1, <1>3, <1>4
<1>5. CASE e.kind # "up"
  BY <1>2, <1>3, <1>5
<1>6. QED
  BY <1>4, <1>5

\* A report is taken from the deck.
LEMMA TakenStep ==
    ASSUME DeckIInv, pc = "input", pc' = "turn", deck.alive, deck.reports # <<>>, w.dev,
           gate' = gate, focus' = focus,
           DOMAIN deck' = DOMAIN deck, deck'.alive = deck.alive, deck'.down = deck.down,
           deck'.shown = deck.shown, deck'.reports = Tail(deck.reports),
           DOMAIN w' = Fields, w'.dev = w.dev, w'.gen = w.gen, w'.epoch = w.epoch,
           w'.locked = w.locked, w'.sent = w.sent,
           w'.armed = [slot \in Slots |-> w'.armed[slot]],
           w'.drain = w.drain \/ w'.drain = TRUE, w'.drain => w'.held = {},
           \A slot \in w'.held :
              \/ /\ slot \in w.held
                 /\ ~(deck.reports[1].kind = "up" /\ deck.reports[1].slot = slot)
              \/ deck.reports[1].kind = "down" /\ deck.reports[1].slot = slot,
           ArmedHere', ArmedNow', SentIsShown', audio' \in Audios, Calm => Submissions'
    PROVE  DeckIInv'
<1>t. /\ DeckTypeOK /\ Drained /\ Paired /\ Seen /\ Unread /\ HeldWhileDown
      /\ deck.reports \in Seq(Reports)
  BY DEF DeckIInv, DeckTypeOK
<1> DEFINE n == Len(deck.reports)
<1>1. /\ n \in Nat /\ n > 0 /\ Len(deck'.reports) = n - 1
      /\ deck'.reports \in Seq(Reports)
      /\ \A i \in 1..(n - 1) : deck'.reports[i] = deck.reports[i + 1]
  BY <1>t
<1>h. \A j \in 2..n : (j - 1) \in 1..(n - 1) /\ deck'.reports[j - 1] = deck.reports[j]
  <2> SUFFICES ASSUME NEW j \in 2..n
               PROVE  (j - 1) \in 1..(n - 1) /\ deck'.reports[j - 1] = deck.reports[j]
    OBVIOUS
  <2>1. (j - 1) \in 1..(n - 1) /\ (j - 1) + 1 = j
    BY <1>1
  <2>2. QED
    BY <1>1, <2>1
<1>d. DOMAIN deck'.reports = 1..(n - 1) /\ DOMAIN deck.reports = 1..n
  BY <1>t, <1>1
<1> HIDE DEF n
<1>2. DeckTypeOK'
  BY <1>t, <1>1 DEF DeckTypeOK, Places
<1>3. Drained'
  BY <1>t DEF Drained
<1>4. Paired'
  <2> SUFFICES ASSUME NEW i \in 1..Len(deck'.reports), deck'.reports[i].kind = "down",
                      deck'.reports[i].slot \notin deck.down
               PROVE  \E j \in i+1..Len(deck'.reports) :
                         deck'.reports[j].kind = "up" /\ deck'.reports[j].slot = deck'.reports[i].slot
    BY DEF Paired
  <2>1. (i + 1) \in 1..n /\ deck'.reports[i] = deck.reports[i + 1]
    BY <1>1
  <2>2. PICK j \in (i+1)+1..n :
           deck.reports[j].kind = "up" /\ deck.reports[j].slot = deck.reports[i+1].slot
    BY <1>t, <2>1 DEF Paired, n
  <2>3. (j - 1) \in i+1..Len(deck'.reports) /\ j \in 2..n
    BY <1>1, <2>2
  <2>4. deck'.reports[j - 1] = deck.reports[j]
    BY <1>h, <2>3
  <2>5. QED
    BY <2>1, <2>2, <2>3, <2>4
<1>5. Seen'
  BY <1>t DEF Seen
<1>6. Unread'
  <2> SUFFICES ASSUME ~w'.drain, NEW i \in 1..(n - 1)
               PROVE  w.epoch <= deck'.reports[i].at /\ deck'.reports[i].at <= gate.epoch
    BY <1>1 DEF Unread
  <2>1. (i + 1) \in 1..n /\ deck'.reports[i] = deck.reports[i + 1]
    BY <1>1
  <2>2. QED
    BY <1>t, <2>1 DEF Unread, n
<1>7. HeldWhileDown'
  <2> SUFFICES ASSUME NEW slot \in w'.held, slot \notin deck.down
               PROVE  \E i \in 1..(n - 1) :
                         deck'.reports[i].kind = "up" /\ deck'.reports[i].slot = slot
    BY <1>d DEF HeldWhileDown
  <2>1. PICK j \in 2..n : deck.reports[j].kind = "up" /\ deck.reports[j].slot = slot
    <3>1. CASE /\ slot \in w.held
               /\ ~(deck.reports[1].kind = "up" /\ deck.reports[1].slot = slot)
      <4>1. PICK j \in 1..n : deck.reports[j].kind = "up" /\ deck.reports[j].slot = slot
        BY <1>t, <1>d, <3>1 DEF HeldWhileDown
      <4>2. j # 1
        BY <3>1, <4>1
      <4>3. j \in 2..n
        BY <1>1, <4>2
      <4>4. QED
        BY <4>1, <4>3
    <3>2. CASE deck.reports[1].kind = "down" /\ deck.reports[1].slot = slot
      <4>1. 1 \in 1..n /\ 1 + 1 = 2
        BY <1>1
      <4>2. QED
        BY <1>t, <3>2, <4>1 DEF Paired, n
    <3>3. QED
      BY <3>1, <3>2
  <2>2. (j - 1) \in 1..(n - 1) /\ deck'.reports[j - 1] = deck.reports[j]
    BY <1>h
  <2>3. QED
    BY <2>1, <2>2
<1>8. QED
  BY <1>2, <1>3, <1>4, <1>5, <1>6, <1>7 DEF DeckIInv

\* The drain ends when nothing waits to be read.
LEMMA IdleStep ==
    ASSUME DeckIInv, pc = "input", pc' = "turn", deck.reports = <<>>, NEW b \in BOOLEAN,
           w' = [w EXCEPT !.drain = b], b => w.drain, w.locked => b,
           gate' = gate, focus' = focus, audio' = audio, deck' = deck
    PROVE  DeckIInv'
<1>t. /\ DeckTypeOK /\ Drained /\ Seen /\ ArmedHere /\ ArmedNow /\ HeldWhileDown
      /\ SentIsShown /\ (Calm => Submissions)
  BY DEF DeckIInv
<1>1. /\ DOMAIN w' = Fields /\ w'.dev = w.dev /\ w'.gen = w.gen /\ w'.epoch = w.epoch
      /\ w'.locked = w.locked /\ w'.sent = w.sent /\ w'.level = w.level /\ w'.held = w.held
      /\ w'.armed = w.armed /\ w'.layout = w.layout /\ w'.page = w.page /\ w'.drain = b
  BY <1>t DEF DeckTypeOK, Fields
<1>2. DeckTypeOK'
  BY <1>t, <1>1 DEF DeckTypeOK, Places
<1>3. Drained' /\ HeldWhileDown'
  BY <1>t, <1>1 DEF Drained, HeldWhileDown
<1>4. Paired' /\ Unread'
  <2>1. 1..Len(deck'.reports) = {}
    OBVIOUS
  <2>2. QED
    BY <2>1 DEF Paired, Unread
<1>5. Seen'
  BY <1>t, <1>1 DEF Seen
<1>6. ArmedHere' /\ ArmedNow'
  BY <1>t, <1>1 DEF ArmedHere, ArmedNow, Here
<1>7. SentIsShown' /\ (Calm => Submissions')
  BY <1>t, <1>1, QuietSubmissions DEF SentIsShown
<1>8. QED
  BY <1>2, <1>3, <1>4, <1>5, <1>6, <1>7 DEF DeckIInv

\* A report is read: it may end a hold, begin one, arm, fire or turn the page.
LEMMA InputStep ==
    ASSUME DeckIInv, Attached, Input
    PROVE  DeckIInv'
<1>t. /\ DeckTypeOK /\ Drained /\ Unread /\ ArmedHere /\ ArmedNow /\ Seen /\ SentIsShown
      /\ (Calm => Submissions) /\ DOMAIN w = Fields /\ audio \in Audios
      /\ deck.reports \in Seq(Reports) /\ focus \in Nat /\ gate.epoch \in Nat
      /\ w.epoch \in Nat /\ w.drain \in BOOLEAN /\ w.locked \in BOOLEAN
      /\ gate.locked \in BOOLEAN /\ gate.flips \in Nat /\ deck.alive \in BOOLEAN
  BY DEF DeckIInv, DeckTypeOK, Gates
<1>0. /\ pc = "input" /\ pc' = "turn" /\ pc' \in Places /\ gate' = gate /\ focus' = focus
      /\ w.dev
  BY DEF Input, Places, Attached
<1>s. Same(w, w)
  BY <1>t DEF Same, Alike
<1>1. CASE ~deck.alive /\ w' = DropDevice(w) /\ UNCHANGED <<audio, deck>>
  BY <1>0, <1>1, <1>s, DropStep
<1>2. CASE deck.reports = <<>> /\ TakeNothing
  <2>1. CASE w' = w
    BY <1>t, <1>0, <1>2, <1>s, <2>1, SameStep, QuietSubmissions DEF TakeNothing
  <2>2. CASE w' = [w EXCEPT !.drain = @ /\ (w.locked \/ Pending(w))]
    <3> DEFINE b == w.drain /\ (w.locked \/ Pending(w))
    <3>1. b \in BOOLEAN /\ (b => w.drain) /\ (w.locked => b)
      BY <1>t DEF Pending, Drained
    <3>2. w' = [w EXCEPT !.drain = b] /\ audio' = audio /\ deck' = deck
      BY <1>2, <2>2 DEF TakeNothing
    <3> HIDE DEF b
    <3>3. QED
      BY <1>0, <1>2, <3>1, <3>2, IdleStep
  <2>3. QED
    BY <1>2, <2>1, <2>2 DEF TakeNothing
<1> DEFINE e == deck.reports[1]
           d == [deck EXCEPT !.reports = Tail(deck.reports)]
<1>3. ASSUME deck.alive, deck.reports # <<>>, Read(e, d)
      PROVE  DeckIInv'
  <2>d. /\ DOMAIN d = DOMAIN deck /\ d.alive = deck.alive /\ d.down = deck.down
        /\ d.shown = deck.shown /\ d.reports = Tail(deck.reports) /\ d.level = deck.level
        /\ d.alive = TRUE
    BY <1>t, <1>3 DEF DeckTypeOK
  <2>e. /\ e \in Reports /\ 1 \in 1..Len(deck.reports) /\ e.at \in Nat
        /\ e.kind \in {"down", "up"} => e.slot \in Slots
    BY <1>t, <1>3 DEF Reports
  <2> HIDE DEF d
  <2>k. ASSUME deck' = d, Alike(w', w), ArmedHere', ArmedNow',
               w'.armed = [slot \in Slots |-> w'.armed[slot]],
               w'.drain = w.drain \/ w'.drain = TRUE, w'.drain => w'.held = {},
               \A slot \in w'.held :
                 \/ slot \in w.held /\ ~(e.kind = "up" /\ e.slot = slot)
                 \/ e.kind = "down" /\ e.slot = slot,
               audio' \in Audios, Calm => Submissions'
        PROVE  DeckIInv'
    <3>1. /\ DOMAIN w' = Fields /\ w'.dev = w.dev /\ w'.gen = w.gen /\ w'.epoch = w.epoch
          /\ w'.locked = w.locked /\ w'.level = w.level /\ w'.sent = w.sent
      BY <2>k DEF Alike
    <3>2. SentIsShown'
      BY <1>0, <1>t, <2>d, <2>k, <3>1, SentKept
    <3>3. QED
      BY <1>0, <1>3, <2>d, <2>k, <3>1, <3>2, TakenStep
  <2>m. ASSUME deck' = d, Alike(w', w), w'.page = w.page, w'.armed = w.armed,
               w'.drain = w.drain, w'.held \subseteq w.held,
               e.kind = "up" => e.slot \notin w'.held, w.drain => w'.held = {},
               audio' \in Audios, Calm => Submissions'
        PROVE  DeckIInv'
    <3>1. ArmedStays
      BY <2>m DEF ArmedStays, Alike
    <3>2. ArmedHere' /\ ArmedNow'
      BY <1>t, <3>1, ArmedKept
    <3>3. w'.armed = [slot \in Slots |-> w'.armed[slot]]
      BY <1>t, <2>m DEF DeckTypeOK
    <3> HIDE DEF e
    <3>4. QED
      BY <2>k, <2>m, <3>2, <3>3
  <2>q. audio' = audio => audio' \in Audios /\ (Calm => Submissions')
    BY <1>t, <1>0, QuietSubmissions
  <2>a. ASSUME ~w.drain
        PROVE  e.at = w.epoch
    BY <1>0, <1>t, <2>a, <2>e DEF Unread
  <2>c. ASSUME ~w.locked, NEW edges \in SUBSET Nat, edges \subseteq {w.epoch},
               audio' = IF w.audio THEN Submitted(audio, Request("act", edges)) ELSE audio
        PROVE  audio' \in Audios /\ (Calm => Submissions')
    <3> DEFINE r == Request("act", edges)
    <3>1. r \in Requests /\ r.epoch = gate.epoch /\ r.edges = edges
      BY <1>t, RequestFacts
    <3>2. audio' = audio \/ audio' = Submitted(audio, r)
      BY <2>c
    <3> HIDE DEF r
    <3>3. /\ audio' \in Audios
          /\ audio'.queue = audio.queue \/ audio'.queue = Append(audio.queue, r)
      BY <1>t, <3>1, <3>2, SubmittedFacts
    <3>4. Calm => w.epoch = gate.epoch \/ gate.locked
      <4>1. FlipsPerTurn \in Nat
        BY WorkerAssumption
      <4>2. CASE gate.flips = 0
        BY <1>t, <1>0, <4>2 DEF Seen
      <4>3. CASE gate.flips = 1
        BY <1>t, <1>0, <2>c, <4>3 DEF Seen
      <4>4. QED
        BY <1>t, <4>1, <4>2, <4>3 DEF Seen, Calm
    <3>5. Calm => Submissions'
      BY <1>t, <1>0, <2>c, <3>1, <3>3, <3>4, MoreSubmissions
    <3>6. QED
      BY <3>3, <3>5
  <2>1. CASE (w.locked \/ w.drain) /\ Discard /\ deck' = d
    <3>1. w.held = {}
      BY <1>t, <2>1 DEF Drained
    <3>2. /\ Alike(w', w) /\ w'.page = w.page /\ w'.armed = w.armed /\ w'.drain = TRUE
          /\ w'.held = {}
      BY <1>t, <2>1, <3>1 DEF Discard, Alike, Fields
    <3>3. ArmedStays
      BY <3>2 DEF ArmedStays, Alike
    <3>4. ArmedHere' /\ ArmedNow'
      BY <1>t, <3>3, ArmedKept
    <3>5. w'.armed = [slot \in Slots |-> w'.armed[slot]]
      BY <1>t, <3>2 DEF DeckTypeOK
    <3>6. audio' = audio
      BY <2>1 DEF Discard
    <3> HIDE DEF e
    <3>7. QED
      BY <2>1, <2>k, <2>q, <3>2, <3>4, <3>5, <3>6
  <2>2. CASE ~(w.locked \/ w.drain) /\ e.kind \in {"down", "up"} /\ Key(e) /\ deck' = d
    <3>r. /\ Alike(Released(w, e), w) /\ Released(w, e).page = w.page
          /\ Released(w, e).armed = w.armed /\ Released(w, e).drain = w.drain
          /\ Released(w, e).held \subseteq w.held
          /\ e.kind = "up" => e.slot \notin Released(w, e).held
      BY <1>t, ReleasedFacts
    <3>1. CASE w' = Released(w, e) /\ UNCHANGED audio
      BY <2>2, <2>m, <2>q, <3>1, <3>r
    <3>2. CASE /\ e.kind = "down" /\ w' = [w EXCEPT !.held = @ \cup {e.slot}]
               /\ UNCHANGED audio
      <4>1. /\ Alike(w', w) /\ w'.page = w.page /\ w'.armed = w.armed /\ w'.drain = w.drain
            /\ w'.held = w.held \cup {e.slot}
        BY <1>t, <3>2 DEF Alike, Fields
      <4>2. ArmedStays
        BY <4>1 DEF ArmedStays, Alike
      <4>3. ArmedHere' /\ ArmedNow'
        BY <1>t, <4>2, ArmedKept
      <4>4. w'.armed = [slot \in Slots |-> w'.armed[slot]]
        BY <1>t, <4>1 DEF DeckTypeOK
      <4> HIDE DEF e
      <4>5. QED
        BY <2>2, <2>k, <2>q, <3>2, <4>1, <4>3, <4>4
    <3>3. CASE e.kind = "down" /\ Arm(e)
      <4> DEFINE v == [does |-> Does(e.slot), from |-> Here(w), at |-> e.at]
      <4>1. w' = [w EXCEPT !.armed = [w.armed EXCEPT ![e.slot] = v]] /\ audio' = audio
        BY <1>t, <3>3 DEF Arm, Fields
      <4>2. v.from = Here(w) /\ v.at = w.epoch
        BY <2>2, <2>a
      <4> HIDE DEF v
      <4>3. /\ Alike(w', w) /\ w'.page = w.page /\ w'.drain = w.drain /\ w'.held = w.held
            /\ w'.armed = [w.armed EXCEPT ![e.slot] = v]
        BY <1>t, <4>1 DEF Alike, Fields
      <4>4. \A slot \in Slots : w'.armed[slot] = w.armed[slot] \/ w'.armed[slot] = v
        BY <1>t, <4>3 DEF DeckTypeOK
      <4>5. Here(w') = Here(w)
        BY <4>3 DEF Here, Alike
      <4>6. ArmedHere' /\ ArmedNow'
        BY <1>t, <4>2, <4>3, <4>4, <4>5 DEF ArmedHere, ArmedNow, Alike
      <4>7. w'.armed = [slot \in Slots |-> w'.armed[slot]]
        BY <1>t, <4>3 DEF DeckTypeOK
      <4> HIDE DEF e
      <4>8. QED
        BY <1>t, <2>2, <2>k, <2>q, <3>3, <4>1, <4>3, <4>6, <4>7
    <3>4. CASE e.kind = "up" /\ Fire(e)
      <4> DEFINE armed == w.armed[e.slot]
                 z == Released(w, e)
                 x == [z EXCEPT !.armed[e.slot] = None]
      <4>1. x = [z EXCEPT !.armed = [w.armed EXCEPT ![e.slot] = None]]
        BY <1>t, <3>r DEF Alike, Fields
      <4>2. /\ Alike(x, w) /\ x.page = w.page /\ x.drain = w.drain /\ x.held \subseteq w.held
            /\ e.slot \notin x.held
            /\ x.armed = [w.armed EXCEPT ![e.slot] = None]
        <5> HIDE DEF z, x
        <5>1. /\ Alike(z, w) /\ z.page = w.page /\ z.drain = w.drain
              /\ z.held \subseteq w.held /\ e.slot \notin z.held
          BY <3>r, <3>4 DEF z
        <5>2. QED
          BY <4>1, <5>1 DEF Alike, Fields
      <4>3. \/ w' = x /\ audio' = audio
            \/ w' = Turned(x, OtherPage(x.page)) /\ audio' = audio
            \/ /\ armed # None /\ w' = x
               /\ audio' = IF w.audio
                           THEN Submitted(audio, Request("act", {armed.at, e.at}))
                           ELSE audio
        BY <3>4 DEF Fire
      <4> HIDE DEF z, x
      <4>k. ASSUME w' = x, audio' \in Audios, Calm => Submissions'
            PROVE  DeckIInv'
        <5>1. \A slot \in Slots : w'.armed[slot] = w.armed[slot] \/ w'.armed[slot] = None
          BY <1>t, <4>2, <4>k DEF DeckTypeOK
        <5>2. ArmedStays
          BY <4>2, <4>k, <5>1 DEF ArmedStays, Alike
        <5>3. ArmedHere' /\ ArmedNow'
          BY <1>t, <5>2, ArmedKept
        <5>4. w'.armed = [slot \in Slots |-> w'.armed[slot]]
          BY <1>t, <4>2, <4>k DEF DeckTypeOK
        <5>5. e.kind = "up" /\ ~w.drain
          BY <2>2, <3>4
        <5> HIDE DEF e
        <5>6. QED
          BY <2>2, <2>k, <4>2, <4>k, <5>3, <5>4, <5>5
      <4>4. CASE w' = x /\ audio' = audio
        BY <2>q, <4>k, <4>4
      <4>5. CASE w' = Turned(x, OtherPage(x.page)) /\ audio' = audio
        <5> DEFINE page == OtherPage(x.page)
        <5>1. w' = Turned(x, page)
          BY <4>5
        <5> HIDE DEF page
        <5>2. Cleared(w', x) /\ w'.drain = x.drain
          BY <4>2, <5>1, TurnedFacts DEF Alike
        <5>3. Alike(w', w) /\ w'.armed = Unarmed /\ w'.held = {} /\ w'.drain = w.drain
          BY <4>2, <5>2 DEF Cleared, Alike
        <5>4. ArmedStays /\ w'.armed = [slot \in Slots |-> w'.armed[slot]]
          BY <5>3 DEF ArmedStays, Unarmed
        <5>5. ArmedHere' /\ ArmedNow'
          BY <1>t, <5>4, ArmedKept
        <5> HIDE DEF e
        <5>6. QED
          BY <2>2, <2>k, <2>q, <4>5, <5>3, <5>4, <5>5
      <4>6. CASE /\ armed # None /\ w' = x
                 /\ audio' = IF w.audio
                             THEN Submitted(audio, Request("act", {armed.at, e.at}))
                             ELSE audio
        <5>1. armed.at = w.epoch /\ e.at = w.epoch
          BY <1>t, <2>2, <2>a, <2>e, <4>6 DEF ArmedNow
        <5>2. {armed.at, e.at} \in SUBSET Nat /\ {armed.at, e.at} \subseteq {w.epoch}
          BY <1>t, <5>1
        <5> DEFINE edges == {armed.at, e.at}
        <5>3. audio' = IF w.audio THEN Submitted(audio, Request("act", edges)) ELSE audio
          BY <4>6
        <5> HIDE DEF edges
        <5>4. audio' \in Audios /\ (Calm => Submissions')
          BY <2>2, <2>c, <5>2, <5>3 DEF edges
        <5>5. QED
          BY <4>k, <4>6, <5>4
      <4>7. QED
        BY <4>3, <4>4, <4>5, <4>6
    <3>5. QED
      BY <2>2, <3>1, <3>2, <3>3, <3>4 DEF Key, Talk
  <2>3. CASE ~(w.locked \/ w.drain) /\ GoTo(OtherPage(w.page)) /\ UNCHANGED audio /\ deck' = d
    <3> DEFINE page == OtherPage(w.page)
    <3>1. w' = Turned(w, page)
      BY <2>3 DEF GoTo
    <3> HIDE DEF page
    <3>2. Alike(w', w) /\ w'.armed = Unarmed /\ w'.held = {} /\ w'.drain = w.drain
      BY <1>t, <3>1, TurnedFacts DEF Cleared
    <3>3. ArmedStays /\ w'.armed = [slot \in Slots |-> w'.armed[slot]]
      BY <3>2 DEF ArmedStays, Unarmed
    <3>4. ArmedHere' /\ ArmedNow'
      BY <1>t, <3>3, ArmedKept
    <3> HIDE DEF e
    <3>5. QED
      BY <2>3, <2>k, <2>q, <3>2, <3>3, <3>4
  <2>4. CASE /\ ~(w.locked \/ w.drain) /\ Spin(e) /\ deck' = d
             /\ e.kind \notin {"down", "up"}
    <3>1. {e.at} \in SUBSET Nat /\ {e.at} \subseteq {w.epoch}
      BY <2>a, <2>e, <2>4
    <3>2. audio' \in Audios /\ (Calm => Submissions')
      BY <2>c, <2>4, <3>1 DEF Spin
    <3>3. w' = w
      BY <2>4 DEF Spin
    <3> HIDE DEF e
    <3>4. QED
      BY <1>s, <1>t, <2>m, <2>4, <3>2, <3>3 DEF Same
  <2>5. CASE ~(w.locked \/ w.drain) /\ SpinLevel(d) /\ e.kind \notin {"down", "up"}
    <3>1. CASE w' = w /\ deck' = d
      <4>1. audio' = audio
        BY <2>5 DEF SpinLevel
      <4> HIDE DEF e
      <4>2. QED
        BY <1>s, <1>t, <2>m, <2>5, <2>q, <3>1, <4>1 DEF Same
    <3>2. ASSUME NEW level, w' = [w EXCEPT !.level = level], deck' = [d EXCEPT !.level = level]
          PROVE  DeckIInv'
      <4>1. /\ DOMAIN w' = Fields /\ w'.dev = w.dev /\ w'.gen = w.gen /\ w'.epoch = w.epoch
            /\ w'.locked = w.locked /\ w'.sent = w.sent /\ w'.drain = w.drain
            /\ w'.held = w.held /\ w'.armed = w.armed /\ w'.layout = w.layout
            /\ w'.page = w.page /\ w'.level = level
        BY <1>t, <3>2 DEF Fields
      <4>2. /\ DOMAIN deck' = DOMAIN deck /\ deck'.alive = deck.alive /\ deck'.down = deck.down
            /\ deck'.shown = deck.shown /\ deck'.reports = Tail(deck.reports)
            /\ deck'.level = level
        BY <1>t, <2>d, <3>2 DEF DeckTypeOK
      <4>3. ArmedStays
        BY <4>1 DEF ArmedStays
      <4>4. ArmedHere' /\ ArmedNow'
        BY <1>t, <4>3, ArmedKept
      <4>5. SentIsShown'
        BY <1>0, <1>t, <4>1, <4>2 DEF SentIsShown
      <4>6. w'.armed = [slot \in Slots |-> w'.armed[slot]] /\ audio' = audio
        BY <1>t, <2>5, <4>1 DEF DeckTypeOK, SpinLevel
      <4> HIDE DEF e
      <4>7. QED
        BY <1>0, <1>3, <1>t, <2>5, <2>q, <4>1, <4>2, <4>4, <4>5, <4>6, TakenStep DEF e
    <3>3. QED
      BY <2>5, <2>d, <3>1, <3>2 DEF SpinLevel, SetLevel
  <2>6. QED
    BY <1>3, <2>1, <2>2, <2>3, <2>4, <2>5 DEF Read
<1>4. QED
  <2>1. CASE deck.alive /\ deck.reports # <<>> /\ Read(Head(deck.reports), [deck EXCEPT !.reports = Tail(@)])
    BY <1>t, <1>3, <2>1
  <2>2. QED
    BY <1>1, <1>2, <2>1 DEF Input

\* Opening starts from an empty image: what is shown is not believed.
LEMMA OpenStep ==
    ASSUME DeckIInv, Open
    PROVE  DeckIInv'
<1>t. /\ DeckTypeOK /\ Drained /\ Paired /\ Seen /\ ArmedHere /\ ArmedNow /\ Unread
      /\ HeldWhileDown /\ SentIsShown /\ (Calm => Submissions) /\ DOMAIN w = Fields
      /\ w.gen \in Nat /\ w.drain \in BOOLEAN /\ focus \in Nat /\ audio \in Audios
  BY DEF DeckIInv, DeckTypeOK
<1>0. /\ pc = "open" /\ pc' = "turn" /\ pc' \in Places /\ gate' = gate /\ focus' = focus
      /\ audio' = audio /\ (Calm => Submissions') /\ w.dev = FALSE
  BY <1>t, QuietSubmissions DEF Open, Places, Drained, DeckTypeOK
<1>1. CASE UNCHANGED <<w, deck>>
  BY <1>0, <1>1, <1>t, SameStep DEF Same, Alike
<1>o. /\ DOMAIN Opened(w) = Fields /\ Opened(w).dev = w.dev /\ Opened(w).gen = w.gen
      /\ Opened(w).epoch = w.epoch /\ Opened(w).locked = w.locked
      /\ Opened(w).level = w.level /\ Opened(w).sent = Nothing
      /\ Opened(w).armed = Unarmed /\ Opened(w).held = w.held
      /\ Opened(w).drain = w.drain
  BY <1>t, OpenedFacts
<1>h. w.held = {}
  BY <1>t, <1>0 DEF HeldWhileDown
<1>2. CASE w' = Opened(w) /\ UNCHANGED deck
  <2>1. ArmedStays /\ SentIsShown'
    BY <1>0, <1>o, <1>2 DEF ArmedStays, Unarmed, SentIsShown
  <2>2. /\ w'.sent = [s \in Surfaces |-> w'.sent[s]] /\ w'.gen \in Nat
        /\ w'.armed = [slot \in Slots |-> w'.armed[slot]] /\ w'.dev \in BOOLEAN
        /\ deck'.shown = [s \in Surfaces |-> deck'.shown[s]]
    BY <1>t, <1>0, <1>o, <1>2 DEF DeckTypeOK, Nothing, Unarmed
  <2>3. QED
    BY <1>t, <1>0, <1>o, <1>2, <2>1, <2>2, SessionStep
<1>3. CASE /\ w' = [Opened(w) EXCEPT !.settle = TRUE, !.gen = @ + 1, !.dev = TRUE,
                                     !.active = IF w.locked THEN 0 ELSE w.gen + 1,
                                     !.resume = FALSE]
           /\ deck' = [deck EXCEPT !.alive = TRUE, !.reports = <<>>,
                                   !.level = IF w.level = None THEN @ ELSE w.level]
  <2> DEFINE x == Opened(w)
             v == IF w.locked THEN 0 ELSE w.gen + 1
             l == IF w.level = None THEN deck.level ELSE w.level
  <2>1. w' = [x EXCEPT !.settle = TRUE, !.gen = x.gen + 1, !.dev = TRUE, !.active = v,
                       !.resume = FALSE]
    BY <1>3
  <2>2. deck' = [deck EXCEPT !.alive = TRUE, !.reports = <<>>, !.level = l]
    BY <1>3
  <2> HIDE DEF x, v, l
  <2>3. /\ DOMAIN w' = Fields /\ w'.dev = TRUE /\ w'.gen = w.gen + 1 /\ w'.epoch = w.epoch
        /\ w'.locked = w.locked /\ w'.level = w.level /\ w'.sent = Nothing
        /\ w'.armed = Unarmed /\ w'.held = {} /\ w'.drain = w.drain
    BY <1>o, <1>h, <2>1 DEF x, Fields
  <2>4. /\ DOMAIN deck' = DOMAIN deck /\ deck'.alive = TRUE /\ deck'.down = deck.down
        /\ deck'.shown = deck.shown /\ deck'.reports = <<>> /\ deck'.level = l
    BY <1>t, <2>2 DEF DeckTypeOK
  <2>5. DeckTypeOK'
    <3>1. w'.gen \in Nat /\ deck'.reports \in Seq(Reports)
      BY <1>t, <2>3, <2>4
    <3>2. /\ w'.sent = [s \in Surfaces |-> w'.sent[s]]
          /\ w'.armed = [slot \in Slots |-> w'.armed[slot]]
      BY <2>3 DEF Nothing, Unarmed
    <3>3. QED
      BY <1>t, <1>0, <2>3, <2>4, <3>1, <3>2 DEF DeckTypeOK
  <2>6. Drained' /\ HeldWhileDown'
    BY <1>t, <1>0, <2>3, <2>4 DEF Drained, HeldWhileDown
  <2>7. Paired' /\ Unread'
    <3>1. 1..Len(deck'.reports) = {}
      BY <2>4
    <3>2. QED
      BY <3>1 DEF Paired, Unread
  <2>8. Seen'
    BY <1>t, <1>0, <2>3 DEF Seen
  <2>9. ArmedHere' /\ ArmedNow'
    BY <2>3 DEF ArmedHere, ArmedNow, Unarmed
  <2>10. SentIsShown'
    BY <2>3, <2>4 DEF SentIsShown, Nothing, l
  <2>11. QED
    BY <1>0, <2>5, <2>6, <2>7, <2>8, <2>9, <2>10 DEF DeckIInv
<1>4. QED
  BY <1>1, <1>2, <1>3 DEF Open

LEMMA StopStep ==
    ASSUME DeckIInv, Stop
    PROVE  DeckIInv'
<1>t. /\ DeckTypeOK /\ (Calm => Submissions) /\ DOMAIN w = Fields
  BY DEF DeckIInv, DeckTypeOK
<1>0. /\ pc = "turn" /\ pc' = "stopped" /\ pc' \in Places /\ gate' = gate /\ focus' = focus
      /\ audio' = audio /\ (Calm => Submissions')
  BY <1>t, QuietSubmissions DEF Stop, Places
<1> DEFINE x == [w EXCEPT !.active = 0]
<1>1. /\ DOMAIN x = Fields /\ x.dev = w.dev /\ x.gen = w.gen /\ x.epoch = w.epoch
      /\ x.locked = w.locked /\ x.sent = w.sent /\ x.armed = w.armed /\ x.drain = w.drain
      /\ x.layout = w.layout /\ x.page = w.page
  BY <1>t DEF Fields
<1>2. w' = CancelHolds(x)
  BY DEF Stop
<1> HIDE DEF x
<1>3. /\ DOMAIN w' = Fields /\ w'.dev = w.dev /\ w'.gen = w.gen /\ w'.epoch = w.epoch
      /\ w'.locked = w.locked /\ w'.sent = w.sent /\ w'.armed = w.armed /\ w'.drain = w.drain
      /\ w'.layout = w.layout /\ w'.page = w.page /\ w'.held = {}
  BY <1>1, <1>2, CancelFacts DEF Alike
<1>4. /\ DOMAIN deck' = DOMAIN deck /\ deck'.alive = deck.alive /\ deck'.down = deck.down
      /\ deck'.reports = deck.reports
      /\ deck'.shown = deck.shown \/ deck'.shown = Nothing
  BY <1>t DEF Stop, DeckTypeOK
<1>5. ArmedStays /\ SentIsShown'
  BY <1>0, <1>3 DEF ArmedStays, SentIsShown
<1>6. /\ w'.sent = [s \in Surfaces |-> w'.sent[s]] /\ w'.gen \in Nat /\ w'.dev \in BOOLEAN
      /\ w'.armed = [slot \in Slots |-> w'.armed[slot]] /\ focus' \in Nat
      /\ deck'.shown = [s \in Surfaces |-> deck'.shown[s]] /\ audio' \in Audios
  BY <1>t, <1>0, <1>3, <1>4 DEF DeckTypeOK, Nothing
<1>7. QED
  BY <1>0, <1>3, <1>4, <1>5, <1>6, SessionStep

-----------------------------------------------------------------------------
(* The others.                                                             *)

LEMMA ServeStep ==
    ASSUME DeckIInv, Serve
    PROVE  DeckIInv'
<1>t. /\ DeckTypeOK /\ (Calm => Submissions) /\ audio \in Audios /\ DOMAIN w = Fields
      /\ audio.queue \in Seq(Requests) /\ audio.queue # <<>> /\ focus \in Nat
      /\ audio.replies \in Seq([kind : {"act", "read"}, gen : Nat])
      /\ audio.readPending \in BOOLEAN
  BY DEF DeckIInv, DeckTypeOK, Audios, Serve
<1>0. /\ pc' = pc /\ pc # "open" /\ pc \in Places /\ gate' = gate /\ focus' = focus
      /\ w' = w /\ deck' = deck
  BY <1>t DEF Serve, Between, DeckTypeOK
<1> DEFINE r == audio.queue[1]
           b == audio.readPending /\ r.kind # "read"
           a == [audio EXCEPT !.queue = Tail(audio.queue), !.readPending = b]
           reply == [kind |-> r.kind, gen |-> r.gen]
<1>1. r \in Requests /\ Head(audio.queue) = r
  BY <1>t
<1>2. Tail(audio.queue) \in Seq(Requests) /\ b \in BOOLEAN
  BY <1>t
<1>3. reply \in [kind : {"act", "read"}, gen : Nat]
  BY <1>1 DEF Requests
<1> HIDE DEF b
<1>4. a \in Audios /\ a.queue = Tail(audio.queue) /\ a.replies = audio.replies
  BY <1>t, <1>2 DEF Audios
<1>5. \/ audio' = a \/ audio' = [a EXCEPT !.replies = Append(a.replies, reply)]
      \/ audio' = [a EXCEPT !.alive = FALSE]
  BY <1>1 DEF Serve, b
<1> HIDE DEF a, reply
<1>6. Append(a.replies, reply) \in Seq([kind : {"act", "read"}, gen : Nat])
  BY <1>t, <1>3, <1>4
<1>7. audio' \in Audios /\ audio'.queue = Tail(audio.queue)
  BY <1>4, <1>5, <1>6 DEF Audios
<1>8. Calm => Submissions'
  <2> SUFFICES ASSUME Calm, NEW i \in 1..Len(audio'.queue)
               PROVE  \/ audio'.queue[i].edges \subseteq {audio'.queue[i].epoch}
                      \/ audio'.queue[i].epoch < gate.epoch
                      \/ audio'.queue[i].epoch = gate.epoch /\ gate.locked
    BY <1>0 DEF Submissions
  <2> DEFINE q == audio.queue
  <2>q. q \in Seq(Requests) /\ q # <<>> /\ audio'.queue = Tail(q)
    BY <1>t, <1>7
  <2> HIDE DEF q
  <2>1. /\ Len(q) \in Nat /\ Len(audio'.queue) = Len(q) - 1
        /\ \A k \in 1..(Len(q) - 1) : audio'.queue[k] = q[k + 1]
    BY <2>q
  <2>2. i + 1 \in 1..Len(q) /\ audio'.queue[i] = q[i + 1]
    BY <2>1
  <2>3. QED
    BY <1>t, <2>2 DEF Submissions, q
<1>9. Same(w', w)
  BY <1>t, <1>0 DEF Same, Alike
<1>10. QED
  BY <1>t, <1>0, <1>7, <1>8, <1>9, SameStep

LEMMA ExpireStep ==
    ASSUME DeckIInv, HoldsExpire
    PROVE  DeckIInv'
<1>t. DeckTypeOK /\ (Calm => Submissions) /\ DOMAIN w = Fields
  BY DEF DeckIInv, DeckTypeOK
<1>0. /\ pc = "turn" /\ pc' = pc /\ gate' = gate /\ focus' = focus /\ audio' = audio
      /\ deck' = deck /\ w' = CancelHolds(w) /\ (Calm => Submissions')
  BY <1>t, QuietSubmissions DEF HoldsExpire
<1>1. /\ DOMAIN w' = Fields /\ w'.dev = w.dev /\ w'.gen = w.gen /\ w'.epoch = w.epoch
      /\ w'.locked = w.locked /\ w'.level = w.level /\ w'.sent = w.sent
      /\ w'.drain = w.drain /\ w'.held = {} /\ w'.armed = w.armed
      /\ w'.layout = w.layout /\ w'.page = w.page
  BY <1>t, <1>0, CancelFacts DEF Alike
<1>2. pc' \in Places /\ focus' \in Nat /\ audio' \in Audios
  BY <1>t, <1>0 DEF DeckTypeOK
<1>3. QED
  BY <1>0, <1>1, <1>2, TidyStep

\* The deck or the foreground change in what the properties do not see.
LEMMA OutsideStep ==
    ASSUME DeckIInv, Report \/ Plug \/ UNCHANGED vars
    PROVE  DeckIInv'
<1>t. DeckTypeOK /\ Drained /\ (Calm => Submissions) /\ DOMAIN w = Fields
  BY DEF DeckIInv, DeckTypeOK
<1>1. /\ pc' = pc /\ w' = w /\ gate' = gate /\ audio' = audio /\ focus' \in {focus, focus + 1}
      /\ deck' = deck \/ deck' = [deck EXCEPT !.present = TRUE]
  BY DEF Report, Plug, vars
<1>2. /\ DOMAIN deck' = DOMAIN deck /\ deck'.alive = deck.alive /\ deck'.down = deck.down
      /\ deck'.reports = deck.reports /\ deck'.shown = deck.shown /\ deck'.level = deck.level
  BY <1>t, <1>1 DEF DeckTypeOK
<1>3. /\ pc' \in Places /\ focus' \in Nat /\ audio' \in Audios /\ Same(w', w)
      /\ (pc' = "open" => ~w'.dev)
  BY <1>t, <1>1 DEF DeckTypeOK, Same, Alike, Drained
<1>4. Calm => Submissions'
  BY <1>t, <1>1, QuietSubmissions
<1>5. QED
  BY <1>1, <1>2, <1>3, <1>4, SameStep

\* What was submitted before the lock changes is of the past.
LEMMA FlipStep ==
    ASSUME DeckIInv, Flip
    PROVE  DeckIInv'
<1>t. /\ DeckTypeOK /\ Drained /\ Paired /\ Seen /\ ArmedHere /\ ArmedNow /\ Unread
      /\ HeldWhileDown /\ SentIsShown /\ (Calm => Submissions) /\ gate \in Gates
      /\ gate.epoch \in Nat /\ gate.flips \in Nat /\ gate.locked \in BOOLEAN
      /\ audio \in Audios /\ deck.reports \in Seq(Reports) /\ w.epoch \in Nat
      /\ w.locked \in BOOLEAN
  BY DEF DeckIInv, DeckTypeOK, Gates
<1>1. /\ pc' = pc /\ w' = w /\ focus' = focus /\ audio' = audio /\ deck' = deck
      /\ pc \in {"turn", "control"}
      /\ gate.flips < FlipsPerTurn /\ gate'.epoch = gate.epoch + 1
      /\ gate'.locked = ~gate.locked /\ gate'.flips = gate.flips + 1 /\ gate'.enabled = TRUE
  BY DEF Flip, Between
<1>2. gate' \in Gates
  BY <1>t DEF Flip, Gates
<1>3. DeckTypeOK'
  BY <1>t, <1>1, <1>2 DEF DeckTypeOK
<1>4. Drained' /\ Paired' /\ ArmedHere' /\ ArmedNow' /\ HeldWhileDown' /\ SentIsShown'
  <2>1. Drained' /\ SentIsShown' /\ HeldWhileDown'
    BY <1>t, <1>1 DEF Drained, SentIsShown, HeldWhileDown
  <2>2. ArmedHere' /\ ArmedNow'
    BY <1>t, <1>1 DEF ArmedHere, ArmedNow, Here
  <2>3. Paired'
    BY <1>t, <1>1 DEF Paired
  <2>4. QED
    BY <2>1, <2>2, <2>3
<1>5. Seen'
  <2>1. FlipsPerTurn \in Nat
    BY WorkerAssumption
  <2>2. gate'.flips <= FlipsPerTurn /\ gate'.epoch > 0 /\ gate'.flips > 0
    BY <1>t, <1>1, <2>1
  <2>3. w.epoch # 0 => gate'.epoch = w.epoch + gate'.flips
    BY <1>t, <1>1 DEF Seen
  <2>4. gate'.flips = 1 /\ w.epoch # 0 => gate'.locked # w.locked
    <3>1. SUFFICES ASSUME gate'.flips = 1, w.epoch # 0
                   PROVE  gate'.locked # w.locked
      OBVIOUS
    <3>2. gate.flips = 0
      BY <1>t, <1>1, <3>1
    <3>3. gate.locked = w.locked
      BY <1>t, <3>1, <3>2 DEF Seen
    <3>4. QED
      BY <1>t, <1>1, <3>3
  <2>5. w.epoch = 0 => pc \in {"turn", "stopped"} /\ ~deck.alive /\ ~w.locked
    BY <1>t DEF Seen
  <2>6. gate'.enabled /\ gate'.flips # 0
    BY <1>1, <2>2
  <2>7. QED
    BY <1>1, <2>2, <2>3, <2>4, <2>5, <2>6 DEF Seen
<1>6. Unread'
  <2> SUFFICES ASSUME ~w.drain, NEW i \in 1..Len(deck.reports)
               PROVE  /\ w.epoch <= deck.reports[i].at /\ deck.reports[i].at <= gate.epoch + 1
                      /\ pc \notin {"turn", "stopped"} => deck.reports[i].at = w.epoch
    BY <1>1 DEF Unread
  <2>1. deck.reports[i] \in Reports
    BY <1>t
  <2>2. deck.reports[i].at \in Nat
    BY <2>1 DEF Reports
  <2>3. QED
    BY <1>t, <2>2 DEF Unread
<1>7. Calm => Submissions'
  <2> SUFFICES ASSUME Calm, NEW i \in 1..Len(audio.queue)
               PROVE  \/ audio.queue[i].edges \subseteq {audio.queue[i].epoch}
                      \/ audio.queue[i].epoch < gate.epoch + 1
    BY <1>1 DEF Submissions
  <2>1. audio.queue[i] \in Requests
    BY <1>t DEF Audios
  <2>2. audio.queue[i].epoch \in Nat
    BY <2>1 DEF Requests
  <2>3. QED
    BY <1>t, <2>2 DEF Submissions
<1>8. QED
  BY <1>3, <1>4, <1>5, <1>6, <1>7 DEF DeckIInv

\* A press or a release is queued behind the others; the key is down or up.
LEMMA TouchStep ==
    ASSUME DeckIInv, Touch
    PROVE  DeckIInv'
<1>t. /\ DeckTypeOK /\ Drained /\ Paired /\ Seen /\ ArmedHere /\ ArmedNow /\ Unread
      /\ HeldWhileDown /\ SentIsShown /\ (Calm => Submissions) /\ gate.epoch \in Nat
      /\ deck.reports \in Seq(Reports) /\ w.epoch \in Nat /\ deck.alive \in BOOLEAN
      /\ gate.flips \in Nat
  BY DEF DeckIInv, DeckTypeOK, Gates
<1>0. /\ pc' = pc /\ w' = w /\ focus' = focus /\ audio' = audio /\ gate' = gate
      /\ pc = "turn"
  BY DEF Touch
<1> DEFINE n == Len(deck.reports)
<1>k. ASSUME NEW e \in Reports, e.at = gate.epoch, NEW down,
             \A slot \in deck.down : slot \in down \/ (e.kind = "up" /\ e.slot = slot),
             e.kind = "down" => e.slot \in down,
             DOMAIN deck' = DOMAIN deck, deck'.alive = deck.alive, deck'.down = down,
             deck'.shown = deck.shown, deck'.level = deck.level,
             deck'.reports = IF deck.alive THEN Append(deck.reports, e) ELSE <<>>
      PROVE  DeckIInv'
  <2> DEFINE q == deck.reports
             p == deck'.reports
  <2>1. CASE deck.alive
    <3> HIDE DEF n
    <3>q. q \in Seq(Reports) /\ p = Append(q, e) /\ n = Len(q)
      BY <1>t, <1>k, <2>1 DEF n
    <3> HIDE DEF q, p
    <3>1. /\ n \in Nat /\ p \in Seq(Reports) /\ Len(p) = n + 1
          /\ \A i \in 1..n : p[i] = q[i]
          /\ p[n + 1] = e
      BY <3>q
    <3>l. p[n + 1] = e /\ (n + 1) \in 1..Len(p)
      BY <3>1
    <3>2. DeckTypeOK'
      BY <1>t, <1>0, <1>k, <3>1 DEF DeckTypeOK, p
    <3>3. Drained' /\ Seen' /\ ArmedHere' /\ ArmedNow' /\ SentIsShown' /\ (Calm => Submissions')
      BY <1>t, <1>0, <1>k, <2>1, QuietSubmissions
         DEF Drained, Seen, ArmedHere, ArmedNow, Here, SentIsShown
    <3>4. Paired'
      <4> SUFFICES ASSUME NEW i \in 1..Len(p), p[i].kind = "down", p[i].slot \notin down
                   PROVE  \E j \in i+1..Len(p) : p[j].kind = "up" /\ p[j].slot = p[i].slot
        BY <1>k DEF Paired, p
      <4>1. i \in 1..n /\ p[i] = q[i]
        <5>1. i # n + 1
          BY <1>k, <3>l
        <5>2. QED
          BY <3>1, <5>1
      <4>2. CASE q[i].slot \in deck.down
        <5>1. e.kind = "up" /\ e.slot = p[i].slot
          BY <1>k, <4>1, <4>2
        <5>2. (n + 1) \in i+1..Len(p)
          BY <3>1, <4>1
        <5>3. QED
          BY <3>l, <5>1, <5>2
      <4>3. CASE q[i].slot \notin deck.down
        <5>1. PICK j \in i+1..n : q[j].kind = "up" /\ q[j].slot = q[i].slot
          BY <1>t, <3>q, <4>1, <4>3 DEF Paired, q, n
        <5>2. j \in i+1..Len(p) /\ p[j] = q[j]
          BY <3>1, <4>1, <5>1
        <5>3. QED
          BY <4>1, <5>1, <5>2
      <4>4. QED
        BY <4>2, <4>3
    <3>5. Unread'
      <4> SUFFICES ASSUME ~w.drain, NEW i \in 1..Len(p)
                   PROVE  w.epoch <= p[i].at /\ p[i].at <= gate.epoch
        BY <1>0 DEF Unread, p
      <4>1. CASE i \in 1..n
        <5>1. i \in 1..Len(q) /\ p[i] = q[i]
          BY <3>1, <3>q, <4>1
        <5>2. QED
          BY <1>t, <5>1 DEF Unread, q
      <4>2. CASE i = n + 1
        <5>1. w.epoch # 0
          BY <1>t, <2>1 DEF Seen
        <5>2. w.epoch <= gate.epoch
          BY <1>t, <5>1 DEF Seen
        <5>3. QED
          BY <1>k, <1>t, <3>1, <4>2, <5>2
      <4>3. QED
        BY <3>1, <4>1, <4>2
    <3>6. HeldWhileDown'
      <4> SUFFICES ASSUME NEW slot \in w.held, slot \notin down
                   PROVE  \E i \in 1..Len(p) : p[i].kind = "up" /\ p[i].slot = slot
        <5>1. DOMAIN p = 1..Len(p)
          BY <3>1
        <5>2. \A slot \in w.held : w.dev
          BY <1>t DEF HeldWhileDown
        <5>3. QED
          BY <1>0, <1>k, <5>1, <5>2 DEF HeldWhileDown, p
      <4>1. CASE slot \in deck.down
        BY <1>k, <3>l, <4>1
      <4>2. CASE slot \notin deck.down
        <5>1. DOMAIN q = 1..n
          BY <3>q
        <5>2. PICK i \in 1..n : q[i].kind = "up" /\ q[i].slot = slot
          BY <1>t, <2>1, <4>2, <5>1 DEF HeldWhileDown, q
        <5>3. i \in 1..Len(p) /\ p[i] = q[i]
          BY <3>1
        <5>4. QED
          BY <5>2, <5>3
      <4>3. QED
        BY <4>1, <4>2
    <3>7. QED
      BY <3>2, <3>3, <3>4, <3>5, <3>6 DEF DeckIInv
  <2>2. CASE ~deck.alive
    <3>1. deck'.reports = <<>> /\ deck.alive = FALSE
      BY <1>t, <1>k, <2>2
    <3>2. DeckTypeOK'
      BY <1>t, <1>0, <1>k, <3>1 DEF DeckTypeOK
    <3>3. Drained' /\ Seen' /\ ArmedHere' /\ ArmedNow' /\ SentIsShown' /\ (Calm => Submissions')
      BY <1>t, <1>0, <1>k, <3>1, QuietSubmissions
         DEF Drained, Seen, ArmedHere, ArmedNow, Here, SentIsShown
    <3>4. Paired' /\ Unread'
      <4>1. 1..Len(deck'.reports) = {}
        BY <3>1
      <4>2. QED
        BY <4>1 DEF Paired, Unread
    <3>5. HeldWhileDown'
      BY <1>t, <1>0, <1>k, <3>1 DEF HeldWhileDown
    <3>6. QED
      BY <3>2, <3>3, <3>4, <3>5 DEF DeckIInv
  <2>3. QED
    BY <2>1, <2>2
<1>1. ASSUME NEW slot \in Slots,
             deck' = IF slot \in deck.down
                     THEN [deck EXCEPT !.down = @ \ {slot}, !.reports = Reported("up", slot)]
                     ELSE [deck EXCEPT !.down = @ \cup {slot}, !.reports = Reported("down", slot)]
      PROVE  DeckIInv'
  <2>1. ASSUME NEW kind \in {"up", "down"}, NEW down,
               kind = "up" => down = deck.down \ {slot},
               kind = "down" => down = deck.down \cup {slot},
               deck' = [deck EXCEPT !.down = down, !.reports = Reported(kind, slot)]
        PROVE  DeckIInv'
    <3> DEFINE e == [kind |-> kind, slot |-> slot, at |-> gate.epoch]
               q == Reported(kind, slot)
    <3>1. /\ e \in Reports /\ e.at = gate.epoch /\ e.kind = kind /\ e.slot = slot
      BY <1>t DEF Reports
    <3>2. q = IF deck.alive THEN Append(deck.reports, e) ELSE <<>>
      BY DEF Reported
    <3> HIDE DEF e, q
    <3>3. /\ DOMAIN deck' = DOMAIN deck /\ deck'.alive = deck.alive /\ deck'.down = down
          /\ deck'.shown = deck.shown /\ deck'.level = deck.level /\ deck'.reports = q
      BY <1>t, <2>1 DEF DeckTypeOK, q
    <3>4. /\ \A s \in deck.down : s \in down \/ (e.kind = "up" /\ e.slot = s)
          /\ e.kind = "down" => e.slot \in down
      BY <2>1, <3>1
    <3>5. QED
      BY <1>k, <3>1, <3>2, <3>3, <3>4
  <2>2. CASE slot \in deck.down
    <3> DEFINE down == deck.down \ {slot}
    <3>1. deck' = [deck EXCEPT !.down = down, !.reports = Reported("up", slot)]
      BY <1>1, <2>2
    <3> HIDE DEF down
    <3>2. QED
      BY <2>1, <3>1 DEF down
  <2>3. CASE slot \notin deck.down
    <3> DEFINE down == deck.down \cup {slot}
    <3>1. deck' = [deck EXCEPT !.down = down, !.reports = Reported("down", slot)]
      BY <1>1, <2>3
    <3> HIDE DEF down
    <3>2. QED
      BY <2>1, <3>1 DEF down
  <2>4. QED
    BY <2>2, <2>3
<1>2. ASSUME NEW kind \in Inputs \ {"key"}, deck' = [deck EXCEPT !.reports = Reported(kind, None)]
      PROVE  DeckIInv'
  <2> DEFINE e == [kind |-> kind, slot |-> None, at |-> gate.epoch]
             q == Reported(kind, None)
  <2>1. kind \in {"flick", "turn", "level"}
    BY <1>2, WorkerAssumption
  <2>2. e \in Reports /\ e.at = gate.epoch /\ e.kind = kind
    BY <1>t, <2>1 DEF Reports
  <2>3. q = IF deck.alive THEN Append(deck.reports, e) ELSE <<>>
    BY DEF Reported
  <2> HIDE DEF e, q
  <2>4. /\ DOMAIN deck' = DOMAIN deck /\ deck'.alive = deck.alive /\ deck'.down = deck.down
        /\ deck'.shown = deck.shown /\ deck'.level = deck.level /\ deck'.reports = q
    BY <1>t, <1>2 DEF DeckTypeOK, q
  <2>5. QED
    BY <1>k, <2>1, <2>2, <2>3, <2>4
<1>3. \/ \E slot \in Slots :
            deck' = IF slot \in deck.down
                    THEN [deck EXCEPT !.down = @ \ {slot}, !.reports = Reported("up", slot)]
                    ELSE [deck EXCEPT !.down = @ \cup {slot}, !.reports = Reported("down", slot)]
      \/ \E kind \in Inputs \ {"key"} : deck' = [deck EXCEPT !.reports = Reported(kind, None)]
  BY Zenon DEF Touch
<1>4. QED
  BY <1>1, <1>2, <1>3

\* The deck is gone, and what it showed with it.
LEMMA UnplugStep ==
    ASSUME DeckIInv, Unplug
    PROVE  DeckIInv'
<1>t. /\ DeckTypeOK /\ Drained /\ Paired /\ Seen /\ ArmedHere /\ ArmedNow /\ Unread
      /\ HeldWhileDown /\ SentIsShown /\ (Calm => Submissions)
  BY DEF DeckIInv
<1>1. /\ pc' = pc /\ w' = w /\ focus' = focus /\ audio' = audio /\ gate' = gate
      /\ deck' = [deck EXCEPT !.present = FALSE, !.alive = FALSE, !.reports = <<>>,
                              !.down = {}, !.shown = Nothing, !.level = None]
  BY DEF Unplug
<1>2. /\ DOMAIN deck' = DOMAIN deck /\ deck'.alive = FALSE /\ deck'.down = {}
      /\ deck'.shown = Nothing /\ deck'.reports = <<>>
  BY <1>t, <1>1 DEF DeckTypeOK
<1>3. DeckTypeOK'
  BY <1>t, <1>1, <1>2 DEF DeckTypeOK, Nothing
<1>4. Drained' /\ Seen' /\ ArmedHere' /\ ArmedNow' /\ SentIsShown' /\ (Calm => Submissions')
  BY <1>t, <1>1, <1>2, QuietSubmissions
     DEF Drained, Seen, ArmedHere, ArmedNow, Here, SentIsShown
<1>5. Paired' /\ Unread'
  <2>1. 1..Len(deck'.reports) = {}
    BY <1>2
  <2>2. QED
    BY <2>1 DEF Paired, Unread
<1>6. HeldWhileDown'
  BY <1>t, <1>1, <1>2 DEF HeldWhileDown
<1>7. QED
  BY <1>3, <1>4, <1>5, <1>6 DEF DeckIInv

-----------------------------------------------------------------------------
(* The theorems.                                                           *)

LEMMA InitHolds ==
    ASSUME Init
    PROVE  DeckIInv /\ Attached
<1> DEFINE shade == CHOOSE s \in Shades : TRUE
<1>1. /\ pc = "turn" /\ focus = 0
      /\ w = [dev |-> FALSE, gen |-> 0, active |-> 0, held |-> {}, audio |-> TRUE,
              epoch |-> 0, locked |-> FALSE, focus |-> 0, drain |-> FALSE, resume |-> FALSE,
              layout |-> FirstLayout, page |-> Home, armed |-> Unarmed,
              shade |-> shade, level |-> Saved,
              desired |-> Nothing, sent |-> Nothing, cursor |-> "key", settle |-> FALSE]
      /\ audio = [alive |-> TRUE, queue |-> <<>>, replies |-> <<>>, readPending |-> FALSE]
      /\ deck = [present |-> TRUE, alive |-> FALSE, down |-> {}, reports |-> <<>>,
                 shown |-> Nothing, level |-> None]
  BY DEF Init
<1>2. PICK enabled \in BOOLEAN :
         gate = [locked |-> enabled, enabled |-> enabled, epoch |-> 1, flips |-> 0]
  BY DEF Init
<1> HIDE DEF shade
<1>3. /\ DOMAIN w = Fields /\ w.dev = FALSE /\ w.gen = 0 /\ w.held = {} /\ w.epoch = 0
      /\ w.locked = FALSE /\ w.drain = FALSE /\ w.armed = Unarmed /\ w.sent = Nothing
  BY <1>1 DEF Fields
<1>4. /\ gate \in Gates /\ gate.flips = 0 /\ gate.epoch = 1 /\ gate.locked = gate.enabled
  BY <1>2 DEF Gates
<1>5. /\ DOMAIN deck = {"present", "alive", "down", "reports", "shown", "level"}
      /\ deck.alive = FALSE /\ deck.reports = <<>> /\ deck.shown = Nothing
  BY <1>1
<1>6. audio \in Audios /\ audio.queue = <<>>
  BY <1>1 DEF Audios
<1>7. DeckTypeOK
  BY <1>1, <1>3, <1>4, <1>5, <1>6 DEF DeckTypeOK, Places, Nothing, Unarmed
<1>8. Drained /\ HeldWhileDown /\ ArmedHere /\ ArmedNow /\ SentIsShown /\ Attached
  BY <1>1, <1>3, <1>5
     DEF Drained, HeldWhileDown, ArmedHere, ArmedNow, Unarmed, SentIsShown, Attached
<1>9. Paired /\ Unread /\ Submissions
  <2>1. 1..Len(deck.reports) = {} /\ 1..Len(audio.queue) = {}
    BY <1>5, <1>6
  <2>2. QED
    BY <2>1 DEF Paired, Unread, Submissions
<1>10. Seen
  <2>1. FlipsPerTurn \in Nat
    BY WorkerAssumption
  <2>2. QED
    BY <1>1, <1>3, <1>4, <1>5, <2>1 DEF Seen
<1>11. QED
  BY <1>7, <1>8, <1>9, <1>10 DEF DeckIInv

\* The inductive invariant: every step of the worker, of the audio thread, of the
\* session lock and of the person keeps it (worker.rs, audio_worker.rs, ptt.rs).
THEOREM Invariance == Spec => [](DeckIInv /\ Attached)
<1>1. Init => DeckIInv /\ Attached
  BY InitHolds
<1>2. DeckIInv /\ Attached /\ [Next]_vars => DeckIInv' /\ Attached'
  <2> SUFFICES ASSUME DeckIInv, Attached, [Next]_vars
               PROVE  DeckIInv'
    BY AttachedStep
  <2>1. CASE Worker
    BY <2>1, TurnStep, ControlStep, PaintStep, ReplyStep, InputStep, OpenStep DEF Worker
  <2>2. CASE Others
    BY <2>2, ExpireStep, FlipStep, OutsideStep, TouchStep, UnplugStep DEF Others
  <2>3. CASE Resume \/ Stop \/ Serve
    BY <2>3, ResumeStep, StopStep, ServeStep
  <2>4. CASE UNCHANGED vars
    BY <2>4, OutsideStep
  <2>5. QED
    BY <2>1, <2>2, <2>3, <2>4 DEF Next
<1>3. QED
  BY <1>1, <1>2, PTL DEF Spec

\* Nothing stays armed for a release across a page, a layout, a lock or a
\* replugging: what is armed was armed here (worker.rs show and ControllerState).
THEOREM ArmedIsHere == Spec => []ArmedHere
<1>1. DeckIInv /\ Attached => ArmedHere
  BY DEF DeckIInv
<1>2. QED
  BY <1>1, Invariance, PTL

\* A push-to-talk slot is held only with its key down, or with its release or the
\* loss of the deck still to be read (worker.rs, ptt.rs).
THEOREM HeldIsDown == Spec => []HeldWhileDown
<1>1. DeckIInv /\ Attached => HeldWhileDown
  BY DEF DeckIInv
<1>2. QED
  BY <1>1, Invariance, PTL

\* What the queue of images believes sent is on the deck, and so is the brightness
\* last set, through failed writes, replugging and suspend (display.rs, worker.rs).
THEOREM SentIsTrue == Spec => []SentIsShown
<1>1. DeckIInv /\ Attached => SentIsShown
  BY DEF DeckIInv
<1>2. QED
  BY <1>1, Invariance, PTL

\* Only the audio thread starts actions, and only the first of its queue.
LEMMA StartsFromQueue ==
    ASSUME DeckIInv, [Next]_vars, ~Serve
    PROVE  audio'.alive = audio.alive /\ Len(audio'.replies) <= Len(audio.replies)
<1>t. /\ audio \in Audios /\ audio.replies \in Seq([kind : {"act", "read"}, gen : Nat])
      /\ Len(audio.replies) \in Nat
  BY DEF DeckIInv, DeckTypeOK, Audios
<1> DEFINE Fewer(a) == a.alive = audio.alive /\ Len(a.replies) <= Len(audio.replies)
<1>1. ASSUME NEW a, NEW r, DOMAIN a = DOMAIN audio, Fewer(a)
      PROVE  Fewer(Submitted(a, r)) /\ DOMAIN Submitted(a, r) = DOMAIN a
  BY <1>1, <1>t DEF Submitted, Audios
<1>2. ASSUME NEW a, DOMAIN a = DOMAIN audio, Fewer(a)
      PROVE  Fewer(ReadSubmitted(a))
  <2> DEFINE r == Request("read", {})
             b == Submitted(a, r)
  <2>1. Fewer(b) /\ DOMAIN b = DOMAIN a
    BY <1>1, <1>2
  <2>2. ReadSubmitted(a) = a \/ ReadSubmitted(a) = [b EXCEPT !.readPending = TRUE]
    BY DEF ReadSubmitted
  <2> HIDE DEF b, r
  <2>3. Fewer([b EXCEPT !.readPending = TRUE])
    BY <1>2, <1>t, <2>1 DEF Audios
  <2>4. QED
    BY <1>2, <2>2, <2>3
<1>3. Fewer(audio)
  BY <1>t
<1> HIDE DEF Fewer
<1>4. CASE audio' = audio
  BY <1>3, <1>4 DEF Fewer
<1>5. CASE Control
  <2>1. audio' = audio \/ \E r : audio' = Submitted(audio, r)
    BY <1>5 DEF Control, Apply, ApplyTest, ApplyPage, ApplyLayout, ApplyLevel
  <2>2. QED
    BY <1>1, <1>3, <2>1 DEF Fewer
<1>6. CASE Input
  <2>1. audio' = audio \/ \E r : audio' = Submitted(audio, r)
    BY <1>6 DEF Input, Read, TakeNothing, Discard, Key, Talk, Arm, Fire, Spin, SpinLevel
  <2>2. QED
    BY <1>1, <1>3, <2>1 DEF Fewer
<1>7. CASE Reply
  <2> DEFINE a == [audio EXCEPT !.replies = Tail(@)]
  <2>1. \/ audio' = audio \/ audio' = ReadSubmitted(audio)
        \/ audio.replies # <<>> /\ audio' \in {a, ReadSubmitted(a)}
    BY <1>7 DEF Reply, AskReading, Answered
  <2>2. audio.replies # <<>> => DOMAIN a = DOMAIN audio /\ Fewer(a)
    <3>1. SUFFICES ASSUME audio.replies # <<>>
                   PROVE  DOMAIN a = DOMAIN audio /\ Fewer(a)
      OBVIOUS
    <3>2. Len(Tail(audio.replies)) = Len(audio.replies) - 1
      BY <1>t, <3>1
    <3>3. QED
      BY <1>t, <3>2 DEF Fewer, Audios
  <2> HIDE DEF a
  <2>3. QED
    BY <1>2, <1>3, <2>1, <2>2 DEF Fewer
<1>8. QED
  <2>1. audio' = audio \/ Control \/ Input \/ Reply
    BY DEF Next, Worker, Others, Turn, Paint, Open, Stop, Resume, HoldsExpire, Flip, Report,
           Touch, Unplug, Plug, vars
  <2>2. QED
    BY <1>4, <1>5, <1>6, <1>7, <2>1

\* No action starts whose press or release was made before the session last locked
\* or unlocked, as long as the lock does not change twice within one turn of the
\* worker (audio_worker.rs checks the epoch of a request, worker.rs its session).
THEOREM NoneCrossesLock ==
    ASSUME Calm
    PROVE  Spec => NothingCrossesLock
<1>1. ASSUME DeckIInv, DeckIInv', [Next]_vars
      PROVE  [(audio'.alive # audio.alive \/ Len(audio'.replies) > Len(audio.replies))
                => Head(audio.queue).edges \subseteq {gate.epoch}]_vars
  <2>t. /\ Len(audio'.replies) \in Nat /\ Len(audio.replies) \in Nat
        /\ audio \in Audios /\ gate.epoch \in Nat
        /\ audio.queue \in Seq(Requests)
    <3>1. audio \in Audios /\ audio' \in Audios /\ gate \in Gates
      BY <1>1 DEF DeckIInv, DeckTypeOK
    <3>2. QED
      BY <3>1 DEF Audios, Gates
  <2>1. CASE ~Serve
    <3>1. audio'.alive = audio.alive /\ Len(audio'.replies) <= Len(audio.replies)
      BY <1>1, <2>1, StartsFromQueue
    <3>2. QED
      BY <2>t, <3>1
  <2>2. CASE Serve
    <3> DEFINE r == Head(audio.queue)
               b == audio.readPending /\ r.kind # "read"
               a == [audio EXCEPT !.queue = Tail(audio.queue), !.readPending = b]
    <3>1. audio.queue # <<>> /\ r = audio.queue[1] /\ 1 \in 1..Len(audio.queue)
      BY <2>t, <2>2 DEF Serve
    <3>2. CASE Current(r)
      <4>1. ~gate.locked /\ r.epoch = gate.epoch
        BY <3>2 DEF Current, Accepts
      <4>2. r.edges \subseteq {r.epoch}
        BY <1>1, <2>t, <3>1, <4>1 DEF DeckIInv, Submissions
      <4>3. QED
        BY <4>1, <4>2
    <3>3. CASE ~Current(r)
      <4>1. audio' = a
        BY <2>2, <3>3 DEF Serve
      <4> HIDE DEF b
      <4>2. audio'.alive = audio.alive /\ audio'.replies = audio.replies
        BY <2>t, <4>1 DEF Audios
      <4>3. QED
        BY <2>t, <4>2
    <3>4. QED
      BY <3>2, <3>3
  <2>3. QED
    BY <2>1, <2>2
<1>2. QED
  BY <1>1, Invariance, PTL DEF Spec, NothingCrossesLock

=============================================================================
