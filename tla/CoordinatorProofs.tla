------------------------- MODULE CoordinatorProofs -------------------------
(***************************************************************************)
(* Proofs about the two halves of the runtime coordinator.                 *)
(*                                                                         *)
(* LiveProfiles, for any decks, callers, capacity of the link and number   *)
(* of disturbances.  LiveIInv is inductive.  Its view part (MirrorCurrent, *)
(* HoldsInView) needs only types; the answers need where a request is      *)
(* (Progress), the applications what is reserved (Tickets), and the room   *)
(* of the link what was sent and by whom (Queued).                         *)
(*                                                                         *)
(* HostGates, for any budget of preparations, locks and faults.  HostIInv  *)
(* is inductive.  It dates everything by the epochs of the gates (Dated)   *)
(* and by the sleeps of the machine (Recent), says who may let an          *)
(* inhibitor go (Gated), and that the runtime has seen every lock or will  *)
(* see from the epoch that it missed one (Guarded).                        *)
(***************************************************************************)
EXTENDS LiveProfiles, HostGates, TLAPS

Session == [connection : Nat, binding : Nat, up : BOOLEAN, draining : BOOLEAN]
Ticket == [connection : Nat, binding : Nat, epoch : Nat]
Context == [connection : Nat, binding : Nat, lock : Nat]
Revisions == [Deck -> Nat]
Message == [kind : {"reserve", "cancel", "apply"}, req : Req, deck : Deck, context : Context,
            ticket : Ticket \cup {None}, revisions : Revisions]
Answer == [ok : BOOLEAN, ticket : Ticket \cup {None}]
IdleDisk == [pc : {"idle"}, req : {None}, host : Revisions]
BusyDisk == [pc : {"prepared", "reserve", "reserved", "cancel", "published", "apply"},
             req : Req, host : Revisions, deck : Deck, context : Context,
             revisions : Revisions, ticket : Ticket \cup {None},
             answer : Answer \cup {None},
             verdict : {"none", "refused", "cancelled", "apply_failed"}]
Turns ==
  [op : {"none", "gate", "foreground"}]
  \cup [op : {"navigate"}, deck : Deck, turns : BOOLEAN]
  \cup [op : {"disconnect", "attach"}, deck : Deck]
  \cup [op : {"reserve"}, request : Message]
Heard == {"refused", "cancelled", "reserve_uncertain", "commit_uncertain", "saved",
          "apply_failed", "timeout"}
Token == [revision : Nat, session : [connection : Nat, binding : Nat]]

Views ==
  [catalog : Revisions, session : [Deck -> [connection : Nat, binding : Nat]],
   context : [Deck -> Context \cup {None}]]

\* The coordinator's part of the state.
RuntimeTypeOK ==
  /\ session \in [Deck -> Session]
  /\ lease \in [Deck -> BOOLEAN]
  /\ gate \in [locked : BOOLEAN, epoch : Nat] /\ fore \in Nat
  /\ mirror \in [Deck -> Context \cup {None}]
  /\ holds \in [Deck -> [context : Context \cup {None}, foreground : Nat] \cup {None}]
  /\ edits \in [Deck -> Ticket \cup {None}] /\ editEpoch \in Nat
  /\ catalog \in Revisions /\ shown \in Revisions /\ bound \in Revisions
  /\ turn \in Turns
  /\ view \in Views

NewCall == [state : {"new"}]
MadeCall == [state : {"pending"} \cup Heard, deck : Deck, token : Token]
Histories == [published : SUBSET Req, applied : SUBSET Req, rejected : SUBSET Req,
              uncertain : SUBSET Req, disturbed : SUBSET Deck]

\* The disk thread's and the callers'.
DiskTypeOK ==
  /\ link \in Seq(Message) /\ Len(link) <= Capacity
  /\ store \in Revisions
  /\ disk \in IdleDisk \cup BusyDisk
  /\ api \in [Req -> NewCall \cup MadeCall]
  /\ past \in Histories

\* A request has been taken up by the disk thread and is not answered.
InHand(r) == disk.pc # "idle" /\ disk.req = r
\* The request was never taken up, nor refused.
Unserved(r) == api[r].state \in {"new", "pending"} /\ ~InHand(r)

\* The request in hand is published where the thread has published it, and
\* waits for its answer; a request never taken up is nowhere.
Progress ==
  /\ disk.pc # "idle" => api[disk.req].state \in {"pending", "timeout"}
  /\ disk.pc \in {"prepared", "reserve", "reserved", "cancel"} => disk.req \notin past.published
  /\ disk.pc \in {"published", "apply"} => disk.req \in past.published
  /\ disk.pc = "cancel" => disk.verdict \in {"refused", "cancelled"}
  /\ disk.pc = "apply" => disk.verdict = "apply_failed"
  /\ disk.pc = "apply" /\ disk.answer # None /\ disk.answer.ok => disk.req \in past.applied
  /\ \A r \in Req : Unserved(r) => r \notin past.published

\* What is reserved.  A deck that was disturbed has no reservation, or is down
\* and will lose it when it comes back.
Reservations ==
  /\ \A d \in past.disturbed : edits[d] = None \/ ~session[d].up
  /\ turn.op = "attach" => edits[turn.deck] = None
  /\ \A d \in Deck : edits[d] # None => edits[d].epoch <= editEpoch

\* Whoever was granted a reservation has its ticket, and applies with it.
Carried ==
  /\ turn.op = "reserve" => turn.request.kind = "reserve"
  /\ disk.pc = "reserve" /\ disk.answer # None /\ disk.answer.ok => disk.answer.ticket \in Ticket
  /\ disk.pc \in {"reserved", "published"} => disk.ticket \in Ticket
  /\ \A i \in 1..Len(link) : link[i].kind = "apply" => link[i].ticket \in Ticket

Tickets == Reservations /\ Carried

\* What is in the link was sent by requests taken up; the one in hand comes last,
\* and once its reservation is answered nothing is left before the next call.
Queued ==
  /\ \A i \in 1..Len(link) :
       /\ ~Unserved(link[i].req)
       /\ link[i].kind = "apply" => link[i].req \in past.published
  /\ turn.op = "reserve" => ~Unserved(turn.request.req)
  /\ disk.pc = "prepared" =>
       /\ \A i \in 1..Len(link) : link[i].req # disk.req
       /\ turn.op = "reserve" => turn.request.req # disk.req
  /\ disk.pc = "reserve" =>
       /\ \A i \in 1..Len(link) : link[i].req = disk.req => i = Len(link)
       /\ turn.op = "reserve" /\ turn.request.req = disk.req => link = <<>>
       /\ disk.answer # None => link = <<>>
  /\ disk.pc \in {"reserved", "published"} => link = <<>>
  /\ past.applied \subseteq past.published /\ past.rejected \subseteq past.published

LiveIInv ==
  /\ RuntimeTypeOK /\ DiskTypeOK
  /\ MirrorCurrent /\ HoldsInView /\ Progress /\ RepliesHonest /\ Tickets /\ Queued

-----------------------------------------------------------------------------
(* What every operation of the coordinator is made of.                     *)

LEMMA SessionFacts ==
  ASSUME NEW s \in Session
  PROVE  /\ Fenced(s) \in Session /\ Rebound(s) \in Session
         /\ Fenced(s).up = s.up /\ Rebound(s).up = s.up
<1>1. Fenced(s) \in Session /\ Fenced(s).up = s.up
  BY DEF Fenced, Session
<1>2. Rebound(s) = [Fenced(s) EXCEPT !.binding = Fenced(s).binding + 1]
  BY DEF Rebound
<1>3. \A x \in Session : /\ [x EXCEPT !.binding = x.binding + 1] \in Session
                         /\ [x EXCEPT !.binding = x.binding + 1].up = x.up
  BY DEF Session
<1>4. QED
  BY <1>1, <1>2, <1>3

LEMMA DownFacts ==
  ASSUME NEW s \in Session, NEW u \in BOOLEAN
  PROVE  /\ [Fenced(s) EXCEPT !.up = u] \in Session
         /\ [connection |-> s.connection + 1, binding |-> s.binding, up |-> u,
             draining |-> TRUE] \in Session
         /\ [Rebound(s) EXCEPT !.up = u] \in Session
         /\ [s EXCEPT !.draining = u] \in Session
<1>1. Fenced(s) \in Session /\ Rebound(s) \in Session
  BY SessionFacts
<1>2. \A x \in Session : [x EXCEPT !.up = u] \in Session /\ [x EXCEPT !.draining = u] \in Session
  BY DEF Session
<1>3. [connection |-> s.connection + 1, binding |-> s.binding, up |-> u,
       draining |-> TRUE] \in Session
  BY DEF Session
<1>4. QED
  BY <1>1, <1>2, <1>3

LEMMA CtxType ==
  ASSUME RuntimeTypeOK, NEW d \in Deck
  PROVE  Ctx(d) \in Context
BY DEF RuntimeTypeOK, Ctx, Context, Session

\* Revoking takes the decks D out of the view before anything else changes.
LEMMA RevokeFacts ==
  ASSUME RuntimeTypeOK, MirrorCurrent, HoldsInView, NEW D, Revoke(D),
         session' = session, gate' = gate, fore' = fore, lease' = lease
  PROVE  /\ mirror' \in [Deck -> Context \cup {None}]
         /\ holds' \in [Deck -> [context : Context \cup {None}, foreground : Nat] \cup {None}]
         /\ edits' \in [Deck -> Ticket \cup {None}]
         /\ MirrorCurrent' /\ HoldsInView'
<1>1. /\ mirror' \in [Deck -> Context \cup {None}]
      /\ \A d \in Deck : mirror'[d] = None \/ (mirror'[d] = mirror[d] /\ d \notin D)
  BY DEF RuntimeTypeOK, Revoke
<1>2. /\ holds' \in [Deck -> [context : Context \cup {None}, foreground : Nat] \cup {None}]
      /\ \A d \in Deck : \/ holds'[d] = None
                         \/ holds'[d] = holds[d] /\ mirror'[d] = mirror[d]
  BY DEF RuntimeTypeOK, Revoke
<1>3. /\ edits' \in [Deck -> Ticket \cup {None}]
      /\ \A d \in Deck : d \notin D => edits'[d] = edits[d]
  BY DEF RuntimeTypeOK, Revoke
<1>4. MirrorCurrent'
  BY <1>1, <1>3 DEF MirrorCurrent, Ready, Ctx
<1>5. HoldsInView'
  BY <1>2 DEF HoldsInView
<1>6. QED
  BY <1>1, <1>2, <1>3, <1>4, <1>5

\* Looking again makes the view what the new state allows.
LEMMA SyncFacts ==
  ASSUME RuntimeTypeOK, Sync,
         session' \in [Deck -> Session], gate' \in [locked : BOOLEAN, epoch : Nat],
         fore' \in Nat
  PROVE  /\ mirror' \in [Deck -> Context \cup {None}]
         /\ holds' \in [Deck -> [context : Context \cup {None}, foreground : Nat] \cup {None}]
         /\ MirrorCurrent' /\ HoldsInView'
<1>1. \A d \in Deck : Ctx(d)' \in Context
  BY DEF Ctx, Context, Session
<1>2. /\ mirror' \in [Deck -> Context \cup {None}]
      /\ \A d \in Deck : mirror'[d] = IF Visible(d)' THEN Ctx(d)' ELSE None
  BY <1>1 DEF Sync
<1>3. /\ holds' \in [Deck -> [context : Context \cup {None}, foreground : Nat] \cup {None}]
      /\ \A d \in Deck : holds'[d] # None =>
           Visible(d)' /\ holds'[d] = [context |-> Ctx(d)', foreground |-> fore']
  BY DEF RuntimeTypeOK, Sync
<1>4. MirrorCurrent'
  BY <1>2 DEF MirrorCurrent, Visible
<1>5. HoldsInView'
  BY <1>2, <1>3 DEF HoldsInView
<1>6. QED
  BY <1>2, <1>3, <1>4, <1>5

LEMMA SnapshotType ==
  ASSUME session' \in [Deck -> Session], gate' \in [locked : BOOLEAN, epoch : Nat],
         catalog' \in Revisions
  PROVE  Snapshot \in Views
<1>1. \A d \in Deck : Ctx(d)' \in Context
  BY DEF Ctx, Context, Session
<1>2. [d \in Deck |-> IF edits'[d] = None /\ Ready(d)' THEN Ctx(d)' ELSE None]
        \in [Deck -> Context \cup {None}]
  BY <1>1
<1>3. [d \in Deck |-> [connection |-> session'[d].connection,
                       binding |-> session'[d].binding]]
        \in [Deck -> [connection : Nat, binding : Nat]]
  BY DEF Session
<1>4. QED
  BY <1>2, <1>3 DEF Snapshot, Views

\* What an operation under way says of itself.
LEMMA TurnFacts ==
  ASSUME turn \in Turns
  PROVE  /\ turn.op \in {"navigate", "disconnect", "attach"} => turn.deck \in Deck
         /\ turn.op = "reserve" => turn.request \in Message
         /\ NoTurn \in Turns /\ NoTurn.op = "none"
         /\ [op |-> "gate"] \in Turns /\ [op |-> "foreground"] \in Turns
         /\ \A d \in Deck, t \in BOOLEAN : [op |-> "navigate", deck |-> d, turns |-> t] \in Turns
         /\ \A d \in Deck : /\ [op |-> "disconnect", deck |-> d] \in Turns
                            /\ [op |-> "attach", deck |-> d] \in Turns
         /\ \A q \in Message : [op |-> "reserve", request |-> q] \in Turns
BY DEF Turns, NoTurn

LEMMA FirstFacts ==
  ASSUME DiskTypeOK, NEW kind \in {"reserve", "cancel", "apply"}, Take(kind)
  PROVE  /\ First \in Message /\ First.kind = kind /\ link # <<>>
         /\ turn = NoTurn /\ link' = Tail(link) /\ link' \in Seq(Message)
         /\ Len(link') = Len(link) - 1 /\ Len(link) \in Nat
         /\ \A i \in 1..Len(link') : link'[i] = link[i + 1] /\ i + 1 \in 1..Len(link)
BY DEF DiskTypeOK, Take, First

-----------------------------------------------------------------------------
(* The view.                                                               *)

\* A step that revokes the view of D and leaves the rest for later.
LEMMA RevokingStep ==
  ASSUME RuntimeTypeOK, MirrorCurrent, HoldsInView, NEW D, Revoke(D),
         session' = session, gate' = gate, fore' = fore, lease' = lease,
         editEpoch' \in Nat, catalog' = catalog, shown' = shown, bound' = bound,
         turn' \in Turns, view' = view
  PROVE  RuntimeTypeOK' /\ MirrorCurrent' /\ HoldsInView'
<1>1. /\ mirror' \in [Deck -> Context \cup {None}]
      /\ holds' \in [Deck -> [context : Context \cup {None}, foreground : Nat] \cup {None}]
      /\ edits' \in [Deck -> Ticket \cup {None}]
      /\ MirrorCurrent' /\ HoldsInView'
  BY RevokeFacts
<1>2. QED
  BY <1>1 DEF RuntimeTypeOK

\* A step after which the coordinator looks again.
LEMMA SyncingStep ==
  ASSUME RuntimeTypeOK, Sync,
         session' \in [Deck -> Session], gate' \in [locked : BOOLEAN, epoch : Nat],
         fore' \in Nat, lease' \in [Deck -> BOOLEAN],
         edits' \in [Deck -> Ticket \cup {None}], editEpoch' \in Nat,
         catalog' \in Revisions, shown' \in Revisions, bound' \in Revisions,
         turn' \in Turns, view' = view \/ view' = Snapshot
  PROVE  RuntimeTypeOK' /\ MirrorCurrent' /\ HoldsInView'
<1>1. /\ mirror' \in [Deck -> Context \cup {None}]
      /\ holds' \in [Deck -> [context : Context \cup {None}, foreground : Nat] \cup {None}]
      /\ MirrorCurrent' /\ HoldsInView'
  BY SyncFacts
<1>2. view' \in Views
  BY SnapshotType DEF RuntimeTypeOK
<1>3. QED
  BY <1>1, <1>2 DEF RuntimeTypeOK

\* A step that leaves the runtime alone, or only the answer of a lease.
LEMMA QuietRuntime ==
  ASSUME RuntimeTypeOK, MirrorCurrent, HoldsInView,
         session' = session, gate' = gate, fore' = fore, mirror' = mirror, holds' = holds,
         edits' = edits, editEpoch' = editEpoch, catalog' = catalog, shown' = shown,
         bound' = bound, turn' = turn, view' = view \/ view' = Snapshot,
         lease' \in [Deck -> BOOLEAN], \A d \in Deck : lease'[d] => lease[d]
  PROVE  RuntimeTypeOK' /\ MirrorCurrent' /\ HoldsInView'
<1>1. view' \in Views
  BY SnapshotType DEF RuntimeTypeOK
<1>2. RuntimeTypeOK'
  BY <1>1 DEF RuntimeTypeOK
<1>3. MirrorCurrent' /\ HoldsInView'
  BY DEF MirrorCurrent, HoldsInView, Ready, Ctx
<1>4. QED
  BY <1>2, <1>3

LEMMA BeginView ==
  ASSUME RuntimeTypeOK, MirrorCurrent, HoldsInView, NEW op \in Turns, NEW D,
         Begin(op, D), editEpoch' \in Nat
  PROVE  RuntimeTypeOK' /\ MirrorCurrent' /\ HoldsInView'
<1>1. /\ Revoke(D) /\ turn' = op /\ session' = session /\ gate' = gate /\ fore' = fore
      /\ lease' = lease /\ catalog' = catalog /\ shown' = shown /\ bound' = bound
      /\ view' = view
  BY DEF Begin, books
<1>2. QED
  BY <1>1, RevokingStep

LEMMA DisturbView ==
  ASSUME RuntimeTypeOK, MirrorCurrent, HoldsInView,
         \/ \E d \in Deck : Navigate(d) \/ Disconnect(d) \/ Attach(d)
         \/ ToggleGate \/ Foreground
  PROVE  RuntimeTypeOK' /\ MirrorCurrent' /\ HoldsInView'
<1>1. editEpoch \in Nat /\ editEpoch + 1 \in Nat /\ turn \in Turns
  BY DEF RuntimeTypeOK
<1>2. ASSUME NEW d \in Deck, Navigate(d)
      PROVE  RuntimeTypeOK' /\ MirrorCurrent' /\ HoldsInView'
  <2>1. PICK t \in BOOLEAN : Begin([op |-> "navigate", deck |-> d, turns |-> t], {d})
    BY <1>2 DEF Navigate
  <2>2. [op |-> "navigate", deck |-> d, turns |-> t] \in Turns /\ editEpoch' = editEpoch
    BY <1>1, <1>2, TurnFacts DEF Navigate
  <2>3. QED
    BY <1>1, <2>1, <2>2, BeginView
<1>3. ASSUME NEW d \in Deck, Disconnect(d)
      PROVE  RuntimeTypeOK' /\ MirrorCurrent' /\ HoldsInView'
  BY <1>1, <1>3, TurnFacts, BeginView DEF Disconnect
<1>4. ASSUME NEW d \in Deck, Attach(d)
      PROVE  RuntimeTypeOK' /\ MirrorCurrent' /\ HoldsInView'
  BY <1>1, <1>4, TurnFacts, BeginView DEF Attach
<1>5. CASE ToggleGate
  BY <1>1, <1>5, TurnFacts, BeginView DEF ToggleGate
<1>6. CASE Foreground
  BY <1>1, <1>6, TurnFacts, BeginView DEF Foreground
<1>7. QED
  BY <1>2, <1>3, <1>4, <1>5, <1>6

LEMMA FinishView ==
  ASSUME RuntimeTypeOK, MirrorCurrent, HoldsInView, FinishTurn
  PROVE  RuntimeTypeOK' /\ MirrorCurrent' /\ HoldsInView'
<1>t. /\ session \in [Deck -> Session] /\ gate \in [locked : BOOLEAN, epoch : Nat]
      /\ fore \in Nat /\ lease \in [Deck -> BOOLEAN] /\ edits \in [Deck -> Ticket \cup {None}]
      /\ editEpoch \in Nat /\ catalog \in Revisions /\ shown \in Revisions
      /\ bound \in Revisions /\ turn \in Turns
  BY DEF RuntimeTypeOK
<1>n. NoTurn \in Turns
  BY <1>t, TurnFacts
<1>1. CASE FinishNavigate
  <2>1. session' \in [Deck -> Session]
    BY <1>t, <1>1, SessionFacts DEF FinishNavigate
  <2>2. /\ Sync /\ turn' = NoTurn /\ gate' = gate /\ fore' = fore /\ lease' = lease
        /\ edits' = edits /\ editEpoch' = editEpoch /\ catalog' = catalog /\ shown' = shown
        /\ bound' = bound /\ view' = view
    BY <1>1 DEF FinishNavigate, Finish, Unmoved, books
  <2>3. QED
    BY <1>t, <1>n, <2>1, <2>2, SyncingStep
<1>2. CASE FinishDisconnect
  <2>1. session' \in [Deck -> Session]
    BY <1>t, <1>2, DownFacts DEF FinishDisconnect
  <2>2. /\ Sync /\ turn' = NoTurn /\ gate' = gate /\ fore' = fore /\ lease' = lease
        /\ edits' = edits /\ editEpoch' = editEpoch /\ catalog' = catalog /\ shown' = shown
        /\ bound' = bound /\ view' = view
    BY <1>2 DEF FinishDisconnect, Finish, Unmoved, books
  <2>3. QED
    BY <1>t, <1>n, <2>1, <2>2, SyncingStep
<1>3. CASE FinishAttach
  <2>1. PICK up \in BOOLEAN :
          /\ session' = [session EXCEPT ![turn.deck] =
               [connection |-> @.connection + 1, binding |-> @.binding, up |-> up,
                draining |-> TRUE]]
          /\ lease' = [lease EXCEPT ![turn.deck] = IF up THEN TRUE ELSE @]
    BY <1>3 DEF FinishAttach
  <2>2. session' \in [Deck -> Session]
    <3>1. turn.deck \in Deck
      BY <1>t, <1>3, TurnFacts DEF FinishAttach, Finish
    <3>2. [connection |-> session[turn.deck].connection + 1,
           binding |-> session[turn.deck].binding, up |-> up, draining |-> TRUE] \in Session
      BY <1>t, <3>1, DownFacts
    <3>3. QED
      BY <1>t, <2>1, <3>2
  <2>3. lease' \in [Deck -> BOOLEAN]
    BY <1>t, <2>1
  <2>4. /\ Sync /\ turn' = NoTurn /\ gate' = gate /\ fore' = fore
        /\ edits' = edits /\ editEpoch' = editEpoch /\ catalog' = catalog /\ shown' = shown
        /\ bound' = bound /\ view' = view
    BY <1>3 DEF FinishAttach, Finish, Unmoved, books
  <2>5. QED
    BY <1>t, <1>n, <2>2, <2>3, <2>4, SyncingStep
<1>4. CASE FinishGate
  <2>1. session' \in [Deck -> Session]
    BY <1>t, <1>4, SessionFacts DEF FinishGate
  <2>2. gate' \in [locked : BOOLEAN, epoch : Nat] /\ edits' \in [Deck -> Ticket \cup {None}]
    BY <1>t, <1>4 DEF FinishGate
  <2>3. /\ Sync /\ turn' = NoTurn /\ fore' = fore /\ lease' = lease
        /\ editEpoch' = editEpoch /\ catalog' = catalog /\ shown' = shown
        /\ bound' = bound /\ view' = view
    BY <1>4 DEF FinishGate, Finish, Unmoved, books
  <2>4. QED
    BY <1>t, <1>n, <2>1, <2>2, <2>3, SyncingStep
<1>5. CASE FinishForeground
  <2>1. session' \in [Deck -> Session] /\ fore' \in Nat
    BY <1>t, <1>5, SessionFacts DEF FinishForeground
  <2>2. /\ Sync /\ turn' = NoTurn /\ gate' = gate /\ lease' = lease
        /\ edits' = edits /\ editEpoch' = editEpoch /\ catalog' = catalog /\ shown' = shown
        /\ bound' = bound /\ view' = view
    BY <1>5 DEF FinishForeground, Finish, Unmoved, books
  <2>3. QED
    BY <1>t, <1>n, <2>1, <2>2, SyncingStep
<1>6. CASE FinishReserve
  <2>1. turn.request.deck \in Deck
    BY <1>t, <1>6, TurnFacts DEF FinishReserve, Finish, Message
  <2> DEFINE d == turn.request.deck
  <2>2. session' = [session EXCEPT ![d] = Rebound(session[d])] /\ session' \in [Deck -> Session]
    BY <1>t, <1>6, <2>1, SessionFacts DEF FinishReserve
  <2>3. edits' = [edits EXCEPT ![d] =
           [connection |-> session[d].connection, binding |-> session'[d].binding,
            epoch |-> editEpoch]]
    BY <1>6 DEF FinishReserve
  <2>4. /\ Sync /\ turn' = NoTurn /\ gate' = gate /\ fore' = fore /\ lease' = lease
        /\ editEpoch' = editEpoch /\ catalog' = catalog /\ shown' = shown
        /\ bound' = bound /\ view' = Snapshot
    BY <1>6 DEF FinishReserve, Finish, books
  <2> HIDE DEF d
  <2>5. edits' \in [Deck -> Ticket \cup {None}]
    <3>1. [connection |-> session[d].connection, binding |-> session'[d].binding,
           epoch |-> editEpoch] \in Ticket
      BY <1>t, <2>1, <2>2 DEF Ticket, Session, d
    <3>2. QED
      BY <1>t, <2>3, <3>1
  <2>6. QED
    BY <1>t, <1>n, <2>2, <2>4, <2>5, SyncingStep
<1>7. QED
  BY <1>1, <1>2, <1>3, <1>4, <1>5, <1>6 DEF FinishTurn

\* Requests of the link the coordinator turns down, and what does not change
\* the runtime.
LEMMA StillView ==
  ASSUME RuntimeTypeOK, MirrorCurrent, HoldsInView,
         \/ \E d \in Deck : LeaseFails(d)
         \/ Publish \/ TakeCancelled \/ RefuseReserve \/ RefuseApply
         \/ DiskOnly
         \/ UNCHANGED vars
  PROVE  RuntimeTypeOK' /\ MirrorCurrent' /\ HoldsInView'
<1>t. lease \in [Deck -> BOOLEAN]
  BY DEF RuntimeTypeOK
<1>1. ASSUME UNCHANGED <<coordinator, books, turn>>, view' = view \/ view' = Snapshot,
             lease' \in [Deck -> BOOLEAN], \A d \in Deck : lease'[d] => lease[d]
      PROVE  RuntimeTypeOK' /\ MirrorCurrent' /\ HoldsInView'
  <2>1. /\ session' = session /\ gate' = gate /\ fore' = fore /\ mirror' = mirror
        /\ holds' = holds /\ edits' = edits /\ editEpoch' = editEpoch /\ catalog' = catalog
        /\ shown' = shown /\ bound' = bound /\ turn' = turn
    BY <1>1 DEF coordinator, books
  <2>2. QED
    BY <1>1, <2>1, QuietRuntime
<1>2. ASSUME NEW d \in Deck, LeaseFails(d)
      PROVE  RuntimeTypeOK' /\ MirrorCurrent' /\ HoldsInView'
  <2>1. lease' \in [Deck -> BOOLEAN] /\ \A c \in Deck : lease'[c] => lease[c]
    BY <1>t, <1>2 DEF LeaseFails
  <2>2. UNCHANGED <<coordinator, books, turn>> /\ view' = view
    BY <1>2 DEF LeaseFails
  <2>3. QED
    BY <1>1, <2>1, <2>2
<1>3. CASE Publish \/ TakeCancelled \/ RefuseReserve \/ RefuseApply
  <2>1. UNCHANGED <<coordinator, books, turn>> /\ view' = Snapshot /\ lease' = lease
    BY <1>3 DEF Publish, TakeCancelled, RefuseReserve, RefuseApply
  <2>2. QED
    BY <1>t, <1>1, <2>1
<1>4. CASE DiskOnly \/ UNCHANGED vars
  <2>1. UNCHANGED <<coordinator, books, turn>> /\ view' = view /\ lease' = lease
    BY <1>4 DEF DiskOnly, vars
  <2>2. QED
    BY <1>t, <1>1, <2>1
<1>5. QED
  BY <1>2, <1>3, <1>4

LEMMA DeckView ==
  ASSUME RuntimeTypeOK, MirrorCurrent, HoldsInView, NEW d \in Deck, Poll(d) \/ Press(d)
  PROVE  RuntimeTypeOK' /\ MirrorCurrent' /\ HoldsInView'
<1>t. /\ session \in [Deck -> Session] /\ gate \in [locked : BOOLEAN, epoch : Nat]
      /\ fore \in Nat /\ lease \in [Deck -> BOOLEAN] /\ edits \in [Deck -> Ticket \cup {None}]
      /\ editEpoch \in Nat /\ catalog \in Revisions /\ shown \in Revisions
      /\ bound \in Revisions /\ turn \in Turns /\ view \in Views
      /\ mirror \in [Deck -> Context \cup {None}]
      /\ holds \in [Deck -> [context : Context \cup {None}, foreground : Nat] \cup {None}]
  BY DEF RuntimeTypeOK
<1>1. CASE Poll(d)
  <2>1. session[d] \in Session
    BY <1>t
  <2>2. /\ [session[d] EXCEPT !.draining = FALSE] \in Session
        /\ [Fenced(session[d]) EXCEPT !.up = FALSE] \in Session
    BY <2>1, DownFacts
  <2>3. session' = [session EXCEPT ![d] =
          IF lease[d] THEN [session[d] EXCEPT !.draining = FALSE]
                      ELSE [Fenced(session[d]) EXCEPT !.up = FALSE]]
    BY <1>1 DEF Poll
  <2>4. session' \in [Deck -> Session]
    BY <1>t, <2>2, <2>3
  <2>5. /\ Sync /\ turn' = turn /\ gate' = gate /\ fore' = fore /\ lease' = lease
        /\ edits' = edits /\ editEpoch' = editEpoch /\ catalog' = catalog /\ shown' = shown
        /\ bound' = bound /\ view' = view
    BY <1>1 DEF Poll, Unmoved, books
  <2>6. QED
    BY <1>t, <2>4, <2>5, SyncingStep
<1>2. CASE Press(d)
  <2>1. holds' = [holds EXCEPT ![d] = [context |-> Ctx(d), foreground |-> fore]]
    BY <1>2 DEF Press
  <2>2. /\ session' = session /\ mirror' = mirror /\ edits' = edits /\ gate' = gate
        /\ fore' = fore /\ turn' = turn /\ lease' = lease /\ editEpoch' = editEpoch
        /\ catalog' = catalog /\ shown' = shown /\ bound' = bound /\ view' = view
    BY <1>2 DEF Press, Unmoved, books
  <2>3. mirror[d] = Ctx(d) /\ Ctx(d) \in Context
    <3>1. [context |-> Ctx(d), foreground |-> fore] = [context |-> mirror[d], foreground |-> fore]
      BY <1>2 DEF Press, Accepts
    <3>2. QED
      BY <3>1, CtxType
  <2>4. holds' \in [Deck -> [context : Context \cup {None}, foreground : Nat] \cup {None}]
    BY <1>t, <2>1, <2>3
  <2>5. RuntimeTypeOK'
    BY <1>t, <2>2, <2>4 DEF RuntimeTypeOK
  <2>6. MirrorCurrent'
    BY <2>2 DEF MirrorCurrent, Ready, Ctx
  <2>7. HoldsInView'
    BY <1>t, <2>1, <2>2, <2>3 DEF HoldsInView
  <2>8. QED
    BY <2>5, <2>6, <2>7
<1>3. QED
  BY <1>1, <1>2

LEMMA LinkView ==
  ASSUME RuntimeTypeOK, DiskTypeOK, MirrorCurrent, HoldsInView, Reserve \/ Cancel \/ Apply
  PROVE  RuntimeTypeOK' /\ MirrorCurrent' /\ HoldsInView'
<1>t. /\ session \in [Deck -> Session] /\ gate \in [locked : BOOLEAN, epoch : Nat]
      /\ fore \in Nat /\ lease \in [Deck -> BOOLEAN] /\ edits \in [Deck -> Ticket \cup {None}]
      /\ editEpoch \in Nat /\ catalog \in Revisions /\ shown \in Revisions
      /\ bound \in Revisions /\ turn \in Turns /\ view \in Views
  BY DEF RuntimeTypeOK
<1>q. First \in Message
  BY FirstFacts DEF Reserve, Cancel, Apply
<1>d. First.deck \in Deck /\ First.revisions \in Revisions
  BY <1>q DEF Message
<1>1. CASE Reserve
  <2>1. /\ Revoke({First.deck}) /\ session' = session /\ gate' = gate /\ fore' = fore
        /\ lease' = lease /\ editEpoch' = editEpoch /\ catalog' = catalog /\ shown' = shown
        /\ bound' = bound /\ view' = view /\ turn' = [op |-> "reserve", request |-> First]
    BY <1>1 DEF Reserve, books
  <2>2. turn' \in Turns
    BY <1>t, <1>q, <2>1, TurnFacts
  <2>3. QED
    BY <1>t, <2>1, <2>2, RevokingStep
<1>2. CASE Cancel
  <2>1. /\ session' = session \/ session' = [session EXCEPT ![First.deck] = Rebound(@)]
        /\ edits' = edits \/ edits' = [edits EXCEPT ![First.deck] = None]
        /\ Sync /\ turn' = turn /\ gate' = gate /\ fore' = fore /\ lease' = lease
        /\ editEpoch' = editEpoch /\ catalog' = catalog /\ shown' = shown
        /\ bound' = bound /\ view' = Snapshot
    BY <1>2 DEF Cancel, books
  <2>2. session' \in [Deck -> Session] /\ edits' \in [Deck -> Ticket \cup {None}]
    BY <1>t, <1>d, <2>1, SessionFacts
  <2>3. QED
    BY <1>t, <2>1, <2>2, SyncingStep
<1>3. CASE Apply
  <2> DEFINE d == First.deck
  <2>0. d \in Deck /\ First.revisions[d] \in Nat
    BY <1>d DEF Revisions
  <2>1. /\ Rebound(session[d]) \in Session
        /\ [Rebound(session[d]) EXCEPT !.up = FALSE] \in Session
    BY <1>t, <2>0, SessionFacts, DownFacts
  <2>2. /\ bound' = [bound EXCEPT ![d] = First.revisions[d]]
        /\ session' = [session EXCEPT ![d] =
             IF lease[d] THEN Rebound(session[d]) ELSE [Rebound(session[d]) EXCEPT !.up = FALSE]]
        /\ catalog' = IF lease[d] THEN First.revisions ELSE catalog
        /\ shown' = IF lease[d] THEN [shown EXCEPT ![d] = First.revisions[d]] ELSE shown
        /\ edits' = IF lease[d] THEN [edits EXCEPT ![d] = None] ELSE edits
        /\ gate' = gate /\ fore' = fore /\ editEpoch' = editEpoch /\ lease' = lease
        /\ turn' = turn /\ view' = Snapshot
    BY <1>3 DEF Apply
  <2>3. /\ lease[d] => Sync
        /\ ~lease[d] => mirror' = mirror /\ holds' = holds
    BY <1>3 DEF Apply
  <2> HIDE DEF d
  <2>4. /\ session' \in [Deck -> Session] /\ bound' \in Revisions /\ catalog' \in Revisions
        /\ shown' \in Revisions /\ edits' \in [Deck -> Ticket \cup {None}]
    BY <1>t, <1>d, <2>0, <2>1, <2>2 DEF Revisions
  <2>5. CASE lease[d]
    BY <1>t, <2>2, <2>3, <2>4, <2>5, SyncingStep
  <2>6. CASE ~lease[d]
    <3>1. view' \in Views
      BY <1>t, <2>2, <2>4, SnapshotType
    <3>2. RuntimeTypeOK'
      BY <1>t, <2>2, <2>3, <2>4, <2>6, <3>1 DEF RuntimeTypeOK
    <3>3. MirrorCurrent'
      BY <1>t, <2>2, <2>3, <2>6 DEF MirrorCurrent, Ready, Ctx
    <3>4. HoldsInView'
      BY <2>2, <2>3, <2>6 DEF HoldsInView
    <3>5. QED
      BY <3>2, <3>3, <3>4
  <2>7. QED
    BY <2>5, <2>6
<1>4. QED
  BY <1>1, <1>2, <1>3

LEMMA DiskStepsKeepRuntime ==
  ASSUME Disk \/ \E r \in Req : Ask(r) \/ CallerTimeout(r)
  PROVE  DiskOnly
BY DEF Disk, Ask, CallerTimeout, StartSave, AskReserve, Reserved, AskCancel, PublishSave,
       PublishUncertain, AskApply, Applied, Cancelled, LinkTimeout

LEMMA ViewMoves ==
  ASSUME RuntimeTypeOK, DiskTypeOK, MirrorCurrent, HoldsInView, [Next]_vars
  PROVE  RuntimeTypeOK' /\ MirrorCurrent' /\ HoldsInView'
<1>1. CASE Environment
  <2>1. CASE \/ \E d \in Deck : Navigate(d) \/ Disconnect(d) \/ Attach(d)
             \/ ToggleGate \/ Foreground
    BY <2>1, DisturbView
  <2>2. CASE \E d \in Deck : LeaseFails(d)
    BY <2>2, StillView
  <2>3. CASE \E d \in Deck : Press(d)
    BY <2>3, DeckView
  <2>4. CASE \E r \in Req : Ask(r) \/ CallerTimeout(r)
    BY <2>4, DiskStepsKeepRuntime, StillView
  <2>5. QED
    BY <1>1, <2>1, <2>2, <2>3, <2>4 DEF Environment
<1>2. CASE Coordinator
  BY <1>2, FinishView, StillView, DeckView, LinkView DEF Coordinator
<1>3. CASE Disk \/ UNCHANGED vars
  BY <1>3, DiskStepsKeepRuntime, StillView
<1>4. QED
  BY <1>1, <1>2, <1>3 DEF Next

-----------------------------------------------------------------------------
(* Requests and answers.                                                   *)

Books == DiskTypeOK /\ Progress /\ RepliesHonest /\ Queued

LEMMA DiskFacts ==
  ASSUME disk \in IdleDisk \cup BusyDisk
  PROVE  /\ disk.pc \in {"idle", "prepared", "reserve", "reserved", "cancel", "published",
                         "apply"}
         /\ disk.host \in Revisions
         /\ disk.pc # "idle" => disk \in BusyDisk /\ disk.req \in Req
BY DEF IdleDisk, BusyDisk

LEMMA CallFacts ==
  ASSUME api \in [Req -> NewCall \cup MadeCall], NEW r \in Req
  PROVE  /\ api[r].state \in {"new", "pending"} \cup Heard
         /\ api[r].state # "new" => api[r] \in MadeCall
         /\ api[r].state = "pending" => api[r].state \notin Heard
BY DEF NewCall, MadeCall, Heard

\* An answer reaches the disk thread only while it waits for that one.
LEMMA AnsweredFacts ==
  ASSUME disk \in IdleDisk \cup BusyDisk, NEW q \in Message, NEW result \in Answer,
         disk' = Answered(q, result)
  PROVE  /\ disk' \in IdleDisk \cup BusyDisk
         /\ disk'.pc = disk.pc /\ disk'.req = disk.req /\ disk'.host = disk.host
         /\ disk.pc # "idle" => disk'.ticket = disk.ticket /\ disk'.verdict = disk.verdict
         /\ \/ disk' = disk
            \/ /\ disk.pc = q.kind /\ disk.req = q.req /\ disk.pc # "idle"
               /\ disk'.answer = result
<1>1. CASE disk.pc = q.kind /\ disk.req = q.req
  <2>1. disk \in BusyDisk /\ disk.pc # "idle"
    BY <1>1, DiskFacts DEF Message
  <2>2. disk' = [disk EXCEPT !.answer = result]
    BY <1>1 DEF Answered
  <2>3. QED
    BY <1>1, <2>1, <2>2 DEF BusyDisk
<1>2. CASE ~(disk.pc = q.kind /\ disk.req = q.req)
  BY <1>2 DEF Answered
<1>3. QED
  BY <1>1, <1>2

LEMMA Replies ==
  /\ Refused \in Answer /\ ~Refused.ok /\ Done(None) \in Answer
  /\ \A t \in Ticket : Done(t) \in Answer /\ Done(t).ticket = t
BY DEF Refused, Done, Answer

\* Nothing happens between the callers, the disk thread and the coordinator.
LEMMA QuietBooks ==
  ASSUME Books, disk' = disk, api' = api, link' = link, store' = store,
         past' \in Histories, past'.published = past.published,
         past'.applied = past.applied, past'.rejected = past.rejected,
         turn' = turn \/ turn'.op # "reserve"
  PROVE  Books'
<1>1. DiskTypeOK'
  BY DEF Books, DiskTypeOK
<1>2. \A r : Unserved(r)' <=> Unserved(r)
  BY DEF Unserved, InHand
<1>3. Progress'
  BY <1>2 DEF Books, Progress
<1>4. RepliesHonest'
  BY DEF Books, RepliesHonest
<1>5. Queued'
  BY <1>2 DEF Books, Queued
<1>6. QED
  BY <1>1, <1>3, <1>4, <1>5 DEF Books

\* The coordinator answers the request at the front, or ends one it had taken.
LEMMA AnswerBooks ==
  ASSUME Books, NEW q \in Message, NEW result \in Answer, disk' = Answered(q, result),
         api' = api, store' = store,
         past' \in Histories, past'.published = past.published,
         past'.applied \subseteq past.published, past'.rejected \subseteq past.published,
         past.applied \subseteq past'.applied,
         q.kind = "apply" /\ result.ok => q.req \in past'.applied,
         \/ /\ link # <<>> /\ link' = Tail(link) /\ q = link[1]
            /\ turn.op # "reserve" /\ turn' = turn
         \/ /\ link' = link /\ turn.op = "reserve" /\ turn.request = q
            /\ turn' = NoTurn
  PROVE  Books'
<1>t. DiskTypeOK /\ Progress /\ RepliesHonest /\ Queued
  BY DEF Books
<1>1. /\ disk' \in IdleDisk \cup BusyDisk
      /\ disk'.pc = disk.pc /\ disk'.req = disk.req
      /\ disk.pc # "idle" => disk'.ticket = disk.ticket /\ disk'.verdict = disk.verdict
      /\ \/ disk' = disk
         \/ /\ disk.pc = q.kind /\ disk.req = q.req /\ disk.pc # "idle"
            /\ disk'.answer = result
  BY <1>t, AnsweredFacts DEF DiskTypeOK
<1>2. /\ link \in Seq(Message) /\ Len(link) \in Nat /\ Len(link) <= Capacity
      /\ Capacity \in Nat
  BY <1>t, LiveAssumption DEF DiskTypeOK
<1>3. /\ link' \in Seq(Message) /\ Len(link') <= Len(link) /\ Len(link') \in Nat
      /\ \A i \in 1..Len(link') : \E j \in 1..Len(link) :
           link'[i] = link[j] /\ (j = Len(link) => i = Len(link'))
      /\ link = <<>> => link' = <<>>
  <2>1. CASE link # <<>> /\ link' = Tail(link)
    <3>1. /\ link' \in Seq(Message) /\ Len(link') = Len(link) - 1 /\ Len(link') \in Nat
          /\ \A i \in 1..Len(link') : link'[i] = link[i + 1] /\ i + 1 \in 1..Len(link)
      BY <1>2, <2>1
    <3>2. \A i \in 1..Len(link') : i + 1 = Len(link) => i = Len(link')
      BY <1>2, <3>1
    <3>3. ASSUME NEW i \in 1..Len(link')
          PROVE  \E j \in 1..Len(link) :
                   link'[i] = link[j] /\ (j = Len(link) => i = Len(link'))
      <4>1. /\ i + 1 \in 1..Len(link) /\ link'[i] = link[i + 1]
            /\ i + 1 = Len(link) => i = Len(link')
        BY <3>1, <3>2
      <4>2. QED
        BY <4>1
    <3>4. Len(link') <= Len(link)
      BY <1>2, <3>1
    <3>5. QED
      BY <2>1, <3>1, <3>3, <3>4
  <2>2. CASE link' = link
    BY <1>2, <2>2
  <2>3. QED
    BY <2>1, <2>2
<1>4. DiskTypeOK'
  BY <1>t, <1>1, <1>2, <1>3 DEF DiskTypeOK
<1>5. \A r : Unserved(r)' <=> Unserved(r)
  BY <1>1 DEF Unserved, InHand
<1>6. Progress'
  <2>1. disk.pc = "apply" /\ disk'.answer # None /\ disk'.answer.ok => disk.req \in past'.applied
    BY <1>t, <1>1 DEF Progress
  <2>2. QED
    BY <1>t, <1>1, <1>5, <2>1 DEF Progress
<1>7. RepliesHonest'
  BY <1>t DEF RepliesHonest
<1>8. Queued'
  <2>1. \A i \in 1..Len(link') :
          /\ ~Unserved(link'[i].req)
          /\ link'[i].kind = "apply" => link'[i].req \in past'.published
    BY <1>t, <1>3 DEF Queued
  <2>2. turn'.op # "reserve"
    BY DEF NoTurn
  <2>3. disk'.pc = "prepared" => \A i \in 1..Len(link') : link'[i].req # disk'.req
    BY <1>t, <1>1, <1>3 DEF Queued
  <2>4. disk'.pc = "reserve" =>
          \A i \in 1..Len(link') : link'[i].req = disk'.req => i = Len(link')
    BY <1>t, <1>1, <1>3 DEF Queued
  <2>5. disk'.pc = "reserve" /\ disk'.answer # None => link' = <<>>
    <3>1. CASE disk' = disk
      BY <1>t, <1>3, <3>1 DEF Queued
    <3>2. CASE disk.pc = q.kind /\ disk.req = q.req
      <4> SUFFICES ASSUME disk.pc = "reserve"
                   PROVE  link' = <<>>
        BY <1>1
      <4>1. CASE link # <<>> /\ link' = Tail(link) /\ q = link[1]
        <5>1. 1 \in 1..Len(link)
          BY <1>2, <4>1
        <5>2. 1 = Len(link)
          BY <1>t, <3>2, <4>1, <5>1 DEF Queued
        <5>3. QED
          BY <1>2, <4>1, <5>2
      <4>2. CASE link' = link /\ turn.op = "reserve" /\ turn.request = q
        BY <1>t, <3>2, <4>2 DEF Queued
      <4>3. QED
        BY <4>1, <4>2
    <3>3. QED
      BY <1>1, <3>1, <3>2
  <2>6. disk'.pc \in {"reserved", "published"} => link' = <<>>
    BY <1>t, <1>1, <1>3 DEF Queued
  <2>7. QED
    BY <1>1, <2>1, <2>2, <2>3, <2>4, <2>5, <2>6 DEF Queued, Unserved, InHand
<1>9. QED
  BY <1>4, <1>6, <1>7, <1>8 DEF Books

\* The coordinator takes a reservation up: the request leaves the link.
LEMMA ReserveBooks ==
  ASSUME Books, Reserve
  PROVE  Books'
<1>t. DiskTypeOK /\ Progress /\ RepliesHonest /\ Queued
  BY DEF Books
<1>1. /\ First \in Message /\ link # <<>> /\ link' = Tail(link) /\ link' \in Seq(Message)
      /\ Len(link') = Len(link) - 1 /\ Len(link) \in Nat
      /\ \A i \in 1..Len(link') : link'[i] = link[i + 1] /\ i + 1 \in 1..Len(link)
  BY <1>t, FirstFacts DEF Reserve
<1>2. /\ disk' = disk /\ api' = api /\ store' = store /\ past' = past
      /\ turn'.op = "reserve" /\ turn'.request = First
  BY DEF Reserve, diskside
<1>3. Len(link') <= Capacity /\ Len(link') \in Nat /\ 1 \in 1..Len(link) /\ First = link[1]
  BY <1>t, <1>1, LiveAssumption DEF DiskTypeOK, First
<1>4. DiskTypeOK'
  BY <1>t, <1>1, <1>2, <1>3 DEF DiskTypeOK
<1>5. Progress'
  BY <1>t, <1>2 DEF Progress, Unserved, InHand
<1>6. RepliesHonest'
  BY <1>t, <1>2 DEF RepliesHonest
<1>7. Queued'
  <2>1. \A i \in 1..Len(link') :
          /\ ~Unserved(link'[i].req)
          /\ link'[i].kind = "apply" => link'[i].req \in past'.published
    BY <1>t, <1>1, <1>2 DEF Queued
  <2>2. ~Unserved(turn'.request.req)
    BY <1>t, <1>2, <1>3 DEF Queued
  <2>3. disk.pc = "prepared" =>
          /\ \A i \in 1..Len(link') : link'[i].req # disk.req
          /\ turn'.request.req # disk.req
    BY <1>t, <1>1, <1>2, <1>3 DEF Queued
  <2>4. disk.pc = "reserve" =>
          \A i \in 1..Len(link') : link'[i].req = disk.req => i = Len(link')
    <3> SUFFICES ASSUME disk.pc = "reserve", NEW i \in 1..Len(link'), link'[i].req = disk.req
                 PROVE  i = Len(link')
      OBVIOUS
    <3>1. i + 1 = Len(link)
      BY <1>t, <1>1 DEF Queued
    <3>2. i \in Int /\ Len(link') = Len(link) - 1
      BY <1>1
    <3>3. QED
      BY <3>1, <3>2
  <2>5. disk.pc = "reserve" /\ turn'.request.req = disk.req => link' = <<>>
    <3> SUFFICES ASSUME disk.pc = "reserve", First.req = disk.req
                 PROVE  link' = <<>>
      BY <1>2
    <3>1. 1 = Len(link)
      BY <1>t, <1>3 DEF Queued
    <3>2. QED
      BY <1>1, <3>1
  <2>6. disk.pc = "reserve" => disk.answer = None
    BY <1>t, <1>1 DEF Queued
  <2>7. disk.pc \notin {"reserved", "published"}
    BY <1>t, <1>1 DEF Queued
  <2>8. QED
    BY <1>t, <1>2, <2>1, <2>2, <2>3, <2>4, <2>5, <2>6, <2>7 DEF Queued, Unserved, InHand
<1>8. QED
  BY <1>4, <1>5, <1>6, <1>7 DEF Books

\* The coordinator's part of the link.
LEMMA LinkBooks ==
  ASSUME Books, turn \in Turns,
         editEpoch \in Nat, session \in [Deck -> Session],
         TakeCancelled \/ RefuseReserve \/ Cancel \/ RefuseApply \/ Apply
  PROVE  Books'
<1>t. DiskTypeOK /\ Queued /\ past \in Histories
  BY DEF Books, DiskTypeOK
<1>p. past.applied \subseteq past.published /\ past.rejected \subseteq past.published
  BY <1>t DEF Queued
<1>1. PICK kind \in {"reserve", "cancel", "apply"} : Take(kind)
  BY DEF TakeCancelled, RefuseReserve, Cancel, RefuseApply, Apply
<1>2. /\ First \in Message /\ First.kind = kind /\ link # <<>> /\ link' = Tail(link)
      /\ First = link[1] /\ turn = NoTurn /\ turn.op # "reserve" /\ 1 \in 1..Len(link)
  BY <1>t, <1>1, FirstFacts DEF First, NoTurn
<1>3. First.req \in Req /\ (First.kind = "apply" => First.req \in past.published)
  BY <1>t, <1>2 DEF Queued, Message
<1>4. api' = api /\ store' = store /\ turn' = turn
  BY DEF TakeCancelled, RefuseReserve, Cancel, RefuseApply, Apply
<1>5. CASE TakeCancelled \/ RefuseReserve
  <2>1. disk' = Answered(First, Refused) /\ past' = past
    BY <1>5 DEF TakeCancelled, RefuseReserve
  <2>2. QED
    BY <1>t, <1>p, <1>2, <1>4, <2>1, Replies, AnswerBooks
<1>6. CASE Cancel
  <2>1. disk' = Answered(First, Done(None)) /\ past' = past /\ First.kind = "cancel"
    BY <1>6 DEF Cancel, Take
  <2>2. QED
    BY <1>t, <1>p, <1>2, <1>4, <2>1, Replies, AnswerBooks
<1>7. CASE RefuseApply
  <2>1. /\ disk' = Answered(First, Refused) /\ First.kind = "apply"
        /\ past' = [past EXCEPT !.rejected = past.rejected \cup {First.req}]
    BY <1>7 DEF RefuseApply, Take
  <2>2. /\ past' \in Histories /\ past'.published = past.published
        /\ past'.applied = past.applied /\ past'.rejected \subseteq past.published
    BY <1>t, <1>p, <1>3, <2>1 DEF Histories
  <2>3. QED
    BY <1>p, <1>2, <1>4, <2>1, <2>2, Replies, AnswerBooks
<1>8. CASE Apply
  <2>1. /\ First.kind = "apply"
        /\ disk' = Answered(First, IF lease[First.deck] THEN Done(None) ELSE Refused)
        /\ past' = IF lease[First.deck]
                     THEN [past EXCEPT !.applied = past.applied \cup {First.req}]
                     ELSE [past EXCEPT !.rejected = past.rejected \cup {First.req}]
    BY <1>8 DEF Apply, Take
  <2>2. /\ past' \in Histories /\ past'.published = past.published
        /\ past.applied \subseteq past'.applied
        /\ past'.applied \subseteq past.published /\ past'.rejected \subseteq past.published
        /\ lease[First.deck] => First.req \in past'.applied
    BY <1>t, <1>p, <1>3, <2>1 DEF Histories
  <2>3. CASE lease[First.deck]
    BY <1>2, <1>4, <2>1, <2>2, <2>3, Replies, AnswerBooks
  <2>4. CASE ~lease[First.deck]
    BY <1>2, <1>4, <2>1, <2>2, <2>4, Replies, AnswerBooks
  <2>5. QED
    BY <2>3, <2>4
<1>9. QED
  BY <1>5, <1>6, <1>7, <1>8

\* The ticket of a reservation.
LEMMA TicketFacts ==
  ASSUME RuntimeTypeOK, FinishReserve
  PROVE  /\ turn.request \in Message /\ turn.request.deck \in Deck
         /\ edits'[turn.request.deck] \in Ticket
         /\ edits'[turn.request.deck].epoch = editEpoch
         /\ \A d \in Deck : d # turn.request.deck => edits'[d] = edits[d]
<1>t. /\ session \in [Deck -> Session] /\ edits \in [Deck -> Ticket \cup {None}]
      /\ editEpoch \in Nat /\ turn \in Turns
  BY DEF RuntimeTypeOK
<1>1. turn.request \in Message /\ turn.request.deck \in Deck
  BY <1>t, TurnFacts DEF FinishReserve, Finish, Message
<1> DEFINE d == turn.request.deck
<1>2. session' = [session EXCEPT ![d] = Rebound(session[d])] /\ session[d] \in Session
  BY <1>t, <1>1 DEF FinishReserve
<1>3. session'[d] \in Session
  BY <1>t, <1>1, <1>2, SessionFacts
<1>4. [connection |-> session[d].connection, binding |-> session'[d].binding,
       epoch |-> editEpoch] \in Ticket
  BY <1>t, <1>2, <1>3 DEF Ticket, Session
<1>5. edits' = [edits EXCEPT ![d] =
         [connection |-> session[d].connection, binding |-> session'[d].binding,
          epoch |-> editEpoch]]
  BY DEF FinishReserve
<1>6. QED
  BY <1>t, <1>1, <1>4, <1>5

\* Everything the coordinator and the environment do to the requests.
LEMMA CoordinatorBooks ==
  ASSUME RuntimeTypeOK, Books, Tickets,
         \/ \E d \in Deck : \/ Navigate(d) \/ Disconnect(d) \/ Attach(d) \/ LeaseFails(d)
                            \/ Press(d) \/ Poll(d)
         \/ ToggleGate \/ Foreground \/ Coordinator \/ UNCHANGED vars
  PROVE  Books'
<1>t. /\ turn \in Turns /\ editEpoch \in Nat /\ session \in [Deck -> Session]
      /\ past \in Histories
  BY DEF RuntimeTypeOK, Books, DiskTypeOK
<1>p. past.applied \subseteq past.published /\ past.rejected \subseteq past.published
  BY DEF Books, Queued
<1>0. ASSUME NEW D, past' = [past EXCEPT !.disturbed = D], D \subseteq Deck
      PROVE  /\ past' \in Histories /\ past'.published = past.published
             /\ past'.applied = past.applied /\ past'.rejected = past.rejected
  BY <1>t, <1>0 DEF Histories
<1>1. ASSUME NEW op, NEW D \in SUBSET Deck, Begin(op, D), op.op # "reserve"
      PROVE  Books'
  <2>1. /\ disk' = disk /\ api' = api /\ link' = link /\ store' = store
        /\ turn'.op # "reserve"
        /\ past' = [past EXCEPT !.disturbed = past.disturbed \cup D]
    BY <1>1 DEF Begin, diskside
  <2>2. past.disturbed \cup D \subseteq Deck
    BY <1>t DEF Histories
  <2>3. QED
    BY <1>0, <2>1, <2>2, QuietBooks
<1>2. ASSUME NEW d \in Deck, Navigate(d) \/ Disconnect(d) \/ Attach(d)
      PROVE  Books'
  BY <1>1, <1>2 DEF Navigate, Disconnect, Attach
<1>3. CASE ToggleGate \/ Foreground
  BY <1>1, <1>3 DEF ToggleGate, Foreground
<1>4. ASSUME NEW d \in Deck, LeaseFails(d) \/ Press(d)
      PROVE  Books'
  <2>1. /\ disk' = disk /\ api' = api /\ link' = link /\ store' = store /\ past' = past
        /\ turn' = turn
    BY <1>4 DEF LeaseFails, Press, Unmoved, diskside
  <2>2. QED
    BY <1>t, <2>1, QuietBooks
<1>5. ASSUME NEW d \in Deck, Poll(d)
      PROVE  Books'
  <2>1. /\ disk' = disk /\ api' = api /\ link' = link /\ store' = store /\ turn' = turn
        /\ past' = past \/ past' = [past EXCEPT !.disturbed = past.disturbed \cup {d}]
    BY <1>5 DEF Poll, Unmoved, diskside
  <2>2. past.disturbed \cup {d} \subseteq Deck
    BY <1>t DEF Histories
  <2>3. CASE past' = past
    BY <1>t, <2>1, <2>3, QuietBooks
  <2>4. CASE past' = [past EXCEPT !.disturbed = past.disturbed \cup {d}]
    BY <1>0, <2>1, <2>2, <2>4, QuietBooks
  <2>5. QED
    BY <2>1, <2>3, <2>4
<1>6. CASE \/ FinishNavigate \/ FinishDisconnect \/ FinishAttach \/ FinishGate
           \/ FinishForeground
  <2>1. Unmoved /\ past' = past /\ turn' = NoTurn
    BY <1>6 DEF FinishNavigate, FinishDisconnect, FinishAttach, FinishGate, FinishForeground,
                Finish
  <2>2. /\ disk' = disk /\ api' = api /\ link' = link /\ store' = store
        /\ turn'.op # "reserve"
    BY <2>1 DEF NoTurn, Unmoved, diskside
  <2>3. QED
    BY <1>t, <2>1, <2>2, QuietBooks
<1>7. CASE Publish \/ UNCHANGED vars
  <2>1. /\ disk' = disk /\ api' = api /\ link' = link /\ store' = store /\ past' = past
        /\ turn' = turn
    BY <1>7 DEF Publish, vars, diskside
  <2>2. QED
    BY <1>t, <2>1, QuietBooks
<1>8. CASE FinishReserve
  <2>1. /\ turn.request \in Message /\ edits'[turn.request.deck] \in Ticket
        /\ turn.op = "reserve" /\ turn' = NoTurn
        /\ turn.request.kind = "reserve"
    BY <1>8, TicketFacts DEF FinishReserve, Finish, Tickets, Carried
  <2>2. Done(edits'[turn.request.deck]) \in Answer
    BY <2>1, Replies
  <2>3. /\ disk' = Answered(turn.request, Done(edits'[turn.request.deck]))
        /\ api' = api /\ store' = store /\ link' = link
        /\ past' = [past EXCEPT !.disturbed = past.disturbed \ {turn.request.deck}]
    BY <1>8 DEF FinishReserve
  <2>4. past.disturbed \ {turn.request.deck} \subseteq Deck
    BY <1>t DEF Histories
  <2>5. /\ past' \in Histories /\ past'.published = past.published
        /\ past'.applied = past.applied /\ past'.rejected = past.rejected
    BY <1>0, <2>3, <2>4
  <2>6. QED
    BY <1>p, <2>1, <2>2, <2>3, <2>5, AnswerBooks
<1>9. CASE Reserve
  BY <1>9, ReserveBooks
<1>10. CASE TakeCancelled \/ RefuseReserve \/ Cancel \/ RefuseApply \/ Apply
  BY <1>t, <1>10, LinkBooks
<1>11. QED
  BY <1>2, <1>3, <1>4, <1>5, <1>6, <1>7, <1>8, <1>9, <1>10 DEF Coordinator, FinishTurn

\* The disk thread ends a request: what its caller is told, if he still waits,
\* agrees with what became of it.
LEMMA ReturnBooks ==
  ASSUME Books, turn \in Turns, disk.pc # "idle", NEW what \in Heard, Return(what),
         link' = link, turn' = turn, store' \in Revisions,
         past' \in Histories, past'.published = past.published,
         past'.applied = past.applied, past'.rejected \subseteq past.published,
         what = "saved" => disk.req \in past.published \cap past.applied,
         what \in {"refused", "cancelled", "reserve_uncertain"} => disk.req \notin past.published,
         what = "apply_failed" => disk.req \in past.published
  PROVE  Books'
<1>t. /\ DiskTypeOK /\ Progress /\ RepliesHonest /\ Queued
      /\ api \in [Req -> NewCall \cup MadeCall] /\ disk \in IdleDisk \cup BusyDisk
  BY DEF Books, DiskTypeOK
<1> DEFINE r == disk.req
<1>1. r \in Req /\ api[r].state \in {"pending", "timeout"} /\ api[r] \in MadeCall
  BY <1>t, DiskFacts, CallFacts DEF Progress
<1>2. /\ api' \in [Req -> NewCall \cup MadeCall]
      /\ \A x \in Req : x # r => api'[x] = api[x]
      /\ api'[r].state \in {what, "timeout"}
  <2>1. CASE api[r].state = "pending"
    <3>1. api' = [api EXCEPT ![r] = [api[r] EXCEPT !.state = what]]
      BY <2>1 DEF Return, Reply
    <3>2. /\ [api[r] EXCEPT !.state = what] \in MadeCall
          /\ [api[r] EXCEPT !.state = what].state = what
      BY <1>1 DEF MadeCall
    <3> HIDE DEF r
    <3>3. QED
      BY <1>t, <1>1, <3>1, <3>2
  <2>2. CASE api[r].state # "pending"
    BY <1>t, <1>1, <2>2 DEF Return, Reply
  <2>3. QED
    BY <2>1, <2>2
<1>3. disk' \in IdleDisk /\ disk'.pc = "idle"
  BY <1>t, DiskFacts DEF Return, Still, IdleDisk
<1>4. api'[r].state \in Heard /\ api'[r].state \notin {"new", "pending"}
  BY <1>2 DEF Heard
<1> HIDE DEF r
<1>5. DiskTypeOK'
  BY <1>t, <1>2, <1>3 DEF DiskTypeOK
<1>6. /\ \A x \in Req : api'[x].state \in {"new", "pending"} => Unserved(x)
      /\ \A x \in Req : ~Unserved(x) => api'[x].state \notin {"new", "pending"}
  BY <1>2, <1>4 DEF Unserved, InHand, r
<1>7. Progress'
  BY <1>t, <1>3, <1>6 DEF Progress, Unserved, InHand
<1>8. RepliesHonest'
  <2> SUFFICES ASSUME NEW x \in Req
               PROVE  /\ api'[x].state = "saved" => x \in past.published \cap past.applied
                      /\ api'[x].state \in {"refused", "cancelled", "reserve_uncertain"}
                           => x \notin past.published
                      /\ api'[x].state = "apply_failed" => x \in past.published
    BY DEF RepliesHonest
  <2>1. CASE x # r
    BY <1>t, <1>2, <2>1 DEF RepliesHonest
  <2>2. CASE x = r
    BY <1>2, <2>2 DEF r
  <2>3. QED
    BY <2>1, <2>2
<1>9. Queued'
  <2>1. \A i \in 1..Len(link) :
          /\ link[i].req \in Req
          /\ api'[link[i].req].state \notin {"new", "pending"}
          /\ link[i].kind = "apply" => link[i].req \in past.published
    <3> SUFFICES ASSUME NEW i \in 1..Len(link)
                 PROVE  /\ link[i].req \in Req
                        /\ api'[link[i].req].state \notin {"new", "pending"}
                        /\ link[i].kind = "apply" => link[i].req \in past.published
      OBVIOUS
    <3>1. link[i] \in Message
      BY <1>t DEF DiskTypeOK
    <3>2. link[i].req \in Req
      BY <3>1 DEF Message
    <3>3. ~Unserved(link[i].req) /\ (link[i].kind = "apply" => link[i].req \in past.published)
      BY <1>t DEF Queued
    <3>4. QED
      BY <1>6, <3>2, <3>3
  <2>2. past.applied \subseteq past.published
    BY <1>t DEF Queued
  <2>3. turn.op = "reserve" => ~Unserved(turn.request.req)
    BY <1>t DEF Queued
  <2>4. turn.op = "reserve" => api'[turn.request.req].state \notin {"new", "pending"}
    <3>1. turn.op = "reserve" => turn.request.req \in Req
      BY TurnFacts DEF Message
    <3>2. QED
      BY <1>6, <2>3, <3>1
  <2>5. QED
    BY <1>3, <2>1, <2>2, <2>4 DEF Queued, Unserved, InHand
<1>10. QED
  BY <1>5, <1>7, <1>8, <1>9 DEF Books

\* The disk thread sends a request; it is the last of the link.
LEMMA SendBooks ==
  ASSUME Books, turn \in Turns, NEW kind \in {"reserve", "cancel", "apply"},
         NEW verdict \in {"refused", "cancelled", "apply_failed"},
         Len(link) < Capacity, link' = Append(link, Sending(kind)),
         disk' = [disk EXCEPT !.pc = kind, !.answer = None, !.verdict = verdict],
         api' = api, past' = past, store' = store, turn' = turn,
         kind = "reserve" => disk.pc = "prepared",
         kind = "cancel" => disk.pc = "reserved" /\ verdict \in {"refused", "cancelled"},
         kind = "apply" => disk.pc = "published" /\ verdict = "apply_failed"
  PROVE  Books'
<1>t. /\ DiskTypeOK /\ Progress /\ RepliesHonest /\ Queued
      /\ disk \in IdleDisk \cup BusyDisk /\ link \in Seq(Message) /\ Len(link) \in Nat
      /\ Capacity \in Nat
  BY LiveAssumption DEF Books, DiskTypeOK
<1>1. disk \in BusyDisk /\ disk.pc # "idle" /\ disk.req \in Req
  BY <1>t, DiskFacts
<1>2. /\ disk' \in BusyDisk /\ disk'.pc = kind /\ disk'.pc # "idle" /\ disk'.answer = None
      /\ disk'.verdict = verdict /\ disk'.req = disk.req /\ disk'.ticket = disk.ticket
  BY <1>1 DEF BusyDisk
<1>3. Sending(kind) \in Message /\ Sending(kind).req = disk.req /\ Sending(kind).kind = kind
  BY <1>1 DEF Sending, BusyDisk, Message
<1> HIDE DEF Sending
<1>4. /\ link' \in Seq(Message) /\ Len(link') = Len(link) + 1
      /\ \A i \in 1..Len(link) : link'[i] = link[i]
      /\ link'[Len(link) + 1] = Sending(kind)
  BY <1>t, <1>3
<1>5. \A i \in 1..Len(link') : i \in 1..Len(link) \/ i = Len(link')
  BY <1>t, <1>4
<1>6. DiskTypeOK'
  <2>1. Len(link') <= Capacity
    BY <1>t, <1>4
  <2>2. QED
    BY <1>t, <1>2, <1>4, <2>1 DEF DiskTypeOK
<1>7. \A r : Unserved(r)' <=> Unserved(r)
  BY <1>1, <1>2 DEF Unserved, InHand
<1>8. Progress'
  BY <1>t, <1>1, <1>2, <1>7 DEF Progress
<1>9. RepliesHonest'
  BY <1>t DEF RepliesHonest
<1>10. Queued'
  <2>1. ~Unserved(disk.req)
    BY <1>1 DEF Unserved, InHand
  <2>2. kind = "apply" => disk.req \in past.published
    BY <1>t DEF Progress
  <2>3. ASSUME NEW i \in 1..Len(link')
        PROVE  /\ ~Unserved(link'[i].req)
               /\ link'[i].kind = "apply" => link'[i].req \in past.published
               /\ kind = "reserve" /\ link'[i].req = disk.req => i = Len(link')
    <3>1. CASE i \in 1..Len(link)
      BY <1>t, <1>4, <3>1 DEF Queued
    <3>2. CASE i = Len(link')
      BY <1>3, <1>4, <2>1, <2>2, <3>2
    <3>3. QED
      BY <1>5, <3>1, <3>2
  <2>4. turn.op = "reserve" => ~Unserved(turn.request.req)
    BY <1>t DEF Queued
  <2>5. kind = "reserve" /\ turn.op = "reserve" => turn.request.req # disk.req
    BY <1>t DEF Queued
  <2>6. past.applied \subseteq past.published /\ past.rejected \subseteq past.published
    BY <1>t DEF Queued
  <2>7. QED
    BY <1>1, <1>2, <2>3, <2>4, <2>5, <2>6 DEF Queued, Unserved, InHand
<1>11. QED
  BY <1>6, <1>8, <1>9, <1>10 DEF Books

\* A request is taken up, or turned down at once.
LEMMA StartBooks ==
  ASSUME RuntimeTypeOK, Books, NEW r \in Req, StartSave(r)
  PROVE  Books'
<1>t. /\ DiskTypeOK /\ Progress /\ RepliesHonest /\ Queued /\ turn \in Turns
      /\ api \in [Req -> NewCall \cup MadeCall] /\ disk \in IdleDisk \cup BusyDisk
      /\ view \in Views /\ store \in Revisions /\ past \in Histories
  BY DEF Books, DiskTypeOK, RuntimeTypeOK
<1>1. /\ disk.pc = "idle" /\ api[r].state = "pending"
      /\ link' = link /\ store' = store /\ past' = past /\ turn' = turn
  BY DEF StartSave, DiskOnly
<1>2. Unserved(r) /\ r \notin past.published /\ api[r] \in MadeCall
  BY <1>t, <1>1, CallFacts DEF Unserved, InHand, Progress
<1> DEFINE d == api[r].deck
<1>3. d \in Deck
  BY <1>2 DEF MadeCall
<1>4. CASE /\ disk' = [pc |-> "prepared", req |-> r, host |-> disk.host, deck |-> d,
                       context |-> view.context[d],
                       revisions |-> [store EXCEPT ![d] = @ + 1], ticket |-> None,
                       answer |-> None, verdict |-> "none"]
           /\ api' = api /\ view.context[d] # None
  <2>1. view.context[d] \in Context /\ [store EXCEPT ![d] = @ + 1] \in Revisions
    BY <1>t, <1>3, <1>4 DEF Views, Revisions
  <2>2. disk' \in BusyDisk /\ disk'.pc = "prepared" /\ disk'.req = r
    BY <1>t, <1>3, <1>4, <2>1, DiskFacts DEF BusyDisk
  <2>3. DiskTypeOK'
    BY <1>t, <1>1, <1>4, <2>2 DEF DiskTypeOK
  <2>4. \A x : Unserved(x)' => Unserved(x)
    BY <1>1, <1>4 DEF Unserved, InHand
  <2>5. Progress'
    BY <1>t, <1>1, <1>2, <1>4, <2>2, <2>4 DEF Progress
  <2>6. RepliesHonest'
    BY <1>t, <1>1, <1>4 DEF RepliesHonest
  <2>7. Queued'
    <3>1. \A i \in 1..Len(link) :
            /\ ~Unserved(link[i].req) /\ link[i].req # r
            /\ link[i].kind = "apply" => link[i].req \in past.published
      BY <1>t, <1>2 DEF Queued
    <3>2. turn.op = "reserve" => ~Unserved(turn.request.req) /\ turn.request.req # r
      BY <1>t, <1>2 DEF Queued
    <3>3. past.applied \subseteq past.published /\ past.rejected \subseteq past.published
      BY <1>t DEF Queued
    <3>4. QED
      BY <1>1, <1>4, <2>2, <3>1, <3>2, <3>3 DEF Queued, Unserved, InHand
  <2>8. QED
    BY <2>3, <2>5, <2>6, <2>7 DEF Books
<1>5. CASE disk' = disk /\ Reply(r, "refused")
  <2>1. api' = [api EXCEPT ![r] = [api[r] EXCEPT !.state = "refused"]]
    BY <1>1, <1>5 DEF Reply
  <2>2. /\ [api[r] EXCEPT !.state = "refused"] \in MadeCall
        /\ [api[r] EXCEPT !.state = "refused"].state = "refused"
    BY <1>2 DEF MadeCall, Heard
  <2>3. /\ api' \in [Req -> NewCall \cup MadeCall] /\ api'[r].state = "refused"
        /\ \A x \in Req : x # r => api'[x] = api[x]
    BY <1>t, <2>1, <2>2
  <2>4. DiskTypeOK'
    BY <1>t, <1>1, <1>5, <2>3 DEF DiskTypeOK
  <2>5. \A x \in Req : ~Unserved(x) => api'[x].state \notin {"new", "pending"}
    BY <1>1, <2>3 DEF Unserved, InHand
  <2>6. Progress'
    BY <1>t, <1>1, <1>5, <2>3 DEF Progress, Unserved, InHand
  <2>7. RepliesHonest'
    BY <1>t, <1>1, <1>2, <2>3 DEF RepliesHonest
  <2>8. Queued'
    <3>1. ASSUME NEW i \in 1..Len(link)
          PROVE  /\ api'[link[i].req].state \notin {"new", "pending"}
                 /\ link[i].kind = "apply" => link[i].req \in past.published
      <4>1. link[i] \in Message
        BY <1>t DEF DiskTypeOK
      <4>2. link[i].req \in Req
        BY <4>1 DEF Message
      <4>3. ~Unserved(link[i].req) /\ (link[i].kind = "apply" => link[i].req \in past.published)
        BY <1>t DEF Queued
      <4>4. QED
        BY <2>5, <4>2, <4>3
    <3>2. turn.op = "reserve" => turn.request.req \in Req /\ ~Unserved(turn.request.req)
      BY <1>t, TurnFacts DEF Queued, Message
    <3>3. past.applied \subseteq past.published /\ past.rejected \subseteq past.published
      BY <1>t DEF Queued
    <3>4. QED
      BY <1>1, <1>5, <2>5, <3>1, <3>2, <3>3 DEF Queued, Unserved, InHand
  <2>9. QED
    BY <2>4, <2>6, <2>7, <2>8 DEF Books
<1>6. QED
  BY <1>4, <1>5 DEF StartSave

\* What a request in hand is, at each place of the disk thread.
LEMMA HandFacts ==
  ASSUME Books, disk.pc # "idle"
  PROVE  /\ disk \in BusyDisk /\ disk.req \in Req /\ disk.revisions \in Revisions
         /\ disk.pc \in {"prepared", "reserve", "reserved", "cancel"} =>
              disk.req \notin past.published
         /\ disk.pc \in {"published", "apply"} => disk.req \in past.published
         /\ disk.pc = "cancel" => disk.verdict \in {"refused", "cancelled"}
         /\ disk.pc = "apply" => disk.verdict = "apply_failed"
         /\ disk.pc = "apply" /\ disk.answer # None /\ disk.answer.ok =>
              disk.req \in past.applied
         /\ past \in Histories /\ store \in Revisions
         /\ past.applied \subseteq past.published /\ past.rejected \subseteq past.published
         /\ {"refused", "cancelled", "reserve_uncertain", "commit_uncertain", "saved",
             "apply_failed"} \subseteq Heard
<1>1. disk \in BusyDisk /\ disk.req \in Req
  BY DiskFacts DEF Books, DiskTypeOK
<1>2. disk.revisions \in Revisions
  BY <1>1 DEF BusyDisk
<1>3. past \in Histories /\ store \in Revisions
  BY DEF Books, DiskTypeOK
<1>4. QED
  BY <1>1, <1>2, <1>3 DEF Books, Progress, Queued, Heard

\* The requests the disk thread sends, and those it cannot send.
LEMMA AskBooks ==
  ASSUME Books, turn \in Turns, AskReserve \/ AskCancel \/ AskApply
  PROVE  Books'
<1>1. turn' = turn /\ store' = store
  BY DEF AskReserve, AskCancel, AskApply, DiskOnly
<1>2. CASE AskReserve
  <2>1. disk.pc = "prepared" /\ past' = past
    BY <1>2 DEF AskReserve
  <2>2. CASE \E v \in {"cancelled", "refused"} : Return(v) /\ link' = link
    <3>1. PICK v \in {"cancelled", "refused"} : Return(v) /\ link' = link
      BY <2>2
    <3>2. disk.pc # "idle" /\ v \in Heard
      BY <2>1, HandFacts
    <3>3. disk.req \notin past.published
      BY <2>1, HandFacts
    <3>4. QED
      BY <1>1, <2>1, <3>1, <3>2, <3>3, HandFacts, ReturnBooks
  <2>3. CASE /\ Len(link) < Capacity /\ link' = Append(link, Sending("reserve"))
             /\ disk' = [disk EXCEPT !.pc = "reserve", !.answer = None, !.verdict = "refused"]
             /\ api' = api
    BY <1>1, <2>1, <2>3, SendBooks
  <2>4. QED
    BY <1>2, <2>2, <2>3 DEF AskReserve, Call
<1>3. CASE AskCancel
  <2>1. disk.pc = "reserved" /\ past' = past
    BY <1>3 DEF AskCancel
  <2>2. PICK v \in {"cancelled", "refused"} : Call("cancel", v)
    BY <1>3 DEF AskCancel
  <2>3. CASE Return(v) /\ link' = link
    <3>1. disk.pc # "idle" /\ v \in Heard /\ disk.req \notin past.published
      BY <2>1, HandFacts
    <3>2. QED
      BY <1>1, <2>1, <2>3, <3>1, HandFacts, ReturnBooks
  <2>4. CASE /\ Len(link) < Capacity /\ link' = Append(link, Sending("cancel"))
             /\ disk' = [disk EXCEPT !.pc = "cancel", !.answer = None, !.verdict = v]
             /\ api' = api
    BY <1>1, <2>1, <2>4, SendBooks
  <2>5. QED
    BY <2>2, <2>3, <2>4 DEF Call
<1>4. CASE AskApply
  <2>1. /\ disk.pc = "published"
        /\ past' = IF Len(link) < Capacity THEN past
                   ELSE [past EXCEPT !.rejected = past.rejected \cup {disk.req}]
    BY <1>4 DEF AskApply
  <2>2. CASE /\ Return("apply_failed") /\ link' = link /\ ~(Len(link) < Capacity)
    <3>1. disk.pc # "idle" /\ "apply_failed" \in Heard /\ disk.req \in past.published
      BY <2>1, HandFacts
    <3>2. /\ past' \in Histories /\ past'.published = past.published
          /\ past'.applied = past.applied /\ past'.rejected \subseteq past.published
      BY <2>1, <2>2, <3>1, HandFacts DEF Histories
    <3>3. QED
      BY <1>1, <2>2, <3>1, <3>2, HandFacts, ReturnBooks
  <2>3. CASE /\ Len(link) < Capacity /\ link' = Append(link, Sending("apply"))
             /\ disk' = [disk EXCEPT !.pc = "apply", !.answer = None, !.verdict = "apply_failed"]
             /\ api' = api
    BY <1>1, <2>1, <2>3, SendBooks
  <2>4. QED
    BY <1>4, <2>2, <2>3 DEF AskApply, Call
<1>5. QED
  BY <1>2, <1>3, <1>4

\* What the disk thread does with an answer, or without one.
LEMMA OutcomeBooks ==
  ASSUME Books, turn \in Turns,
         Applied \/ Cancelled \/ LinkTimeout \/ PublishUncertain
  PROVE  Books'
<1>1. turn' = turn /\ link' = link
  BY DEF Applied, Cancelled, LinkTimeout, PublishUncertain, DiskOnly
<1>2. CASE Applied
  <2>1. /\ disk.pc = "apply" /\ disk.answer # None /\ past' = past /\ store' = store
        /\ Return(IF disk.answer.ok THEN "saved" ELSE "apply_failed")
    BY <1>2 DEF Applied
  <2>2. disk.pc # "idle" /\ disk.req \in past.published /\ past \in Histories
    BY <2>1, HandFacts
  <2>3. CASE disk.answer.ok
    BY <1>1, <2>1, <2>2, <2>3, HandFacts, ReturnBooks
  <2>4. CASE ~disk.answer.ok
    BY <1>1, <2>1, <2>2, <2>4, HandFacts, ReturnBooks
  <2>5. QED
    BY <2>3, <2>4
<1>3. CASE Cancelled
  <2>1. /\ disk.pc = "cancel" /\ past' = past /\ store' = store /\ Return(disk.verdict)
    BY <1>3 DEF Cancelled
  <2>2. /\ disk.pc # "idle" /\ disk.req \notin past.published
        /\ disk.verdict \in {"refused", "cancelled"} /\ disk.verdict \in Heard
    BY <2>1, HandFacts
  <2>3. QED
    BY <1>1, <2>1, <2>2, HandFacts, ReturnBooks
<1>4. CASE LinkTimeout
  <2>1. /\ disk.pc \in {"reserve", "apply", "cancel"} /\ past' = past /\ store' = store
        /\ Return(IF disk.pc = "reserve" THEN "reserve_uncertain" ELSE disk.verdict)
    BY <1>4 DEF LinkTimeout
  <2>2. disk.pc # "idle"
    BY <2>1
  <2>3. CASE disk.pc = "reserve"
    <3>1. Return("reserve_uncertain") /\ disk.req \notin past.published
      BY <2>1, <2>2, <2>3, HandFacts
    <3>2. QED
      BY <1>1, <2>1, <2>2, <3>1, HandFacts, ReturnBooks
  <2>4. CASE disk.pc = "cancel"
    <3>1. /\ Return(disk.verdict) /\ disk.req \notin past.published
          /\ disk.verdict \in {"refused", "cancelled"} /\ disk.verdict \in Heard
      BY <2>1, <2>2, <2>4, HandFacts
    <3>2. QED
      BY <1>1, <2>1, <2>2, <3>1, HandFacts, ReturnBooks
  <2>5. CASE disk.pc = "apply"
    <3>1. Return("apply_failed") /\ disk.req \in past.published
      BY <2>1, <2>2, <2>5, HandFacts
    <3>2. QED
      BY <1>1, <2>1, <2>2, <3>1, HandFacts, ReturnBooks
  <2>6. QED
    BY <2>1, <2>3, <2>4, <2>5
<1>5. CASE PublishUncertain
  <2>1. /\ disk.pc = "reserved" /\ Return("commit_uncertain")
        /\ store' \in {store, disk.revisions}
        /\ past' = [past EXCEPT !.uncertain = past.uncertain \cup {disk.req}]
    BY <1>5 DEF PublishUncertain
  <2>2. disk.pc # "idle" /\ store' \in Revisions /\ "commit_uncertain" \in Heard
    BY <2>1, HandFacts
  <2>3. /\ past' \in Histories /\ past'.published = past.published
        /\ past'.applied = past.applied /\ past'.rejected \subseteq past.published
    BY <2>1, <2>2, HandFacts DEF Histories
  <2>4. QED
    BY <1>1, <2>1, <2>2, <2>3, ReturnBooks
<1>6. QED
  BY <1>2, <1>3, <1>4, <1>5

\* The reservation is granted or refused.
LEMMA ReservedBooks ==
  ASSUME Books, turn \in Turns, Reserved
  PROVE  Books'
<1>t. /\ DiskTypeOK /\ Progress /\ RepliesHonest /\ Queued
      /\ disk \in BusyDisk /\ past \in Histories /\ store \in Revisions
  BY HandFacts DEF Books, DiskTypeOK, Reserved
<1>1. /\ disk.pc = "reserve" /\ disk.answer # None /\ turn' = turn /\ link' = link
      /\ past' = past /\ store' = store
  BY DEF Reserved, DiskOnly
<1>2. CASE Return("refused")
  <2>1. disk.pc # "idle" /\ disk.req \notin past.published
    BY <1>1, HandFacts
  <2>2. QED
    BY <1>1, <1>2, <2>1, HandFacts, ReturnBooks
<1>3. CASE disk' = [disk EXCEPT !.pc = "reserved", !.ticket = disk.answer.ticket] /\ api' = api
  <2>1. disk.answer \in Answer
    BY <1>t, <1>1 DEF BusyDisk
  <2>2. disk.answer.ticket \in Ticket \cup {None}
    BY <2>1 DEF Answer
  <2>3. disk' \in BusyDisk /\ disk'.pc = "reserved" /\ disk'.req = disk.req
    BY <1>t, <1>3, <2>2 DEF BusyDisk
  <2>4. DiskTypeOK'
    BY <1>t, <1>1, <1>3, <2>3 DEF DiskTypeOK
  <2>5. \A x : Unserved(x)' <=> Unserved(x)
    BY <1>1, <1>3, <2>3 DEF Unserved, InHand
  <2>6. Progress'
    BY <1>t, <1>1, <1>3, <2>3, <2>5 DEF Progress
  <2>7. RepliesHonest'
    BY <1>t, <1>1, <1>3 DEF RepliesHonest
  <2>8. link = <<>>
    BY <1>t, <1>1 DEF Queued
  <2>9. Queued'
    <3>1. link' = <<>> /\ 1..Len(link') = {}
      BY <1>1, <2>8
    <3>2. turn.op = "reserve" => ~Unserved(turn.request.req)
      BY <1>t DEF Queued
    <3>3. past.applied \subseteq past.published /\ past.rejected \subseteq past.published
      BY <1>t DEF Queued
    <3>4. QED
      BY <1>1, <1>3, <2>3, <3>1, <3>2, <3>3 DEF Queued, Unserved, InHand
  <2>10. QED
    BY <2>4, <2>6, <2>7, <2>9 DEF Books
<1>4. QED
  BY <1>2, <1>3 DEF Reserved

\* The save is on the disk.
LEMMA PublishBooks ==
  ASSUME Books, turn \in Turns, PublishSave
  PROVE  Books'
<1>1. /\ disk.pc = "reserved" /\ turn' = turn /\ link' = link /\ api' = api
      /\ store' = disk.revisions
      /\ disk' = [disk EXCEPT !.pc = "published", !.host = disk.revisions]
      /\ past' = [past EXCEPT !.published = past.published \cup {disk.req}]
  BY DEF PublishSave, DiskOnly
<1>t. /\ DiskTypeOK /\ Progress /\ RepliesHonest /\ Queued
      /\ disk \in BusyDisk /\ disk.req \in Req /\ disk.revisions \in Revisions
      /\ past \in Histories /\ api[disk.req].state \in {"pending", "timeout"}
  BY <1>1, HandFacts DEF Books, Progress
<1>2. /\ disk' \in BusyDisk /\ disk'.pc = "published" /\ disk'.req = disk.req
      /\ disk'.ticket = disk.ticket /\ disk'.answer = disk.answer
  BY <1>t, <1>1 DEF BusyDisk
<1>3. /\ past' \in Histories /\ past'.published = past.published \cup {disk.req}
      /\ past'.applied = past.applied /\ past'.rejected = past.rejected
  BY <1>t, <1>1 DEF Histories
<1>4. DiskTypeOK'
  BY <1>t, <1>1, <1>2, <1>3 DEF DiskTypeOK
<1>5. /\ \A x : Unserved(x)' <=> Unserved(x)
      /\ ~Unserved(disk.req)
  BY <1>1, <1>2 DEF Unserved, InHand
<1>6. Progress'
  BY <1>t, <1>1, <1>2, <1>3, <1>5 DEF Progress
<1>7. RepliesHonest'
  BY <1>t, <1>1, <1>3 DEF RepliesHonest
<1>8. Queued'
  <2>1. link' = <<>> /\ 1..Len(link') = {}
    BY <1>t, <1>1 DEF Queued
  <2>2. turn.op = "reserve" => ~Unserved(turn.request.req)
    BY <1>t DEF Queued
  <2>3. past'.applied \subseteq past'.published /\ past'.rejected \subseteq past'.published
    BY <1>t, <1>3 DEF Queued
  <2>4. QED
    BY <1>1, <1>2, <2>1, <2>2, <2>3 DEF Queued, Unserved, InHand
<1>9. QED
  BY <1>4, <1>6, <1>7, <1>8 DEF Books

\* A caller asks, or gives up.
LEMMA CallerBooks ==
  ASSUME RuntimeTypeOK, Books, NEW r \in Req, Ask(r) \/ CallerTimeout(r)
  PROVE  Books'
<1>t. /\ DiskTypeOK /\ Progress /\ RepliesHonest /\ Queued /\ turn \in Turns
      /\ api \in [Req -> NewCall \cup MadeCall] /\ disk \in IdleDisk \cup BusyDisk
      /\ view \in Views
  BY DEF Books, DiskTypeOK, RuntimeTypeOK
<1>1. /\ disk' = disk /\ link' = link /\ store' = store /\ past' = past /\ turn' = turn
  BY DEF Ask, CallerTimeout, DiskOnly
<1>2. /\ api' \in [Req -> NewCall \cup MadeCall]
      /\ \A x \in Req : x # r => api'[x] = api[x]
      /\ \/ api[r].state = "new" /\ api'[r].state = "pending"
         \/ api[r].state = "pending" /\ api'[r].state = "timeout"
  <2>1. CASE Ask(r)
    <3>1. PICK d \in Deck :
            api' = [api EXCEPT ![r] = [state |-> "pending", deck |-> d, token |-> TokenOf(d)]]
      BY <2>1 DEF Ask
    <3>2. TokenOf(d) \in Token
      BY <1>t, DiskFacts DEF TokenOf, Token, Views, Revisions
    <3>3. [state |-> "pending", deck |-> d, token |-> TokenOf(d)] \in MadeCall
      BY <3>2 DEF MadeCall
    <3> HIDE DEF TokenOf
    <3>4. QED
      BY <1>t, <2>1, <3>1, <3>3 DEF Ask
  <2>2. CASE CallerTimeout(r)
    <3>1. api[r].state = "pending" /\ api' = [api EXCEPT ![r] = [api[r] EXCEPT !.state = "timeout"]]
      BY <2>2 DEF CallerTimeout
    <3>2. /\ [api[r] EXCEPT !.state = "timeout"] \in MadeCall
          /\ [api[r] EXCEPT !.state = "timeout"].state = "timeout"
      BY <1>t, <3>1, CallFacts DEF MadeCall, Heard
    <3>3. QED
      BY <1>t, <3>1, <3>2
  <2>3. QED
    BY <2>1, <2>2
<1>3. DiskTypeOK'
  BY <1>t, <1>1, <1>2 DEF DiskTypeOK
<1>4. /\ \A x \in Req : api'[x].state \in {"new", "pending"} =>
           api[x].state \in {"new", "pending"}
      /\ disk.pc # "idle" => api'[disk.req].state \in {"pending", "timeout"}
  BY <1>t, <1>2, DiskFacts DEF Progress
<1>5. \A x \in Req : ~Unserved(x) => ~(api'[x].state \in {"new", "pending"} /\ ~InHand(x))
  BY <1>4 DEF Unserved
<1>6. Progress'
  BY <1>t, <1>1, <1>4 DEF Progress, Unserved, InHand
<1>7. RepliesHonest'
  <2> SUFFICES ASSUME NEW x \in Req
               PROVE  /\ api'[x].state = "saved" => x \in past.published \cap past.applied
                      /\ api'[x].state \in {"refused", "cancelled", "reserve_uncertain"}
                           => x \notin past.published
                      /\ api'[x].state = "apply_failed" => x \in past.published
    BY <1>1 DEF RepliesHonest
  <2>1. QED
    BY <1>t, <1>2 DEF RepliesHonest
<1>8. Queued'
  <2>1. ASSUME NEW i \in 1..Len(link)
        PROVE  /\ ~(api'[link[i].req].state \in {"new", "pending"} /\ ~InHand(link[i].req))
               /\ link[i].kind = "apply" => link[i].req \in past.published
    <3>1. link[i] \in Message
      BY <1>t DEF DiskTypeOK
    <3>2. link[i].req \in Req
      BY <3>1 DEF Message
    <3>3. ~Unserved(link[i].req) /\ (link[i].kind = "apply" => link[i].req \in past.published)
      BY <1>t DEF Queued
    <3>4. QED
      BY <1>5, <3>2, <3>3
  <2>2. turn.op = "reserve" =>
          ~(api'[turn.request.req].state \in {"new", "pending"} /\ ~InHand(turn.request.req))
    <3>1. turn.op = "reserve" => turn.request.req \in Req /\ ~Unserved(turn.request.req)
      BY <1>t, TurnFacts DEF Queued, Message
    <3>2. QED
      BY <1>5, <3>1
  <2>3. QED
    BY <1>t, <1>1, <2>1, <2>2 DEF Queued, Unserved, InHand
<1>9. QED
  BY <1>3, <1>6, <1>7, <1>8 DEF Books

\* No step tells a caller what is not so, nor loses a request.
LEMMA BookMoves ==
  ASSUME RuntimeTypeOK, Books, Tickets, [Next]_vars
  PROVE  Books'
<1>t. turn \in Turns
  BY DEF RuntimeTypeOK
<1>1. CASE Disk
  BY <1>t, <1>1, StartBooks, AskBooks, OutcomeBooks, ReservedBooks, PublishBooks DEF Disk
<1>2. CASE \E r \in Req : Ask(r) \/ CallerTimeout(r)
  BY <1>2, CallerBooks
<1>3. CASE \/ \E d \in Deck : \/ Navigate(d) \/ Disconnect(d) \/ Attach(d) \/ LeaseFails(d)
                              \/ Press(d)
           \/ ToggleGate \/ Foreground \/ Coordinator \/ UNCHANGED vars
  BY <1>3, CoordinatorBooks
<1>4. QED
  BY <1>1, <1>2, <1>3 DEF Next, Environment

-----------------------------------------------------------------------------
(* Reservations.                                                           *)

\* Unless a deck is reserved, reservations are only lost, and a deck that has
\* one does not come up.
LEMMA ReservationsKept ==
  ASSUME RuntimeTypeOK, RuntimeTypeOK', Reservations,
         \A d \in Deck : edits'[d] = edits[d] \/ edits'[d] = None,
         \A d \in Deck : session'[d].up => session[d].up \/ edits[d] = None,
         editEpoch <= editEpoch',
         turn'.op = "attach" => turn' = turn \/ edits'[turn'.deck] = None,
         past.disturbed \subseteq Deck, past'.disturbed \subseteq Deck,
         \A d \in past'.disturbed : d \in past.disturbed \/ edits'[d] = None \/ ~session'[d].up
  PROVE  Reservations'
<1>t. /\ edits \in [Deck -> Ticket \cup {None}] /\ editEpoch \in Nat /\ editEpoch' \in Nat
      /\ turn \in Turns
  BY DEF RuntimeTypeOK
<1>1. \A d \in past'.disturbed : edits'[d] = None \/ ~session'[d].up
  BY DEF Reservations
<1>2. turn'.op = "attach" => edits'[turn'.deck] = None
  BY <1>t, TurnFacts DEF Reservations
<1>3. \A d \in Deck : edits'[d] # None => edits'[d].epoch <= editEpoch'
  <2> SUFFICES ASSUME NEW d \in Deck, edits'[d] # None
               PROVE  edits'[d].epoch <= editEpoch'
    OBVIOUS
  <2>1. edits'[d] = edits[d] /\ edits[d] # None /\ edits[d] \in Ticket
    BY <1>t
  <2>2. edits[d].epoch \in Nat /\ edits[d].epoch <= editEpoch
    BY <2>1 DEF Ticket, Reservations
  <2>3. QED
    BY <1>t, <2>1, <2>2
<1>4. QED
  BY <1>1, <1>2, <1>3 DEF Reservations

\* A step that touches neither sessions nor reservations.
LEMMA QuietReservations ==
  ASSUME Reservations, edits' = edits, session' = session, editEpoch' = editEpoch,
         turn'.op = "attach" => turn' = turn, past'.disturbed = past.disturbed
  PROVE  Reservations'
BY DEF Reservations

\* An operation that starts takes the reservations of its decks.
LEMMA BeginReservations ==
  ASSUME RuntimeTypeOK, RuntimeTypeOK', past \in Histories, Reservations,
         NEW op, NEW D \in SUBSET Deck, Begin(op, D), editEpoch <= editEpoch',
         op.op = "attach" => op.deck \in D
  PROVE  Reservations'
<1>1. /\ turn' = op /\ session' = session
      /\ edits' = [d \in Deck |-> IF d \in D THEN None ELSE edits[d]]
      /\ past' = [past EXCEPT !.disturbed = past.disturbed \cup D]
  BY DEF Begin, Revoke
<1>2. /\ past'.disturbed = past.disturbed \cup D /\ past.disturbed \subseteq Deck
      /\ past'.disturbed \subseteq Deck
  BY <1>1 DEF Histories
<1>3. /\ \A d \in Deck : edits'[d] = edits[d] \/ edits'[d] = None
      /\ \A d \in D : edits'[d] = None
  BY <1>1
<1>4. \A d \in past'.disturbed : d \in past.disturbed \/ edits'[d] = None \/ ~session'[d].up
  BY <1>2, <1>3
<1>5. turn'.op = "attach" => edits'[turn'.deck] = None
  BY <1>1, <1>3
<1>6. \A d \in Deck : session'[d].up => session[d].up \/ edits[d] = None
  BY <1>1
<1>7. QED
  BY <1>2, <1>3, <1>4, <1>5, <1>6, ReservationsKept

LEMMA DisturbReservations ==
  ASSUME RuntimeTypeOK, RuntimeTypeOK', past \in Histories, Reservations,
         \/ \E d \in Deck : Navigate(d) \/ Disconnect(d) \/ Attach(d)
         \/ ToggleGate \/ Foreground
  PROVE  Reservations'
<1>1. editEpoch \in Nat /\ editEpoch <= editEpoch /\ editEpoch <= editEpoch + 1
  BY DEF RuntimeTypeOK
<1>2. ASSUME NEW d \in Deck, Navigate(d)
      PROVE  Reservations'
  <2>1. PICK t \in BOOLEAN : Begin([op |-> "navigate", deck |-> d, turns |-> t], {d})
    BY <1>2 DEF Navigate
  <2>2. editEpoch <= editEpoch'
    BY <1>1, <1>2 DEF Navigate
  <2>3. QED
    BY <2>1, <2>2, BeginReservations
<1>3. ASSUME NEW d \in Deck, Disconnect(d)
      PROVE  Reservations'
  BY <1>1, <1>3, BeginReservations DEF Disconnect
<1>4. ASSUME NEW d \in Deck, Attach(d)
      PROVE  Reservations'
  BY <1>1, <1>4, BeginReservations DEF Attach
<1>5. CASE ToggleGate
  BY <1>1, <1>5, BeginReservations DEF ToggleGate
<1>6. CASE Foreground
  BY <1>1, <1>6, BeginReservations DEF Foreground
<1>7. QED
  BY <1>2, <1>3, <1>4, <1>5, <1>6

LEMMA FinishReservations ==
  ASSUME RuntimeTypeOK, RuntimeTypeOK', past \in Histories, past' \in Histories,
         Reservations, FinishTurn
  PROVE  Reservations'
<1>t. /\ session \in [Deck -> Session] /\ edits \in [Deck -> Ticket \cup {None}]
      /\ editEpoch \in Nat /\ turn \in Turns /\ NoTurn.op = "none"
      /\ past.disturbed \subseteq Deck /\ past'.disturbed \subseteq Deck
  BY DEF RuntimeTypeOK, Histories, NoTurn
<1>k. ASSUME \A d \in Deck : edits'[d] = edits[d] \/ edits'[d] = None,
             \A d \in Deck : session'[d].up => session[d].up \/ edits[d] = None,
             Unmoved, past' = past, turn' = NoTurn
      PROVE  Reservations'
  BY <1>t, <1>k, ReservationsKept DEF Unmoved
<1>1. CASE FinishNavigate
  <2>1. \A d \in Deck : session'[d].up => session[d].up
    <3>1. \/ session' = session
          \/ session' = [session EXCEPT ![turn.deck] = Rebound(session[turn.deck])]
      BY <1>1 DEF FinishNavigate
    <3>2. turn.deck \in Deck /\ Rebound(session[turn.deck]).up = session[turn.deck].up
      BY <1>t, <1>1, TurnFacts, SessionFacts DEF FinishNavigate, Finish
    <3> HIDE DEF Rebound
    <3>3. QED
      BY <1>t, <3>1, <3>2
  <2>2. edits' = edits /\ Unmoved /\ past' = past /\ turn' = NoTurn
    BY <1>1 DEF FinishNavigate, Finish
  <2>3. QED
    BY <1>k, <2>1, <2>2
<1>2. CASE FinishDisconnect
  <2>1. \A d \in Deck : session'[d].up => session[d].up
    <3>1. session' = [session EXCEPT ![turn.deck] =
             [Fenced(session[turn.deck]) EXCEPT !.up = FALSE]]
      BY <1>2 DEF FinishDisconnect
    <3>2. turn.deck \in Deck /\ Fenced(session[turn.deck]) \in Session
      BY <1>t, <1>2, TurnFacts, SessionFacts DEF FinishDisconnect, Finish
    <3>3. [Fenced(session[turn.deck]) EXCEPT !.up = FALSE].up = FALSE
      BY <3>2 DEF Session
    <3> HIDE DEF Fenced
    <3>4. QED
      BY <1>t, <3>1, <3>3
  <2>2. edits' = edits /\ Unmoved /\ past' = past /\ turn' = NoTurn
    BY <1>2 DEF FinishDisconnect, Finish
  <2>3. QED
    BY <1>k, <2>1, <2>2
<1>3. CASE FinishAttach
  <2>1. /\ \A d \in Deck : d # turn.deck => session'[d] = session[d]
        /\ edits[turn.deck] = None
    BY <1>t, <1>3 DEF FinishAttach, Finish, Reservations
  <2>2. edits' = edits /\ Unmoved /\ past' = past /\ turn' = NoTurn
    BY <1>3 DEF FinishAttach, Finish
  <2>3. QED
    BY <1>k, <2>1, <2>2
<1>4. CASE FinishGate
  <2>1. /\ session' = [d \in Deck |-> Fenced(session[d])]
        /\ edits' = [d \in Deck |-> None] /\ Unmoved /\ past' = past /\ turn' = NoTurn
    BY <1>4 DEF FinishGate, Finish
  <2>2. \A d \in Deck : session'[d].up => session[d].up
    BY <1>t, <2>1, SessionFacts
  <2>3. QED
    BY <1>k, <2>1, <2>2
<1>5. CASE FinishForeground
  <2>1. /\ session' = [d \in Deck |-> Rebound(session[d])]
        /\ edits' = edits /\ Unmoved /\ past' = past /\ turn' = NoTurn
    BY <1>5 DEF FinishForeground, Finish
  <2>2. \A d \in Deck : session'[d].up => session[d].up
    BY <1>t, <2>1, SessionFacts
  <2>3. QED
    BY <1>k, <2>1, <2>2
<1>6. CASE FinishReserve
  <2> DEFINE d == turn.request.deck
  <2>1. /\ d \in Deck /\ edits'[d] \in Ticket /\ edits'[d].epoch = editEpoch
        /\ \A c \in Deck : c # d => edits'[c] = edits[c]
    BY <1>6, TicketFacts
  <2>2. /\ session' = [session EXCEPT ![d] = Rebound(session[d])] /\ editEpoch' = editEpoch
        /\ past' = [past EXCEPT !.disturbed = past.disturbed \ {d}] /\ turn' = NoTurn
    BY <1>6 DEF FinishReserve, Finish
  <2> HIDE DEF d
  <2>3. past'.disturbed = past.disturbed \ {d}
    BY <2>2 DEF Histories
  <2>4. \A c \in past'.disturbed : edits'[c] = None \/ ~session'[c].up
    <3> SUFFICES ASSUME NEW c \in past'.disturbed
                 PROVE  edits'[c] = None \/ ~session'[c].up
      OBVIOUS
    <3>1. c \in past.disturbed /\ c # d /\ c \in Deck
      BY <1>t, <2>3
    <3>2. edits'[c] = edits[c] /\ session'[c] = session[c]
      BY <1>t, <2>1, <2>2, <3>1
    <3>3. QED
      BY <3>1, <3>2 DEF Reservations
  <2>5. \A c \in Deck : edits'[c] # None => edits'[c].epoch <= editEpoch'
    <3> SUFFICES ASSUME NEW c \in Deck, edits'[c] # None
                 PROVE  edits'[c].epoch <= editEpoch
      BY <2>2
    <3>1. CASE c = d
      BY <1>t, <2>1, <3>1
    <3>2. CASE c # d
      BY <2>1, <3>2 DEF Reservations
    <3>3. QED
      BY <3>1, <3>2
  <2>6. QED
    BY <1>t, <2>2, <2>4, <2>5 DEF Reservations
<1>7. QED
  BY <1>1, <1>2, <1>3, <1>4, <1>5, <1>6 DEF FinishTurn

LEMMA PollReservations ==
  ASSUME RuntimeTypeOK, RuntimeTypeOK', past \in Histories, past' \in Histories,
         Reservations, NEW d \in Deck, Poll(d)
  PROVE  Reservations'
<1>t. /\ session \in [Deck -> Session] /\ editEpoch \in Nat
      /\ past.disturbed \subseteq Deck /\ past'.disturbed \subseteq Deck
  BY DEF RuntimeTypeOK, Histories
<1>1. /\ session[d] \in Session /\ session[d].up /\ turn' = turn /\ edits' = edits
      /\ editEpoch' = editEpoch
      /\ session' = [session EXCEPT ![d] =
           IF lease[d] THEN [session[d] EXCEPT !.draining = FALSE]
                       ELSE [Fenced(session[d]) EXCEPT !.up = FALSE]]
      /\ past' = IF lease[d] THEN past
                 ELSE [past EXCEPT !.disturbed = past.disturbed \cup {d}]
  BY <1>t DEF Poll, Unmoved
<1>2. Fenced(session[d]) \in Session
  BY <1>1, SessionFacts
<1>3. \A c \in Deck : session'[c].up => session[c].up
  <2>1. [session[d] EXCEPT !.draining = FALSE] \in Session
    BY <1>1, DownFacts
  <2> HIDE DEF Fenced
  <2>2. QED
    BY <1>t, <1>1, <1>2
<1>4. \A c \in past'.disturbed : c \in past.disturbed \/ edits'[c] = None \/ ~session'[c].up
  <2>1. CASE lease[d]
    BY <1>1, <2>1
  <2>2. CASE ~lease[d]
    <3>1. past'.disturbed = past.disturbed \cup {d}
      BY <1>1, <2>2 DEF Histories
    <3>2. session' = [session EXCEPT ![d] = [Fenced(session[d]) EXCEPT !.up = FALSE]]
      BY <1>1, <2>2
    <3>3. [Fenced(session[d]) EXCEPT !.up = FALSE].up = FALSE
      BY <1>2 DEF Session
    <3> HIDE DEF Fenced
    <3>4. ~session'[d].up
      BY <1>t, <3>2, <3>3
    <3>5. QED
      BY <3>1, <3>4
  <2>3. QED
    BY <2>1, <2>2
<1>5. QED
  BY <1>t, <1>1, <1>3, <1>4, ReservationsKept

\* A cancelled, an applied reservation goes; a refused one stays as it is.
LEMMA LinkReservations ==
  ASSUME RuntimeTypeOK, RuntimeTypeOK', DiskTypeOK, past' \in Histories, Reservations,
         Reserve \/ Cancel \/ Apply
  PROVE  Reservations'
<1>t. /\ session \in [Deck -> Session] /\ edits \in [Deck -> Ticket \cup {None}]
      /\ editEpoch \in Nat /\ past \in Histories /\ past.disturbed \subseteq Deck
  BY DEF RuntimeTypeOK, DiskTypeOK, Histories
<1>d. First.deck \in Deck
  BY FirstFacts DEF Reserve, Cancel, Apply, Message
<1>1. editEpoch' = editEpoch /\ past'.disturbed = past.disturbed
  BY <1>t DEF Reserve, Cancel, Apply, Histories
<1>2. turn'.op = "attach" => turn' = turn
  BY DEF Reserve, Cancel, Apply
<1>3. \A d \in Deck : edits'[d] = edits[d] \/ edits'[d] = None
  BY <1>t, <1>d DEF Reserve, Cancel, Apply, Revoke
<1>4. \A d \in Deck : session'[d].up => session[d].up
  <2> DEFINE d == First.deck
  <2>1. \/ session' = session
        \/ session' = [session EXCEPT ![d] = Rebound(session[d])]
        \/ session' = [session EXCEPT ![d] = [Rebound(session[d]) EXCEPT !.up = FALSE]]
    BY DEF Reserve, Cancel, Apply
  <2>2. Rebound(session[d]) \in Session /\ Rebound(session[d]).up = session[d].up
    BY <1>t, <1>d, SessionFacts
  <2>3. [Rebound(session[d]) EXCEPT !.up = FALSE].up = FALSE
    BY <2>2 DEF Session
  <2> HIDE DEF Rebound, d
  <2>4. QED
    BY <1>t, <2>1, <2>2, <2>3
<1>5. QED
  BY <1>t, <1>1, <1>2, <1>3, <1>4, ReservationsKept

LEMMA ReservationMoves ==
  ASSUME RuntimeTypeOK, RuntimeTypeOK', DiskTypeOK, DiskTypeOK', Reservations, [Next]_vars
  PROVE  Reservations'
<1>t. past \in Histories /\ past' \in Histories
  BY DEF DiskTypeOK
<1>1. CASE \/ \E d \in Deck : Navigate(d) \/ Disconnect(d) \/ Attach(d)
           \/ ToggleGate \/ Foreground
  BY <1>t, <1>1, DisturbReservations
<1>2. CASE FinishTurn
  BY <1>t, <1>2, FinishReservations
<1>3. CASE \E d \in Deck : Poll(d)
  BY <1>t, <1>3, PollReservations
<1>4. CASE Reserve \/ Cancel \/ Apply
  BY <1>t, <1>4, LinkReservations
<1>5. CASE \/ \E d \in Deck : LeaseFails(d) \/ Press(d)
           \/ Publish \/ TakeCancelled \/ RefuseReserve \/ UNCHANGED vars
  <2>1. /\ edits' = edits /\ session' = session /\ editEpoch' = editEpoch /\ turn' = turn
        /\ past' = past
    BY <1>5 DEF LeaseFails, Press, Publish, TakeCancelled, RefuseReserve, Unmoved, coordinator,
                vars
  <2>2. QED
    BY <2>1, QuietReservations
<1>6. CASE RefuseApply
  <2>1. /\ edits' = edits /\ session' = session /\ editEpoch' = editEpoch /\ turn' = turn
        /\ past' = [past EXCEPT !.rejected = past.rejected \cup {First.req}]
    BY <1>6 DEF RefuseApply, coordinator
  <2>2. past'.disturbed = past.disturbed
    BY <1>t, <2>1 DEF Histories
  <2>3. QED
    BY <2>1, <2>2, QuietReservations
<1>7. CASE Disk \/ \E r \in Req : Ask(r) \/ CallerTimeout(r)
  <2>1. edits' = edits /\ session' = session /\ editEpoch' = editEpoch /\ turn' = turn
    BY <1>7, DiskStepsKeepRuntime DEF DiskOnly, coordinator
  <2>2. \/ past' = past
        \/ \E P \in SUBSET Req : past' = [past EXCEPT !.published = P]
        \/ \E P \in SUBSET Req : past' = [past EXCEPT !.uncertain = P]
        \/ \E P \in SUBSET Req : past' = [past EXCEPT !.rejected = P]
    <3>1. disk.pc # "idle" => disk.req \in Req
      BY DiskFacts DEF DiskTypeOK
    <3>2. CASE PublishSave
      BY <1>t, <3>1, <3>2 DEF PublishSave, Histories
    <3>3. CASE PublishUncertain
      BY <1>t, <3>1, <3>3 DEF PublishUncertain, Histories
    <3>4. CASE AskApply
      BY <1>t, <3>1, <3>4 DEF AskApply, Histories
    <3>5. CASE \/ \E r \in Req : StartSave(r) \/ Ask(r) \/ CallerTimeout(r)
               \/ AskReserve \/ Reserved \/ AskCancel \/ Applied \/ Cancelled \/ LinkTimeout
      BY <3>5 DEF StartSave, Ask, CallerTimeout, AskReserve, Reserved, AskCancel, Applied,
                  Cancelled, LinkTimeout
    <3>6. QED
      BY <1>7, <3>2, <3>3, <3>4, <3>5 DEF Disk
  <2>3. past'.disturbed = past.disturbed
    BY <1>t, <2>2 DEF Histories
  <2>4. QED
    BY <2>1, <2>3, QuietReservations
<1>8. QED
  BY <1>1, <1>2, <1>3, <1>4, <1>5, <1>6, <1>7 DEF Next, Environment, Coordinator

-----------------------------------------------------------------------------
(* Tickets on their way.                                                   *)

\* Steps that send and answer nothing.
LEMMA QuietCarried ==
  ASSUME Carried, disk' = disk, link' = link, turn' = turn \/ turn'.op # "reserve"
  PROVE  Carried'
BY DEF Carried

\* The request in hand ends.
LEMMA ReturnCarried ==
  ASSUME Carried, disk'.pc = "idle", link' = link, turn' = turn
  PROVE  Carried'
BY DEF Carried

\* An answer that grants a reservation brings its ticket.
LEMMA AnswerCarried ==
  ASSUME DiskTypeOK, Carried, NEW q \in Message, NEW result \in Answer,
         disk' = Answered(q, result),
         q.kind = "reserve" /\ result.ok => result.ticket \in Ticket,
         \/ link # <<>> /\ link' = Tail(link) /\ turn' = turn
         \/ link' = link /\ turn'.op # "reserve"
  PROVE  Carried'
<1>1. /\ disk'.pc = disk.pc
      /\ disk.pc # "idle" => disk'.ticket = disk.ticket
      /\ \/ disk' = disk
         \/ disk.pc = q.kind /\ disk.req = q.req /\ disk.pc # "idle" /\ disk'.answer = result
  BY AnsweredFacts DEF DiskTypeOK
<1>2. \A i \in 1..Len(link') : link'[i].kind = "apply" => link'[i].ticket \in Ticket
  <2>1. CASE link # <<>> /\ link' = Tail(link)
    <3>1. \A i \in 1..Len(link') : link'[i] = link[i + 1] /\ i + 1 \in 1..Len(link)
      BY <2>1 DEF DiskTypeOK
    <3>2. QED
      BY <3>1 DEF Carried
  <2>2. CASE link' = link
    BY <2>2 DEF Carried
  <2>3. QED
    BY <2>1, <2>2
<1>3. turn'.op = "reserve" => turn'.request.kind = "reserve"
  BY DEF Carried
<1>4. disk'.pc = "reserve" /\ disk'.answer # None /\ disk'.answer.ok => disk'.answer.ticket \in Ticket
  BY <1>1 DEF Carried
<1>5. disk'.pc \in {"reserved", "published"} => disk'.ticket \in Ticket
  BY <1>1 DEF Carried
<1>6. QED
  BY <1>2, <1>3, <1>4, <1>5 DEF Carried

LEMMA CoordinatorCarried ==
  ASSUME RuntimeTypeOK, DiskTypeOK, Carried,
         FinishTurn \/ TakeCancelled \/ RefuseReserve \/ Reserve \/ Cancel \/ RefuseApply \/ Apply
  PROVE  Carried'
<1>t. turn \in Turns
  BY DEF RuntimeTypeOK
<1>1. CASE \/ FinishNavigate \/ FinishDisconnect \/ FinishAttach \/ FinishGate
           \/ FinishForeground
  <2>1. Unmoved /\ turn' = NoTurn
    BY <1>1 DEF FinishNavigate, FinishDisconnect, FinishAttach, FinishGate, FinishForeground,
                Finish
  <2>2. QED
    BY <2>1, QuietCarried DEF Unmoved, diskside, NoTurn
<1>2. CASE FinishReserve
  <2>1. turn.request \in Message /\ edits'[turn.request.deck] \in Ticket
    BY <1>2, TicketFacts
  <2>2. /\ disk' = Answered(turn.request, Done(edits'[turn.request.deck]))
        /\ link' = link /\ turn' = NoTurn
    BY <1>2 DEF FinishReserve, Finish
  <2>3. /\ Done(edits'[turn.request.deck]) \in Answer
        /\ Done(edits'[turn.request.deck]).ticket \in Ticket
    BY <2>1, Replies
  <2>4. QED
    BY <2>1, <2>2, <2>3, AnswerCarried DEF NoTurn
<1>3. CASE TakeCancelled \/ RefuseReserve \/ RefuseApply \/ Cancel \/ Apply
  <2>1. PICK kind \in {"reserve", "cancel", "apply"} : Take(kind)
    BY <1>3 DEF TakeCancelled, RefuseReserve, Cancel, RefuseApply, Apply
  <2>2. First \in Message /\ First.kind = kind /\ link # <<>> /\ link' = Tail(link)
    BY <2>1, FirstFacts
  <2>3. turn' = turn
    BY <1>3 DEF TakeCancelled, RefuseReserve, Cancel, RefuseApply, Apply
  <2>4. \/ disk' = Answered(First, Refused)
        \/ disk' = Answered(First, Done(None)) /\ First.kind # "reserve"
    BY <1>3 DEF TakeCancelled, RefuseReserve, Cancel, RefuseApply, Apply, Take
  <2>5. QED
    BY <2>2, <2>3, <2>4, Replies, AnswerCarried
<1>4. CASE Reserve
  <2>1. /\ First \in Message /\ First.kind = "reserve"
        /\ \A i \in 1..Len(link') : link'[i] = link[i + 1] /\ i + 1 \in 1..Len(link)
    BY <1>4, FirstFacts DEF Reserve
  <2>2. disk' = disk /\ turn'.op = "reserve" /\ turn'.request = First
    BY <1>4 DEF Reserve, diskside
  <2>3. QED
    BY <2>1, <2>2 DEF Carried
<1>5. QED
  BY <1>1, <1>2, <1>3, <1>4 DEF FinishTurn

\* What the disk thread sends carries the ticket it was granted.
LEMMA SendCarried ==
  ASSUME DiskTypeOK, Carried, disk.pc # "idle", NEW kind \in {"reserve", "cancel", "apply"},
         NEW verdict \in {"refused", "cancelled", "apply_failed"},
         link' = Append(link, Sending(kind)),
         disk' = [disk EXCEPT !.pc = kind, !.answer = None, !.verdict = verdict],
         turn' = turn, kind = "apply" => disk.pc = "published"
  PROVE  Carried'
<1>1. disk \in BusyDisk /\ link \in Seq(Message) /\ Len(link) \in Nat
  BY DiskFacts DEF DiskTypeOK
<1>2. disk'.pc = kind /\ disk'.answer = None
  BY <1>1 DEF BusyDisk
<1>3. /\ Sending(kind) \in Message /\ Sending(kind).kind = kind
      /\ Sending(kind).ticket = disk.ticket
  BY <1>1 DEF Sending, BusyDisk, Message
<1> HIDE DEF Sending
<1>4. /\ Len(link') = Len(link) + 1
      /\ \A i \in 1..Len(link) : link'[i] = link[i]
      /\ link'[Len(link) + 1] = Sending(kind)
  BY <1>1, <1>3
<1>5. ASSUME NEW i \in 1..Len(link'), link'[i].kind = "apply"
      PROVE  link'[i].ticket \in Ticket
  <2>1. CASE i \in 1..Len(link)
    BY <1>4, <1>5, <2>1 DEF Carried
  <2>2. CASE i = Len(link) + 1
    BY <1>3, <1>4, <1>5, <2>2 DEF Carried
  <2>3. QED
    BY <1>1, <1>4, <2>1, <2>2
<1>6. QED
  BY <1>2, <1>5 DEF Carried

LEMMA DiskCarried ==
  ASSUME RuntimeTypeOK, DiskTypeOK, Carried, Disk
  PROVE  Carried'
<1>t. turn' = turn /\ disk \in IdleDisk \cup BusyDisk
  BY DiskStepsKeepRuntime DEF DiskOnly, DiskTypeOK
<1>1. ASSUME NEW what, Return(what), link' = link
      PROVE  Carried'
  BY <1>t, <1>1, ReturnCarried DEF Return, Still
<1>2. ASSUME NEW kind \in {"reserve", "cancel", "apply"},
             NEW verdict \in {"refused", "cancelled", "apply_failed"},
             Call(kind, verdict), disk.pc # "idle", kind = "apply" => disk.pc = "published"
      PROVE  Carried'
  <2>1. CASE Len(link) < Capacity
    BY <1>t, <1>2, <2>1, SendCarried DEF Call
  <2>2. CASE ~(Len(link) < Capacity)
    BY <1>1, <1>2, <2>2 DEF Call
  <2>3. QED
    BY <2>1, <2>2
<1>3. ASSUME NEW r \in Req, StartSave(r)
      PROVE  Carried'
  <2>1. link' = link /\ (disk' = disk \/ disk'.pc = "prepared")
    BY <1>3 DEF StartSave
  <2>2. QED
    BY <1>t, <2>1 DEF Carried
<1>4. CASE AskReserve
  BY <1>1, <1>2, <1>4 DEF AskReserve
<1>5. CASE AskCancel
  BY <1>2, <1>5 DEF AskCancel
<1>6. CASE AskApply
  BY <1>2, <1>6 DEF AskApply
<1>7. CASE Applied \/ Cancelled \/ LinkTimeout \/ PublishUncertain
  BY <1>1, <1>7 DEF Applied, Cancelled, LinkTimeout, PublishUncertain
<1>8. CASE Reserved
  <2>1. CASE disk.answer.ok
    <3>1. /\ disk.pc = "reserve" /\ disk.answer # None /\ link' = link
          /\ disk' = [disk EXCEPT !.pc = "reserved", !.ticket = disk.answer.ticket]
      BY <1>8, <2>1 DEF Reserved
    <3>2. disk'.pc = "reserved" /\ disk'.ticket = disk.answer.ticket
      BY <1>t, <3>1, DiskFacts DEF BusyDisk
    <3>3. disk.answer.ticket \in Ticket
      BY <2>1, <3>1 DEF Carried
    <3>4. QED
      BY <1>t, <3>1, <3>2, <3>3 DEF Carried
  <2>2. CASE ~disk.answer.ok
    BY <1>1, <1>8, <2>2 DEF Reserved
  <2>3. QED
    BY <2>1, <2>2
<1>9. CASE PublishSave
  <2>1. /\ disk.pc = "reserved" /\ link' = link
        /\ disk' = [disk EXCEPT !.pc = "published", !.host = disk.revisions]
    BY <1>9 DEF PublishSave
  <2>2. disk'.pc = "published" /\ disk'.ticket = disk.ticket
    BY <1>t, <2>1, DiskFacts DEF BusyDisk
  <2>3. QED
    BY <1>t, <2>1, <2>2 DEF Carried
<1>10. QED
  BY <1>3, <1>4, <1>5, <1>6, <1>7, <1>8, <1>9 DEF Disk

LEMMA CarriedMoves ==
  ASSUME RuntimeTypeOK, DiskTypeOK, Carried, [Next]_vars
  PROVE  Carried'
<1>1. CASE \/ \E d \in Deck : Navigate(d) \/ Disconnect(d) \/ Attach(d)
           \/ ToggleGate \/ Foreground
  <2>1. ASSUME NEW op, NEW D, Begin(op, D), op.op # "reserve"
        PROVE  disk' = disk /\ link' = link /\ turn'.op # "reserve"
    BY <2>1 DEF Begin, diskside
  <2>2. ASSUME NEW d \in Deck, Navigate(d)
        PROVE  disk' = disk /\ link' = link /\ turn'.op # "reserve"
    BY <2>1, <2>2 DEF Navigate
  <2>3. ASSUME NEW d \in Deck, Disconnect(d) \/ Attach(d)
        PROVE  disk' = disk /\ link' = link /\ turn'.op # "reserve"
    BY <2>1, <2>3 DEF Disconnect, Attach
  <2>4. CASE ToggleGate \/ Foreground
    BY <2>1, <2>4, QuietCarried DEF ToggleGate, Foreground
  <2>5. QED
    BY <1>1, <2>2, <2>3, <2>4, QuietCarried
<1>2. CASE \/ \E d \in Deck : LeaseFails(d) \/ Press(d) \/ Poll(d)
           \/ \E r \in Req : Ask(r) \/ CallerTimeout(r)
           \/ Publish \/ UNCHANGED vars
  <2>1. disk' = disk /\ link' = link /\ turn' = turn
    BY <1>2 DEF LeaseFails, Press, Poll, Ask, CallerTimeout, Publish, Unmoved, diskside, vars,
                DiskOnly
  <2>2. QED
    BY <2>1, QuietCarried
<1>3. CASE \/ FinishTurn \/ TakeCancelled \/ RefuseReserve \/ Reserve \/ Cancel \/ RefuseApply
           \/ Apply
  BY <1>3, CoordinatorCarried
<1>4. CASE Disk
  BY <1>4, DiskCarried
<1>5. QED
  BY <1>1, <1>2, <1>3, <1>4 DEF Next, Environment, Coordinator

-----------------------------------------------------------------------------
(* The invariant.                                                          *)

LEMMA InitHolds ==
  ASSUME Init
  PROVE  LiveIInv
<1>1. /\ \A d \in Deck : Ctx(d) = [connection |-> 1, binding |-> 1, lock |-> 1]
      /\ [connection |-> 1, binding |-> 1, lock |-> 1] \in Context
      /\ [d \in Deck |-> 1] \in Revisions
      /\ catalog = [d \in Deck |-> 1]
  BY DEF Init, Ctx, Context, Revisions
<1>2. RuntimeTypeOK
  <2>1. session \in [Deck -> Session] /\ gate \in [locked : BOOLEAN, epoch : Nat] /\ turn \in Turns
    BY DEF Init, Session, Turns, NoTurn
  <2>2. mirror \in [Deck -> Context \cup {None}] /\ view \in Views
    BY <1>1 DEF Init, Views
  <2>3. QED
    BY <1>1, <2>1, <2>2 DEF Init, RuntimeTypeOK
<1>3. DiskTypeOK
  <2>1. disk \in IdleDisk /\ past \in Histories /\ api \in [Req -> NewCall \cup MadeCall]
    BY <1>1 DEF Init, IdleDisk, Histories, NewCall
  <2>2. QED
    BY <1>1, <2>1, LiveAssumption DEF Init, DiskTypeOK
<1>4. MirrorCurrent /\ HoldsInView
  BY DEF Init, MirrorCurrent, HoldsInView, Ready
<1>5. Progress /\ RepliesHonest /\ Tickets /\ Queued
  BY DEF Init, Progress, RepliesHonest, Tickets, Reservations, Carried, Queued, NoTurn, Unserved,
         InHand
<1>6. QED
  BY <1>2, <1>3, <1>4, <1>5 DEF LiveIInv

\* The inductive invariant holds in every reachable state: what the coordinator keeps
\* of each deck, what its reservations and the store's tickets have in common, and
\* where each request of a caller is, agree after every step of either side.
THEOREM Invariance == Spec => []LiveIInv
<1>1. Init => LiveIInv
  BY InitHolds
<1>2. LiveIInv /\ [Next]_vars => LiveIInv'
  <2> SUFFICES ASSUME LiveIInv, [Next]_vars
               PROVE  LiveIInv'
    OBVIOUS
  <2>1. RuntimeTypeOK' /\ MirrorCurrent' /\ HoldsInView'
    BY ViewMoves DEF LiveIInv
  <2>2. Books'
    BY BookMoves DEF LiveIInv, Books
  <2>3. Reservations'
    BY <2>1, <2>2, ReservationMoves DEF LiveIInv, Books, Tickets
  <2>4. Carried'
    BY CarriedMoves DEF LiveIInv, Tickets
  <2>5. QED
    BY <2>1, <2>2, <2>3, <2>4 DEF LiveIInv, Books, Tickets
<1>3. QED
  BY <1>1, <1>2, PTL DEF Spec

-----------------------------------------------------------------------------
(* What it gives.                                                          *)

\* At every step of an operation of the coordinator, whatever fails meanwhile,
\* effect workers act only for the present context of a deck in use.
THEOREM MirrorIsCurrent == Spec => []MirrorCurrent
<1>1. LiveIInv => MirrorCurrent
  BY DEF LiveIInv
<1>2. QED
  BY Invariance, <1>1, PTL

\* A microphone key is held only for what is in view.
THEOREM HoldsAreInView == Spec => []HoldsInView
<1>1. LiveIInv => HoldsInView
  BY DEF LiveIInv
<1>2. QED
  BY Invariance, <1>1, PTL

\* No caller is told a save was made that was not, or refused that was made.
THEOREM AnswersAreHonest == Spec => []RepliesHonest
<1>1. LiveIInv => RepliesHonest
  BY DEF LiveIInv
<1>2. QED
  BY Invariance, <1>1, PTL

\* The link never overflows, a granted reservation finds it empty, and what is
\* applied or rejected was published.
THEOREM TypeCorrect == Spec => []LiveTypeOK
<1>1. LiveIInv => LiveTypeOK
  BY DEF LiveIInv, RuntimeTypeOK, DiskTypeOK, Session, Queued, Tickets, Reservations, LiveTypeOK
<1>2. QED
  BY Invariance, <1>1, PTL

\* The catalog that runs changes only for a deck whose reservation nothing has
\* disturbed since it was granted.
LEMMA OwnApply ==
  ASSUME LiveIInv, [Next]_vars, NEW d \in Deck, catalog'[d] # catalog[d]
  PROVE  d \notin past.disturbed
<1>1. CASE Apply /\ lease[First.deck]
  <2>1. /\ First \in Message /\ First.kind = "apply" /\ 1 \in 1..Len(link) /\ First = link[1]
    BY <1>1, FirstFacts DEF Apply, First, LiveIInv
  <2>2. First.ticket \in Ticket /\ First.deck \in Deck
    BY <2>1 DEF LiveIInv, Tickets, Carried, Message
  <2>3. /\ edits[First.deck] = First.ticket /\ session[First.deck].up
        /\ catalog' = [catalog EXCEPT ![First.deck] = @ + 1]
    BY <1>1 DEF Apply, Fresh, Succeeds
  <2>4. d = First.deck
    BY <2>3 DEF LiveIInv, RuntimeTypeOK, Revisions
  <2>5. edits[d] # None
    BY <2>2, <2>3, <2>4, LiveAssumption DEF Ticket
  <2>6. QED
    BY <2>3, <2>4, <2>5 DEF LiveIInv, Tickets, Reservations
<1>2. CASE ~(Apply /\ lease[First.deck])
  <2>1. catalog' = catalog
    <3>1. CASE Environment
      BY <3>1 DEF Environment, Navigate, Disconnect, Attach, LeaseFails, Press, ToggleGate,
                  Foreground, Begin, Unmoved, Ask, CallerTimeout, DiskOnly, books
    <3>2. CASE Disk \/ UNCHANGED vars
      BY <3>2, DiskStepsKeepRuntime DEF DiskOnly, books, vars
    <3>3. CASE Coordinator
      BY <1>2, <3>3 DEF Coordinator, FinishTurn, FinishNavigate, FinishDisconnect, FinishAttach,
         FinishGate, FinishForeground, FinishReserve, Publish, Poll, TakeCancelled, RefuseReserve,
         Reserve, Cancel, RefuseApply, Apply, Unmoved, books
    <3>4. QED
      BY <3>1, <3>2, <3>3 DEF Next
  <2>2. QED
    BY <2>1
<1>3. QED
  BY <1>1, <1>2

\* A save is applied only to the session it reserved, undisturbed.
THEOREM AppliesAreOwn == Spec => NoForeignApply
<1>1. LiveIInv /\ [Next]_vars =>
        [\A d \in Deck : catalog'[d] # catalog[d] => d \notin past.disturbed]_vars
  BY OwnApply
<1>2. QED
  BY Invariance, <1>1, PTL DEF Spec, NoForeignApply

-----------------------------------------------------------------------------
(* The lock, the sleep and the turns of the permanent service.             *)

Works == [state : {"none", "held", "ending"}, born : Nat, locks : Nat]
Runtimes ==
  [hostLocked : BOOLEAN, lockEpoch : Nat, hostSleeping : BOOLEAN, sleepEpoch : Nat,
   reopening : BOOLEAN, up : BOOLEAN, retiring : BOOLEAN, failed : BOOLEAN,
   born : Nat, work : Works]
Snapshots == [available : BOOLEAN, preparing : BOOLEAN, epoch : Nat, queued : Nat]
Observers ==
  [pc : {"down", "first", "up", "sampled"}, inhibitor : BOOLEAN, deadline : BOOLEAN,
   sample : [epoch : Nat, value : BOOLEAN]]
Phases == {"awake", "preparing", "asleep", "resuming"}
Machines == [phase : Phases, signals : Seq(BOOLEAN), sleeps : Nat]
Locks == [open : BOOLEAN, locked : BOOLEAN, epoch : Nat, locks : Nat]
Rounds ==
  [at : {"read", "act"}, slept : Nat, epoch : Nat, preparing : BOOLEAN, locks : Nat]
Openings == [state : {"none", "opening", "opened"}, epoch : Nat, born : Nat]

HostTyped ==
  /\ logind \in Machines /\ obs \in Observers /\ sleep \in Snapshots /\ acks \in Seq(Nat)
  /\ lock \in Locks /\ round \in Rounds /\ rt \in Runtimes /\ io \in Openings
  /\ excused \in BOOLEAN /\ left \in [sleeps : Nat, locks : Nat, faults : Nat]

\* Nothing is of an epoch or a sleep to come, and a turn acts in the epoch it
\* has told the runtime of.
Dated ==
  /\ rt.sleepEpoch <= sleep.epoch /\ rt.lockEpoch <= lock.epoch /\ io.epoch <= sleep.epoch
  /\ round.slept <= logind.sleeps
  /\ \A i \in DOMAIN acks : acks[i] <= sleep.epoch
  /\ round.at = "act" => round.epoch = rt.sleepEpoch

\* A connection that has just been made holds its inhibitor, and only one that
\* is made has a deadline.
Inhibited ==
  /\ obs.pc = "first" => obs.inhibitor
  /\ obs.deadline => obs.pc \in {"up", "sampled"}

Settles(r) == r.hostSleeping /\ ~r.up /\ ~r.retiring /\ r.work = NoWork

\* What releases an inhibitor without an excuse is an acknowledgement of this
\* preparation, which the runtime has settled for; one of an epoch that has
\* passed releases nothing.
Gated ==
  /\ rt.hostSleeping => ~rt.up
  /\ \A i \in DOMAIN acks : acks[i] = sleep.epoch /\ sleep.preparing => Settles(rt)
  /\ logind.phase = "preparing" /\ ~obs.inhibitor /\ ~excused => Settles(rt) /\ Blocked(sleep)
  /\ logind.phase = "asleep" /\ ~excused => Settles(rt)

\* The device and the work are of the sleep the last turn knew of; so is an
\* opening, or its epoch has passed.
Recent ==
  /\ rt.up => rt.born >= round.slept
  /\ rt.work.state = "held" => rt.work.born >= round.slept
  /\ io.state # "none" => io.born >= round.slept \/ io.epoch < rt.sleepEpoch

\* What is held was begun after the last lock, or the epoch of the gate will
\* tell the runtime that it has missed one.
Guarded ==
  /\ rt.work.state = "held" /\ rt.lockEpoch = lock.epoch => rt.work.locks = lock.locks
  /\ round.at = "act" =>
       /\ rt.work.state = "held" => rt.work.locks = round.locks
       /\ rt.lockEpoch = lock.epoch => round.locks = lock.locks

HostInv == Dated /\ Inhibited /\ Gated /\ Recent /\ Guarded
HostIInv == HostTyped /\ HostInv

-----------------------------------------------------------------------------
(* What becomes of the runtime, the snapshot and the gate.                 *)

\* A revocation leaves nothing held, and what has settled alone.
LEMMA EndedFacts ==
  ASSUME NEW r \in Runtimes
  PROVE  /\ Ended(r) \in Runtimes /\ Ended(r).work.state # "held"
         /\ r.work = NoWork => Ended(r) = r
         /\ Ended(r).hostSleeping = r.hostSleeping /\ Ended(r).sleepEpoch = r.sleepEpoch
         /\ Ended(r).lockEpoch = r.lockEpoch /\ Ended(r).up = r.up
         /\ Ended(r).born = r.born /\ Ended(r).retiring = r.retiring
BY DEF Ended, NoWork, Runtimes, Works

\* The lock's epoch reaches the runtime, and what is held through it was begun
\* in that epoch.
LEMMA HostLockFacts ==
  ASSUME NEW r \in Runtimes, NEW locked \in BOOLEAN, NEW epoch \in Nat,
         NEW s, s = HostLock(r, locked, epoch)
  PROVE  /\ s \in Runtimes /\ s.lockEpoch = epoch
         /\ s.hostSleeping = r.hostSleeping /\ s.sleepEpoch = r.sleepEpoch
         /\ s.up = r.up /\ s.born = r.born /\ s.retiring = r.retiring
         /\ s.work.state = "held" => s.work = r.work /\ r.lockEpoch = epoch
         /\ Settles(r) => Settles(s)
<1> DEFINE n == [r EXCEPT !.hostLocked = locked, !.lockEpoch = epoch]
<1>1. /\ n \in Runtimes /\ n.lockEpoch = epoch /\ n.work = r.work
      /\ n.hostSleeping = r.hostSleeping /\ n.sleepEpoch = r.sleepEpoch
      /\ n.up = r.up /\ n.born = r.born /\ n.retiring = r.retiring
  BY DEF Runtimes
<1>2. (s = n /\ r.lockEpoch = epoch) \/ s = Ended(n)
  BY DEF HostLock, ApplyGate
<1> HIDE DEF n
<1>3. QED
  BY <1>1, <1>2, EndedFacts DEF Settles

\* The same of the sleep's epoch; a runtime that blocks, or hears of a new
\* epoch, has given up its device.
LEMMA HostSleepFacts ==
  ASSUME NEW r \in Runtimes, NEW blocked \in BOOLEAN, NEW epoch \in Nat,
         NEW s, s = HostSleep(r, blocked, epoch), r.hostSleeping => ~r.up
  PROVE  /\ s \in Runtimes /\ s.sleepEpoch = epoch /\ s.hostSleeping = blocked
         /\ s.lockEpoch = r.lockEpoch
         /\ blocked => ~s.up
         /\ s.up => r.up /\ s.born = r.born
         /\ s.work.state = "held" => s.work = r.work /\ r.sleepEpoch = epoch
         /\ Settles(r) /\ blocked => Settles(s)
<1> DEFINE fence == blocked \/ (r.sleepEpoch # epoch /\ r.sleepEpoch # 0)
           n == [r EXCEPT
             !.hostSleeping = blocked, !.sleepEpoch = epoch,
             !.up = @ /\ ~fence, !.born = IF fence THEN 0 ELSE @,
             !.retiring = @ \/ (fence /\ r.up),
             !.failed = @ /\ ~(blocked /\ ~r.hostSleeping),
             !.reopening = @ \/ fence \/ r.hostSleeping]
<1>1. (s = r /\ r.sleepEpoch = epoch /\ r.hostSleeping = blocked) \/ s = Ended(n)
  BY DEF HostSleep, ApplyGate
<1>2. /\ fence \in BOOLEAN
      /\ n.hostSleeping = blocked /\ n.sleepEpoch = epoch /\ n.lockEpoch = r.lockEpoch
      /\ n.up = (r.up /\ ~fence) /\ (~fence => n.born = r.born) /\ n.work = r.work
      /\ n.retiring = (r.retiring \/ (fence /\ r.up))
  BY DEF Runtimes
<1>3. n \in Runtimes
  <2> DEFINE up == r.up /\ ~fence
             born == IF fence THEN 0 ELSE r.born
             retiring == r.retiring \/ (fence /\ r.up)
             failed == r.failed /\ ~(blocked /\ ~r.hostSleeping)
             reopening == r.reopening \/ fence \/ r.hostSleeping
  <2>1. /\ up \in BOOLEAN /\ born \in Nat /\ retiring \in BOOLEAN
        /\ failed \in BOOLEAN /\ reopening \in BOOLEAN
    BY DEF Runtimes
  <2>2. n = [r EXCEPT !.hostSleeping = blocked, !.sleepEpoch = epoch, !.up = up, !.born = born,
                      !.retiring = retiring, !.failed = failed, !.reopening = reopening]
    OBVIOUS
  <2> HIDE DEF n, up, born, retiring, failed, reopening
  <2>3. [r EXCEPT !.hostSleeping = blocked, !.sleepEpoch = epoch, !.up = up, !.born = born,
                  !.retiring = retiring, !.failed = failed, !.reopening = reopening]
          \in Runtimes
    BY <2>1 DEF Runtimes
  <2>4. QED
    BY <2>2, <2>3
<1>4. r.up \in BOOLEAN /\ r.retiring \in BOOLEAN
  BY DEF Runtimes
<1> HIDE DEF n
<1>5. CASE s = r /\ r.sleepEpoch = epoch /\ r.hostSleeping = blocked
  BY <1>5
<1>6. CASE s = Ended(n)
  <2>1. /\ s \in Runtimes /\ s.work.state # "held" /\ (n.work = NoWork => s = n)
        /\ s.hostSleeping = blocked /\ s.sleepEpoch = epoch /\ s.lockEpoch = r.lockEpoch
        /\ s.up = n.up /\ s.born = n.born /\ s.retiring = n.retiring
    BY <1>2, <1>3, <1>6, EndedFacts
  <2>2. s.up => r.up /\ ~fence
    BY <1>2, <2>1
  <2>3. Settles(r) /\ blocked => Settles(s)
    BY <1>2, <1>4, <2>1 DEF Settles
  <2>4. QED
    BY <1>2, <2>1, <2>2, <2>3
<1>7. QED
  BY <1>1, <1>5, <1>6

\* A snapshot that says something else has a new epoch.
LEMMA PublishedFacts ==
  ASSUME NEW s \in Snapshots, NEW available \in BOOLEAN, NEW preparing \in BOOLEAN,
         NEW t, t = Published(s, available, preparing)
  PROVE  /\ t \in Snapshots /\ t.available = available /\ t.preparing = preparing
         /\ t.epoch >= s.epoch
         /\ t.epoch = s.epoch => available = s.available /\ preparing = s.preparing
<1> DEFINE changed == s.available # available \/ s.preparing # preparing
           epoch == IF changed THEN s.epoch + 1 ELSE s.epoch
           queued == IF changed THEN 0 ELSE s.queued
           n == [s EXCEPT !.available = available, !.preparing = preparing,
                          !.epoch = epoch, !.queued = queued]
<1>1. t = n
  BY DEF Published
<1>2. /\ epoch \in Nat /\ queued \in Nat /\ epoch >= s.epoch
      /\ epoch = s.epoch => available = s.available /\ preparing = s.preparing
  BY DEF Snapshots
<1> HIDE DEF changed, epoch, queued
<1>3. n \in Snapshots
  BY <1>2 DEF Snapshots
<1>4. n.available = available /\ n.preparing = preparing /\ n.epoch = epoch
  BY DEF Snapshots
<1> HIDE DEF n
<1>5. QED
  BY <1>1, <1>2, <1>3, <1>4

\* What is not known blocks.
LEMMA UnknownFacts ==
  ASSUME NEW s \in Snapshots, NEW t, t = Unknown(s)
  PROVE  /\ t \in Snapshots /\ t.preparing = s.preparing /\ t.epoch >= s.epoch
         /\ Blocked(t) /\ t.available = FALSE
<1>1. s.preparing \in BOOLEAN /\ FALSE \in BOOLEAN
  BY DEF Snapshots
<1> DEFINE no == FALSE
<1>2. no \in BOOLEAN /\ t = Published(s, no, s.preparing)
  BY DEF Unknown
<1> HIDE DEF no
<1>3. t \in Snapshots /\ t.available = no /\ t.preparing = s.preparing /\ t.epoch >= s.epoch
  BY <1>1, <1>2, PublishedFacts
<1>4. QED
  BY <1>3 DEF Blocked, no

\* A lock that is counted has a new epoch.
LEMMA RefreshedFacts ==
  ASSUME NEW l \in Locks, NEW m, m = Refreshed(l)
  PROVE  /\ m \in Locks /\ m.epoch >= l.epoch
         /\ m.epoch = l.epoch => m.locks = l.locks
<1> DEFINE locked == ~l.open
           epoch == IF l.locked = l.open THEN l.epoch + 1 ELSE l.epoch
           locks == IF ~l.open /\ ~l.locked THEN l.locks + 1 ELSE l.locks
           n == [l EXCEPT !.locked = locked, !.epoch = epoch, !.locks = locks]
<1>1. m = n
  BY DEF Refreshed
<1>2. /\ locked \in BOOLEAN /\ epoch \in Nat /\ locks \in Nat /\ epoch >= l.epoch
      /\ epoch = l.epoch => locks = l.locks
  BY DEF Locks
<1> HIDE DEF locked, epoch, locks
<1>3. n \in Locks
  BY <1>2 DEF Locks
<1>4. n.epoch = epoch /\ n.locks = locks
  BY DEF Locks
<1> HIDE DEF n
<1>5. QED
  BY <1>1, <1>2, <1>3, <1>4

-----------------------------------------------------------------------------
(* logind and the observer.                                                *)

\* What is left of a budget is a number.
LEMMA SpentTyped ==
  ASSUME HostTyped, NEW what \in {"sleeps", "locks", "faults"}, Spend(what)
  PROVE  left' \in [sleeps : Nat, locks : Nat, faults : Nat]
<1>1. left[what] \in Nat /\ left[what] > 0
  BY DEF HostTyped, Spend
<1>2. left[what] - 1 \in Nat
  BY <1>1
<1>3. QED
  BY <1>2 DEF HostTyped, Spend

Signalled(m, phase, signals) == [m EXCEPT !.phase = phase, !.signals = signals]

\* logind in another phase, with its signals.
LEMMA MachineFacts ==
  ASSUME NEW m \in Machines, NEW phase \in Phases,
         NEW signals \in Seq(BOOLEAN),
         NEW n, n = Signalled(m, phase, signals)
  PROVE  n \in Machines /\ n.phase = phase /\ n.sleeps = m.sleeps
<1> DEFINE e == [m EXCEPT !.phase = phase, !.signals = signals]
<1>1. e \in Machines /\ e.phase = phase /\ e.sleeps = m.sleeps
  BY DEF Machines, Phases
<1> HIDE DEF e
<1>2. n = e
  BY DEF e, Signalled
<1>3. QED
  BY <1>1, <1>2

\* logind asleep once more.
LEMMA AsleepFacts ==
  ASSUME NEW m \in Machines, NEW n, n = [m EXCEPT !.phase = "asleep", !.sleeps = @ + 1]
  PROVE  n \in Machines /\ n.phase = "asleep" /\ n.sleeps = m.sleeps + 1
<1> DEFINE sleeps == m.sleeps + 1
           e == [m EXCEPT !.phase = "asleep", !.sleeps = sleeps]
<1>1. sleeps \in Nat
  BY DEF Machines
<1> HIDE DEF sleeps
<1>2. e \in Machines /\ e.phase = "asleep" /\ e.sleeps = sleeps
  BY <1>1 DEF Machines, Phases
<1> HIDE DEF e
<1>3. n = e
  BY DEF e, sleeps
<1>4. QED
  BY <1>2, <1>3 DEF sleeps

\* logind alone moves.
LEMMA LogindKeeps ==
  ASSUME HostIInv, LogindOnly, logind' \in Machines, logind'.sleeps >= logind.sleeps,
         excused' \in BOOLEAN, left' \in [sleeps : Nat, locks : Nat, faults : Nat],
         logind'.phase = "preparing" /\ ~obs.inhibitor /\ ~excused' =>
           Settles(rt) /\ Blocked(sleep),
         logind'.phase = "asleep" /\ ~excused' => Settles(rt)
  PROVE  HostIInv'
<1>1. UNCHANGED <<obs, sleep, acks, lock, round, rt, io>>
  BY DEF LogindOnly
<1>2. Dated'
  <2>1. round.slept \in Nat /\ logind.sleeps \in Nat /\ logind'.sleeps \in Nat
    BY DEF HostIInv, HostTyped, Rounds, Machines
  <2>2. QED
    BY <1>1, <2>1 DEF HostIInv, HostInv, Dated
<1>3. Inhibited' /\ Recent' /\ Guarded'
  BY <1>1 DEF HostIInv, HostInv, Inhibited, Recent, Guarded
<1>4. Gated'
  BY <1>1 DEF HostIInv, HostInv, Gated, Settles, Blocked
<1>5. HostTyped'
  BY <1>1 DEF HostIInv, HostTyped
<1>6. QED
  BY <1>2, <1>3, <1>4, <1>5 DEF HostIInv, HostInv

LEMMA LogindStep ==
  ASSUME HostIInv, Logind
  PROVE  HostIInv'
<1>0. /\ HostTyped /\ logind \in Machines /\ logind.sleeps \in Nat
      /\ logind.signals \in Seq(BOOLEAN) /\ obs.inhibitor \in BOOLEAN /\ excused \in BOOLEAN
      /\ left \in [sleeps : Nat, locks : Nat, faults : Nat]
      /\ TRUE \in BOOLEAN /\ FALSE \in BOOLEAN
  BY DEF HostIInv, HostTyped, Machines, Observers
<1>1. /\ Append(logind.signals, TRUE) \in Seq(BOOLEAN)
      /\ Append(logind.signals, FALSE) \in Seq(BOOLEAN)
  <2>1. ASSUME NEW b \in BOOLEAN PROVE Append(logind.signals, b) \in Seq(BOOLEAN)
    BY <1>0
  <2>2. QED
    BY <1>0, <2>1
<1>2. CASE Prepare
  <2> DEFINE signals == IF obs.pc = "down" THEN logind.signals ELSE Append(logind.signals, TRUE)
  <2>1. signals \in Seq(BOOLEAN)
    BY <1>0, <1>1
  <2>2. logind' = Signalled(logind, "preparing", signals)
    BY <1>2 DEF Prepare, Signalled
  <2>3. /\ LogindOnly /\ excused' = ~obs.inhibitor
        /\ left' \in [sleeps : Nat, locks : Nat, faults : Nat]
    BY <1>0, <1>2, SpentTyped DEF Prepare
  <2> HIDE DEF signals
  <2>4. logind' \in Machines /\ logind'.phase = "preparing" /\ logind'.sleeps = logind.sleeps
    <3>1. "preparing" \in Phases
      BY DEF Phases
    <3>2. QED
      BY <1>0, <2>1, <2>2, <3>1, MachineFacts
  <2>5. logind'.sleeps >= logind.sleeps
    BY <1>0, <2>4
  <2>6. ~(~obs.inhibitor /\ ~excused') /\ excused' \in BOOLEAN /\ logind'.phase # "asleep"
    BY <2>3, <2>4
  <2>7. QED
    BY <2>3, <2>4, <2>5, <2>6, LogindKeeps
<1>3. CASE Suspend \/ ForceSuspend
  <2>1. logind' = [logind EXCEPT !.phase = "asleep", !.sleeps = @ + 1]
    BY <1>3 DEF Suspend, ForceSuspend
  <2>2. logind' \in Machines /\ logind'.phase = "asleep" /\ logind'.sleeps = logind.sleeps + 1
    BY <1>0, <2>1, AsleepFacts
  <2>3. logind'.sleeps >= logind.sleeps
    BY <1>0, <2>2
  <2>4. logind'.phase # "preparing"
    BY <2>2
  <2>5. LogindOnly
    BY <1>3 DEF Suspend, ForceSuspend
  <2>6. CASE Suspend
    <3>1. UNCHANGED <<excused, left>> /\ logind.phase = "preparing" /\ ~obs.inhibitor
      BY <2>6 DEF Suspend
    <3>2. ~excused' => Settles(rt)
      BY <3>1 DEF HostIInv, HostInv, Gated
    <3>3. QED
      BY <1>0, <2>2, <2>3, <2>4, <2>5, <3>1, <3>2, LogindKeeps
  <2>7. CASE ForceSuspend
    <3>1. excused' = TRUE /\ left' \in [sleeps : Nat, locks : Nat, faults : Nat]
      BY <1>0, <2>7, SpentTyped DEF ForceSuspend, Excuse
    <3>2. QED
      BY <1>0, <2>2, <2>3, <2>4, <2>5, <3>1, LogindKeeps
  <2>8. QED
    BY <1>3, <2>6, <2>7
<1>4. CASE Awake \/ Resumed
  <2>1. PICK phase \in {"awake", "resuming"}, signals \in Seq(BOOLEAN) :
          logind' = Signalled(logind, phase, signals)
    <3>1. CASE Awake
      <4> DEFINE phase == IF logind.phase = "asleep" THEN "resuming" ELSE "awake"
                 signals == IF obs.pc = "down" \/ logind.phase = "asleep" THEN logind.signals
                            ELSE Append(logind.signals, FALSE)
      <4>1. phase \in {"awake", "resuming"} /\ signals \in Seq(BOOLEAN)
        BY <1>0, <1>1
      <4>2. logind' = Signalled(logind, phase, signals)
        BY <3>1 DEF Awake, Signalled
      <4> HIDE DEF phase, signals
      <4>3. QED
        BY <4>1, <4>2
    <3>2. CASE Resumed
      <4> DEFINE signals == IF obs.pc = "down" THEN logind.signals
                            ELSE Append(logind.signals, FALSE)
      <4>1. signals \in Seq(BOOLEAN)
        BY <1>0, <1>1
      <4>2. logind' = Signalled(logind, "awake", signals)
        BY <3>2 DEF Resumed, Signalled
      <4> HIDE DEF signals
      <4>3. QED
        BY <4>1, <4>2
    <3>3. QED
      BY <1>4, <3>1, <3>2
  <2>2. LogindOnly /\ excused' = FALSE /\ left' = left
    BY <1>4 DEF Awake, Resumed
  <2>3. logind' \in Machines /\ logind'.phase = phase /\ logind'.sleeps = logind.sleeps
    <3>1. phase \in Phases
      BY DEF Phases
    <3>2. QED
      BY <1>0, <2>1, <3>1, MachineFacts
  <2>4. logind'.sleeps >= logind.sleeps
    BY <1>0, <2>3
  <2>5. logind'.phase # "preparing" /\ logind'.phase # "asleep" /\ excused' \in BOOLEAN
    BY <2>2, <2>3
  <2>6. QED
    BY <1>0, <2>2, <2>3, <2>4, <2>5, LogindKeeps
<1>5. QED
  BY <1>2, <1>3, <1>4 DEF Logind

\* The observer alone moves, and the runtime reads what it says later: an
\* inhibitor that is not held has an excuse, or the runtime has settled.
LEMMA ObserverKeeps ==
  ASSUME HostIInv, UNCHANGED <<lock, round, rt, io>>, logind' \in Machines, obs' \in Observers,
         sleep' \in Snapshots, acks' \in Seq(Nat), excused' \in BOOLEAN,
         left' \in [sleeps : Nat, locks : Nat, faults : Nat],
         logind'.phase = logind.phase, logind'.sleeps = logind.sleeps, logind.phase # "asleep",
         sleep'.epoch >= sleep.epoch,
         sleep'.epoch = sleep.epoch /\ sleep'.preparing => sleep.preparing,
         \A i \in DOMAIN acks' : \E j \in DOMAIN acks : acks'[i] = acks[j],
         Inhibited',
         logind.phase = "preparing" /\ ~obs'.inhibitor /\ ~excused' =>
           Settles(rt) /\ Blocked(sleep')
  PROVE  HostIInv'
<1>0. HostTyped /\ Dated /\ Gated /\ Recent /\ Guarded
  BY DEF HostIInv, HostInv
<1>1. HostTyped'
  BY <1>0 DEF HostTyped
<1>2. /\ sleep.epoch \in Nat /\ sleep'.epoch \in Nat /\ rt.sleepEpoch \in Nat /\ io.epoch \in Nat
      /\ \A i \in DOMAIN acks : acks[i] \in Nat
  <2>1. sleep \in Snapshots /\ sleep' \in Snapshots /\ rt \in Runtimes /\ io \in Openings
    BY <1>0 DEF HostTyped
  <2>2. acks \in Seq(Nat)
    BY <1>0 DEF HostTyped
  <2>3. \A i \in DOMAIN acks : acks[i] \in Nat
    BY <2>2
  <2>4. /\ sleep.epoch \in Nat /\ sleep'.epoch \in Nat /\ rt.sleepEpoch \in Nat
        /\ io.epoch \in Nat
    BY <2>1 DEF Snapshots, Runtimes, Openings
  <2>5. QED
    BY <2>3, <2>4
<1>3. \A i \in DOMAIN acks : acks[i] <= sleep.epoch
  BY <1>0 DEF Dated
<1>4. ASSUME NEW i \in DOMAIN acks'
      PROVE  /\ acks'[i] <= sleep'.epoch
             /\ acks'[i] = sleep'.epoch /\ sleep'.preparing => Settles(rt)
  <2>1. PICK j \in DOMAIN acks : acks'[i] = acks[j]
    OBVIOUS
  <2>2. acks[j] \in Nat /\ acks[j] <= sleep.epoch
    BY <1>2, <1>3
  <2>3. acks'[i] <= sleep'.epoch /\ (acks'[i] = sleep'.epoch => sleep'.epoch = sleep.epoch)
    BY <1>2, <2>1, <2>2
  <2>4. acks[j] = sleep.epoch /\ sleep.preparing => Settles(rt)
    BY <1>0 DEF Gated
  <2>5. QED
    BY <2>1, <2>3, <2>4
<1>5. Dated'
  <2>1. rt.sleepEpoch <= sleep'.epoch /\ io.epoch <= sleep'.epoch
    BY <1>0, <1>2 DEF Dated
  <2>2. \A i \in DOMAIN acks' : acks'[i] <= sleep'.epoch
    BY <1>4
  <2>3. QED
    BY <1>0, <2>1, <2>2 DEF Dated
<1>6. Gated'
  <2>1. \A i \in DOMAIN acks' : acks'[i] = sleep'.epoch /\ sleep'.preparing => Settles(rt)
    BY <1>4
  <2>2. Settles(rt)' <=> Settles(rt)
    BY DEF Settles
  <2>3. Blocked(sleep)' <=> Blocked(sleep')
    BY DEF Blocked
  <2>4. QED
    BY <1>0, <2>1, <2>2, <2>3 DEF Gated
<1>7. Recent' /\ Guarded'
  BY <1>0 DEF Recent, Guarded
<1>8. QED
  BY <1>1, <1>5, <1>6, <1>7 DEF HostIInv, HostInv

\* logind without the signals that nobody hears.
LEMMA DeafFacts ==
  ASSUME HostTyped, NEW n, n = Deaf
  PROVE  n \in Machines /\ n.phase = logind.phase /\ n.sleeps = logind.sleeps
<1>1. logind \in Machines /\ <<>> \in Seq(BOOLEAN)
  BY DEF HostTyped
<1> DEFINE none == <<>>
           e == [logind EXCEPT !.signals = none]
<1>2. none \in Seq(BOOLEAN)
  BY <1>1
<1> HIDE DEF none
<1>3. e \in Machines /\ e.phase = logind.phase /\ e.sleeps = logind.sleeps
  BY <1>1, <1>2 DEF Machines
<1> HIDE DEF e
<1>4. n = e
  BY DEF Deaf, e, none
<1>5. QED
  BY <1>3, <1>4

\* What an action of the observer finds.
LEMMA ObserverFacts ==
  ASSUME HostIInv
  PROVE  /\ HostTyped /\ Inhibited /\ Gated
         /\ logind \in Machines /\ logind.signals \in Seq(BOOLEAN) /\ obs \in Observers
         /\ obs.inhibitor \in BOOLEAN /\ obs.deadline \in BOOLEAN
         /\ sleep \in Snapshots /\ sleep.epoch \in Nat /\ sleep.epoch >= sleep.epoch
         /\ sleep.preparing \in BOOLEAN /\ acks \in Seq(Nat) /\ excused \in BOOLEAN
         /\ left \in [sleeps : Nat, locks : Nat, faults : Nat]
         /\ \A i \in DOMAIN acks : \E j \in DOMAIN acks : acks[i] = acks[j]
         /\ logind.phase = "preparing" /\ ~obs.inhibitor /\ ~excused =>
              Settles(rt) /\ Blocked(sleep)
         /\ TRUE \in BOOLEAN /\ FALSE \in BOOLEAN
<1>1. HostTyped /\ Inhibited /\ Gated
  BY DEF HostIInv, HostInv
<1>2. /\ logind \in Machines /\ obs \in Observers /\ sleep \in Snapshots /\ acks \in Seq(Nat)
      /\ excused \in BOOLEAN /\ left \in [sleeps : Nat, locks : Nat, faults : Nat]
  BY <1>1 DEF HostTyped
<1>3. /\ logind.signals \in Seq(BOOLEAN) /\ obs.inhibitor \in BOOLEAN /\ obs.deadline \in BOOLEAN
      /\ sleep.epoch \in Nat /\ sleep.preparing \in BOOLEAN
  BY <1>2 DEF Machines, Observers, Snapshots
<1>4. sleep.epoch >= sleep.epoch
  BY <1>3
<1>5. /\ logind.phase = "preparing" /\ ~obs.inhibitor /\ ~excused =>
           Settles(rt) /\ Blocked(sleep)
  BY <1>1 DEF Gated
<1>6. QED
  BY <1>1, <1>2, <1>3, <1>4, <1>5

LEMMA ConnectStep ==
  ASSUME HostIInv, Connect
  PROVE  HostIInv'
<1>1. /\ logind.phase = "awake" /\ logind' = Deaf /\ UNCHANGED <<sleep, acks, excused, left>>
      /\ UNCHANGED <<lock, round, rt, io>>
      /\ obs' = [pc |-> "first", inhibitor |-> TRUE, deadline |-> FALSE,
                 sample |-> [epoch |-> sleep.epoch, value |-> FALSE]]
  BY DEF Connect, ObserverOnly
<1>2. logind' \in Machines /\ logind'.phase = logind.phase /\ logind'.sleeps = logind.sleeps
  BY <1>1, DeafFacts, ObserverFacts
<1>3. obs' \in Observers /\ Inhibited'
  <2>1. sleep.epoch \in Nat
    BY ObserverFacts
  <2>2. QED
    BY <1>1, <2>1 DEF Observers, Inhibited
<1>4. logind.phase # "asleep" /\ logind.phase # "preparing"
  BY <1>1
<1>5. QED
  BY <1>1, <1>2, <1>3, <1>4, ObserverFacts, ObserverKeeps

LEMMA FirstSampleStep ==
  ASSUME HostIInv, FirstSample
  PROVE  HostIInv'
<1>1. /\ obs.pc = "first" /\ UNCHANGED <<logind, acks, excused, left>>
      /\ UNCHANGED <<lock, round, rt, io>> /\ logind.phase # "asleep"
  BY DEF FirstSample, ObserverOnly, Running
<1>2. PICK value \in {obs.sample.value, PreparingForSleep} :
        LET fresh == sleep.epoch = obs.sample.epoch
        IN  /\ sleep' = IF fresh THEN Published(sleep, TRUE, value) ELSE sleep
            /\ obs' = [obs EXCEPT !.pc = "up", !.deadline = fresh /\ value, !.sample = NoSample]
  BY DEF FirstSample
<1>3. value \in BOOLEAN
  BY ObserverFacts DEF Observers, PreparingForSleep
<1>4. /\ sleep' \in Snapshots /\ sleep'.epoch >= sleep.epoch
      /\ sleep'.epoch = sleep.epoch /\ sleep'.preparing => sleep.preparing
  <2>1. CASE sleep.epoch = obs.sample.epoch
    <3> DEFINE yes == TRUE
    <3>1. sleep' = Published(sleep, yes, value) /\ yes \in BOOLEAN /\ sleep \in Snapshots
      BY <1>2, <2>1, ObserverFacts
    <3> HIDE DEF yes
    <3>2. QED
      BY <1>3, <3>1, PublishedFacts
  <2>2. CASE sleep.epoch # obs.sample.epoch
    <3>1. sleep' = sleep
      BY <1>2, <2>2
    <3>2. QED
      BY <3>1, ObserverFacts
  <2>3. QED
    BY <2>1, <2>2
<1>5. obs' \in Observers /\ Inhibited' /\ obs'.inhibitor
  <2> DEFINE deadline == sleep.epoch = obs.sample.epoch /\ value
             e == [obs EXCEPT !.pc = "up", !.deadline = deadline, !.sample = NoSample]
  <2>1. deadline \in BOOLEAN /\ NoSample \in [epoch : Nat, value : BOOLEAN] /\ obs' = e
    BY <1>2 DEF NoSample
  <2> HIDE DEF deadline
  <2>2. e \in Observers /\ e.pc = "up" /\ e.inhibitor = obs.inhibitor
    BY <2>1, ObserverFacts DEF Observers
  <2> HIDE DEF e
  <2>3. obs.inhibitor
    BY <1>1, ObserverFacts DEF Inhibited
  <2>4. QED
    BY <2>1, <2>2, <2>3 DEF Inhibited
<1>6. QED
  BY <1>1, <1>4, <1>5, ObserverFacts, ObserverKeeps

LEMMA LoseBusStep ==
  ASSUME HostIInv, LoseBus
  PROVE  HostIInv'
<1>1. /\ UNCHANGED <<lock, round, rt, io>> /\ UNCHANGED acks /\ logind.phase # "asleep"
      /\ obs' = Down /\ logind' = Deaf /\ sleep' = Unknown(sleep)
      /\ excused' = (logind.phase = "preparing")
  BY DEF LoseBus, ObserverOnly, Running, Excuse
<1>2. left' \in [sleeps : Nat, locks : Nat, faults : Nat]
  BY SpentTyped, ObserverFacts DEF LoseBus
<1>3. logind' \in Machines /\ logind'.phase = logind.phase /\ logind'.sleeps = logind.sleeps
  BY <1>1, DeafFacts, ObserverFacts
<1>4. /\ sleep' \in Snapshots /\ sleep'.epoch >= sleep.epoch
      /\ sleep'.epoch = sleep.epoch /\ sleep'.preparing => sleep.preparing
  BY <1>1, UnknownFacts, ObserverFacts
<1>5. obs' \in Observers /\ Inhibited'
  BY <1>1 DEF Down, NoSample, Observers, Inhibited
<1>6. excused' \in BOOLEAN /\ (logind.phase = "preparing" => excused')
  BY <1>1
<1>7. QED
  BY <1>1, <1>2, <1>3, <1>4, <1>5, <1>6, ObserverFacts, ObserverKeeps

LEMMA SampleStep ==
  ASSUME HostIInv, Sample
  PROVE  HostIInv'
<1>1. /\ UNCHANGED <<lock, round, rt, io>> /\ UNCHANGED <<logind, sleep, acks, excused, left>>
      /\ logind.phase # "asleep"
  BY DEF Sample, ObserverOnly, Running
<1>2. obs' \in Observers /\ Inhibited' /\ obs'.inhibitor = obs.inhibitor
  <2> DEFINE sample == [epoch |-> sleep.epoch, value |-> PreparingForSleep]
             e == [obs EXCEPT !.pc = "sampled", !.sample = sample]
  <2>1. sample \in [epoch : Nat, value : BOOLEAN]
    BY ObserverFacts DEF PreparingForSleep
  <2>2. obs' = e
    BY DEF Sample
  <2> HIDE DEF sample
  <2>3. e \in Observers /\ e.pc = "sampled" /\ e.inhibitor = obs.inhibitor
    BY <2>1, ObserverFacts DEF Observers
  <2> HIDE DEF e
  <2>4. QED
    BY <2>2, <2>3 DEF Inhibited
<1>3. QED
  BY <1>1, <1>2, ObserverFacts, ObserverKeeps

\* The observer back at its streams, with an inhibitor and a deadline.
LEMMA WatchingFacts ==
  ASSUME HostIInv
  PROVE  /\ Unsampled \in Observers /\ Unsampled.pc = "up"
         /\ Unsampled.inhibitor = obs.inhibitor /\ Unsampled.deadline = obs.deadline
<1>1. NoSample \in [epoch : Nat, value : BOOLEAN] /\ obs \in Observers
  BY ObserverFacts DEF NoSample
<1>2. QED
  BY <1>1 DEF Unsampled, Observers

LEMMA HearSleepStep ==
  ASSUME HostIInv, NEW rest \in Seq(BOOLEAN), HearSleep(rest), ObserverOnly,
         UNCHANGED <<acks, left>>
  PROVE  HostIInv'
<1>1. /\ UNCHANGED <<lock, round, rt, io>> /\ excused' = excused /\ logind.phase # "asleep"
  BY DEF HearSleep, ObserverOnly, Running
<1>2. logind' \in Machines /\ logind'.phase = logind.phase /\ logind'.sleeps = logind.sleeps
  <2> DEFINE e == [logind EXCEPT !.signals = rest]
  <2>1. e \in Machines /\ e.phase = logind.phase /\ e.sleeps = logind.sleeps
    BY ObserverFacts DEF Machines
  <2>2. logind' = e
    BY DEF HearSleep
  <2> HIDE DEF e
  <2>3. QED
    BY <2>1, <2>2
<1>3. obs' \in Observers /\ Inhibited' /\ obs'.inhibitor = obs.inhibitor
  <2> DEFINE deadline == obs.deadline \/ ~sleep.preparing
             e == [Unsampled EXCEPT !.deadline = deadline]
  <2>1. deadline \in BOOLEAN
    BY ObserverFacts
  <2>2. Unsampled.deadline = obs.deadline
    BY WatchingFacts
  <2>3. obs' = e
    BY <2>2 DEF HearSleep
  <2> HIDE DEF deadline
  <2>4. e \in Observers /\ e.pc = "up" /\ e.inhibitor = obs.inhibitor
    BY <2>1, WatchingFacts DEF Observers
  <2> HIDE DEF e
  <2>5. QED
    BY <2>3, <2>4 DEF Inhibited
<1>4. /\ sleep' \in Snapshots /\ sleep'.epoch >= sleep.epoch
      /\ sleep'.epoch = sleep.epoch /\ sleep'.preparing => sleep.preparing
      /\ Blocked(sleep')
  <2>1. CASE sleep.preparing
    <3>1. sleep' = sleep
      BY <2>1 DEF HearSleep
    <3>2. QED
      BY <2>1, <3>1, ObserverFacts DEF Blocked
  <2>2. CASE ~sleep.preparing
    <3> DEFINE yes == TRUE
    <3>1. sleep' = Published(sleep, obs.inhibitor, yes) /\ yes \in BOOLEAN
      BY <2>2 DEF HearSleep
    <3> HIDE DEF yes
    <3>2. /\ sleep' \in Snapshots /\ sleep'.preparing = yes /\ sleep'.epoch >= sleep.epoch
          /\ sleep'.epoch = sleep.epoch => yes = sleep.preparing
      <4>1. sleep \in Snapshots /\ obs.inhibitor \in BOOLEAN
        BY ObserverFacts
      <4>2. QED
        BY <3>1, <4>1, PublishedFacts
    <3>3. QED
      BY <3>2 DEF Blocked, yes
  <2>3. QED
    BY <2>1, <2>2
<1>5. QED
  BY <1>1, <1>2, <1>3, <1>4, ObserverFacts, ObserverKeeps

LEMMA HearAwakeStep ==
  ASSUME HostIInv, NEW rest \in Seq(BOOLEAN), HearAwake(rest), ObserverOnly,
         UNCHANGED <<acks, left>>
  PROVE  HostIInv'
<1>1. /\ UNCHANGED <<lock, round, rt, io>> /\ logind.phase # "asleep"
  BY DEF ObserverOnly, Running
<1>2. CASE /\ obs' = [Unsampled EXCEPT !.deadline = FALSE, !.inhibitor = TRUE]
           /\ sleep' = Published(sleep, TRUE, FALSE)
           /\ logind' = [logind EXCEPT !.signals = rest]
           /\ UNCHANGED excused
  <2>1. logind' \in Machines /\ logind'.phase = logind.phase /\ logind'.sleeps = logind.sleeps
    <3> DEFINE e == [logind EXCEPT !.signals = rest]
    <3>1. e \in Machines /\ e.phase = logind.phase /\ e.sleeps = logind.sleeps
      BY ObserverFacts DEF Machines
    <3>2. logind' = e
      BY <1>2
    <3> HIDE DEF e
    <3>3. QED
      BY <3>1, <3>2
  <2>2. obs' \in Observers /\ Inhibited' /\ obs'.inhibitor
    <3> DEFINE e == [Unsampled EXCEPT !.deadline = FALSE, !.inhibitor = TRUE]
    <3>1. e \in Observers /\ e.pc = "up" /\ e.inhibitor
      BY WatchingFacts DEF Observers
    <3>2. obs' = e
      BY <1>2
    <3> HIDE DEF e
    <3>3. QED
      BY <3>1, <3>2 DEF Inhibited
  <2>3. /\ sleep' \in Snapshots /\ sleep'.epoch >= sleep.epoch /\ ~sleep'.preparing
    <3> DEFINE yes == TRUE
               no == FALSE
    <3>1. sleep' = Published(sleep, yes, no) /\ yes \in BOOLEAN /\ no \in BOOLEAN
      BY <1>2
    <3> HIDE DEF yes, no
    <3>2. sleep' \in Snapshots /\ sleep'.epoch >= sleep.epoch /\ sleep'.preparing = no
      BY <3>1, PublishedFacts, ObserverFacts
    <3>3. QED
      BY <3>2 DEF no
  <2>4. QED
    BY <1>1, <1>2, <2>1, <2>2, <2>3, ObserverFacts, ObserverKeeps
<1>3. CASE obs' = Down /\ logind' = Deaf /\ sleep' = Unknown(sleep) /\ Excuse
  <2>1. excused' \in BOOLEAN /\ (logind.phase = "preparing" => excused')
    BY <1>3 DEF Excuse
  <2>2. logind' \in Machines /\ logind'.phase = logind.phase /\ logind'.sleeps = logind.sleeps
    BY <1>3, DeafFacts, ObserverFacts
  <2>3. /\ sleep' \in Snapshots /\ sleep'.epoch >= sleep.epoch
        /\ sleep'.epoch = sleep.epoch /\ sleep'.preparing => sleep.preparing
    BY <1>3, UnknownFacts, ObserverFacts
  <2>4. obs' \in Observers /\ Inhibited'
    BY <1>3 DEF Down, NoSample, Observers, Inhibited
  <2>5. QED
    BY <1>1, <2>1, <2>2, <2>3, <2>4, ObserverFacts, ObserverKeeps
<1>4. QED
  BY <1>2, <1>3 DEF HearAwake

\* A signal or a sample, whichever it says.
LEMMA HearStep ==
  ASSUME HostIInv, NEW preparing \in BOOLEAN, NEW rest \in Seq(BOOLEAN), Hear(preparing, rest),
         ObserverOnly, UNCHANGED <<acks, left>>
  PROVE  HostIInv'
BY HearSleepStep, HearAwakeStep DEF Hear

\* The parts of a sequence that is not empty.
LEMMA HeadTailFacts ==
  ASSUME NEW S, NEW s \in Seq(S), s # <<>>
  PROVE  Head(s) \in S /\ Tail(s) \in Seq(S)
OBVIOUS

LEMMA HearSignalStep ==
  ASSUME HostIInv, HearSignal
  PROVE  HostIInv'
<1>1. logind.signals \in Seq(BOOLEAN) /\ logind.signals # <<>>
  BY ObserverFacts DEF HearSignal
<1>2. Head(logind.signals) \in BOOLEAN /\ Tail(logind.signals) \in Seq(BOOLEAN)
  BY <1>1, HeadTailFacts
<1>3. QED
  BY <1>2, HearStep DEF HearSignal

LEMMA HearSampleStep ==
  ASSUME HostIInv, HearSample
  PROVE  HostIInv'
<1>1. CASE obs.sample.epoch = sleep.epoch
  <2>1. Hear(obs.sample.value, logind.signals) /\ ObserverOnly /\ UNCHANGED <<acks, left>>
    BY <1>1 DEF HearSample
  <2>2. obs.sample.value \in BOOLEAN /\ logind.signals \in Seq(BOOLEAN)
    BY ObserverFacts DEF Observers
  <2>3. QED
    BY <2>1, <2>2, HearStep
<1>2. CASE obs.sample.epoch # sleep.epoch
  <2>1. /\ obs' = Unsampled /\ UNCHANGED <<sleep, logind, excused, acks, left>>
        /\ UNCHANGED <<lock, round, rt, io>> /\ logind.phase # "asleep"
    BY <1>2 DEF HearSample, ObserverOnly, Running
  <2>2. obs' \in Observers /\ Inhibited' /\ obs'.inhibitor = obs.inhibitor
    BY <2>1, WatchingFacts DEF Inhibited
  <2>3. QED
    BY <2>1, <2>2, ObserverFacts, ObserverKeeps
<1>3. QED
  BY <1>1, <1>2

\* The inhibitor given up, by the acknowledgement or at the deadline.
Given == [obs EXCEPT !.inhibitor = FALSE, !.deadline = FALSE]

LEMMA GivenFacts ==
  ASSUME HostIInv
  PROVE  Given \in Observers /\ Given.pc = obs.pc /\ ~Given.deadline
<1>1. obs \in Observers
  BY ObserverFacts
<1>2. QED
  BY <1>1 DEF Given, Observers

LEMMA HearAckStep ==
  ASSUME HostIInv, HearAck
  PROVE  HostIInv'
<1>1. /\ acks # <<>> /\ acks' = Tail(acks) /\ UNCHANGED <<logind, sleep, excused, left>>
      /\ UNCHANGED <<lock, round, rt, io>> /\ logind.phase # "asleep"
  BY DEF HearAck, ObserverOnly, Running
<1>2. acks' \in Seq(Nat) /\ 1 \in DOMAIN acks /\ Head(acks) = acks[1]
  BY <1>1, ObserverFacts
<1>3. \A i \in DOMAIN acks' : \E j \in DOMAIN acks : acks'[i] = acks[j]
  <2>1. acks \in Seq(Nat)
    BY ObserverFacts
  <2>2. ASSUME NEW i \in DOMAIN acks'
        PROVE  i + 1 \in DOMAIN acks /\ acks'[i] = acks[i + 1]
    BY <1>1, <2>1
  <2>3. QED
    BY <2>2
<1>4. CASE Head(acks) = sleep.epoch /\ sleep.preparing /\ obs.deadline
  <2>1. obs' = Given
    BY <1>4 DEF HearAck, Given
  <2>2. obs' \in Observers /\ Inhibited'
    <3>1. obs'.pc # "first" /\ ~obs'.deadline
      BY <2>1, GivenFacts DEF HearAck
    <3>2. QED
      BY <2>1, <3>1, GivenFacts DEF Inhibited
  <2>3. Settles(rt) /\ Blocked(sleep')
    BY <1>1, <1>2, <1>4, ObserverFacts DEF Gated, Blocked
  <2>4. QED
    BY <1>1, <1>2, <1>3, <2>2, <2>3, ObserverFacts, ObserverKeeps
<1>5. CASE ~(Head(acks) = sleep.epoch /\ sleep.preparing /\ obs.deadline)
  <2>1. obs' = obs
    BY <1>5 DEF HearAck
  <2>2. Inhibited'
    BY <2>1, ObserverFacts DEF Inhibited
  <2>3. QED
    BY <1>1, <1>2, <1>3, <2>1, <2>2, ObserverFacts, ObserverKeeps
<1>6. QED
  BY <1>4, <1>5

LEMMA DeadlineStep ==
  ASSUME HostIInv, Deadline
  PROVE  HostIInv'
<1>1. /\ UNCHANGED <<lock, round, rt, io>> /\ UNCHANGED <<logind, sleep, acks, left>>
      /\ logind.phase # "asleep" /\ obs' = Given /\ obs.pc = "up"
  BY DEF Deadline, ObserverOnly, Running, Given
<1>2. excused' \in BOOLEAN /\ (logind.phase = "preparing" => excused')
  BY DEF Deadline, Excuse
<1>3. obs' \in Observers /\ Inhibited'
  BY <1>1, GivenFacts DEF Inhibited
<1>4. QED
  BY <1>1, <1>2, <1>3, ObserverFacts, ObserverKeeps

LEMMA ObserverStep ==
  ASSUME HostIInv, Observer
  PROVE  HostIInv'
BY ConnectStep, FirstSampleStep, LoseBusStep, SampleStep, HearSampleStep, HearSignalStep,
   HearAckStep, DeadlineStep DEF Observer

-----------------------------------------------------------------------------
(* The lock gate.                                                          *)

\* What the invariant says of the numbers.
LEMMA HostNumbers ==
  ASSUME HostIInv
  PROVE  /\ rt.sleepEpoch \in Nat /\ rt.lockEpoch \in Nat /\ rt.born \in Nat
         /\ rt.work.born \in Nat
         /\ sleep.epoch \in Nat /\ lock.epoch \in Nat /\ lock.locks \in Nat
         /\ io.epoch \in Nat /\ io.born \in Nat
         /\ round.slept \in Nat /\ round.epoch \in Nat /\ logind.sleeps \in Nat
         /\ \A i \in DOMAIN acks : acks[i] \in Nat
<1>1. HostTyped
  BY DEF HostIInv
<1>2. /\ rt \in Runtimes /\ sleep \in Snapshots /\ lock \in Locks /\ io \in Openings
      /\ round \in Rounds /\ logind \in Machines
  BY <1>1 DEF HostTyped
<1>3. acks \in Seq(Nat)
  BY <1>1 DEF HostTyped
<1>4. \A i \in DOMAIN acks : acks[i] \in Nat
  BY <1>3
<1>5. rt.sleepEpoch \in Nat /\ rt.lockEpoch \in Nat /\ rt.born \in Nat /\ rt.work.born \in Nat
  BY <1>2 DEF Runtimes, Works
<1>6. /\ sleep.epoch \in Nat /\ lock.epoch \in Nat /\ lock.locks \in Nat
      /\ io.epoch \in Nat /\ io.born \in Nat
      /\ round.slept \in Nat /\ round.epoch \in Nat /\ logind.sleeps \in Nat
  BY <1>2 DEF Snapshots, Locks, Openings, Rounds, Machines
<1>7. QED
  BY <1>4, <1>5, <1>6

\* The gate alone moves: a lock that the runtime has not seen has a new epoch.
LEMMA LockKeeps ==
  ASSUME HostIInv, UNCHANGED <<logind, obs, sleep, acks, round, rt, io, excused>>,
         lock' \in Locks, left' \in [sleeps : Nat, locks : Nat, faults : Nat],
         lock'.epoch >= lock.epoch, lock'.epoch = lock.epoch => lock'.locks = lock.locks
  PROVE  HostIInv'
<1>0. HostTyped /\ Dated /\ Inhibited /\ Gated /\ Recent /\ Guarded
  BY DEF HostIInv, HostInv
<1>1. HostTyped'
  BY <1>0 DEF HostTyped
<1>2. lock'.epoch \in Nat /\ lock.epoch \in Nat /\ rt.lockEpoch \in Nat
  BY HostNumbers DEF Locks
<1>3. rt.lockEpoch <= lock'.epoch /\ (rt.lockEpoch = lock'.epoch => lock'.epoch = lock.epoch)
  BY <1>0, <1>2 DEF Dated
<1>4. Dated'
  BY <1>0, <1>3 DEF Dated
<1>5. Inhibited' /\ Gated' /\ Recent'
  BY <1>0 DEF Inhibited, Gated, Settles, Blocked, Recent
<1>6. Guarded'
  BY <1>0, <1>3 DEF Guarded
<1>7. QED
  BY <1>1, <1>4, <1>5, <1>6 DEF HostIInv, HostInv

\* What the gate looks at is not what it publishes.
LEMMA ObservedFacts ==
  ASSUME HostTyped, NEW open \in BOOLEAN, NEW l, l = [lock EXCEPT !.open = open]
  PROVE  l \in Locks /\ l.epoch = lock.epoch /\ l.locks = lock.locks
<1> DEFINE e == [lock EXCEPT !.open = open]
<1>1. e \in Locks /\ e.epoch = lock.epoch /\ e.locks = lock.locks
  BY DEF HostTyped, Locks
<1> HIDE DEF e
<1>2. l = e
  BY DEF e
<1>3. QED
  BY <1>1, <1>2

LEMMA LockGateStep ==
  ASSUME HostIInv, LockGate
  PROVE  HostIInv'
<1>0. HostTyped /\ TRUE \in BOOLEAN /\ FALSE \in BOOLEAN
  BY DEF HostIInv
<1>1. UNCHANGED <<logind, obs, sleep, acks, round, rt, io, excused>>
  BY DEF LockGate, ObserveUnlocked, ObserveLocked, LockAges, LockOnly
<1>2. left' \in [sleeps : Nat, locks : Nat, faults : Nat]
  <2>1. left' = left \/ Spend("locks")
    BY DEF LockGate, ObserveUnlocked, ObserveLocked, LockAges
  <2>2. QED
    BY <1>0, <2>1, SpentTyped DEF HostTyped
<1>3. PICK open \in BOOLEAN : \/ lock' = Refreshed([lock EXCEPT !.open = open])
                              \/ lock' = [lock EXCEPT !.open = open]
  BY <1>0 DEF LockGate, ObserveUnlocked, ObserveLocked, LockAges
<1> DEFINE l == [lock EXCEPT !.open = open]
<1>4. l \in Locks /\ l.epoch = lock.epoch /\ l.locks = lock.locks
  <2>1. \E m : m = l
    OBVIOUS
  <2>2. PICK m : m = l
    BY <2>1
  <2>3. m \in Locks /\ m.epoch = lock.epoch /\ m.locks = lock.locks
    BY <1>0, <2>2, ObservedFacts
  <2> HIDE DEF l
  <2>4. QED
    BY <2>2, <2>3
<1>5. lock' = Refreshed(l) \/ lock' = l
  BY <1>3
<1> HIDE DEF l
<1>6. /\ lock' \in Locks /\ lock'.epoch >= lock.epoch
      /\ lock'.epoch = lock.epoch => lock'.locks = lock.locks
  <2>1. CASE lock' = Refreshed(l)
    BY <1>4, <2>1, RefreshedFacts
  <2>2. CASE lock' = l
    BY <1>4, <2>2, HostNumbers
  <2>3. QED
    BY <1>5, <2>1, <2>2
<1>7. QED
  BY <1>1, <1>2, <1>6, LockKeeps

-----------------------------------------------------------------------------
(* The turns of the coordinator.                                           *)

\* The snapshot the coordinator reads: after a sleep it has a new epoch, and
\* blocks.
LEMMA AfterSleepFacts ==
  ASSUME HostIInv, NEW s, s = AfterSleep(sleep)
  PROVE  /\ s \in Snapshots /\ s.epoch >= sleep.epoch /\ s.preparing = sleep.preparing
         /\ Blocked(sleep) => Blocked(s)
         /\ round.slept # logind.sleeps => s.epoch > sleep.epoch /\ Blocked(s)
<1>1. sleep \in Snapshots /\ sleep.epoch \in Nat
  BY ObserverFacts
<1>2. CASE round.slept = logind.sleeps
  <2>1. s = sleep
    BY <1>2 DEF AfterSleep
  <2>2. QED
    BY <1>1, <1>2, <2>1
<1>3. CASE round.slept # logind.sleeps
  <2> DEFINE epoch == sleep.epoch + 1
             t == [sleep EXCEPT !.epoch = epoch]
  <2>1. epoch \in Nat
    BY <1>1
  <2> HIDE DEF epoch
  <2>2. t \in Snapshots /\ t.epoch = epoch /\ t.preparing = sleep.preparing
    BY <1>1, <2>1 DEF Snapshots
  <2>3. s = Unknown(t)
    BY <1>3 DEF AfterSleep, epoch
  <2> HIDE DEF t
  <2>4. s \in Snapshots /\ s.preparing = t.preparing /\ s.epoch >= t.epoch /\ Blocked(s)
    BY <2>2, <2>3, UnknownFacts
  <2>5. s.epoch \in Nat
    BY <2>4 DEF Snapshots
  <2>6. QED
    BY <1>1, <2>2, <2>4, <2>5 DEF epoch
<1>4. QED
  BY <1>2, <1>3

LEMMA TurnReadStep ==
  ASSUME HostIInv, TurnRead
  PROVE  HostIInv'
<1>0. HostTyped /\ Dated /\ Inhibited /\ Gated /\ Recent /\ Guarded
  BY DEF HostIInv, HostInv
<1>1. /\ lock' = Refreshed(lock) /\ UNCHANGED <<logind, obs, acks, io, excused>>
      /\ round' = [at |-> "act", locks |-> lock'.locks, slept |-> logind.sleeps,
                   epoch |-> sleep'.epoch, preparing |-> sleep'.preparing]
      /\ rt' = HostSleep(HostLock(rt, lock'.locked, lock'.epoch), Blocked(sleep'), sleep'.epoch)
      /\ logind.phase # "asleep"
  BY DEF TurnRead, Running
<1>2. /\ sleep' \in Snapshots /\ sleep'.epoch >= sleep.epoch /\ sleep'.preparing = sleep.preparing
      /\ Blocked(sleep) => Blocked(sleep')
      /\ round.slept # logind.sleeps => sleep'.epoch > sleep.epoch /\ Blocked(sleep')
      /\ left' \in [sleeps : Nat, locks : Nat, faults : Nat]
  <2> DEFINE s == AfterSleep(sleep)
  <2>1. /\ s \in Snapshots /\ s.epoch >= sleep.epoch /\ s.preparing = sleep.preparing
        /\ Blocked(sleep) => Blocked(s)
        /\ round.slept # logind.sleeps => s.epoch > sleep.epoch /\ Blocked(s)
    BY AfterSleepFacts
  <2>2. \/ sleep' = s /\ left' = left
        \/ sleep' = Unknown(s) /\ Spend("faults")
    BY DEF TurnRead
  <2> HIDE DEF s
  <2>3. CASE sleep' = s /\ left' = left
    BY <1>0, <2>1, <2>3 DEF HostTyped
  <2>4. CASE sleep' = Unknown(s) /\ Spend("faults")
    <3>1. /\ sleep' \in Snapshots /\ sleep'.preparing = s.preparing /\ sleep'.epoch >= s.epoch
          /\ Blocked(sleep')
      BY <2>1, <2>4, UnknownFacts
    <3>2. s.epoch \in Nat /\ sleep'.epoch \in Nat /\ sleep.epoch \in Nat
      BY <2>1, <3>1, HostNumbers DEF Snapshots
    <3>3. left' \in [sleeps : Nat, locks : Nat, faults : Nat]
      BY <1>0, <2>4, SpentTyped
    <3>4. /\ sleep'.epoch >= sleep.epoch
          /\ s.epoch > sleep.epoch => sleep'.epoch > sleep.epoch
      BY <2>1, <3>1, <3>2
    <3>5. QED
      BY <2>1, <3>1, <3>3, <3>4
  <2>5. QED
    BY <2>2, <2>3, <2>4
<1>3. /\ lock' \in Locks /\ lock'.epoch >= lock.epoch
      /\ lock'.epoch = lock.epoch => lock'.locks = lock.locks
  BY <1>0, <1>1, RefreshedFacts DEF HostTyped
<1>4. /\ lock'.locked \in BOOLEAN /\ lock'.epoch \in Nat /\ lock'.locks \in Nat
      /\ sleep'.epoch \in Nat /\ sleep'.preparing \in BOOLEAN /\ Blocked(sleep') \in BOOLEAN
  BY <1>2, <1>3 DEF Locks, Snapshots, Blocked
<1> DEFINE r == HostLock(rt, lock'.locked, lock'.epoch)
<1>5. /\ r \in Runtimes /\ r.lockEpoch = lock'.epoch
      /\ r.hostSleeping = rt.hostSleeping /\ r.sleepEpoch = rt.sleepEpoch
      /\ r.up = rt.up /\ r.born = rt.born
      /\ r.work.state = "held" => r.work = rt.work /\ rt.lockEpoch = lock'.epoch
      /\ Settles(rt) => Settles(r)
  <2>1. rt \in Runtimes
    BY <1>0 DEF HostTyped
  <2> DEFINE locked == lock'.locked
             epoch == lock'.epoch
  <2>2. locked \in BOOLEAN /\ epoch \in Nat /\ r = HostLock(rt, locked, epoch)
    BY <1>4
  <2> HIDE DEF r, locked, epoch
  <2>3. /\ r \in Runtimes /\ r.lockEpoch = epoch
        /\ r.hostSleeping = rt.hostSleeping /\ r.sleepEpoch = rt.sleepEpoch
        /\ r.up = rt.up /\ r.born = rt.born
        /\ r.work.state = "held" => r.work = rt.work /\ rt.lockEpoch = epoch
        /\ Settles(rt) => Settles(r)
    BY <2>1, <2>2, HostLockFacts
  <2>4. QED
    BY <2>3 DEF epoch
<1>6. rt' = HostSleep(r, Blocked(sleep'), sleep'.epoch)
  BY <1>1
<1> HIDE DEF r
<1>7. /\ rt' \in Runtimes /\ rt'.sleepEpoch = sleep'.epoch /\ rt'.hostSleeping = Blocked(sleep')
      /\ rt'.lockEpoch = lock'.epoch
      /\ Blocked(sleep') => ~rt'.up
      /\ rt'.up => rt.up /\ rt'.born = rt.born
      /\ rt'.work.state = "held" =>
           rt'.work = rt.work /\ rt.lockEpoch = lock'.epoch /\ rt.sleepEpoch = sleep'.epoch
      /\ Settles(rt) /\ Blocked(sleep') => Settles(rt')
  <2>1. r.hostSleeping => ~r.up
    BY <1>0, <1>5 DEF Gated
  <2>2. /\ rt' \in Runtimes /\ rt'.sleepEpoch = sleep'.epoch /\ rt'.hostSleeping = Blocked(sleep')
        /\ rt'.lockEpoch = r.lockEpoch
        /\ Blocked(sleep') => ~rt'.up
        /\ rt'.up => r.up /\ rt'.born = r.born
        /\ rt'.work.state = "held" => rt'.work = r.work /\ r.sleepEpoch = sleep'.epoch
        /\ Settles(r) /\ Blocked(sleep') => Settles(rt')
    BY <1>4, <1>5, <1>6, <2>1, HostSleepFacts
  <2>3. QED
    BY <1>5, <2>2
<1>8. /\ round'.at = "act" /\ round'.slept = logind.sleeps /\ round'.epoch = sleep'.epoch
      /\ round'.locks = lock'.locks
  BY <1>1
<1>9. HostTyped'
  <2>1. round' \in Rounds
    BY <1>1, <1>4, HostNumbers DEF Rounds
  <2>2. QED
    BY <1>0, <1>1, <1>2, <1>3, <1>7, <2>1 DEF HostTyped
<1>10. Dated'
  <2>1. rt'.sleepEpoch <= sleep'.epoch /\ rt'.lockEpoch <= lock'.epoch
    BY <1>4, <1>7
  <2>2. io'.epoch <= sleep'.epoch
    BY <1>0, <1>1, <1>2, <1>4, HostNumbers DEF Dated
  <2>3. round'.slept <= logind'.sleeps
    BY <1>1, <1>8, HostNumbers
  <2>4. \A i \in DOMAIN acks' : acks'[i] <= sleep'.epoch
    BY <1>0, <1>1, <1>2, <1>4, HostNumbers DEF Dated
  <2>5. QED
    BY <1>7, <1>8, <2>1, <2>2, <2>3, <2>4 DEF Dated
<1>11. Inhibited'
  BY <1>0, <1>1 DEF Inhibited
<1>12. Gated'
  <2>1. ASSUME NEW i \in DOMAIN acks', acks'[i] = sleep'.epoch, sleep'.preparing
        PROVE  Settles(rt')
    <3>1. acks[i] \in Nat /\ acks[i] <= sleep.epoch /\ acks[i] = sleep'.epoch
      BY <1>0, <1>1, <2>1, HostNumbers DEF Dated
    <3>2. acks[i] = sleep.epoch
      BY <1>2, <1>4, <3>1, HostNumbers
    <3>3. Settles(rt)
      BY <1>0, <1>1, <1>2, <2>1, <3>2 DEF Gated
    <3>4. QED
      BY <1>7, <2>1, <3>3 DEF Blocked
  <2>2. logind.phase = "preparing" /\ ~obs.inhibitor /\ ~excused => Settles(rt') /\ Blocked(sleep')
    BY <1>0, <1>2, <1>7 DEF Gated
  <2>3. Settles(rt)' <=> Settles(rt')
    BY DEF Settles
  <2>4. Blocked(sleep)' <=> Blocked(sleep')
    BY DEF Blocked
  <2>5. rt'.hostSleeping => ~rt'.up
    BY <1>7
  <2>6. QED
    BY <1>1, <2>1, <2>2, <2>3, <2>4, <2>5 DEF Gated
<1>13. Recent'
  <2>1. rt'.up => rt'.born >= round'.slept
    BY <1>0, <1>2, <1>7, <1>8 DEF Recent
  <2>2. rt'.work.state = "held" => rt'.work.born >= round'.slept
    <3>1. SUFFICES ASSUME rt'.work.state = "held"
                   PROVE  rt'.work.born >= round'.slept
      OBVIOUS
    <3>2. rt'.work = rt.work /\ rt.sleepEpoch = sleep'.epoch /\ rt.work.born >= round.slept
      BY <1>0, <1>7, <3>1 DEF Recent
    <3>3. ~(sleep'.epoch > sleep.epoch)
      BY <1>0, <1>4, <3>2, HostNumbers DEF Dated
    <3>4. QED
      BY <1>2, <1>8, <3>2, <3>3
  <2>3. io.state # "none" => io.born >= logind.sleeps \/ io.epoch < sleep'.epoch
    BY <1>0, <1>2, <1>4, HostNumbers DEF Recent, Dated
  <2>4. QED
    BY <1>1, <1>7, <1>8, <2>1, <2>2, <2>3 DEF Recent
<1>14. Guarded'
  <2>1. rt'.work.state = "held" => rt'.work.locks = lock'.locks
    <3>1. SUFFICES ASSUME rt'.work.state = "held"
                   PROVE  rt'.work.locks = lock'.locks
      OBVIOUS
    <3>2. rt'.work = rt.work /\ rt.lockEpoch = lock'.epoch
      BY <1>7, <3>1
    <3>3. lock'.epoch = lock.epoch
      BY <1>0, <1>3, <1>4, <3>2, HostNumbers DEF Dated
    <3>4. QED
      BY <1>0, <1>3, <3>1, <3>2, <3>3 DEF Guarded
  <2>2. QED
    BY <1>7, <1>8, <2>1 DEF Guarded
<1>15. QED
  BY <1>9, <1>10, <1>11, <1>12, <1>13, <1>14 DEF HostIInv, HostInv

\* What a turn acknowledges, the runtime has settled for.
LEMMA AcknowledgeFacts ==
  ASSUME HostIInv, Acknowledge
  PROVE  /\ sleep' \in Snapshots /\ acks' \in Seq(Nat) /\ sleep'.epoch = sleep.epoch
         /\ sleep'.preparing = sleep.preparing /\ sleep'.available = sleep.available
         /\ \A i \in DOMAIN acks' :
              \/ \E j \in DOMAIN acks : acks'[i] = acks[j]
              \/ acks'[i] = round.epoch /\ SleepReady
<1>1. sleep \in Snapshots /\ acks \in Seq(Nat) /\ round.epoch \in Nat
  BY ObserverFacts, HostNumbers
<1>2. CASE UNCHANGED <<acks, sleep>>
  BY <1>1, <1>2
<1>3. CASE /\ SleepReady /\ acks' = Append(acks, round.epoch)
           /\ sleep' = [sleep EXCEPT !.queued = round.epoch]
  <2> DEFINE epoch == round.epoch
             s == [sleep EXCEPT !.queued = epoch]
  <2>1. epoch \in Nat
    BY <1>1
  <2> HIDE DEF epoch
  <2>2. /\ s \in Snapshots /\ s.epoch = sleep.epoch /\ s.preparing = sleep.preparing
        /\ s.available = sleep.available
    BY <1>1, <2>1 DEF Snapshots
  <2>3. sleep' = s /\ acks' = Append(acks, epoch)
    BY <1>3 DEF epoch
  <2> HIDE DEF s
  <2>4. acks' \in Seq(Nat)
    BY <1>1, <2>1, <2>3
  <2>5. ASSUME NEW i \in DOMAIN acks'
        PROVE  \/ \E j \in DOMAIN acks : acks'[i] = acks[j]
               \/ acks'[i] = epoch
    <3>1. (i \in DOMAIN acks /\ acks'[i] = acks[i]) \/ acks'[i] = epoch
      BY <1>1, <2>1, <2>3
    <3>2. QED
      BY <3>1
  <2>6. QED
    BY <1>3, <2>2, <2>3, <2>4, <2>5 DEF epoch
<1>4. QED
  BY <1>2, <1>3 DEF Acknowledge, MayAck

\* What a turn makes of the runtime: a device it attaches is of the epoch that
\* the runtime knows, and so is the work a press begins.
LEMMA ActedFacts ==
  ASSUME HostIInv, round.at = "act",
         \/ rt' = Attached
         \/ /\ rt.up /\ Closed(rt) = <<FALSE, FALSE>> /\ rt.work = NoWork
            /\ rt' = Pressed(rt)
  PROVE  /\ rt' \in Runtimes /\ rt'.sleepEpoch = rt.sleepEpoch /\ rt'.lockEpoch = rt.lockEpoch
         /\ rt'.hostSleeping = rt.hostSleeping
         /\ rt.hostSleeping => rt' = rt
         /\ rt'.up => rt'.born >= round.slept
         /\ rt'.work.state = "held" =>
              /\ rt'.work.born >= round.slept
              /\ rt'.work.locks = round.locks
<1>0. HostTyped /\ Dated /\ Gated /\ Recent /\ Guarded
  BY DEF HostIInv, HostInv
<1>1. rt \in Runtimes /\ round \in Rounds
  BY <1>0 DEF HostTyped
<1>2. CASE rt' = rt
  BY <1>0, <1>1, <1>2 DEF Recent, Guarded
<1>3. CASE /\ io.state = "opened" /\ Timely /\ ReadyToAttach
           /\ rt' = Ended([rt EXCEPT !.up = TRUE, !.born = io.born])
  <2> DEFINE yes == TRUE
             born == io.born
             n == [rt EXCEPT !.up = yes, !.born = born]
  <2>1. yes \in BOOLEAN /\ born \in Nat
    BY HostNumbers
  <2>2. rt' = Ended(n)
    BY <1>3
  <2> HIDE DEF yes, born
  <2>3. /\ n \in Runtimes /\ n.born = born
        /\ n.sleepEpoch = rt.sleepEpoch /\ n.lockEpoch = rt.lockEpoch
        /\ n.hostSleeping = rt.hostSleeping
    BY <1>1, <2>1 DEF Runtimes
  <2> HIDE DEF n
  <2>4. /\ rt' \in Runtimes /\ rt'.work.state # "held" /\ rt'.born = born
        /\ rt'.sleepEpoch = rt.sleepEpoch /\ rt'.lockEpoch = rt.lockEpoch
        /\ rt'.hostSleeping = rt.hostSleeping
    BY <2>2, <2>3, EndedFacts
  <2>5. io.epoch = rt.sleepEpoch
    BY <1>0, <1>3 DEF Dated, Timely
  <2>6. born >= round.slept
    BY <1>0, <1>3, <2>5, HostNumbers DEF Recent, born
  <2>7. ~rt.hostSleeping
    BY <1>3 DEF ReadyToAttach
  <2>8. QED
    BY <2>4, <2>6, <2>7
<1>4. CASE /\ rt.up /\ rt' = Pressed(rt)
  <2> DEFINE work == [state |-> "held", born |-> rt.born, locks |-> round.locks]
             n == [rt EXCEPT !.work = work]
  <2>1. work \in Works
    <3>1. rt.born \in Nat /\ round.locks \in Nat
      BY <1>1 DEF Runtimes, Rounds
    <3>2. QED
      BY <3>1 DEF Works
  <2>2. work.born = rt.born /\ work.locks = round.locks
    OBVIOUS
  <2>3. rt' = n
    BY <1>4 DEF Pressed
  <2> HIDE DEF work
  <2>4. /\ n \in Runtimes /\ n.work = work /\ n.up = rt.up /\ n.born = rt.born
        /\ n.sleepEpoch = rt.sleepEpoch /\ n.lockEpoch = rt.lockEpoch
        /\ n.hostSleeping = rt.hostSleeping
    BY <1>1, <2>1 DEF Runtimes
  <2> HIDE DEF n
  <2>5. ~rt.hostSleeping /\ rt.born >= round.slept
    BY <1>0, <1>4 DEF Gated, Recent
  <2>6. QED
    BY <2>2, <2>3, <2>4, <2>5
<1>5. QED
  BY <1>2, <1>3, <1>4 DEF Attached

\* What a turn makes of the hardware thread: an opening is of the last turn.
LEMMA OpeningFacts ==
  ASSUME HostIInv, round.at = "act", io' = NextOpening
  PROVE  /\ io' \in Openings /\ io'.epoch <= sleep.epoch
         /\ io'.state # "none" => io'.born >= round.slept \/ io'.epoch < rt.sleepEpoch
<1>0. HostTyped /\ Dated /\ Recent
  BY DEF HostIInv, HostInv
<1>1. CASE io' = NoOpening
  BY <1>1, HostNumbers DEF NoOpening, Openings
<1>2. CASE io' = [state |-> "opening", epoch |-> round.epoch, born |-> logind.sleeps]
  <2>1. io'.epoch = rt.sleepEpoch /\ io'.born = logind.sleeps
    BY <1>0, <1>2 DEF Dated
  <2>2. io' \in Openings
    BY <1>2, HostNumbers DEF Openings
  <2>3. io'.epoch <= sleep.epoch /\ io'.born >= round.slept
    BY <1>0, <2>1, HostNumbers DEF Dated
  <2>4. QED
    BY <2>2, <2>3
<1>3. CASE io' = io
  BY <1>0, <1>3 DEF HostTyped, Dated, Recent
<1>4. QED
  BY <1>1, <1>2, <1>3 DEF NextOpening

LEMMA TurnActStep ==
  ASSUME HostIInv, TurnAct
  PROVE  HostIInv'
<1>0. HostTyped /\ Dated /\ Inhibited /\ Gated /\ Recent /\ Guarded
  BY DEF HostIInv, HostInv
<1>1. /\ round.at = "act" /\ round' = [NoRound EXCEPT !.slept = round.slept]
      /\ Acknowledge /\ io' = NextOpening /\ UNCHANGED <<logind, obs, lock, excused, left>>
      /\ logind.phase # "asleep"
  BY DEF TurnAct, Running
<1>2. /\ rt' \in Runtimes /\ rt'.sleepEpoch = rt.sleepEpoch /\ rt'.lockEpoch = rt.lockEpoch
      /\ rt'.hostSleeping = rt.hostSleeping
      /\ rt.hostSleeping => rt' = rt
      /\ rt'.up => rt'.born >= round.slept
      /\ rt'.work.state = "held" =>
           /\ rt'.work.born >= round.slept
           /\ rt'.work.locks = round.locks
  BY <1>1, ActedFacts DEF TurnAct
<1>3. /\ sleep' \in Snapshots /\ acks' \in Seq(Nat) /\ sleep'.epoch = sleep.epoch
      /\ sleep'.preparing = sleep.preparing /\ sleep'.available = sleep.available
      /\ \A i \in DOMAIN acks' :
           \/ \E j \in DOMAIN acks : acks'[i] = acks[j]
           \/ acks'[i] = round.epoch /\ SleepReady
  BY <1>1, AcknowledgeFacts
<1>4. /\ io' \in Openings /\ io'.epoch <= sleep.epoch
      /\ io'.state # "none" => io'.born >= round.slept \/ io'.epoch < rt.sleepEpoch
  BY <1>1, OpeningFacts
<1>5. round' \in Rounds /\ round'.at = "read" /\ round'.slept = round.slept
  <2>1. round.slept \in Nat
    BY HostNumbers
  <2>2. QED
    BY <1>1, <2>1 DEF NoRound, Rounds
<1>6. HostTyped'
  BY <1>0, <1>1, <1>2, <1>3, <1>4, <1>5 DEF HostTyped
<1>7. Settles(rt) => rt' = rt
  BY <1>2 DEF Settles
<1>8. ASSUME NEW i \in DOMAIN acks'
      PROVE  /\ acks'[i] <= sleep.epoch
             /\ acks'[i] = sleep.epoch /\ sleep.preparing => Settles(rt)
  <2>1. CASE \E j \in DOMAIN acks : acks'[i] = acks[j]
    BY <1>0, <2>1 DEF Dated, Gated
  <2>2. CASE acks'[i] = round.epoch /\ SleepReady
    <3>1. acks'[i] <= sleep.epoch
      BY <1>0, <1>1, <2>2 DEF Dated
    <3>2. Settles(rt)
      BY <1>0, <2>2 DEF Gated, SleepReady, Settles
    <3>3. QED
      BY <3>1, <3>2
  <2>3. QED
    BY <1>3, <2>1, <2>2
<1>9. Dated'
  BY <1>0, <1>1, <1>2, <1>3, <1>4, <1>5, <1>8 DEF Dated
<1>10. Inhibited'
  BY <1>0, <1>1 DEF Inhibited
<1>11. Gated'
  <2>1. Settles(rt) => Settles(rt)'
    BY <1>7 DEF Settles
  <2>2. Blocked(sleep) => Blocked(sleep)'
    BY <1>3 DEF Blocked
  <2>3. rt'.hostSleeping => ~rt'.up
    BY <1>0, <1>2 DEF Gated
  <2>4. QED
    BY <1>0, <1>1, <1>3, <1>8, <2>1, <2>2, <2>3 DEF Gated
<1>12. Recent'
  BY <1>2, <1>4, <1>5 DEF Recent
<1>13. Guarded'
  BY <1>0, <1>1, <1>2, <1>5 DEF Guarded
<1>14. QED
  BY <1>6, <1>9, <1>10, <1>11, <1>12, <1>13 DEF HostIInv, HostInv

-----------------------------------------------------------------------------
(* What takes its time, and the theorems.                                  *)

\* The runtime and the hardware thread move between two turns, and begin
\* nothing.
LEMMA AsideKeeps ==
  ASSUME HostIInv, Aside, rt' \in Runtimes, io' \in Openings,
         left' \in [sleeps : Nat, locks : Nat, faults : Nat],
         rt'.hostSleeping = rt.hostSleeping, rt'.sleepEpoch = rt.sleepEpoch,
         rt'.lockEpoch = rt.lockEpoch, rt'.up = rt.up, rt'.born = rt.born,
         rt'.work.state = "held" => rt'.work = rt.work,
         Settles(rt) => Settles(rt'),
         io'.epoch = io.epoch, io'.born = io.born, io'.state # "none" => io.state # "none"
  PROVE  HostIInv'
<1>0. HostTyped /\ Dated /\ Inhibited /\ Gated /\ Recent /\ Guarded
  BY DEF HostIInv, HostInv
<1>1. UNCHANGED <<logind, obs, sleep, acks, lock, round, excused>>
  BY DEF Aside
<1>2. HostTyped'
  BY <1>0, <1>1 DEF HostTyped
<1>3. Dated' /\ Inhibited'
  BY <1>0, <1>1 DEF Dated, Inhibited
<1>4. Gated'
  <2>1. Settles(rt) => Settles(rt)'
    BY DEF Settles
  <2>2. Blocked(sleep) => Blocked(sleep)'
    BY <1>1 DEF Blocked
  <2>3. QED
    BY <1>0, <1>1, <2>1, <2>2 DEF Gated
<1>5. Recent'
  BY <1>0, <1>1 DEF Recent
<1>6. Guarded'
  BY <1>0, <1>1 DEF Guarded
<1>7. QED
  BY <1>2, <1>3, <1>4, <1>5, <1>6 DEF HostIInv, HostInv

\* A release, and what an owner or a retry leaves behind.
LEMMA AsideStep ==
  ASSUME HostIInv, Release \/ Slow
  PROVE  HostIInv'
<1>0. HostTyped /\ rt \in Runtimes /\ io \in Openings /\ TRUE \in BOOLEAN /\ FALSE \in BOOLEAN
      /\ left \in [sleeps : Nat, locks : Nat, faults : Nat]
  BY DEF HostIInv, HostTyped
<1>1. CASE Release
  <2>1. rt' = Ended(rt) /\ Aside /\ UNCHANGED <<io, left>>
    BY <1>1 DEF Release
  <2>2. /\ rt' \in Runtimes /\ rt'.work.state # "held"
        /\ rt'.hostSleeping = rt.hostSleeping /\ rt'.sleepEpoch = rt.sleepEpoch
        /\ rt'.lockEpoch = rt.lockEpoch /\ rt'.up = rt.up /\ rt'.born = rt.born
        /\ rt.work = NoWork => rt' = rt
    BY <1>0, <2>1, EndedFacts
  <2>3. Settles(rt) => Settles(rt')
    BY <2>2 DEF Settles
  <2>4. QED
    BY <1>0, <2>1, <2>2, <2>3, AsideKeeps
<1>2. CASE Settle
  <2> DEFINE none == NoWork
             n == [rt EXCEPT !.work = none]
  <2>1. none \in Works /\ none.state # "held" /\ rt' = n
    BY <1>2 DEF NoWork, Works, Settle
  <2> HIDE DEF none
  <2>2. /\ n \in Runtimes /\ n.work = none
        /\ n.hostSleeping = rt.hostSleeping /\ n.sleepEpoch = rt.sleepEpoch
        /\ n.lockEpoch = rt.lockEpoch /\ n.up = rt.up /\ n.born = rt.born
        /\ n.retiring = rt.retiring
    BY <1>0, <2>1 DEF Runtimes
  <2> HIDE DEF n
  <2>3. Settles(rt) => Settles(rt')
    BY <2>1, <2>2 DEF Settles, none
  <2>4. Aside /\ UNCHANGED <<io, left>>
    BY <1>2 DEF Settle
  <2>5. QED
    BY <1>0, <2>1, <2>2, <2>3, <2>4, AsideKeeps
<1>3. CASE Retire
  <2> DEFINE no == FALSE
  <2>1. /\ Aside /\ io' = io /\ rt.retiring
        /\ left' \in [sleeps : Nat, locks : Nat, faults : Nat]
    BY <1>0, <1>3, SpentTyped DEF Retire
  <2>2. PICK failed \in BOOLEAN : rt' = [rt EXCEPT !.retiring = no, !.failed = failed]
    <3>1. CASE rt' = [rt EXCEPT !.retiring = FALSE]
      <4>1. rt.failed \in BOOLEAN
        BY <1>0 DEF Runtimes
      <4>2. [rt EXCEPT !.retiring = FALSE] = [rt EXCEPT !.retiring = FALSE, !.failed = rt.failed]
        BY <1>0 DEF Runtimes
      <4>3. QED
        BY <3>1, <4>1, <4>2
    <3>2. CASE rt' = [rt EXCEPT !.retiring = FALSE, !.failed = TRUE]
      BY <3>2
    <3>3. QED
      BY <1>3, <3>1, <3>2 DEF Retire
  <2> DEFINE n == [rt EXCEPT !.retiring = no, !.failed = failed]
  <2>3. no \in BOOLEAN /\ rt' = n
    BY <2>2
  <2> HIDE DEF no
  <2>4. /\ n \in Runtimes /\ n.work = rt.work
        /\ n.hostSleeping = rt.hostSleeping /\ n.sleepEpoch = rt.sleepEpoch
        /\ n.lockEpoch = rt.lockEpoch /\ n.up = rt.up /\ n.born = rt.born
    BY <1>0, <2>3 DEF Runtimes
  <2> HIDE DEF n
  <2>5. ~Settles(rt)
    BY <2>1 DEF Settles
  <2>6. QED
    BY <1>0, <2>1, <2>3, <2>4, <2>5, AsideKeeps
<1>4. CASE Reopen
  <2> DEFINE no == FALSE
             n == [rt EXCEPT !.reopening = no]
  <2>1. no \in BOOLEAN /\ rt' = n
    BY <1>4 DEF Reopen
  <2> HIDE DEF no
  <2>2. /\ n \in Runtimes /\ n.work = rt.work
        /\ n.hostSleeping = rt.hostSleeping /\ n.sleepEpoch = rt.sleepEpoch
        /\ n.lockEpoch = rt.lockEpoch /\ n.up = rt.up /\ n.born = rt.born
        /\ n.retiring = rt.retiring
    BY <1>0, <2>1 DEF Runtimes
  <2> HIDE DEF n
  <2>3. Settles(rt) => Settles(rt')
    BY <2>1, <2>2 DEF Settles
  <2>4. Aside /\ UNCHANGED <<io, left>>
    BY <1>4 DEF Reopen
  <2>5. QED
    BY <1>0, <2>1, <2>2, <2>3, <2>4, AsideKeeps
<1>5. CASE Opened
  <2> DEFINE state == "opened"
             n == [io EXCEPT !.state = state]
  <2>1. state \in {"none", "opening", "opened"} /\ io' = n
    BY <1>5 DEF Opened
  <2> HIDE DEF state
  <2>2. n \in Openings /\ n.epoch = io.epoch /\ n.born = io.born
    BY <1>0, <2>1 DEF Openings
  <2> HIDE DEF n
  <2>3. Aside /\ UNCHANGED <<rt, left>> /\ io.state # "none"
    BY <1>5 DEF Opened
  <2>4. QED
    BY <1>0, <2>1, <2>2, <2>3, AsideKeeps
<1>6. QED
  BY <1>1, <1>2, <1>3, <1>4, <1>5 DEF Slow

LEMMA HostStart ==
  ASSUME HostInit
  PROVE  HostIInv
<1>1. HostTyped
  <2>1. NoWork \in Works
    BY DEF NoWork, Works
  <2>2. rt \in Runtimes
    BY <2>1 DEF HostInit, Runtimes
  <2>3. /\ sleep \in Snapshots /\ lock \in Locks /\ round \in Rounds /\ io \in Openings
        /\ acks \in Seq(Nat) /\ excused \in BOOLEAN
    <3>1. sleep \in Snapshots /\ lock \in Locks
      BY DEF HostInit, Snapshots, Locks
    <3>2. round \in Rounds /\ io \in Openings
      BY DEF HostInit, NoRound, Rounds, NoOpening, Openings
    <3>3. <<>> \in Seq(Nat) /\ FALSE \in BOOLEAN
      OBVIOUS
    <3>4. acks = <<>> /\ excused = FALSE
      BY DEF HostInit
    <3>5. QED
      BY <3>1, <3>2, <3>3, <3>4
  <2>4. obs \in Observers
    BY DEF HostInit, Down, NoSample, Observers
  <2>5. logind \in Machines
    <3>1. <<>> \in Seq(BOOLEAN)
      OBVIOUS
    <3>2. QED
      BY <3>1 DEF HostInit, Machines, Phases
  <2>6. left \in [sleeps : Nat, locks : Nat, faults : Nat]
    BY BudgetAssumption DEF HostInit
  <2>7. QED
    BY <2>2, <2>3, <2>4, <2>5, <2>6 DEF HostTyped
<1>2. Dated /\ Inhibited
  BY DEF HostInit, Dated, Inhibited, NoRound, NoOpening, Down
<1>3. Gated /\ Recent /\ Guarded
  BY DEF HostInit, Gated, Recent, Guarded, NoRound, NoOpening, NoWork, Settles, Blocked
<1>4. QED
  BY <1>1, <1>2, <1>3 DEF HostIInv, HostInv

\* Every state of the lock, the sleep and the runtime is one of the inductive
\* invariant, whatever the budget of preparations, locks and faults.
THEOREM HostInvariance == HostSpec => []HostIInv
<1>1. HostInit => HostIInv
  BY HostStart
<1>2. HostIInv /\ [HostNext]_hostVars => HostIInv'
  <2>1. SUFFICES ASSUME HostIInv, [HostNext]_hostVars
                 PROVE  HostIInv'
    OBVIOUS
  <2>2. CASE UNCHANGED hostVars
    <3>1. HostTyped' /\ Inhibited' /\ Recent' /\ Guarded'
      BY <2>1, <2>2
      DEF hostVars, HostIInv, HostInv, HostTyped, Inhibited, Recent, Guarded
    <3>2. Dated' /\ Gated'
      BY <2>1, <2>2 DEF hostVars, HostIInv, HostInv, Dated, Gated, Settles, Blocked
    <3>3. QED
      BY <3>1, <3>2 DEF HostIInv, HostInv
  <2>3. CASE ServiceLoop
    BY <2>1, <2>3, TurnReadStep, TurnActStep DEF ServiceLoop
  <2>4. QED
    BY <2>1, <2>2, <2>3, LogindStep, ObserverStep, LockGateStep, AsideStep DEF HostNext
<1>3. QED
  BY <1>1, <1>2, PTL DEF HostSpec

\* The type invariant: no epoch of the gates reaches the runtime before they
\* publish it (session_lock.rs, sleep_lifecycle.rs; host_lock and host_sleep of
\* device_execution.rs end the service at an older one).
THEOREM HostTyping == HostSpec => []HostTypeOK
<1>1. HostIInv => HostTypeOK
  <2>1. SUFFICES ASSUME HostIInv PROVE HostTypeOK
    OBVIOUS
  <2>2. HostTyped /\ Dated /\ Inhibited
    BY <2>1 DEF HostIInv, HostInv
  <2>3. rt.work.state \in {"none", "held", "ending"}
    BY <2>2 DEF HostTyped, Runtimes, Works
  <2>4. io.state \in {"none", "opening", "opened"} /\ obs.pc \in {"down", "first", "up", "sampled"}
    BY <2>2 DEF HostTyped, Openings, Observers
  <2>5. QED
    BY <2>2, <2>3, <2>4 DEF Dated, Inhibited, HostTypeOK
<1>2. QED
  BY <1>1, HostInvariance, PTL

\* The machine sleeps with nothing held, no effect running and the device given
\* up, unless a loss of the bus, a deadline or a forced sleep is on record: only
\* an acknowledgement of this preparation releases the inhibitor in silence
\* (sleep_lifecycle.rs), and sleep_ready (device_execution.rs) gives none before
\* the runtime has settled; what has settled stays so until the snapshot says
\* otherwise, which it does not before the machine is awake.
THEOREM SuspendSettles == HostSpec => []SuspendIsSettled
<1>1. HostIInv => SuspendIsSettled
  BY DEF HostIInv, HostInv, Gated, Settles, SuspendIsSettled
<1>2. QED
  BY <1>1, HostInvariance, PTL

\* A turn that began after a sleep acts with no device and no hold of before it,
\* nor with a hold of before a lock that came and went between two turns: the
\* epochs tell the runtime what the states do not (host_lock and host_sleep of
\* device_execution.rs, the turn of permanent_service.rs).
THEOREM NothingBeforeActs == HostSpec => []NothingFromBefore
<1>1. HostIInv => NothingFromBefore
  BY DEF HostIInv, HostInv, Recent, Guarded, NothingFromBefore
<1>2. QED
  BY <1>1, HostInvariance, PTL

=============================================================================
