---------------------------- MODULE LiveProfiles ----------------------------
(***************************************************************************)
(* A profile saved while its deck is in use.  Three parties interleave:    *)
(*                                                                         *)
(*   - the coordinator (device_execution.rs, Runtime): revokes a deck's    *)
(*     view, fences its session, keeps the edit reservations;              *)
(*   - the disk thread (profile_control.rs): checks a save, reserves the   *)
(*     deck, publishes the save, has it applied;                           *)
(*   - the callers, whose requests expire after five seconds.              *)
(*                                                                         *)
(* The disk thread and the coordinator meet in the link (live_profiles.rs):*)
(* a queue of requests, each answered within two seconds or given up.      *)
(* Effect workers read the view at any moment, so an operation of the      *)
(* coordinator takes two steps: what it revokes, and what it changes.      *)
(*                                                                         *)
(* A session is the part of a DeviceSession the edits see; the store is    *)
(* the register of ProfileStore, a profile its revision.  That another     *)
(* program saved in between is one of the reasons a publication fails.     *)
(***************************************************************************)
EXTENDS Integers, Sequences

CONSTANTS
  Deck,
  Req,        \* requests to save
  None,
  Capacity,   \* of the link
  MaxEvents   \* bound: page turns, gates, disconnects, failures

ASSUME LiveAssumption ==
  /\ Capacity \in Nat \ {0} /\ MaxEvents \in Nat /\ None \notin Req
  /\ None \notin [connection : Nat, binding : Nat, epoch : Nat]

VARIABLES
  session,   \* of each deck: connection, binding, up, draining
  lease,     \* lease[d]: the deck's I/O owner still accepts
  gate,      \* the desktop lock and its epoch
  fore,      \* the foreground revision
  mirror,    \* what effect workers may act for: a context, or None
  holds,     \* the scope of a held microphone key, or None
  edits,     \* the reservation of a deck, or None
  editEpoch,
  catalog,   \* the revisions the coordinator runs
  shown,     \* the revision a deck renders
  bound,     \* the revision its controls act by
  turn,      \* an operation of the coordinator that is under way
  link,      \* requests of the disk thread
  view,      \* what the coordinator published last
  store,     \* the revisions on the disk
  disk,      \* the disk thread
  api,       \* callers' requests
  cancelled, \* requests whose flag is set
  past,      \* history: published, applied and rejected requests
  events     \* bounds the environment

coordinator == <<session, mirror, holds, edits, editEpoch, gate, fore>>
books == <<catalog, shown, bound>>
diskside == <<store, disk, api>>
vars == <<coordinator, lease, books, turn, link, view, diskside, cancelled, past, events>>

-----------------------------------------------------------------------------
(* Contexts.                                                               *)

Ctx(d) == [connection |-> session[d].connection, binding |-> session[d].binding,
           lock |-> gate.epoch]
Ready(d) == session[d].up /\ ~session[d].draining /\ ~gate.locked

\* View.accepts, for the scope [context, foreground] of deck d.
Accepts(d, scope) == scope = [context |-> mirror[d], foreground |-> fore] /\ lease[d]

\* Session.fence, and invalidate_binding, which takes a new binding too.
Fenced(s) == [s EXCEPT !.draining = TRUE]
Rebound(s) == [Fenced(s) EXCEPT !.binding = @ + 1]

-----------------------------------------------------------------------------
(* What every operation of the coordinator is made of.                     *)

\* The holds look at the view before it changes.
RevokeAfterTelling(D) == \* faulty
  /\ edits' = [d \in Deck |-> IF d \in D THEN None ELSE edits[d]]
  /\ mirror' = [d \in Deck |-> IF d \in D THEN None ELSE mirror[d]]
  /\ holds' = [d \in Deck |-> IF holds[d] # None /\ Accepts(d, holds[d]) THEN holds[d] ELSE None]

\* The view first: whoever is told to look again sees it gone.
Revoke(D) ==
  /\ edits' = [d \in Deck |-> IF d \in D THEN None ELSE edits[d]]
  /\ mirror' = [d \in Deck |-> IF d \in D THEN None ELSE mirror[d]]
  /\ holds' = [d \in Deck |->
       IF d \notin D /\ holds[d] # None /\ Accepts(d, holds[d]) THEN holds[d] ELSE None]

VisibleDespiteEdit(d) == Ready(d) /\ lease[d] \* faulty
Visible(d) == edits[d] = None /\ Ready(d) /\ lease[d]

\* The view of the decks that can be used, of the new state.
Sync ==
  /\ mirror' = [d \in Deck |-> IF Visible(d)' THEN Ctx(d)' ELSE None]
  /\ holds' = [d \in Deck |->
       IF Visible(d)' /\ holds[d] = [context |-> Ctx(d)', foreground |-> fore']
         THEN holds[d] ELSE None]

NoTurn == [op |-> "none"]

\* snapshot, with the coordinator's new state.
Snapshot ==
  [catalog |-> catalog',
   session |-> [d \in Deck |-> [connection |-> session'[d].connection,
                                binding |-> session'[d].binding]],
   context |-> [d \in Deck |->
     IF edits'[d] = None /\ Ready(d)' THEN Ctx(d)' ELSE None]]

-----------------------------------------------------------------------------
(* The desktop and the devices.                                            *)

\* An operation the environment asks for starts with what it revokes.
Begin(op, D) ==
  /\ turn = NoTurn /\ events < MaxEvents
  /\ events' = events + 1
  /\ turn' = op /\ Revoke(D)
  /\ past' = [past EXCEPT !.disturbed = @ \cup D]
  /\ UNCHANGED <<session, lease, gate, fore, books, link, view, diskside, cancelled>>

\* A page that cannot be shown, or is shown, is refused after the revocation.
Navigate(d) ==
  /\ edits[d] = None
  /\ \E turns \in BOOLEAN : Begin([op |-> "navigate", deck |-> d, turns |-> turns], {d})
  /\ UNCHANGED editEpoch
Disconnect(d) ==
  session[d].up /\ Begin([op |-> "disconnect", deck |-> d], {d}) /\ UNCHANGED editEpoch
Attach(d) ==
  ~session[d].up /\ Begin([op |-> "attach", deck |-> d], {d}) /\ UNCHANGED editEpoch
ToggleGate == Begin([op |-> "gate"], Deck) /\ editEpoch' = editEpoch + 1
Foreground == Begin([op |-> "foreground"], Deck) /\ editEpoch' = editEpoch + 1

Finish(op) == turn.op = op /\ turn' = NoTurn
Unmoved == UNCHANGED <<editEpoch, books, link, view, diskside, cancelled, events>>

FinishNavigate ==
  /\ Finish("navigate")
  /\ session' = IF turn.turns /\ Ready(turn.deck)
                  THEN [session EXCEPT ![turn.deck] = Rebound(@)] ELSE session
  /\ UNCHANGED <<lease, gate, fore, edits>> /\ Sync /\ Unmoved /\ UNCHANGED past

FinishDisconnect ==
  /\ Finish("disconnect")
  /\ session' = [session EXCEPT ![turn.deck] = [Fenced(@) EXCEPT !.up = FALSE]]
  /\ UNCHANGED <<lease, gate, fore, edits>> /\ Sync /\ Unmoved /\ UNCHANGED past

\* Setting the brightness of the new connection may fail.
FinishAttach ==
  /\ Finish("attach")
  /\ \E up \in BOOLEAN :
       /\ session' = [session EXCEPT ![turn.deck] =
            [connection |-> @.connection + 1, binding |-> @.binding, up |-> up, draining |-> TRUE]]
       /\ lease' = [lease EXCEPT ![turn.deck] = IF up THEN TRUE ELSE @]
  /\ UNCHANGED <<gate, fore, edits>> /\ Sync /\ Unmoved /\ UNCHANGED past

FinishGate ==
  /\ Finish("gate")
  /\ gate' = [locked |-> ~gate.locked, epoch |-> gate.epoch + 1]
  /\ session' = [d \in Deck |-> Fenced(session[d])]
  /\ edits' = [d \in Deck |-> None]
  /\ UNCHANGED <<lease, fore>> /\ Sync /\ Unmoved /\ UNCHANGED past

FinishForeground ==
  /\ Finish("foreground")
  /\ session' = [d \in Deck |-> Rebound(session[d])]
  /\ fore' = fore + 1
  /\ UNCHANGED <<lease, gate, edits>> /\ Sync /\ Unmoved /\ UNCHANGED past

LeaseFails(d) ==
  /\ lease[d] /\ events < MaxEvents
  /\ lease' = [lease EXCEPT ![d] = FALSE] /\ events' = events + 1
  /\ UNCHANGED <<coordinator, books, turn, link, view, diskside, cancelled, past>>

\* The coordinator polls: a device has failed, or is drained.
Poll(d) ==
  /\ turn = NoTurn /\ session[d].up /\ (session[d].draining \/ ~lease[d])
  /\ session' = [session EXCEPT ![d] =
       IF lease[d] THEN [@ EXCEPT !.draining = FALSE]
                   ELSE [Fenced(@) EXCEPT !.up = FALSE]]
  /\ past' = IF lease[d] THEN past ELSE [past EXCEPT !.disturbed = @ \cup {d}]
  /\ UNCHANGED <<turn, lease, gate, fore, edits>> /\ Sync /\ Unmoved

Press(d) ==
  /\ turn = NoTurn /\ Ready(d) /\ edits[d] = None /\ holds[d] = None
  /\ LET scope == [context |-> Ctx(d), foreground |-> fore]
     IN  Accepts(d, scope) /\ holds' = [holds EXCEPT ![d] = scope]
  /\ UNCHANGED <<session, mirror, edits, gate, fore, turn, lease>> /\ Unmoved /\ UNCHANGED past

Publish ==
  /\ turn = NoTurn
  /\ UNCHANGED <<coordinator, books>>
  /\ view' = Snapshot /\ view' # view
  /\ UNCHANGED <<lease, turn, link, diskside, cancelled, past, events>>

-----------------------------------------------------------------------------
(* The coordinator's side of the link: one request at a turn.              *)

First == link[1]
Done(ticket) == [ok |-> TRUE, ticket |-> ticket]
Refused == [ok |-> FALSE, ticket |-> None]

\* The answer, if the disk thread still waits for it.
Answered(q, result) ==
  IF disk.pc = q.kind /\ disk.req = q.req THEN [disk EXCEPT !.answer = result] ELSE disk

Take(kind) == turn = NoTurn /\ link # <<>> /\ First.kind = kind /\ link' = Tail(link)

\* The flag is looked at once, before the operation starts.
TakeCancelledAny == \* faulty
  /\ link # <<>> /\ Take(First.kind) /\ First.req \in cancelled
  /\ disk' = Answered(First, Refused)
  /\ UNCHANGED <<coordinator, books>> /\ view' = Snapshot
  /\ UNCHANGED <<turn, lease, store, api, cancelled, past, events>>

TakeCancelled ==
  /\ link # <<>> /\ Take(First.kind) /\ First.req \in cancelled /\ First.kind = "reserve"
  /\ disk' = Answered(First, Refused)
  /\ UNCHANGED <<coordinator, books>> /\ view' = Snapshot
  /\ UNCHANGED <<turn, lease, store, api, cancelled, past, events>>

Reservable(q) == edits[q.deck] = None /\ Ready(q.deck) /\ q.context = Ctx(q.deck)

RefuseReserve ==
  /\ Take("reserve") /\ First.req \notin cancelled /\ ~Reservable(First)
  /\ disk' = Answered(First, Refused)
  /\ UNCHANGED <<coordinator, books>> /\ view' = Snapshot
  /\ UNCHANGED <<turn, lease, store, api, cancelled, past, events>>

Reserve ==
  /\ Take("reserve") /\ First.req \notin cancelled /\ Reservable(First)
  /\ turn' = [op |-> "reserve", request |-> First]
  /\ Revoke({First.deck})
  /\ UNCHANGED <<session, gate, fore, editEpoch, books, lease, view, diskside, cancelled,
                 past, events>>

\* The ticket is for the context after the fence.
FinishReserve ==
  LET d == turn.request.deck
  IN  /\ Finish("reserve")
      /\ session' = [session EXCEPT ![d] = Rebound(@)]
      /\ edits' = [edits EXCEPT ![d] =
           [connection |-> session[d].connection, binding |-> session'[d].binding,
            epoch |-> editEpoch]]
      /\ UNCHANGED <<gate, fore, editEpoch, lease, books>> /\ Sync
      /\ past' = [past EXCEPT !.disturbed = @ \ {d}]
      /\ view' = Snapshot
      /\ disk' = Answered(turn.request, Done(edits'[d]))
      /\ UNCHANGED <<link, store, api, cancelled, events>>

\* Nothing of the deck was in view.
Cancel ==
  LET d == First.deck
      held == edits[d] = First.ticket
  IN  /\ Take("cancel")
      /\ edits' = IF held THEN [edits EXCEPT ![d] = None] ELSE edits
      /\ session' = IF held THEN [session EXCEPT ![d] = Rebound(@)] ELSE session
      /\ UNCHANGED <<gate, fore, editEpoch, lease, books, turn>> /\ Sync
      /\ view' = Snapshot
      /\ disk' = Answered(First, Done(None))
      /\ UNCHANGED <<store, api, cancelled, past, events>>

FreshBinding(q) == \* faulty
  session[q.deck].up /\ session[q.deck].binding = q.ticket.binding

\* The reservation, its epoch, its connection and binding are still those.
Fresh(q) ==
  /\ edits[q.deck] = q.ticket /\ q.ticket.epoch = editEpoch
  /\ session[q.deck].up /\ session[q.deck].binding = q.ticket.binding
  /\ session[q.deck].connection = q.ticket.connection

\* Every revision is the one that runs, but for the one more of the deck.
Succeeds(q) == q.revisions = [catalog EXCEPT ![q.deck] = @ + 1]

RefuseApply ==
  /\ Take("apply") /\ ~(Fresh(First) /\ Succeeds(First) /\ ~gate.locked)
  /\ disk' = Answered(First, Refused)
  /\ past' = [past EXCEPT !.rejected = @ \cup {First.req}]
  /\ UNCHANGED <<coordinator, books>> /\ view' = Snapshot
  /\ UNCHANGED <<turn, lease, store, api, cancelled, events>>

\* apply_prepared configures the session and its table, then sets the
\* brightness: when the device has failed, the rest is not done.
Apply ==
  LET d == First.deck
      rev == First.revisions[d]
      ok == lease[d]
  IN  /\ Take("apply") /\ Fresh(First) /\ Succeeds(First) /\ ~gate.locked
      /\ bound' = [bound EXCEPT ![d] = rev]
      /\ session' = [session EXCEPT ![d] =
           IF ok THEN Rebound(@) ELSE [Rebound(@) EXCEPT !.up = FALSE]]
      /\ catalog' = IF ok THEN First.revisions ELSE catalog
      /\ shown' = IF ok THEN [shown EXCEPT ![d] = rev] ELSE shown
      /\ edits' = IF ok THEN [edits EXCEPT ![d] = None] ELSE edits
      /\ UNCHANGED <<gate, fore, editEpoch, lease, turn>>
      /\ IF ok THEN Sync ELSE UNCHANGED <<mirror, holds>>
      /\ view' = Snapshot
      /\ disk' = Answered(First, IF ok THEN Done(None) ELSE Refused)
      /\ past' = IF ok THEN [past EXCEPT !.applied = @ \cup {First.req}]
                        ELSE [past EXCEPT !.rejected = @ \cup {First.req}]
      /\ UNCHANGED <<store, api, cancelled, events>>

-----------------------------------------------------------------------------
(* The disk thread.                                                        *)

DiskOnly == UNCHANGED <<coordinator, lease, books, turn, view, events>>
Still == [pc |-> "idle", req |-> None, host |-> disk.host]

\* The caller may have gone.
Reply(r, what) ==
  api' = IF api[r].state = "pending" THEN [api EXCEPT ![r].state = what] ELSE api
Return(what) == Reply(disk.req, what) /\ disk' = Still

TokenOf(d) == [revision |-> disk.host[d], session |-> view.session[d]]

\* check, the view, the saved catalog; the projected one.
StartSave(r) ==
  LET d == api[r].deck
  IN  /\ disk.pc = "idle" /\ api[r].state = "pending" /\ r \notin cancelled
      /\ IF api[r].token = TokenOf(d) /\ view.context[d] # None
             /\ store = view.catalog
           THEN /\ disk' = [pc |-> "prepared", req |-> r, host |-> disk.host, deck |-> d,
                            context |-> view.context[d],
                            revisions |-> [store EXCEPT ![d] = @ + 1], ticket |-> None, answer |-> None, verdict |-> "none"]
                /\ api' = api
           ELSE /\ disk' = disk /\ Reply(r, "refused")
      /\ DiskOnly /\ UNCHANGED <<link, store, cancelled, past>>

Sending(kind) ==
  [kind |-> kind, req |-> disk.req, deck |-> disk.deck, context |-> disk.context,
   ticket |-> disk.ticket, revisions |-> disk.revisions]

\* Link.call; a full queue is an error at once.
Call(kind, verdict) ==
  IF Len(link) < Capacity
    THEN /\ link' = Append(link, Sending(kind))
         /\ disk' = [disk EXCEPT !.pc = kind, !.answer = None, !.verdict = verdict]
         /\ api' = api
    ELSE /\ link' = link
         /\ Return(verdict)

AskReserve ==
  /\ disk.pc = "prepared"
  /\ IF disk.req \in cancelled THEN Return("cancelled") /\ link' = link
                                ELSE Call("reserve", "refused")
  /\ DiskOnly /\ UNCHANGED <<store, cancelled, past>>

Reserved ==
  /\ disk.pc = "reserve" /\ disk.answer # None
  /\ IF disk.answer.ok
       THEN disk' = [disk EXCEPT !.pc = "reserved", !.ticket = disk.answer.ticket] /\ api' = api
       ELSE Return("refused")
  /\ DiskOnly /\ UNCHANGED <<link, store, cancelled, past>>

\* Cancelled before the publication, or a publication that failed: the
\* reservation is given back.
AskCancel ==
  /\ disk.pc = "reserved"
  /\ Call("cancel", IF disk.req \in cancelled THEN "cancelled" ELSE "refused")
  /\ DiskOnly /\ UNCHANGED <<store, cancelled, past>>

PublishSave ==
  /\ disk.pc = "reserved" /\ disk.req \notin cancelled
  /\ store' = disk.revisions
  /\ disk' = [disk EXCEPT !.pc = "published", !.host = disk.revisions]
  /\ past' = [past EXCEPT !.published = @ \cup {disk.req}]
  /\ DiskOnly /\ UNCHANGED <<link, api, cancelled>>

\* profile_commit_uncertain: the reservation stays.
PublishUncertain ==
  /\ disk.pc = "reserved" /\ disk.req \notin cancelled
  /\ store' \in {store, disk.revisions}
  /\ past' = [past EXCEPT !.uncertain = @ \cup {disk.req}]
  /\ Return("commit_uncertain")
  /\ DiskOnly /\ UNCHANGED <<link, cancelled>>

AskApply ==
  /\ disk.pc = "published" /\ Call("apply", "apply_failed")
  /\ past' = IF Len(link) < Capacity THEN past
             ELSE [past EXCEPT !.rejected = @ \cup {disk.req}]
  /\ DiskOnly /\ UNCHANGED <<store, cancelled>>

AppliedAnyway == \* faulty
  /\ disk.pc = "apply" /\ disk.answer # None /\ Return("saved")
  /\ DiskOnly /\ UNCHANGED <<link, store, cancelled, past>>

Applied ==
  /\ disk.pc = "apply" /\ disk.answer # None
  /\ Return(IF disk.answer.ok THEN "saved" ELSE "apply_failed")
  /\ DiskOnly /\ UNCHANGED <<link, store, cancelled, past>>

Cancelled ==
  /\ disk.pc = "cancel" /\ disk.answer # None
  /\ Return(disk.verdict)
  /\ DiskOnly /\ UNCHANGED <<link, store, cancelled, past>>

\* Two seconds without an answer.  An apply or a cancel stays in the queue
\* and will be done; a reservation is flagged.
LinkTimeout ==
  /\ disk.pc \in {"reserve", "apply", "cancel"} /\ disk.answer = None
  /\ cancelled' = IF disk.pc = "reserve" THEN cancelled \cup {disk.req} ELSE cancelled
  /\ Return(IF disk.pc = "reserve" THEN "reserve_uncertain" ELSE disk.verdict)
  /\ DiskOnly /\ UNCHANGED <<link, store, past>>

-----------------------------------------------------------------------------
(* Callers.                                                                *)

Ask(r) ==
  /\ api[r].state = "new"
  /\ \E d \in Deck : api' = [api EXCEPT ![r] = [state |-> "pending", deck |-> d, token |-> TokenOf(d)]]
  /\ DiskOnly /\ UNCHANGED <<link, store, disk, cancelled, past>>

CallerTimeout(r) ==
  /\ api[r].state = "pending"
  /\ api' = [api EXCEPT ![r].state = "timeout"] /\ cancelled' = cancelled \cup {r}
  /\ DiskOnly /\ UNCHANGED <<link, store, disk, past>>

-----------------------------------------------------------------------------
Init ==
  /\ session = [d \in Deck |-> [connection |-> 1, binding |-> 1, up |-> TRUE, draining |-> FALSE]]
  /\ lease = [d \in Deck |-> TRUE]
  /\ gate = [locked |-> FALSE, epoch |-> 1] /\ fore = 1
  /\ mirror = [d \in Deck |-> Ctx(d)]
  /\ holds = [d \in Deck |-> None] /\ edits = [d \in Deck |-> None] /\ editEpoch = 1
  /\ catalog = [d \in Deck |-> 1] /\ shown = catalog /\ bound = catalog
  /\ turn = NoTurn /\ link = <<>>
  /\ view = [catalog |-> catalog,
             session |-> [d \in Deck |-> [connection |-> 1, binding |-> 1]],
             context |-> [d \in Deck |-> Ctx(d)]]
  /\ store = catalog
  /\ disk = [pc |-> "idle", req |-> None, host |-> catalog]
  /\ api = [r \in Req |-> [state |-> "new"]]
  /\ cancelled = {} /\ events = 0
  /\ past = [published |-> {}, applied |-> {}, rejected |-> {}, uncertain |-> {},
             disturbed |-> {}]

Environment ==
  \/ \E d \in Deck : Navigate(d) \/ Disconnect(d) \/ Attach(d) \/ LeaseFails(d)
                      \/ Press(d)
  \/ ToggleGate \/ Foreground
  \/ \E r \in Req : Ask(r) \/ CallerTimeout(r)

FinishTurn ==
  \/ FinishNavigate \/ FinishDisconnect \/ FinishAttach \/ FinishGate
  \/ FinishForeground \/ FinishReserve
Coordinator ==
  \/ FinishTurn \/ Publish \/ \E d \in Deck : Poll(d)
  \/ TakeCancelled \/ RefuseReserve \/ Reserve \/ Cancel \/ RefuseApply \/ Apply
Disk ==
  \/ \E r \in Req : StartSave(r)
  \/ AskReserve \/ Reserved \/ AskCancel \/ PublishSave \/ PublishUncertain
  \/ AskApply \/ Applied \/ Cancelled \/ LinkTimeout

Next == Environment \/ Coordinator \/ Disk
Spec == Init /\ [][Next]_vars

\* The coordinator's loop and the disk thread run.
FairSpec == Spec /\ WF_vars(Coordinator) /\ WF_vars(Disk)

-----------------------------------------------------------------------------
(* Properties.                                                             *)

\* A granted reservation always finds room for its apply or its cancel,
\* though the disk thread does not look whether the cancel was queued.
LiveTypeOK ==
  /\ \A d \in Deck : session[d].connection \in Nat /\ session[d].binding \in Nat
  /\ Len(link) <= Capacity
  /\ disk.pc \in {"reserved", "published"} => link = <<>>
  /\ past.applied \subseteq past.published /\ past.rejected \subseteq past.published
  /\ \A d \in Deck : edits[d] # None => edits[d].epoch <= editEpoch

\* At every step of an operation, what effect workers may act for is the
\* present context of a deck in use that is not being edited.
MirrorCurrent ==
  \A d \in Deck : mirror[d] # None /\ lease[d] =>
    Ready(d) /\ mirror[d] = Ctx(d) /\ edits[d] = None

\* A microphone key is held only for what is in view, even while a refused
\* operation has taken the view away and will put it back.
HoldsInView ==
  \A d \in Deck : holds[d] # None => holds[d] = [context |-> mirror[d], foreground |-> fore]

\* "saved" means saved and applied; a request refused or cancelled was
\* never published and will not be.
RepliesHonest ==
  \A r \in Req :
    /\ api[r].state = "saved" => r \in past.published \cap past.applied
    /\ api[r].state \in {"refused", "cancelled", "reserve_uncertain"} => r \notin past.published
    /\ api[r].state = "apply_failed" => r \in past.published

\* A save is applied only to the session it reserved, undisturbed.
NoForeignApply ==
  [][\A d \in Deck : catalog'[d] # catalog[d] => d \notin past.disturbed]_vars

\* What is published is applied or rejected, whoever still waits.
PublishedFinishes ==
  \A r \in Req : r \in past.published ~> r \in past.applied \cup past.rejected

=============================================================================
