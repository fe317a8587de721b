-------------------------- MODULE MicrophoneHolds --------------------------
(***************************************************************************)
(* The desired state of every microphone and the hold-to-talk leases it    *)
(* follows from (crates/decksmith-core/src/microphone_holds.rs).  All      *)
(* decks share one coordinator; a target is desired Live exactly while a   *)
(* control holds a lease on it, and whatever fails closes it.              *)
(*                                                                         *)
(* The helpers of the code mutate the coordinator and may fail half way;   *)
(* here they map one value of the record `State` to the next.  Revisions   *)
(* are only ever compared within a target, so the targets one call mutes   *)
(* together share the last revision the code would give them.              *)
(***************************************************************************)
EXTENDS Integers, FiniteSets

CONSTANTS
  Control,     \* keys and dial pushes of the decks, the owners of leases
  DeckOf,      \* the deck of a control
  Scope,       \* contexts a control is pressed in
  ControlOf,   \* the control of a scope
  Mic,         \* canonical microphone targets
  Lease,       \* LEASE_MS, in ticks
  MaxTargets,  \* MAX_TARGETS
  MaxRevision, \* the last revision: where checked_add gives up
  MaxTime, MaxPress  \* bounds of the explored clocks and presses

ASSUME ScopeAssumption == ControlOf \in [Scope -> Control] /\ Scope # {}
ASSUME BoundsAssumption ==
  /\ Lease \in Nat \ {0} /\ MaxTargets \in Nat /\ MaxRevision \in Nat
  /\ MaxTime \in Nat /\ MaxPress \in Nat
ASSUME MicAssumption == IsFiniteSet(Mic)

VARIABLES
  leases,   \* the holds in force
  rows,     \* the desired state of the known targets
  revision, \* the last revision given out
  stopped,  \* no hold is ever accepted again
  consumed, \* the last press each control spent, and in which scope
  clock,    \* high-water mark of the times the host passed
  current,  \* the scopes the host's fence accepts
  presses,  \* genuine downs so far, a counter of the host
  down,     \* the last genuine down of each control
  spent     \* history: the last press each control asked a hold with

coreVars == <<leases, rows, revision, stopped>>
vars == <<leases, rows, revision, stopped, consumed, clock, current, presses, down, spent>>

Time == 0..MaxTime
Desired == {"none", "Muted", "Live"}  \* "none": the target has no row
Hold == [scope: Scope, press: Nat, mic: Mic, touched: Time]
Row == [desired: Desired, revision: Nat, dirty: BOOLEAN]
Token == [scope: Scope, press: Nat]

NoRow == [desired |-> "none", revision |-> 0, dirty |-> FALSE]
NoToken == [scope |-> CHOOSE s \in Scope : TRUE, press |-> 0]

Init ==
  /\ leases = {} /\ rows = [m \in Mic |-> NoRow]
  /\ revision = 0 /\ stopped = FALSE
  /\ consumed = [c \in Control |-> NoToken]
  /\ clock = 0
  /\ current = {}
  /\ presses = 0
  /\ down = [c \in Control |-> NoToken]
  /\ spent = [c \in Control |-> 0]

Here == [leases |-> leases, rows |-> rows, revision |-> revision, stopped |-> stopped]
Become(st) ==
  /\ leases' = st.leases /\ rows' = st.rows
  /\ revision' = st.revision /\ stopped' = st.stopped

Holder(h) == ControlOf[h.scope]
Known(st, m) == st.rows[m].desired # "none"
Targets(st) == {m \in Mic : Known(st, m)}

-----------------------------------------------------------------------------
(* Faulty variants, for the mutation checks.                               *)

RemainDropping(st, hs) == [st EXCEPT !.leases = hs]

FailOpen(st) == [st EXCEPT !.stopped = TRUE, !.leases = {}]

SpentWithinBudget(st, token, m, limit) ==
  IF Known(st, m) \/ Cardinality(Targets(st)) < limit
    THEN [consumed EXCEPT ![ControlOf[token.scope]] = token]
    ELSE consumed

-----------------------------------------------------------------------------
(* Helpers.                                                                *)

\* Revisions ran out: every known target is desired Muted under its old
\* revision, which no Live acknowledgement can match.
FailClosed(st) ==
  [st EXCEPT !.leases = {}, !.stopped = TRUE,
             !.rows = [m \in Mic |-> IF Known(st, m)
                                       THEN [st.rows[m] EXCEPT !.desired = "Muted", !.dirty = TRUE]
                                       ELSE st.rows[m]]]

\* `desired` with force.
ForceDesired(st, m, d) ==
  IF st.revision = MaxRevision
    THEN FailClosed(st)
    ELSE [st EXCEPT !.revision = st.revision + 1,
                    !.rows[m] = [desired |-> d, revision |-> st.revision + 1, dirty |-> TRUE]]

Desire(st, m, d) == IF st.rows[m].desired = d THEN st ELSE ForceDesired(st, m, d)

\* Mutes all targets of ms, one after the other.
MuteAll(st, ms) ==
  IF st.revision + Cardinality(ms) > MaxRevision
    THEN FailClosed([st EXCEPT !.revision = MaxRevision])
    ELSE [st EXCEPT !.revision = st.revision + Cardinality(ms),
                    !.rows = [m \in Mic |->
                       IF m \in ms
                         THEN [desired |-> "Muted", revision |-> st.revision + Cardinality(ms),
                               dirty |-> TRUE]
                         ELSE st.rows[m]]]

Held(hs) == {h.mic : h \in hs}

\* `remove` of all holds but hs: a target that loses its last is muted.
Remain(st, hs) ==
  MuteAll([st EXCEPT !.leases = hs], Held(st.leases) \ Held(hs))

\* `stop`, called directly and when the host's time runs backwards.
Halt(st) == MuteAll([st EXCEPT !.leases = {}, !.stopped = TRUE], Targets(st))

Fresh(st, now) ==
  {h \in st.leases : ~st.stopped /\ h.scope \in current /\ now - h.touched < Lease}

\* `maintain` has run without an error, which would end the call.
Maintained(now) == Remain(Here, Fresh(Here, now))
Fails(now) ==
  \/ now < clock
  \/ revision + Cardinality(Held(leases) \ Held(Fresh(Here, now))) > MaxRevision

Failed(now) == IF now < clock THEN Halt(Here) ELSE Maintained(now)

\* Whether one more target fits.  The host may lower the limit of a hold, to
\* reserve slots for ordinary mutes.
Room(st, m, limit) == Known(st, m) \/ Cardinality(Targets(st)) < limit

\* A down is spent before the target budget is looked at.
Spent(st, token, m, limit) == [consumed EXCEPT ![ControlOf[token.scope]] = token]

IsFreshDown(token) ==
  ~ /\ consumed[ControlOf[token.scope]].scope = token.scope
    /\ token.press <= consumed[ControlOf[token.scope]].press

\* The holds after a heartbeat of a deck: those of other decks stay as old.
Touch(hs, deck, now) ==
  {IF DeckOf[Holder(h)] = deck THEN [h EXCEPT !.touched = now] ELSE h : h \in hs}

-----------------------------------------------------------------------------
(* Operations.  All but the last three first check the time and maintain.  *)

\* A timed call that fails has stopped the coordinator and does nothing else.
Timed(now) ==
  /\ clock' = IF now < clock THEN clock ELSE now
  /\ UNCHANGED <<current, presses, down>>

FailedCall(now) ==
  /\ Timed(now) /\ Fails(now)
  /\ Become(Failed(now))
  /\ UNCHANGED <<consumed, spent>>

\* `maintain`, `prepare_update`, an acknowledgement nobody waits for any more
\* and a release of a hold that is gone.
Maintain(now) ==
  /\ Timed(now) /\ ~Fails(now)
  /\ Become(Maintained(now))
  /\ UNCHANGED <<consumed, spent>>

MayAcquire(st, token) ==
  /\ ~st.stopped /\ token.scope \in current /\ token.press # 0
  /\ ~\E h \in st.leases : Holder(h) = ControlOf[token.scope]
  /\ IsFreshDown(token)

Acquire(token, m, limit, now) ==
  /\ Timed(now) /\ ~Fails(now)
  /\ LET st == Maintained(now)
     IN  \/ /\ MayAcquire(st, token)
            /\ consumed' = Spent(st, token, m, limit)
            /\ spent' = [spent EXCEPT ![ControlOf[token.scope]] = token.press]
            /\ IF ~Room(st, m, limit)
                 THEN Become(st)
                 ELSE LET live == Desire(st, m, "Live")
                      IN  IF live.stopped
                            THEN Become(live)
                            ELSE Become([live EXCEPT !.leases = st.leases \cup
                                   {[scope |-> token.scope, press |-> token.press,
                                     mic |-> m, touched |-> now]}])
         \/ /\ ~MayAcquire(st, token)
            /\ Become(st) /\ UNCHANGED <<consumed, spent>>

Heartbeat(deck, now) ==
  /\ Timed(now) /\ ~Fails(now)
  /\ LET st == Maintained(now)
     IN  Become([st EXCEPT !.leases = Touch(st.leases, deck, now)])
  /\ UNCHANGED <<consumed, spent>>

\* `release` removes the hold only of the very press that acquired it.
Release(token, now) ==
  /\ Timed(now) /\ ~Fails(now)
  /\ LET st == Maintained(now)
     IN  Become(Remain(st, {h \in st.leases :
                              ~(h.scope = token.scope /\ h.press = token.press)}))
  /\ UNCHANGED <<consumed, spent>>

\* `acknowledge` of the update the row of m stands for now.
Acknowledge(m, success, now) ==
  /\ Timed(now) /\ ~Fails(now)
  /\ LET st == Maintained(now)
     IN  /\ Known(st, m)
         /\ rows[m].revision = st.rows[m].revision /\ rows[m].desired = st.rows[m].desired
         /\ IF ~success
              THEN Become(ForceDesired([st EXCEPT !.leases = {h \in st.leases : h.mic # m}], m, "Muted"))
              ELSE IF st.rows[m].desired = "Muted" /\ m \notin Held(st.leases)
                     THEN Become([st EXCEPT !.rows[m] = NoRow])
                     ELSE Become([st EXCEPT !.rows[m].dirty = FALSE])
  /\ UNCHANGED <<consumed, spent>>

\* `cancel_target` of a known target, or `explicit_mute` of any.
Mute(m) ==
  /\ Room(Here, m, MaxTargets)
  /\ Become(ForceDesired([Here EXCEPT !.leases = {h \in leases : h.mic # m}], m, "Muted"))
  /\ UNCHANGED <<consumed, clock, current, presses, down, spent>>

Stop ==
  /\ Become(Halt(Here))
  /\ UNCHANGED <<consumed, clock, current, presses, down, spent>>

-----------------------------------------------------------------------------
(* The host: its fence moves, and a genuine down of a control takes the     *)
(* next press number (`press` of device_execution.rs).                      *)

Fence ==
  /\ \E s \in Scope : current' \in {current \cup {s}, current \ {s}}
  /\ UNCHANGED <<coreVars, consumed, clock, presses, down, spent>>

Press(s) ==
  /\ presses < MaxPress
  /\ presses' = presses + 1
  /\ down' = [down EXCEPT ![ControlOf[s]] = [scope |-> s, press |-> presses + 1]]
  /\ UNCHANGED <<coreVars, consumed, clock, current, spent>>

Next ==
  \/ \E now \in Time :
       \/ FailedCall(now) \/ Maintain(now)
       \/ \E c \in Control : Release(down[c], now)
       \/ \E c \in Control, m \in Mic, limit \in {MaxTargets - 1, MaxTargets} : Acquire(down[c], m, limit, now)
       \/ \E c \in Control : Heartbeat(DeckOf[c], now)
       \/ \E m \in Mic, success \in BOOLEAN : Acknowledge(m, success, now)
  \/ \E m \in Mic : Mute(m)
  \/ Stop \/ Fence
  \/ \E s \in Scope : Press(s)

Spec == Init /\ [][Next]_vars

-----------------------------------------------------------------------------
(* Properties.                                                             *)

\* Well-formed state; a control holds one lease at most.
TypeOK ==
  /\ leases \subseteq Hold
  /\ \A g, h \in leases : Holder(g) = Holder(h) => g = h
  /\ rows \in [Mic -> Row]
  /\ revision \in 0..MaxRevision
  /\ \A m \in Mic : rows[m].revision <= revision
  /\ stopped \in BOOLEAN
  /\ consumed \in [Control -> Token]
  /\ clock \in Time
  /\ current \subseteq Scope
  /\ presses \in 0..MaxPress
  /\ down \in [Control -> Token]
  /\ spent \in [Control -> Nat]

\* A microphone is desired Live exactly while a control holds it: the last
\* release, expiry or fence of any deck mutes it, and none but the last.
LiveIffHeld ==
  \A m \in Mic : rows[m].desired = "Live" <=> m \in Held(leases)

\* A hold begins only with a down newer than all its control asked one with: not
\* by a heartbeat or a repeated acquisition after expiry, release, mute,
\* guardian failure or a refusal for want of a target slot.
FreshDownOnly ==
  [][\A h \in leases' :
       (\A g \in leases : g.scope # h.scope \/ g.press # h.press)
         => h.press > spent[Holder(h)]]_vars

\* What the guardian relies on: a target desired Live is forgotten only after
\* it was desired Muted, and once stopped, by shutdown, reversed time or revisions
\* that ran out half way through a call, none is desired Live again.
Desires == INSTANCE DesiredMics WITH desired <- [m \in Mic |-> rows[m].desired]
ImplementsDesired == Desires!Spec

=============================================================================
