----------------------- MODULE MicrophoneHoldsProofs -----------------------
(***************************************************************************)
(* Proofs about MicrophoneHolds for any decks, controls, contexts,         *)
(* microphones, lease length and limits.  Every operation composes helpers *)
(* that map one coordinator state to the next; a lemma per helper says it  *)
(* keeps the state sound and closes what it must, and the operations       *)
(* follow by composition.                                                  *)
(***************************************************************************)
EXTENDS MicrophoneHolds, FiniteSetTheorems, TLAPS

CoreState == [leases: SUBSET Hold, rows: [Mic -> Row], revision: 0..MaxRevision, stopped: BOOLEAN]

\* A coordinator state of the right shape, of which no row is ahead.
Shaped(st) ==
  /\ st \in CoreState
  /\ \A m \in Mic : st.rows[m].revision <= st.revision

OneEach(hs) == \A g, h \in hs : Holder(g) = Holder(h) => g = h

LiveIn(st, m) == st.rows[m].desired = "Live" <=> m \in Held(st.leases)

\* What every operation leaves behind.
Sound(st) ==
  /\ Shaped(st) /\ OneEach(st.leases)
  /\ \A m \in Mic : LiveIn(st, m)
  /\ st.stopped => st.leases = {}

\* From a to b no row is forgotten, no stop undone.
Keeps(a, b) ==
  /\ \A m \in Mic : b.rows[m].desired = a.rows[m].desired \/ b.rows[m].desired \in {"Muted", "Live"}
  /\ a.stopped => b.stopped

LEMMA KeepsTransitive ==
  ASSUME NEW a, NEW b, NEW c, Keeps(a, b), Keeps(b, c)
  PROVE  Keeps(a, c)
BY DEF Keeps

LEMMA HeldTyped == \A hs \in SUBSET Hold : Held(hs) \subseteq Mic
BY DEF Held, Hold

\* Failing closed leaves no hold and no Live row, whatever came before.
LEMMA FailClosedSound ==
  ASSUME NEW st, Shaped(st)
  PROVE  /\ Sound(FailClosed(st)) /\ Keeps(st, FailClosed(st))
         /\ FailClosed(st).stopped /\ FailClosed(st).leases = {}
<1> DEFINE fc == FailClosed(st)
           closed == [m \in Mic |-> IF Known(st, m)
                                      THEN [st.rows[m] EXCEPT !.desired = "Muted", !.dirty = TRUE]
                                      ELSE st.rows[m]]
<1>1. /\ fc.leases = {} /\ fc.stopped = TRUE /\ fc.revision = st.revision /\ fc.rows = closed
      /\ fc = [leases |-> fc.leases, rows |-> fc.rows, revision |-> fc.revision, stopped |-> fc.stopped]
  <2>1. fc = [st EXCEPT !.leases = {}, !.stopped = TRUE, !.rows = closed]
    BY DEF FailClosed
  <2> HIDE DEF fc, closed
  <2>2. QED
    BY <2>1 DEF Shaped, CoreState
<1>2. \A m \in Mic : /\ fc.rows[m] \in Row
                     /\ fc.rows[m].revision = st.rows[m].revision
                     /\ fc.rows[m].desired = IF st.rows[m].desired = "none" THEN "none" ELSE "Muted"
  <2> SUFFICES ASSUME NEW m \in Mic
               PROVE  /\ fc.rows[m] \in Row
                      /\ fc.rows[m].revision = st.rows[m].revision
                      /\ fc.rows[m].desired = IF st.rows[m].desired = "none" THEN "none" ELSE "Muted"
    OBVIOUS
  <2>1. st.rows[m] \in Row
    BY DEF Shaped, CoreState
  <2>2. fc.rows[m] = IF Known(st, m)
                       THEN [st.rows[m] EXCEPT !.desired = "Muted", !.dirty = TRUE]
                       ELSE st.rows[m]
    BY <1>1
  <2> HIDE DEF fc
  <2>3. QED
    BY <2>1, <2>2 DEF Row, Desired, Known
<1> HIDE DEF fc
<1>3. fc.rows \in [Mic -> Row]
  BY <1>1, <1>2
<1>4. Shaped(fc)
  BY <1>1, <1>2, <1>3 DEF Shaped, CoreState
<1>5. \A m \in Mic : LiveIn(fc, m)
  BY <1>1, <1>2 DEF LiveIn, Held
<1>6. Keeps(st, fc)
  BY <1>1, <1>2 DEF Keeps
<1>7. QED
  BY <1>1, <1>4, <1>5, <1>6 DEF Sound, OneEach, fc

\* A forced change gives its row a new revision, or closes everything.
LEMMA ForceShape ==
  ASSUME NEW st, Shaped(st), NEW m \in Mic, NEW d \in {"Muted", "Live"},
         st.revision # MaxRevision
  PROVE  /\ Shaped(ForceDesired(st, m, d))
         /\ ForceDesired(st, m, d).leases = st.leases
         /\ ForceDesired(st, m, d).stopped = st.stopped
         /\ ForceDesired(st, m, d).rows[m].desired = d
         /\ \A n \in Mic \ {m} : ForceDesired(st, m, d).rows[n] = st.rows[n]
<1> DEFINE fo == ForceDesired(st, m, d)
           row == [desired |-> d, revision |-> st.revision + 1, dirty |-> TRUE]
<1>1. /\ fo.leases = st.leases /\ fo.stopped = st.stopped /\ fo.revision = st.revision + 1
      /\ fo.rows = [st.rows EXCEPT ![m] = row]
      /\ fo = [leases |-> fo.leases, rows |-> fo.rows, revision |-> fo.revision, stopped |-> fo.stopped]
  BY DEF ForceDesired, Shaped, CoreState
<1>2. st.revision + 1 \in 0..MaxRevision /\ st.revision \in Nat
  BY BoundsAssumption DEF Shaped, CoreState
<1>3. row \in Row
  BY <1>2, BoundsAssumption DEF Row, Desired
<1>4. fo.rows[m] = row /\ (\A n \in Mic \ {m} : fo.rows[n] = st.rows[n]) /\ fo.rows \in [Mic -> Row]
  BY <1>1, <1>3 DEF Shaped, CoreState
<1>5. \A n \in Mic : fo.rows[n].revision <= fo.revision
  <2>1. \A n \in Mic : st.rows[n].revision <= st.revision /\ st.rows[n].revision \in Nat
    BY DEF Shaped, CoreState, Row
  <2>2. fo.rows[m].revision = st.revision + 1
    BY <1>4
  <2> HIDE DEF fo, row
  <2>3. QED
    BY <1>1, <1>2, <1>4, <2>1, <2>2
<1>6. fo \in CoreState
  <2> HIDE DEF fo, row
  <2>1. QED
    BY <1>1, <1>2, <1>4 DEF Shaped, CoreState
<1>7. QED
  BY <1>1, <1>4, <1>5, <1>6 DEF Shaped

\* Forcing a target without holds to Muted makes a sound state, even if the target was
\* Live without a hold before.
LEMMA ForceMuted ==
  ASSUME NEW st, Shaped(st), OneEach(st.leases), st.stopped => st.leases = {},
         NEW m \in Mic, m \notin Held(st.leases),
         \A n \in Mic \ {m} : LiveIn(st, n)
  PROVE  Sound(ForceDesired(st, m, "Muted")) /\ Keeps(st, ForceDesired(st, m, "Muted"))
<1>1. CASE st.revision = MaxRevision
  <2>1. ForceDesired(st, m, "Muted") = FailClosed(st)
    BY <1>1 DEF ForceDesired
  <2>2. QED
    BY <2>1, FailClosedSound
<1>2. CASE st.revision # MaxRevision
  <2> DEFINE fo == ForceDesired(st, m, "Muted")
  <2>1. /\ Shaped(fo) /\ fo.leases = st.leases /\ fo.stopped = st.stopped
        /\ fo.rows[m].desired = "Muted"
        /\ \A n \in Mic \ {m} : fo.rows[n] = st.rows[n]
    BY <1>2, ForceShape
  <2> HIDE DEF fo
  <2>2. \A n \in Mic : LiveIn(fo, n)
    BY <2>1 DEF LiveIn
  <2>3. Sound(fo) /\ Keeps(st, fo)
    BY <2>1, <2>2 DEF Sound, Keeps
  <2>4. QED
    BY <2>3 DEF fo
<1>3. QED
  BY <1>1, <1>2

\* Muting targets without holds, of which some may be Live, makes a sound state.
LEMMA MuteAllSound ==
  ASSUME NEW st, Shaped(st), OneEach(st.leases), st.stopped => st.leases = {},
         NEW ms \in SUBSET Mic, ms \cap Held(st.leases) = {},
         \A n \in Mic \ ms : LiveIn(st, n)
  PROVE  Sound(MuteAll(st, ms)) /\ Keeps(st, MuteAll(st, ms))
<1> DEFINE mu == MuteAll(st, ms)
           k == Cardinality(ms)
<1>0. k \in Nat /\ st.revision \in Nat
  <2>1. IsFiniteSet(ms)
    BY MicAssumption, FS_Subset
  <2>2. QED
    BY <2>1, FS_CardinalityType DEF Shaped, CoreState
<1> HIDE DEF k
<1>1. CASE st.revision + k > MaxRevision
  <2> DEFINE up == [st EXCEPT !.revision = MaxRevision]
  <2>1. mu = FailClosed(up)
    BY <1>1 DEF MuteAll, k
  <2>2. /\ up.leases = st.leases /\ up.rows = st.rows /\ up.stopped = st.stopped
        /\ up.revision = MaxRevision /\ up \in CoreState
    BY BoundsAssumption DEF Shaped, CoreState
  <2> HIDE DEF up, mu
  <2>3. Shaped(up)
    <3>1. \A n \in Mic : st.rows[n].revision \in Nat /\ st.rows[n].revision <= st.revision
      BY DEF Shaped, CoreState, Row
    <3>2. st.revision <= MaxRevision /\ MaxRevision \in Nat
      BY BoundsAssumption DEF Shaped, CoreState
    <3>3. QED
      BY <1>0, <2>2, <3>1, <3>2 DEF Shaped
  <2>4. Sound(mu) /\ Keeps(up, mu)
    BY <2>1, <2>3, FailClosedSound
  <2>5. Keeps(st, mu)
    BY <2>2, <2>4 DEF Keeps
  <2>6. QED
    BY <2>4, <2>5 DEF mu
<1>2. CASE ~(st.revision + k > MaxRevision)
  <2> DEFINE row == [desired |-> "Muted", revision |-> st.revision + k, dirty |-> TRUE]
  <2>1. mu = [st EXCEPT !.revision = st.revision + k,
                        !.rows = [n \in Mic |-> IF n \in ms THEN row ELSE st.rows[n]]]
    BY <1>2 DEF MuteAll, k
  <2>2. /\ mu.leases = st.leases /\ mu.stopped = st.stopped /\ mu.revision = st.revision + k
        /\ mu.rows = [n \in Mic |-> IF n \in ms THEN row ELSE st.rows[n]]
        /\ mu = [leases |-> mu.leases, rows |-> mu.rows, revision |-> mu.revision, stopped |-> mu.stopped]
    BY <2>1 DEF Shaped, CoreState
  <2>3. st.revision + k \in 0..MaxRevision
    BY <1>0, <1>2, BoundsAssumption
  <2>4. row \in Row /\ row.desired = "Muted" /\ row.revision = st.revision + k
    BY <2>3, BoundsAssumption DEF Row, Desired
  <2> HIDE DEF row, mu
  <2>5. \A n \in Mic : /\ mu.rows[n] \in Row
                       /\ n \in ms => mu.rows[n] = row
                       /\ n \notin ms => mu.rows[n] = st.rows[n]
    BY <2>2, <2>4 DEF Shaped, CoreState
  <2>6. \A n \in Mic : mu.rows[n].revision <= mu.revision
    <3>1. \A n \in Mic : st.rows[n].revision \in Nat /\ st.rows[n].revision <= st.revision
      BY DEF Shaped, CoreState, Row
    <3>2. QED
      BY <1>0, <2>2, <2>4, <2>5, <3>1
  <2>7. Shaped(mu)
    <3>1. mu.rows \in [Mic -> Row]
      BY <2>2, <2>5
    <3>2. QED
      BY <2>2, <2>3, <2>6, <3>1 DEF Shaped, CoreState
  <2>8. \A n \in Mic : LiveIn(mu, n)
    BY <2>2, <2>4, <2>5 DEF LiveIn
  <2>9. Sound(mu) /\ Keeps(st, mu)
    BY <2>2, <2>4, <2>5, <2>7, <2>8 DEF Sound, Keeps
  <2>10. QED
    BY <2>9 DEF mu
<1>3. QED
  BY <1>1, <1>2

\* Dropping holds mutes exactly the targets that lost their last one.
LEMMA RemainSound ==
  ASSUME NEW st, Sound(st), NEW hs \in SUBSET st.leases
  PROVE  Sound(Remain(st, hs)) /\ Keeps(st, Remain(st, hs))
<1> DEFINE less == [st EXCEPT !.leases = hs]
           ms == Held(st.leases) \ Held(hs)
<1>1. /\ less.leases = hs /\ less.rows = st.rows /\ less.revision = st.revision
      /\ less.stopped = st.stopped /\ less \in CoreState
  BY DEF Sound, Shaped, CoreState
<1>2. Remain(st, hs) = MuteAll(less, ms)
  BY DEF Remain
<1>3. ms \in SUBSET Mic
  BY HeldTyped DEF Sound, Shaped, CoreState
<1>4. \A n \in Mic \ ms : n \in Held(hs) <=> n \in Held(st.leases)
  BY DEF Held
<1> HIDE DEF less, ms
<1>5. Shaped(less)
  BY <1>1 DEF Sound, Shaped
<1>6. ms \cap Held(less.leases) = {}
  BY <1>1 DEF ms
<1>7. \A n \in Mic \ ms : LiveIn(less, n)
  BY <1>1, <1>4 DEF Sound, LiveIn
<1>8. OneEach(less.leases) /\ (less.stopped => less.leases = {})
  BY <1>1 DEF Sound, OneEach
<1>9. Sound(MuteAll(less, ms)) /\ Keeps(less, MuteAll(less, ms))
  BY <1>3, <1>5, <1>6, <1>7, <1>8, MuteAllSound
<1>10. QED
  BY <1>1, <1>2, <1>9 DEF Keeps

\* A stop leaves no hold and no Live row.
LEMMA HaltSound ==
  ASSUME NEW st, Sound(st)
  PROVE  Sound(Halt(st)) /\ Keeps(st, Halt(st))
<1> DEFINE less == [st EXCEPT !.leases = {}, !.stopped = TRUE]
<1>1. /\ less.leases = {} /\ less.rows = st.rows /\ less.revision = st.revision
      /\ less.stopped /\ less \in CoreState
  BY DEF Sound, Shaped, CoreState
<1>2. Halt(st) = MuteAll(less, Targets(st))
  BY DEF Halt
<1>3. Targets(st) \in SUBSET Mic
  BY DEF Targets
<1>4. \A n \in Mic \ Targets(st) : st.rows[n].desired = "none"
  BY DEF Targets, Known
<1> HIDE DEF less
<1>5. Shaped(less)
  BY <1>1 DEF Sound, Shaped
<1>6. /\ Targets(st) \cap Held(less.leases) = {} /\ OneEach(less.leases)
      /\ less.stopped => less.leases = {}
      /\ \A n \in Mic \ Targets(st) : LiveIn(less, n)
  BY <1>1, <1>4 DEF Held, OneEach, LiveIn
<1>7. Sound(MuteAll(less, Targets(st))) /\ Keeps(less, MuteAll(less, Targets(st)))
  BY <1>3, <1>5, <1>6, MuteAllSound
<1>8. QED
  BY <1>1, <1>2, <1>7 DEF Keeps

\* A lease added together with its Live row.
LEMMA AddSound ==
  ASSUME NEW st, Sound(st), ~st.stopped, NEW h \in Hold,
         ~\E g \in st.leases : Holder(g) = Holder(h),
         ~Desire(st, h.mic, "Live").stopped
  PROVE  LET live == Desire(st, h.mic, "Live")
             add == [live EXCEPT !.leases = st.leases \cup {h}]
         IN  Sound(add) /\ Keeps(st, add)
<1> DEFINE live == Desire(st, h.mic, "Live")
           add == [live EXCEPT !.leases = st.leases \cup {h}]
<1>0. h.mic \in Mic
  BY DEF Hold
<1>1. /\ Shaped(live) /\ live.leases = st.leases /\ live.stopped = st.stopped
      /\ live.rows[h.mic].desired = "Live"
      /\ \A n \in Mic \ {h.mic} : live.rows[n] = st.rows[n]
  <2>1. CASE st.rows[h.mic].desired = "Live"
    BY <2>1 DEF Desire, Sound
  <2>2. CASE st.rows[h.mic].desired # "Live"
    <3>1. live = ForceDesired(st, h.mic, "Live")
      BY <2>2 DEF Desire
    <3>2. st.revision # MaxRevision
      <4>1. st.revision = MaxRevision => live = FailClosed(st)
        BY <3>1 DEF ForceDesired
      <4>2. FailClosed(st).stopped
        BY FailClosedSound DEF Sound
      <4>3. QED
        BY <4>1, <4>2
    <3>3. QED
      BY <1>0, <3>1, <3>2, ForceShape DEF Sound
  <2>3. QED
    BY <2>1, <2>2
<1> HIDE DEF live
<1>2. /\ add.leases = st.leases \cup {h} /\ add.rows = live.rows /\ add.revision = live.revision
      /\ add.stopped = st.stopped /\ add \in CoreState
  BY <1>1 DEF Sound, Shaped, CoreState
<1> HIDE DEF add
<1>3. Held(add.leases) = Held(st.leases) \cup {h.mic}
  BY <1>2 DEF Held
<1>4. \A n \in Mic : LiveIn(add, n)
  BY <1>1, <1>2, <1>3 DEF Sound, LiveIn
<1>5. OneEach(add.leases)
  BY <1>2 DEF Sound, OneEach
<1>6. Sound(add) /\ Keeps(st, add)
  BY <1>1, <1>2, <1>4, <1>5 DEF Sound, Shaped, Keeps
<1>7. QED
  BY <1>6 DEF add, live

-----------------------------------------------------------------------------
(* The remaining pieces of the operations.                                 *)

\* No helper but the acquisition itself adds a hold.
LEMMA FewerHolds ==
  ASSUME NEW st, Shaped(st), NEW ms, NEW m, NEW d
  PROVE  /\ MuteAll(st, ms).leases \subseteq st.leases
         /\ ForceDesired(st, m, d).leases \subseteq st.leases
<1>1. \A r : FailClosed([st EXCEPT !.revision = r]).leases = {}
  BY DEF FailClosed, Shaped, CoreState
<1>2. FailClosed(st).leases = {}
  BY DEF FailClosed, Shaped, CoreState
<1>3. MuteAll(st, ms).leases \subseteq st.leases
  BY <1>1 DEF MuteAll, Shaped, CoreState
<1>4. ForceDesired(st, m, d).leases \subseteq st.leases
  BY <1>2 DEF ForceDesired, Shaped, CoreState
<1>5. QED
  BY <1>3, <1>4

\* Dropping the holds of one microphone leaves only its own row to be mended.
LEMMA DropMic ==
  ASSUME NEW st, Sound(st), NEW m \in Mic
  PROVE  LET less == [st EXCEPT !.leases = {h \in st.leases : h.mic # m}]
             fo == ForceDesired(less, m, "Muted")
         IN  Sound(fo) /\ Keeps(st, fo) /\ fo.leases \subseteq st.leases
<1> DEFINE hs == {h \in st.leases : h.mic # m}
           less == [st EXCEPT !.leases = hs]
           fo == ForceDesired(less, m, "Muted")
<1>1. /\ less.leases = hs /\ less.rows = st.rows /\ less.revision = st.revision
      /\ less.stopped = st.stopped /\ less \in CoreState
  BY DEF Sound, Shaped, CoreState
<1>2. m \notin Held(hs) /\ \A n \in Mic \ {m} : n \in Held(hs) <=> n \in Held(st.leases)
  BY DEF Held
<1>3. hs \subseteq st.leases
  OBVIOUS
<1> HIDE DEF less, hs
<1>4. Shaped(less) /\ OneEach(less.leases) /\ (less.stopped => less.leases = {})
  BY <1>1, <1>3 DEF Sound, Shaped, OneEach
<1>5. \A n \in Mic \ {m} : LiveIn(less, n)
  BY <1>1, <1>2 DEF Sound, LiveIn
<1>6. Sound(fo) /\ Keeps(less, fo)
  BY <1>1, <1>2, <1>4, <1>5, ForceMuted
<1>7. Keeps(st, fo) /\ fo.leases \subseteq st.leases
  <2>1. fo.leases \subseteq less.leases
    BY <1>4, FewerHolds
  <2>2. Keeps(st, fo)
    BY <1>1, <1>6 DEF Keeps
  <2>3. QED
    BY <1>1, <1>3, <2>1, <2>2
<1>8. QED
  BY <1>6, <1>7 DEF less, hs

\* A Live wish that ran out of revisions has closed everything.
LEMMA DesireStopped ==
  ASSUME NEW st, Sound(st), ~st.stopped, NEW m \in Mic, Desire(st, m, "Live").stopped
  PROVE  LET live == Desire(st, m, "Live")
         IN  Sound(live) /\ Keeps(st, live) /\ live.leases \subseteq st.leases
<1>1. st.rows[m].desired # "Live" /\ Desire(st, m, "Live") = ForceDesired(st, m, "Live")
  BY DEF Desire
<1>2. st.revision = MaxRevision
  <2>1. SUFFICES ASSUME st.revision # MaxRevision PROVE FALSE
    OBVIOUS
  <2>2. ForceDesired(st, m, "Live").stopped = st.stopped
    BY <2>1, ForceShape DEF Sound
  <2>3. QED
    BY <1>1, <2>2
<1>3. Desire(st, m, "Live") = FailClosed(st)
  BY <1>1, <1>2 DEF ForceDesired
<1>4. QED
  BY <1>3, FailClosedSound DEF Sound

\* A heartbeat moves no hold to another control, press or microphone.
LEMMA TouchSound ==
  ASSUME NEW st, Sound(st), NEW deck, NEW now \in Time
  PROVE  LET b == [st EXCEPT !.leases = Touch(st.leases, deck, now)]
         IN  /\ Sound(b) /\ Keeps(st, b)
             /\ \A h \in b.leases : \E g \in st.leases : g.scope = h.scope /\ g.press = h.press
<1> DEFINE hs == Touch(st.leases, deck, now)
           b == [st EXCEPT !.leases = hs]
<1>0. st.leases \subseteq Hold
  BY DEF Sound, Shaped, CoreState
<1>1. \A h \in hs : \E g \in st.leases :
        /\ h \in Hold /\ h.scope = g.scope /\ h.press = g.press /\ h.mic = g.mic
        /\ h = IF DeckOf[Holder(g)] = deck THEN [g EXCEPT !.touched = now] ELSE g
  BY <1>0 DEF Touch, Hold
<1>2. \A g \in st.leases : \E h \in hs : h.mic = g.mic
  <2>1. SUFFICES ASSUME NEW g \in st.leases PROVE \E h \in hs : h.mic = g.mic
    OBVIOUS
  <2>2. (IF DeckOf[Holder(g)] = deck THEN [g EXCEPT !.touched = now] ELSE g) \in hs
    BY DEF Touch
  <2>3. [g EXCEPT !.touched = now].mic = g.mic
    BY <1>0 DEF Hold
  <2>4. QED
    BY <2>2, <2>3
<1>3. /\ b.leases = hs /\ b.rows = st.rows /\ b.revision = st.revision /\ b.stopped = st.stopped
      /\ b = [leases |-> b.leases, rows |-> b.rows, revision |-> b.revision, stopped |-> b.stopped]
  <2> HIDE DEF hs
  <2>1. QED
    BY DEF Sound, Shaped, CoreState
<1>4. Held(hs) = Held(st.leases)
  <2> HIDE DEF hs
  <2>1. QED
    BY <1>1, <1>2 DEF Held
<1>5. OneEach(hs) /\ hs \subseteq Hold
  <2> HIDE DEF hs
  <2>1. SUFFICES ASSUME NEW h \in hs, NEW k \in hs, Holder(h) = Holder(k) PROVE h = k
    BY <1>1 DEF OneEach
  <2>2. PICK g \in st.leases : h.scope = g.scope /\ h = IF DeckOf[Holder(g)] = deck THEN [g EXCEPT !.touched = now] ELSE g
    BY <1>1
  <2>3. PICK f \in st.leases : k.scope = f.scope /\ k = IF DeckOf[Holder(f)] = deck THEN [f EXCEPT !.touched = now] ELSE f
    BY <1>1
  <2>4. g = f
    BY <2>1, <2>2, <2>3 DEF Sound, OneEach, Holder
  <2>5. QED
    BY <2>2, <2>3, <2>4
<1>6. st.stopped => hs = {}
  BY DEF Touch, Sound
<1> HIDE DEF b, hs
<1>7. Sound(b) /\ Keeps(st, b)
  BY <1>3, <1>4, <1>5, <1>6 DEF Sound, Shaped, CoreState, LiveIn, Keeps
<1>8. QED
  BY <1>1, <1>3, <1>7 DEF b, hs

\* A row replaced by one that is Live no more and no less than before.
LEMMA ReplaceSound ==
  ASSUME NEW st, Sound(st), NEW m \in Mic, NEW row \in Row,
         row.revision <= st.revision,
         row.desired = "Live" <=> st.rows[m].desired = "Live"
  PROVE  LET b == [st EXCEPT !.rows[m] = row]
         IN  /\ Sound(b) /\ b.leases = st.leases /\ b.stopped = st.stopped
             /\ b.rows[m] = row /\ \A n \in Mic \ {m} : b.rows[n] = st.rows[n]
<1> DEFINE b == [st EXCEPT !.rows[m] = row]
<1>1. /\ b.leases = st.leases /\ b.stopped = st.stopped /\ b.revision = st.revision
      /\ b.rows = [st.rows EXCEPT ![m] = row] /\ b \in CoreState
  BY DEF Sound, Shaped, CoreState
<1>2. b.rows[m] = row /\ \A n \in Mic \ {m} : b.rows[n] = st.rows[n]
  BY <1>1 DEF Sound, Shaped, CoreState
<1> HIDE DEF b
<1>3. Shaped(b)
  BY <1>1, <1>2 DEF Sound, Shaped
<1>4. \A n \in Mic : LiveIn(b, n)
  BY <1>1, <1>2 DEF Sound, LiveIn
<1>5. QED
  BY <1>1, <1>2, <1>3, <1>4 DEF Sound, b

LEMMA RemainLeases ==
  ASSUME NEW st, Sound(st), NEW hs \in SUBSET st.leases
  PROVE  Remain(st, hs).leases \subseteq hs
<1> DEFINE less == [st EXCEPT !.leases = hs]
<1>1. Shaped(less) /\ less.leases = hs
  BY DEF Sound, Shaped, CoreState
<1> HIDE DEF less
<1>2. MuteAll(less, Held(st.leases) \ Held(hs)).leases \subseteq hs
  BY <1>1, FewerHolds
<1>3. QED
  BY <1>2 DEF Remain, less

LEMMA HaltLeases ==
  ASSUME NEW st, Sound(st)
  PROVE  Halt(st).leases = {}
<1> DEFINE less == [st EXCEPT !.leases = {}, !.stopped = TRUE]
<1>1. Shaped(less) /\ less.leases = {}
  BY DEF Sound, Shaped, CoreState
<1> HIDE DEF less
<1>2. MuteAll(less, Targets(st)).leases \subseteq {}
  BY <1>1, FewerHolds
<1>3. QED
  BY <1>2 DEF Halt, less

LEMMA DesireShaped ==
  ASSUME NEW st, Sound(st), NEW m \in Mic
  PROVE  Shaped(Desire(st, m, "Live"))
<1>1. CASE st.rows[m].desired = "Live"
  BY <1>1 DEF Desire, Sound
<1>2. CASE st.rows[m].desired # "Live" /\ st.revision = MaxRevision
  BY <1>2, FailClosedSound DEF Desire, ForceDesired, Sound
<1>3. CASE st.rows[m].desired # "Live" /\ st.revision # MaxRevision
  BY <1>3, ForceShape DEF Desire, Sound
<1>4. QED
  BY <1>1, <1>2, <1>3

-----------------------------------------------------------------------------
(* The inductive invariant.                                                *)

\* The last press each control spent and the last one it took: a spent press is
\* not newer than the last, and only that one can be as new.
PressesSpent ==
  \A c \in Control :
    /\ consumed[c].press = spent[c]
    /\ down[c].press <= presses
    /\ down[c].press # 0 => ControlOf[down[c].scope] = c
    /\ spent[c] <= down[c].press
    /\ spent[c] = down[c].press => consumed[c] = down[c]

HostOK ==
  /\ consumed \in [Control -> Token]
  /\ clock \in Time
  /\ current \subseteq Scope
  /\ presses \in 0..MaxPress
  /\ down \in [Control -> Token]
  /\ spent \in [Control -> Nat]

IInv == Sound(Here) /\ HostOK /\ PressesSpent

\* What a step may do to the coordinator.
Obeys(a, b) ==
  /\ \A m \in Mic : Desires!MayBecome(a.rows[m].desired, b.rows[m].desired)
  /\ a.stopped => b.stopped

\* A hold that is new comes from a press its control has not asked with yet.
FreshHolds ==
  \A h \in leases' :
    (\A g \in leases : g.scope # h.scope \/ g.press # h.press) => h.press > spent[Holder(h)]

CoreStep == Sound(Here') /\ Obeys(Here, Here') /\ FreshHolds

LEMMA IInvGivesInvariants == IInv => TypeOK /\ LiveIffHeld /\ (stopped => leases = {})
<1>1. Here.leases = leases /\ Here.rows = rows /\ Here.revision = revision /\ Here.stopped = stopped
  BY DEF Here
<1> HIDE DEF Here
<1>2. QED
  BY <1>1 DEF IInv, Sound, Shaped, CoreState, OneEach, LiveIn, HostOK, TypeOK, LiveIffHeld

LEMMA BecomeHere ==
  ASSUME NEW st, Shaped(st), Become(st)
  PROVE  Here' = st
BY DEF Become, Here, Shaped, CoreState

LEMMA KeepsObeys ==
  ASSUME NEW a, NEW b, Keeps(a, b)
  PROVE  Obeys(a, b)
BY DEF Keeps, Obeys, Desires!MayBecome

\* A call that ends in a sound state, forgetting no row and adding no hold.
LEMMA QuietStep ==
  ASSUME IInv, NEW st, Sound(st), Keeps(Here, st), Become(st),
         \A h \in st.leases : \E g \in leases : g.scope = h.scope /\ g.press = h.press
  PROVE  CoreStep
<1>1. Here' = st /\ leases' = st.leases
  BY BecomeHere DEF Sound, Become
<1>2. FreshHolds
  BY <1>1 DEF FreshHolds
<1>3. QED
  BY <1>1, <1>2, KeepsObeys DEF CoreStep

LEMMA MaintainedSound ==
  ASSUME IInv, NEW now
  PROVE  /\ Sound(Maintained(now)) /\ Keeps(Here, Maintained(now))
         /\ Maintained(now).leases \subseteq leases
<1>1. Here.leases = leases /\ Sound(Here)
  BY DEF IInv, Here
<1> HIDE DEF Here
<1>2. Fresh(Here, now) \in SUBSET Here.leases
  BY DEF Fresh
<1>3. Maintained(now) = Remain(Here, Fresh(Here, now))
  BY DEF Maintained
<1>4. Sound(Maintained(now)) /\ Keeps(Here, Maintained(now))
  BY <1>1, <1>2, <1>3, RemainSound
<1>5. Remain(Here, Fresh(Here, now)).leases \subseteq Fresh(Here, now)
  BY <1>1, <1>2, RemainLeases
<1>6. QED
  BY <1>1, <1>2, <1>3, <1>4, <1>5

LEMMA FailedStep ==
  ASSUME IInv, NEW now \in Time, FailedCall(now)
  PROVE  CoreStep
<1>1. Here.leases = leases /\ Sound(Here)
  BY DEF IInv, Here
<1>2. CASE now < clock
  <2>1. Become(Halt(Here))
    BY <1>2 DEF FailedCall, Failed
  <2>2. Sound(Halt(Here)) /\ Keeps(Here, Halt(Here)) /\ Halt(Here).leases = {}
    BY <1>1, HaltSound, HaltLeases
  <2>3. QED
    BY <2>1, <2>2, QuietStep
<1>3. CASE ~(now < clock)
  BY <1>3, MaintainedSound, QuietStep DEF FailedCall, Failed
<1>4. QED
  BY <1>2, <1>3

LEMMA AcquireStep ==
  ASSUME IInv, NEW c \in Control, NEW m \in Mic, NEW limit, NEW now \in Time,
         Acquire(down[c], m, limit, now)
  PROVE  CoreStep
<1> DEFINE st == Maintained(now)
           token == down[c]
           live == Desire(st, m, "Live")
           h == [scope |-> token.scope, press |-> token.press, mic |-> m, touched |-> now]
<1>1. Sound(st) /\ Keeps(Here, st) /\ st.leases \subseteq leases
  BY MaintainedSound
<1>2. token \in Token
  BY DEF IInv, HostOK
<1>3. \/ Become(st)
      \/ MayAcquire(st, token) /\ live.stopped /\ Become(live)
      \/ MayAcquire(st, token) /\ ~live.stopped /\ Become([live EXCEPT !.leases = st.leases \cup {h}])
  BY DEF Acquire
<1>4. CASE Become(st)
  BY <1>1, <1>4, QuietStep
<1>5. CASE MayAcquire(st, token) /\ live.stopped /\ Become(live)
  <2>1. Sound(live) /\ Keeps(st, live) /\ live.leases \subseteq st.leases
    BY <1>1, <1>5, DesireStopped DEF MayAcquire
  <2>2. Keeps(Here, live)
    BY <1>1, <2>1, KeepsTransitive
  <2>3. QED
    BY <1>1, <1>5, <2>1, <2>2, QuietStep
<1>6. CASE MayAcquire(st, token) /\ ~live.stopped /\ Become([live EXCEPT !.leases = st.leases \cup {h}])
  <2> DEFINE add == [live EXCEPT !.leases = st.leases \cup {h}]
  <2>1. h \in Hold /\ h.mic = m /\ h.scope = token.scope /\ h.press = token.press
    BY <1>2 DEF Hold, Token
  <2>2. Holder(h) = ControlOf[token.scope]
    BY <2>1 DEF Holder
  <2> HIDE DEF h, st
  <2>3. ~\E g \in st.leases : Holder(g) = Holder(h)
    BY <1>6, <2>2 DEF MayAcquire
  <2>4. Sound(add) /\ Keeps(st, add)
    BY <1>1, <1>6, <2>1, <2>3, AddSound DEF MayAcquire
  <2>5. Keeps(Here, add)
    BY <1>1, <2>4, KeepsTransitive
  <2> HIDE DEF add
  <2>6. Here' = add /\ leases' = add.leases
    BY <1>6, <2>4, BecomeHere DEF Sound, Become, add
  <2>7. add.leases = st.leases \cup {h}
    <3>1. Shaped(live)
      BY <1>1, <1>6, <2>1, DesireShaped DEF Sound
    <3>2. QED
      BY <3>1 DEF add, Shaped, CoreState
  <2>8. h.press > spent[Holder(h)]
    <3>1. token.press # 0 /\ IsFreshDown(token)
      BY <1>6 DEF MayAcquire
    <3>2. Holder(h) = c
      BY <2>2, <3>1 DEF IInv, PressesSpent
    <3>3. consumed[c].scope # token.scope \/ ~(token.press <= consumed[c].press)
      BY <2>2, <3>1, <3>2 DEF IsFreshDown
    <3>4. /\ consumed[c].press = spent[c] /\ spent[c] <= token.press
          /\ spent[c] = token.press => consumed[c] = token
          /\ spent[c] \in Nat /\ token.press \in Nat
      BY <1>2 DEF IInv, PressesSpent, HostOK, Token
    <3>5. spent[c] # token.press
      BY <3>3, <3>4
    <3>6. QED
      BY <2>1, <3>2, <3>4, <3>5
  <2>9. FreshHolds
    BY <1>1, <2>6, <2>7, <2>8 DEF FreshHolds
  <2>10. QED
    BY <2>4, <2>5, <2>6, <2>9, KeepsObeys DEF CoreStep
<1>7. QED
  BY <1>3, <1>4, <1>5, <1>6

LEMMA AcknowledgeStep ==
  ASSUME IInv, NEW m \in Mic, NEW success \in BOOLEAN, NEW now \in Time,
         Acknowledge(m, success, now)
  PROVE  CoreStep
<1> DEFINE st == Maintained(now)
<1>1. Sound(st) /\ Keeps(Here, st) /\ st.leases \subseteq leases
  BY MaintainedSound
<1>2. /\ Known(st, m) /\ rows[m].desired = st.rows[m].desired
      /\ ~success => Become(ForceDesired([st EXCEPT !.leases = {h \in st.leases : h.mic # m}], m, "Muted"))
      /\ success /\ st.rows[m].desired = "Muted" /\ m \notin Held(st.leases)
           => Become([st EXCEPT !.rows[m] = NoRow])
      /\ success /\ ~(st.rows[m].desired = "Muted" /\ m \notin Held(st.leases))
           => Become([st EXCEPT !.rows[m].dirty = FALSE])
  BY DEF Acknowledge
<1> HIDE DEF st
<1>3. CASE ~success
  <2> DEFINE fo == ForceDesired([st EXCEPT !.leases = {h \in st.leases : h.mic # m}], m, "Muted")
  <2>1. Sound(fo) /\ Keeps(st, fo) /\ fo.leases \subseteq st.leases
    BY <1>1, DropMic
  <2>2. Keeps(Here, fo) /\ Become(fo)
    BY <1>1, <1>2, <1>3, <2>1, KeepsTransitive
  <2> HIDE DEF fo
  <2>3. QED
    BY <1>1, <2>1, <2>2, QuietStep
<1>4. CASE success /\ st.rows[m].desired = "Muted" /\ m \notin Held(st.leases)
  <2> DEFINE b == [st EXCEPT !.rows[m] = NoRow]
  <2>1. NoRow \in Row /\ NoRow.revision <= st.revision /\ NoRow.desired = "none"
    BY <1>1 DEF NoRow, Row, Desired, Sound, Shaped, CoreState
  <2>2. /\ Sound(b) /\ b.leases = st.leases /\ b.stopped = st.stopped
        /\ b.rows[m] = NoRow /\ \A n \in Mic \ {m} : b.rows[n] = st.rows[n]
    BY <1>1, <1>4, <2>1, ReplaceSound
  <2>3. Become(b)
    BY <1>2, <1>4
  <2> HIDE DEF b
  <2>4. Here' = b /\ leases' = b.leases
    BY <2>2, <2>3, BecomeHere DEF Sound, Become
  <2>5. Here.rows[m].desired = "Muted"
    BY <1>2, <1>4 DEF Here
  <2>6. Obeys(Here, b)
    BY <1>1, <2>1, <2>2, <2>5 DEF Keeps, Obeys, Desires!MayBecome
  <2>7. QED
    BY <1>1, <2>2, <2>4, <2>6 DEF CoreStep, FreshHolds
<1>5. CASE success /\ ~(st.rows[m].desired = "Muted" /\ m \notin Held(st.leases))
  <2> DEFINE row == [st.rows[m] EXCEPT !.dirty = FALSE]
             b == [st EXCEPT !.rows[m] = row]
  <2>1. row \in Row /\ row.revision <= st.revision /\ row.desired = st.rows[m].desired
    BY <1>1 DEF Sound, Shaped, CoreState, Row
  <2> HIDE DEF row
  <2>2. /\ Sound(b) /\ b.leases = st.leases /\ b.stopped = st.stopped
        /\ b.rows[m] = row /\ \A n \in Mic \ {m} : b.rows[n] = st.rows[n]
    BY <1>1, <2>1, ReplaceSound
  <2>3. Become(b)
    BY <1>2, <1>5 DEF row
  <2> HIDE DEF b
  <2>4. Keeps(st, b)
    BY <2>1, <2>2 DEF Keeps
  <2>5. Keeps(Here, b)
    BY <1>1, <2>4, KeepsTransitive
  <2>6. QED
    BY <1>1, <2>2, <2>3, <2>5, QuietStep
<1>6. QED
  BY <1>3, <1>4, <1>5

LEMMA HeartbeatStep ==
  ASSUME IInv, NEW deck, NEW now \in Time, Heartbeat(deck, now)
  PROVE  CoreStep
<1> DEFINE st == Maintained(now)
           b == [st EXCEPT !.leases = Touch(st.leases, deck, now)]
<1>1. Sound(st) /\ Keeps(Here, st) /\ st.leases \subseteq leases
  BY MaintainedSound
<1>2. Become(b)
  BY DEF Heartbeat
<1> HIDE DEF st
<1>3. /\ Sound(b) /\ Keeps(st, b)
      /\ \A h \in b.leases : \E g \in st.leases : g.scope = h.scope /\ g.press = h.press
  BY <1>1, TouchSound
<1> HIDE DEF b
<1>4. Keeps(Here, b)
  BY <1>1, <1>3, KeepsTransitive
<1>5. QED
  BY <1>1, <1>2, <1>3, <1>4, QuietStep

LEMMA ReleaseStep ==
  ASSUME IInv, NEW token, NEW now \in Time, Release(token, now)
  PROVE  CoreStep
<1> DEFINE st == Maintained(now)
           hs == {h \in st.leases : ~(h.scope = token.scope /\ h.press = token.press)}
<1>1. Sound(st) /\ Keeps(Here, st) /\ st.leases \subseteq leases
  BY MaintainedSound
<1>2. Become(Remain(st, hs))
  BY DEF Release
<1> HIDE DEF st
<1>3. hs \in SUBSET st.leases
  OBVIOUS
<1> HIDE DEF hs
<1>4. Sound(Remain(st, hs)) /\ Keeps(st, Remain(st, hs)) /\ Remain(st, hs).leases \subseteq hs
  BY <1>1, <1>3, RemainSound, RemainLeases
<1>5. Keeps(Here, Remain(st, hs))
  BY <1>1, <1>4, KeepsTransitive
<1>6. QED
  BY <1>1, <1>2, <1>3, <1>4, <1>5, QuietStep

\* Every step that touches the coordinator.
LEMMA CoordinatorStep ==
  ASSUME IInv, Next, ~UNCHANGED coreVars
  PROVE  CoreStep
<1>h. Here.leases = leases /\ Sound(Here)
  BY DEF IInv, Here
<1>1. ASSUME NEW now \in Time, FailedCall(now) PROVE CoreStep
  BY <1>1, FailedStep
<1>2. ASSUME NEW now \in Time, Maintain(now) PROVE CoreStep
  BY <1>2, MaintainedSound, QuietStep DEF Maintain
<1>3. ASSUME NEW now \in Time, NEW c \in Control, Release(down[c], now) PROVE CoreStep
  BY <1>3, ReleaseStep
<1>4. ASSUME NEW now \in Time, NEW c \in Control, NEW m \in Mic, NEW limit,
             Acquire(down[c], m, limit, now)
      PROVE  CoreStep
  BY <1>4, AcquireStep
<1>5. ASSUME NEW now \in Time, NEW deck, Heartbeat(deck, now) PROVE CoreStep
  BY <1>5, HeartbeatStep
<1>6. ASSUME NEW now \in Time, NEW m \in Mic, NEW success \in BOOLEAN,
             Acknowledge(m, success, now)
      PROVE  CoreStep
  BY <1>6, AcknowledgeStep
<1>7. ASSUME NEW m \in Mic, Mute(m) PROVE CoreStep
  <2> DEFINE fo == ForceDesired([Here EXCEPT !.leases = {h \in leases : h.mic # m}], m, "Muted")
  <2>1. Become(fo)
    BY <1>7 DEF Mute
  <2>2. fo = ForceDesired([Here EXCEPT !.leases = {h \in Here.leases : h.mic # m}], m, "Muted")
    BY <1>h
  <2> HIDE DEF fo
  <2>3. Sound(fo) /\ Keeps(Here, fo) /\ fo.leases \subseteq leases
    BY <1>h, <2>2, DropMic
  <2>4. QED
    BY <2>1, <2>3, QuietStep
<1>8. ASSUME Stop PROVE CoreStep
  <2>1. Sound(Halt(Here)) /\ Keeps(Here, Halt(Here)) /\ Halt(Here).leases = {}
    BY <1>h, HaltSound, HaltLeases
  <2>2. QED
    BY <1>8, <2>1, QuietStep DEF Stop
<1>9. ~Fence /\ \A s \in Scope : ~Press(s)
  BY DEF Fence, Press
<1>10. QED
  BY <1>1, <1>2, <1>3, <1>4, <1>5, <1>6, <1>7, <1>8, <1>9 DEF Next

\* The host's side of a step: presses are taken in order and spent at most once.
LEMMA HostStep ==
  ASSUME IInv, Next
  PROVE  (HostOK /\ PressesSpent)'
<1> USE DEF IInv
<1>1. ASSUME NEW now \in Time, Timed(now), UNCHANGED <<consumed, spent>>
      PROVE  (HostOK /\ PressesSpent)'
  BY <1>1 DEF Timed, HostOK, PressesSpent
<1>2. ASSUME NEW now \in Time, NEW c \in Control, NEW m \in Mic, NEW limit,
             Acquire(down[c], m, limit, now)
      PROVE  (HostOK /\ PressesSpent)'
  <2>1. Timed(now)
    BY <1>2 DEF Acquire
  <2>2. CASE UNCHANGED <<consumed, spent>>
    BY <1>1, <2>1, <2>2
  <2>3. CASE /\ MayAcquire(Maintained(now), down[c])
             /\ consumed' = Spent(Maintained(now), down[c], m, limit)
             /\ spent' = [spent EXCEPT ![ControlOf[down[c].scope]] = down[c].press]
    <3>1. ControlOf[down[c].scope] = c
      BY <2>3 DEF MayAcquire, PressesSpent
    <3>2. consumed' = [consumed EXCEPT ![c] = down[c]] /\ spent' = [spent EXCEPT ![c] = down[c].press]
      BY <2>3, <3>1 DEF Spent
    <3>3. down[c] \in Token /\ down[c].press \in Nat
      BY DEF HostOK, Token
    <3>4. HostOK'
      BY <2>1, <3>2, <3>3 DEF Timed, HostOK
    <3>5. PressesSpent'
      BY <2>1, <3>2, <3>3 DEF Timed, HostOK, PressesSpent
    <3>6. QED
      BY <3>4, <3>5
  <2>4. QED
    BY <1>2, <2>2, <2>3 DEF Acquire
<1>3. ASSUME UNCHANGED <<consumed, clock, presses, down, spent>>, current' \subseteq Scope
      PROVE  (HostOK /\ PressesSpent)'
  BY <1>3 DEF HostOK, PressesSpent
<1>4. ASSUME NEW s \in Scope, Press(s) PROVE (HostOK /\ PressesSpent)'
  <2> DEFINE c == ControlOf[s]
             token == [scope |-> s, press |-> presses + 1]
  <2>1. /\ presses < MaxPress /\ presses' = presses + 1 /\ down' = [down EXCEPT ![c] = token]
        /\ UNCHANGED <<consumed, clock, current, spent>>
    BY <1>4 DEF Press
  <2>2. presses \in Nat /\ presses' \in 0..MaxPress /\ token \in Token /\ token.press = presses + 1
        /\ token.scope = s /\ c \in Control
    BY <2>1, BoundsAssumption, ScopeAssumption DEF HostOK, Token
  <2>3. HostOK'
    BY <2>1, <2>2 DEF HostOK
  <2>4. \A d \in Control : down[d].press \in Nat /\ spent[d] \in Nat
    BY DEF HostOK, Token
  <2>5. ASSUME NEW d \in Control
        PROVE  /\ consumed'[d].press = spent'[d]
               /\ down'[d].press <= presses'
               /\ down'[d].press # 0 => ControlOf[down'[d].scope] = d
               /\ spent'[d] <= down'[d].press
               /\ spent'[d] = down'[d].press => consumed'[d] = down'[d]
    <3> HIDE DEF token, c
    <3>1. CASE d = c
      <4>1. down'[d] = token
        BY <2>1, <2>2, <3>1 DEF HostOK
      <4>2. ControlOf[token.scope] = d
        BY <2>2, <3>1 DEF c
      <4>3. consumed[d].press = spent[d] /\ spent[d] <= down[d].press /\ down[d].press <= presses
        BY DEF PressesSpent
      <4>4. QED
        BY <2>1, <2>2, <2>4, <4>1, <4>2, <4>3
    <3>2. CASE d # c
      <4>1. down'[d] = down[d]
        BY <2>1, <3>2 DEF HostOK
      <4>2. QED
        BY <2>1, <2>2, <2>4, <4>1 DEF PressesSpent
    <3>3. QED
      BY <3>1, <3>2
  <2>6. QED
    BY <2>3, <2>5 DEF PressesSpent
<1>5. Stop \/ Fence \/ (\E m \in Mic : Mute(m)) => (HostOK /\ PressesSpent)'
  BY <1>3 DEF Stop, Fence, Mute, HostOK
<1>6. QED
  BY <1>1, <1>2, <1>4, <1>5 DEF Next, FailedCall, Maintain, Release, Heartbeat, Acknowledge

LEMMA Inductive == IInv /\ [Next]_vars => IInv'
<1> SUFFICES ASSUME IInv, [Next]_vars PROVE IInv'
  OBVIOUS
<1>1. CASE UNCHANGED vars
  BY <1>1 DEF vars, IInv, Here, HostOK, PressesSpent
<1>2. CASE Next
  <2>1. Sound(Here)'
    <3>1. CASE UNCHANGED coreVars
      BY <3>1 DEF IInv, coreVars, Here
    <3>2. CASE ~UNCHANGED coreVars
      BY <1>2, <3>2, CoordinatorStep DEF CoreStep
    <3>3. QED
      BY <3>1, <3>2
  <2>2. QED
    BY <1>2, <2>1, HostStep DEF IInv
<1>3. QED
  BY <1>1, <1>2

LEMMA InitIInv == Init => IInv
<1> SUFFICES ASSUME Init PROVE IInv
  OBVIOUS
<1>1. NoToken \in Token /\ NoToken.press = 0
  BY ScopeAssumption DEF NoToken, Token
<1>2. HostOK /\ PressesSpent
  BY <1>1, BoundsAssumption DEF Init, HostOK, PressesSpent, Time
<1>3. /\ Here.leases = {} /\ Here.rows = [m \in Mic |-> NoRow]
      /\ Here.revision = 0 /\ Here.stopped = FALSE
      /\ Here = [leases |-> {}, rows |-> [m \in Mic |-> NoRow], revision |-> 0, stopped |-> FALSE]
  BY DEF Init, Here
<1>4. NoRow \in Row /\ NoRow.revision = 0 /\ NoRow.desired = "none"
  BY DEF NoRow, Row, Desired
<1> HIDE DEF Here
<1>5. Sound(Here)
  BY <1>3, <1>4, BoundsAssumption DEF Sound, Shaped, CoreState, OneEach, LiveIn, Held
<1>6. QED
  BY <1>2, <1>5 DEF IInv

\* The inductive invariant holds in every reachable state: the coordinator of
\* microphone_holds.rs is sound between any two of its operations, and what a control
\* consumed is never newer than the last genuine press.
THEOREM Invariance == Spec => []IInv
BY InitIInv, Inductive, PTL DEF Spec

-----------------------------------------------------------------------------
(* Theorems.                                                               *)

\* The state stays well formed and no control ever holds two leases.
THEOREM TypeCorrect == Spec => []TypeOK
<1>1. IInv => TypeOK
  BY IInvGivesInvariants
<1>2. QED
  BY <1>1, Invariance, PTL

\* A microphone is wanted Live exactly while some control of some deck
\* holds it.
THEOREM LiveExactlyWhileHeld == Spec => []LiveIffHeld
<1>1. IInv => LiveIffHeld
  BY IInvGivesInvariants
<1>2. QED
  BY <1>1, Invariance, PTL

\* No hold begins with a press its control asked a hold with before.
THEOREM HoldsNeedFreshDowns == Spec => FreshDownOnly
<1>1. IInv /\ [Next]_vars => [FreshHolds]_vars
  <2> SUFFICES ASSUME IInv, [Next]_vars PROVE [FreshHolds]_vars
    OBVIOUS
  <2>1. CASE UNCHANGED coreVars
    BY <2>1 DEF coreVars, FreshHolds
  <2>2. CASE ~UNCHANGED coreVars
    BY <2>2, CoordinatorStep DEF CoreStep, vars, coreVars
  <2>3. QED
    BY <2>1, <2>2
<1>2. QED
  BY <1>1, Invariance, PTL DEF Spec, FreshDownOnly, FreshHolds

\* The coordinator implements what guardians rely on.
THEOREM CoordinatorImplementsDesired == Spec => ImplementsDesired
<1> DEFINE wanted == [m \in Mic |-> rows[m].desired]
           sane == TypeOK /\ LiveIffHeld /\ (stopped => leases = {})
<1>1. Init => Desires!Init
  BY DEF Init, Desires!Init, NoRow
<1>s. IInv => sane
  BY IInvGivesInvariants
<1>2. IInv /\ sane /\ sane' /\ [Next]_vars => [Desires!Next]_<<wanted, stopped>>
  <2> SUFFICES ASSUME IInv, sane, sane', [Next]_vars, ~UNCHANGED coreVars PROVE Desires!Next
    BY DEF coreVars
  <2>1. CoreStep
    BY CoordinatorStep DEF vars, coreVars
  <2>2. \A m \in Mic : rows'[m].desired \in {"none", "Muted", "Live"}
    BY DEF TypeOK, Row, Desired
  <2>3. wanted' \in [Mic -> {"none", "Muted", "Live"}]
    BY <2>2
  <2>4. \A m \in Mic : Desires!MayBecome(wanted[m], wanted'[m])
    BY <2>1 DEF CoreStep, Obeys, Here
  <2>5. Desires!Change
    BY <2>3, <2>4 DEF Desires!Change
  <2>6. stopped' \in BOOLEAN /\ (stopped => stopped')
    BY <2>1 DEF CoreStep, Obeys, Here, TypeOK
  <2>7. stopped' => \A m \in Mic : wanted'[m] # "Live"
    BY DEF LiveIffHeld, Held
  <2>8. QED
    BY <2>5, <2>6, <2>7 DEF Desires!Next
<1>3. QED
  BY <1>1, <1>2, <1>s, Invariance, PTL DEF Spec, ImplementsDesired, Desires!Spec

=============================================================================
