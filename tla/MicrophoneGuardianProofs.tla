---------------------- MODULE MicrophoneGuardianProofs ----------------------
(***************************************************************************)
(* Proofs about MicrophoneGuardian for any microphones, targets the        *)
(* factory may probe again and limits.  IInv is inductive; it says who     *)
(* owns the process of a target at every place the driver may be.  Most    *)
(* failures go through Fail and FailedSlots, which have lemmas of their    *)
(* own.                                                                    *)
(***************************************************************************)
EXTENDS MicrophoneGuardian, FiniteSetTheorems, TLAPS

States == {"none", "Muted", "Live"}

Typed ==
  /\ GuardianTypeOK
  /\ driver \in [pc: {"round", "settle", "launch", "ended"}, mic: Mic \cup {NoMic}]

\* What failed, and what was stopped, is not wanted Live.
Closing == \A m \in Mic : m \in blocked \/ stopped => desired[m] # "Live"

\* Who owns the process of m, and where the driver is with it.  A row stays
\* until the process it was opened for is settled.
Owned(m) ==
  /\ slots[m].at = "guarded" => ~manual[m].present /\ Known(m)
  /\ Running(m) => slots[m].at = "guarded" \/ manual[m].present
  /\ driver = [pc |-> "launch", mic |-> m] =>
       slots[m].at = "idle" /\ ~manual[m].present /\ Known(m)
  /\ driver = [pc |-> "settle", mic |-> m] => slots[m].at = "guarded" /\ ~Running(m)

\* A process that ended well has muted, or was told to leave open.
Finished(m) ==
  /\ helper[m].status = "ok" => helper[m].at = "done"
  /\ helper[m].at = "done" => open[m] # "live"

\* A failure can ask for a mute of every target.
Room == Cardinality(Mic) <= MaxTargets

Remembered(m) == Room /\ open[m] = "live" => Known(m) \/ manual[m].present

Fine(m) == Owned(m) /\ Finished(m) /\ Remembered(m)

IInv == Typed /\ Closing /\ \A m \in Mic : Fine(m)

-----------------------------------------------------------------------------
(* Failures.                                                               *)

\* Rows a step may leave: no row is forgotten, none opened.
MutedOnly ==
  /\ desired' \in [Mic -> States]
  /\ \A n \in Mic : desired'[n] = desired[n] \/ desired'[n] = "Muted"

LEMMA RoomForMute ==
  ASSUME Room, Typed, NEW m \in Mic
  PROVE  WithMute(m)[m] = "Muted"
<1>1. IsFiniteSet(Mic) /\ MaxTargets \in Nat
  BY GuardianAssumption
<1>2. CASE Known(m)
  BY <1>2 DEF WithMute, MuteFits, Typed, GuardianTypeOK
<1>3. CASE ~Known(m)
  <2>1. Targets \subseteq Mic /\ Targets # Mic
    BY <1>3 DEF Targets
  <2>2. Cardinality(Targets) < Cardinality(Mic) /\ Cardinality(Targets) \in Nat /\ Cardinality(Mic) \in Nat
    BY <1>1, <2>1, FS_Subset, FS_CardinalityType
  <2>3. MuteFits(m)
    BY <1>1, <2>2 DEF MuteFits, Room
  <2>4. QED
    BY <2>3 DEF WithMute, Typed, GuardianTypeOK
<1>4. QED
  BY <1>2, <1>3

LEMMA WithMuteRows ==
  ASSUME Typed, NEW m \in Mic
  PROVE  /\ WithMute(m) \in [Mic -> States]
         /\ \A n \in Mic : WithMute(m)[n] \in {desired[n], "Muted"}
         /\ WithMute(m)[m] # "Live"
BY DEF WithMute, MuteFits, Known, Typed, GuardianTypeOK, States

LEMMA AllMutedRows ==
  ASSUME NEW rows \in [Mic -> States]
  PROVE  /\ AllMuted(rows) \in [Mic -> States]
         /\ \A n \in Mic : AllMuted(rows)[n] = IF rows[n] = "none" THEN "none" ELSE "Muted"
BY DEF AllMuted, States

\* What a failure of m does to the rows.
Failure(m) ==
  /\ MutedOnly /\ desired'[m] # "Live"
  /\ Room => desired'[m] = "Muted"
  /\ blocked' = blocked \cup {m} /\ failures' \subseteq Mic /\ retry' = retry
  /\ asked' \in [Mic -> {"none", "fresh", "taken"}]
  /\ stopped' \in BOOLEAN /\ fatal' \in BOOLEAN
  /\ stopped => stopped'
  /\ stopped' => stopped \/ \A n \in Mic : desired'[n] # "Live"

LEMMA FailIsFailure ==
  ASSUME Typed, NEW m \in Mic, Fail(m)
  PROVE  Failure(m)
<1> DEFINE W == WithMute(m)
<1>1. /\ W \in [Mic -> States] /\ \A n \in Mic : W[n] \in {desired[n], "Muted"}
      /\ W[m] # "Live" /\ (Room => W[m] = "Muted")
  BY WithMuteRows, RoomForMute
<1>2. /\ AllMuted(W) \in [Mic -> States]
      /\ \A n \in Mic : AllMuted(W)[n] = IF W[n] = "none" THEN "none" ELSE "Muted"
  BY <1>1, AllMutedRows
<1>3. desired' = W \/ (desired' = AllMuted(W) /\ stopped')
  BY DEF Fail
<1>4. /\ blocked' = blocked \cup {m} /\ failures' \subseteq Mic /\ retry' = retry
      /\ asked' \in [Mic -> {"none", "fresh", "taken"}]
      /\ stopped' \in BOOLEAN /\ fatal' \in BOOLEAN /\ (stopped => stopped')
      /\ desired' = W => stopped' = stopped \/ desired' = AllMuted(W)
  BY DEF Fail, Typed, GuardianTypeOK
<1> HIDE DEF W
<1>5. MutedOnly /\ desired'[m] # "Live" /\ (Room => desired'[m] = "Muted")
  BY <1>1, <1>2, <1>3 DEF MutedOnly, States
<1>6. stopped' => stopped \/ \A n \in Mic : desired'[n] # "Live"
  BY <1>2, <1>3, <1>4
<1>7. QED
  BY <1>4, <1>5, <1>6 DEF Failure

LEMMA AbandonIsFailure ==
  ASSUME Typed, NEW m \in Mic, Abandon(m)
  PROVE  Failure(m)
<1> DEFINE W == WithMute(m)
<1>1. /\ W \in [Mic -> States] /\ \A n \in Mic : W[n] \in {desired[n], "Muted"}
      /\ W[m] # "Live" /\ (Room => W[m] = "Muted")
  BY WithMuteRows, RoomForMute
<1>2. /\ AllMuted(W) \in [Mic -> States]
      /\ \A n \in Mic : AllMuted(W)[n] = IF W[n] = "none" THEN "none" ELSE "Muted"
  BY <1>1, AllMutedRows
<1>3. /\ desired' = AllMuted(W) /\ stopped' = TRUE /\ fatal' = TRUE
      /\ blocked' = blocked \cup {m} /\ failures' \subseteq Mic /\ retry' = retry
      /\ asked' \in [Mic -> {"none", "fresh", "taken"}]
  BY DEF Abandon, Typed, GuardianTypeOK
<1> HIDE DEF W
<1>4. MutedOnly /\ \A n \in Mic : desired'[n] # "Live"
  BY <1>1, <1>2, <1>3 DEF MutedOnly, States
<1>5. Room => desired'[m] = "Muted"
  BY <1>1, <1>2, <1>3
<1>6. QED
  BY <1>3, <1>4, <1>5 DEF Failure

LEMMA FailureCloses ==
  ASSUME Typed, Closing, NEW m \in Mic, Failure(m)
  PROVE  Closing'
<1> SUFFICES ASSUME NEW n \in Mic, n \in blocked' \/ stopped', desired'[n] = "Live"
             PROVE  FALSE
  BY DEF Closing
<1>1. n # m /\ desired[n] = "Live" /\ n \in blocked \cup {m} /\ ~stopped
  BY DEF Failure, MutedOnly, Closing
<1>2. QED
  BY <1>1 DEF Failure, Closing

LEMMA StaleSlot ==
  ASSUME NEW s \in Slot, NEW b \in BOOLEAN
  PROVE  /\ [s EXCEPT !.fresh = b] \in Slot
         /\ [s EXCEPT !.fresh = b].at = s.at
         /\ [s EXCEPT !.fresh = FALSE, !.failed = TRUE] \in Slot
         /\ [s EXCEPT !.fresh = FALSE, !.failed = TRUE].at = s.at
BY DEF Slot

\* The slots but m's keep everything the invariant speaks of.
LEMMA FailedSlotsShape ==
  ASSUME Typed, NEW m \in Mic, NEW s \in Slot, slots' = FailedSlots(m, s)
  PROVE  /\ slots' \in [Mic -> Slot]
         /\ \A n \in Mic : slots'[n].at = IF n = m THEN s.at ELSE slots[n].at
<1>1. \A n \in Mic : slots[n] \in Slot /\ slots[n].fresh \in BOOLEAN
  BY DEF Typed, GuardianTypeOK, Slot
<1>2. \A n \in Mic : slots'[n] = IF n = m THEN [s EXCEPT !.fresh = FALSE, !.failed = TRUE]
                 ELSE [slots[n] EXCEPT !.fresh = slots[n].fresh /\ desired'[n] = desired[n]]
  BY DEF FailedSlots
<1>3. ASSUME NEW n \in Mic
      PROVE  slots'[n] \in Slot /\ slots'[n].at = IF n = m THEN s.at ELSE slots[n].at
  <2> DEFINE b == slots[n].fresh /\ desired'[n] = desired[n]
  <2>1. b \in BOOLEAN /\ slots[n] \in Slot
    BY <1>1
  <2>2. slots'[n] = IF n = m THEN [s EXCEPT !.fresh = FALSE, !.failed = TRUE]
                             ELSE [slots[n] EXCEPT !.fresh = b]
    BY <1>2
  <2> HIDE DEF b
  <2>3. QED
    BY <2>1, <2>2, StaleSlot
<1>4. QED
  BY <1>3 DEF FailedSlots

LEMMA SupersededShape ==
  ASSUME Typed, NEW ms
  PROVE  /\ Superseded(ms) \in [Mic -> Slot]
         /\ \A n \in Mic : Superseded(ms)[n].at = slots[n].at
<1>1. \A n \in Mic : slots[n] \in Slot
  BY DEF Typed, GuardianTypeOK
<1>2. \A n \in Mic : Superseded(ms)[n] = IF n \in ms THEN [slots[n] EXCEPT !.fresh = FALSE] ELSE slots[n]
  BY DEF Superseded
<1>3. \A n \in Mic : Superseded(ms)[n] \in Slot /\ Superseded(ms)[n].at = slots[n].at
  BY <1>1, <1>2, StaleSlot
<1>4. QED
  BY <1>3 DEF Superseded

-----------------------------------------------------------------------------
(* Steps that concern one microphone.                                      *)

\* What a step for m leaves of the others.
Elsewhere(m) ==
  /\ \A n \in Mic \ {m} :
       /\ slots'[n].at = slots[n].at /\ manual'[n] = manual[n]
       /\ helper'[n] = helper[n] /\ open'[n] = open[n]
       /\ Known(n) => Known(n)'
  /\ driver' = driver \/ driver'.mic \in {m, NoMic}

LEMMA Local ==
  ASSUME IInv, NEW m \in Mic, Typed', Closing', Elsewhere(m), Fine(m)'
  PROVE  IInv'
<1> SUFFICES ASSUME NEW n \in Mic, n # m PROVE Fine(n)'
  BY DEF IInv
<1>1. /\ slots'[n].at = slots[n].at /\ manual'[n] = manual[n]
      /\ helper'[n] = helper[n] /\ open'[n] = open[n]
      /\ Known(n) => Known(n)'
      /\ driver' = driver \/ driver'.mic # n
  BY GuardianAssumption DEF Elsewhere
<1>2. Fine(n)
  BY DEF IInv
<1>3. \A pc : driver' = [pc |-> pc, mic |-> n] => driver = [pc |-> pc, mic |-> n]
  BY <1>1
<1>4. QED
  BY <1>1, <1>2, <1>3 DEF Fine, Owned, Finished, Remembered, Running

-----------------------------------------------------------------------------
(* The host.                                                               *)

\* The host touches neither the driver's side nor a process, and removes no row.
LEMMA Outside ==
  ASSUME IInv, Typed', Closing', UNCHANGED <<manual, driver, helper, open>>,
         \A n \in Mic : slots'[n].at = slots[n].at /\ (Known(n) => Known(n)')
  PROVE  IInv'
BY DEF IInv, Fine, Owned, Finished, Remembered, Running

LEMMA AcquireStep ==
  ASSUME IInv, NEW m \in Mic, Acquire(m)
  PROVE  IInv'
<1>1. Typed /\ Closing
  BY DEF IInv
<1>2. /\ slots' \in [Mic -> Slot] /\ \A n \in Mic : slots'[n].at = slots[n].at
  BY <1>1, SupersededShape DEF Acquire, Typed, GuardianTypeOK
<1>3. Typed'
  BY <1>1, <1>2 DEF Acquire, Typed, GuardianTypeOK, hostUnchanged
<1>4. Closing' /\ \A n \in Mic : Known(n) => Known(n)'
  BY <1>1 DEF Acquire, Closing, Known, Typed, GuardianTypeOK
<1>5. QED
  BY <1>2, <1>3, <1>4, Outside DEF Acquire, hostUnchanged

LEMMA UnholdStep ==
  ASSUME IInv, NEW m \in Mic, Unhold(m)
  PROVE  IInv'
<1>1. Typed /\ Closing
  BY DEF IInv
<1>2. /\ slots' \in [Mic -> Slot] /\ \A n \in Mic : slots'[n].at = slots[n].at
  BY <1>1, SupersededShape DEF Unhold
<1>3. Typed'
  BY <1>1, <1>2 DEF Unhold, Typed, GuardianTypeOK, hostUnchanged
<1>4. Closing' /\ \A n \in Mic : Known(n) => Known(n)'
  BY <1>1 DEF Unhold, Closing, Known, Typed, GuardianTypeOK
<1>5. QED
  BY <1>2, <1>3, <1>4, Outside DEF Unhold, hostUnchanged

LEMMA MuteStep ==
  ASSUME IInv, NEW m \in Mic, Mute(m)
  PROVE  IInv'
<1>1. Typed /\ Closing
  BY DEF IInv
<1>2. /\ slots' \in [Mic -> Slot] /\ \A n \in Mic : slots'[n].at = slots[n].at
  BY <1>1, SupersededShape DEF Mute
<1>3. Typed'
  BY <1>1, <1>2 DEF Mute, Typed, GuardianTypeOK, hostUnchanged
<1>4. Closing' /\ \A n \in Mic : Known(n) => Known(n)'
  BY <1>1 DEF Mute, Closing, Known, Typed, GuardianTypeOK
<1>5. QED
  BY <1>2, <1>3, <1>4, Outside DEF Mute, hostUnchanged

LEMMA StopStep ==
  ASSUME IInv, Stop
  PROVE  IInv'
<1>1. Typed /\ Closing
  BY DEF IInv
<1>2. /\ slots' \in [Mic -> Slot] /\ \A n \in Mic : slots'[n].at = slots[n].at
  BY <1>1, SupersededShape DEF Stop
<1>3. /\ desired' \in [Mic -> States]
      /\ \A n \in Mic : desired'[n] = IF desired[n] = "none" THEN "none" ELSE "Muted"
  BY <1>1, AllMutedRows DEF Stop, Typed, GuardianTypeOK, States
<1>4. Typed'
  BY <1>1, <1>2, <1>3 DEF Stop, Typed, GuardianTypeOK, hostUnchanged, States
<1>5. Closing' /\ \A n \in Mic : Known(n) => Known(n)'
  BY <1>3 DEF Closing, Known
<1>6. QED
  BY <1>2, <1>4, <1>5, Outside DEF Stop, hostUnchanged

LEMMA HostStep == IInv /\ Host => IInv'
<1> SUFFICES ASSUME IInv, Host PROVE IInv'
  OBVIOUS
<1>1. ASSUME NEW m \in Mic, Toggle(m) PROVE IInv'
  <2>1. Typed' /\ Closing'
    BY <1>1 DEF IInv, Toggle, Typed, GuardianTypeOK, Closing, hostUnchanged
  <2>2. QED
    BY <1>1, <2>1, Outside DEF Toggle, hostUnchanged, Known
<1>2. ASSUME NEW m \in Mic, Fence(m) PROVE IInv'
  <2>1. Typed' /\ Closing'
    BY <1>2 DEF IInv, Fence, Typed, GuardianTypeOK, Closing, hostUnchanged, mutex
  <2>2. QED
    BY <1>2, <2>1, Outside DEF Fence, hostUnchanged, mutex, Known
<1>3. ASSUME TakeFailures PROVE IInv'
  <2>1. Typed' /\ Closing'
    BY <1>3 DEF IInv, TakeFailures, Typed, GuardianTypeOK, Closing, hostUnchanged
  <2>2. QED
    BY <1>3, <2>1, Outside DEF TakeFailures, hostUnchanged, Known
<1>4. QED
  BY <1>1, <1>2, <1>3, AcquireStep, UnholdStep, MuteStep, StopStep DEF Host

-----------------------------------------------------------------------------
(* The driver.  A step leaves the rows alone, or it is a failure.          *)

DriverOK(d) ==
  /\ d \in [pc: {"round", "settle", "launch", "ended"}, mic: Mic \cup {NoMic}]
  /\ d.mic \in IF d.pc \in {"settle", "launch"} THEN Mic ELSE {NoMic}

\* What belongs to another microphone than m stays.
OnlyHere(m) ==
  /\ manual' \in [Mic -> ManualSlot] /\ helper' \in [Mic -> Helper]
  /\ \A n \in Mic \ {m} : manual'[n] = manual[n] /\ helper'[n] = helper[n]
  /\ DriverOK(driver') /\ (driver' = driver \/ driver'.mic \in {m, NoMic})

LEMMA PlainStep ==
  ASSUME IInv, NEW m \in Mic, OnlyHere(m), Fine(m)',
         UNCHANGED <<desired, stopped, blocked, failures, fatal, accepted>>,
         asked' \in [Mic -> {"none", "fresh", "taken"}], retry' \subseteq Mic,
         open' \in [Mic -> {"muted", "live", "kept"}], slots' \in [Mic -> Slot],
         \A n \in Mic \ {m} : slots'[n] = slots[n] /\ open'[n] = open[n]
  PROVE  IInv'
<1>1. Typed' /\ Closing'
  BY DEF IInv, Typed, GuardianTypeOK, Closing, OnlyHere, DriverOK
<1>2. Elsewhere(m)
  BY DEF Elsewhere, OnlyHere, Known
<1>3. QED
  BY <1>1, <1>2, Local

LEMMA FailingStep ==
  ASSUME IInv, NEW m \in Mic, OnlyHere(m), Failure(m),
         NEW s \in Slot, slots' = FailedSlots(m, s), UNCHANGED <<accepted, open>>,
         helper'[m].at = helper[m].at, helper'[m].status \in {helper[m].status, "bad"},
         s.at = "guarded" => slots[m].at = "guarded" /\ ~manual'[m].present,
         Running(m)' => s.at = "guarded" \/ manual'[m].present,
         driver' # [pc |-> "launch", mic |-> m],
         driver' = [pc |-> "settle", mic |-> m] => s.at = "guarded" /\ ~Running(m)'
  PROVE  IInv'
<1>1. Typed /\ Closing /\ Fine(m)
  BY DEF IInv
<1>2. /\ slots' \in [Mic -> Slot]
      /\ \A n \in Mic : slots'[n].at = IF n = m THEN s.at ELSE slots[n].at
  BY <1>1, FailedSlotsShape
<1>3. Typed'
  BY <1>1, <1>2 DEF Typed, GuardianTypeOK, OnlyHere, DriverOK, Failure, MutedOnly, States
<1>4. Closing'
  BY <1>1, FailureCloses
<1>5. \A n \in Mic : Known(n) => Known(n)'
  BY DEF Failure, MutedOnly, Known
<1>6. Elsewhere(m)
  BY <1>2, <1>5 DEF Elsewhere, OnlyHere
<1>7. Owned(m)'
  BY <1>1, <1>2, <1>5 DEF Fine, Owned
<1>8. Finished(m)'
  BY <1>1 DEF Fine, Finished
<1>9. Remembered(m)'
  BY DEF Remembered, Failure, Known, Room
<1>10. QED
  BY <1>3, <1>4, <1>6, <1>7, <1>8, <1>9, Local DEF Fine

\* Records with a field replaced.
LEMMA SlotFields ==
  ASSUME NEW s \in Slot
  PROVE  /\ [s EXCEPT !.closing = TRUE] \in Slot /\ [s EXCEPT !.closing = TRUE].at = s.at
         /\ [s EXCEPT !.at = "idle"] \in Slot /\ [s EXCEPT !.at = "idle"].at = "idle"
BY DEF Slot

LEMMA SlotRead ==
  ASSUME NEW s \in Slot, NEW b \in BOOLEAN
  PROVE  [s EXCEPT !.muted = b] \in Slot /\ [s EXCEPT !.muted = b].at = s.at
BY DEF Slot

LEMMA SlotWants ==
  ASSUME NEW s \in Slot, NEW w \in {"Live", "Muted"}
  PROVE  /\ [s EXCEPT !.want = w, !.fresh = TRUE] \in Slot
         /\ [s EXCEPT !.want = w, !.fresh = TRUE].at = s.at
BY DEF Slot

LEMMA SlotTried ==
  ASSUME NEW s \in Slot, NEW w \in {"Live", "Muted"}, NEW k \in 0..MaxAttempts
  PROVE  /\ [s EXCEPT !.want = w, !.fresh = TRUE, !.attempts = k] \in Slot
         /\ [s EXCEPT !.want = w, !.fresh = TRUE, !.attempts = k].at = s.at
BY DEF Slot

LEMMA NewSlots ==
  ASSUME NEW s \in Slot, NEW w \in {"Live", "Muted"}
  PROVE  /\ NoSlot \in Slot /\ NoSlot.at = "absent"
         /\ [NoSlot EXCEPT !.at = "idle", !.want = w, !.fresh = TRUE] \in Slot
         /\ [NoSlot EXCEPT !.at = "idle", !.want = w, !.fresh = TRUE].at = "idle"
         /\ [s EXCEPT !.at = "idle", !.attempts = 0, !.failed = FALSE] \in Slot
         /\ [s EXCEPT !.at = "idle", !.attempts = 0, !.failed = FALSE].at = "idle"
<1>1. 0 \in 0..MaxAttempts
  BY GuardianAssumption
<1>2. NoSlot \in Slot /\ NoSlot.at = "absent"
  BY <1>1 DEF Slot, NoSlot
<1>3. /\ [NoSlot EXCEPT !.at = "idle", !.want = w, !.fresh = TRUE] \in Slot
      /\ [NoSlot EXCEPT !.at = "idle", !.want = w, !.fresh = TRUE].at = "idle"
  BY <1>1 DEF Slot, NoSlot
<1>4. /\ [s EXCEPT !.at = "idle", !.attempts = 0, !.failed = FALSE] \in Slot
      /\ [s EXCEPT !.at = "idle", !.attempts = 0, !.failed = FALSE].at = "idle"
  BY <1>1 DEF Slot
<1>5. QED
  BY <1>2, <1>3, <1>4

LEMMA HelperFields ==
  ASSUME NEW h \in Helper
  PROVE  /\ Closed(h) \in Helper /\ Closed(h).at = h.at /\ Closed(h).status = h.status
         /\ [Closed(h) EXCEPT !.out = {}] \in Helper
         /\ [Closed(h) EXCEPT !.out = {}].at = h.at /\ [Closed(h) EXCEPT !.out = {}].status = h.status
         /\ [Closed(h) EXCEPT !.status = "bad"] \in Helper
         /\ [Closed(h) EXCEPT !.status = "bad"].at = h.at
         /\ [Closed(h) EXCEPT !.status = "bad"].status = "bad"
         /\ [h EXCEPT !.pulsed = TRUE] \in Helper
         /\ [h EXCEPT !.pulsed = TRUE].at = h.at /\ [h EXCEPT !.pulsed = TRUE].status = h.status
         /\ [h EXCEPT !.out = {}] \in Helper
         /\ [h EXCEPT !.out = {}].at = h.at /\ [h EXCEPT !.out = {}].status = h.status
         /\ [h EXCEPT !.out = {}, !.commit = TRUE] \in Helper
         /\ [h EXCEPT !.out = {}, !.commit = TRUE].at = h.at
         /\ [h EXCEPT !.out = {}, !.commit = TRUE].status = h.status
BY DEF Helper, Closed

LEMMA SpawnedHelper ==
  ASSUME NEW mode \in {"hold", "mute", "toggle"}, NEW input \in BOOLEAN
  PROVE  /\ Spawned(mode, input) \in Helper /\ Spawned(mode, input).at = "checking"
         /\ Spawned(mode, input).status = "running"
BY DEF Helper, Spawned

\* A process that was killed has failed.
LEMMA KilledHelper ==
  ASSUME Typed, NEW m \in Mic
  PROVE  /\ Killed(m) \in [Mic -> Helper]
         /\ \A n \in Mic \ {m} : Killed(m)[n] = helper[n]
         /\ Killed(m)[m].at = helper[m].at
         /\ Killed(m)[m].status = IF Running(m) THEN "bad" ELSE helper[m].status
<1> DEFINE k == [Closed(helper[m]) EXCEPT !.status = IF Running(m) THEN "bad" ELSE helper[m].status]
<1>1. helper[m] \in Helper /\ helper \in [Mic -> Helper]
  BY DEF Typed, GuardianTypeOK
<1>2. /\ k \in Helper /\ k.at = helper[m].at
      /\ k.status = IF Running(m) THEN "bad" ELSE helper[m].status
  BY <1>1 DEF Helper, Closed, Running
<1>3. Killed(m) = [helper EXCEPT ![m] = k]
  BY DEF Killed
<1> HIDE DEF k
<1>4. QED
  BY <1>1, <1>2, <1>3

\* The state of one microphone.
LEMMA Here ==
  ASSUME IInv, NEW m \in Mic
  PROVE  /\ Typed /\ Closing /\ Fine(m)
         /\ slots \in [Mic -> Slot] /\ slots[m] \in Slot
         /\ helper \in [Mic -> Helper] /\ helper[m] \in Helper
         /\ manual \in [Mic -> ManualSlot] /\ manual[m] \in ManualSlot
         /\ desired \in [Mic -> States] /\ (Known(m) => desired[m] \in {"Live", "Muted"})
         /\ asked \in [Mic -> {"none", "fresh", "taken"}] /\ retry \subseteq Mic
         /\ open \in [Mic -> {"muted", "live", "kept"}] /\ DriverOK(driver)
BY DEF IInv, Typed, GuardianTypeOK, States, Known, DriverOK

-----------------------------------------------------------------------------
(* The slots.                                                              *)

LEMMA AdoptStep ==
  ASSUME IInv, NEW m \in Mic, Adopt(m)
  PROVE  IInv'
<1> DEFINE s == [NoSlot EXCEPT !.at = "idle", !.want = desired[m], !.fresh = TRUE]
<1>1. s \in Slot /\ s.at = "idle" /\ slots' = [slots EXCEPT ![m] = s]
  BY Here, NewSlots DEF Adopt
<1> HIDE DEF s
<1>2. OnlyHere(m)
  BY Here DEF Adopt, OnlyHere, Stay
<1>3. slots' \in [Mic -> Slot] /\ slots'[m].at = "idle" /\ \A n \in Mic \ {m} : slots'[n] = slots[n]
  BY <1>1, Here
<1>4. Fine(m)'
  BY <1>3, Here DEF Adopt, Round, Stay, Fine, Owned, Finished, Remembered, Running, Known
<1>5. QED
  BY <1>2, <1>3, <1>4, Here, PlainStep DEF Adopt, Stay

LEMMA CloseStep ==
  ASSUME IInv, NEW m \in Mic, Close(m)
  PROVE  IInv'
<1>1. slots' \in [Mic -> Slot] /\ slots'[m].at = slots[m].at /\ \A n \in Mic \ {m} : slots'[n] = slots[n]
  BY Here, SlotFields DEF Close
<1>2. /\ helper' \in [Mic -> Helper] /\ \A n \in Mic \ {m} : helper'[n] = helper[n]
      /\ helper'[m].at = helper[m].at /\ helper'[m].status = helper[m].status
  BY Here, HelperFields DEF Close
<1>3. OnlyHere(m)
  BY <1>2, Here DEF Close, OnlyHere, Stay
<1>4. Fine(m)'
  BY <1>1, <1>2, Here DEF Close, Round, Stay, mutex, Fine, Owned, Finished, Remembered, Running, Known
<1>5. QED
  BY <1>1, <1>3, <1>4, Here, PlainStep DEF Close, Stay, mutex

LEMMA PulseStep ==
  ASSUME IInv, NEW m \in Mic, Pulse(m)
  PROVE  IInv'
<1>1. CASE Running(m) /\ helper' = [helper EXCEPT ![m].pulsed = TRUE] /\ UNCHANGED <<mutex, slots>>
  <2>1. /\ helper' \in [Mic -> Helper] /\ \A n \in Mic \ {m} : helper'[n] = helper[n]
        /\ helper'[m].at = helper[m].at /\ helper'[m].status = helper[m].status
    BY <1>1, Here, HelperFields
  <2>2. OnlyHere(m)
    BY <2>1, Here DEF Pulse, OnlyHere, Stay
  <2>3. Fine(m)'
    BY <1>1, <2>1, Here DEF Pulse, Stay, mutex, Fine, Owned, Finished, Remembered, Running, Known
  <2>4. QED
    BY <1>1, <2>2, <2>3, Here, PlainStep DEF Pulse, Stay, mutex
<1>2. CASE /\ Fail(m) /\ slots' = FailedSlots(m, [slots[m] EXCEPT !.closing = TRUE])
           /\ helper' = [helper EXCEPT ![m] = Closed(@)]
  <2> DEFINE s == [slots[m] EXCEPT !.closing = TRUE]
  <2>1. s \in Slot /\ s.at = slots[m].at /\ slots' = FailedSlots(m, s)
    BY <1>2, Here, SlotFields
  <2> HIDE DEF s
  <2>2. /\ helper' \in [Mic -> Helper] /\ \A n \in Mic \ {m} : helper'[n] = helper[n]
        /\ helper'[m].at = helper[m].at /\ helper'[m].status = helper[m].status
    BY <1>2, Here, HelperFields
  <2>3. OnlyHere(m) /\ manual' = manual /\ driver' = driver /\ Round /\ UNCHANGED <<accepted, open>>
    BY <2>2, Here DEF Pulse, OnlyHere, Stay
  <2>4. Failure(m)
    BY <1>2, Here, FailIsFailure
  <2>5. QED
    BY <2>1, <2>2, <2>3, <2>4, Here, FailingStep DEF Round, Running, Fine, Owned, Pulse
<1>3. QED
  BY <1>1, <1>2 DEF Pulse

LEMMA PollStep ==
  ASSUME IInv, NEW m \in Mic, Poll(m)
  PROVE  IInv'
<1> DEFINE b == slots[m].muted \/ "muted" \in helper[m].out
           read == [slots[m] EXCEPT !.muted = b]
<1>1. read \in Slot /\ read.at = slots[m].at
  <2>1. b \in BOOLEAN
    BY Here DEF Slot
  <2> HIDE DEF b
  <2>2. QED
    BY <2>1, Here, SlotRead
<1>2. /\ Running(m) => slots' = [slots EXCEPT ![m] = read] /\ UNCHANGED <<mutex, driver>>
      /\ ~Running(m) => driver' = [pc |-> "settle", mic |-> m]
      /\ \/ slots' = [slots EXCEPT ![m] = read] /\ UNCHANGED mutex
         \/ Fail(m) /\ slots' = FailedSlots(m, read) /\ ~Running(m)
  BY DEF Poll
<1> HIDE DEF read
<1>3. /\ helper' \in [Mic -> Helper] /\ \A n \in Mic \ {m} : helper'[n] = helper[n]
      /\ helper'[m].at = helper[m].at /\ helper'[m].status = helper[m].status
  BY Here, HelperFields DEF Poll
<1>4. Round /\ slots[m].at = "guarded" /\ UNCHANGED <<accepted, manual, open>>
  BY DEF Poll
<1>5. OnlyHere(m)
  BY <1>2, <1>3, <1>4, Here DEF OnlyHere, DriverOK
<1>6. CASE slots' = [slots EXCEPT ![m] = read] /\ UNCHANGED mutex
  <2>1. slots' \in [Mic -> Slot] /\ slots'[m].at = slots[m].at /\ \A n \in Mic \ {m} : slots'[n] = slots[n]
    BY <1>1, <1>6, Here
  <2>2. Fine(m)'
    BY <1>2, <1>3, <1>4, <1>6, <2>1, Here DEF Round, mutex, Fine, Owned, Finished, Remembered, Running, Known
  <2>3. QED
    BY <1>4, <1>5, <1>6, <2>1, <2>2, Here, PlainStep DEF mutex
<1>7. CASE Fail(m) /\ slots' = FailedSlots(m, read) /\ ~Running(m)
  <2>1. Failure(m)
    BY <1>7, Here, FailIsFailure
  <2>2. slots[m].at = "guarded" /\ ~manual'[m].present
    BY <1>4, Here DEF Fine, Owned
  <2>3. ~Running(m)'
    BY <1>3, <1>7 DEF Running
  <2>4. QED
    BY <1>1, <1>2, <1>3, <1>4, <1>5, <1>7, <2>1, <2>2, <2>3, FailingStep
<1>8. QED
  BY <1>2, <1>6, <1>7

LEMMA GarbledStep ==
  ASSUME IInv, NEW m \in Mic, Garbled(m)
  PROVE  IInv'
<1> DEFINE s == [slots[m] EXCEPT !.closing = TRUE]
<1>1. s \in Slot /\ s.at = slots[m].at
  BY Here, SlotFields
<1>2. /\ helper' \in [Mic -> Helper] /\ \A n \in Mic \ {m} : helper'[n] = helper[n]
      /\ helper'[m].at = helper[m].at /\ helper'[m].status = helper[m].status
  BY Here, HelperFields DEF Garbled
<1>3. Round /\ slots[m].at = "guarded" /\ UNCHANGED <<accepted, manual, open, driver>>
  BY DEF Garbled, Stay
<1>4. OnlyHere(m)
  BY <1>2, <1>3, Here DEF OnlyHere
<1>5. CASE slots' = [slots EXCEPT ![m].closing = TRUE] /\ UNCHANGED mutex
  <2>1. slots' \in [Mic -> Slot] /\ slots'[m].at = slots[m].at /\ \A n \in Mic \ {m} : slots'[n] = slots[n]
    BY <1>5, Here, SlotFields
  <2>2. Fine(m)'
    BY <1>2, <1>3, <1>5, <2>1, Here DEF Round, mutex, Fine, Owned, Finished, Remembered, Running, Known
  <2>3. QED
    BY <1>3, <1>4, <1>5, <2>1, <2>2, Here, PlainStep DEF mutex
<1>6. CASE Fail(m) /\ slots' = FailedSlots(m, s)
  <2>1. Failure(m)
    BY <1>6, Here, FailIsFailure
  <2>2. slots[m].at = "guarded" /\ ~manual'[m].present
    BY <1>3, Here DEF Fine, Owned
  <2> HIDE DEF s
  <2>3. QED
    BY <1>1, <1>2, <1>3, <1>4, <1>6, <2>1, <2>2, FailingStep DEF Round
<1>7. QED
  BY <1>5, <1>6 DEF Garbled

\* A target is forgotten after a successful exit, which follows the mute.
LEMMA SettleStep ==
  ASSUME IInv, NEW m \in Mic, Settle(m)
  PROVE  IInv'
<1>1. /\ driver = [pc |-> "settle", mic |-> m] /\ driver' = [pc |-> "round", mic |-> NoMic]
      /\ UNCHANGED <<accepted, manual, helper, open>>
  BY DEF Settle
<1>2. slots[m].at = "guarded" /\ ~Running(m) /\ ~manual[m].present
  BY <1>1, Here DEF Fine, Owned
<1>3. CASE helper[m].status = "ok" /\ slots[m].muted
  <2> DEFINE s == [slots[m] EXCEPT !.at = "idle", !.attempts = 0, !.failed = FALSE]
  <2>1. s \in Slot /\ s.at = "idle"
    BY Here, NewSlots DEF States
  <2>2. /\ slots' = [slots EXCEPT ![m] = s]
        /\ desired' = desired \/ desired' = [desired EXCEPT ![m] = "none"]
        /\ blocked' = blocked \/ (blocked' = blocked \ {m} /\ desired'[m] = "none")
        /\ retry' \subseteq retry
        /\ UNCHANGED <<stopped, asked, failures, fatal>>
    BY <1>3, Here DEF Settle
  <2> HIDE DEF s
  <2>3. slots' \in [Mic -> Slot] /\ slots'[m].at = "idle" /\ \A n \in Mic \ {m} : slots'[n] = slots[n]
    BY <2>1, <2>2, Here
  <2>4. Typed'
    BY <1>1, <2>2, <2>3, Here DEF Typed, GuardianTypeOK, States
  <2>5. Closing'
    BY <2>2, Here DEF Closing
  <2>6. Elsewhere(m)
    BY <1>1, <2>2, <2>3, Here DEF Elsewhere, Known
  <2>7. open[m] # "live"
    BY <1>3, Here DEF Fine, Finished
  <2>8. Fine(m)'
    BY <1>1, <1>2, <2>3, <2>7, Here DEF Fine, Owned, Finished, Remembered, Running
  <2>9. QED
    BY <2>4, <2>5, <2>6, <2>8, Local
<1>4. CASE Fail(m) /\ slots' = FailedSlots(m, [slots[m] EXCEPT !.at = "idle"])
  <2> DEFINE s == [slots[m] EXCEPT !.at = "idle"]
  <2>1. s \in Slot /\ s.at = "idle" /\ slots' = FailedSlots(m, s)
    BY <1>4, Here, SlotFields
  <2> HIDE DEF s
  <2>2. OnlyHere(m)
    BY <1>1, Here DEF OnlyHere, DriverOK
  <2>3. Failure(m) /\ ~Running(m)'
    BY <1>1, <1>2, <1>4, Here, FailIsFailure DEF Running
  <2>4. QED
    BY <1>1, <2>1, <2>2, <2>3, FailingStep
<1>5. QED
  BY <1>3, <1>4 DEF Settle

LEMMA TimeoutStep ==
  ASSUME IInv, NEW m \in Mic, Timeout(m)
  PROVE  IInv'
<1>1. Round /\ slots[m].at = "guarded" /\ UNCHANGED <<accepted, manual, open, driver>>
  BY DEF Timeout, Stay
<1>2. ~manual'[m].present /\ DriverOK(driver) /\ driver.pc = "round"
  BY <1>1, Here DEF Fine, Owned, Round
<1>3. CASE Fail(m) /\ slots' = FailedSlots(m, [slots[m] EXCEPT !.at = "idle"]) /\ helper' = Killed(m)
  <2> DEFINE s == [slots[m] EXCEPT !.at = "idle"]
  <2>1. s \in Slot /\ s.at = "idle" /\ slots' = FailedSlots(m, s)
    BY <1>3, Here, SlotFields
  <2> HIDE DEF s
  <2>2. /\ helper' \in [Mic -> Helper] /\ \A n \in Mic \ {m} : helper'[n] = helper[n]
        /\ helper'[m].at = helper[m].at /\ helper'[m].status \in {helper[m].status, "bad"}
        /\ ~Running(m)'
    BY <1>3, Here, KilledHelper DEF Running
  <2>3. OnlyHere(m)
    BY <1>1, <2>2, Here DEF OnlyHere
  <2>4. Failure(m)
    BY <1>3, Here, FailIsFailure
  <2>5. QED
    BY <1>1, <1>2, <2>1, <2>2, <2>3, <2>4, FailingStep
<1>4. CASE Abandon(m) /\ slots' = FailedSlots(m, slots[m]) /\ helper' = [helper EXCEPT ![m] = Closed(@)]
  <2>1. /\ helper' \in [Mic -> Helper] /\ \A n \in Mic \ {m} : helper'[n] = helper[n]
        /\ helper'[m].at = helper[m].at /\ helper'[m].status = helper[m].status
    BY <1>4, Here, HelperFields
  <2>2. OnlyHere(m)
    BY <1>1, <2>1, Here DEF OnlyHere
  <2>3. Failure(m)
    BY <1>4, Here, AbandonIsFailure
  <2>4. QED
    BY <1>1, <1>2, <1>4, <2>1, <2>2, <2>3, Here, FailingStep
<1>5. QED
  BY <1>3, <1>4 DEF Timeout

LEMMA PrepareStep ==
  ASSUME IInv, NEW m \in Mic, Prepare(m)
  PROVE  IInv'
<1> DEFINE k == IF desired[m] = "Muted" THEN Budget(m) + 1 ELSE Budget(m)
           s == [slots[m] EXCEPT !.want = desired[m], !.fresh = TRUE, !.attempts = k]
<1>1. k \in 0..MaxAttempts
  <2>1. slots[m].attempts \in 0..MaxAttempts /\ MaxAttempts \in Nat \ {0} /\ Budget(m) < MaxAttempts
    BY Here, GuardianAssumption DEF Slot, Prepare
  <2>2. Budget(m) \in 0..MaxAttempts
    BY <2>1 DEF Budget
  <2>3. QED
    BY <2>1, <2>2
<1>2. slots' = [slots EXCEPT ![m] = s]
  BY Here DEF Prepare
<1> HIDE DEF k
<1>3. s \in Slot /\ s.at = slots[m].at
  BY <1>1, Here, SlotTried DEF Prepare
<1> HIDE DEF s
<1>4. slots' \in [Mic -> Slot] /\ slots'[m].at = slots[m].at /\ \A n \in Mic \ {m} : slots'[n] = slots[n]
  BY <1>2, <1>3, Here
<1>5. /\ Round /\ slots[m].at = "idle" /\ ~manual[m].present /\ Known(m) /\ retry' \subseteq Mic
      /\ driver' = [pc |-> "launch", mic |-> m]
      /\ UNCHANGED <<desired, stopped, asked, blocked, failures, fatal, accepted, manual, helper, open>>
  BY Here DEF Prepare
<1>6. OnlyHere(m)
  BY <1>5, Here DEF OnlyHere, DriverOK
<1>7. Fine(m)'
  BY <1>4, <1>5, Here DEF Fine, Owned, Finished, Remembered, Running, Known
<1>8. QED
  BY <1>4, <1>5, <1>6, <1>7, Here, PlainStep

LEMMA LaunchStep ==
  ASSUME IInv, NEW m \in Mic, Launch(m)
  PROVE  IInv'
<1> DEFINE live == slots[m].want = "Live"
           mode == IF live THEN "hold" ELSE "mute"
           closing == ~live
           started == [slots[m] EXCEPT !.at = "guarded", !.closing = closing, !.muted = FALSE]
           s == IF slots[m].failed /\ Known(m)
                  THEN [started EXCEPT !.want = desired[m], !.fresh = TRUE]
                  ELSE started
<1>1. /\ driver = [pc |-> "launch", mic |-> m] /\ driver' = [pc |-> "round", mic |-> NoMic]
      /\ UNCHANGED <<accepted, manual, open>>
      /\ \/ helper' = [helper EXCEPT ![m] = Spawned(mode, live)] /\ slots' = [slots EXCEPT ![m] = s]
            /\ UNCHANGED mutex
         \/ Fail(m) /\ slots' = FailedSlots(m, slots[m]) /\ UNCHANGED helper
  BY DEF Launch
<1>2. slots[m].at = "idle" /\ ~manual[m].present /\ Known(m) /\ ~Running(m)
  BY <1>1, Here DEF Fine, Owned
<1>3. s \in Slot /\ s.at = "guarded"
  <2>1. closing \in BOOLEAN
    OBVIOUS
  <2> HIDE DEF closing
  <2>2. started \in Slot /\ started.at = "guarded"
    BY <2>1, Here DEF Slot
  <2> HIDE DEF started
  <2>3. QED
    BY <2>2, Here, SlotWants
<1>4. mode \in {"hold", "mute", "toggle"} /\ live \in BOOLEAN
  OBVIOUS
<1> HIDE DEF live, mode, s
<1>5. CASE /\ helper' = [helper EXCEPT ![m] = Spawned(mode, live)]
           /\ slots' = [slots EXCEPT ![m] = s] /\ UNCHANGED mutex
  <2>1. slots' \in [Mic -> Slot] /\ slots'[m].at = "guarded" /\ \A n \in Mic \ {m} : slots'[n] = slots[n]
    BY <1>3, <1>5, Here
  <2>2. /\ helper' \in [Mic -> Helper] /\ \A n \in Mic \ {m} : helper'[n] = helper[n]
        /\ helper'[m].at = "checking" /\ helper'[m].status = "running"
    BY <1>4, <1>5, Here, SpawnedHelper
  <2>3. OnlyHere(m)
    BY <1>1, <2>2, Here DEF OnlyHere, DriverOK
  <2>4. Fine(m)'
    BY <1>1, <1>2, <1>5, <2>1, <2>2, Here DEF mutex, Fine, Owned, Finished, Remembered, Known
  <2>5. QED
    BY <1>1, <1>5, <2>1, <2>3, <2>4, Here, PlainStep DEF mutex
<1>6. CASE Fail(m) /\ slots' = FailedSlots(m, slots[m]) /\ UNCHANGED helper
  <2>1. OnlyHere(m)
    BY <1>1, <1>6, Here DEF OnlyHere, DriverOK
  <2>2. Failure(m) /\ ~Running(m)'
    BY <1>2, <1>6, Here, FailIsFailure DEF Running
  <2>3. QED
    BY <1>1, <1>2, <1>6, <2>1, <2>2, Here, FailingStep
<1>7. QED
  BY <1>1, <1>5, <1>6

LEMMA RetireStep ==
  ASSUME IInv, NEW m \in Mic, Retire(m)
  PROVE  IInv'
<1>1. NoSlot \in Slot /\ NoSlot.at = "absent"
  BY Here, NewSlots
<1>2. slots' \in [Mic -> Slot] /\ slots'[m].at = "absent" /\ \A n \in Mic \ {m} : slots'[n] = slots[n]
  BY <1>1, Here DEF Retire
<1>3. OnlyHere(m)
  BY Here DEF Retire, OnlyHere, Stay
<1>4. Fine(m)'
  BY <1>2, Here DEF Retire, Round, Stay, mutex, Fine, Owned, Finished, Remembered, Running, Known
<1>5. QED
  BY <1>2, <1>3, <1>4, Here, PlainStep DEF Retire, Stay, mutex

-----------------------------------------------------------------------------
(* The toggles.                                                            *)

LEMMA ManualEnds ==
  ASSUME NEW s \in ManualSlot
  PROVE  /\ [s EXCEPT !.closing = TRUE] \in ManualSlot
         /\ [s EXCEPT !.closing = TRUE].present = s.present
         /\ [s EXCEPT !.committed = TRUE] \in ManualSlot
         /\ [s EXCEPT !.committed = TRUE].present = s.present
         /\ NoManual \in ManualSlot /\ ~NoManual.present
         /\ [NoManual EXCEPT !.present = TRUE] \in ManualSlot
         /\ [NoManual EXCEPT !.present = TRUE].present
BY DEF ManualSlot, NoManual

LEMMA ReadToggleFields ==
  ASSUME Typed, NEW m \in Mic
  PROVE  ReadToggle(m) \in ManualSlot /\ ReadToggle(m).present = manual[m].present
<1> DEFINE b == "muted" \in helper[m].out \/ (manual[m].muted /\ "live" \notin helper[m].out)
           c == manual[m].acknowledged \/ "committed" \in helper[m].out
<1>1. manual[m] \in ManualSlot /\ b \in BOOLEAN /\ c \in BOOLEAN
  BY DEF Typed, GuardianTypeOK, ManualSlot
<1>2. ReadToggle(m) = [manual[m] EXCEPT !.muted = b, !.acknowledged = c]
  BY DEF ReadToggle
<1> HIDE DEF b, c
<1>3. QED
  BY <1>1, <1>2 DEF ManualSlot

\* The toggle goes on: its process and its slot are the ones there were.
LEMMA ToggleGoesOn ==
  ASSUME IInv, NEW m \in Mic, UNCHANGED <<mutex, slots>>, Stay,
         manual' \in [Mic -> ManualSlot], helper' \in [Mic -> Helper],
         \A n \in Mic \ {m} : manual'[n] = manual[n] /\ helper'[n] = helper[n],
         manual'[m].present = manual[m].present,
         helper'[m].at = helper[m].at, helper'[m].status = helper[m].status
  PROVE  IInv'
<1>1. OnlyHere(m)
  BY Here DEF OnlyHere, Stay
<1>2. Fine(m)'
  BY Here DEF Stay, mutex, Fine, Owned, Finished, Remembered, Running, Known
<1>3. QED
  BY <1>1, <1>2, Here, PlainStep DEF Stay, mutex

LEMMA BeginToggleStep ==
  ASSUME IInv, NEW m \in Mic, BeginToggle(m)
  PROVE  IInv'
<1>1. /\ Round /\ slots[m].at = "absent" /\ ~manual[m].present
      /\ UNCHANGED <<accepted, driver, open>>
  BY DEF BeginToggle, Stay
<1>2. ~Running(m)
  BY <1>1, Here DEF Fine, Owned
<1>3. CASE /\ manual' = [manual EXCEPT ![m] = [NoManual EXCEPT !.present = TRUE]]
           /\ helper' = [helper EXCEPT ![m] = Spawned("toggle", TRUE)]
           /\ asked' = [asked EXCEPT ![m] = "taken"]
           /\ UNCHANGED <<desired, stopped, blocked, failures, fatal, retry, slots>>
  <2>1. /\ manual' \in [Mic -> ManualSlot] /\ \A n \in Mic \ {m} : manual'[n] = manual[n]
        /\ manual'[m].present
    BY <1>3, Here, ManualEnds
  <2>2. /\ helper' \in [Mic -> Helper] /\ \A n \in Mic \ {m} : helper'[n] = helper[n]
        /\ helper'[m].at = "checking" /\ helper'[m].status = "running"
    BY <1>3, Here, SpawnedHelper
  <2>3. OnlyHere(m)
    BY <1>1, <2>1, <2>2, Here DEF OnlyHere
  <2>4. Fine(m)'
    BY <1>1, <1>3, <2>1, <2>2, Here DEF Round, Fine, Owned, Finished, Remembered
  <2>5. asked' \in [Mic -> {"none", "fresh", "taken"}]
    BY <1>3, Here
  <2>6. QED
    BY <1>1, <1>3, <2>3, <2>4, <2>5, Here, PlainStep
<1>4. CASE Fail(m) /\ slots' = FailedSlots(m, slots[m]) /\ UNCHANGED <<manual, helper>>
  <2>1. OnlyHere(m)
    BY <1>1, <1>4, Here DEF OnlyHere
  <2>2. Failure(m) /\ ~Running(m)'
    BY <1>2, <1>4, Here, FailIsFailure DEF Running
  <2>3. QED
    BY <1>1, <1>4, <2>1, <2>2, Here, FailingStep DEF Round
<1>5. QED
  BY <1>3, <1>4 DEF BeginToggle

LEMMA WatchToggleStep ==
  ASSUME IInv, NEW m \in Mic, WatchToggle(m)
  PROVE  IInv'
<1>1. UNCHANGED <<mutex, slots>> /\ Stay
  BY DEF WatchToggle
<1>2. CASE helper' = [helper EXCEPT ![m].pulsed = TRUE] /\ UNCHANGED manual
  <2>1. /\ helper' \in [Mic -> Helper] /\ \A n \in Mic \ {m} : helper'[n] = helper[n]
        /\ helper'[m].at = helper[m].at /\ helper'[m].status = helper[m].status
    BY <1>2, Here, HelperFields
  <2>2. QED
    BY <1>1, <1>2, <2>1, Here, ToggleGoesOn
<1>3. CASE manual' = [manual EXCEPT ![m].closing = TRUE] /\ helper' = [helper EXCEPT ![m] = Closed(@)]
  <2>1. /\ manual' \in [Mic -> ManualSlot] /\ \A n \in Mic \ {m} : manual'[n] = manual[n]
        /\ manual'[m].present = manual[m].present
    BY <1>3, Here, ManualEnds
  <2>2. /\ helper' \in [Mic -> Helper] /\ \A n \in Mic \ {m} : helper'[n] = helper[n]
        /\ helper'[m].at = helper[m].at /\ helper'[m].status = helper[m].status
    BY <1>3, Here, HelperFields
  <2>3. QED
    BY <1>1, <2>1, <2>2, ToggleGoesOn
<1>4. QED
  BY <1>2, <1>3 DEF WatchToggle

LEMMA PollToggleStep ==
  ASSUME IInv, NEW m \in Mic, PollToggle(m)
  PROVE  IInv'
<1> DEFINE r == ReadToggle(m)
           committed == [r EXCEPT !.committed = TRUE]
           closing == [r EXCEPT !.closing = TRUE]
           read == [helper[m] EXCEPT !.out = {}]
           told == [helper[m] EXCEPT !.out = {}, !.commit = TRUE]
           closed == [Closed(helper[m]) EXCEPT !.out = {}]
<1>1. r \in ManualSlot /\ r.present = manual[m].present
  BY Here, ReadToggleFields
<1>2. \/ manual' = [manual EXCEPT ![m] = committed] /\ helper' = [helper EXCEPT ![m] = told]
      \/ manual' = [manual EXCEPT ![m] = closing] /\ helper' = [helper EXCEPT ![m] = closed]
      \/ manual' = [manual EXCEPT ![m] = r] /\ helper' = [helper EXCEPT ![m] = read]
  BY Here DEF PollToggle
<1> HIDE DEF r
<1>3. /\ committed \in ManualSlot /\ committed.present = r.present
      /\ closing \in ManualSlot /\ closing.present = r.present
  BY <1>1, ManualEnds
<1>4. /\ read \in Helper /\ read.at = helper[m].at /\ read.status = helper[m].status
      /\ told \in Helper /\ told.at = helper[m].at /\ told.status = helper[m].status
      /\ closed \in Helper /\ closed.at = helper[m].at /\ closed.status = helper[m].status
  BY Here, HelperFields
<1> HIDE DEF committed, closing, read, told, closed
<1>5. /\ manual' \in [Mic -> ManualSlot] /\ \A n \in Mic \ {m} : manual'[n] = manual[n]
      /\ manual'[m].present = manual[m].present
  BY <1>1, <1>2, <1>3, Here
<1>6. /\ helper' \in [Mic -> Helper] /\ \A n \in Mic \ {m} : helper'[n] = helper[n]
      /\ helper'[m].at = helper[m].at /\ helper'[m].status = helper[m].status
  BY <1>2, <1>4, Here
<1>7. QED
  BY <1>5, <1>6, ToggleGoesOn DEF PollToggle

LEMMA GarbledToggleStep ==
  ASSUME IInv, NEW m \in Mic, GarbledToggle(m)
  PROVE  IInv'
<1>1. /\ manual' \in [Mic -> ManualSlot] /\ \A n \in Mic \ {m} : manual'[n] = manual[n]
      /\ manual'[m].present = manual[m].present
  BY Here, ManualEnds DEF GarbledToggle
<1>2. /\ helper' \in [Mic -> Helper] /\ \A n \in Mic \ {m} : helper'[n] = helper[n]
      /\ helper'[m].at = helper[m].at /\ helper'[m].status = helper[m].status
  BY Here, HelperFields DEF GarbledToggle
<1>3. QED
  BY <1>1, <1>2, ToggleGoesOn DEF GarbledToggle

\* A toggle that ended well has muted, or left open what it was told to.
LEMMA EndToggleStep ==
  ASSUME IInv, NEW m \in Mic, EndToggle(m)
  PROVE  IInv'
<1>1. Round /\ manual[m].present /\ ~Running(m) /\ UNCHANGED <<accepted, driver, open>>
  BY DEF EndToggle, Stay
<1>2. /\ manual' \in [Mic -> ManualSlot] /\ \A n \in Mic \ {m} : manual'[n] = manual[n]
      /\ ~manual'[m].present
  BY Here, ManualEnds DEF EndToggle
<1>3. /\ helper' \in [Mic -> Helper] /\ \A n \in Mic \ {m} : helper'[n] = helper[n]
      /\ helper'[m].at = helper[m].at /\ helper'[m].status = helper[m].status
  BY Here, HelperFields DEF EndToggle
<1>4. OnlyHere(m) /\ slots[m].at # "guarded" /\ ~Running(m)'
  BY <1>1, <1>2, <1>3, Here DEF OnlyHere, Fine, Owned, Running
<1>5. CASE /\ helper[m].status = "ok"
           /\ asked' = [asked EXCEPT ![m] = IF @ = "taken" THEN "none" ELSE @]
           /\ UNCHANGED <<desired, stopped, blocked, failures, fatal, retry, slots>>
  <2>1. asked' \in [Mic -> {"none", "fresh", "taken"}]
    BY <1>5, Here
  <2>2. open[m] # "live"
    BY <1>5, Here DEF Fine, Finished
  <2>3. Fine(m)'
    BY <1>1, <1>2, <1>3, <1>4, <1>5, <2>2, Here DEF Round, Fine, Owned, Finished, Remembered
  <2>4. QED
    BY <1>1, <1>4, <1>5, <2>1, <2>3, Here, PlainStep
<1>6. CASE Fail(m) /\ slots' = FailedSlots(m, slots[m])
  <2>1. Failure(m)
    BY <1>6, Here, FailIsFailure
  <2>2. QED
    BY <1>1, <1>3, <1>4, <1>6, <2>1, Here, FailingStep DEF Round
<1>7. QED
  BY <1>5, <1>6 DEF EndToggle

LEMMA TimeoutToggleStep ==
  ASSUME IInv, NEW m \in Mic, TimeoutToggle(m)
  PROVE  IInv'
<1>1. Round /\ manual[m].present /\ UNCHANGED <<accepted, driver, open>>
  BY DEF TimeoutToggle, Stay
<1>2. slots[m].at # "guarded"
  BY <1>1, Here DEF Fine, Owned
<1>3. CASE /\ Fail(m) /\ slots' = FailedSlots(m, slots[m])
           /\ manual' = [manual EXCEPT ![m] = NoManual] /\ helper' = Killed(m)
  <2>1. /\ manual' \in [Mic -> ManualSlot] /\ \A n \in Mic \ {m} : manual'[n] = manual[n]
    BY <1>3, Here, ManualEnds
  <2>2. /\ helper' \in [Mic -> Helper] /\ \A n \in Mic \ {m} : helper'[n] = helper[n]
        /\ helper'[m].at = helper[m].at /\ helper'[m].status \in {helper[m].status, "bad"}
        /\ ~Running(m)'
    BY <1>3, Here, KilledHelper DEF Running
  <2>3. OnlyHere(m) /\ Failure(m)
    BY <1>1, <1>3, <2>1, <2>2, Here, FailIsFailure DEF OnlyHere
  <2>4. QED
    BY <1>1, <1>2, <1>3, <2>2, <2>3, Here, FailingStep DEF Round
<1>4. CASE /\ stopped' = TRUE /\ fatal' = TRUE /\ asked' = [n \in Mic |-> "none"]
           /\ desired' = AllMuted(desired) /\ slots' = Superseded(Mic)
           /\ helper' = [helper EXCEPT ![m] = Closed(@)]
           /\ UNCHANGED <<blocked, failures, retry, manual>>
  <2>1. /\ helper' \in [Mic -> Helper] /\ \A n \in Mic \ {m} : helper'[n] = helper[n]
        /\ helper'[m].at = helper[m].at /\ helper'[m].status = helper[m].status
    BY <1>4, Here, HelperFields
  <2>2. slots' \in [Mic -> Slot] /\ \A n \in Mic : slots'[n].at = slots[n].at
    BY <1>4, Here, SupersededShape
  <2>3. /\ desired' \in [Mic -> States]
        /\ \A n \in Mic : desired'[n] = IF desired[n] = "none" THEN "none" ELSE "Muted"
    BY <1>4, Here, AllMutedRows
  <2>4. Typed'
    BY <1>1, <1>4, <2>1, <2>2, <2>3, Here DEF Typed, GuardianTypeOK, States
  <2>5. Closing'
    BY <2>3 DEF Closing
  <2>6. Elsewhere(m)
    BY <1>1, <1>4, <2>1, <2>2, <2>3 DEF Elsewhere, Known
  <2>7. Fine(m)'
    BY <1>1, <1>4, <2>1, <2>2, <2>3, Here DEF Round, Fine, Owned, Finished, Remembered, Running, Known
  <2>8. QED
    BY <2>4, <2>5, <2>6, <2>7, Local
<1>5. QED
  BY <1>3, <1>4 DEF TimeoutToggle

-----------------------------------------------------------------------------
(* The rest of the driver, and the processes.                              *)

LEMMA ForgetStep ==
  ASSUME IInv, NEW m \in Mic, Forget(m)
  PROVE  IInv'
<1>1. OnlyHere(m) /\ asked' \in [Mic -> {"none", "fresh", "taken"}]
  BY Here DEF Forget, OnlyHere, Stay
<1>2. Fine(m)'
  BY Here DEF Forget, Stay, Fine, Owned, Finished, Remembered, Running, Known
<1>3. QED
  BY <1>1, <1>2, Here, PlainStep DEF Forget, Stay

LEMMA FinishStep ==
  ASSUME IInv, Finish
  PROVE  IInv'
<1>1. /\ driver' = [pc |-> "ended", mic |-> NoMic]
      /\ UNCHANGED <<desired, stopped, asked, blocked, failures, fatal, retry>>
      /\ UNCHANGED <<slots, accepted, manual, open>>
  BY DEF Finish, mutex
<1>2. PICK killed \in SUBSET {m \in Mic : Running(m)} :
        helper' = [m \in Mic |->
          IF manual[m].present \/ slots[m].at = "guarded"
            THEN [Closed(helper[m]) EXCEPT !.status = IF m \in killed THEN "bad" ELSE @]
            ELSE helper[m]]
  BY DEF Finish
<1>3. ASSUME NEW m \in Mic
      PROVE  /\ helper'[m] \in Helper /\ helper'[m].at = helper[m].at
             /\ helper'[m].status \in {helper[m].status, "bad"}
  <2> DEFINE status == IF m \in killed THEN "bad" ELSE Closed(helper[m]).status
             h == [Closed(helper[m]) EXCEPT !.status = status]
  <2>1. Closed(helper[m]) \in Helper /\ Closed(helper[m]).at = helper[m].at
        /\ Closed(helper[m]).status = helper[m].status
    BY Here, HelperFields
  <2>2. status \in {"running", "ok", "bad"} /\ status \in {helper[m].status, "bad"}
    BY <2>1 DEF Helper
  <2>3. helper'[m] \in {h, helper[m]}
    BY <1>2
  <2> HIDE DEF status
  <2>4. h \in Helper /\ h.at = helper[m].at /\ h.status = status
    BY <2>1, <2>2 DEF Helper
  <2> HIDE DEF h
  <2>5. QED
    BY <2>2, <2>3, <2>4, Here
<1>4. helper' \in [Mic -> Helper]
  BY <1>2, <1>3
<1>5. Typed' /\ Closing'
  BY <1>1, <1>4 DEF IInv, Typed, GuardianTypeOK, Closing
<1>6. ASSUME NEW m \in Mic PROVE Fine(m)'
  BY <1>1, <1>3, Here DEF Fine, Owned, Finished, Remembered, Running, Known
<1>7. QED
  BY <1>5, <1>6 DEF IInv

\* A process goes on: what it may do to the microphone.
LEMMA ProcessGoesOn ==
  ASSUME IInv, NEW m \in Mic, UNCHANGED helperUnchanged, Running(m),
         NEW h \in Helper, helper' = [helper EXCEPT ![m] = h],
         NEW o \in {"muted", "live", "kept"}, open' = [open EXCEPT ![m] = o],
         h.status = "ok" => h.at = "done", h.at = "done" => o # "live",
         Room /\ o = "live" => Known(m) \/ manual[m].present
  PROVE  IInv'
<1>1. /\ UNCHANGED <<desired, stopped, asked, blocked, failures, fatal, retry>>
      /\ UNCHANGED <<accepted, slots, manual, driver>>
  BY DEF helperUnchanged, mutex
<1>2. /\ helper' \in [Mic -> Helper] /\ helper'[m] = h /\ \A n \in Mic \ {m} : helper'[n] = helper[n]
      /\ open' \in [Mic -> {"muted", "live", "kept"}] /\ open'[m] = o
      /\ \A n \in Mic \ {m} : open'[n] = open[n]
  BY Here
<1>3. OnlyHere(m)
  BY <1>1, <1>2, Here DEF OnlyHere
<1>4. Fine(m)'
  BY <1>1, <1>2, Here DEF Fine, Owned, Finished, Remembered, Running, Known
<1>5. QED
  BY <1>1, <1>2, <1>3, <1>4, Here, PlainStep

LEMMA ProcessFields ==
  ASSUME NEW h \in Helper, NEW out \in SUBSET {"live", "muted", "committed"}
  PROVE  /\ [h EXCEPT !.at = "serving", !.out = out] \in Helper
         /\ [h EXCEPT !.at = "serving", !.out = out].at = "serving"
         /\ [h EXCEPT !.at = "serving", !.out = out].status = h.status
         /\ [h EXCEPT !.at = "done", !.out = out] \in Helper
         /\ [h EXCEPT !.at = "done", !.out = out].at = "done"
         /\ [h EXCEPT !.at = "done", !.out = out].status = h.status
BY DEF Helper

LEMMA OpensStep ==
  ASSUME IInv, NEW m \in Mic, Opens(m)
  PROVE  IInv'
<1> DEFINE o == IF helper[m].mode = "hold" \/ open[m] = "muted" THEN "live" ELSE "muted"
           out == helper[m].out \cup {o}
           h == [helper[m] EXCEPT !.at = "serving", !.out = out]
<1>1. o \in {"muted", "live", "kept"} /\ out \in SUBSET {"live", "muted", "committed"}
  BY Here DEF Helper
<1>2. helper' = [helper EXCEPT ![m] = h] /\ open' = [open EXCEPT ![m] = o]
  BY Here DEF Opens
<1> HIDE DEF o, out
<1>3. h \in Helper /\ h.at = "serving" /\ h.status = "running"
  BY <1>1, Here, ProcessFields DEF Opens, Running
<1> HIDE DEF h
<1>4. Running(m) /\ UNCHANGED helperUnchanged /\ (Known(m) \/ manual[m].present)
  BY Here DEF Opens, Fine, Owned
<1>5. QED
  BY <1>1, <1>2, <1>3, <1>4, ProcessGoesOn

LEMMA MutesStep ==
  ASSUME IInv, NEW m \in Mic, Mutes(m)
  PROVE  IInv'
<1> DEFINE out == IF helper[m].at = "serving" /\ open[m] = "muted" THEN helper[m].out
                                                                 ELSE helper[m].out \cup {"muted"}
           h == [helper[m] EXCEPT !.at = "done", !.out = out]
<1>1. out \in SUBSET {"live", "muted", "committed"}
  BY Here DEF Helper
<1>2. helper' = [helper EXCEPT ![m] = h] /\ open' = [open EXCEPT ![m] = "muted"]
  BY Here DEF Mutes
<1> HIDE DEF out
<1>3. h \in Helper /\ h.at = "done" /\ h.status = "running"
  BY <1>1, Here, ProcessFields DEF Mutes, Running
<1> HIDE DEF h
<1>4. Running(m) /\ UNCHANGED helperUnchanged
  BY DEF Mutes
<1>5. QED
  BY <1>2, <1>3, <1>4, ProcessGoesOn

LEMMA CommitsStep ==
  ASSUME IInv, NEW m \in Mic, Commits(m)
  PROVE  IInv'
<1> DEFINE o == IF open[m] = "live" THEN "kept" ELSE open[m]
           out == helper[m].out \cup {"committed"}
           h == [helper[m] EXCEPT !.at = "done", !.out = out]
<1>1. o \in {"muted", "live", "kept"} /\ o # "live" /\ out \in SUBSET {"live", "muted", "committed"}
  BY Here DEF Helper
<1>2. helper' = [helper EXCEPT ![m] = h] /\ open' = [open EXCEPT ![m] = o]
  BY Here DEF Commits
<1> HIDE DEF o, out
<1>3. h \in Helper /\ h.at = "done" /\ h.status = "running"
  BY <1>1, Here, ProcessFields DEF Commits, Running
<1> HIDE DEF h
<1>4. Running(m) /\ UNCHANGED helperUnchanged
  BY DEF Commits
<1>5. QED
  BY <1>1, <1>2, <1>3, <1>4, ProcessGoesOn

LEMMA ExitsStep ==
  ASSUME IInv, NEW m \in Mic, Exits(m)
  PROVE  IInv'
<1> DEFINE ok == [helper[m] EXCEPT !.status = "ok"]
           bad == [helper[m] EXCEPT !.status = "bad"]
<1>1. /\ ok \in Helper /\ ok.at = helper[m].at
      /\ bad \in Helper /\ bad.at = helper[m].at /\ bad.status = "bad"
  BY Here DEF Helper
<1>2. \/ helper[m].at = "done" /\ helper' = [helper EXCEPT ![m] = ok]
      \/ helper' = [helper EXCEPT ![m] = bad]
  BY DEF Exits
<1>3. /\ Running(m) /\ UNCHANGED helperUnchanged
      /\ open[m] \in {"muted", "live", "kept"} /\ open' = [open EXCEPT ![m] = open[m]]
  BY Here DEF Exits
<1>4. helper[m].at = "done" => open[m] # "live"
  BY Here DEF Fine, Finished
<1>5. Room /\ open[m] = "live" => Known(m) \/ manual[m].present
  BY Here DEF Fine, Remembered
<1> HIDE DEF ok, bad
<1>6. CASE helper[m].at = "done" /\ helper' = [helper EXCEPT ![m] = ok]
  BY <1>1, <1>3, <1>4, <1>5, <1>6, ProcessGoesOn
<1>7. CASE helper' = [helper EXCEPT ![m] = bad]
  BY <1>1, <1>3, <1>4, <1>5, <1>7, ProcessGoesOn
<1>8. QED
  BY <1>2, <1>6, <1>7

-----------------------------------------------------------------------------
(* The theorems.                                                           *)

LEMMA InitIInv == Init => IInv
<1> SUFFICES ASSUME Init PROVE IInv
  OBVIOUS
<1>1. NoSlot \in Slot /\ NoManual \in ManualSlot /\ NoHelper \in Helper
  <2>1. 0 \in 0..MaxAttempts
    BY GuardianAssumption
  <2>2. QED
    BY <2>1 DEF Slot, NoSlot, ManualSlot, NoManual, Helper, NoHelper
<1>2. Typed
  BY <1>1 DEF Init, Typed, GuardianTypeOK
<1>3. Closing
  BY DEF Init, Closing
<1>4. ASSUME NEW m \in Mic PROVE Fine(m)
  BY DEF Init, NoSlot, NoHelper, NoManual, Fine, Owned, Finished, Remembered, Running, Known
<1>5. QED
  BY <1>2, <1>3, <1>4 DEF IInv

LEMMA NextIInv == IInv /\ [Next]_vars => IInv'
<1> SUFFICES ASSUME IInv, [Next]_vars PROVE IInv'
  OBVIOUS
<1>1. CASE Host
  BY <1>1, HostStep
<1>2. CASE Finish
  BY <1>2, FinishStep
<1>3. ASSUME NEW m \in Mic, Visit(m) PROVE IInv'
  BY <1>3, AdoptStep, CloseStep, PulseStep, PollStep, GarbledStep, SettleStep, TimeoutStep,
     PrepareStep, LaunchStep, RetireStep DEF Visit
<1>4. ASSUME NEW m \in Mic, VisitToggle(m) PROVE IInv'
  BY <1>4, ForgetStep, BeginToggleStep, WatchToggleStep, PollToggleStep, EndToggleStep,
     GarbledToggleStep, TimeoutToggleStep DEF VisitToggle
<1>5. ASSUME NEW m \in Mic, Process(m) PROVE IInv'
  BY <1>5, OpensStep, MutesStep, CommitsStep, ExitsStep DEF Process
<1>6. CASE UNCHANGED vars
  BY <1>6 DEF vars, mutex, IInv, Typed, GuardianTypeOK, Closing, Fine, Owned, Finished,
     Remembered, Running, Known
<1>7. QED
  BY <1>1, <1>2, <1>3, <1>4, <1>5, <1>6 DEF Next

\* The inductive invariant holds in every reachable state: whatever times out, fails
\* or is reported garbled, what the driver of shared_microphone.rs remembers of a
\* target tells who owns its helper process and what must still be undone.
THEOREM Invariance == Spec => []IInv
BY InitIInv, NextIInv, PTL DEF Spec

\* The state stays well formed.
THEOREM TypeCorrect == Spec => []GuardianTypeOK
<1>1. IInv => GuardianTypeOK
  BY DEF IInv, Typed
<1>2. QED
  BY <1>1, Invariance, PTL

\* Two processes never own one microphone, whatever hangs or cannot be killed.
THEOREM WritersAreOwned == Spec => []OneWriter
<1>1. IInv => OneWriter
  <2> SUFFICES ASSUME IInv, NEW m \in Mic
               PROVE  /\ ~(slots[m].at = "guarded" /\ manual[m].present)
                      /\ Running(m) => slots[m].at = "guarded" \/ manual[m].present
                      /\ driver = [pc |-> "launch", mic |-> m] => ~Running(m)
    BY DEF OneWriter
  <2>1. Owned(m)
    BY Here DEF Fine
  <2>2. QED
    BY <2>1 DEF Owned
<1>2. QED
  BY <1>1, Invariance, PTL

\* What failed is not wanted Live before a mute of it was confirmed.
THEOREM RecoveryStaysMuted == Spec => []RecoveryNotLive
<1>1. IInv => RecoveryNotLive
  BY DEF IInv, Typed, GuardianTypeOK, Closing, RecoveryNotLive
<1>2. QED
  BY <1>1, Invariance, PTL

\* With room for a mute of every microphone, none that was opened for a hold or
\* a toggle is forgotten while it is open.
THEOREM OpenIsRemembered == Room => (Spec => []NeverForgotten)
<1> SUFFICES ASSUME Room PROVE Spec => []NeverForgotten
  OBVIOUS
<1>1. IInv => NeverForgotten
  <2> SUFFICES ASSUME IInv, NEW m \in Mic, open[m] = "live"
               PROVE  Known(m) \/ manual[m].present
    BY DEF NeverForgotten
  <2>1. QED
    BY Here DEF Fine, Remembered
<1>2. QED
  BY <1>1, Invariance, PTL

-----------------------------------------------------------------------------
(* The rows change as the coordinator's abstraction allows.                *)

\* What a step does to the rows.
Allowed ==
  /\ stopped => stopped'
  /\ \A n \in Mic : desired'[n] \in {desired[n], "Muted", "Live"}
                      \/ (desired[n] = "Muted" /\ desired'[n] = "none")

LEMMA FailureAllowed ==
  ASSUME NEW m \in Mic, Failure(m)
  PROVE  Allowed
BY DEF Failure, MutedOnly, Allowed

LEMMA HostAllowed == IInv /\ Host => Allowed
<1> SUFFICES ASSUME IInv, Host PROVE Allowed
  OBVIOUS
<1>1. Typed
  BY DEF IInv
<1>2. ASSUME NEW m \in Mic, Acquire(m) PROVE Allowed
  BY <1>1, <1>2 DEF Acquire, Allowed, Typed, GuardianTypeOK
<1>3. ASSUME NEW m \in Mic, Unhold(m) PROVE Allowed
  BY <1>1, <1>3 DEF Unhold, Allowed, Typed, GuardianTypeOK
<1>4. ASSUME NEW m \in Mic, Mute(m) PROVE Allowed
  BY <1>1, <1>4 DEF Mute, Allowed, Typed, GuardianTypeOK
<1>5. ASSUME NEW m \in Mic, Toggle(m) \/ Fence(m) PROVE Allowed
  BY <1>5 DEF Toggle, Fence, mutex, Allowed
<1>6. ASSUME TakeFailures PROVE Allowed
  BY <1>6 DEF TakeFailures, Allowed
<1>7. ASSUME Stop PROVE Allowed
  BY <1>1, <1>7, AllMutedRows DEF Stop, Allowed, Typed, GuardianTypeOK, States
<1>8. QED
  BY <1>2, <1>3, <1>4, <1>5, <1>6, <1>7 DEF Host

LEMMA DriverAllowed ==
  ASSUME IInv, NEW m \in Mic, Visit(m) \/ VisitToggle(m)
  PROVE  Allowed
<1>1. Typed
  BY DEF IInv
<1>2. UNCHANGED <<desired, stopped>> => Allowed
  BY DEF Allowed
<1>3. Fail(m) \/ Abandon(m) => Allowed
  BY <1>1, FailIsFailure, AbandonIsFailure, FailureAllowed
<1>4. CASE Adopt(m) \/ Close(m) \/ Prepare(m) \/ Retire(m)
  BY <1>2, <1>4 DEF Adopt, Close, Prepare, Retire, mutex
<1>5. CASE Pulse(m) \/ Poll(m) \/ Garbled(m) \/ Launch(m)
  BY <1>2, <1>3, <1>5 DEF Pulse, Poll, Garbled, Launch, mutex
<1>6. CASE Settle(m)
  BY <1>1, <1>3, <1>6 DEF Settle, Allowed, Typed, GuardianTypeOK
<1>7. CASE Timeout(m)
  BY <1>3, <1>7 DEF Timeout
<1>8. CASE Forget(m) \/ WatchToggle(m) \/ PollToggle(m) \/ GarbledToggle(m)
  BY <1>2, <1>8 DEF Forget, WatchToggle, PollToggle, GarbledToggle, mutex
<1>9. CASE BeginToggle(m) \/ EndToggle(m)
  BY <1>2, <1>3, <1>9 DEF BeginToggle, EndToggle
<1>10. CASE TimeoutToggle(m)
  BY <1>1, <1>3, <1>10, AllMutedRows DEF TimeoutToggle, Allowed, Typed, GuardianTypeOK, States
<1>11. QED
  BY <1>4, <1>5, <1>6, <1>7, <1>8, <1>9, <1>10 DEF Visit, VisitToggle

LEMMA NextAllowed == IInv /\ [Next]_vars => Allowed
<1> SUFFICES ASSUME IInv, [Next]_vars PROVE Allowed
  OBVIOUS
<1>1. CASE UNCHANGED vars \/ Finish
  BY <1>1 DEF vars, mutex, Finish, Allowed
<1>2. ASSUME NEW m \in Mic, Process(m) PROVE Allowed
  BY <1>2 DEF Process, Opens, Mutes, Commits, Exits, helperUnchanged, mutex, Allowed
<1>3. QED
  BY <1>1, <1>2, HostAllowed, DriverAllowed DEF Next

\* The driver follows the desired state as the coordinator publishes it: it only
\* adds mutes, and retires a row only from Muted.
THEOREM GuardianImplementsDesired == Spec => ImplementsDesired
<1>1. Init => Desired!Init
  BY DEF Init, Desired!Init
<1>2. IInv /\ IInv' /\ [Next]_vars => [Desired!Next]_<<desired, stopped>>
  <2> SUFFICES ASSUME IInv, IInv', [Next]_vars PROVE Desired!Next
    OBVIOUS
  <2>1. Allowed
    BY NextAllowed
  <2>2. desired' \in [Mic -> {"none", "Muted", "Live"}] /\ stopped' \in BOOLEAN
    BY DEF IInv, Typed, GuardianTypeOK
  <2>3. \A m \in Mic : Desired!MayBecome(desired[m], desired'[m])
    BY <2>1 DEF Allowed, Desired!MayBecome
  <2>4. Desired!Change
    BY <2>2, <2>3 DEF Desired!Change
  <2>5. stopped' => \A m \in Mic : desired'[m] # "Live"
    BY DEF IInv, Closing
  <2>6. QED
    BY <2>1, <2>2, <2>4, <2>5 DEF Desired!Next, Allowed
<1>3. QED
  BY <1>1, <1>2, Invariance, PTL DEF Spec, ImplementsDesired, Desired!Spec

=============================================================================
