------------------------- MODULE MicrophoneGuardian -------------------------
(***************************************************************************)
(* The owner of the shared microphones                                     *)
(* (apps/decksmith-daemon/src/shared_microphone.rs): one driver thread     *)
(* follows the desired state of every target with helper processes, at     *)
(* most one for each, and the helper itself                                *)
(* (apps/decksmith-studio/shared_microphone_native.py).                    *)
(*                                                                         *)
(* The coordinator appears as the desired state it publishes (the          *)
(* abstraction DesiredMics that MicrophoneHolds implements); a revision as *)
(* whether the driver's slot holds the target's latest one (`fresh`); time *)
(* as the choice of when a retry is due or a timeout has passed.  A step   *)
(* is a critical section of the mutex, or a call of a helper.              *)
(***************************************************************************)
EXTENDS Integers, FiniteSets

CONSTANTS
  Mic,           \* canonical microphone targets
  MaxTargets,    \* MAX_TARGETS
  MaxAttempts,   \* MAX_ATTEMPTS
  Reconnectable, \* the targets the factory may probe again
  NoMic

ASSUME GuardianAssumption ==
  /\ IsFiniteSet(Mic) /\ NoMic \notin Mic
  /\ MaxTargets \in Nat /\ MaxAttempts \in Nat \ {0}
  /\ Reconnectable \subseteq Mic

VARIABLES
  desired,  \* the rows of the coordinator
  stopped,  \* State.stopped, set together with the coordinator's
  asked,    \* State.manual: toggles not finished yet
  blocked,  \* targets whose recovery is pending
  failures, \* targets with a failure nobody took yet
  fatal,    \* State.fatal is set
  retry,    \* targets with an explicit mute newer than their slot has seen
  accepted, \* targets whose toggle comes from a scope that is current
  slots,    \* Driver.slots
  manual,   \* Driver.manual
  driver,   \* where the thread is
  helper,   \* the last process started for a target
  open      \* what the microphone really is

mutex == <<desired, stopped, asked, blocked, failures, fatal, retry>>
vars == <<desired, stopped, asked, blocked, failures, fatal, retry, accepted,
          slots, manual, driver, helper, open>>

Slot == [at: {"absent", "idle", "guarded"}, want: {"Live", "Muted"}, fresh: BOOLEAN,
         closing: BOOLEAN, muted: BOOLEAN, attempts: 0..MaxAttempts, failed: BOOLEAN]
NoSlot == [at |-> "absent", want |-> "Muted", fresh |-> FALSE, closing |-> FALSE,
           muted |-> FALSE, attempts |-> 0, failed |-> FALSE]

ManualSlot == [present: BOOLEAN, closing: BOOLEAN, committed: BOOLEAN,
               acknowledged: BOOLEAN, muted: BOOLEAN]
NoManual == [present |-> FALSE, closing |-> FALSE, committed |-> FALSE,
             acknowledged |-> FALSE, muted |-> FALSE]

\* A helper reads `hold` and `commit` lines until the end of its input.
Helper == [mode: {"hold", "mute", "toggle"}, at: {"checking", "serving", "done"},
           status: {"running", "ok", "bad"}, input: BOOLEAN, pulsed: BOOLEAN,
           commit: BOOLEAN, out: SUBSET {"live", "muted", "committed"}]
NoHelper == [mode |-> "mute", at |-> "done", status |-> "bad", input |-> FALSE,
             pulsed |-> FALSE, commit |-> FALSE, out |-> {}]
Spawned(mode, input) ==
  [mode |-> mode, at |-> "checking", status |-> "running", input |-> input,
   pulsed |-> FALSE, commit |-> FALSE, out |-> {}]

Running(m) == helper[m].status = "running"
Known(m) == desired[m] # "none"
Targets == {m \in Mic : Known(m)}
Asked == {m \in Mic : asked[m] # "none"}

Init ==
  /\ desired = [m \in Mic |-> "none"] /\ stopped = FALSE
  /\ asked = [m \in Mic |-> "none"]
  /\ blocked = {} /\ failures = {} /\ fatal = FALSE /\ retry = {}
  /\ accepted = Mic
  /\ slots = [m \in Mic |-> NoSlot] /\ manual = [m \in Mic |-> NoManual]
  /\ driver = [pc |-> "round", mic |-> NoMic]
  /\ helper = [m \in Mic |-> NoHelper]
  /\ open = [m \in Mic |-> "muted"]

-----------------------------------------------------------------------------
(* Faulty variants, for the mutation checks.                               *)

WithoutMute(m) == desired

PrepareBesideToggle(m) ==
  /\ driver.pc = "round" /\ slots[m].at = "idle" /\ Known(m)
  /\ slots[m].attempts < MaxAttempts
  /\ slots' = [slots EXCEPT ![m].want = desired[m], ![m].fresh = TRUE,
                            ![m].attempts = IF desired[m] = "Muted" THEN @ + 1 ELSE @]
  /\ driver' = [pc |-> "launch", mic |-> m]
  /\ UNCHANGED <<mutex, accepted, manual, helper, open>>

SettleAnyExit(m) ==
  /\ driver = [pc |-> "settle", mic |-> m]
  /\ driver' = [pc |-> "round", mic |-> NoMic]
  /\ slots' = [slots EXCEPT ![m].at = "idle", ![m].attempts = 0, ![m].failed = FALSE]
  /\ desired' = IF desired[m] = "Muted" THEN [desired EXCEPT ![m] = "none"] ELSE desired
  /\ blocked' = blocked \ {m} /\ retry' = retry \ {m}
  /\ UNCHANGED <<stopped, asked, failures, fatal, accepted, manual, helper, open>>

SettleNewerLive(m) ==
  /\ driver = [pc |-> "settle", mic |-> m]
  /\ driver' = [pc |-> "round", mic |-> NoMic]
  /\ slots' = [slots EXCEPT ![m].at = "idle", ![m].attempts = 0, ![m].failed = FALSE]
  /\ desired' = [desired EXCEPT ![m] = "none"]
  /\ blocked' = blocked \ {m} /\ retry' = retry \ {m}
  /\ UNCHANGED <<stopped, asked, failures, fatal, accepted, manual, helper, open>>

NoTimeout(m) == FALSE

-----------------------------------------------------------------------------
(* What calls do to the rows.                                              *)

\* A row gets a new revision: what the driver holds of it is superseded.
Superseded(ms) ==
  [m \in Mic |-> IF m \in ms THEN [slots[m] EXCEPT !.fresh = FALSE] ELSE slots[m]]

\* explicit_mute; a full coordinator refuses a target it does not know.
MuteFits(m) == Known(m) \/ Cardinality(Targets) < MaxTargets
WithMute(m) == IF MuteFits(m) THEN [desired EXCEPT ![m] = "Muted"] ELSE desired

\* stop of the coordinator: every known target is to be muted.
AllMuted(rows) == [m \in Mic |-> IF rows[m] = "none" THEN "none" ELSE "Muted"]

\* Driver::fail, in the code with the mutex held.  Too many failures that
\* nobody takes stop the service.
Fail(m) ==
  /\ asked' = [asked EXCEPT ![m] = "none"]
  /\ blocked' = blocked \cup {m}
  /\ IF m \in failures \/ Cardinality(failures) < MaxTargets
       THEN /\ failures' = failures \cup {m}
            /\ desired' = WithMute(m)
            /\ UNCHANGED <<fatal, stopped>>
       ELSE /\ desired' = AllMuted(WithMute(m))
            /\ fatal' = TRUE /\ stopped' = TRUE
            /\ UNCHANGED failures
  /\ UNCHANGED retry

\* The slots after Fail(m): s is what the driver makes of its own.
FailedSlots(m, s) ==
  [n \in Mic |->
     IF n = m THEN [s EXCEPT !.fresh = FALSE, !.failed = TRUE]
              ELSE [slots[n] EXCEPT !.fresh = @ /\ desired'[n] = desired[n]]]

\* A writer that cannot be terminated: nothing is ever opened again.
Abandon(m) ==
  /\ blocked' = blocked \cup {m}
  /\ failures' = IF Cardinality(failures) < MaxTargets THEN failures \cup {m} ELSE failures
  /\ asked' = [asked EXCEPT ![m] = "none"]
  /\ desired' = AllMuted(WithMute(m))
  /\ stopped' = TRUE /\ fatal' = TRUE
  /\ UNCHANGED retry

-----------------------------------------------------------------------------
(* The host: calls of the service.                                         *)

hostUnchanged == <<manual, driver, helper, open>>

\* Acquire, with a press that MicrophoneHolds accepts: one more holder of a
\* Live target changes nothing.  A target in recovery is muted again.
Acquire(m) ==
  /\ ~stopped
  /\ \/ Known(m)
     \/ Cardinality(Targets) + Cardinality(Asked \ (Targets \cup {m})) < MaxTargets
  /\ asked' = [asked EXCEPT ![m] = "none"]
  /\ IF m \in blocked
       THEN desired' = [desired EXCEPT ![m] = "Muted"] /\ slots' = Superseded({m})
       ELSE /\ desired' = [desired EXCEPT ![m] = "Live"]
            /\ slots' = IF desired[m] = "Live" THEN slots ELSE Superseded({m})
  /\ UNCHANGED <<stopped, blocked, failures, fatal, retry, accepted, hostUnchanged>>

\* The last hold of m is released, expires or is fenced: release, heartbeat,
\* invalidate, or the `maintain` of any other call, the driver's included.
Unhold(m) ==
  /\ desired[m] = "Live"
  /\ desired' = [desired EXCEPT ![m] = "Muted"]
  /\ slots' = Superseded({m})
  /\ UNCHANGED <<stopped, asked, blocked, failures, fatal, retry, accepted, hostUnchanged>>

\* mute, called directly or by a toggle of a target that is held or blocked.
Mute(m) ==
  /\ ~stopped
  /\ m \in Targets \cup Asked \/ Cardinality(Targets \cup Asked) < MaxTargets
  /\ MuteFits(m)
  /\ desired' = [desired EXCEPT ![m] = "Muted"]
  /\ slots' = Superseded({m})
  /\ asked' = [asked EXCEPT ![m] = "none"]
  /\ retry' = retry \cup {m}
  /\ UNCHANGED <<stopped, blocked, failures, fatal, accepted, hostUnchanged>>

\* toggle of a target nobody holds.
Toggle(m) ==
  /\ ~stopped /\ m \in accepted
  /\ ~Known(m) /\ m \notin blocked /\ asked[m] = "none"
  /\ Cardinality(Targets) + Cardinality(Asked) < MaxTargets
  /\ asked' = [asked EXCEPT ![m] = "fresh"]
  /\ UNCHANGED <<desired, stopped, blocked, failures, fatal, retry, accepted, slots, hostUnchanged>>

TakeFailures ==
  /\ failures # {} /\ failures' = {}
  /\ UNCHANGED <<desired, stopped, asked, blocked, fatal, retry, accepted, slots, hostUnchanged>>

Stop ==
  /\ ~stopped /\ stopped' = TRUE
  /\ asked' = [m \in Mic |-> "none"]
  /\ desired' = AllMuted(desired)
  /\ slots' = Superseded(Mic)
  /\ UNCHANGED <<blocked, failures, fatal, retry, accepted, hostUnchanged>>

Fence(m) ==
  /\ accepted' \in {accepted \cup {m}, accepted \ {m}}
  /\ UNCHANGED <<mutex, slots, hostUnchanged>>

-----------------------------------------------------------------------------
(* The driver thread: Driver::step visits one target after the other.      *)

Round == driver.pc = "round"
Stay == UNCHANGED <<accepted, driver, open>>

Closed(h) == [h EXCEPT !.input = FALSE]

\* A slot for every row.
Adopt(m) ==
  /\ Round /\ Known(m) /\ slots[m].at = "absent"
  /\ slots' = [slots EXCEPT ![m] = [NoSlot EXCEPT !.at = "idle", !.want = desired[m], !.fresh = TRUE]]
  /\ retry' = retry \ {m}
  /\ UNCHANGED <<desired, stopped, asked, blocked, failures, fatal, manual, helper>> /\ Stay

\* The guardian of a Live target gets a heartbeat while the row is the one it
\* was started for, and the end of its input once it is not.
StillWanted(m) == desired[m] = "Live" /\ slots[m].fresh

Close(m) ==
  /\ Round /\ slots[m].at = "guarded" /\ ~slots[m].closing /\ ~StillWanted(m)
  /\ slots' = [slots EXCEPT ![m].closing = TRUE]
  /\ helper' = [helper EXCEPT ![m] = Closed(@)]
  /\ UNCHANGED <<mutex, manual>> /\ Stay

Pulse(m) ==
  /\ Round /\ slots[m].at = "guarded" /\ ~slots[m].closing /\ StillWanted(m)
  /\ \/ /\ Running(m)
        /\ helper' = [helper EXCEPT ![m].pulsed = TRUE]
        /\ UNCHANGED <<mutex, slots>>
     \/ /\ Fail(m)  \* a full or broken pipe
        /\ slots' = FailedSlots(m, [slots[m] EXCEPT !.closing = TRUE])
        /\ helper' = [helper EXCEPT ![m] = Closed(@)]
  /\ UNCHANGED manual /\ Stay

\* Guardian::poll reads what the helper wrote.  Of an ended one the slot is
\* settled in further critical sections.
Poll(m) ==
  /\ Round /\ slots[m].at = "guarded"
  /\ LET read == [slots[m] EXCEPT !.muted = @ \/ "muted" \in helper[m].out]
     IN  /\ helper' = [helper EXCEPT ![m].out = {}]
         /\ IF Running(m)
              THEN /\ helper[m].out # {}
                   /\ slots' = [slots EXCEPT ![m] = read]
                   /\ UNCHANGED <<mutex, driver>>
              ELSE /\ driver' = [pc |-> "settle", mic |-> m]
                   /\ IF slots[m].closing
                        THEN slots' = [slots EXCEPT ![m] = read] /\ UNCHANGED mutex
                        ELSE Fail(m) /\ slots' = FailedSlots(m, read)
  /\ UNCHANGED <<accepted, manual, open>>

\* What the helper wrote is no protocol.
Garbled(m) ==
  /\ Round /\ slots[m].at = "guarded"
  /\ helper' = [helper EXCEPT ![m] = Closed(@)]
  /\ IF slots[m].failed
       THEN slots' = [slots EXCEPT ![m].closing = TRUE] /\ UNCHANGED mutex
       ELSE Fail(m) /\ slots' = FailedSlots(m, [slots[m] EXCEPT !.closing = TRUE])
  /\ UNCHANGED manual /\ Stay

\* A mute that was reported, and a successful exit, satisfy the target's latest
\* mute; everything else is a failure.
Settle(m) ==
  /\ driver = [pc |-> "settle", mic |-> m]
  /\ driver' = [pc |-> "round", mic |-> NoMic]
  /\ IF helper[m].status = "ok" /\ slots[m].muted
       THEN /\ slots' = [slots EXCEPT ![m].at = "idle", ![m].attempts = 0, ![m].failed = FALSE]
            /\ IF desired[m] = "Muted"
                 THEN /\ desired' = [desired EXCEPT ![m] = "none"]
                      /\ blocked' = blocked \ {m} /\ retry' = retry \ {m}
                 ELSE UNCHANGED <<desired, blocked, retry>>
            /\ UNCHANGED <<stopped, asked, failures, fatal>>
       ELSE Fail(m) /\ slots' = FailedSlots(m, [slots[m] EXCEPT !.at = "idle"])
  /\ UNCHANGED <<accepted, manual, helper, open>>

\* GUARD_TIMEOUT_MS after the close the helper is killed, which may fail.
Killed(m) ==
  [helper EXCEPT ![m] = [Closed(helper[m]) EXCEPT !.status = IF Running(m) THEN "bad" ELSE helper[m].status]]

Timeout(m) ==
  /\ Round /\ slots[m].at = "guarded" /\ slots[m].closing
  /\ \/ /\ Fail(m)
        /\ slots' = FailedSlots(m, [slots[m] EXCEPT !.at = "idle"])
        /\ helper' = Killed(m)
     \/ /\ Running(m)
        /\ Abandon(m)
        /\ slots' = FailedSlots(m, slots[m])
        /\ helper' = [helper EXCEPT ![m] = Closed(@)]
  /\ UNCHANGED manual /\ Stay

\* The next helper of an idle slot: not beside a toggle, not before its time,
\* and a bounded number of mutes.  An explicit mute resets the budget, and a
\* reconnectable target is probed once more while the service runs.
Budget(m) ==
  CASE slots[m].failed /\ m \in retry -> 0
    [] slots[m].attempts = MaxAttempts /\ desired[m] = "Muted" /\ ~stopped /\ m \in Reconnectable
         -> MaxAttempts - 1
    [] OTHER -> slots[m].attempts

Prepare(m) ==
  /\ Round /\ slots[m].at = "idle" /\ ~manual[m].present /\ Known(m)
  /\ Budget(m) < MaxAttempts
  /\ slots' = [slots EXCEPT
       ![m].want = desired[m], ![m].fresh = TRUE,
       ![m].attempts = IF desired[m] = "Muted" THEN Budget(m) + 1 ELSE Budget(m)]
  /\ retry' = IF slots[m].failed THEN retry \ {m} ELSE retry
  /\ driver' = [pc |-> "launch", mic |-> m]
  /\ UNCHANGED <<desired, stopped, asked, blocked, failures, fatal, accepted, manual, helper, open>>

Launch(m) ==
  /\ driver = [pc |-> "launch", mic |-> m]
  /\ driver' = [pc |-> "round", mic |-> NoMic]
  /\ LET live == slots[m].want = "Live"
         started == [slots[m] EXCEPT !.at = "guarded", !.closing = ~live, !.muted = FALSE]
     IN  \/ /\ helper' = [helper EXCEPT ![m] = Spawned(IF live THEN "hold" ELSE "mute", live)]
            /\ slots' = [slots EXCEPT ![m] =
                 IF slots[m].failed /\ Known(m)
                   THEN [started EXCEPT !.want = desired[m], !.fresh = TRUE]
                   ELSE started]
            /\ UNCHANGED mutex
         \/ /\ Fail(m)
            /\ slots' = FailedSlots(m, slots[m])
            /\ UNCHANGED helper
  /\ UNCHANGED <<accepted, manual, open>>

\* Slots without a helper go with their row.
Retire(m) ==
  /\ Round /\ slots[m].at = "idle" /\ ~Known(m)
  /\ slots' = [slots EXCEPT ![m] = NoSlot]
  /\ UNCHANGED <<mutex, manual, helper>> /\ Stay

-----------------------------------------------------------------------------
(* Toggles (Driver::step_manual).                                          *)

\* Requests whose scope was fenced are forgotten.
Forget(m) ==
  /\ Round /\ asked[m] # "none" /\ m \notin accepted
  /\ asked' = [asked EXCEPT ![m] = "none"]
  /\ UNCHANGED <<desired, stopped, blocked, failures, fatal, retry, slots, manual, helper>> /\ Stay

BeginToggle(m) ==
  /\ Round /\ asked[m] = "fresh" /\ m \in accepted
  /\ slots[m].at = "absent" /\ ~manual[m].present
  /\ \/ /\ manual' = [manual EXCEPT ![m] = [NoManual EXCEPT !.present = TRUE]]
        /\ helper' = [helper EXCEPT ![m] = Spawned("toggle", TRUE)]
        /\ asked' = [asked EXCEPT ![m] = "taken"]
        /\ UNCHANGED <<desired, stopped, blocked, failures, fatal, retry, slots>>
     \/ /\ Fail(m)
        /\ slots' = FailedSlots(m, slots[m])
        /\ UNCHANGED <<manual, helper>>
  /\ Stay

\* The request the driver holds is still the one asked for, and allowed.
ToggleAllowed(m) == ~stopped /\ asked[m] = "taken" /\ m \in accepted

WatchToggle(m) ==
  /\ Round /\ manual[m].present /\ ~manual[m].closing /\ ~manual[m].committed
  /\ \/ /\ ToggleAllowed(m) /\ Running(m)
        /\ helper' = [helper EXCEPT ![m].pulsed = TRUE]
        /\ UNCHANGED manual
     \/ /\ manual' = [manual EXCEPT ![m].closing = TRUE]
        /\ helper' = [helper EXCEPT ![m] = Closed(@)]
  /\ UNCHANGED <<mutex, slots>> /\ Stay

\* What was read of the helper, with the write of the commit.
ReadToggle(m) ==
  LET out == helper[m].out
  IN  [manual[m] EXCEPT !.muted = "muted" \in out \/ (@ /\ "live" \notin out),
                        !.acknowledged = @ \/ "committed" \in out]
Answered(m) == helper[m].out \cap {"live", "muted"} # {} /\ ~manual[m].closing /\ ~manual[m].committed

PollToggle(m) ==
  /\ Round /\ manual[m].present /\ Running(m) /\ helper[m].out # {}
  /\ \/ /\ Answered(m) /\ ToggleAllowed(m)
        /\ manual' = [manual EXCEPT ![m] = [ReadToggle(m) EXCEPT !.committed = TRUE]]
        /\ helper' = [helper EXCEPT ![m].out = {}, ![m].commit = TRUE]
     \/ /\ Answered(m)  \* not allowed any more, or a broken pipe
        /\ manual' = [manual EXCEPT ![m] = [ReadToggle(m) EXCEPT !.closing = TRUE]]
        /\ helper' = [helper EXCEPT ![m] = [Closed(@) EXCEPT !.out = {}]]
     \/ /\ ~Answered(m)
        /\ manual' = [manual EXCEPT ![m] = ReadToggle(m)]
        /\ helper' = [helper EXCEPT ![m].out = {}]
  /\ UNCHANGED <<mutex, slots>> /\ Stay

\* An ended toggle is certain when it committed or was cancelled and muted.
\* An answer that comes with the exit can no longer be committed.
EndToggle(m) ==
  /\ Round /\ manual[m].present /\ ~Running(m)
  /\ LET read == ReadToggle(m)
         closing == read.closing \/ Answered(m)
     IN  IF /\ helper[m].status = "ok"
            /\ (read.committed /\ read.acknowledged) \/ (closing /\ read.muted)
           THEN /\ asked' = [asked EXCEPT ![m] = IF @ = "taken" THEN "none" ELSE @]
                /\ UNCHANGED <<desired, stopped, blocked, failures, fatal, retry, slots>>
           ELSE Fail(m) /\ slots' = FailedSlots(m, slots[m])
  /\ manual' = [manual EXCEPT ![m] = NoManual]
  /\ helper' = [helper EXCEPT ![m].out = {}]
  /\ Stay

GarbledToggle(m) ==
  /\ Round /\ manual[m].present
  /\ manual' = [manual EXCEPT ![m].closing = TRUE]
  /\ helper' = [helper EXCEPT ![m] = Closed(@)]
  /\ UNCHANGED <<mutex, slots>> /\ Stay

TimeoutToggle(m) ==
  /\ Round /\ manual[m].present
  /\ \/ /\ Fail(m)
        /\ slots' = FailedSlots(m, slots[m])
        /\ manual' = [manual EXCEPT ![m] = NoManual]
        /\ helper' = Killed(m)
     \/ /\ Running(m)
        /\ stopped' = TRUE /\ fatal' = TRUE
        /\ asked' = [n \in Mic |-> "none"]
        /\ desired' = AllMuted(desired)
        /\ slots' = Superseded(Mic)
        /\ helper' = [helper EXCEPT ![m] = Closed(@)]
        /\ UNCHANGED <<blocked, failures, retry, manual>>
  /\ Stay

\* `run` ends once it was stopped, when nothing is left to close, when only
\* exhausted mutes are left, or after ten seconds.  What is left is killed,
\* where it can be (quiesce).
Finish ==
  /\ Round /\ stopped
  /\ driver' = [pc |-> "ended", mic |-> NoMic]
  /\ \E killed \in SUBSET {m \in Mic : Running(m)} :
       helper' = [m \in Mic |->
         IF manual[m].present \/ slots[m].at = "guarded"
           THEN [Closed(helper[m]) EXCEPT !.status = IF m \in killed THEN "bad" ELSE @]
           ELSE helper[m]]
  /\ UNCHANGED <<mutex, slots, accepted, manual, open>>

-----------------------------------------------------------------------------
(* The helper process.                                                     *)

helperUnchanged == <<mutex, accepted, slots, manual, driver>>

\* After the first heartbeat, unless the end of the input is there already.
Opens(m) ==
  /\ Running(m) /\ helper[m].at = "checking" /\ helper[m].mode # "mute"
  /\ helper[m].pulsed /\ helper[m].input
  /\ LET live == helper[m].mode = "hold" \/ open[m] = "muted"
     IN  /\ open' = [open EXCEPT ![m] = IF live THEN "live" ELSE "muted"]
         /\ helper' = [helper EXCEPT ![m].at = "serving",
                         ![m].out = @ \cup {IF live THEN "live" ELSE "muted"}]
  /\ UNCHANGED helperUnchanged

\* Its mode, the end of the input, a missing heartbeat or a lost source.
Mutes(m) ==
  /\ Running(m) /\ helper[m].at # "done"
  /\ open' = [open EXCEPT ![m] = "muted"]
  /\ helper' = [helper EXCEPT ![m].at = "done",
       ![m].out = IF helper[m].at = "serving" /\ open[m] = "muted" THEN @  \* reported before
                  ELSE @ \cup {"muted"}]
  /\ UNCHANGED helperUnchanged

\* An explicit unmute stays after the host's commit: "kept".
Commits(m) ==
  /\ Running(m) /\ helper[m].at = "serving" /\ helper[m].mode = "toggle" /\ helper[m].commit
  /\ open' = [open EXCEPT ![m] = IF @ = "live" THEN "kept" ELSE @]
  /\ helper' = [helper EXCEPT ![m].at = "done", ![m].out = @ \cup {"committed"}]
  /\ UNCHANGED helperUnchanged

Exits(m) ==
  /\ Running(m)
  /\ \/ helper[m].at = "done" /\ helper' = [helper EXCEPT ![m].status = "ok"]
     \/ helper' = [helper EXCEPT ![m].status = "bad"]  \* any command may fail
  /\ UNCHANGED <<helperUnchanged, open>>

-----------------------------------------------------------------------------
Host ==
  \/ \E m \in Mic : Acquire(m) \/ Unhold(m) \/ Mute(m) \/ Toggle(m) \/ Fence(m)
  \/ TakeFailures \/ Stop

Visit(m) ==
  \/ Adopt(m) \/ Close(m) \/ Pulse(m) \/ Poll(m) \/ Garbled(m) \/ Settle(m) \/ Timeout(m)
  \/ Prepare(m) \/ Launch(m) \/ Retire(m)

VisitToggle(m) ==
  \/ Forget(m) \/ BeginToggle(m) \/ WatchToggle(m) \/ PollToggle(m) \/ EndToggle(m)
  \/ GarbledToggle(m) \/ TimeoutToggle(m)

Process(m) == Opens(m) \/ Mutes(m) \/ Commits(m) \/ Exits(m)

Next ==
  \/ Host \/ Finish
  \/ \E m \in Mic : Visit(m) \/ VisitToggle(m) \/ Process(m)

Spec == Init /\ [][Next]_vars

\* The thread visits every target in every round, and `run` polls every 20 ms
\* while a helper is left, so each deadline is noticed.  Nothing is asked of
\* the host, and nothing of the helper either: it may hang.
FairSpec == Spec /\ \A m \in Mic : SF_vars(Visit(m)) /\ SF_vars(VisitToggle(m))

-----------------------------------------------------------------------------
(* Properties.                                                             *)

\* Well-formed state; only a launch or a settlement names a target.
GuardianTypeOK ==
  /\ desired \in [Mic -> {"none", "Muted", "Live"}]
  /\ asked \in [Mic -> {"none", "fresh", "taken"}]
  /\ stopped \in BOOLEAN /\ fatal \in BOOLEAN
  /\ blocked \subseteq Mic /\ failures \subseteq Mic /\ retry \subseteq Mic
  /\ accepted \subseteq Mic
  /\ slots \in [Mic -> Slot] /\ manual \in [Mic -> ManualSlot]
  /\ driver.pc \in {"round", "settle", "launch", "ended"}
  /\ driver.mic \in IF driver.pc \in {"settle", "launch"} THEN Mic ELSE {NoMic}
  /\ helper \in [Mic -> Helper]
  /\ open \in [Mic -> {"muted", "live", "kept"}]

\* One fail-safe guardian per microphone: whatever process may still write to a
\* target is owned by its hold slot or by its toggle, never by both, and never
\* replaced, a hanging or unkillable one included.
OneWriter ==
  \A m \in Mic :
    /\ ~(slots[m].at = "guarded" /\ manual[m].present)
    /\ Running(m) => slots[m].at = "guarded" \/ manual[m].present
    /\ driver = [pc |-> "launch", mic |-> m] => ~Running(m)

\* A microphone the daemon opened is not forgotten while nobody kept it open on
\* purpose: a mute of it stays wanted, or its toggle is still owned, through
\* crashed, hanging and garbled helpers.  This needs room for the mute: MaxTargets
\* other targets refuse the one a failed toggle asks for (README).
NeverForgotten ==
  \A m \in Mic : open[m] = "live" => Known(m) \/ manual[m].present

\* A target whose helper failed is not desired Live before a mute of it was
\* confirmed: no press, and no hold of another deck, reopens what may still hang.
RecoveryNotLive == \A m \in blocked : desired[m] # "Live"

\* The rows change only as the coordinator's abstraction allows: a confirmed
\* mute never retires a newer Live request.
Desired == INSTANCE DesiredMics
ImplementsDesired == Desired!Spec

\* A pending mute is confirmed or its attempts are used up, whatever the helpers
\* do, unless it is asked for again or an unkillable writer stops the service.
MuteResolved ==
  \A m \in Mic :
    desired[m] = "Muted" ~>
      (desired[m] # "Muted" \/ slots[m].attempts = MaxAttempts \/ m \in retry
        \/ fatal \/ driver.pc = "ended")

=============================================================================
