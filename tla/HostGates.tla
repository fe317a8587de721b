------------------------------ MODULE HostGates ------------------------------
(***************************************************************************)
(* The desktop lock and the sleep of the machine, as the permanent service *)
(* sees them:                                                              *)
(*                                                                         *)
(*   - the sleep observer (sleep_lifecycle.rs) keeps a delay inhibitor at  *)
(*     logind, publishes what it knows and releases the inhibitor when the *)
(*     coordinator has settled, or at a deadline;                          *)
(*   - the lock gate (session_lock.rs) publishes an observation that ages; *)
(*   - the coordinator (permanent_service.rs, the loop; device_execution.rs*)
(*     host_lock, host_sleep, sleep_ready) reads both once a turn, revokes *)
(*     what is running, retires the device and opens it again;             *)
(*   - the hardware thread opens a device while the turns go on.           *)
(*                                                                         *)
(* One deck stands for all.  `work` is a hold or an effect: begun at a     *)
(* press, ended by a revocation, and quiet a while later.                  *)
(***************************************************************************)
EXTENDS Integers, Sequences

CONSTANT
  Budgets   \* bounds: how many preparations of logind, losses of the lock's
            \* observation, and faults (a lost bus, a stale snapshot, a forced
            \* sleep, a device that ends with an error) a behaviour has

ASSUME BudgetAssumption == Budgets \subseteq [sleeps : Nat, locks : Nat, faults : Nat]

VARIABLES
  logind,   \* external: its phase, the signals under way, sleeps so far
  obs,      \* the observer's task: connection, inhibitor, deadline, sample
  sleep,    \* its published snapshot, and the acknowledgement queued
  acks,     \* the acknowledgements under way
  lock,     \* the lock gate: observation, published state, epoch
  round,    \* where the coordinator's turn is, and what it has read
  rt,       \* the runtime: observed epochs, gates, the device and its
            \* retiring owner, and `work`, a hold or effect with its birth
  io,       \* the hardware thread
  excused,  \* history: this preparation has an excuse on record
  left      \* what is left of the budget

hostVars == <<logind, obs, sleep, acks, lock, round, rt, io, excused, left>>

Running == logind.phase # "asleep"
Spend(what) == left[what] > 0 /\ left' = [left EXCEPT ![what] = @ - 1]
Excuse == excused' = (logind.phase = "preparing")

-----------------------------------------------------------------------------
(* logind, as the observer uses it (external).                             *)

LogindOnly == UNCHANGED <<obs, sleep, acks, lock, round, rt, io>>

\* Nobody is asked who has no inhibitor when logind prepares.
Prepare ==
  /\ logind.phase = "awake" /\ Spend("sleeps")
  /\ logind' = [logind EXCEPT !.phase = "preparing",
                              !.signals = IF obs.pc = "down" THEN @ ELSE Append(@, TRUE)]
  /\ excused' = ~obs.inhibitor
  /\ LogindOnly

Suspend ==
  /\ logind.phase = "preparing" /\ ~obs.inhibitor
  /\ logind' = [logind EXCEPT !.phase = "asleep", !.sleeps = @ + 1]
  /\ LogindOnly /\ UNCHANGED <<excused, left>>

\* logind does not wait longer than it allows.
ForceSuspend ==
  /\ logind.phase = "preparing" /\ obs.inhibitor /\ Spend("faults") /\ Excuse
  /\ logind' = [logind EXCEPT !.phase = "asleep", !.sleeps = @ + 1]
  /\ LogindOnly

\* After a sleep, or a preparation that was called off.
Awake ==
  /\ logind.phase \in {"preparing", "asleep"}
  /\ logind' = [logind EXCEPT !.phase = IF @ = "asleep" THEN "resuming" ELSE "awake",
       !.signals = IF obs.pc = "down" \/ logind.phase = "asleep" THEN @ ELSE Append(@, FALSE)]
  /\ excused' = FALSE
  /\ LogindOnly /\ UNCHANGED left

\* The programs run before logind says that the sleep is over.
Resumed ==
  /\ logind.phase = "resuming"
  /\ logind' = [logind EXCEPT !.phase = "awake",
       !.signals = IF obs.pc = "down" THEN @ ELSE Append(@, FALSE)]
  /\ excused' = FALSE
  /\ LogindOnly /\ UNCHANGED left

PreparingForSleep == logind.phase # "awake"

-----------------------------------------------------------------------------
(* The published snapshot of the observer.                                 *)

Published(s, available, preparing) ==
  LET changed == s.available # available \/ s.preparing # preparing
  IN  [s EXCEPT !.available = available, !.preparing = preparing,
                !.epoch = IF changed THEN @ + 1 ELSE @,
                !.queued = IF changed THEN 0 ELSE @]
Unknown(s) == Published(s, FALSE, s.preparing)
Blocked(s) == ~s.available \/ s.preparing

-----------------------------------------------------------------------------
(* The observer's task.                                                    *)

ObserverOnly == Running /\ UNCHANGED <<lock, round, rt, io>>
NoSample == [epoch |-> 0, value |-> FALSE]
Down == [pc |-> "down", inhibitor |-> FALSE, deadline |-> FALSE, sample |-> NoSample]
Deaf == [logind EXCEPT !.signals = <<>>]

\* The streams, then the inhibitor, which logind refuses in a sleep, then the
\* epoch.
Connect ==
  /\ obs.pc = "down" /\ logind.phase = "awake"
  /\ obs' = [pc |-> "first", inhibitor |-> TRUE, deadline |-> FALSE,
             sample |-> [epoch |-> sleep.epoch, value |-> FALSE]]
  /\ logind' = Deaf
  /\ ObserverOnly /\ UNCHANGED <<sleep, acks, excused, left>>

\* The property, read at some time since; a sample is worth nothing once the
\* coordinator has seen a sleep.
FirstSample ==
  /\ obs.pc = "first"
  /\ \E value \in {obs.sample.value, PreparingForSleep} :
       LET fresh == sleep.epoch = obs.sample.epoch
       IN  /\ sleep' = IF fresh THEN Published(sleep, TRUE, value) ELSE sleep
           /\ obs' = [obs EXCEPT !.pc = "up", !.deadline = fresh /\ value, !.sample = NoSample]
  /\ ObserverOnly /\ UNCHANGED <<logind, acks, excused, left>>

\* The inhibitor goes with the connection.
LoseBus ==
  /\ obs.pc # "down" /\ Spend("faults") /\ Excuse
  /\ obs' = Down /\ logind' = Deaf /\ sleep' = Unknown(sleep)
  /\ ObserverOnly /\ UNCHANGED acks

Sample ==
  /\ obs.pc = "up"
  /\ obs' = [obs EXCEPT !.pc = "sampled",
       !.sample = [epoch |-> sleep.epoch, value |-> PreparingForSleep]]
  /\ ObserverOnly /\ UNCHANGED <<logind, sleep, acks, excused, left>>

Unsampled == [obs EXCEPT !.pc = "up", !.sample = NoSample]

\* A preparation is announced once; the deadline counts from there.
HearSleep(rest) ==
  /\ obs' = [Unsampled EXCEPT !.deadline = @ \/ ~sleep.preparing]
  /\ sleep' = IF sleep.preparing THEN sleep ELSE Published(sleep, obs.inhibitor, TRUE)
  /\ logind' = [logind EXCEPT !.signals = rest]
  /\ UNCHANGED excused

\* An inhibitor that was released is taken again, and so is one whose
\* preparation nobody acknowledged; logind refuses in the next sleep.
HearAwake(rest) ==
  \/ /\ logind.phase = "awake" \/ (obs.inhibitor /\ ~obs.deadline)
     /\ obs' = [Unsampled EXCEPT !.deadline = FALSE, !.inhibitor = TRUE]
     /\ sleep' = Published(sleep, TRUE, FALSE)
     /\ logind' = [logind EXCEPT !.signals = rest]
     /\ UNCHANGED excused
  \/ /\ logind.phase # "awake" /\ (obs.deadline \/ ~obs.inhibitor)
     /\ obs' = Down /\ logind' = Deaf /\ sleep' = Unknown(sleep)
     /\ Excuse

Hear(preparing, rest) == IF preparing THEN HearSleep(rest) ELSE HearAwake(rest)

HearSignal ==
  /\ obs.pc = "up" /\ logind.signals # <<>>
  /\ Hear(Head(logind.signals), Tail(logind.signals))
  /\ ObserverOnly /\ UNCHANGED <<acks, left>>

\* A sample is worth nothing once the epoch has moved.
HearSample ==
  /\ obs.pc = "sampled"
  /\ IF obs.sample.epoch = sleep.epoch
       THEN Hear(obs.sample.value, logind.signals)
       ELSE obs' = Unsampled /\ UNCHANGED <<sleep, logind, excused>>
  /\ ObserverOnly /\ UNCHANGED <<acks, left>>

HearAnyAck == \* faulty
  /\ obs.pc \in {"up", "down"} /\ acks # <<>> /\ acks' = Tail(acks)
  /\ obs' = IF sleep.preparing /\ obs.deadline
              THEN [obs EXCEPT !.inhibitor = FALSE, !.deadline = FALSE] ELSE obs
  /\ ObserverOnly /\ UNCHANGED <<logind, sleep, excused, left>>

\* Only an acknowledgement of this preparation releases the inhibitor.
HearAck ==
  /\ obs.pc \in {"up", "down"} /\ acks # <<>> /\ acks' = Tail(acks)
  /\ obs' = IF Head(acks) = sleep.epoch /\ sleep.preparing /\ obs.deadline
              THEN [obs EXCEPT !.inhibitor = FALSE, !.deadline = FALSE] ELSE obs
  /\ ObserverOnly /\ UNCHANGED <<logind, sleep, excused, left>>

\* The deadline has passed, with nothing to hear before: a failure is on
\* record.
Deadline ==
  /\ obs.pc = "up" /\ obs.deadline /\ logind.signals = <<>>
  /\ obs' = [obs EXCEPT !.inhibitor = FALSE, !.deadline = FALSE] /\ Excuse
  /\ ObserverOnly /\ UNCHANGED <<logind, sleep, acks, left>>

-----------------------------------------------------------------------------
(* The lock gate.                                                          *)

\* Gate::refresh.  `open`: the observation is young and says unlocked; what
\* cannot be known blocks.
Refreshed(l) ==
  [l EXCEPT !.locked = ~l.open,
            !.epoch = IF l.locked = l.open THEN @ + 1 ELSE @,
            !.locks = IF ~l.open /\ ~l.locked THEN @ + 1 ELSE @]

LockOnly == Running /\ UNCHANGED <<logind, obs, sleep, acks, round, rt, io, excused>>

ObserveUnlocked ==
  /\ ~lock.open /\ lock' = Refreshed([lock EXCEPT !.open = TRUE])
  /\ LockOnly /\ UNCHANGED left

ObserveLocked ==
  /\ lock.open /\ Spend("locks")
  /\ lock' = Refreshed([lock EXCEPT !.open = FALSE]) /\ LockOnly

\* The observation is older than a second, and nobody has looked since.
LockAges ==
  /\ lock.open /\ Spend("locks")
  /\ lock' = [lock EXCEPT !.open = FALSE] /\ LockOnly

-----------------------------------------------------------------------------
(* The runtime; the operators return what becomes of it.                   *)

Closed(r) == <<r.hostLocked, r.hostSleeping>>
NoWork == [state |-> "none", born |-> 0, locks |-> 0]
Ended(r) == IF r.work = NoWork THEN r ELSE [r EXCEPT !.work = [NoWork EXCEPT !.state = "ending"]]

\* apply_gate: a forced change revokes even what is allowed again.
ApplyGate(old, new, force) == IF force \/ Closed(old) # Closed(new) THEN Ended(new) ELSE new

HostLockByState(r, locked, epoch) == \* faulty
  ApplyGate(r, [r EXCEPT !.hostLocked = locked, !.lockEpoch = epoch], FALSE)

HostLock(r, locked, epoch) ==
  ApplyGate(r, [r EXCEPT !.hostLocked = locked, !.lockEpoch = epoch], r.lockEpoch # epoch)

\* Every sleep is a fence, however short: the device is given up, and left
\* alone for a while.
HostSleep(r, blocked, epoch) ==
  LET changed == r.sleepEpoch # epoch
      fence == blocked \/ (changed /\ r.sleepEpoch # 0)
  IN  IF ~changed /\ blocked = r.hostSleeping THEN r
      ELSE ApplyGate(r, [r EXCEPT
             !.hostSleeping = blocked, !.sleepEpoch = epoch,
             !.up = @ /\ ~fence, !.born = IF fence THEN 0 ELSE @, !.retiring = @ \/ (fence /\ r.up),
             !.failed = @ /\ ~(blocked /\ ~r.hostSleeping),
             !.reopening = @ \/ fence \/ r.hostSleeping], TRUE)

SleepReady == rt.hostSleeping /\ ~rt.retiring /\ ~rt.failed /\ rt.work = NoWork
ReadyToAttach == ~rt.hostSleeping /\ ~rt.reopening /\ ~rt.retiring

-----------------------------------------------------------------------------
(* The loop of the permanent service.  What others do while a turn reads or *)
(* acts commutes with it; what they do in between does not.                *)

NoRound == [at |-> "read", slept |-> 0, epoch |-> 0, preparing |-> FALSE, locks |-> 0]

\* The two clocks have told of a sleep.
AfterSleep(s) == IF round.slept # logind.sleeps THEN Unknown([s EXCEPT !.epoch = @ + 1]) ELSE s

\* The lock, then the sleep, whose snapshot may have become stale.
TurnRead ==
  /\ Running /\ round.at = "read"
  /\ lock' = Refreshed(lock)
  /\ \/ sleep' = AfterSleep(sleep) /\ UNCHANGED left
     \/ sleep' = Unknown(AfterSleep(sleep)) /\ sleep.available /\ Spend("faults")
  /\ round' = [at |-> "act", locks |-> lock'.locks, slept |-> logind.sleeps,
               epoch |-> sleep'.epoch, preparing |-> sleep'.preparing]
  /\ rt' = HostSleep(HostLock(rt, lock'.locked, lock'.epoch), Blocked(sleep'), sleep'.epoch)
  /\ UNCHANGED <<logind, obs, acks, io, excused>>

MayAck == round.preparing /\ SleepReady

Acknowledge ==
  IF MayAck /\ sleep.epoch = round.epoch /\ sleep.preparing /\ sleep.queued # round.epoch
    THEN /\ acks' = Append(acks, round.epoch)
         /\ sleep' = [sleep EXCEPT !.queued = round.epoch]
    ELSE UNCHANGED <<acks, sleep>>

Timely == io.epoch = round.epoch

\* An opened device is attached in the epoch it was asked for, or dropped.
Attached ==
  IF io.state = "opened" /\ Timely /\ ReadyToAttach
    THEN Ended([rt EXCEPT !.up = TRUE, !.born = io.born]) ELSE rt

NoOpening == [state |-> "none", epoch |-> 0, born |-> 0]
NextOpening ==
  IF io.state = "opened" THEN NoOpening
  ELSE IF io.state = "none" /\ ~rt.up /\ ReadyToAttach
    THEN [state |-> "opening", epoch |-> round.epoch, born |-> logind.sleeps]
  ELSE io

\* tick: a press begins a hold or an effect.
Pressed(r) ==
  [r EXCEPT !.work = [state |-> "held", born |-> r.born, locks |-> round.locks]]

TurnAct ==
  /\ Running /\ round.at = "act" /\ round' = [NoRound EXCEPT !.slept = round.slept]
  /\ Acknowledge
  /\ io' = NextOpening
  /\ \/ rt' = Attached
     \/ /\ rt.up /\ Closed(rt) = <<FALSE, FALSE>> /\ rt.work = NoWork
        /\ rt' = Pressed(rt)
  /\ UNCHANGED <<logind, obs, lock, excused, left>>

-----------------------------------------------------------------------------
(* What takes its time.                                                    *)

Aside == Running /\ UNCHANGED <<logind, obs, sleep, acks, lock, round, excused>>

Release == rt.work.state = "held" /\ rt' = Ended(rt) /\ Aside /\ UNCHANGED <<io, left>>

Settle ==
  /\ rt.work.state = "ending" /\ rt' = [rt EXCEPT !.work = NoWork]
  /\ Aside /\ UNCHANGED <<io, left>>

\* The owner of the device ends; an error stays on record.
Retire ==
  /\ rt.retiring
  /\ \/ rt' = [rt EXCEPT !.retiring = FALSE] /\ UNCHANGED left
     \/ rt' = [rt EXCEPT !.retiring = FALSE, !.failed = TRUE] /\ Spend("faults")
  /\ Aside /\ UNCHANGED io

Reopen == rt.reopening /\ rt' = [rt EXCEPT !.reopening = FALSE] /\ Aside /\ UNCHANGED <<io, left>>

Opened ==
  /\ io.state = "opening" /\ io' = [io EXCEPT !.state = "opened"]
  /\ Aside /\ UNCHANGED <<rt, left>>

-----------------------------------------------------------------------------
HostInit ==
  /\ logind = [phase |-> "awake", signals |-> <<>>, sleeps |-> 0]
  /\ obs = Down
  /\ sleep = [available |-> FALSE, preparing |-> FALSE, epoch |-> 1, queued |-> 0]
  /\ acks = <<>>
  /\ lock = [open |-> FALSE, locked |-> TRUE, epoch |-> 1, locks |-> 0]
  /\ round = NoRound
  /\ rt = [hostLocked |-> FALSE, lockEpoch |-> 0, hostSleeping |-> FALSE, sleepEpoch |-> 0,
           reopening |-> FALSE, up |-> FALSE, retiring |-> FALSE, failed |-> FALSE, born |-> 0,
           work |-> NoWork]
  /\ io = NoOpening
  /\ excused = FALSE
  /\ left \in Budgets

Logind == Prepare \/ Suspend \/ ForceSuspend \/ Awake \/ Resumed
Observer ==
  \/ Connect \/ FirstSample \/ LoseBus \/ Sample \/ HearSample \/ HearSignal
  \/ HearAck \/ Deadline
LockGate == ObserveUnlocked \/ ObserveLocked \/ LockAges
ServiceLoop == TurnRead \/ TurnAct
Slow == Settle \/ Retire \/ Reopen \/ Opened

HostNext == Logind \/ Observer \/ LockGate \/ ServiceLoop \/ Release \/ Slow
HostSpec == HostInit /\ [][HostNext]_hostVars

-----------------------------------------------------------------------------
(* Properties.                                                             *)

\* The runtime has seen no epoch from the future: an older one than the last
\* ends the service (host_lock, host_sleep).
HostTypeOK ==
  /\ rt.sleepEpoch <= sleep.epoch /\ rt.lockEpoch <= lock.epoch
  /\ rt.work.state \in {"none", "held", "ending"} /\ io.state \in {"none", "opening", "opened"}
  /\ obs.pc \in {"down", "first", "up", "sampled"}
  /\ obs.deadline => obs.pc \in {"up", "sampled"}
  /\ \A i \in DOMAIN acks : acks[i] <= sleep.epoch

\* The machine sleeps with nothing held, no effect running and the device
\* given up, or with a record of why not.
SuspendIsSettled ==
  logind.phase = "asleep" /\ ~excused =>
    rt.hostSleeping /\ ~rt.up /\ ~rt.retiring /\ rt.work = NoWork

\* A turn that began after a sleep acts with no device that was asked for
\* before it and with no hold from before it; nor with a hold from before a lock
\* of the gate, also when the gate was open again before the turn looked.
NothingFromBefore ==
  round.at = "act" =>
    /\ rt.up => rt.born >= round.slept
    /\ rt.work.state = "held" => rt.work.born >= round.slept /\ rt.work.locks = round.locks
=============================================================================
