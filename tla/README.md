# Decksmith in TLA+

Decksmith drives Elgato Stream Decks on Linux.  A daemon owns every attached
deck, shows pages on it, turns key and dial input into actions and performs the
actions on shared resources: audio targets, microphones, media players,
accessories of a home.  The modules here describe the part of the daemon where
the hard questions are: several decks, several threads and processes, and
pages, locks, sleeps, saves and unplugged cables that change the ground under
work that is being done.

## The system

| Component | State it keeps | Operations | Talks to |
|---|---|---|---|
| Device I/O owner (`decksmith-device/src/actor.rs`) | a mailbox of desired pictures, brightness and received input; the output generation (`epoch`); the last generation an empty probe acknowledged (`drained`) | image, frame, brightness, fence, shutdown by the host; probe, select, write, credit, fail, blank by its thread | the deck through `DeckDevice`; the session manager through the mailbox |
| Device session manager (`manager.rs`) | per deck: layout, page, connection and binding generations, held and armed controls, draining; for all: the lock gate and its epoch | attach, disconnect, configure, page, gate, brightness, paint, write, `poll_round`, stop | the owners; the coordinator calls it and routes what it returns |
| Device identity registry (`registry.rs`, `ownership.rs`, `hardware/inventory*`) | enrolled units, discovery snapshots | enrol, resolve, claim | the manager and the opener of units |
| HID adapters (`hardware.rs`, `lib.rs`) | one open unit | read a report, write pictures | the kernel |
| Press resolver (`decksmith-core/src/trigger.rs`) | the current press, its deadlines | edge, advance, cancel | the replay command and tests only |
| Shared effect dispatcher (`shared_dispatch.rs`) | a FIFO per deck, reservations, a cursor | submit, cancel_stale, select, begin, finish, stop | the execution service |
| Shared execution service (`shared_worker.rs`) | dispatcher, side table of compiled actions, reply queue, under one mutex | submit, invalidate, quiet, poll, stop; the loop of one to four threads | backends; the coordinator |
| Microphone hold coordinator (`microphone_holds.rs`) | leases, rows of desired state with revisions, consumed presses | acquire, heartbeat, release, cancel, mute, acknowledge, maintain, stop | the guardian driver |
| Shared microphone guardian (`shared_microphone.rs`, `shared_microphone_native.py`) | per microphone a slot with a helper process, attempts and deadlines, and a toggle in progress; failures, blocked targets | acquire, release, mute, toggle, stop; the driver thread: adopt, start, pulse, poll, settle, time out, kill, retry, retire | helper processes; the hold coordinator |
| Runtime coordinator (`device_execution.rs`) | the authority view (who may act in which context), painted contexts, reservations of edits, gates | discover, attach, navigate, gate, foreground, route, reserve, apply, tick, stop | everything above |
| Session lock, sleep (`session_lock.rs`, `sleep_lifecycle.rs`, `resume.rs`) | last observation and its age, lock epoch; inhibitor, deadline, sleep epoch | observe, snapshot, acknowledge, resume | D-Bus; the coordinator |
| Live profile edits (`live_profiles.rs`, `profile_control.rs`) | tickets, a queue of requests, callers waiting | save, reserve, publish, apply, cancel, give up | editor sockets; the coordinator; the store |
| Stores (`device_profiles.rs`, `layout_store.rs`) | generation files, a pointer file, archives, a journal of pruning | save, enrol, select, load, archive, resume | the file system; other programs through a file lock |
| Permanent service (`permanent_service.rs`) | the loop over the coordinator, a hardware thread | turn, open, retire, reopen | observers, coordinator, openers |
| Plugin bridge (`plugin_runtime.rs`; `plugins/openhomeb/runtime`) | the daemon's queue of coalesced turns and its exchange; the companion's operation, panel and plugin host | submit, exchange, grant, answer, give up; read, authorise, dispatch, read back, fail; reconnect, recover | the Homebridge plugin |
| Single-device worker (`worker.rs`, `audio_worker.rs`, `ptt.rs`, `display.rs`, `control.rs`) | the older loop of one deck: session, desired and sent images, armed and held controls; the audio thread's queues | a turn: gate, control, paint, reply, input, open; serve a request | its own deck, audio thread, D-Bus clients |
| Native backends, pages and rendering, labs, editor, CLI, packaging | - | calls of other programs, pixels, tools | - |

How an input becomes an effect: the owner's thread deposits the report, the
manager's `poll_round` judges it (drained? locked? page completely drawn? a
fresh down?) and stamps it with a `DeviceContext`; the coordinator routes it as
an `ActionScope` into the execution service, or into a microphone hold; a
worker selects it, asks the fence once more and calls a backend; the reply is
published only while its scope is still current.  Contexts are invalidated by
*fences*: a page, a layout, a saved edit, a reconnect, a lock, a sleep, another
foreground application.  Nearly everything difficult is about a fence that
arrives between two steps, or about one party that gives up while another goes
on.

### What must be right

* dispatcher: one writer per target; order per target and per deck in spite of
  coalescing; fair selection;
* service: no lost wakeup, a panic that frees a target only after its writer
  ended, a `quiet` that does not lie, a stop that joins;
* holds: Live exactly while held, everything that fails mutes, no press counts
  twice, late acknowledgements change nothing;
* guardian: never two writers of a microphone, no opened microphone forgotten,
  a pending mute carried out or reported;
* I/O owner: a write is credited only to the generation and frame it belongs
  to, readiness does not lie, desired pictures arrive;
* session: edges pair within one context, a drain ends, downs meet the page
  they were made on;
* edits: what is published is applied or rejected, replies are honest, a save
  meets only the session it reserved;
* store: an atomic register, through crashes and losses of power;
* lock and sleep: nothing from before acts after, the machine sleeps settled;
* single deck: nothing armed, held or queued survives the change that should
  end it, and what is believed shown is shown;
* plugin bridge: what is said of a command is true, no turn is replayed, doubt
  ends only by an explicit reconnect.

`PROJECT.json` lists the hazards with their source lines and the properties
that would catch each.

## Modules

| Module | Models | Uses |
|---|---|---|
| `SharedDispatch` | `shared_dispatch.rs` | - |
| `SharedWorker` | `shared_worker.rs` | extends `SharedDispatch`, whose actions are its critical sections |
| `SharedWorkerProofs` | theorems about both | extends `SharedWorker` |
| `DesiredMics` | what the coordinator promises the guardian (abstract) | - |
| `MicrophoneHolds` | `microphone_holds.rs` | implements `DesiredMics` |
| `MicrophoneHoldsProofs` | theorems about it | extends `MicrophoneHolds` |
| `MicrophoneGuardian` | `shared_microphone.rs` and its helper program | `DesiredMics` in place of the coordinator |
| `MicrophoneGuardianProofs` | theorems about it | extends `MicrophoneGuardian` |
| `DeviceActor` | `actor.rs` | - |
| `DeviceSession` | `manager.rs`, one session | extends `DeviceActor`, whose host operations are its device calls |
| `DeviceSessionProofs` | theorems about the owner alone and the session above it | extends `DeviceSession` |
| `LiveProfiles` | saving a deck in use: `device_execution.rs`, `live_profiles.rs`, `profile_control.rs` | the store as a register |
| `ProfileRegister` | what the store promises (abstract) | - |
| `ProfileStore` | `device_profiles.rs` | implements `ProfileRegister` |
| `ProfileStoreProofs` | theorems about it, and that refinement | extends `ProfileStore` |
| `HostGates` | lock, sleep and the permanent service's turns | - |
| `CoordinatorProofs` | theorems about the two halves of the coordinator | extends `LiveProfiles` and `HostGates` |
| `DeckWorker` | `worker.rs` with its audio thread, slots and clients | - |
| `DeckWorkerProofs` | theorems about it | extends `DeckWorker` |
| `PluginBridge` | `plugin_runtime.rs` and the companion | - |
| `PluginBridgeProofs` | theorems about it | extends `PluginBridge` |
| `MC*` | constants and symmetry for TLC | extend the module of their name |

### SharedDispatch

`jobs` holds the queued, selected and started jobs as one set.  A deck's
`VecDeque` is the set of its queued jobs ordered by id, because ids only grow at
the back, cancellation keeps the order and coalescing rewrites the tail.  An
`Adjust` effect is its amount; `Adjust(0)` is refused by the code, so `0`
stands for effects that never coalesce.  Each operation of the code is an
action parameterised by `cur`, the scopes the closure `current` accepts at that
moment: `Submit` (with `Coalesce`, `Enqueue` and `Refuse`, each after the
cancellation the code does first), `CancelStale`, `Select`, `Begin` and
`BeginStale`, `Release` (`finish`), `WorkerTerminated` and `Stop`.  `Grant` and
`Revoke` move the fence at any time.  `lastOnTarget` and `lastOfOwner` are
history for `SubmissionOrder`.

### SharedWorker

A step is one critical section of the mutex.  `select` and `begin` are two
steps under one acquisition (`lock` is kept between them), because the
authority is guarded by another lock and may change in between; within one step
it has one value.  `pc` follows the loop of `run`: scanning, waiting on the
condition variable, begin, asking the fence, executing, unwinding after a
panic, reporting.  A backend may return or panic; its destructor may panic as
well, and the thread is then `abandoned` with its target still reserved.
`ChangeAuthority` is the coordinator publishing a new view; it owes a call of
`Invalidate`, which `revoked` remembers.

### MicrophoneHolds and DesiredMics

The helpers of the code change the coordinator and may fail half way.  Here
they map a record of the four fields they touch (leases, rows, revision,
stopped) to the next one, and the actions compose them in the order of the
code: check the time, maintain, then the operation.  Updates that the guardian
carries around are identified, as in the code, by target, revision and desired
state; since a revision is never reused for another state, the only update that
can still be accepted is the one the row stands for, and `Acknowledge` takes
that one while acknowledgements of superseded updates are `Maintain`.  The
host's genuine downs take increasing press numbers (`Press`), and a token may
be presented any number of times.  Only the token of the last down of a control
is presented: the order of callbacks is the host's obligation
(docs/shared-action-lifecycle.md, "The host adapter must enforce this
sequence"), the coordinator cannot tell it from the tags alone.

`DesiredMics` keeps of all this only what a guardian sees: the desired state of
each target.  A target leaves Live through Muted, and after a stop nothing is
Live again.

### MicrophoneGuardian

A step is a critical section of the driver's mutex, or a call of a helper.  The
thread visits the targets in rounds (`Visit` for the hold slot, `VisitToggle`
for the toggle); a visit that must release the mutex in the middle continues at
`settle` or `launch`, and the host's operations fall in between.  `helper` is the
last process started for a target with what it was told and what it printed;
`open` is what the microphone really is, `kept` when a toggle that was
committed left it open on purpose.  A helper may hang, crash, print garbage,
refuse to die, or end after it wrote; none of that is under fairness.  The
coordinator appears as `DesiredMics`, a revision as whether the slot has seen
the target's latest one (`fresh`), time as the choice of when a timeout has
passed or a retry is due.

### DeviceActor

`io.pc` has one label per acquisition of the mutex, per load of the atomics or
per call of the adapter, so a fence, a frame or a shutdown may fall between any
two: after the input probe, between selecting and issuing an output, during the
write, before its credit.  `unit` is what the deck really shows and the reports
it holds back; it is external and modelled from how `run` calls it.  Every call
may fail.  `asked` is history: the strip pictures that may be visible on a
ready deck (the last guarded one and the meters drawn over it since).

### DeviceSession

The manager is single-threaded, so a call is one step, except `poll_round`:
reading the mailbox (`Pop`), loading `input_drained` (`Look`) and judging
(`JudgeNothing`, `JudgeEvent`, `JudgeInvalid`, with `display_ready` read there)
are separate, as the owner works meanwhile.  A page is its binding generation;
locked and suspended are one flag, `blocked`.  Loss of the device at any call,
reattachment with a new owner once the old one ended, and refused attachments
are included.  `out`, `pressed`, `painted` and `era` are history.

### LiveProfiles

Three parties: the coordinator, the disk thread that serves saves, and callers.
Effect workers read the coordinator's view at any moment, so each of its
operations (page, disconnect, attach, gate, foreground, reserve) is two steps:
what it revokes, and what it changes (`Finish...`).  The disk thread talks to
it through the link: a request is answered within two seconds or given up
(`LinkTimeout`), at any point before, while or after it is served; the caller
gives up after five (`CallerTimeout`).  A reservation taken off the queue after
its caller left is cancelled by the coordinator (`TakeCancelled`).  Publication
may succeed, fail, or be uncertain.  `past` is history: what was published,
applied, rejected, and which decks were disturbed since their reservation.

### ProfileStore and ProfileRegister

Every file operation that a crash can separate from the next is a step: write
the manifest, sync the generation, move the pointer, sync the root, and for
archiving complete the archive, write and sync the journal, unlink and remove
each retired generation, remove the journal.  `GiveUp` is an error or a crash at
any of them; `safe` is what a loss of power would leave at least, and
`LosePower` may leave anything between `safe` and the present.
`trust` is history, of the one sequence in which the fallback goes: `Resume`
makes it "exposed" when the journal it found retires the generation the disk
would fall back to, since `resume_archive` does not sync the root; the next sync
(`SecureRoot`) makes it "kept" again, and a loss of power that takes the
publication back before makes it "lost".  Nothing is guarded by it: programs and
power may be interrupted at any of these steps.  A generation is absent, partial
or whole.  `Differing`, `InStore`, `InArchive` and `Previous`
are how the predecessor of a layout is found, also in stores of the older
format that did not record it (`OldStores` are initial states).

`ProfileRegister` is one catalog: a save replaces it whole and only where it
names, a loss of power returns at most to what was secured, and every profile
keeps the last layout that differs from its own.  Its step `Expose` is the
exception: while a publication is not acknowledged, what it replaced may go, and
a loss of power then leaves nothing and ends the promise.  The mapping is
`AbsCatalog` of the pointer and of the durable pointer, with `AbsPhase` read off
`trust` and the two pointers.

### HostGates

One deck stands for all; `rt.work` is a hold or an effect, with the number of
sleeps and locks it was born after.  The coordinator's turn is `TurnRead` (both
snapshots are read) and `TurnAct` (host_lock, host_sleep, presses,
acknowledgement, attachment); everything else happens between the two: logind
prepares, suspends, gives up waiting or wakes; the observer connects, samples,
loses the bus, hears signals and acknowledgements in turn, reaches its
deadline; the lock gate observes and its observation ages; the hardware thread
finishes an opening.  `excused` records what makes an unsettled suspend
legitimate: no inhibitor was held, the deadline passed, or logind forced it.
The specification is `HostSpec`; `round` is the turn's place and what it read.
The module shares no name with `LiveProfiles`, so that one module of proofs can
extend both; their states are disjoint.

### DeckWorker

The loop is split where another thread may come between: gate (`Turn`), one
control command (`Control`), one image (`Paint`), one audio answer (`Reply`),
one input (`Input`), or opening the deck (`Open`).  `w` is the worker's session,
`deck` the device with its keys, unread reports and what it shows, `audio` the
audio thread with its queues.  Others (the gate, the focus, the person, the
cable, the expiry of holds) step before a turn and before its command.  A
command is chosen when it is taken, stamped with any earlier epoch and revision,
in place of a queue.  The audio thread's check, call and answer are one step
(`Serve`).  A key and the strip stand for the nine surfaces.  A suspend is found
by the loop's clocks (`Resume`).  The error path of `apply_system` cannot be taken and
is left out.

### PluginBridge

The companion is one event loop, so a step is what it does between two awaits.
A connection carries one exchange: the handler's stage (`conn[c].at`), the
replies in transit (`down`), the client's decision, and whether the handler
still watches its stream.  The client is the lane, which grants a command when
the companion is ready to pass it, or the single worker's queue, which coalesces
turns and grants nothing.  Either end may give up or close at any time; the
plugin may exit, the companion may be restarted; the panel reconnects for the
user or recovers by itself.  `doubt` is history: what became of a command is
not known and the user has not reconnected; it is `crossed` once the panel's own
recovery acted on what it saw before an operation began.

The modules name faulty variants of some definitions (`EligibleIgnoringOlder`,
`WakeNobody`, `FailOpen`, ...).  They are there for mutation checks listed in
`PROJECT.json`: each property fails when the definition it guards is replaced
by such a variant.

## Runs

| Run | Bounds | Shows |
|---|---|---|
| `SharedDispatch.cfg` | 3 decks, one of them idle, 2 targets, amounts -1, 0, 1, cap 2; both queue limits refuse; 3 requests | exclusivity, order, adjacency, round-robin, no starvation |
| `SharedWorker.cfg` | 2 threads, 2 decks, 2 targets, 1 reply, 2 requests | one writer, quiet barrier, waiting work is resolved, stop joins |
| `MicrophoneHolds.cfg` | 3 contexts on 2 decks, 3 microphones for 2 slots, lease 2, clock 0..2, revisions to 4, 2 presses | Live iff held, fresh presses, `DesiredMics` |
| `MicrophoneGuardian.cfg` | 1 microphone, 2 mute attempts | one writer, nothing forgotten, recovery not Live, `DesiredMics`, mutes resolved |
| `DeviceActor.cfg` | one key and a strip, 2 pictures, 2 frames, 2 generations | readiness and the sent cache are truthful, desired pictures arrive |
| `DeviceSession.cfg` | one key; downs, ups, invalid reports; 2 fences, 2 reads per draining turn | downs meet their page, edges pair, drains end |
| `LiveProfiles.cfg` | 1 deck, 2 callers, link of 1, 2 events of the environment | the view is current, holds are in view, honest replies, publications finish, saves meet their session |
| `ProfileStore.cfg` | 2 decks, 2 layouts, service and workspace, store of 4, archive at 3, keep 2, generations to 3, 1 loss of power, any number of interruptions | the current generation and the fallback load, with one sequence excepted; no catalog is lost; `ProfileRegister` |
| `HostGates.cfg` | 1 sleep with 1 lock and 1 fault, or 2 sleeps | suspends settled, nothing from before |
| `DeckWorker.cfg` | 1 layout, 2 pages, 1 key that acts or talks, 3 lock epochs, 1 report of focus, 1 trouble of the deck, queues of 1 | nothing stays armed, talks end, the cache is truthful, nothing crosses a lock |
| `PluginBridge.cfg` | lane or worker, 2 exchanges, keys and turns by one, 2 turns at most | verdicts are true, inputs are fresh, recovery is explicit |
| `DrainRace.cfg` | as small as the disagreement needs | see below |

Why these bounds are enough to be interesting.

* Dispatcher and service: a few jobs of two decks already produce every relation the
  scheduler looks at (same deck, same target, hidden behind another target);
  the limits are set low enough that each refuses; the idle third deck makes
  the cursor pass over a deck and wrap.  One reply makes the second completion
  stop the service.
* Microphones: two ticks with a lease of two let holds expire and be renewed by
  the other deck; a third target is refused, and revisions run out inside a
  mute of several targets.  Two attempts are the first number that has both a
  retry and an exhaustion; microphones share nothing in the driver but the
  round and the room in the coordinator.
* Devices: two surfaces make the cursor move; a second frame supersedes one in
  flight; the fences allow an attachment, a page and a lock or a reattachment.
* Edits: a second caller arrives while the first is served, and finds the queue
  full; two events disturb a deck and put it back.
* Store: three generations reach the archiving, and its journal, with a save
  before and after; one loss of power separates what is on the disk from what
  was acknowledged.  The excepted sequence takes three generations and two
  interruptions and is reached: without `Standing`, TLC finds `CurrentIsWhole`
  violated after 17 steps.
* Gates: a second sleep begins before what the first left has settled.
* Worker: three epochs are a lock, an unlock and another lock; queues of one are
  full at the first entry that waits.
* Bridge: with two connections an exchange that was given up is still being
  served when the next begins.

Counters the code checks (request ids, revisions) are capped by constants that
play the role of the code's exhaustion; counters that cannot run out in practice
are bounded in guards (`MaxRevision` and `MaxEpoch` of `DeviceActor`, `MaxEra`,
`MaxReports`, `MaxPress`, `MaxTime`, `MaxGen`, `MaxPowerLoss`,
`MaxEvents`, `Budgets`, `MaxFocus`, `MaxTroubles`, and `MaxEpoch` of
`DeckWorker`).

Two bounds hide behaviour and are named here for that reason.  `FlipsPerTurn =
1`: with two changes of the lock within one turn of the single worker, a lock
and an unlock both fall between the turn's look at the gate and the submission
of an action, and TLC finds `NothingCrossesLock` violated: the action is stamped
with an epoch its press never saw.  The monitor leaves 100 ms between
two observations (`session_lock.rs:198`), and a turn lasts milliseconds.
`Onward = FALSE`
of the bridge: after the panel's recovery crossed an operation (see below)
nothing begins anew, since `ExplicitRecovery` says nothing from there on; the
instance with `TRUE` is more than twice as large and holds as well.

Deadlock is checked for the holds, which can always go on; elsewhere the
bounds, or a stopped system, legitimately leave no step.

### Fairness

* `SharedDispatch!FairSpec`: a worker pool keeps selecting, begins what it
  selected and finishes what it began; backend calls are bounded.  Weak
  fairness on each of the three.
* `SharedWorker!ServiceFairSpec`: strong fairness of each thread's steps, since
  the mutex may be taken by others at any moment but is always released; the
  coordinator calls `invalidate` after publishing (weak).  No fairness for
  clients, nor for spurious wakeups: a property that needed one would hide a
  lost notification.
* `MicrophoneGuardian!FairSpec`: the driver visits every target in every round
  and polls while a helper is left (strong fairness of both visits, per
  target).  Nothing is asked of helpers or of the host.
* `DeviceActor!FairSpec`: the I/O thread is scheduled (its waits are bounded).
  The property speaks of suffixes in which the host leaves the owner alone,
  and of pictures only: a fence may lose a brightness (see below), so the
  instance asks for no level.
* `DeviceSession!SessionFairSpec`: the supervisor polls and the I/O thread is
  scheduled.
* `LiveProfiles!FairSpec`: the coordinator's loop and the disk thread run.
* `ProfileStore`, `HostGates`, `DeckWorker` and `PluginBridge` are checked for
  safety only.

### Refinements

`MicrophoneHolds` implements `DesiredMics`; `MicrophoneGuardian` follows it as
its host, and its own calls change the rows only as it allows.  `ProfileStore`
implements `ProfileRegister` through every crash and loss of power; the one
sequence in which an acknowledged catalog can be taken back is a step of the
register, `Expose`, and not left out of the store.  All three are checked as properties
(`ImplementsDesired`, `ImplementsRegister`) and proved, step by step.

## Proofs

Eleven components have theorems, in modules of their own, for every value
of the constants the named assumptions of the module admit.  Those assumptions
say only what the code's types and constants say: sets of decks, microphones or
workers are finite where the code counts them, limits are natural numbers,
amounts lie within the cap, and a value that stands for "none" is none of the
others.  Bounds of the instances (`MaxEpoch`, `MaxEvents`, ...) are arbitrary in
the proofs.  Every invariant was first found to hold by TLC on a small instance;
where it was not inductive, the conjuncts below are what was missing.

| Module | Theorem | States |
|---|---|---|
| `SharedWorkerProofs` (dispatcher) | `TypeCorrectness`, `TargetExclusion`, `Adjacency`, `OrderedEffects`, `BoundedCoalescing`, `FairTurns` | `TypeOK`, `TargetExclusive`, `Contiguous`, `SubmissionOrder`, `CoalescedWithinCap`, `RoundRobin` |
| `SharedWorkerProofs` (service) | `OneWriter`, `QuietBarrier`, `ServiceOrder`, `ServiceIsManned`, `SelectedIsKept` | `OneWriterPerTarget`, `QuietIsIdle`, `SubmissionOrder` of the service, `Manned`, `Kept` |
| `MicrophoneHoldsProofs` | `TypeCorrect`, `LiveExactlyWhileHeld`, `HoldsNeedFreshDowns`, `CoordinatorImplementsDesired` | `TypeOK`, `LiveIffHeld`, `FreshDownOnly`, `ImplementsDesired` |
| `MicrophoneGuardianProofs` | `TypeCorrect`, `WritersAreOwned`, `RecoveryStaysMuted`, `OpenIsRemembered`, `GuardianImplementsDesired` | `GuardianTypeOK`, `OneWriter`, `RecoveryNotLive`, `NeverForgotten`, `ImplementsDesired` |
| `DeviceSessionProofs` (owner) | `TypeCorrect`, `CreditIsDue`, `ReadyIsTrue` | `TypeOK`, `SentIsShown`, `ReadyIsCurrent` |
| `DeviceSessionProofs` (session) | `SessionTyping`, `DownsMeetTheirPage`, `EdgesArePaired` | `SessionTypeOK`, `DownOnOwnPage`, `EdgesPaired` |
| `CoordinatorProofs` (edits) | `TypeCorrect`, `MirrorIsCurrent`, `HoldsAreInView`, `AnswersAreHonest`, `AppliesAreOwn` | `LiveTypeOK`, `MirrorCurrent`, `HoldsInView`, `RepliesHonest`, `NoForeignApply` |
| `CoordinatorProofs` (lock and sleep) | `HostTyping`, `SuspendSettles`, `NothingBeforeActs` | `HostTypeOK`, `SuspendIsSettled`, `NothingFromBefore` |
| `ProfileStoreProofs` | `StoreTyping`, `CurrentStaysWhole`, `NothingIsLost`, `StoreIsRegister` | `StoreTypeOK`, `CurrentIsWhole`, `NothingLost`, `ImplementsRegister` |
| `PluginBridgeProofs` | `VerdictsAreTrue`, `InputsAreFresh`, `RecoveryIsExplicit` | `VerdictsTrue`, `FreshInputs`, `ExplicitRecovery` |
| `DeckWorkerProofs` | `ArmedIsHere`, `HeldIsDown`, `SentIsTrue`, `NoneCrossesLock` | `ArmedHere`, `HeldWhileDown`, `SentIsShown`, `NothingCrossesLock` |

Each module also has its inductive invariant as a theorem (`Invariance`,
`ServiceInvariance`, `SessionInvariance`, `StoreInvariance`, `HostInvariance`).  Two hypotheses
are not assumptions of a module and are named where they are used:

* `OpenIsRemembered` assumes `Room` (`MaxTargets` targets hold all microphones;
  see the observation on refused mutes below), `NoneCrossesLock` assumes `Calm`
  (the lock changes at most once in a turn of the worker; TLC violates the
  property without it, see above).  Each guards a single conjunct of its
  module's invariant, which is proved without it.

### Dispatcher and service

`SubmissionOrder` is not inductive alone.  That what begins next is newer than
what began before needs to know that what is *selected* is older than what
still waits (`HandedInOrder`), that a coalesced job occupies an interval of
submissions no other job of its target or deck falls into (`Contiguous`), that
no target has two active jobs (`TargetExclusive`) and no deck two selected ones
(`OneSelectedPerOwner`, which the code enforces in `select`).  The conjunction
is `IInv`.  Each operation first shrinks the set of jobs (`Keep`), and every
conjunct is preserved by shrinking (lemma `Shrink`); then it adds or changes
one job, which the lemmas `SubmitPreserves`, `SelectPreserves` and
`BeginPreserves` treat.

The service adds steps the dispatcher alone does not have: a panic abandons a
job, a full queue of replies stops everything.  Lemma `DispatcherMoves` says
that every step of the service changes the dispatcher's state as one of its
operations does, or less, so `IInv` holds of it too.  `OneWriterPerTarget` then
needs a relation between locals of threads and the shared jobs: what a thread
has begun is started and stays in `jobs` until it reports (`Reserved`), and no
two threads hold one job (`Apart`); the rest is `TargetExclusive`.  That `begin`
finds what `select` left (`Kept`) rests on the mutex being held between them.
`Manned` is what makes `state.workers -= 1` safe and `state.workers == 0` mean
that nobody is left.

### Microphones

The coordinator's invariant is `Sound(Here) /\ HostOK /\ PressesSpent`.  `Sound`
is a predicate on coordinator states: well shaped, at most one lease per
control, a target Live exactly when a lease is on it, no lease after a stop.  It
must be about states and not only about the variables, because an operation
composes helpers, each of which may give up and fail closed: there is one lemma
per helper (`DesireShaped`, `MuteAllSound`, `RemainSound`, `HaltSound`, ...) that
it keeps `Sound` and `Keeps` (no row is forgotten, no stop undone), and the
operations follow by composition.  One lease per control is what makes the
release of a lease mute only what nobody else holds.  `PressesSpent` relates the
press a control consumed to the last genuine one; without it a press presented
again would look fresh.

The guardian's invariant says for each microphone who owns its process
(`Owned`): guarded by its slot, or by a toggle, never both, and running only if
owned; and the same in the middle of a round, when the driver has taken a slot
apart (`launch`, `settle`).  `Finished` ties the helper's exit status to what it
did to the microphone, which is what lets a settled slot be forgotten
(`Remembered`).  `Closing` says that what failed is not wanted Live.  Most steps
touch one microphone (lemma `Local`); failures go through `Fail` and
`FailedSlots`, which may mute every target at once, and have lemmas of their own.

### Device owner

The thread selects under the mutex, writes without it and reports under it
again; between these the host may replace pictures, fence or stop.  `IInv`
relates the thread's locals to the mailbox: what is in flight is what the
mailbox calls `writing` (`Placed`); `sent` is what the unit shows except for the
picture that has just been written (`Agreed`); a full mailbox wants a picture
everywhere (`Wanted`); and the strip, where readiness accepts meters, shows
something asked for, or is guarded, or pending, or what is being written to it
will be followed, because the revision or the generation has moved (`Strip`).

### Device session

Every call of the manager moves the owner as `DeviceActor` allows
(`OwnerKeeps`), so the owner's `IInv` and with it `ReadyIsCurrent` hold under
the session.  `SessionInv` adds four parts.  `Counted`: every fence takes an
era, and `poll_round` is under way only with a device attached.  `Armed`: what
is armed was pressed in the present context, and what was pressed in the present
context of an attached device is armed; no press is of a context to come, so a
new context disarms everything for good.  `Painted`: a full mailbox of a living,
attached owner was painted in the present context, because a fence empties it.
The calls either keep the context (`StayStep`) or disarm everything and change
it (`FenceStep`); `JudgeArmed` treats the one step that arms and disarms.
`EdgesArePaired` then reads the delivered edge off `Armed`; `DownsMeetTheirPage`
combines `Painted` with `ReadyCurrent` of the owner, since `poll_round` judges a
down by `display_ready`.  The proof needs `ReportAssumption`: reports are of
controls of this deck, and a history stamp carries the context of its moment.

### Live edits

`MirrorCurrent` and `HoldsInView` are inductive with the types: every operation
of the coordinator is a disturbance of the view followed by a finish, and lemmas
`DisturbView` and `FinishView` treat these once for all.  `RepliesHonest` needs
to know where each request is (`Progress`), that what is in the link was sent by
requests taken up, that the one in hand comes last, and that after the answer to
a reservation nothing of it is left (`Queued`): only so is an application that
arrives the one of the request that waits.  `NoForeignApply` needs that a deck
that was disturbed has lost its reservation, or is down and will lose it
(`Reservations`), and that tickets are carried unchanged (`Carried`).

### Lock and sleep

`HostIInv` is types and five parts.  `Dated`: nothing is of an epoch or a sleep
to come, and a turn acts in the epoch it has told the runtime of.  `Inhibited`:
a connection that has just been made holds its inhibitor.  `Gated`: while
logind prepares, an inhibitor that is not held has an excuse, or the runtime has
settled and the snapshot blocks.  This stays true because an acknowledgement
under way for the present epoch is only there if the runtime has settled for
it, and because what has settled stays settled until a turn reads a snapshot
that does not block, and for that the epoch must move.  `Recent`: the device
and the work are of the sleep the last turn knew of, and an opening is too or
its epoch has passed, so that it will be dropped (`Timely`).  `Guarded`: what is
held was begun after the last lock, or the runtime's lock epoch is behind the
gate's; a lock and an unlock between two turns leave the same state, and only
the epoch tells.  A step of logind, the observer, the lock gate or a slow party
disturbs one or two of the parts (`LogindKeeps`, `ObserverKeeps`, `LockKeeps`,
`AsideKeeps`: what each may change); the two steps of a turn are proved part by
part, from what a turn makes of the runtime (`HostLockFacts`, `HostSleepFacts`,
`ActedFacts`) and of the snapshot (`AfterSleepFacts`, `AcknowledgeFacts`).
`SuspendIsSettled` is a conjunct of `Gated`, `NothingFromBefore` of `Recent` and
`Guarded`.

### Store

`StoreIInv` is types, `SafeInv` for the two invariants, and `RegisterInv` for the
refinement.  `SafeInv` relates what is in the directory to what is on the disk.
`Locking`: only the holder of the lock is past its draft, so one stage at a time
need be considered.  `Pointers`: the present and the fallback generation, as
far as `trust` says they stand (`Standing`), are loadable and durable.  `Kept`: what was ever current is in an archive, or in the store both now
and after a loss of power.  `Journaled`: what a journal retires, the present or
the durable one, is archived and older than its generation.
`Stage` says what each stage has secured: a synced generation is on the disk
before the pointer moves, and pruning takes the fallback only when it is
exposed.  No number of interruptions or losses of power is assumed.

The refinement needs more, because the predecessor of a layout is looked up in
older generations, which may be archived or half removed while it is asked.
`Legacy` says that only the oldest stores lack a recorded predecessor and that it
can then only be the first generation's; `Recorded` reads it from history, where
nothing is ever removed, and the lookup is shown to agree (`Faithful`).
`Request` and `Succession` carry what a draft and an unpublished generation were
made from, up to `MovePointer`, which is the register's publication; a sync of
the root is its `Secure`, a loss of power its `LosePower` or `Secure`, a resumption that
retires the fallback its `Expose`, and every other step leaves the register
alone.

### Plugin bridge

Every step of the companion's handler changes an exchange as `Obeys` says (final
verdicts stay, replies are appended only in the places that send them, nothing
is passed without a watch or a grant) and the owners of the panel as `Shift`
says; one lemma per step shows this, and the four parts of `IInv` follow from
the two relations.  `VerdictsTrue` rests on `Told` and `Asking`: "never" is said
only when the companion can no longer pass the command.  `ExplicitRecovery`
rests on `Owned`: one operation or reconnection holds the panel, and none while
it is not known what became of a command, unless recover() has crossed an
operation, which `doubt` records.

### Single worker

`DeckIInv` dates everything by the lock's epoch: what is armed is of the epoch
the worker knows (`ArmedNow`), what waits to be read is of that or a later one,
unless it is going to be drained (`Unread`), and how far the worker's knowledge
lags behind the gate (`Seen`).  `HeldWhileDown` needs that a press that waits is
still down or followed by its release (`Paired`) and that a drained deck holds
nothing (`Drained`); the input step is the longest proof, because one report may
release, arm, talk, turn a page or lose the deck.  `NothingCrossesLock` needs
that what waits for the audio thread was pressed in the epoch it was submitted
in, or is out of date already (`Submissions`).

### Only model-checked

Liveness and everything under fairness, since neither fairness nor `ENABLED` is
within the prover's reach: `NothingStarves`, `PendingResolved`, `StopJoins`,
`MuteResolved`, `DesiredTransmitted`, `DrainEnds` and `PublishedFinishes`.  The
conjunct of `ServiceTypeOK` that filters the sequence of replies, which is
induction over a sequence.  Every other invariant and action property that a
passing run checks is a theorem.

## Where the code and its documentation disagree

One disagreement is a run of its own:

* **A queued rotation survives a fence** (`DrainRace.cfg`,
  `QueuedTurnsDropped`).  `poll_round` finds the mailbox empty and then loads
  `input_drained` (`manager.rs:547-549`).  Between the two, the owner can
  deposit an old rotation and acknowledge the epoch with the following empty
  probe.  `docs/device-sessions.md:72` says queued rotations do not become
  fresh actions.

Further observations, made while modelling; TLC reproduced the first four on
small instances, the others come from reading the code for the model:

* **A guarded strip change can block readiness.**  `set_touch_image` sets
  `touch_guarded`; a meter frame with the pixels already on the strip
  (`actor.rs:140`) may replace the guarded picture before the thread selects
  it.  Then nothing differs from what was sent, nothing is written, and only
  the completion of a strip write clears the guard: `display_ready` stays
  false, and downs are suppressed, until the strip changes again.  `lib.rs:130`
  and `docs/device-execution.md:59` make readiness depend on the current
  desired surfaces only.
* **A fence loses a brightness change.**  The level leaves the mailbox at
  selection (`actor.rs:412`); a fence before the issue cancels the write for
  good.  Pictures are redrawn after a fence, brightness is not, although
  `tests/device_manager.rs:391` expects it after a page change and the manager
  goes on reporting the saved level (`manager.rs:419`).
* **A resumed archiving prunes under a journal that may be lost.**
  `archive_history_at` syncs the root between the write of the journal and the
  first removal (`device_profiles.rs:583`).  If it is killed before that, or the
  sync fails, `resume_archive` (`device_profiles.rs:586`) finds the journal and
  goes on to the removals without a sync.  A loss of power may then keep the
  removals and not the journal: a retired generation is incomplete, no journal
  accounts for it, and further archivings refuse the store.
  `docs/profile-history.md:24` says "Before pruning, a durable private journal is
  written in the source".  No catalog is lost by it (`NothingLost`), as the
  archive is complete by then.  But if the sync of the publication before had
  failed as well, the removals take the generation that a loss of power falls
  back to, and such a loss leaves a `current.json` that names a removed
  generation: nothing loads until it is restored from the archive by hand.  This
  is the sequence `CurrentIsWhole` and `ProfileRegister` except; TLC reaches its
  end in 19 steps of the instance.
* **The panel's recovery acts on an old look.**  `recover()`
  (`live_panel.py:163-175`) looks at busy, manual and unknown, awaits a refresh
  and does not look again: its reconnect can abandon an operation that began
  meanwhile, and `connect()` then clears `manual_recovery` (line 92), so that
  the next command is passed with no explicit reconnect.  The comment at lines
  160-162 and `docs/openhomeb-runtime.md:14-19` say otherwise.
* **A test that turns the page of the single worker** (`worker.rs:372-379`) shows
  it without cancelling push-to-talk, unlike every other way to turn it
  (`docs/audio-controls-foundation.md:148`); the hold lasts until its key is
  released or it expires.  `HeldWhileDown` allows that; the instance turns its
  pages by flicks and page commands.
* A key release is swallowed while the display is pending (`worker.rs:632`;
  `docs/dial-controls.md:7`): the press it ends does nothing.
* `quiet()` of the microphone service does not look at a running toggle
  (`shared_microphone.rs:151`; the comment at `device_execution.rs:669`).
* The mute that a failed toggle asks for is refused when `MAX_TARGETS` others
  fill the coordinator (`shared_microphone.rs:347`); `NeverForgotten` is
  checked with room for it.
* A reservation whose flag was read just before it was cancelled keeps its deck
  fenced until the next edit or reconnect (`live_profiles.rs:73` and `169`;
  `docs/checkpoints/2026-10-14-live-profile-editor.md`).
* An apply that fails at the brightness has already replaced what the controls
  are bound to but not what is rendered (`device_profiles.rs:1157-1170`, called
  at `device_execution.rs:372`), and a rejected apply leaves the store ahead of
  the coordinator's catalog, so that later saves answer
  "live_profile_reload_required"; both last until a reload.
* Readiness is judged when a down is polled.  A press made on a half-drawn page
  and polled after the page completed is delivered; `DownOnOwnPage` speaks of
  the moment of delivery.

## Not modelled, and why

* Rendering, pages, themes, compilation of settings, the pactl and D-Bus
  backends: data and I/O without state of their own; a backend call is one
  nondeterministic step.
* The device registry and the inventory of units: planned (below).
* The press resolver: only the replay command and tests use it.
* The legacy single layout store, `restore_generation`, document validation,
  checksums and file modes of the profile store.
* Selection, page changes, tests and previews through the live link; painting,
  touch strips, meters and the routing of actions in the coordinator.
* Start, enrolment, saved state and the foreground policy of the permanent
  service; the D-Bus sources behind the lock's observation; the full queue of
  acknowledgements ("sleep_watch_queue_full").
* In the single worker: the plugin lane (see `PluginBridge`), the contents of
  readings and warnings, the thread that saves the brightness, the writing of
  `layout.json`.
* In the bridge: the trial's fixed commands (schema 1), enabling, disabling and
  the setup of the connection, the observed snapshot.
* Nonces and process-wide epochs that tell instances apart; counters and
  timestamps used for diagnostics; `MAX_CONTROLS` of the holds (eight decks have
  no more controls).
* At the session level: several decks in one round (they share only the gate
  and the cursor), discovery and enrolment, touch-strip writes.
* HID adapters, editor, CLI, labs, packaging.

About half of the lines of the larger source files are tests inside them, and
most of the longest file (`pages.rs`) is rendering; the map covers the
state-changing half of the rest.

## Plan

Done, in this order: dispatcher, service, holds, I/O owner, session, with the
proofs of the dispatcher; then guardian, edits, store, lock and sleep, single
worker, plugin bridge, with the proofs of the holds and three refinements; then
the proofs of the service, the guardian, the I/O owner, the session, the edits,
the bridge, the single worker, the store with its refinement, and lock and sleep.
Next:

1. Deck identity (`registry.rs`, `hardware/inventory*`, the manager's
   reconciliation, the hardware thread's openings): "an attached session drives
   the unit its record names", "only while the latest snapshot resolves it",
   "a stable unique unit is eventually attached".
2. The coordinator's routing, painting and replies over abstract manager,
   service and holds; several decks in one poll round.
3. The remaining requests of the live link, and the saved state of the
   permanent service.
