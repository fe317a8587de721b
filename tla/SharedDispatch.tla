--------------------------- MODULE SharedDispatch ---------------------------
(***************************************************************************)
(* The bounded, deterministic scheduler of shared effects                  *)
(* (crates/decksmith-core/src/shared_dispatch.rs).  Every Stream Deck owns *)
(* a FIFO of pending jobs; at most MaxInflight jobs of all the decks are   *)
(* handed to workers, never two of them for one target.                    *)
(*                                                                         *)
(* A deck's VecDeque is represented by the set of its queued jobs: ids     *)
(* only grow at the back, cancellation retains the order and coalescing    *)
(* rewrites the tail in place, so the queue is always its jobs in the      *)
(* order of their ids, the front is the smallest id and the back the       *)
(* largest.  Operations take the set cur of the scopes the host's fence    *)
(* accepts at the moment of the call (the closure `current`).  A scope of  *)
(* another runtime, or a structurally invalid one, is simply never current.*)
(***************************************************************************)
EXTENDS Integers, FiniteSets

CONSTANTS
  NumOwners,    \* decks known to the dispatcher (at most MAX_DEVICES)
  Scope,        \* identities of device contexts an action was pressed in
  DeviceOf,     \* the deck of a scope; one outside Owner is unknown here
  Target,       \* canonical keys of the shared resources
  Amount,       \* what a submitted effect carries, see Discrete
  Cap,          \* bound of a coalesced adjustment (100)
  MaxPending,   \* MAX_PENDING
  PerDevicePending, \* PER_DEVICE_PENDING
  MaxInflight,  \* MAX_INFLIGHT
  MaxId         \* the last request id: where checked_add gives up

Owner == 0 .. NumOwners - 1

\* An Adjust effect is its amount.  Adjust(0) is refused by Effect::valid, so
\* zero is free to stand for the effects that never coalesce: Toggle, Set,
\* Activate.
Discrete == 0

ASSUME OwnersAssumption == NumOwners \in Nat \ {0}
ASSUME DeviceAssumption == DeviceOf \in [Scope -> Nat]
ASSUME EffectAssumption == Cap \in Nat /\ Amount \subseteq -Cap .. Cap
ASSUME BoundsAssumption ==
  /\ MaxPending \in Nat /\ PerDevicePending \in Nat
  /\ MaxInflight \in Nat /\ MaxId \in Nat

VARIABLES
  jobs,     \* the jobs of the dispatcher, queued or handed to a worker
  nextId,   \* the last id given out
  cursor,   \* the deck from which the next selection starts
  stopped,  \* no job is ever accepted, selected or begun again
  current,  \* the scopes the host's fence accepts now
  lastOnTarget,  \* history: the newest submission begun on each target
  lastOfOwner    \* history: the newest submission begun for each deck

queueVars == <<jobs, nextId, cursor, stopped>>
history == <<lastOnTarget, lastOfOwner>>
dispatchVars == <<jobs, nextId, cursor, stopped, lastOnTarget, lastOfOwner>>
vars == <<jobs, nextId, cursor, stopped, current, lastOnTarget, lastOfOwner>>

Phase == {"queued", "selected", "started"}

\* Job and Active: submissions counts the calls coalesced into the job and
\* last is the id of the latest of them.
Job == [id: 1..MaxId, scope: Scope, target: Target, effect: -Cap .. Cap,
        submissions: Nat, last: 1..MaxId, phase: Phase]

IsQueued(j) == j.phase = "queued"
IsActive(j) == j.phase # "queued"
OwnerOf(j) == DeviceOf[j.scope]

Queue(js, o) == {j \in js : IsQueued(j) /\ OwnerOf(j) = o}
Pending(js) == {j \in js : IsQueued(j)}
Active(js) == {j \in js : IsActive(j)}

InFront(js, j) == \A k \in Queue(js, OwnerOf(j)) : j.id <= k.id
AtBack(js, j) == \A k \in Queue(js, OwnerOf(j)) : k.id <= j.id

\* old.signum() == new.signum(), of effects that are both adjustments.
SameSign(x, y) == (x > 0 /\ y > 0) \/ (x < 0 /\ y < 0)

Init ==
  /\ jobs = {}
  /\ nextId = 0
  /\ cursor = 0
  /\ stopped = FALSE
  /\ current = {}
  /\ lastOnTarget = [t \in Target |-> 0]
  /\ lastOfOwner = [o \in Owner |-> 0]

-----------------------------------------------------------------------------
(* Variants of the operations with one fault each: the mutation checks put *)
(* them in the place of the operation they are named after.                *)

KeepDroppingStarted(cur) == {j \in jobs : j.scope \in cur}

AbsorbsAcrossOthers(js, tail, s, t, e) ==
  /\ IsQueued(tail) /\ AtBack(js, tail)
  /\ tail.scope = s /\ tail.target = t
  /\ SameSign(tail.effect, e)
  /\ tail.effect + e \in -Cap .. Cap

EligibleIgnoringOlder(js, j) ==
  /\ IsQueued(j) /\ InFront(js, j)
  /\ ~\E k \in js : k.phase = "selected" /\ OwnerOf(k) = OwnerOf(j)
  /\ ~\E k \in Active(js) : k.target = j.target

EligibleIgnoringActive(js, j) ==
  /\ IsQueued(j) /\ InFront(js, j)
  /\ ~\E k \in js : k.phase = "selected" /\ OwnerOf(k) = OwnerOf(j)
  /\ ~\E k \in Pending(js) : k.target = j.target /\ k.id < j.id

EligibleAmongAll(js, j) ==
  /\ IsQueued(j) /\ InFront(js, j)
  /\ ~\E k \in js : k.phase = "selected" /\ OwnerOf(k) = OwnerOf(j)
  /\ ~\E k \in js : k.target = j.target /\ k # j

AdvanceNowhere(o) == o

-----------------------------------------------------------------------------
(* Operations.                                                             *)

\* cancel_stale: queued and selected jobs survive while their scope is
\* current; a started job keeps its target until its worker reports.
Keep(cur) ==
  {j \in jobs : j.phase = "started" \/ (~stopped /\ j.scope \in cur)}

\* Whether submission (s, t, e) joins the back of its deck's queue: not when
\* another job for the target was submitted, or grew, since.
Absorbs(js, tail, s, t, e) ==
  /\ IsQueued(tail) /\ AtBack(js, tail)
  /\ ~\E k \in js : k.target = t /\ k.last > tail.last
  /\ tail.scope = s /\ tail.target = t
  /\ SameSign(tail.effect, e)
  /\ tail.effect + e \in -Cap .. Cap

Room(js, o) ==
  /\ Cardinality(Pending(js)) < MaxPending
  /\ Cardinality(Queue(js, o)) < PerDevicePending

NewJob(s, t, e) ==
  [id |-> nextId + 1, scope |-> s, target |-> t, effect |-> e,
   submissions |-> 1, last |-> nextId + 1, phase |-> "queued"]

Coalesce(cur, s, t, e) ==
  /\ \E tail \in Keep(cur) :
       /\ Absorbs(Keep(cur), tail, s, t, e)
       /\ jobs' = (Keep(cur) \ {tail}) \cup
                    {[tail EXCEPT !.effect = tail.effect + e,
                                  !.last = nextId + 1,
                                  !.submissions = tail.submissions + 1]}
  /\ nextId' = nextId + 1

Enqueue(cur, s, t, e) ==
  /\ ~\E tail \in Keep(cur) : Absorbs(Keep(cur), tail, s, t, e)
  /\ Room(Keep(cur), DeviceOf[s])
  /\ jobs' = Keep(cur) \cup {NewJob(s, t, e)}
  /\ nextId' = nextId + 1

\* A full queue, an unknown deck or exhausted ids: only the stale jobs go.
Refuse(cur, s, t, e) ==
  /\ \/ DeviceOf[s] \notin Owner
     \/ nextId = MaxId
     \/ /\ ~\E tail \in Keep(cur) : Absorbs(Keep(cur), tail, s, t, e)
        /\ ~Room(Keep(cur), DeviceOf[s])
  /\ jobs' = Keep(cur)
  /\ nextId' = nextId

Submit(cur, s, t, e) ==
  /\ ~stopped /\ s \in cur
  /\ \/ /\ DeviceOf[s] \in Owner /\ nextId < MaxId
        /\ Coalesce(cur, s, t, e) \/ Enqueue(cur, s, t, e)
     \/ Refuse(cur, s, t, e)
  /\ UNCHANGED <<cursor, stopped, history>>

CancelStale(cur) ==
  /\ jobs' = Keep(cur)
  /\ UNCHANGED <<nextId, cursor, stopped, history>>

\* The front of a deck's queue may be handed out: the deck has no other job
\* awaiting `begin`, its target is free and no older request for the target
\* hides anywhere in another queue.
Eligible(js, j) ==
  /\ IsQueued(j) /\ InFront(js, j)
  /\ ~\E k \in js : k.phase = "selected" /\ OwnerOf(k) = OwnerOf(j)
  /\ ~\E k \in Active(js) : k.target = j.target
  /\ ~\E k \in Pending(js) : k.target = j.target /\ k.id < j.id

\* Decks are visited round, from the cursor.
Distance(o) == IF o >= cursor THEN o - cursor ELSE o + NumOwners - cursor
Advance(o) == IF o = NumOwners - 1 THEN 0 ELSE o + 1

MaySelect(js, j) ==
  /\ ~stopped
  /\ Cardinality(Active(js)) < MaxInflight
  /\ Eligible(js, j)
  /\ \A k \in js : Eligible(js, k) => Distance(OwnerOf(j)) <= Distance(OwnerOf(k))

\* `select` hands out job j, or nothing when no job may be selected.
SelectJob(cur, j) ==
  /\ j \in Keep(cur) /\ MaySelect(Keep(cur), j)
  /\ jobs' = (Keep(cur) \ {j}) \cup {[j EXCEPT !.phase = "selected"]}
  /\ cursor' = Advance(OwnerOf(j))
  /\ UNCHANGED <<nextId, stopped, history>>

SelectNothing(cur) ==
  /\ \A j \in Keep(cur) : ~MaySelect(Keep(cur), j)
  /\ CancelStale(cur)

Select(cur) == SelectNothing(cur) \/ \E j \in jobs : SelectJob(cur, j)

Begin(cur, j) ==
  /\ j \in jobs /\ j.phase = "selected"
  /\ ~stopped /\ j.scope \in cur
  /\ jobs' = (jobs \ {j}) \cup {[j EXCEPT !.phase = "started"]}
  /\ lastOnTarget' = [lastOnTarget EXCEPT ![j.target] = j.last]
  /\ lastOfOwner' = [lastOfOwner EXCEPT ![OwnerOf(j)] = j.last]
  /\ UNCHANGED <<nextId, cursor, stopped>>

\* `begin` of a job whose scope was fenced after its selection drops it.
BeginStale(cur, j) ==
  /\ j \in jobs /\ j.phase = "selected"
  /\ stopped \/ j.scope \notin cur
  /\ jobs' = jobs \ {j}
  /\ UNCHANGED <<nextId, cursor, stopped, history>>

\* `finish`: the job of a worker that reports frees its target.
Release(j) ==
  /\ j \in jobs /\ j.phase = "started"
  /\ jobs' = jobs \ {j}
  /\ UNCHANGED <<nextId, cursor, stopped, history>>

\* A worker whose writes have ended gives up its job, begun or only selected.
WorkerTerminated(j) ==
  /\ j \in jobs /\ IsActive(j)
  /\ jobs' = jobs \ {j}
  /\ UNCHANGED <<nextId, cursor, stopped, history>>

Stop ==
  /\ stopped' = TRUE
  /\ jobs' = {j \in jobs : j.phase = "started"}
  /\ UNCHANGED <<nextId, cursor, history>>

-----------------------------------------------------------------------------
(* The host's fence changes at any time: a page is shown, a deck is         *)
(* unplugged, the session locks, and a fenced scope may be accepted again.  *)

Grant(s) == current' = current \cup {s} /\ UNCHANGED dispatchVars
Revoke(s) == current' = current \ {s} /\ UNCHANGED dispatchVars

Dispatch ==
  \/ \E s \in Scope, t \in Target, e \in Amount : Submit(current, s, t, e)
  \/ CancelStale(current)
  \/ Select(current)
  \/ \E j \in jobs :
       Begin(current, j) \/ BeginStale(current, j) \/ Release(j) \/ WorkerTerminated(j)
  \/ Stop

Next ==
  \/ Dispatch /\ UNCHANGED current
  \/ \E s \in Scope : Grant(s) \/ Revoke(s)

Spec == Init /\ [][Next]_vars

\* Workers keep selecting, take up what they selected, and the effects they
\* begin return: every backend call is bounded (docs/shared-actions.md).
Fairness ==
  /\ WF_vars(UNCHANGED current /\ Select(current))
  /\ WF_vars(UNCHANGED current /\ \E j \in jobs : Begin(current, j) \/ BeginStale(current, j))
  /\ WF_vars(UNCHANGED current /\ \E j \in jobs : Release(j))

FairSpec == Spec /\ Fairness

-----------------------------------------------------------------------------
(* Properties.                                                             *)

\* Every job is well formed, no two jobs share an id and ids never run ahead
\* of the counter (struct Job, struct Dispatcher).
TypeOK ==
  /\ jobs \subseteq Job
  /\ \A j \in jobs : OwnerOf(j) \in Owner /\ j.id <= j.last /\ j.last <= nextId
  /\ \A j, k \in jobs : j.id = k.id => j = k
  /\ nextId \in 0..MaxId
  /\ cursor \in Owner
  /\ stopped \in BOOLEAN
  /\ current \subseteq Scope
  /\ lastOnTarget \in [Target -> 0..nextId]
  /\ lastOfOwner \in [Owner -> 0..nextId]

\* A target is reserved by one worker at a time, through cancellation, fences
\* and stop: a started writer keeps it until it reports
\* (docs/shared-action-lifecycle.md, "Bounded scheduling and feedback").
TargetExclusive ==
  \A j, k \in Active(jobs) : j.target = k.target => j = k

\* Only one selected-but-not-started job per deck, so that begins of one deck
\* cannot be swapped by the workers that selected them.
OneSelectedPerOwner ==
  \A j, k \in jobs :
    j.phase = "selected" /\ k.phase = "selected" /\ OwnerOf(j) = OwnerOf(k) => j = k

\* The submissions coalesced into one job are contiguous among those of its
\* target and of its deck: no other job of either was submitted between them.
Contiguous ==
  \A j, k \in jobs :
    j.id < k.id /\ (j.target = k.target \/ OwnerOf(j) = OwnerOf(k)) => j.last < k.id

\* What was handed to a worker is older than what still waits for its target
\* or at its deck.
HandedInOrder ==
  \A j \in Active(jobs), k \in Pending(jobs) :
    j.target = k.target \/ OwnerOf(j) = OwnerOf(k) => j.id < k.id

\* Effects reach a target, and leave a deck, in the order of submission even
\* with several workers, coalescing and cancellation: whatever has still to
\* begin is newer than all that began before it.
SubmissionOrder ==
  \A j \in jobs : j.phase # "started" =>
    /\ lastOnTarget[j.target] < j.id
    /\ lastOfOwner[OwnerOf(j)] < j.id

\* A coalesced adjustment has one direction and stays within the cap, so the
\* u16 count of the submissions it stands for cannot overflow.
CoalescedWithinCap ==
  \A j \in jobs : j.submissions > 1 =>
    /\ j.effect # Discrete
    /\ j.submissions <= IF j.effect > 0 THEN j.effect ELSE -j.effect

\* The invariant the proofs are built on.
IInv ==
  /\ TypeOK /\ TargetExclusive /\ OneSelectedPerOwner
  /\ Contiguous /\ HandedInOrder /\ SubmissionOrder /\ CoalescedWithinCap

\* Fair selection: a deck whose front job could be handed out and is passed
\* over gets strictly closer to its turn with every job another deck is given.
RoundRobin ==
  [][\A j \in jobs : SelectJob(current, j) =>
       \A k \in jobs :
         k.scope \in current /\ Eligible(Keep(current), k) /\ OwnerOf(k) # OwnerOf(j)
           => Distance(OwnerOf(k))' < Distance(OwnerOf(k))]_vars

\* No job waits for ever: it is handed to a worker or cancelled, in spite of
\* jobs for its target hidden in other queues and of busy targets.
NothingStarves ==
  \A i \in 1..MaxId :
    (\E j \in jobs : j.id = i /\ IsQueued(j)) ~> ~(\E j \in jobs : j.id = i /\ IsQueued(j))

=============================================================================
