------------------------- MODULE SharedWorkerProofs -------------------------
(***************************************************************************)
(* Proofs about SharedDispatch and SharedWorker, for any number of decks,  *)
(* scopes, targets, requests and threads, any queue limits and replies     *)
(* and any authority.                                                      *)
(***************************************************************************)
EXTENDS SharedWorker, FiniteSetTheorems, TLAPS

(***************************************************************************)
(* The dispatcher alone.  IInv is inductive; the theorems are its          *)
(* conjuncts.  Most operations only drop jobs (lemma Shrink); the four     *)
(* others replace or add one.                                              *)
(***************************************************************************)

\* Dropping jobs, with the counters and the history left alone, keeps IInv.
LEMMA Shrink ==
  ASSUME IInv, jobs' \subseteq jobs, cursor' = cursor, stopped' \in BOOLEAN,
         current' \subseteq Scope,
         UNCHANGED <<nextId, lastOnTarget, lastOfOwner>>
  PROVE  IInv'
<1> USE DEF IInv, IsQueued, IsActive, Pending, Active, OwnerOf
<1>1. TypeOK'
  BY DEF TypeOK
<1>2. TargetExclusive' /\ OneSelectedPerOwner'
  BY DEF TargetExclusive, OneSelectedPerOwner
<1>3. Contiguous' /\ HandedInOrder' /\ SubmissionOrder' /\ CoalescedWithinCap'
  BY DEF Contiguous, HandedInOrder, SubmissionOrder, CoalescedWithinCap
<1>4. QED
  BY <1>1, <1>2, <1>3

\* What cancel_stale leaves is part of what was there.
LEMMA KeepShrinks == \A cur : Keep(cur) \subseteq jobs
BY DEF Keep

LEMMA SubmitPreserves ==
  ASSUME IInv, NEW s \in Scope, NEW t \in Target, NEW e \in Amount,
         Submit(current, s, t, e), UNCHANGED current
  PROVE  IInv'
<1> DEFINE K == Keep(current)
<1>0. K \subseteq jobs
  BY KeepShrinks
<1>t. /\ TypeOK /\ TargetExclusive /\ OneSelectedPerOwner
      /\ Contiguous /\ HandedInOrder /\ SubmissionOrder /\ CoalescedWithinCap
  BY DEF IInv
<1>u. UNCHANGED <<cursor, stopped, lastOnTarget, lastOfOwner>>
  BY DEF Submit, history
<1>1. CASE Refuse(current, s, t, e)
  BY <1>0, <1>1, <1>t, <1>u, Shrink DEF Refuse, TypeOK
<1>2. CASE DeviceOf[s] \in Owner /\ nextId < MaxId /\ Coalesce(current, s, t, e)
  <2>1. PICK tail \in K :
          /\ Absorbs(K, tail, s, t, e)
          /\ jobs' = (K \ {tail}) \cup
                       {[tail EXCEPT !.effect = tail.effect + e,
                                     !.last = nextId + 1,
                                     !.submissions = tail.submissions + 1]}
    BY <1>2 DEF Coalesce
  <2> DEFINE new == [tail EXCEPT !.effect = tail.effect + e,
                                 !.last = nextId + 1,
                                 !.submissions = tail.submissions + 1]
  <2>2. tail \in Job /\ tail \in jobs
    BY <1>0, <1>t, <2>1 DEF TypeOK
  <2>3. /\ new.id = tail.id /\ new.scope = tail.scope /\ new.target = tail.target
        /\ new.phase = tail.phase /\ new.phase = "queued"
        /\ new.last = nextId + 1 /\ new.effect = tail.effect + e
        /\ new.submissions = tail.submissions + 1
    BY <2>1, <2>2 DEF Job, Absorbs, IsQueued
  <2>4. nextId' = nextId + 1 /\ nextId \in Nat /\ nextId' \in 0..MaxId
    BY <1>2, <1>t, BoundsAssumption DEF Coalesce, TypeOK
  <2>5. new \in Job
    <3>1. nextId + 1 \in 1..MaxId /\ tail.effect + e \in -Cap .. Cap
      BY <2>1, <2>4, BoundsAssumption DEF Absorbs
    <3>2. tail.submissions + 1 \in Nat
      BY <2>2 DEF Job
    <3>3. QED
      BY <2>2, <3>1, <3>2 DEF Job
  <2>6. jobs' = (K \ {tail}) \cup {new}
    BY <2>1
  <2> HIDE DEF new
  <2>7. TypeOK'
    <3>1. jobs' \subseteq Job
      BY <1>0, <1>t, <2>5, <2>6 DEF TypeOK
    <3>2. \A j \in jobs' : OwnerOf(j) \in Owner /\ j.id <= j.last /\ j.last <= nextId'
      <4>1. ASSUME NEW j \in K
            PROVE  OwnerOf(j) \in Owner /\ j.id <= j.last /\ j.last <= nextId'
        <5>1. j \in Job /\ OwnerOf(j) \in Owner /\ j.id <= j.last /\ j.last <= nextId
          BY <1>0, <1>t DEF TypeOK
        <5>2. QED
          BY <5>1, <2>4 DEF Job
      <4>2. OwnerOf(new) \in Owner /\ new.id <= new.last /\ new.last <= nextId'
        <5>1. tail.id \in Nat /\ tail.last \in Nat /\ OwnerOf(tail) \in Owner
              /\ tail.id <= tail.last /\ tail.last <= nextId
          BY <1>t, <2>2 DEF TypeOK, Job
        <5>2. QED
          BY <5>1, <2>3, <2>4 DEF OwnerOf
      <4>3. QED
        BY <4>1, <4>2, <2>6
    <3>3. \A j, k \in jobs' : j.id = k.id => j = k
      <4>1. \A j, k \in jobs : j.id = k.id => j = k
        BY <1>t DEF TypeOK
      <4>2. QED
        BY <4>1, <1>0, <2>2, <2>3, <2>6
    <3>4. lastOnTarget' \in [Target -> 0..nextId'] /\ lastOfOwner' \in [Owner -> 0..nextId']
      BY <1>t, <1>u, <2>4 DEF TypeOK
    <3>5. QED
      BY <1>t, <1>u, <2>4, <3>1, <3>2, <3>3, <3>4 DEF TypeOK, OwnerOf
  <2>8. TargetExclusive' /\ OneSelectedPerOwner'
    BY <1>0, <1>t, <2>3, <2>6 DEF TargetExclusive, OneSelectedPerOwner, Active, IsActive, OwnerOf
  <2>9. Contiguous'
    <3> SUFFICES ASSUME NEW j \in jobs', NEW k \in jobs', j.id < k.id,
                        j.target = k.target \/ OwnerOf(j) = OwnerOf(k)
                 PROVE  j.last < k.id
      BY DEF Contiguous, OwnerOf
    <3>1. CASE j \in K /\ k \in K
      BY <1>0, <1>t, <3>1 DEF Contiguous
    <3>2. CASE j \in K /\ k = new
      BY <1>0, <1>t, <2>2, <2>3, <3>2 DEF Contiguous, OwnerOf
    <3>3. CASE j = new /\ k \in K /\ k.target = t
      <4>1. k.last <= tail.last
        BY <2>1, <2>2, <3>3, <1>0, <1>t DEF Absorbs, TypeOK, Job
      <4>2. tail.target = t /\ tail.id < k.id
        BY <2>1, <2>3, <3>3 DEF Absorbs
      <4>3. tail.last < k.id /\ k.id <= k.last
        BY <1>0, <1>t, <2>2, <3>3, <4>2 DEF Contiguous, TypeOK
      <4>4. QED
        BY <4>1, <4>3, <2>2, <3>3, <1>0, <1>t DEF TypeOK, Job
    <3>4. CASE j = new /\ k \in K /\ OwnerOf(k) = OwnerOf(tail)
      <4>1. CASE IsQueued(k)
        BY <4>1, <3>4, <2>1, <2>2, <2>3, <1>0, <1>t DEF Absorbs, AtBack, Queue, TypeOK, Job
      <4>2. CASE IsActive(k)
        <5>1. k.id < tail.id
          BY <4>2, <3>4, <2>1, <2>2, <2>3, <1>0, <1>t
          DEF HandedInOrder, Active, Pending, Absorbs
        <5>2. QED
          BY <5>1, <2>2, <2>3, <3>4, <1>0, <1>t DEF TypeOK, Job
      <4>3. QED
        BY <4>1, <4>2 DEF IsQueued, IsActive
    <3>5. CASE j = new /\ k = new
      BY <2>2, <2>3, <3>5 DEF Job
    <3>6. tail.target = t
      BY <2>1 DEF Absorbs
    <3>7. QED
      BY <2>3, <2>6, <3>1, <3>2, <3>3, <3>4, <3>5, <3>6 DEF OwnerOf
  <2>10. HandedInOrder'
    <3> SUFFICES ASSUME NEW j \in jobs', NEW k \in jobs', j.phase # "queued",
                        k.phase = "queued", j.target = k.target \/ OwnerOf(j) = OwnerOf(k)
                 PROVE  j.id < k.id
      BY DEF HandedInOrder, Active, Pending, IsActive, IsQueued, OwnerOf
    <3>1. j \in jobs
      BY <1>0, <2>3, <2>6
    <3>2. PICK l \in jobs : /\ l.id = k.id /\ l.target = k.target
                           /\ l.scope = k.scope /\ l.phase = k.phase
      BY <1>0, <2>2, <2>3, <2>6
    <3>3. QED
      BY <1>t, <3>1, <3>2 DEF HandedInOrder, Active, Pending, IsActive, IsQueued, OwnerOf
  <2>11. SubmissionOrder'
    BY <1>0, <1>t, <1>u, <2>2, <2>3, <2>6 DEF SubmissionOrder, OwnerOf
  <2>12. CoalescedWithinCap'
    <3>1. /\ new.effect # Discrete
          /\ new.submissions <= IF new.effect > 0 THEN new.effect ELSE -new.effect
      <4>1. tail.effect \in Int /\ tail.submissions \in Nat /\ e \in Int
        BY <2>2, EffectAssumption DEF Job
      <4>2. SameSign(tail.effect, e)
        BY <2>1 DEF Absorbs
      <4>3. tail.submissions <= IF tail.effect > 0 THEN tail.effect ELSE -tail.effect
        BY <1>t, <2>2, <4>1, <4>2 DEF CoalescedWithinCap, SameSign
      <4>4. QED
        BY <4>1, <4>2, <4>3, <2>3 DEF SameSign, Discrete
    <3>2. QED
      BY <3>1, <1>0, <1>t, <2>6 DEF CoalescedWithinCap
  <2>13. QED
    BY <2>7, <2>8, <2>9, <2>10, <2>11, <2>12 DEF IInv
<1>3. CASE DeviceOf[s] \in Owner /\ nextId < MaxId /\ Enqueue(current, s, t, e)
  <2> DEFINE new == NewJob(s, t, e)
  <2>1. /\ new.id = nextId + 1 /\ new.scope = s /\ new.target = t
        /\ new.phase = "queued" /\ new.last = nextId + 1 /\ new.submissions = 1
    BY DEF NewJob
  <2>2. nextId' = nextId + 1 /\ nextId \in Nat /\ nextId' \in 0..MaxId
    BY <1>3, <1>t, BoundsAssumption DEF Enqueue, TypeOK
  <2>3. new \in Job
    <3>1. nextId + 1 \in 1..MaxId /\ e \in -Cap .. Cap /\ "queued" \in Phase
      BY <2>2, EffectAssumption, BoundsAssumption DEF Phase
    <3>2. QED
      BY <3>1 DEF NewJob, Job
  <2>4. jobs' = K \cup {new}
    BY <1>3 DEF Enqueue
  <2>5. \A k \in K : k \in jobs /\ k \in Job /\ k.id <= k.last /\ k.last <= nextId /\ k.id < new.id
    BY <1>0, <1>t, <2>1, <2>2 DEF TypeOK, Job
  <2>6. TypeOK'
    <3>1. \A j \in jobs' : OwnerOf(j) \in Owner /\ j.id <= j.last /\ j.last <= nextId'
      BY <1>3, <1>0, <1>t, <2>1, <2>2, <2>4, <2>5 DEF TypeOK, OwnerOf, Job
    <3>2. \A j, k \in jobs' : j.id = k.id => j = k
      BY <1>t, <2>1, <2>2, <2>4, <2>5 DEF TypeOK, Job
    <3>3. lastOnTarget' \in [Target -> 0..nextId'] /\ lastOfOwner' \in [Owner -> 0..nextId']
      BY <1>t, <1>u, <2>2 DEF TypeOK
    <3>4. QED
      BY <1>t, <1>u, <2>2, <2>3, <2>4, <2>5, <3>1, <3>2, <3>3 DEF TypeOK, OwnerOf
  <2>7. TargetExclusive' /\ OneSelectedPerOwner'
    BY <1>t, <2>1, <2>4, <2>5 DEF TargetExclusive, OneSelectedPerOwner, Active, IsActive, OwnerOf
  <2>8. Contiguous'
    <3> SUFFICES ASSUME NEW j \in jobs', NEW k \in jobs', j.id < k.id,
                        j.target = k.target \/ OwnerOf(j) = OwnerOf(k)
                 PROVE  j.last < k.id
      BY DEF Contiguous, OwnerOf
    <3>1. CASE k = new
      BY <2>1, <2>2, <2>4, <2>5, <3>1 DEF Job
    <3>2. CASE k \in K
      BY <1>t, <2>2, <2>1, <2>4, <2>5, <3>2 DEF Contiguous, Job
    <3>3. QED
      BY <2>4, <3>1, <3>2
  <2>9. HandedInOrder'
    BY <1>t, <2>1, <2>4, <2>5 DEF HandedInOrder, Active, Pending, IsActive, IsQueued, OwnerOf
  <2>10. SubmissionOrder'
    <3>1. lastOnTarget[t] < new.id /\ lastOfOwner[DeviceOf[s]] < new.id
      BY <1>3, <1>t, <2>1, <2>2 DEF TypeOK
    <3>2. QED
      BY <1>t, <1>u, <2>1, <2>4, <2>5, <3>1 DEF SubmissionOrder, OwnerOf
  <2>11. CoalescedWithinCap'
    BY <1>t, <2>1, <2>4, <2>5 DEF CoalescedWithinCap
  <2>12. QED
    BY <2>6, <2>7, <2>8, <2>9, <2>10, <2>11 DEF IInv
<1>4. QED
  BY <1>1, <1>2, <1>3 DEF Submit

LEMMA SelectPreserves ==
  ASSUME IInv, NEW j \in jobs, SelectJob(current, j), UNCHANGED current
  PROVE  IInv'
<1> DEFINE K == Keep(current)
           new == [j EXCEPT !.phase = "selected"]
<1>0. K \subseteq jobs /\ j \in K
  BY KeepShrinks DEF SelectJob
<1>t. /\ TypeOK /\ TargetExclusive /\ OneSelectedPerOwner
      /\ Contiguous /\ HandedInOrder /\ SubmissionOrder /\ CoalescedWithinCap
  BY DEF IInv
<1>u. UNCHANGED <<nextId, stopped, lastOnTarget, lastOfOwner>>
  BY DEF SelectJob, history
<1>1. jobs' = (K \ {j}) \cup {new} /\ j \in Job
  BY <1>t DEF SelectJob, TypeOK
<1>2. /\ new \in Job /\ new.id = j.id /\ new.scope = j.scope /\ new.target = j.target
      /\ new.last = j.last /\ new.phase = "selected" /\ new.effect = j.effect
      /\ new.submissions = j.submissions
  BY <1>1 DEF Job, Phase
<1> HIDE DEF new
<1>3. Eligible(K, j)
  BY DEF SelectJob, MaySelect
<1>4. TypeOK'
  <2>1. cursor' \in Owner
    BY <1>t, <1>0, OwnersAssumption DEF SelectJob, Advance, TypeOK, Owner
  <2>2. \A i \in jobs' : OwnerOf(i) \in Owner /\ i.id <= i.last /\ i.last <= nextId'
    BY <1>t, <1>u, <1>0, <1>1, <1>2 DEF TypeOK, OwnerOf
  <2>3. \A i, k \in jobs' : i.id = k.id => i = k
    <3>1. \A i, k \in jobs : i.id = k.id => i = k
      BY <1>t DEF TypeOK
    <3>2. QED
      BY <3>1, <1>0, <1>1, <1>2
  <2>4. QED
    BY <1>t, <1>u, <1>0, <1>1, <1>2, <2>1, <2>2, <2>3 DEF TypeOK, OwnerOf
<1>5. TargetExclusive' /\ OneSelectedPerOwner'
  BY <1>t, <1>0, <1>1, <1>2, <1>3
  DEF TargetExclusive, OneSelectedPerOwner, Active, IsActive, OwnerOf, Eligible
<1>6. Contiguous' /\ SubmissionOrder'
  <2>1. \A i \in jobs' : \E k \in jobs : /\ k.id = i.id /\ k.last = i.last
                                         /\ k.target = i.target /\ k.scope = i.scope
                                         /\ (i.phase # "started" => k.phase # "started")
    BY <1>0, <1>1, <1>2, <1>3 DEF Eligible, IsQueued
  <2>2. QED
    BY <1>t, <1>u, <2>1 DEF Contiguous, SubmissionOrder, OwnerOf
<1>7. HandedInOrder'
  <2> SUFFICES ASSUME NEW i \in jobs', NEW k \in jobs', i.phase # "queued",
                      k.phase = "queued", i.target = k.target \/ OwnerOf(i) = OwnerOf(k)
               PROVE  i.id < k.id
    BY DEF HandedInOrder, Active, Pending, IsActive, IsQueued, OwnerOf
  <2>1. k \in K /\ k # j /\ k \in jobs /\ k.id # j.id /\ k.id \in Nat /\ j.id \in Nat
    BY <1>t, <1>0, <1>1, <1>2 DEF TypeOK, Job
  <2>2. CASE i \in K
    BY <2>1, <2>2, <1>t, <1>0 DEF HandedInOrder, Active, Pending, IsActive, IsQueued, OwnerOf
  <2>3. CASE i = new /\ k.target = j.target
    BY <2>1, <2>3, <1>2, <1>3 DEF Eligible, Pending, IsQueued
  <2>4. CASE i = new /\ OwnerOf(k) = OwnerOf(j)
    BY <2>1, <2>4, <1>2, <1>3 DEF Eligible, InFront, Queue, IsQueued
  <2>5. QED
    BY <1>1, <1>2, <2>2, <2>3, <2>4 DEF OwnerOf
<1>8. CoalescedWithinCap'
  BY <1>t, <1>0, <1>1, <1>2 DEF CoalescedWithinCap
<1>9. QED
  BY <1>4, <1>5, <1>6, <1>7, <1>8 DEF IInv

LEMMA BeginPreserves ==
  ASSUME IInv, NEW j \in jobs, Begin(current, j), UNCHANGED current
  PROVE  IInv'
<1> DEFINE new == [j EXCEPT !.phase = "started"]
<1>t. /\ TypeOK /\ TargetExclusive /\ OneSelectedPerOwner
      /\ Contiguous /\ HandedInOrder /\ SubmissionOrder /\ CoalescedWithinCap
  BY DEF IInv
<1>u. UNCHANGED <<nextId, cursor, stopped>>
  BY DEF Begin
<1>1. jobs' = (jobs \ {j}) \cup {new} /\ j \in Job /\ j.phase = "selected"
  BY <1>t DEF Begin, TypeOK
<1>2. /\ new \in Job /\ new.id = j.id /\ new.scope = j.scope /\ new.target = j.target
      /\ new.last = j.last /\ new.phase = "started" /\ new.effect = j.effect
      /\ new.submissions = j.submissions
  BY <1>1 DEF Job, Phase
<1> HIDE DEF new
<1>3. /\ lastOnTarget' = [lastOnTarget EXCEPT ![j.target] = j.last]
      /\ lastOfOwner' = [lastOfOwner EXCEPT ![OwnerOf(j)] = j.last]
  BY DEF Begin
<1>4. TypeOK'
  <2>1. \A i \in jobs' : OwnerOf(i) \in Owner /\ i.id <= i.last /\ i.last <= nextId'
    BY <1>t, <1>u, <1>1, <1>2 DEF TypeOK, OwnerOf
  <2>2. \A i, k \in jobs' : i.id = k.id => i = k
    <3>1. \A i, k \in jobs : i.id = k.id => i = k
      BY <1>t DEF TypeOK
    <3>2. QED
      BY <3>1, <1>1, <1>2
  <2>3. j.last \in 0..nextId
    BY <1>t, <1>1 DEF TypeOK, Job
  <2>4. lastOnTarget' \in [Target -> 0..nextId'] /\ lastOfOwner' \in [Owner -> 0..nextId']
    BY <1>t, <1>u, <1>3, <2>3 DEF TypeOK
  <2>5. QED
    BY <1>t, <1>u, <1>1, <1>2, <2>1, <2>2, <2>4 DEF TypeOK, OwnerOf
<1>5. TargetExclusive' /\ OneSelectedPerOwner'
  BY <1>t, <1>1, <1>2 DEF TargetExclusive, OneSelectedPerOwner, Active, IsActive, OwnerOf
<1>6. Contiguous'
  <2>1. \A i \in jobs' : \E k \in jobs : /\ k.id = i.id /\ k.last = i.last
                                         /\ k.target = i.target /\ k.scope = i.scope
    BY <1>1, <1>2
  <2>2. QED
    BY <1>t, <2>1 DEF Contiguous, OwnerOf
<1>7. HandedInOrder'
  BY <1>t, <1>1, <1>2 DEF HandedInOrder, Active, Pending, IsActive, IsQueued, OwnerOf
<1>8. SubmissionOrder'
  <2> SUFFICES ASSUME NEW k \in jobs', k.phase # "started"
               PROVE  /\ lastOnTarget'[k.target] < k.id
                      /\ lastOfOwner'[OwnerOf(k)] < k.id
    BY DEF SubmissionOrder, OwnerOf
  <2>1. k \in jobs /\ k # j /\ k \in Job
    BY <1>t, <1>1, <1>2 DEF TypeOK
  <2>2. lastOnTarget[k.target] < k.id /\ lastOfOwner[OwnerOf(k)] < k.id
    BY <1>t, <2>1 DEF SubmissionOrder
  <2>3. ASSUME k.target = j.target \/ OwnerOf(k) = OwnerOf(j)
        PROVE  j.last < k.id
    <3>1. CASE k.phase = "queued"
      BY <1>t, <1>1, <2>1, <2>3, <3>1
      DEF HandedInOrder, Contiguous, Active, Pending, IsActive, IsQueued
    <3>2. CASE k.phase = "selected"
      BY <1>t, <1>1, <2>1, <2>3, <3>2
      DEF TargetExclusive, OneSelectedPerOwner, Active, IsActive
    <3>3. QED
      BY <2>1, <3>1, <3>2 DEF Job, Phase
  <2>4. k.target \in Target /\ OwnerOf(k) \in Owner
    BY <1>t, <2>1 DEF TypeOK, Job
  <2>5. QED
    BY <1>t, <1>3, <2>2, <2>3, <2>4 DEF TypeOK
<1>9. CoalescedWithinCap'
  BY <1>t, <1>1, <1>2 DEF CoalescedWithinCap
<1>10. QED
  BY <1>4, <1>5, <1>6, <1>7, <1>8, <1>9 DEF IInv

LEMMA InitHolds == Init => IInv
<1> SUFFICES ASSUME Init PROVE IInv
  OBVIOUS
<1>1. TypeOK
  <2>1. 0 \in 0..MaxId /\ 0 \in Owner
    BY OwnersAssumption, BoundsAssumption DEF Owner
  <2>2. lastOnTarget \in [Target -> 0..nextId] /\ lastOfOwner \in [Owner -> 0..nextId]
    BY DEF Init
  <2>3. QED
    BY <2>1, <2>2 DEF Init, TypeOK
<1>2. TargetExclusive /\ OneSelectedPerOwner /\ Contiguous
  BY DEF Init, TargetExclusive, OneSelectedPerOwner, Contiguous, Active
<1>3. HandedInOrder /\ SubmissionOrder /\ CoalescedWithinCap
  BY DEF Init, HandedInOrder, SubmissionOrder, CoalescedWithinCap, Active, Pending
<1>4. QED
  BY <1>1, <1>2, <1>3 DEF IInv

\* IInv holds in every reachable state.
THEOREM Invariance == Spec => []IInv
<1>1. Init => IInv
  BY InitHolds
<1>2. IInv /\ [Next]_vars => IInv'
  <2> SUFFICES ASSUME IInv, [Next]_vars
               PROVE  IInv'
    OBVIOUS
  <2>t. stopped \in BOOLEAN /\ current \subseteq Scope
    BY DEF IInv, TypeOK
  <2>1. ASSUME NEW s \in Scope, NEW t \in Target, NEW e \in Amount,
               Submit(current, s, t, e), UNCHANGED current
        PROVE  IInv'
    BY <2>1, SubmitPreserves
  <2>2. CASE CancelStale(current) /\ UNCHANGED current
    BY <2>2, <2>t, Shrink, KeepShrinks DEF CancelStale, history
  <2>3. CASE Select(current) /\ UNCHANGED current
    <3>1. CASE SelectNothing(current)
      BY <3>1, <2>3, <2>2 DEF SelectNothing
    <3>2. ASSUME NEW j \in jobs, SelectJob(current, j)
          PROVE  IInv'
      BY <3>2, <2>3, SelectPreserves
    <3>3. QED
      BY <2>3, <3>1, <3>2 DEF Select
  <2>4. ASSUME NEW j \in jobs, Begin(current, j), UNCHANGED current
        PROVE  IInv'
    BY <2>4, BeginPreserves
  <2>5. ASSUME NEW j \in jobs, UNCHANGED current,
               BeginStale(current, j) \/ Release(j) \/ WorkerTerminated(j)
        PROVE  IInv'
    BY <2>5, <2>t, Shrink DEF BeginStale, Release, WorkerTerminated, history
  <2>6. CASE Stop /\ UNCHANGED current
    BY <2>6, <2>t, Shrink DEF Stop, history
  <2>7. ASSUME NEW s \in Scope, Grant(s) \/ Revoke(s)
        PROVE  IInv'
    BY <2>7, <2>t, Shrink DEF Grant, Revoke, dispatchVars
  <2>8. CASE UNCHANGED vars
    BY <2>8, <2>t, Shrink DEF vars
  <2>9. QED
    BY <2>1, <2>2, <2>3, <2>4, <2>5, <2>6, <2>7, <2>8 DEF Next, Dispatch
<1>3. QED
  BY <1>1, <1>2, PTL DEF Spec

\* Every job is well formed and ids never run ahead of the counter.
THEOREM TypeCorrectness == Spec => []TypeOK
<1>1. IInv => TypeOK
  BY DEF IInv
<1>2. QED
  BY <1>1, Invariance, PTL

\* A target is reserved by one worker at a time.
THEOREM TargetExclusion == Spec => []TargetExclusive
<1>1. IInv => TargetExclusive
  BY DEF IInv
<1>2. QED
  BY <1>1, Invariance, PTL

\* A coalesced job stands for submissions that were adjacent on its target and
\* in its deck's queue.
THEOREM Adjacency == Spec => []Contiguous
<1>1. IInv => Contiguous
  BY DEF IInv
<1>2. QED
  BY <1>1, Invariance, PTL

\* Effects begin in the order of submission, per target and per deck.
THEOREM OrderedEffects == Spec => []SubmissionOrder
<1>1. IInv => SubmissionOrder
  BY DEF IInv
<1>2. QED
  BY <1>1, Invariance, PTL

\* A coalesced adjustment stays within the cap and counts at most that many
\* submissions.
THEOREM BoundedCoalescing == Spec => []CoalescedWithinCap
<1>1. IInv => CoalescedWithinCap
  BY DEF IInv
<1>2. QED
  BY <1>1, Invariance, PTL


\* Selection is round-robin: whenever a deck is given the turn, every other deck
\* whose front job could have been handed out comes strictly closer to its own
\* (cursor in Dispatcher::select).
THEOREM FairTurns == Spec => RoundRobin
<1> DEFINE Turn == \A j \in jobs : SelectJob(current, j) =>
       \A k \in jobs :
         k.scope \in current /\ Eligible(Keep(current), k) /\ OwnerOf(k) # OwnerOf(j)
           => Distance(OwnerOf(k))' < Distance(OwnerOf(k))
<1>1. ASSUME IInv PROVE Turn
  <2> SUFFICES ASSUME NEW j \in jobs, SelectJob(current, j), NEW k \in jobs,
                      k.scope \in current, Eligible(Keep(current), k),
                      OwnerOf(k) # OwnerOf(j)
               PROVE  Distance(OwnerOf(k))' < Distance(OwnerOf(k))
    OBVIOUS
  <2>1. k \in Keep(current)
    BY DEF SelectJob, MaySelect, Keep
  <2>2. Distance(OwnerOf(j)) <= Distance(OwnerOf(k))
    BY <2>1 DEF SelectJob, MaySelect
  <2>3. cursor' = Advance(OwnerOf(j))
    BY DEF SelectJob
  <2>4. OwnerOf(j) \in Owner /\ OwnerOf(k) \in Owner /\ cursor \in Owner
    BY <1>1 DEF IInv, TypeOK
  <2>5. OwnerOf(k)' = OwnerOf(k)
    BY DEF OwnerOf
  <2> DEFINE n == OwnerOf(j)
             o == OwnerOf(k)
  <2> HIDE DEF n, o
  <2>6. QED
    BY <2>2, <2>3, <2>4, <2>5, OwnersAssumption DEF Distance, Advance, Owner
<1>2. QED
  BY <1>1, Invariance, PTL DEF RoundRobin
-----------------------------------------------------------------------------
(***************************************************************************)
(* The service.  Every step of it moves the dispatcher the way one of the  *)
(* dispatcher's own operations does, so IInv holds here as well;           *)
(* ServiceIInv ties the threads' locals to it: what a thread has begun     *)
(* stays reserved for it and for it alone.                                 *)
(***************************************************************************)

\* Where a thread has no job, and where it has begun one and not reported it.
Idle == {"scanning", "waiting", "exited"}
Busy == {"fence", "executing", "unwinding", "report", "lastReport", "abandoned"}
Holding(w) == pc[w] \in Busy

\* Threads whose backend has not been given up: the service counts them.
Gone == {"lastReport", "exited", "abandoned"}
Serving == {w \in Worker : pc[w] \notin Gone}

\* ServiceTypeOK without its dispatcher's and its replies' part.
Shapes ==
  /\ payloads \subseteq 1..nextId
  /\ workers \in 0..Cardinality(Worker)
  /\ lock \in Worker \cup {NoWorker}
  /\ pc \in [Worker -> PC]
  /\ work \in [Worker -> Job \cup {NoJob}]
  /\ \A w \in Worker : work[w] = NoJob <=> pc[w] \in Idle
  /\ revoked \in BOOLEAN

\* What a thread has begun the dispatcher keeps reserved for it.
Reserved ==
  \A w \in Worker : Holding(w) => work[w] \in jobs /\ work[w].phase = "started"

\* No two threads work on one job.
Apart ==
  \A v, w \in Worker : Holding(v) /\ Holding(w) /\ work[v] = work[w] => v = w

\* Between select and begin a thread keeps the mutex and the dispatcher keeps
\* the job that was selected: `begin` only fails when the scope was fenced.
Kept ==
  \A w \in Worker : pc[w] = "begin" =>
    lock = w /\ work[w] \in jobs /\ work[w].phase = "selected"

\* The count of backends never runs below the threads that still serve, and
\* is exact, and not zero, until the service stops.
Manned ==
  /\ Cardinality(Serving) <= workers
  /\ ~stopped => workers # 0 /\ workers = Cardinality(Serving)

ServiceIInv == IInv /\ Shapes /\ Reserved /\ Apart /\ Kept /\ Manned

-----------------------------------------------------------------------------
(* The dispatcher's part of a step.                                        *)

LEMMA DispatcherMoves ==
  ASSUME IInv, [ServiceNext]_allVars
  PROVE  IInv'
<1>t. stopped \in BOOLEAN /\ current \subseteq Scope
  BY DEF IInv, TypeOK
<1>1. ASSUME current' = current, UNCHANGED dispatchVars
      PROVE  IInv'
  BY <1>1, <1>t, Shrink DEF dispatchVars
<1>2. ASSUME NEW s \in Scope, NEW t \in Target, NEW e \in Amount, HostSubmit(s, t, e)
      PROVE  IInv'
  BY <1>2, SubmitPreserves DEF HostSubmit
<1>3. ASSUME CancelStale(current), current' = current
      PROVE  IInv'
  BY <1>3, <1>t, Shrink, KeepShrinks DEF CancelStale, history
<1>4. ASSUME Stop, current' = current
      PROVE  IInv'
  BY <1>4, <1>t, Shrink DEF Stop, history
<1>5. ASSUME NEW w \in Worker, Scan(w)
      PROVE  IInv'
  <2>0. current' = current
    BY <1>5 DEF Scan
  <2>1. CASE stopped
    BY <1>5, <2>0, <2>1, <1>1 DEF Scan
  <2>2. ASSUME NEW j \in jobs, SelectJob(current, j)
        PROVE  IInv'
    BY <2>0, <2>2, SelectPreserves
  <2>3. CASE SelectNothing(current)
    BY <2>0, <2>3, <1>3 DEF SelectNothing
  <2>4. QED
    BY <1>5, <2>1, <2>2, <2>3 DEF Scan
<1>6. ASSUME NEW w \in Worker, TakeJob(w)
      PROVE  IInv'
  <2>0. current' = current
    BY <1>6 DEF TakeJob
  <2>1. CASE Begin(current, work[w])
    <3>1. work[w] \in jobs
      BY <2>1 DEF Begin
    <3>2. QED
      BY <2>0, <2>1, <3>1, BeginPreserves
  <2>2. CASE BeginStale(current, work[w])
    BY <2>0, <2>2, <1>t, Shrink DEF BeginStale, history
  <2>3. QED
    BY <1>6, <2>1, <2>2 DEF TakeJob
<1>7. ASSUME NEW w \in Worker, NEW d \in BOOLEAN, Destroy(w, d)
      PROVE  IInv'
  BY <1>7, <1>1, <1>4 DEF Destroy
<1>8. ASSUME NEW w \in Worker, NEW next, Complete(w, next)
      PROVE  IInv'
  <2>1. /\ jobs' \subseteq jobs /\ stopped' \in BOOLEAN
        /\ cursor' = cursor /\ nextId' = nextId /\ current' = current
        /\ lastOnTarget' = lastOnTarget /\ lastOfOwner' = lastOfOwner
    BY <1>8, <1>t DEF Complete, Release, history
  <2>2. QED
    BY <2>1, <1>t, Shrink
<1>9. CASE ChangeAuthority
  BY <1>9, <1>t, Shrink DEF ChangeAuthority, Grant, Revoke, dispatchVars
<1>10. CASE Invalidate
  BY <1>10, <1>3 DEF Invalidate
<1>11. CASE HostStop
  BY <1>11, <1>4 DEF HostStop
<1>12. CASE UNCHANGED vars
  BY <1>12, <1>1 DEF vars, dispatchVars
<1>13. CASE PollOne
  BY <1>13, <1>12 DEF PollOne
<1>14. ASSUME NEW w \in Worker, Step(w) \/ SpuriousWake(w)
       PROVE  IInv'
  <2>1. CASE AskFence(w) \/ Execute(w) \/ SpuriousWake(w)
    BY <2>1, <1>12 DEF AskFence, Execute, SpuriousWake
  <2>2. CASE Report(w) \/ LastReport(w)
    BY <2>2, <1>8 DEF Report, LastReport
  <2>3. QED
    BY <1>14, <1>5, <1>6, <1>7, <2>1, <2>2 DEF Step
<1>15. CASE UNCHANGED allVars
  BY <1>15, <1>12 DEF allVars
<1>16. QED
  BY <1>2, <1>9, <1>10, <1>11, <1>13, <1>14, <1>15 DEF ServiceNext

\* No operation but a worker's report takes a started job away.
LEMMA StartedStay ==
  ASSUME \/ \E s, t, e : Submit(current, s, t, e)
         \/ CancelStale(current) \/ Stop
         \/ \E j \in jobs : SelectJob(current, j)
         \/ \E j \in jobs : Begin(current, j) \/ BeginStale(current, j)
         \/ jobs' = jobs
  PROVE  \A k \in jobs : k.phase = "started" => k \in jobs'
<1> SUFFICES ASSUME NEW k \in jobs, k.phase = "started"
             PROVE  k \in jobs'
  OBVIOUS
<1>1. k \in Keep(current)
  BY DEF Keep
<1>2. ASSUME NEW s, NEW t, NEW e, Submit(current, s, t, e)
      PROVE  k \in jobs'
  BY <1>1, <1>2 DEF Submit, Coalesce, Enqueue, Refuse, Absorbs, IsQueued
<1>3. ASSUME NEW j \in jobs, SelectJob(current, j)
      PROVE  k \in jobs'
  BY <1>1, <1>3 DEF SelectJob, MaySelect, Eligible, IsQueued
<1>4. QED
  BY <1>1, <1>2, <1>3 DEF CancelStale, Stop, Begin, BeginStale

-----------------------------------------------------------------------------
(* The threads' part of a step.                                            *)

\* What sets two program counters apart: whether the thread has no job, has
\* one, holds one, and still serves.
SameStage(l, m) ==
  /\ l \in PC /\ m \in PC
  /\ l \in Idle <=> m \in Idle
  /\ l \in Busy <=> m \in Busy

SameCrew(l, m) == l \in Gone <=> m \in Gone

LEMMA StageFacts ==
  \A l \in PC : (l = "begin" <=> (l \notin Idle /\ l \notin Busy))
BY DEF PC, Idle, Busy

\* A notification moves sleepers from one idle place to another.
LEMMA WakeKeeps ==
  ASSUME NEW p \in [Worker -> PC]
  PROVE  /\ Wake(p) \in [Worker -> PC]
         /\ \A w \in Worker : SameStage(p[w], Wake(p)[w]) /\ SameCrew(p[w], Wake(p)[w])
BY DEF Wake, PC, SameStage, SameCrew, Idle, Busy, Gone

\* A step after which every thread has the job it had, while the dispatcher
\* gave up no started job and nobody was between select and begin, or nothing
\* of his was touched.
LEMMA SameWork ==
  ASSUME Shapes, Reserved, Apart, Kept,
         work' = work, pc' \in [Worker -> PC],
         \A w \in Worker : SameStage(pc[w], pc'[w]),
         \A k \in jobs : k.phase = "started" => k \in jobs',
         \/ lock' = lock /\ jobs' = jobs
         \/ \A w \in Worker : pc[w] # "begin"
  PROVE  /\ Reserved' /\ Apart' /\ Kept'
         /\ \A w \in Worker : work'[w] = NoJob <=> pc'[w] \in Idle
<1>1. \A w \in Worker : (Holding(w))' <=> Holding(w)
  BY DEF Holding, SameStage
<1>2. \A w \in Worker : pc'[w] = "begin" <=> pc[w] = "begin"
  BY StageFacts DEF SameStage
<1>3. Reserved'
  BY <1>1 DEF Reserved
<1>4. Apart'
  BY <1>1 DEF Apart
<1>5. Kept'
  BY <1>2 DEF Kept
<1>6. \A w \in Worker : work'[w] = NoJob <=> pc'[w] \in Idle
  BY DEF Shapes, SameStage
<1>7. QED
  BY <1>3, <1>4, <1>5, <1>6

\* Nobody is between select and begin while the mutex is free.
LEMMA NobodyBegins ==
  ASSUME Kept, lock = NoWorker
  PROVE  \A w \in Worker : pc[w] # "begin"
BY WorkerAssumption DEF Kept

\* The crew after a step that neither ends a thread nor restarts the service.
LEMMA CrewStays ==
  ASSUME Manned, workers' = workers, stopped => stopped',
         \A w \in Worker : SameCrew(pc[w], pc'[w])
  PROVE  Manned'
<1>1. Serving' = Serving
  BY DEF Serving, SameCrew
<1>2. QED
  BY <1>1 DEF Manned

LEMMA ServingFinite ==
  /\ IsFiniteSet(Serving) /\ Cardinality(Serving) \in Nat
  /\ Cardinality(Serving) <= Cardinality(Worker)
<1>1. Serving \subseteq Worker
  BY DEF Serving
<1>2. QED
  BY <1>1, WorkerAssumption, FS_Subset, FS_CardinalityType

\* Ids of the side table are ids of jobs.
LEMMA PrunedIds ==
  ASSUME NEW js, Shapes, nextId' = nextId
  PROVE  Prune(js) \subseteq 1..nextId'
BY DEF Prune, Shapes

LEMMA SubmitPreservesThreads ==
  ASSUME ServiceIInv, IInv', NEW s \in Scope, NEW t \in Target, NEW e \in Amount,
         HostSubmit(s, t, e)
  PROVE  ServiceIInv'
<1>0. IInv /\ Shapes /\ Reserved /\ Apart /\ Kept /\ Manned
  BY DEF ServiceIInv
<1>1. /\ lock = NoWorker /\ lock' = lock /\ work' = work /\ workers' = workers
      /\ revoked' = revoked /\ stopped' = stopped
  BY DEF HostSubmit, Submit
<1>2. \A k \in jobs : k.phase = "started" => k \in jobs'
  BY StartedStay DEF HostSubmit
<1>3. pc \in [Worker -> PC] /\ (pc' = pc \/ pc' = Wake(pc))
  BY <1>0 DEF HostSubmit, Shapes
<1>4. /\ pc' \in [Worker -> PC]
      /\ \A w \in Worker : SameStage(pc[w], pc'[w]) /\ SameCrew(pc[w], pc'[w])
  BY <1>3, WakeKeeps DEF SameStage, SameCrew
<1>5. Reserved' /\ Apart' /\ Kept' /\ \A w \in Worker : work'[w] = NoJob <=> pc'[w] \in Idle
  BY <1>0, <1>1, <1>2, <1>4, SameWork, NobodyBegins
<1>6. Manned'
  BY <1>0, <1>1, <1>4, CrewStays
<1>7. payloads' \subseteq 1..nextId'
  <2>1. nextId \in Nat /\ nextId' \in Nat /\ nextId <= nextId'
    <3>1. Submit(current, s, t, e)
      BY DEF HostSubmit
    <3>2. nextId' = nextId \/ nextId' = nextId + 1
      BY <3>1 DEF Submit, Coalesce, Enqueue, Refuse
    <3>3. nextId \in Nat
      BY <1>0, BoundsAssumption DEF IInv, TypeOK
    <3>4. QED
      BY <3>2, <3>3
  <2>2. \A j \in jobs' : j.id \in 1..nextId'
    <3>1. \A j \in jobs' : j \in Job /\ j.id <= j.last /\ j.last <= nextId'
      BY DEF IInv, TypeOK
    <3>2. \A j \in Job : j.id \in Int /\ j.last \in Int /\ 1 <= j.id
      BY BoundsAssumption DEF Job
    <3>3. QED
      BY <2>1, <3>1, <3>2
  <2>3. Prune(jobs') \subseteq payloads /\ payloads \subseteq 1..nextId
    BY <1>0 DEF Prune, Shapes
  <2>4. \A i \in payloads' : i \in payloads \/ \E j \in jobs' : i = j.id
    BY <2>3 DEF HostSubmit
  <2>5. \A i \in 1..nextId : i \in 1..nextId'
    BY <2>1
  <2>6. QED
    BY <2>2, <2>3, <2>4, <2>5
<1>8. Shapes'
  BY <1>0, <1>1, <1>4, <1>5, <1>7 DEF Shapes
<1>9. QED
  BY <1>5, <1>6, <1>8 DEF ServiceIInv

\* invalidate, poll and stop of the host, a change of the authority.
LEMMA HostPreservesThreads ==
  ASSUME ServiceIInv, IInv', Invalidate \/ PollOne \/ HostStop \/ ChangeAuthority
  PROVE  ServiceIInv'
<1>0. IInv /\ Shapes /\ Reserved /\ Apart /\ Kept /\ Manned /\ stopped \in BOOLEAN
  BY DEF ServiceIInv, IInv, TypeOK
<1>1. /\ lock' = lock /\ work' = work /\ workers' = workers
      /\ revoked' \in BOOLEAN /\ nextId' = nextId
  BY <1>0 DEF Invalidate, PollOne, HostStop, ChangeAuthority, CancelStale, Stop, Grant, Revoke,
              vars, dispatchVars, Shapes
<1>2. \A k \in jobs : k.phase = "started" => k \in jobs'
  BY StartedStay
  DEF Invalidate, PollOne, HostStop, ChangeAuthority, Grant, Revoke, vars, dispatchVars
<1>3. (stopped => stopped') /\ (lock = NoWorker \/ jobs' = jobs)
  BY <1>0 DEF Invalidate, PollOne, HostStop, ChangeAuthority, CancelStale, Stop, Grant, Revoke,
              vars, dispatchVars
<1>4. pc \in [Worker -> PC] /\ (pc' = pc \/ pc' = Wake(pc))
  BY <1>0 DEF Invalidate, PollOne, HostStop, ChangeAuthority, Shapes
<1>5. /\ pc' \in [Worker -> PC]
      /\ \A w \in Worker : SameStage(pc[w], pc'[w]) /\ SameCrew(pc[w], pc'[w])
  BY <1>4, WakeKeeps DEF SameStage, SameCrew
<1>6. Reserved' /\ Apart' /\ Kept' /\ \A w \in Worker : work'[w] = NoJob <=> pc'[w] \in Idle
  BY <1>0, <1>1, <1>2, <1>3, <1>5, SameWork, NobodyBegins
<1>7. Manned'
  BY <1>0, <1>1, <1>3, <1>5, CrewStays
<1>8. payloads' \subseteq 1..nextId'
  BY <1>0, <1>1, PrunedIds
  DEF Invalidate, PollOne, HostStop, ChangeAuthority, Shapes
<1>9. Shapes'
  BY <1>0, <1>1, <1>5, <1>6, <1>8 DEF Shapes
<1>10. QED
  BY <1>6, <1>7, <1>9 DEF ServiceIInv

\* One thread moves, its work and the dispatcher's jobs stay.
LEMMA MovePreservesThreads ==
  ASSUME ServiceIInv, IInv', NEW w \in Worker,
         AskFence(w) \/ Execute(w) \/ SpuriousWake(w)
  PROVE  ServiceIInv'
<1>0. IInv /\ Shapes /\ Reserved /\ Apart /\ Kept /\ Manned
  BY DEF ServiceIInv
<1>1. /\ jobs' = jobs /\ nextId' = nextId /\ stopped' = stopped
      /\ lock' = lock /\ work' = work /\ workers' = workers
      /\ revoked' = revoked /\ payloads' = payloads
  BY DEF AskFence, Execute, SpuriousWake, vars
<1>2. PICK next : /\ pc' = [pc EXCEPT ![w] = next]
                  /\ SameStage(pc[w], next) /\ SameCrew(pc[w], next)
  BY DEF AskFence, Execute, SpuriousWake, SameStage, SameCrew, PC, Idle, Busy, Gone
<1>3. /\ pc' \in [Worker -> PC]
      /\ \A v \in Worker : SameStage(pc[v], pc'[v]) /\ SameCrew(pc[v], pc'[v])
  BY <1>0, <1>2 DEF Shapes, SameStage, SameCrew
<1>4. Reserved' /\ Apart' /\ Kept' /\ \A v \in Worker : work'[v] = NoJob <=> pc'[v] \in Idle
  BY <1>0, <1>1, <1>3, SameWork
<1>5. Manned'
  BY <1>0, <1>1, <1>3, CrewStays
<1>6. Shapes'
  BY <1>0, <1>1, <1>3, <1>4 DEF Shapes
<1>7. QED
  BY <1>4, <1>5, <1>6 DEF ServiceIInv

\* The backend of a thread is given up: the thread no longer serves, and the
\* count, a usize in the code, does not run below zero.
LEMMA DestroyPreservesThreads ==
  ASSUME ServiceIInv, IInv', NEW w \in Worker, NEW d \in BOOLEAN, Destroy(w, d)
  PROVE  ServiceIInv'
<1>0. IInv /\ Shapes /\ Reserved /\ Apart /\ Kept /\ Manned /\ stopped \in BOOLEAN
  BY DEF ServiceIInv, IInv, TypeOK
<1>1. /\ lock = NoWorker /\ lock' = lock /\ work' = work /\ workers' = workers - 1
      /\ revoked' = revoked /\ nextId' = nextId /\ pc[w] = "unwinding"
  BY DEF Destroy, Stop, dispatchVars
<1>2. \A k \in jobs : k.phase = "started" => k \in jobs'
  BY StartedStay DEF Destroy, dispatchVars
<1> DEFINE next == IF d THEN "lastReport" ELSE "abandoned"
           gone == [pc EXCEPT ![w] = next]
<1>3. SameStage("unwinding", next) /\ next \in Gone
  BY DEF SameStage, PC, Idle, Busy, Gone
<1>4. pc' = gone \/ pc' = Wake(gone)
  BY DEF Destroy
<1> HIDE DEF next
<1>5. /\ gone \in [Worker -> PC] /\ gone[w] = next
      /\ \A v \in Worker : v # w => gone[v] = pc[v]
  BY <1>0, <1>3 DEF Shapes, SameStage
<1>6. pc \in [Worker -> PC]
  BY <1>0 DEF Shapes
<1>7. \A v \in Worker : SameStage(pc[v], gone[v])
  BY <1>1, <1>3, <1>5, <1>6 DEF SameStage
<1> HIDE DEF gone
<1>8. /\ pc' \in [Worker -> PC]
      /\ \A v \in Worker : SameStage(gone[v], pc'[v]) /\ SameCrew(gone[v], pc'[v])
  BY <1>4, <1>5, WakeKeeps DEF SameStage, SameCrew
<1>9. \A v \in Worker : SameStage(pc[v], pc'[v])
  BY <1>7, <1>8 DEF SameStage
<1>10. Reserved' /\ Apart' /\ Kept' /\ \A v \in Worker : work'[v] = NoJob <=> pc'[v] \in Idle
  BY <1>0, <1>1, <1>2, <1>8, <1>9, SameWork, NobodyBegins
<1>11. w \in Serving /\ Serving' = Serving \ {w}
  <2>1. w \in Serving
    BY <1>1 DEF Serving, Gone
  <2>2. \A v \in Worker : v # w => SameCrew(pc[v], pc'[v])
    BY <1>5, <1>8 DEF SameCrew
  <2>3. pc'[w] \in Gone
    BY <1>3, <1>5, <1>8 DEF SameCrew
  <2>4. QED
    BY <2>1, <2>2, <2>3 DEF Serving, SameCrew
<1>12. Cardinality(Serving') = Cardinality(Serving) - 1 /\ Cardinality(Serving') \in Nat
  BY <1>11, ServingFinite, FS_RemoveElement, FS_CardinalityType
<1>13. workers \in 0..Cardinality(Worker) /\ Cardinality(Worker) \in Nat
  BY <1>0, WorkerAssumption, FS_CardinalityType DEF Shapes
<1>14. workers' \in 0..Cardinality(Worker)
  BY <1>0, <1>1, <1>12, <1>13, ServingFinite DEF Manned
<1>15. Manned'
  <2>1. Cardinality(Serving') <= workers'
    BY <1>0, <1>1, <1>12, <1>13, ServingFinite DEF Manned
  <2>2. ~stopped' => ~stopped /\ workers # 1
    BY <1>0 DEF Destroy, Stop, dispatchVars
  <2>3. ~stopped' => workers' # 0 /\ workers' = Cardinality(Serving')
    BY <1>0, <1>1, <1>12, <1>13, <2>2, ServingFinite DEF Manned
  <2>4. QED
    BY <2>1, <2>3 DEF Manned
<1>16. payloads' \subseteq 1..nextId'
  BY <1>0, <1>1 DEF Destroy, Shapes
<1>17. Shapes'
  BY <1>0, <1>1, <1>8, <1>10, <1>14, <1>16 DEF Shapes
<1>18. QED
  BY <1>10, <1>15, <1>17 DEF ServiceIInv

LEMMA ScanPreservesThreads ==
  ASSUME ServiceIInv, IInv', NEW w \in Worker, Scan(w)
  PROVE  ServiceIInv'
<1>0. IInv /\ Shapes /\ Reserved /\ Apart /\ Kept /\ Manned
  BY DEF ServiceIInv
<1>1. /\ workers' = workers /\ revoked' = revoked /\ nextId' = nextId /\ stopped' = stopped
      /\ pc[w] = "scanning" /\ lock \in {NoWorker, w}
  BY DEF Scan, SelectJob, SelectNothing, CancelStale, dispatchVars
<1>2. pc \in [Worker -> PC] /\ work \in [Worker -> Job \cup {NoJob}]
  BY <1>0 DEF Shapes
<1>3. \A v \in Worker : pc[v] # "begin"
  BY <1>0, <1>1, WorkerAssumption DEF Kept
<1>4. payloads' \subseteq 1..nextId'
  BY <1>0, <1>1, PrunedIds DEF Scan, Shapes
<1>5. \A k \in jobs : k.phase = "started" => k \in jobs'
  BY StartedStay DEF Scan, SelectNothing, dispatchVars
<1>6. ASSUME NEW next \in {"exited", "waiting"}, pc' = [pc EXCEPT ![w] = next],
             work' = work, lock' = NoWorker, next = "exited" => stopped
      PROVE  ServiceIInv'
  <2>1. pc' \in [Worker -> PC] /\ \A v \in Worker : SameStage(pc[v], pc'[v])
    BY <1>1, <1>2, <1>6 DEF SameStage, PC, Idle, Busy
  <2>2. Reserved' /\ Apart' /\ Kept' /\ \A v \in Worker : work'[v] = NoJob <=> pc'[v] \in Idle
    BY <1>0, <1>3, <1>5, <1>6, <2>1, SameWork
  <2>3. Manned'
    <3>1. CASE next = "waiting"
      <4>1. \A v \in Worker : SameCrew(pc[v], pc'[v])
        BY <1>1, <1>2, <1>6, <3>1 DEF SameCrew, Gone
      <4>2. QED
        BY <4>1, <1>0, <1>1, CrewStays
    <3>2. CASE next = "exited"
      <4>1. Serving' \subseteq Serving
        BY <1>1, <1>2, <1>6, <3>2 DEF Serving, Gone
      <4>2. Cardinality(Serving') <= Cardinality(Serving) /\ Cardinality(Serving') \in Nat
        BY <4>1, ServingFinite, FS_Subset, FS_CardinalityType
      <4>3. workers \in Int
        BY <1>0 DEF Shapes
      <4>4. QED
        BY <1>0, <1>1, <1>6, <3>2, <4>2, <4>3, ServingFinite DEF Manned
    <3>3. QED
      BY <1>6, <3>1, <3>2
  <2>4. Shapes'
    BY <1>0, <1>1, <1>4, <1>6, <2>1, <2>2 DEF Shapes
  <2>5. QED
    BY <2>2, <2>3, <2>4 DEF ServiceIInv
<1>7. ASSUME NEW j \in jobs, SelectJob(current, j),
             work' = [work EXCEPT ![w] = [j EXCEPT !.phase = "selected"]],
             pc' = [pc EXCEPT ![w] = "begin"], lock' = w
      PROVE  ServiceIInv'
  <2> DEFINE new == [j EXCEPT !.phase = "selected"]
  <2>1. j \in Job
    BY <1>0 DEF IInv, TypeOK
  <2>2. new \in jobs' /\ new.phase = "selected"
    BY <1>7, <2>1 DEF SelectJob, Job
  <2>3. new \in Job
    BY <2>1 DEF Job, Phase
  <2>4. work' = [work EXCEPT ![w] = new]
    BY <1>7
  <2> HIDE DEF new
  <2>5. pc' \in [Worker -> PC] /\ work' \in [Worker -> Job \cup {NoJob}]
    BY <1>2, <1>7, <2>3, <2>4 DEF PC
  <2>6. /\ pc'[w] = "begin" /\ work'[w] = new
        /\ \A v \in Worker : v # w => pc'[v] = pc[v] /\ work'[v] = work[v]
    BY <1>2, <1>7, <2>4
  <2>7. \A v \in Worker : (Holding(v))' => v # w /\ Holding(v)
    BY <2>6 DEF Holding, Busy
  <2>8. Reserved'
    BY <1>0, <1>5, <2>6, <2>7 DEF Reserved
  <2>9. Apart'
    BY <1>0, <2>6, <2>7 DEF Apart
  <2>10. Kept'
    BY <1>3, <1>7, <2>2, <2>6 DEF Kept
  <2>11. Manned'
    <3>1. \A v \in Worker : SameCrew(pc[v], pc'[v])
      BY <1>1, <2>6 DEF SameCrew, Gone
    <3>2. QED
      BY <3>1, <1>0, <1>1, CrewStays
  <2>12. \A v \in Worker : work'[v] = NoJob <=> pc'[v] \in Idle
    BY <1>0, <2>3, <2>6, WorkerAssumption DEF Shapes, Idle
  <2>13. Shapes'
    BY <1>0, <1>1, <1>4, <1>7, <2>5, <2>12 DEF Shapes
  <2>14. QED
    BY <2>8, <2>9, <2>10, <2>11, <2>13 DEF ServiceIInv
<1>8. QED
  BY <1>6, <1>7 DEF Scan

\* A job that begins is nobody else's: it was selected, and what the others
\* hold is started.
LEMMA TakePreservesThreads ==
  ASSUME ServiceIInv, IInv', NEW w \in Worker, TakeJob(w)
  PROVE  ServiceIInv'
<1>0. IInv /\ Shapes /\ Reserved /\ Apart /\ Kept /\ Manned
  BY DEF ServiceIInv
<1>1. /\ workers' = workers /\ revoked' = revoked /\ nextId' = nextId /\ stopped' = stopped
      /\ pc[w] = "begin" /\ lock = w
  BY DEF TakeJob, Begin, BeginStale
<1>2. pc \in [Worker -> PC] /\ work \in [Worker -> Job \cup {NoJob}]
  BY <1>0 DEF Shapes
<1>3. \A v \in Worker : pc[v] = "begin" => v = w
  BY <1>0, <1>1 DEF Kept
<1>4. work[w] \in jobs /\ work[w] \in Job /\ work[w].phase = "selected"
  BY <1>0, <1>1 DEF Kept, IInv, TypeOK
<1>5. payloads' \subseteq 1..nextId'
  BY <1>0, <1>1 DEF TakeJob, Shapes
<1>6. \A k \in jobs : k.phase = "started" => k \in jobs'
  BY <1>4, StartedStay DEF TakeJob
<1>7. ASSUME NEW next \in {"fence", "report"}, Begin(current, work[w]),
             pc' = [pc EXCEPT ![w] = next],
             work' = [work EXCEPT ![w].phase = "started"], lock' = NoWorker
      PROVE  ServiceIInv'
  <2> DEFINE new == [work[w] EXCEPT !.phase = "started"]
  <2>1. new \in jobs' /\ new.phase = "started" /\ new.id = work[w].id
    BY <1>4, <1>7 DEF Begin, Job
  <2>2. new \in Job
    BY <1>4 DEF Job, Phase
  <2>3. work' = [work EXCEPT ![w] = new]
    BY <1>7
  <2> HIDE DEF new
  <2>4. pc' \in [Worker -> PC] /\ work' \in [Worker -> Job \cup {NoJob}]
    BY <1>2, <1>7, <2>2, <2>3 DEF PC
  <2>5. /\ pc'[w] = next /\ work'[w] = new
        /\ \A v \in Worker : v # w => pc'[v] = pc[v] /\ work'[v] = work[v]
    BY <1>2, <1>7, <2>3
  <2>6. \A v \in Worker : v # w /\ (Holding(v))' => Holding(v) /\ work'[v] = work[v]
    BY <2>5 DEF Holding
  <2>7. Reserved'
    BY <1>0, <1>6, <2>1, <2>5, <2>6 DEF Reserved
  <2>8. \A v \in Worker : v # w /\ (Holding(v))' => work'[v] # new
    <3>1. \A j, k \in jobs : j.id = k.id => j = k
      BY <1>0 DEF IInv, TypeOK
    <3>2. \A v \in Worker : Holding(v) => work[v] \in jobs /\ work[v].phase = "started"
      BY <1>0 DEF Reserved
    <3>3. QED
      BY <1>4, <2>1, <2>6, <3>1, <3>2
  <2>9. Apart'
    BY <1>0, <2>5, <2>6, <2>8 DEF Apart
  <2>10. Kept'
    BY <1>3, <1>7, <2>5 DEF Kept
  <2>11. Manned'
    <3>1. \A v \in Worker : SameCrew(pc[v], pc'[v])
      BY <1>1, <1>7, <2>5 DEF SameCrew, Gone
    <3>2. QED
      BY <3>1, <1>0, <1>1, CrewStays
  <2>12. \A v \in Worker : work'[v] = NoJob <=> pc'[v] \in Idle
    <3>1. new # NoJob /\ next \notin Idle
      BY <1>7, <2>2, WorkerAssumption DEF Idle
    <3>2. QED
      BY <3>1, <1>0, <2>5 DEF Shapes
  <2>13. Shapes'
    BY <1>0, <1>1, <1>5, <1>7, <2>4, <2>12 DEF Shapes
  <2>14. QED
    BY <2>7, <2>9, <2>10, <2>11, <2>13 DEF ServiceIInv
<1>8. ASSUME pc' = [pc EXCEPT ![w] = "scanning"], work' = [work EXCEPT ![w] = NoJob],
             lock' = lock
      PROVE  ServiceIInv'
  <2>1. pc' \in [Worker -> PC] /\ work' \in [Worker -> Job \cup {NoJob}]
    BY <1>2, <1>8 DEF PC
  <2>2. /\ pc'[w] = "scanning" /\ work'[w] = NoJob
        /\ \A v \in Worker : v # w => pc'[v] = pc[v] /\ work'[v] = work[v]
    BY <1>2, <1>8
  <2>3. \A v \in Worker : (Holding(v))' => v # w /\ Holding(v)
    BY <2>2 DEF Holding, Busy
  <2>4. Reserved' /\ Apart'
    BY <1>0, <1>6, <2>2, <2>3 DEF Reserved, Apart
  <2>5. Kept'
    BY <1>3, <2>2 DEF Kept
  <2>6. Manned'
    <3>1. \A v \in Worker : SameCrew(pc[v], pc'[v])
      BY <1>1, <2>2 DEF SameCrew, Gone
    <3>2. QED
      BY <3>1, <1>0, <1>1, CrewStays
  <2>7. \A v \in Worker : work'[v] = NoJob <=> pc'[v] \in Idle
    BY <1>0, <2>2 DEF Shapes, Idle
  <2>8. Shapes'
    BY <1>0, <1>1, <1>5, <1>8, <2>1, <2>7 DEF Shapes
  <2>9. QED
    BY <2>4, <2>5, <2>6, <2>8 DEF ServiceIInv
<1>9. QED
  BY <1>7, <1>8 DEF TakeJob

\* A report frees one job, which no other thread holds.
LEMMA CompletePreservesThreads ==
  ASSUME ServiceIInv, IInv', NEW w \in Worker, Report(w) \/ LastReport(w)
  PROVE  ServiceIInv'
<1>0. IInv /\ Shapes /\ Reserved /\ Apart /\ Kept /\ Manned
  BY DEF ServiceIInv
<1>1. PICK next \in Idle : /\ Complete(w, next) /\ Holding(w)
                           /\ next # "waiting" /\ (next \in Gone <=> pc[w] \in Gone)
  BY DEF Report, LastReport, Holding, Idle, Busy, Gone
<1>2. /\ lock = NoWorker /\ lock' = lock /\ workers' = workers /\ revoked' = revoked
      /\ nextId' = nextId /\ (stopped => stopped')
      /\ work' = [work EXCEPT ![w] = NoJob]
      /\ \A k \in jobs : k.phase = "started" /\ k # work[w] => k \in jobs'
  BY <1>1 DEF Complete, Release
<1>3. pc \in [Worker -> PC] /\ work \in [Worker -> Job \cup {NoJob}]
  BY <1>0 DEF Shapes
<1> DEFINE moved == [pc EXCEPT ![w] = next]
<1>4. /\ moved \in [Worker -> PC] /\ moved[w] = next
      /\ \A v \in Worker : v # w => moved[v] = pc[v]
  BY <1>3 DEF PC, Idle
<1>5. pc' = Wake(moved)
  BY <1>1 DEF Complete
<1> HIDE DEF moved
<1>6. /\ pc' \in [Worker -> PC]
      /\ \A v \in Worker : SameStage(moved[v], pc'[v]) /\ SameCrew(moved[v], pc'[v])
  BY <1>4, <1>5, WakeKeeps
<1>7. /\ pc'[w] \in Idle
      /\ \A v \in Worker : v # w => SameStage(pc[v], pc'[v])
      /\ \A v \in Worker : SameCrew(pc[v], pc'[v])
  BY <1>1, <1>4, <1>6 DEF SameStage, SameCrew
<1>8. /\ work' \in [Worker -> Job \cup {NoJob}] /\ work'[w] = NoJob
      /\ \A v \in Worker : v # w => work'[v] = work[v]
  BY <1>2, <1>3
<1>9. \A v \in Worker : (Holding(v))' => v # w /\ Holding(v) /\ work'[v] = work[v]
  BY <1>7, <1>8 DEF Holding, SameStage, Idle, Busy
<1>10. Reserved'
  BY <1>0, <1>1, <1>2, <1>9 DEF Reserved, Apart
<1>11. Apart'
  BY <1>0, <1>9 DEF Apart
<1>12. Kept'
  <2>1. \A v \in Worker : pc'[v] # "begin"
    BY <1>0, <1>2, <1>7, NobodyBegins, StageFacts DEF SameStage, Idle
  <2>2. QED
    BY <2>1 DEF Kept
<1>13. Manned'
  BY <1>0, <1>2, <1>7, CrewStays
<1>14. \A v \in Worker : work'[v] = NoJob <=> pc'[v] \in Idle
  BY <1>0, <1>7, <1>8 DEF Shapes, SameStage
<1>15. payloads' \subseteq 1..nextId'
  BY <1>0, <1>1, <1>2 DEF Complete, Shapes
<1>16. Shapes'
  BY <1>0, <1>2, <1>6, <1>8, <1>14, <1>15 DEF Shapes
<1>17. QED
  BY <1>10, <1>11, <1>12, <1>13, <1>16 DEF ServiceIInv

-----------------------------------------------------------------------------
(* The theorems.                                                           *)

\* ServiceIInv holds in every reachable state of the service.
THEOREM ServiceInvariance == ServiceSpec => []ServiceIInv
<1>1. ServiceInit => ServiceIInv
  <2> SUFFICES ASSUME ServiceInit PROVE ServiceIInv
    OBVIOUS
  <2>1. IInv
    BY InitHolds DEF ServiceInit
  <2>2. Serving = Worker /\ Cardinality(Worker) \in Nat \ {0}
    <3>1. Serving = Worker
      BY DEF ServiceInit, Serving, Gone
    <3>2. QED
      BY <3>1, WorkerAssumption, FS_CardinalityType, FS_EmptySet
  <2>3. Manned
    BY <2>2 DEF ServiceInit, Manned
  <2>4. Shapes
    <3>1. workers \in 0..Cardinality(Worker)
      BY <2>2 DEF ServiceInit
    <3>2. /\ pc \in [Worker -> PC] /\ work \in [Worker -> Job \cup {NoJob}]
          /\ \A w \in Worker : work[w] = NoJob /\ pc[w] \in Idle
      BY DEF ServiceInit, PC, Idle
    <3>3. payloads \subseteq 1..nextId /\ lock \in Worker \cup {NoWorker} /\ revoked \in BOOLEAN
      BY DEF ServiceInit
    <3>4. QED
      BY <3>1, <3>2, <3>3 DEF Shapes
  <2>5. Reserved /\ Apart /\ Kept
    BY DEF ServiceInit, Reserved, Apart, Kept, Holding, Busy
  <2>6. QED
    BY <2>1, <2>3, <2>4, <2>5 DEF ServiceIInv
<1>2. ServiceIInv /\ [ServiceNext]_allVars => ServiceIInv'
  <2> SUFFICES ASSUME ServiceIInv, [ServiceNext]_allVars
               PROVE  ServiceIInv'
    OBVIOUS
  <2>0. IInv'
    BY DispatcherMoves DEF ServiceIInv
  <2>1. ASSUME NEW s \in Scope, NEW t \in Target, NEW e \in Amount, HostSubmit(s, t, e)
        PROVE  ServiceIInv'
    BY <2>0, <2>1, SubmitPreservesThreads
  <2>2. CASE Invalidate \/ PollOne \/ HostStop \/ ChangeAuthority
    BY <2>0, <2>2, HostPreservesThreads
  <2>3. ASSUME NEW w \in Worker, Step(w) \/ SpuriousWake(w)
        PROVE  ServiceIInv'
    <3>1. CASE Scan(w)
      BY <2>0, <3>1, ScanPreservesThreads
    <3>2. CASE TakeJob(w)
      BY <2>0, <3>2, TakePreservesThreads
    <3>3. CASE AskFence(w) \/ Execute(w) \/ SpuriousWake(w)
      BY <2>0, <3>3, MovePreservesThreads
    <3>4. CASE Destroy(w, TRUE) \/ Destroy(w, FALSE)
      BY <2>0, <3>4, DestroyPreservesThreads
    <3>5. CASE Report(w) \/ LastReport(w)
      BY <2>0, <3>5, CompletePreservesThreads
    <3>6. QED
      BY <2>3, <3>1, <3>2, <3>3, <3>4, <3>5 DEF Step
  <2>4. CASE UNCHANGED allVars
    <3>1. /\ jobs' = jobs /\ nextId' = nextId /\ stopped' = stopped /\ payloads' = payloads
          /\ workers' = workers /\ lock' = lock /\ pc' = pc /\ work' = work
          /\ revoked' = revoked
      BY <2>4 DEF allVars, vars, serviceVars
    <3>2. QED
      BY <2>0, <3>1
      DEF ServiceIInv, Shapes, Reserved, Apart, Kept, Manned, Holding, Serving
  <2>5. QED
    BY <2>1, <2>2, <2>3, <2>4 DEF ServiceNext
<1>3. QED
  BY <1>1, <1>2, PTL DEF ServiceSpec

\* No two backends write to one target: the jobs they hold are started, the
\* dispatcher reserves a target for one of them, and each is held once.
THEOREM OneWriter == ServiceSpec => []OneWriterPerTarget
<1>1. ServiceIInv => OneWriterPerTarget
  <2> SUFFICES ASSUME ServiceIInv, NEW v \in Worker, NEW w \in Worker,
                      Writing(v), Writing(w), work[v].target = work[w].target
               PROVE  v = w
    BY DEF OneWriterPerTarget
  <2>1. Holding(v) /\ Holding(w)
    BY DEF Writing, Holding, Busy
  <2>2. work[v] \in Active(jobs) /\ work[w] \in Active(jobs)
    BY <2>1 DEF ServiceIInv, Reserved, Active, IsActive
  <2>3. work[v] = work[w]
    BY <2>2 DEF ServiceIInv, IInv, TargetExclusive
  <2>4. QED
    BY <2>1, <2>3 DEF ServiceIInv, Apart
<1>2. QED
  BY <1>1, ServiceInvariance, PTL

\* With no job left no backend is inside a call: what Service::quiet tells the
\* sleep gate is true.
THEOREM QuietBarrier == ServiceSpec => []QuietIsIdle
<1>1. ServiceIInv => QuietIsIdle
  BY DEF ServiceIInv, Reserved, QuietIsIdle, Writing, Holding, Busy
<1>2. QED
  BY <1>1, ServiceInvariance, PTL

\* The dispatcher's order survives the threads, their panics and the full
\* queue of replies, a step the dispatcher alone does not have.
THEOREM ServiceOrder == ServiceSpec => []SubmissionOrder
<1>1. ServiceIInv => SubmissionOrder
  BY DEF ServiceIInv, IInv
<1>2. QED
  BY <1>1, ServiceInvariance, PTL

\* The count of backends stays at or above the threads that serve, so that
\* `state.workers -= 1` cannot wrap, and a service that has not stopped has one.
THEOREM ServiceIsManned == ServiceSpec => []Manned
<1>1. ServiceIInv => Manned
  BY DEF ServiceIInv
<1>2. QED
  BY <1>1, ServiceInvariance, PTL

\* The job a thread has selected is still there, still selected, when it calls
\* begin.
THEOREM SelectedIsKept == ServiceSpec => []Kept
<1>1. ServiceIInv => Kept
  BY DEF ServiceIInv
<1>2. QED
  BY <1>1, ServiceInvariance, PTL

=============================================================================
