--------------------------- MODULE CoMutexProofs ---------------------------
(***************************************************************************)
(* Proofs that the co_mutex chain excludes, never loses a lock, lets no    *)
(* coroutine overtake another and implements the fifo lock, for any set of *)
(* coroutines and any number of mutexes, provided no coroutine is          *)
(* cancelled between unlock() scheduling it and the run loop resuming it.  *)
(* The types hold without that proviso.                                    *)
(***************************************************************************)
EXTENDS CoMutexRunloop, ListLemmas

-----------------------------------------------------------------------------
(* Type correctness.                                                       *)

LEMMA TypeInit == Init => TypeOK
<1>1. Unlocked \in MutexOver(Coros) /\ <<>> \in Seq(Coros)
  BY DEF Unlocked, MutexOver
<1>2. 1 \in StageSet
  BY CoAssumption DEF StageSet
<1>3. QED
  BY <1>1, <1>2 DEF Init, TypeOK, MutexOver, PCs

LEMMA TypeNext == TypeOK /\ [Next]_vars => TypeOK'
<1> SUFFICES ASSUME TypeOK, [Next]_vars
             PROVE  TypeOK'
  OBVIOUS
<1> USE DEF TypeOK, PCs
<1>0. mutex \in [StageSet -> MutexOver(Coros)]
  BY DEF MutexOver
<1>1. CASE Resume
  <2>1. Head(scheduled) \in Coros /\ Tail(scheduled) \in Seq(Coros)
    BY <1>1 DEF Resume
  <2>2. Take(mutex[stage[Head(scheduled)]], Head(scheduled)) \in MutexOver(Coros)
    BY <2>1, <1>0, OpsType
  <2>3. QED
    BY <1>1, <2>1, <2>2 DEF Resume, MutexOver
<1>2. ASSUME NEW c \in Coros, Start(c)
      PROVE  TypeOK'
  <2>1. 1 \in StageSet
    BY CoAssumption DEF StageSet
  <2>2. QED
    BY <1>2, <2>1 DEF Start
<1>3. ASSUME NEW c \in Coros, EnterFree(c)
      PROVE  TypeOK'
  BY <1>0, <1>3, OpsType DEF EnterFree, MutexOver
<1>4. ASSUME NEW c \in Coros, EnterBusy(c)
      PROVE  TypeOK'
  BY <1>0, <1>4, OpsType DEF EnterBusy, MutexOver
<1>5. ASSUME NEW c \in Coros, Sync(c) \/ Suspend(c) \/ Wake(c)
      PROVE  TypeOK'
  BY <1>5 DEF Sync, Suspend, Wake
<1>6. ASSUME NEW c \in Coros, Release(c)
      PROVE  TypeOK'
  <2>1. /\ Unlock(mutex[stage[c]]) \in MutexOver(Coros)
        /\ scheduled \o Woken(mutex[stage[c]]) \in Seq(Coros)
        /\ Unlink(arrival, c) \in Seq(Coros)
    BY <1>0, OpsType, UnlinkType
  <2>2. ~AtLastStage(c) => stage[c] + 1 \in StageSet
    BY CoAssumption DEF AtLastStage, StageSet
  <2>3. QED
    BY <1>6, <2>1, <2>2 DEF Release, MutexOver
<1>7. ASSUME NEW c \in Coros, CancelWaiting(c)
      PROVE  TypeOK'
  BY <1>0, <1>7, OpsType, UnlinkType DEF CancelWaiting, MutexOver
<1>8. ASSUME NEW c \in Coros, CancelHolding(c)
      PROVE  TypeOK'
  <2>1. /\ Unlock(mutex[stage[c]]) \in MutexOver(Coros)
        /\ scheduled \o Woken(mutex[stage[c]]) \in Seq(Coros)
        /\ Unlink(arrival, c) \in Seq(Coros)
    BY <1>0, OpsType, UnlinkType
  <2>2. QED
    BY <1>8, <2>1 DEF CancelHolding, MutexOver
<1>9. CASE UNCHANGED vars
  BY <1>9 DEF vars
<1>10. QED
  BY <1>1, <1>2, <1>3, <1>4, <1>5, <1>6, <1>7, <1>8, <1>9
  DEF Next, Run, Cancel

\* Every variable of the co_mutex chain keeps its type.
THEOREM TypeCorrect == Safe => []TypeOK
BY TypeInit, TypeNext, PTL DEF Safe

-----------------------------------------------------------------------------
(* Safety.                                                                  *)


\* The list of a mutex holds coroutines that wait for it, each once.
WaitersWait ==
  \A s \in StageSet :
    LET w == mutex[s].waiters IN
    /\ \A i \in 1 .. Len(w) : pc[w[i]] = "wait" /\ stage[w[i]] = s
    /\ \A i, j \in 1 .. Len(w) : w[i] = w[j] => i = j

NoHolderAt(s) == \A c \in Coros : Holds(c) => stage[c] # s

\* A scheduled coroutine is the oldest waiter of a mutex that is locked for it alone.
HandedOver(c) ==
  LET mx == mutex[stage[c]] IN
  /\ pc[c] = "wait"
  /\ mx.locked
  /\ Len(mx.waiters) > 0 /\ mx.waiters[1] = c
  /\ NoHolderAt(stage[c])

ScheduledOnce ==
  /\ \A i \in 1 .. Len(scheduled) : HandedOver(scheduled[i])
  /\ \A i, j \in 1 .. Len(scheduled) :
       stage[scheduled[i]] = stage[scheduled[j]] => i = j

HeldIsLocked == \A c \in Coros : Holds(c) => mutex[stage[c]].locked

\* The inductive invariant.
IInv ==
  /\ TypeOK
  /\ WaitersWait
  /\ ScheduledOnce
  /\ HeldIsLocked
  /\ MutualExclusion

-----------------------------------------------------------------------------
(* Steps.                                                                  *)

\* unlock(), by a lock's destructor or a cancellation: the holder leaves, and the
\* first waiter, if there is one, is all that keeps the mutex locked.
LEMMA UnlockStep ==
  ASSUME IInv, TypeOK',
         NEW c \in Coros, Holds(c),
         NEW x \in {"idle", "enter"},
         pc' = [pc EXCEPT ![c] = x],
         \A d \in Coros \ {c} : stage'[d] = stage[d],
         mutex' = [mutex EXCEPT ![stage[c]] = Unlock(@)],
         scheduled' = scheduled \o Woken(mutex[stage[c]])
  PROVE  IInv'
<1> DEFINE s == stage[c]
           w == mutex[s].waiters
<1>1. /\ s \in StageSet /\ mutex \in [StageSet -> MutexOver(Coros)]
      /\ w \in Seq(Coros) /\ scheduled \in Seq(Coros)
      /\ pc \in [Coros -> PCs] /\ stage \in [Coros -> StageSet]
  BY DEF IInv, TypeOK, MutexOver
<1>2. \A d \in Coros : d # c /\ Holds(d) => stage[d] # s
  BY DEF IInv, MutualExclusion
<1>3. \A d \in Coros : Holds(d)' <=> Holds(d) /\ d # c
  BY <1>1 DEF Holds
<1>4. \A d \in Coros : pc[d] = "wait" => d # c /\ pc'[d] = "wait" /\ stage'[d] = stage[d]
  BY <1>1 DEF Holds
<1>5. /\ \A t \in StageSet : mutex'[t].waiters = mutex[t].waiters
      /\ \A t \in StageSet \ {s} : mutex'[t] = mutex[t]
      /\ mutex'[s].locked = (w # <<>>)
  BY <1>1 DEF Unlock, MutexOver
<1>6. \A d \in Coros : Holds(d)' => stage'[d] # s
  BY <1>2, <1>3
<1>7. WaitersWait'
  <2>1. ASSUME NEW t \in StageSet
        PROVE  /\ \A i \in 1 .. Len(mutex[t].waiters) :
                    pc'[mutex[t].waiters[i]] = "wait" /\ stage'[mutex[t].waiters[i]] = t
               /\ \A i, j \in 1 .. Len(mutex[t].waiters) :
                    mutex[t].waiters[i] = mutex[t].waiters[j] => i = j
    <3>1. mutex[t].waiters \in Seq(Coros)
      BY <1>1 DEF MutexOver
    <3>2. \A i \in 1 .. Len(mutex[t].waiters) : mutex[t].waiters[i] \in Coros
      BY <3>1
    <3>3. QED
      BY <1>4, <3>2 DEF IInv, WaitersWait
  <2>2. QED
    BY <2>1, <1>5 DEF WaitersWait
<1>8. HeldIsLocked'
  BY <1>1, <1>2, <1>3, <1>5 DEF HeldIsLocked, IInv
<1>9. MutualExclusion'
  BY <1>3 DEF MutualExclusion, IInv
<1>10. \A d \in Coros : HandedOver(d) => stage[d] # s /\ HandedOver(d)'
  <2>1. ASSUME NEW d \in Coros, HandedOver(d)
        PROVE  stage[d] # s /\ HandedOver(d)'
    <3>1. stage[d] # s
      BY <2>1 DEF HandedOver, NoHolderAt
    <3>2. pc'[d] = "wait" /\ stage'[d] = stage[d] /\ stage[d] \in StageSet
      BY <1>1, <1>4, <2>1 DEF HandedOver
    <3>3. mutex'[stage'[d]] = mutex[stage[d]]
      BY <1>5, <3>1, <3>2
    <3>4. \A e \in Coros : Holds(e)' => stage'[e] # stage'[d]
      BY <1>3, <2>1, <3>2 DEF HandedOver, NoHolderAt
    <3>5. QED
      BY <2>1, <3>1, <3>2, <3>3, <3>4 DEF HandedOver, NoHolderAt
  <2>2. QED
    BY <2>1
<1>11. ScheduledOnce'
  <2>1. /\ \A i \in 1 .. Len(scheduled) : scheduled'[i] = scheduled[i]
        /\ w = <<>> => Len(scheduled') = Len(scheduled)
        /\ w # <<>> => /\ Len(scheduled') = Len(scheduled) + 1
                       /\ scheduled'[Len(scheduled) + 1] = w[1]
                       /\ Len(w) > 0
    BY <1>1, WokenAt
  <2>2. \A i \in 1 .. Len(scheduled) :
          /\ scheduled[i] \in Coros /\ HandedOver(scheduled[i])
          /\ stage[scheduled[i]] # s
          /\ stage'[scheduled[i]] = stage[scheduled[i]]
    BY <1>1, <1>4, <1>10 DEF IInv, ScheduledOnce, HandedOver
  <2>3. ASSUME w # <<>>
        PROVE  \E h \in Coros : h = w[1] /\ stage'[h] = s /\ HandedOver(h)'
    <3>1. PICK h \in Coros : h = w[1]
      BY <1>1, <2>1, <2>3
    <3>2. pc[h] = "wait" /\ stage[h] = s
      BY <1>1, <2>1, <2>3, <3>1 DEF IInv, WaitersWait
    <3>3. pc'[h] = "wait" /\ stage'[h] = s
      BY <1>4, <3>2
    <3>4. mutex'[s].locked /\ mutex'[s].waiters = w
      BY <1>1, <1>5, <2>3
    <3>5. QED
      BY <1>6, <2>1, <2>3, <3>1, <3>3, <3>4 DEF HandedOver, NoHolderAt
  <2>4. Len(scheduled) \in Nat
    BY <1>1
  <2>5. CASE w = <<>>
    BY <1>10, <2>1, <2>2, <2>5 DEF ScheduledOnce, IInv
  <2>6. CASE w # <<>>
    <3>1. PICK h \in Coros : h = w[1] /\ stage'[h] = s /\ HandedOver(h)'
      BY <2>3, <2>6
    <3>2. \A i \in 1 .. Len(scheduled') :
            \/ i \in 1 .. Len(scheduled) /\ scheduled'[i] = scheduled[i]
            \/ i = Len(scheduled) + 1 /\ scheduled'[i] = h
      BY <2>1, <2>4, <2>6, <3>1
    <3>3. ASSUME NEW i \in 1 .. Len(scheduled')
          PROVE  \E d \in Coros : d = scheduled'[i] /\ HandedOver(d)'
      BY <1>10, <2>2, <3>1, <3>2
    <3>4. \A i, j \in 1 .. Len(scheduled') :
            stage'[scheduled'[i]] = stage'[scheduled'[j]] => i = j
      BY <2>2, <3>1, <3>2 DEF ScheduledOnce, IInv
    <3>5. \A i \in 1 .. Len(scheduled') : HandedOver(scheduled[i])'
      BY <3>3 DEF HandedOver
    <3>6. QED
      BY <3>4, <3>5 DEF ScheduledOnce
  <2>7. QED
    BY <2>5, <2>6
<1>12. QED
  BY <1>7, <1>8, <1>9, <1>11 DEF IInv

\* A waiter leaves its list, with the lock or destroyed: the others stay, in order.
LEMMA UnlinkStep ==
  ASSUME IInv,
         NEW c \in Coros, pc[c] = "wait",
         NEW x \in PCs \ {"wait"},
         pc' = [pc EXCEPT ![c] = x],
         stage' = stage,
         \A t \in StageSet :
           mutex'[t].waiters = IF t = stage[c] THEN Unlink(mutex[t].waiters, c)
                                               ELSE mutex[t].waiters
  PROVE  /\ WaitersWait'
         /\ \A t \in StageSet :
              LET w == mutex[t].waiters IN
              Len(w) > 0 /\ w[1] # c =>
                Len(mutex'[t].waiters) > 0 /\ mutex'[t].waiters[1] = w[1]
<1>1. /\ mutex \in [StageSet -> MutexOver(Coros)] /\ pc \in [Coros -> PCs]
      /\ stage \in [Coros -> StageSet]
  BY DEF IInv, TypeOK, MutexOver
<1>2. ASSUME NEW t \in StageSet
      PROVE  /\ \A i \in 1 .. Len(mutex'[t].waiters) :
                  pc'[mutex'[t].waiters[i]] = "wait" /\ stage'[mutex'[t].waiters[i]] = t
             /\ \A i, j \in 1 .. Len(mutex'[t].waiters) :
                  mutex'[t].waiters[i] = mutex'[t].waiters[j] => i = j
             /\ Len(mutex[t].waiters) > 0 /\ mutex[t].waiters[1] # c =>
                  /\ Len(mutex'[t].waiters) > 0
                  /\ mutex'[t].waiters[1] = mutex[t].waiters[1]
  <2> DEFINE w == mutex[t].waiters
             u == mutex'[t].waiters
  <2>1. w \in Seq(Coros)
    BY <1>1 DEF MutexOver
  <2>2. \A i \in 1 .. Len(w) : w[i] \in Coros /\ pc[w[i]] = "wait" /\ stage[w[i]] = t
    BY <2>1 DEF IInv, WaitersWait
  <2>3. \A i, j \in 1 .. Len(w) : w[i] = w[j] => i = j
    BY DEF IInv, WaitersWait
  <2>4. /\ \A j \in 1 .. Len(u) : u[j] # c /\ \E i \in 1 .. Len(w) : u[j] = w[i]
        /\ \A i, j \in 1 .. Len(u) : u[i] = u[j] => i = j
        /\ Len(w) > 0 /\ w[1] # c => Len(u) > 0 /\ u[1] = w[1]
    <3>1. CASE t = stage[c]
      <4>1. u = Unlink(w, c)
        BY <3>1
      <4>2. QED
        BY <2>1, <2>3, <4>1, UnlinkDistinct
    <3>2. CASE t # stage[c]
      <4>1. u = w
        BY <3>2
      <4>2. QED
        BY <2>2, <2>3, <3>2, <4>1
    <3>3. QED
      BY <3>1, <3>2
  <2>5. \A i \in 1 .. Len(u) : pc'[u[i]] = "wait" /\ stage'[u[i]] = t
    <3>1. ASSUME NEW j \in 1 .. Len(u)
          PROVE  pc'[u[j]] = "wait" /\ stage'[u[j]] = t
      <4>1. PICK i \in 1 .. Len(w) : u[j] = w[i] /\ w[i] # c
        BY <2>4
      <4>2. w[i] \in Coros /\ pc[w[i]] = "wait" /\ stage[w[i]] = t
        BY <2>2
      <4>3. QED
        BY <1>1, <4>1, <4>2
    <3>2. QED
      BY <3>1
  <2>6. QED
    BY <2>4, <2>5
<1>3. QED
  BY <1>2 DEF WaitersWait

\* The run loop resumes a waiter, which takes the lock it was handed.
LEMMA ResumeStep == ASSUME IInv, TypeOK', Resume PROVE IInv'
<1>1. /\ mutex \in [StageSet -> MutexOver(Coros)] /\ pc \in [Coros -> PCs]
      /\ stage \in [Coros -> StageSet] /\ scheduled \in Seq(Coros)
  BY DEF IInv, TypeOK, MutexOver
<1>2. PICK c \in Coros : c = scheduled[1] /\ Len(scheduled) > 0
  BY <1>1 DEF Resume
<1> DEFINE s == stage[c]
<1>3. HandedOver(c) /\ s \in StageSet
  BY <1>1, <1>2 DEF IInv, ScheduledOnce
<1>4. /\ pc[c] = "wait"
      /\ mutex' = [mutex EXCEPT ![s] = Take(@, c)]
      /\ pc' = [pc EXCEPT ![c] = "hold"]
      /\ scheduled' = Tail(scheduled)
      /\ stage' = stage
  BY <1>1, <1>2 DEF Resume
<1>5. /\ \A t \in StageSet :
           /\ mutex'[t].waiters = IF t = s THEN Unlink(mutex[t].waiters, c)
                                           ELSE mutex[t].waiters
           /\ mutex'[t].locked = (t = s \/ mutex[t].locked)
      /\ \A t \in StageSet \ {s} : mutex'[t] = mutex[t]
  BY <1>1, <1>3, <1>4 DEF Take, MutexOver
<1>6. WaitersWait'
  BY <1>4, <1>5, UnlinkStep DEF PCs
<1>7. \A d \in Coros : Holds(d)' <=> Holds(d) \/ d = c
  BY <1>1, <1>4 DEF Holds
<1>8. \A d \in Coros : Holds(d) => stage[d] # s
  BY <1>3 DEF HandedOver, NoHolderAt
<1>9. HeldIsLocked' /\ MutualExclusion'
  BY <1>1, <1>4, <1>5, <1>7, <1>8 DEF HeldIsLocked, MutualExclusion, IInv
<1>10. /\ Len(scheduled') = Len(scheduled) - 1 /\ Len(scheduled) \in Nat
       /\ \A i \in 1 .. Len(scheduled') :
            /\ scheduled'[i] = scheduled[i + 1]
            /\ i + 1 \in 1 .. Len(scheduled)
            /\ scheduled[i + 1] \in Coros
  BY <1>1, <1>2, <1>4
<1>11. ASSUME NEW i \in 1 .. Len(scheduled')
       PROVE  HandedOver(scheduled[i])'
  <2>1. PICK d \in Coros : d = scheduled'[i] /\ d = scheduled[i + 1]
    BY <1>10
  <2>2. HandedOver(d) /\ stage[d] # s /\ stage[d] \in StageSet
    <3>1. i + 1 # 1 /\ i + 1 \in 1 .. Len(scheduled) /\ 1 \in 1 .. Len(scheduled)
      BY <1>2, <1>10
    <3>2. QED
      BY <1>1, <1>2, <2>1, <3>1 DEF IInv, ScheduledOnce
  <2>3. pc'[d] = "wait" /\ mutex'[stage'[d]] = mutex[stage[d]]
    BY <1>1, <1>4, <1>5, <2>2 DEF HandedOver
  <2>4. \A e \in Coros : Holds(e)' => stage'[e] # stage'[d]
    BY <1>4, <1>7, <2>2 DEF HandedOver, NoHolderAt
  <2>5. HandedOver(d)'
    BY <1>4, <2>2, <2>3, <2>4 DEF HandedOver, NoHolderAt
  <2>6. QED
    BY <2>1, <2>5 DEF HandedOver
<1>12. ScheduledOnce'
  <2>1. \A i, j \in 1 .. Len(scheduled') :
          stage'[scheduled'[i]] = stage'[scheduled'[j]] => i = j
    <3>1. ASSUME NEW i \in 1 .. Len(scheduled'), NEW j \in 1 .. Len(scheduled'),
                 stage'[scheduled'[i]] = stage'[scheduled'[j]]
          PROVE  i = j
      <4>1. i + 1 = j + 1
        BY <1>4, <1>10, <3>1 DEF IInv, ScheduledOnce
      <4>2. QED
        BY <1>10, <4>1
    <3>2. QED
      BY <3>1
  <2>2. QED
    BY <1>11, <2>1 DEF ScheduledOnce
<1>13. QED
  BY <1>6, <1>9, <1>12 DEF IInv

\* A coroutine that waits, and was not scheduled, is destroyed.
LEMMA CancelWaitingStep ==
  ASSUME IInv, TypeOK', ~CancelScheduled, NEW c \in Coros, CancelWaiting(c)
  PROVE  IInv'
<1> DEFINE s == stage[c]
<1>1. /\ mutex \in [StageSet -> MutexOver(Coros)] /\ pc \in [Coros -> PCs]
      /\ stage \in [Coros -> StageSet] /\ scheduled \in Seq(Coros) /\ s \in StageSet
  BY DEF IInv, TypeOK, MutexOver
<1>2. /\ pc[c] = "wait" /\ pc' = [pc EXCEPT ![c] = "idle"]
      /\ mutex' = [mutex EXCEPT ![s] = Forget(@, c)]
      /\ stage' = stage /\ scheduled' = scheduled
      /\ \A i \in 1 .. Len(scheduled) : scheduled[i] # c
  BY <1>1 DEF CancelWaiting, IsScheduled, Contains
<1>3. \A t \in StageSet :
        /\ mutex'[t].waiters = IF t = s THEN Unlink(mutex[t].waiters, c)
                                        ELSE mutex[t].waiters
        /\ mutex'[t].locked = mutex[t].locked
  BY <1>1, <1>2 DEF Forget, MutexOver
<1>4. /\ WaitersWait'
      /\ \A t \in StageSet :
           Len(mutex[t].waiters) > 0 /\ mutex[t].waiters[1] # c =>
             /\ Len(mutex'[t].waiters) > 0
             /\ mutex'[t].waiters[1] = mutex[t].waiters[1]
  BY <1>2, <1>3, UnlinkStep DEF PCs
<1>5. \A d \in Coros : Holds(d)' <=> Holds(d)
  BY <1>1, <1>2 DEF Holds
<1>6. HeldIsLocked' /\ MutualExclusion'
  BY <1>1, <1>2, <1>3, <1>5 DEF HeldIsLocked, MutualExclusion, IInv
<1>7. ASSUME NEW d \in Coros, d # c, HandedOver(d)
      PROVE  HandedOver(d)'
  <2>1. pc'[d] = "wait" /\ stage'[d] = stage[d] /\ stage[d] \in StageSet
    BY <1>1, <1>2, <1>7 DEF HandedOver
  <2>2. /\ mutex'[stage[d]].locked /\ Len(mutex'[stage[d]].waiters) > 0
        /\ mutex'[stage[d]].waiters[1] = d
    BY <1>3, <1>4, <1>7, <2>1 DEF HandedOver
  <2>3. QED
    BY <1>2, <1>5, <1>7, <2>1, <2>2 DEF HandedOver, NoHolderAt
<1>8. ScheduledOnce'
  <2>1. \A i \in 1 .. Len(scheduled) :
          scheduled[i] \in Coros /\ scheduled[i] # c /\ HandedOver(scheduled[i])
    BY <1>1, <1>2 DEF IInv, ScheduledOnce
  <2>2. ASSUME NEW i \in 1 .. Len(scheduled')
        PROVE  HandedOver(scheduled[i])'
    <3>1. PICK d \in Coros : d = scheduled[i] /\ d = scheduled'[i] /\ HandedOver(d)'
      BY <1>2, <1>7, <2>1
    <3>2. QED
      BY <3>1 DEF HandedOver
  <2>3. QED
    BY <1>2, <2>2 DEF ScheduledOnce, IInv
<1>9. QED
  BY <1>4, <1>6, <1>8 DEF IInv

\* co_await on a free mutex: nobody holds it and it was handed to nobody.
LEMMA EnterFreeStep ==
  ASSUME IInv, TypeOK', NEW c \in Coros, EnterFree(c) PROVE IInv'
<1> DEFINE s == stage[c]
<1>1. /\ mutex \in [StageSet -> MutexOver(Coros)] /\ pc \in [Coros -> PCs]
      /\ stage \in [Coros -> StageSet] /\ scheduled \in Seq(Coros) /\ s \in StageSet
  BY DEF IInv, TypeOK, MutexOver
<1>2. /\ pc[c] = "enter" /\ pc' = [pc EXCEPT ![c] = "hold"] /\ ~mutex[s].locked
      /\ mutex' = [mutex EXCEPT ![s] = Take(@, c)]
      /\ stage' = stage /\ scheduled' = scheduled
  BY DEF EnterFree, CanTake
<1>3. ~Contains(mutex[s].waiters, c)
  BY <1>1, <1>2 DEF IInv, WaitersWait, Contains
<1>4. /\ \A t \in StageSet :
           /\ mutex'[t].waiters = mutex[t].waiters
           /\ mutex'[t].locked = (t = s \/ mutex[t].locked)
      /\ \A t \in StageSet \ {s} : mutex'[t] = mutex[t]
  BY <1>1, <1>2, <1>3, UnlinkAbsent DEF Take, MutexOver
<1>5. \A d \in Coros : Holds(d)' <=> Holds(d) \/ d = c
  BY <1>1, <1>2 DEF Holds
<1>6. \A d \in Coros : Holds(d) => stage[d] # s
  BY <1>2 DEF IInv, HeldIsLocked
<1>7. HeldIsLocked' /\ MutualExclusion'
  BY <1>1, <1>2, <1>4, <1>5, <1>6 DEF HeldIsLocked, MutualExclusion, IInv
<1>8. \A d \in Coros : pc[d] = "wait" => pc'[d] = "wait" /\ d # c
  BY <1>1, <1>2
<1>9. WaitersWait'
  <2>1. ASSUME NEW t \in StageSet
        PROVE  \A i \in 1 .. Len(mutex[t].waiters) :
                 pc'[mutex[t].waiters[i]] = "wait" /\ stage[mutex[t].waiters[i]] = t
    <3>1. mutex[t].waiters \in Seq(Coros)
      BY <1>1 DEF MutexOver
    <3>2. QED
      BY <1>8, <3>1 DEF IInv, WaitersWait
  <2>2. QED
    BY <1>2, <1>4, <2>1 DEF WaitersWait, IInv
<1>10. ScheduledOnce'
  <2>1. ASSUME NEW i \in 1 .. Len(scheduled')
        PROVE  HandedOver(scheduled[i])'
    <3>1. PICK d \in Coros : d = scheduled[i] /\ HandedOver(d)
      BY <1>1, <1>2, <2>1 DEF IInv, ScheduledOnce
    <3>2. stage[d] # s /\ stage[d] \in StageSet /\ mutex'[stage[d]] = mutex[stage[d]]
      BY <1>1, <1>2, <1>4, <3>1 DEF HandedOver
    <3>3. \A e \in Coros : Holds(e)' => stage'[e] # stage'[d]
      BY <1>2, <1>5, <3>1, <3>2 DEF HandedOver, NoHolderAt
    <3>4. QED
      BY <1>2, <1>8, <3>1, <3>2, <3>3 DEF HandedOver, NoHolderAt
  <2>2. QED
    BY <1>2, <2>1 DEF ScheduledOnce, IInv
<1>11. QED
  BY <1>7, <1>9, <1>10 DEF IInv

\* co_await on a busy mutex: the coroutine is linked behind the others.
LEMMA EnterBusyStep ==
  ASSUME IInv, TypeOK', NEW c \in Coros, EnterBusy(c) PROVE IInv'
<1> DEFINE s == stage[c]
<1>1. /\ mutex \in [StageSet -> MutexOver(Coros)] /\ pc \in [Coros -> PCs]
      /\ stage \in [Coros -> StageSet] /\ scheduled \in Seq(Coros) /\ s \in StageSet
  BY DEF IInv, TypeOK, MutexOver
<1>2. /\ pc[c] = "enter" /\ pc' = [pc EXCEPT ![c] = "wait"]
      /\ mutex' = [mutex EXCEPT ![s] = Enqueue(@, c)]
      /\ stage' = stage /\ scheduled' = scheduled
  BY DEF EnterBusy
<1>3. \A t \in StageSet :
        /\ mutex'[t].waiters = IF t = s THEN Append(mutex[t].waiters, c)
                                        ELSE mutex[t].waiters
        /\ mutex'[t].locked = mutex[t].locked
  BY <1>1, <1>2 DEF Enqueue, MutexOver
<1>4. \A d \in Coros : (Holds(d)' <=> Holds(d)) /\ (pc[d] = "wait" => pc'[d] = "wait")
  BY <1>1, <1>2 DEF Holds
<1>5. HeldIsLocked' /\ MutualExclusion'
  BY <1>1, <1>2, <1>3, <1>4 DEF HeldIsLocked, MutualExclusion, IInv
<1>6. ASSUME NEW t \in StageSet
      PROVE  /\ \A i \in 1 .. Len(mutex'[t].waiters) :
                  pc'[mutex'[t].waiters[i]] = "wait" /\ stage'[mutex'[t].waiters[i]] = t
             /\ \A i, j \in 1 .. Len(mutex'[t].waiters) :
                  mutex'[t].waiters[i] = mutex'[t].waiters[j] => i = j
             /\ Len(mutex[t].waiters) > 0 =>
                  /\ Len(mutex'[t].waiters) > 0
                  /\ mutex'[t].waiters[1] = mutex[t].waiters[1]
  <2> DEFINE w == mutex[t].waiters
             u == mutex'[t].waiters
  <2>1. w \in Seq(Coros) /\ Len(w) \in Nat
    BY <1>1 DEF MutexOver
  <2>2. \A i \in 1 .. Len(w) :
          w[i] \in Coros /\ w[i] # c /\ pc'[w[i]] = "wait" /\ stage'[w[i]] = t
    BY <1>2, <1>4, <2>1 DEF IInv, WaitersWait
  <2>3. \A i, j \in 1 .. Len(w) : w[i] = w[j] => i = j
    BY DEF IInv, WaitersWait
  <2>4. CASE t = s
    <3>1. /\ Len(u) = Len(w) + 1 /\ u[Len(w) + 1] = c
          /\ \A i \in 1 .. Len(w) : u[i] = w[i]
      <4>1. u = Append(w, c)
        BY <1>3, <2>4
      <4>2. QED
        BY <1>1, <2>1, <4>1
    <3>2. pc'[c] = "wait" /\ stage'[c] = t
      BY <1>1, <1>2, <2>4
    <3> HIDE DEF w, u
    <3>3. \A i \in 1 .. Len(u) :
            \/ i \in 1 .. Len(w) /\ u[i] = w[i]
            \/ i = Len(w) + 1 /\ u[i] = c
      BY <2>1, <3>1
    <3>4. \A i \in 1 .. Len(u) : pc'[u[i]] = "wait" /\ stage'[u[i]] = t
      BY <2>2, <3>2, <3>3
    <3>5. \A i, j \in 1 .. Len(u) : u[i] = u[j] => i = j
      BY <2>2, <2>3, <3>3
    <3>6. Len(w) > 0 => Len(u) > 0 /\ u[1] = w[1]
      BY <2>1, <3>1
    <3>7. QED
      BY <3>4, <3>5, <3>6 DEF w, u
  <2>5. CASE t # s
    BY <1>3, <2>2, <2>3, <2>5
  <2>6. QED
    BY <2>4, <2>5
<1>7. WaitersWait'
  BY <1>6 DEF WaitersWait
<1>8. ScheduledOnce'
  <2>1. ASSUME NEW i \in 1 .. Len(scheduled')
        PROVE  HandedOver(scheduled[i])'
    <3>1. PICK d \in Coros : d = scheduled[i] /\ HandedOver(d)
      BY <1>1, <1>2, <2>1 DEF IInv, ScheduledOnce
    <3>2. /\ stage[d] \in StageSet /\ mutex'[stage[d]].locked
          /\ Len(mutex'[stage[d]].waiters) > 0 /\ mutex'[stage[d]].waiters[1] = d
      BY <1>1, <1>3, <1>6, <3>1 DEF HandedOver
    <3>3. \A e \in Coros : Holds(e)' => stage'[e] # stage'[d]
      BY <1>2, <1>4, <3>1 DEF HandedOver, NoHolderAt
    <3>4. QED
      BY <1>2, <1>4, <3>1, <3>2, <3>3 DEF HandedOver, NoHolderAt
  <2>2. QED
    BY <1>2, <2>1 DEF ScheduledOnce, IInv
<1>9. QED
  BY <1>5, <1>7, <1>8 DEF IInv

\* Steps that touch no mutex, by a coroutine that waits for none before and after, and
\* holds one after only if it did before.
LEMMA OtherStep ==
  ASSUME IInv, TypeOK',
         NEW c \in Coros, pc[c] # "wait",
         NEW x \in PCs \ {"wait"},
         pc' = [pc EXCEPT ![c] = x],
         Holds(c)' => Holds(c) /\ stage'[c] = stage[c],
         \A d \in Coros \ {c} : stage'[d] = stage[d],
         UNCHANGED <<mutex, scheduled>>
  PROVE  IInv'
<1>1. /\ mutex \in [StageSet -> MutexOver(Coros)] /\ pc \in [Coros -> PCs]
      /\ stage \in [Coros -> StageSet] /\ scheduled \in Seq(Coros)
  BY DEF IInv, TypeOK, MutexOver
<1>2. \A d \in Coros :
        /\ Holds(d)' => Holds(d) /\ stage'[d] = stage[d]
        /\ pc[d] = "wait" => d # c /\ pc'[d] = "wait" /\ stage'[d] = stage[d]
  BY <1>1 DEF Holds
<1>3. HeldIsLocked' /\ MutualExclusion'
  BY <1>2 DEF HeldIsLocked, MutualExclusion, IInv
<1>4. WaitersWait'
  <2>1. ASSUME NEW t \in StageSet
        PROVE  \A i \in 1 .. Len(mutex[t].waiters) :
                 pc'[mutex[t].waiters[i]] = "wait" /\ stage'[mutex[t].waiters[i]] = t
    <3>1. mutex[t].waiters \in Seq(Coros)
      BY <1>1 DEF MutexOver
    <3>2. QED
      BY <1>2, <3>1 DEF IInv, WaitersWait
  <2>2. QED
    BY <2>1 DEF WaitersWait, IInv
<1>5. ScheduledOnce'
  <2>1. \A i \in 1 .. Len(scheduled) :
          scheduled[i] \in Coros /\ HandedOver(scheduled[i])
          /\ stage'[scheduled[i]] = stage[scheduled[i]]
    BY <1>1, <1>2 DEF IInv, ScheduledOnce, HandedOver
  <2>2. ASSUME NEW i \in 1 .. Len(scheduled')
        PROVE  HandedOver(scheduled[i])'
    <3>1. PICK d \in Coros : d = scheduled[i] /\ HandedOver(d)
      BY <2>1
    <3>2. pc'[d] = "wait" /\ stage'[d] = stage[d]
      BY <1>2, <3>1 DEF HandedOver
    <3>3. \A e \in Coros : Holds(e)' => stage'[e] # stage'[d]
      BY <1>2, <3>1, <3>2 DEF HandedOver, NoHolderAt
    <3>4. QED
      BY <3>1, <3>2, <3>3 DEF HandedOver, NoHolderAt
  <2>3. QED
    BY <2>1, <2>2 DEF ScheduledOnce, IInv
<1>6. QED
  BY <1>3, <1>4, <1>5 DEF IInv

-----------------------------------------------------------------------------
(* The theorems.                                                           *)

LEMMA InvInit == Init => IInv
<1> SUFFICES ASSUME Init PROVE IInv
  OBVIOUS
<1>1. TypeOK
  BY TypeInit
<1>2. \A s \in StageSet : Len(mutex[s].waiters) = 0
  BY DEF Init, Unlocked
<1>3. Len(scheduled) = 0 /\ \A c \in Coros : ~Holds(c)
  BY DEF Init, Holds
<1>4. QED
  BY <1>1, <1>2, <1>3
  DEF IInv, WaitersWait, ScheduledOnce, HeldIsLocked, MutualExclusion

LEMMA InvNext == ~CancelScheduled /\ IInv /\ [Next]_vars => IInv'
<1> SUFFICES ASSUME ~CancelScheduled, IInv, [Next]_vars
             PROVE  IInv'
  OBVIOUS
<1>1. TypeOK'
  BY TypeNext DEF IInv
<1>2. pc \in [Coros -> PCs] /\ stage \in [Coros -> StageSet]
  BY DEF IInv, TypeOK
<1>3. CASE Resume
  BY <1>1, <1>3, ResumeStep
<1>4. ASSUME NEW c \in Coros, Start(c)
      PROVE  IInv'
  <2>1. /\ pc[c] # "wait" /\ "enter" \in PCs \ {"wait"}
        /\ pc' = [pc EXCEPT ![c] = "enter"] /\ ~Holds(c)'
        /\ \A d \in Coros \ {c} : stage'[d] = stage[d]
        /\ UNCHANGED <<mutex, scheduled>>
    BY <1>2, <1>4 DEF Start, Holds, PCs
  <2>2. QED
    BY <1>1, <2>1, OtherStep
<1>5. ASSUME NEW c \in Coros, EnterFree(c)
      PROVE  IInv'
  BY <1>1, <1>5, EnterFreeStep
<1>6. ASSUME NEW c \in Coros, EnterBusy(c)
      PROVE  IInv'
  BY <1>1, <1>6, EnterBusyStep
<1>7. ASSUME NEW c \in Coros, Sync(c) \/ Suspend(c) \/ Wake(c)
      PROVE  IInv'
  <2>1. PICK x \in {"busy", "leave"} :
           /\ pc[c] # "wait" /\ Holds(c) /\ stage' = stage
           /\ pc' = [pc EXCEPT ![c] = x]
           /\ UNCHANGED <<mutex, scheduled>>
    BY <1>7 DEF Sync, Suspend, Wake, Holds
  <2>2. x \in PCs \ {"wait"}
    BY DEF PCs
  <2>3. QED
    BY <1>1, <2>1, <2>2, OtherStep
<1>8. ASSUME NEW c \in Coros, Release(c)
      PROVE  IInv'
  <2>1. PICK x \in {"idle", "enter"} : pc' = [pc EXCEPT ![c] = x]
    BY <1>8 DEF Release
  <2>2. /\ Holds(c)
        /\ \A d \in Coros \ {c} : stage'[d] = stage[d]
        /\ mutex' = [mutex EXCEPT ![stage[c]] = Unlock(@)]
        /\ scheduled' = scheduled \o Woken(mutex[stage[c]])
    BY <1>2, <1>8 DEF Release, Holds
  <2>3. QED
    BY <1>1, <2>1, <2>2, UnlockStep
<1>9. ASSUME NEW c \in Coros, CancelWaiting(c)
      PROVE  IInv'
  BY <1>1, <1>9, CancelWaitingStep
<1>10. ASSUME NEW c \in Coros, CancelHolding(c)
       PROVE  IInv'
  <2>1. /\ Holds(c) /\ stage' = stage
        /\ pc' = [pc EXCEPT ![c] = "idle"]
        /\ mutex' = [mutex EXCEPT ![stage[c]] = Unlock(@)]
        /\ scheduled' = scheduled \o Woken(mutex[stage[c]])
    BY <1>10 DEF CancelHolding, Holds
  <2>2. QED
    BY <1>1, <2>1, UnlockStep
<1>11. CASE UNCHANGED vars
  <2>1. UNCHANGED <<pc, stage, mutex, scheduled>>
    BY <1>11 DEF vars
  <2>2. QED
    BY <1>1, <2>1
    DEF IInv, WaitersWait, ScheduledOnce, HandedOver, NoHolderAt, HeldIsLocked,
        MutualExclusion, Holds
<1>12. QED
  BY <1>3, <1>4, <1>5, <1>6, <1>7, <1>8, <1>9, <1>10, <1>11 DEF Next, Run, Cancel

LEMMA Invariance == ~CancelScheduled /\ Safe => []IInv
<1>1. CASE CancelScheduled
  BY <1>1
<1>2. CASE ~CancelScheduled
  <2>1. IInv /\ [Next]_vars => IInv'
    BY <1>2, InvNext
  <2>2. QED
    BY <2>1, InvInit, PTL DEF Safe
<1>3. QED
  BY <1>1, <1>2

\* "Only one coroutine at the time may enter this region", through every hand-over
\* and every cancellation but the one of a scheduled coroutine.
THEOREM Exclusion == ~CancelScheduled /\ Safe => []MutualExclusion
<1>1. IInv => MutualExclusion
  BY DEF IInv
<1>2. QED
  BY <1>1, Invariance, PTL

-----------------------------------------------------------------------------
(* The order its users were promised: nobody overtakes, no mutex stays     *)
(* locked for nobody.                                                      *)

\* arrival lists the coroutines that exist, each once.
ArrivalExact ==
  /\ Distinct(arrival)
  /\ \A c \in Coros : pc[c] # "idle" <=> Contains(arrival, c)

\* Only the coroutine that runs is between two mutexes.
OneEnters == \A c \in Coros : pc[c] = "enter" => running = c

\* Whoever waits is in the list of the mutex it waits for.
WaitersListed ==
  \A c \in Coros : pc[c] = "wait" => Contains(mutex[stage[c]].waiters, c)

\* Nobody waits for a mutex that could be taken.
QueueIsLocked == \A s \in StageSet : Len(mutex[s].waiters) > 0 => mutex[s].locked

\* Those who wait for a mutex do so in the order they started.
WaitersInOrder ==
  \A s \in StageSet : \A c, d \in Coros :
    Precedes(mutex[s].waiters, c, d) => Precedes(arrival, c, d)

\* Of two coroutines the one that started later is at an earlier mutex, or at the
\* same one, and then the earlier one has already queued for it or taken it.
ArrivalInOrder ==
  \A c, d \in Coros :
    Precedes(arrival, c, d) =>
      \/ stage[d] < stage[c]
      \/ stage[d] = stage[c] /\ ~Holds(d) /\ pc[c] # "enter"

\* The inductive invariant, on top of IInv.
OrderInv ==
  /\ ArrivalExact
  /\ OneEnters
  /\ WaitersListed
  /\ QueueIsLocked
  /\ LockHasKeeper
  /\ WaitersInOrder
  /\ ArrivalInOrder

-----------------------------------------------------------------------------
(* Steps.                                                                  *)

\* The shapes the proofs of the steps use.
LEMMA Shapes ==
  ASSUME TypeOK
  PROVE  /\ mutex \in [StageSet -> MutexOver(Coros)] /\ pc \in [Coros -> PCs]
         /\ stage \in [Coros -> StageSet] /\ scheduled \in Seq(Coros)
         /\ arrival \in Seq(Coros)
         /\ \A s \in StageSet : mutex[s].waiters \in Seq(Coros)
         /\ \A c \in Coros : stage[c] \in Int
BY DEF TypeOK, MutexOver, StageSet

\* Whoever is in a mutex's list waits for that mutex.
LEMMA ListedWaits ==
  ASSUME IInv, NEW s \in StageSet
  PROVE  /\ Distinct(mutex[s].waiters)
         /\ \A c : Contains(mutex[s].waiters, c) =>
                     c \in Coros /\ pc[c] = "wait" /\ stage[c] = s
<1> DEFINE w == mutex[s].waiters
<1>1. w \in Seq(Coros) /\ DOMAIN w = 1 .. Len(w)
  BY Shapes DEF IInv
<1>2. \A i \in 1 .. Len(w) : w[i] \in Coros /\ pc[w[i]] = "wait" /\ stage[w[i]] = s
  BY <1>1 DEF IInv, WaitersWait
<1>3. Distinct(w)
  BY DEF IInv, WaitersWait, Distinct
<1>4. \A c : Contains(w, c) => c \in Coros /\ pc[c] = "wait" /\ stage[c] = s
  BY <1>1, <1>2 DEF Contains
<1>5. QED
  BY <1>3, <1>4

\* A coroutine ends: the others stay in the order they started.
LEMMA GoneStep ==
  ASSUME IInv, OrderInv, NEW c \in Coros,
         pc' = [pc EXCEPT ![c] = "idle"], stage' = stage,
         arrival' = Unlink(arrival, c)
  PROVE  /\ ArrivalExact' /\ ArrivalInOrder'
         /\ \A x, y \in Coros \ {c} : Precedes(arrival, x, y) => Precedes(arrival', x, y)
<1>1. pc \in [Coros -> PCs] /\ arrival \in Seq(Coros)
  BY Shapes DEF IInv
<1>2. /\ Distinct(arrival')
      /\ \A x : Contains(arrival', x) <=> Contains(arrival, x) /\ x # c
      /\ \A x, y : Precedes(arrival', x, y) <=> Precedes(arrival, x, y) /\ x # c /\ y # c
  BY <1>1, UnlinkOrder DEF OrderInv, ArrivalExact
<1>3. \A d \in Coros \ {c} : pc'[d] = pc[d] /\ (Holds(d)' <=> Holds(d))
  BY <1>1 DEF Holds
<1>4. ArrivalExact'
  BY <1>1, <1>2, <1>3 DEF OrderInv, ArrivalExact
<1>5. ArrivalInOrder'
  BY <1>2, <1>3 DEF OrderInv, ArrivalInOrder
<1>6. QED
  BY <1>2, <1>4, <1>5

\* unlock(), by a lock's destructor or a cancellation: the lists stay, and a mutex that
\* stays locked is kept by the waiter that is scheduled.
LEMMA UnlockKeeps ==
  ASSUME IInv, OrderInv,
         NEW c \in Coros, Holds(c),
         NEW x \in {"idle", "enter"},
         pc' = [pc EXCEPT ![c] = x],
         \A d \in Coros \ {c} : stage'[d] = stage[d],
         mutex' = [mutex EXCEPT ![stage[c]] = Unlock(@)],
         scheduled' = scheduled \o Woken(mutex[stage[c]])
  PROVE  /\ WaitersListed' /\ QueueIsLocked' /\ LockHasKeeper'
         /\ \A t \in StageSet : mutex'[t].waiters = mutex[t].waiters
<1> DEFINE s == stage[c]
           w == mutex[s].waiters
<1>1. /\ s \in StageSet /\ mutex \in [StageSet -> MutexOver(Coros)] /\ w \in Seq(Coros)
      /\ pc \in [Coros -> PCs] /\ stage \in [Coros -> StageSet]
      /\ scheduled \in Seq(Coros)
  BY Shapes DEF IInv
<1>2. /\ \A t \in StageSet : mutex'[t].waiters = mutex[t].waiters
      /\ \A t \in StageSet \ {s} : mutex'[t] = mutex[t]
      /\ mutex'[s].locked = (w # <<>>)
  BY <1>1 DEF Unlock, MutexOver
<1>3. /\ pc'[c] # "wait"
      /\ \A d \in Coros \ {c} :
           pc'[d] = pc[d] /\ (Holds(d)' <=> Holds(d)) /\ stage'[d] = stage[d]
  BY <1>1 DEF Holds
<1>4. WaitersListed'
  BY <1>1, <1>2, <1>3 DEF OrderInv, WaitersListed
<1>5. QueueIsLocked'
  <2>1. Len(w) > 0 => w # <<>>
    BY <1>1
  <2>2. QED
    BY <1>2, <2>1 DEF OrderInv, QueueIsLocked
<1>6. /\ \A i \in 1 .. Len(scheduled) : scheduled'[i] = scheduled[i]
      /\ w = <<>> => Len(scheduled') = Len(scheduled)
      /\ w # <<>> => /\ Len(scheduled') = Len(scheduled) + 1
                     /\ scheduled'[Len(scheduled) + 1] = w[1]
                     /\ Len(w) > 0
  BY <1>1, WokenAt
<1>7. Len(scheduled) \in Nat
  BY <1>1
<1>8. Len(scheduled') \in Nat /\ Len(scheduled') >= Len(scheduled)
  <2>1. CASE w = <<>>
    BY <1>6, <1>7, <2>1
  <2>2. CASE w # <<>>
    BY <1>6, <1>7, <2>2
  <2>3. QED
    BY <2>1, <2>2
<1> HIDE DEF w
<1>9. \A e \in Coros : IsScheduled(e) => IsScheduled(e)'
  <2>1. ASSUME NEW i \in 1 .. Len(scheduled)
        PROVE  i \in 1 .. Len(scheduled') /\ scheduled'[i] = scheduled[i]
    BY <1>6, <1>7, <1>8
  <2>2. QED
    BY <2>1, Zenon DEF IsScheduled, Contains
<1>10. LockHasKeeper'
  <2> SUFFICES ASSUME NEW t \in StageSet, mutex'[t].locked
               PROVE  \E e \in Coros :
                        stage'[e] = t /\ (Holds(e)' \/ (pc'[e] = "wait" /\ IsScheduled(e)'))
    BY DEF LockHasKeeper
  <2>1. CASE t = s
    <3>0. w # <<>> /\ Len(w) > 0
      BY <1>2, <1>6, <2>1
    <3>1. PICK h \in Coros : h = w[1] /\ Contains(w, h)
      BY <1>1, <3>0 DEF Contains
    <3>2. pc[h] = "wait" /\ stage[h] = s
      BY <1>1, <3>1, ListedWaits DEF w
    <3>3. h # c
      BY <3>2 DEF Holds
    <3>4. IsScheduled(h)'
      <4>1. /\ Len(scheduled) + 1 \in 1 .. Len(scheduled')
            /\ scheduled'[Len(scheduled) + 1] = h
        BY <1>6, <1>7, <3>0, <3>1
      <4>2. QED
        BY <4>1, Zenon DEF IsScheduled, Contains
    <3>5. QED
      BY <1>3, <2>1, <3>1, <3>2, <3>3, <3>4
  <2>2. CASE t # s
    <3>1. PICK e \in Coros :
            stage[e] = t /\ (Holds(e) \/ (pc[e] = "wait" /\ IsScheduled(e)))
      BY <1>2, <2>2 DEF OrderInv, LockHasKeeper
    <3>2. QED
      BY <1>3, <1>9, <2>2, <3>1
  <2>3. QED
    BY <2>1, <2>2
<1>11. QED
  BY <1>2, <1>4, <1>5, <1>10

\* The holder passes the end of its block and goes on to the next mutex: everybody who
\* started before it is there already or further.
LEMMA PassOnStep ==
  ASSUME IInv, OrderInv, NEW c \in Coros, Release(c), ~AtLastStage(c)
  PROVE  OrderInv'
<1>1. /\ pc \in [Coros -> PCs] /\ stage \in [Coros -> StageSet]
      /\ \A d \in Coros : stage[d] \in Int
  BY Shapes DEF IInv
<1>2. /\ running = c /\ pc[c] = "leave" /\ Holds(c)
      /\ pc' = [pc EXCEPT ![c] = "enter"]
      /\ stage' = [stage EXCEPT ![c] = @ + 1]
      /\ running' = running /\ arrival' = arrival
      /\ mutex' = [mutex EXCEPT ![stage[c]] = Unlock(@)]
      /\ scheduled' = scheduled \o Woken(mutex[stage[c]])
  BY DEF Release, Holds
<1>3. \A d \in Coros \ {c} :
        stage'[d] = stage[d] /\ pc'[d] = pc[d] /\ (Holds(d)' <=> Holds(d))
  BY <1>1, <1>2 DEF Holds
<1>4. /\ WaitersListed' /\ QueueIsLocked' /\ LockHasKeeper'
      /\ \A t \in StageSet : mutex'[t].waiters = mutex[t].waiters
  BY <1>2, <1>3, UnlockKeeps
<1>5. ArrivalExact' /\ OneEnters'
  BY <1>1, <1>2, <1>3 DEF OrderInv, ArrivalExact, OneEnters
<1>6. WaitersInOrder'
  BY <1>2, <1>4 DEF OrderInv, WaitersInOrder
<1>7. ArrivalInOrder'
  <2> SUFFICES ASSUME NEW d \in Coros, NEW e \in Coros, Precedes(arrival, d, e)
               PROVE  \/ stage'[e] < stage'[d]
                      \/ stage'[e] = stage'[d] /\ ~Holds(e)' /\ pc'[d] # "enter"
    BY <1>2 DEF ArrivalInOrder
  <2>1. \/ stage[e] < stage[d]
        \/ stage[e] = stage[d] /\ ~Holds(e) /\ pc[d] # "enter"
    BY DEF OrderInv, ArrivalInOrder
  <2>2. d # e
    BY Shapes, PrecedesOrder DEF IInv, OrderInv, ArrivalExact
  <2>3. CASE d = c
    BY <1>1, <1>2, <1>3, <2>1, <2>2, <2>3
  <2>4. CASE e = c
    <3>1. stage[c] < stage[d]
      BY <1>2, <2>1, <2>4
    <3>2. pc[d] # "enter"
      BY <1>2, <2>2, <2>4 DEF OrderInv, OneEnters
    <3>3. stage'[c] = stage[c] + 1 /\ ~Holds(c)'
      BY <1>1, <1>2 DEF Holds
    <3>4. QED
      BY <1>1, <1>3, <2>2, <2>4, <3>1, <3>2, <3>3
  <2>5. CASE d # c /\ e # c
    BY <1>3, <2>1, <2>5
  <2>6. QED
    BY <2>3, <2>4, <2>5
<1>8. QED
  BY <1>4, <1>5, <1>6, <1>7 DEF OrderInv

\* The holder leaves the last mutex, or is destroyed with the lock held.
LEMMA HolderGoneStep ==
  ASSUME IInv, OrderInv, NEW c \in Coros, Holds(c),
         pc' = [pc EXCEPT ![c] = "idle"], stage' = stage,
         mutex' = [mutex EXCEPT ![stage[c]] = Unlock(@)],
         scheduled' = scheduled \o Woken(mutex[stage[c]]),
         arrival' = Unlink(arrival, c),
         running' = running \/ running = c
  PROVE  OrderInv'
<1>1. pc \in [Coros -> PCs]
  BY Shapes DEF IInv
<1>2. /\ ArrivalExact' /\ ArrivalInOrder'
      /\ \A x, y \in Coros \ {c} : Precedes(arrival, x, y) => Precedes(arrival', x, y)
  BY GoneStep
<1>3. /\ WaitersListed' /\ QueueIsLocked' /\ LockHasKeeper'
      /\ \A t \in StageSet : mutex'[t].waiters = mutex[t].waiters
  BY UnlockKeeps
<1>4. OneEnters'
  BY <1>1 DEF OrderInv, OneEnters
<1>5. WaitersInOrder'
  <2> SUFFICES ASSUME NEW t \in StageSet, NEW x \in Coros, NEW y \in Coros,
                      Precedes(mutex[t].waiters, x, y)
               PROVE  Precedes(arrival', x, y)
    BY <1>3 DEF WaitersInOrder
  <2>1. Contains(mutex[t].waiters, x) /\ Contains(mutex[t].waiters, y)
    BY Shapes, ListedWaits, PrecedesOrder DEF IInv
  <2>2. x # c /\ y # c
    BY <2>1, ListedWaits DEF Holds
  <2>3. QED
    BY <1>2, <2>2 DEF OrderInv, WaitersInOrder
<1>6. QED
  BY <1>2, <1>3, <1>4, <1>5 DEF OrderInv

\* A waiter leaves its list, with the lock or destroyed: the other waiters stay listed,
\* in their order.
LEMMA DequeueStep ==
  ASSUME IInv, OrderInv, NEW c \in Coros, pc[c] = "wait",
         NEW x \in PCs \ {"wait"}, pc' = [pc EXCEPT ![c] = x], stage' = stage,
         \A t \in StageSet :
           mutex'[t].waiters = IF t = stage[c] THEN Unlink(mutex[t].waiters, c)
                                               ELSE mutex[t].waiters,
         \A d, e \in Coros \ {c} : Precedes(arrival, d, e) => Precedes(arrival', d, e)
  PROVE  /\ WaitersListed' /\ WaitersInOrder'
         /\ \A t \in StageSet :
              Len(mutex'[t].waiters) > 0 => Len(mutex[t].waiters) > 0
<1>1. /\ pc \in [Coros -> PCs] /\ stage \in [Coros -> StageSet]
      /\ \A t \in StageSet : mutex[t].waiters \in Seq(Coros)
  BY Shapes DEF IInv
<1>2. ASSUME NEW t \in StageSet
      PROVE  /\ \A d : Contains(mutex'[t].waiters, d) <=>
                         Contains(mutex[t].waiters, d) /\ d # c
             /\ \A d, e : Precedes(mutex'[t].waiters, d, e) =>
                            Precedes(mutex[t].waiters, d, e) /\ d # c /\ e # c
             /\ Len(mutex'[t].waiters) > 0 => Len(mutex[t].waiters) > 0
  <2> DEFINE w == mutex[t].waiters
             u == mutex'[t].waiters
  <2>1. w \in Seq(Coros) /\ Distinct(w)
    BY <1>1, ListedWaits
  <2>2. CASE t = stage[c]
    <3>1. u = Unlink(w, c)
      BY <2>2
    <3>2. /\ \A d : Contains(u, d) <=> Contains(w, d) /\ d # c
          /\ \A d, e : Precedes(u, d, e) <=> Precedes(w, d, e) /\ d # c /\ e # c
      BY <2>1, <3>1, UnlinkOrder
    <3>3. Len(u) > 0 => Len(w) > 0
      <4>1. u \in Seq(Coros)
        BY <2>1, <3>1, UnlinkType
      <4> HIDE DEF u, w
      <4>2. Len(u) > 0 => Contains(u, u[1])
        BY <4>1 DEF Contains
      <4>3. \A d : Contains(w, d) => Len(w) > 0
        BY <2>1 DEF Contains
      <4>4. QED
        BY <3>2, <4>2, <4>3
    <3>4. QED
      BY <3>2, <3>3
  <2>3. CASE t # stage[c]
    <3>1. u = w
      BY <2>3
    <3>2. ~Contains(w, c)
      BY <2>3, ListedWaits
    <3>3. \A d, e : Precedes(w, d, e) => Contains(w, d) /\ Contains(w, e)
      BY <2>1, PrecedesOrder
    <3>4. QED
      BY <3>1, <3>2, <3>3
  <2>4. QED
    BY <2>2, <2>3
<1>3. WaitersListed'
  BY <1>1, <1>2 DEF OrderInv, WaitersListed
<1>4. WaitersInOrder'
  BY <1>2 DEF OrderInv, WaitersInOrder
<1>5. QED
  BY <1>2, <1>3, <1>4

\* The run loop resumes a waiter.  It is the first in its list, so whoever started before
\* it is past its mutex.
LEMMA ResumeKeepsOrder == ASSUME IInv, OrderInv, Resume PROVE OrderInv'
<1>1. /\ mutex \in [StageSet -> MutexOver(Coros)] /\ pc \in [Coros -> PCs]
      /\ stage \in [Coros -> StageSet] /\ scheduled \in Seq(Coros)
      /\ arrival \in Seq(Coros)
  BY Shapes DEF IInv
<1>2. PICK c \in Coros : c = scheduled[1] /\ Len(scheduled) > 0
  BY <1>1 DEF Resume
<1> DEFINE s == stage[c]
<1>3. HandedOver(c) /\ s \in StageSet
  BY <1>1, <1>2 DEF IInv, ScheduledOnce
<1>4. /\ running = Nil /\ running' = c /\ pc[c] = "wait"
      /\ mutex' = [mutex EXCEPT ![s] = Take(@, c)]
      /\ pc' = [pc EXCEPT ![c] = "hold"]
      /\ scheduled' = Tail(scheduled)
      /\ stage' = stage /\ arrival' = arrival
  BY <1>1, <1>2 DEF Resume
<1>5. \A t \in StageSet :
        /\ mutex'[t].waiters = IF t = s THEN Unlink(mutex[t].waiters, c)
                                        ELSE mutex[t].waiters
        /\ mutex'[t].locked = (t = s \/ mutex[t].locked)
  BY <1>1, <1>3, <1>4 DEF Take, MutexOver
<1>6. /\ Holds(c)'
      /\ \A d \in Coros \ {c} : pc'[d] = pc[d] /\ (Holds(d)' <=> Holds(d))
  BY <1>1, <1>4 DEF Holds
<1>7. \A d \in Coros : pc[d] # "enter"
  BY <1>4, CoAssumption DEF OrderInv, OneEnters
<1>8. ArrivalExact' /\ OneEnters'
  <2>1. ArrivalExact'
    BY <1>1, <1>4, <1>6 DEF OrderInv, ArrivalExact
  <2>2. \A d \in Coros : pc'[d] # "enter"
    BY <1>1, <1>4, <1>7
  <2>3. QED
    BY <2>1, <2>2 DEF OneEnters
<1>9. /\ WaitersListed' /\ WaitersInOrder'
      /\ \A t \in StageSet : Len(mutex'[t].waiters) > 0 => Len(mutex[t].waiters) > 0
  BY <1>4, <1>5, DequeueStep DEF PCs
<1>10. QueueIsLocked'
  BY <1>5, <1>9 DEF OrderInv, QueueIsLocked
<1>11. LockHasKeeper'
  <2> SUFFICES ASSUME NEW t \in StageSet, mutex'[t].locked
               PROVE  \E e \in Coros :
                        stage'[e] = t /\ (Holds(e)' \/ (pc'[e] = "wait" /\ IsScheduled(e)'))
    BY DEF LockHasKeeper
  <2>1. CASE t = s
    BY <1>4, <1>6, <2>1
  <2>2. CASE t # s
    <3>1. PICK e \in Coros :
            stage[e] = t /\ (Holds(e) \/ (pc[e] = "wait" /\ IsScheduled(e)))
      BY <1>5, <2>2 DEF OrderInv, LockHasKeeper
    <3>2. e # c
      BY <2>2, <3>1
    <3>3. IsScheduled(e) => IsScheduled(e)'
      <4>1. ASSUME NEW i \in 1 .. Len(scheduled), scheduled[i] = e
            PROVE  i - 1 \in 1 .. Len(scheduled') /\ scheduled'[i - 1] = e
        <5>1. i # 1
          BY <1>2, <3>2, <4>1
        <5>2. Len(scheduled') = Len(scheduled) - 1
          BY <1>1, <1>2, <1>4
        <5>3. i - 1 \in 1 .. Len(scheduled) - 1 /\ i - 1 + 1 = i
          BY <1>1, <5>1
        <5>4. QED
          BY <1>1, <1>2, <1>4, <4>1, <5>2, <5>3
      <4>2. QED
        BY <4>1 DEF IsScheduled, Contains
    <3>4. QED
      BY <1>4, <1>6, <3>1, <3>2, <3>3
  <2>3. QED
    BY <2>1, <2>2
<1>12. ArrivalInOrder'
  <2> SUFFICES ASSUME NEW d \in Coros, NEW e \in Coros, Precedes(arrival, d, e)
               PROVE  \/ stage[e] < stage[d]
                      \/ stage[e] = stage[d] /\ ~Holds(e)' /\ pc'[d] # "enter"
    BY <1>4 DEF ArrivalInOrder
  <2>1. \/ stage[e] < stage[d]
        \/ stage[e] = stage[d] /\ ~Holds(e) /\ pc[d] # "enter"
    BY DEF OrderInv, ArrivalInOrder
  <2>2. d # e /\ Contains(arrival, d)
    BY <1>1, PrecedesOrder DEF OrderInv, ArrivalExact
  <2>3. pc'[d] # "enter"
    BY <1>1, <1>4, <1>7
  <2>4. CASE e # c
    BY <1>6, <2>1, <2>3, <2>4
  <2>5. CASE e = c
    <3>1. ASSUME stage[d] = s PROVE FALSE
      <4> DEFINE w == mutex[s].waiters
      <4>1. ~Holds(d) /\ pc[d] # "idle" /\ pc[d] # "enter"
        BY <1>3, <1>7, <2>2, <3>1 DEF HandedOver, NoHolderAt, OrderInv, ArrivalExact
      <4>2. pc[d] = "wait"
        BY <1>1, <4>1 DEF PCs, Holds
      <4>3. Contains(w, d)
        BY <3>1, <4>2 DEF OrderInv, WaitersListed
      <4>4. w \in Seq(Coros) /\ Distinct(w) /\ Len(w) > 0 /\ w[1] = c
        BY <1>3, Shapes, ListedWaits DEF IInv, HandedOver
      <4>5. Contains(w, c)
        BY <1>3, <1>4 DEF OrderInv, WaitersListed
      <4> HIDE DEF w
      <4>6. ~Precedes(w, d, c)
        BY <4>4, FirstPrecedes
      <4>7. Precedes(w, c, d)
        BY <2>2, <2>5, <4>3, <4>4, <4>5, <4>6, PrecedesOrder
      <4>8. Precedes(arrival, c, d)
        BY <1>3, <4>7 DEF w, OrderInv, WaitersInOrder
      <4>9. QED
        BY <1>1, <2>5, <4>8, PrecedesOrder DEF OrderInv, ArrivalExact
    <3>2. QED
      BY <2>1, <2>5, <3>1
  <2>6. QED
    BY <2>4, <2>5
<1>13. QED
  BY <1>8, <1>9, <1>10, <1>11, <1>12 DEF OrderInv

\* A coroutine that waits, and was not scheduled, is destroyed: it was nobody's keeper.
LEMMA CancelKeepsOrder ==
  ASSUME IInv, OrderInv, ~CancelScheduled, NEW c \in Coros, CancelWaiting(c)
  PROVE  OrderInv'
<1> DEFINE s == stage[c]
<1>1. /\ mutex \in [StageSet -> MutexOver(Coros)] /\ pc \in [Coros -> PCs]
      /\ stage \in [Coros -> StageSet] /\ s \in StageSet
  BY Shapes DEF IInv
<1>2. /\ pc[c] = "wait" /\ ~IsScheduled(c)
      /\ pc' = [pc EXCEPT ![c] = "idle"]
      /\ mutex' = [mutex EXCEPT ![s] = Forget(@, c)]
      /\ arrival' = Unlink(arrival, c)
      /\ UNCHANGED <<stage, scheduled, running>>
  BY DEF CancelWaiting
<1>3. \A t \in StageSet :
        /\ mutex'[t].waiters = IF t = s THEN Unlink(mutex[t].waiters, c)
                                        ELSE mutex[t].waiters
        /\ mutex'[t].locked = mutex[t].locked
  BY <1>1, <1>2 DEF Forget, MutexOver
<1>4. \A d \in Coros \ {c} : pc'[d] = pc[d] /\ (Holds(d)' <=> Holds(d))
  BY <1>1, <1>2 DEF Holds
<1>5. /\ ArrivalExact' /\ ArrivalInOrder'
      /\ \A x, y \in Coros \ {c} : Precedes(arrival, x, y) => Precedes(arrival', x, y)
  BY <1>2, GoneStep
<1>6. /\ WaitersListed' /\ WaitersInOrder'
      /\ \A t \in StageSet : Len(mutex'[t].waiters) > 0 => Len(mutex[t].waiters) > 0
  BY <1>2, <1>3, <1>5, DequeueStep DEF PCs
<1>7. OneEnters'
  BY <1>1, <1>2, <1>4 DEF OrderInv, OneEnters
<1>8. QueueIsLocked'
  BY <1>3, <1>6 DEF OrderInv, QueueIsLocked
<1>9. LockHasKeeper'
  <2> SUFFICES ASSUME NEW t \in StageSet, mutex'[t].locked
               PROVE  \E e \in Coros :
                        stage'[e] = t /\ (Holds(e)' \/ (pc'[e] = "wait" /\ IsScheduled(e)'))
    BY DEF LockHasKeeper
  <2>1. PICK e \in Coros :
          stage[e] = t /\ (Holds(e) \/ (pc[e] = "wait" /\ IsScheduled(e)))
    BY <1>3 DEF OrderInv, LockHasKeeper
  <2>2. e # c /\ IsScheduled(e)' = IsScheduled(e)
    BY <1>2, <2>1 DEF Holds, IsScheduled
  <2>3. QED
    BY <1>2, <1>4, <2>1, <2>2
<1>10. QED
  BY <1>5, <1>6, <1>7, <1>8, <1>9 DEF OrderInv

\* co_await on a free mutex: whoever started before is past it, for otherwise it would
\* hold it, or wait for it and have it locked.
LEMMA EnterFreeKeepsOrder ==
  ASSUME IInv, OrderInv, NEW c \in Coros, EnterFree(c)
  PROVE  OrderInv'
<1> DEFINE s == stage[c]
<1>1. /\ mutex \in [StageSet -> MutexOver(Coros)] /\ pc \in [Coros -> PCs]
      /\ stage \in [Coros -> StageSet] /\ s \in StageSet /\ arrival \in Seq(Coros)
      /\ \A t \in StageSet : mutex[t].waiters \in Seq(Coros)
  BY Shapes DEF IInv
<1>2. /\ running = c /\ pc[c] = "enter" /\ ~mutex[s].locked
      /\ pc' = [pc EXCEPT ![c] = "hold"]
      /\ mutex' = [mutex EXCEPT ![s] = Take(@, c)]
      /\ UNCHANGED <<stage, scheduled, running, arrival>>
  BY DEF EnterFree, CanTake
<1>3. /\ \A t \in StageSet :
           /\ mutex'[t].waiters = mutex[t].waiters
           /\ mutex'[t].locked = (t = s \/ mutex[t].locked)
  <2>1. ~Contains(mutex[s].waiters, c)
    BY <1>1, <1>2, ListedWaits
  <2>2. QED
    BY <1>1, <1>2, <2>1, UnlinkAbsent DEF Take, MutexOver
<1>4. /\ Holds(c)' /\ pc'[c] = "hold"
      /\ \A d \in Coros \ {c} : pc'[d] = pc[d] /\ (Holds(d)' <=> Holds(d))
  BY <1>1, <1>2 DEF Holds
<1>5. ArrivalExact' /\ OneEnters' /\ WaitersListed' /\ WaitersInOrder'
  BY <1>1, <1>2, <1>3, <1>4
  DEF OrderInv, ArrivalExact, OneEnters, WaitersListed, WaitersInOrder
<1>6. QueueIsLocked'
  BY <1>3 DEF OrderInv, QueueIsLocked
<1>7. LockHasKeeper'
  <2> SUFFICES ASSUME NEW t \in StageSet, mutex'[t].locked
               PROVE  \E e \in Coros :
                        stage'[e] = t /\ (Holds(e)' \/ (pc'[e] = "wait" /\ IsScheduled(e)'))
    BY DEF LockHasKeeper
  <2>1. CASE t = s
    BY <1>2, <1>4, <2>1
  <2>2. CASE t # s
    <3>1. PICK e \in Coros :
            stage[e] = t /\ (Holds(e) \/ (pc[e] = "wait" /\ IsScheduled(e)))
      BY <1>3, <2>2 DEF OrderInv, LockHasKeeper
    <3>2. IsScheduled(e)' = IsScheduled(e)
      BY <1>2 DEF IsScheduled
    <3>3. QED
      BY <1>2, <1>4, <2>2, <3>1, <3>2
  <2>3. QED
    BY <2>1, <2>2
<1>8. ArrivalInOrder'
  <2> SUFFICES ASSUME NEW d \in Coros, NEW e \in Coros, Precedes(arrival, d, e)
               PROVE  \/ stage[e] < stage[d]
                      \/ stage[e] = stage[d] /\ ~Holds(e)' /\ pc'[d] # "enter"
    BY <1>2 DEF ArrivalInOrder
  <2>1. \/ stage[e] < stage[d]
        \/ stage[e] = stage[d] /\ ~Holds(e) /\ pc[d] # "enter"
    BY DEF OrderInv, ArrivalInOrder
  <2>2. d # e /\ Contains(arrival, d)
    BY <1>1, PrecedesOrder DEF OrderInv, ArrivalExact
  <2>3. CASE e # c
    BY <1>4, <2>1, <2>3
  <2>4. CASE e = c
    <3>1. ASSUME stage[d] = s PROVE FALSE
      <4>1. pc[d] # "idle" /\ pc[d] # "enter"
        BY <1>2, <2>2, <2>4 DEF OrderInv, ArrivalExact, OneEnters
      <4>2. ~Holds(d)
        BY <1>2, <3>1 DEF IInv, HeldIsLocked
      <4>3. pc[d] = "wait"
        BY <1>1, <4>1, <4>2 DEF PCs, Holds
      <4>4. Contains(mutex[s].waiters, d)
        BY <3>1, <4>3 DEF OrderInv, WaitersListed
      <4>5. Len(mutex[s].waiters) > 0
        BY <1>1, <4>4 DEF Contains
      <4>6. QED
        BY <1>1, <1>2, <4>5 DEF OrderInv, QueueIsLocked
    <3>2. QED
      BY <2>1, <2>4, <3>1
  <2>5. QED
    BY <2>3, <2>4
<1>9. QED
  BY <1>5, <1>6, <1>7, <1>8 DEF OrderInv

\* co_await on a busy mutex: whoever waits there already started earlier.
LEMMA EnterBusyKeepsOrder ==
  ASSUME IInv, OrderInv, NEW c \in Coros, EnterBusy(c)
  PROVE  OrderInv'
<1> DEFINE s == stage[c]
<1>1. /\ mutex \in [StageSet -> MutexOver(Coros)] /\ pc \in [Coros -> PCs]
      /\ stage \in [Coros -> StageSet] /\ s \in StageSet /\ arrival \in Seq(Coros)
      /\ \A t \in StageSet : mutex[t].waiters \in Seq(Coros)
      /\ \A d \in Coros : stage[d] \in Int
  BY Shapes DEF IInv
<1>2. /\ running = c /\ pc[c] = "enter" /\ mutex[s].locked
      /\ pc' = [pc EXCEPT ![c] = "wait"] /\ running' = Nil
      /\ mutex' = [mutex EXCEPT ![s] = Enqueue(@, c)]
      /\ UNCHANGED <<stage, scheduled, arrival>>
  BY DEF EnterBusy, CanTake
<1>3. \A t \in StageSet :
        /\ mutex'[t].waiters = IF t = s THEN Append(mutex[t].waiters, c)
                                        ELSE mutex[t].waiters
        /\ mutex'[t].locked = mutex[t].locked
  BY <1>1, <1>2 DEF Enqueue, MutexOver
<1>4. /\ ~Holds(c)' /\ pc'[c] = "wait"
      /\ \A d \in Coros \ {c} : pc'[d] = pc[d] /\ (Holds(d)' <=> Holds(d))
  BY <1>1, <1>2 DEF Holds
<1>5. ASSUME NEW t \in StageSet
      PROVE  /\ \A d : Contains(mutex'[t].waiters, d) <=>
                         Contains(mutex[t].waiters, d) \/ (t = s /\ d = c)
             /\ \A d, e : Precedes(mutex'[t].waiters, d, e) =>
                            \/ Precedes(mutex[t].waiters, d, e)
                            \/ t = s /\ e = c /\ Contains(mutex[t].waiters, d)
  <2>1. Distinct(mutex[t].waiters) /\ ~Contains(mutex[t].waiters, c)
    BY <1>2, ListedWaits
  <2>2. CASE t = s
    BY <1>1, <1>3, <2>1, <2>2, AppendOrder
  <2>3. CASE t # s
    BY <1>3, <2>3
  <2>4. QED
    BY <2>2, <2>3
<1>6. ArrivalExact' /\ WaitersListed'
  BY <1>1, <1>2, <1>4, <1>5 DEF OrderInv, ArrivalExact, WaitersListed
<1>7. OneEnters'
  BY <1>1, <1>2, <1>4 DEF OrderInv, OneEnters
<1>8. QueueIsLocked'
  BY <1>2, <1>3 DEF OrderInv, QueueIsLocked
<1>9. LockHasKeeper'
  <2> SUFFICES ASSUME NEW t \in StageSet, mutex'[t].locked
               PROVE  \E e \in Coros :
                        stage'[e] = t /\ (Holds(e)' \/ (pc'[e] = "wait" /\ IsScheduled(e)'))
    BY DEF LockHasKeeper
  <2>1. PICK e \in Coros :
          stage[e] = t /\ (Holds(e) \/ (pc[e] = "wait" /\ IsScheduled(e)))
    BY <1>3 DEF OrderInv, LockHasKeeper
  <2>2. e # c /\ IsScheduled(e)' = IsScheduled(e)
    BY <1>2, <2>1 DEF Holds, IsScheduled
  <2>3. QED
    BY <1>2, <1>4, <2>1, <2>2
<1>10. ArrivalInOrder'
  <2> SUFFICES ASSUME NEW d \in Coros, NEW e \in Coros, Precedes(arrival, d, e)
               PROVE  \/ stage[e] < stage[d]
                      \/ stage[e] = stage[d] /\ ~Holds(e)' /\ pc'[d] # "enter"
    BY <1>2 DEF ArrivalInOrder
  <2>1. \/ stage[e] < stage[d]
        \/ stage[e] = stage[d] /\ ~Holds(e) /\ pc[d] # "enter"
    BY DEF OrderInv, ArrivalInOrder
  <2>2. QED
    BY <1>4, <2>1
<1>11. WaitersInOrder'
  <2> SUFFICES ASSUME NEW t \in StageSet, NEW d \in Coros, NEW e \in Coros,
                      Precedes(mutex'[t].waiters, d, e)
               PROVE  Precedes(arrival, d, e)
    BY <1>2 DEF WaitersInOrder
  <2>1. CASE Precedes(mutex[t].waiters, d, e)
    BY <2>1 DEF OrderInv, WaitersInOrder
  <2>2. CASE t = s /\ e = c /\ Contains(mutex[t].waiters, d)
    <3>1. pc[d] = "wait" /\ stage[d] = s
      BY <2>2, ListedWaits
    <3>2. d # c /\ Contains(arrival, d) /\ Contains(arrival, c)
      BY <1>2, <3>1 DEF OrderInv, ArrivalExact
    <3>3. ~Precedes(arrival, c, d)
      BY <1>1, <1>2, <3>1 DEF OrderInv, ArrivalInOrder
    <3>4. QED
      BY <1>1, <2>2, <3>2, <3>3, PrecedesOrder DEF OrderInv, ArrivalExact
  <2>3. QED
    BY <1>5, <2>1, <2>2
<1>12. QED
  BY <1>6, <1>7, <1>8, <1>9, <1>10, <1>11 DEF OrderInv

\* A coroutine starts, behind everybody else.
LEMMA StartKeepsOrder ==
  ASSUME IInv, OrderInv, NEW c \in Coros, Start(c)
  PROVE  OrderInv'
<1>1. /\ pc \in [Coros -> PCs] /\ stage \in [Coros -> StageSet]
      /\ arrival \in Seq(Coros) /\ \A d \in Coros : 1 <= stage[d] /\ stage[d] \in Int
  BY Shapes DEF IInv, StageSet
<1>2. /\ running = Nil /\ pc[c] = "idle" /\ running' = c
      /\ pc' = [pc EXCEPT ![c] = "enter"]
      /\ stage' = [stage EXCEPT ![c] = 1]
      /\ arrival' = Append(arrival, c)
      /\ UNCHANGED <<mutex, scheduled>>
  BY DEF Start
<1>3. /\ pc'[c] = "enter" /\ ~Holds(c)' /\ stage'[c] = 1
      /\ \A d \in Coros \ {c} :
           stage'[d] = stage[d] /\ pc'[d] = pc[d] /\ (Holds(d)' <=> Holds(d))
  BY <1>1, <1>2 DEF Holds
<1>4. ~Contains(arrival, c)
  BY <1>2 DEF OrderInv, ArrivalExact
<1>5. /\ Distinct(arrival')
      /\ \A x : Contains(arrival', x) <=> Contains(arrival, x) \/ x = c
      /\ \A x, y : Precedes(arrival', x, y) <=>
                     Precedes(arrival, x, y) \/ (y = c /\ Contains(arrival, x))
  BY <1>1, <1>2, <1>4, AppendOrder DEF OrderInv, ArrivalExact
<1>6. ArrivalExact'
  BY <1>1, <1>3, <1>5 DEF OrderInv, ArrivalExact
<1>7. OneEnters'
  BY <1>1, <1>2, <1>3, CoAssumption DEF OrderInv, OneEnters
<1>8. WaitersListed' /\ QueueIsLocked' /\ WaitersInOrder'
  BY <1>2, <1>3, <1>5
  DEF OrderInv, WaitersListed, QueueIsLocked, WaitersInOrder
<1>9. LockHasKeeper'
  <2> SUFFICES ASSUME NEW t \in StageSet, mutex[t].locked
               PROVE  \E e \in Coros :
                        stage'[e] = t /\ (Holds(e)' \/ (pc'[e] = "wait" /\ IsScheduled(e)'))
    BY <1>2 DEF LockHasKeeper
  <2>1. PICK e \in Coros :
          stage[e] = t /\ (Holds(e) \/ (pc[e] = "wait" /\ IsScheduled(e)))
    BY DEF OrderInv, LockHasKeeper
  <2>2. e # c /\ IsScheduled(e)' = IsScheduled(e)
    BY <1>2, <2>1 DEF Holds, IsScheduled
  <2>3. QED
    BY <1>3, <2>1, <2>2
<1>10. ArrivalInOrder'
  <2> SUFFICES ASSUME NEW d \in Coros, NEW e \in Coros, Precedes(arrival', d, e)
               PROVE  \/ stage'[e] < stage'[d]
                      \/ stage'[e] = stage'[d] /\ ~Holds(e)' /\ pc'[d] # "enter"
    BY DEF ArrivalInOrder
  <2>1. CASE e = c
    <3>1. Contains(arrival, d) /\ d # c
      BY <1>1, <1>4, <1>5, <2>1, PrecedesOrder DEF OrderInv, ArrivalExact
    <3>2. pc[d] # "enter"
      BY <1>2, CoAssumption DEF OrderInv, OneEnters
    <3>3. QED
      BY <1>1, <1>3, <2>1, <3>1, <3>2
  <2>2. CASE e # c
    <3>1. Precedes(arrival, d, e)
      BY <1>5, <2>2
    <3>2. d # c
      BY <1>1, <1>4, <3>1, PrecedesOrder DEF OrderInv, ArrivalExact
    <3>3. QED
      BY <1>3, <2>2, <3>1, <3>2 DEF OrderInv, ArrivalInOrder
  <2>3. QED
    BY <2>1, <2>2
<1>11. QED
  BY <1>6, <1>7, <1>8, <1>9, <1>10 DEF OrderInv

\* What a coroutine does while it holds the lock changes nothing here.
LEMMA HoldingKeepsOrder ==
  ASSUME IInv, OrderInv, NEW c \in Coros, Holds(c),
         NEW x \in {"busy", "leave"}, pc' = [pc EXCEPT ![c] = x],
         UNCHANGED <<stage, mutex, scheduled, arrival>>,
         running = c \/ running = Nil
  PROVE  OrderInv'
<1>1. pc \in [Coros -> PCs]
  BY Shapes DEF IInv
<1>2. /\ pc[c] \notin {"idle", "enter", "wait"} /\ pc'[c] \notin {"idle", "enter", "wait"}
      /\ Holds(c)'
      /\ \A d \in Coros \ {c} : pc'[d] = pc[d] /\ (Holds(d)' <=> Holds(d))
  BY <1>1 DEF Holds
<1>3. ArrivalExact' /\ WaitersListed' /\ QueueIsLocked' /\ WaitersInOrder'
  BY <1>2
  DEF OrderInv, ArrivalExact, WaitersListed, QueueIsLocked, WaitersInOrder
<1>4. OneEnters'
  BY <1>2, CoAssumption DEF OrderInv, OneEnters
<1>5. LockHasKeeper'
  BY <1>2 DEF OrderInv, LockHasKeeper, IsScheduled
<1>6. ArrivalInOrder'
  BY <1>2 DEF OrderInv, ArrivalInOrder
<1>7. QED
  BY <1>3, <1>4, <1>5, <1>6 DEF OrderInv

-----------------------------------------------------------------------------
(* The theorems.                                                           *)

LEMMA OrderInit == Init => OrderInv
<1> SUFFICES ASSUME Init PROVE OrderInv
  OBVIOUS
<1>1. /\ Len(arrival) = 0 /\ \A c : ~Contains(arrival, c)
      /\ \A c \in Coros : pc[c] = "idle"
      /\ \A s \in StageSet : Len(mutex[s].waiters) = 0 /\ ~mutex[s].locked
  BY DEF Init, Unlocked, Contains
<1>2. QED
  BY <1>1
  DEF OrderInv, ArrivalExact, OneEnters, WaitersListed, QueueIsLocked, LockHasKeeper,
      WaitersInOrder, ArrivalInOrder, Distinct, Precedes

LEMMA OrderNext == ~CancelScheduled /\ IInv /\ OrderInv /\ [Next]_vars => OrderInv'
<1> SUFFICES ASSUME ~CancelScheduled, IInv, OrderInv, [Next]_vars
             PROVE  OrderInv'
  OBVIOUS
<1>1. CASE Resume
  BY <1>1, ResumeKeepsOrder
<1>2. ASSUME NEW c \in Coros, Start(c)
      PROVE  OrderInv'
  BY <1>2, StartKeepsOrder
<1>3. ASSUME NEW c \in Coros, EnterFree(c)
      PROVE  OrderInv'
  BY <1>3, EnterFreeKeepsOrder
<1>4. ASSUME NEW c \in Coros, EnterBusy(c)
      PROVE  OrderInv'
  BY <1>4, EnterBusyKeepsOrder
<1>5. ASSUME NEW c \in Coros, Sync(c) \/ Suspend(c) \/ Wake(c)
      PROVE  OrderInv'
  <2>1. PICK x \in {"busy", "leave"} :
           /\ Holds(c) /\ pc' = [pc EXCEPT ![c] = x]
           /\ UNCHANGED <<stage, mutex, scheduled, arrival>>
           /\ running = c \/ running = Nil
    BY <1>5 DEF Sync, Suspend, Wake, Holds
  <2>2. QED
    BY <2>1, HoldingKeepsOrder
<1>6. ASSUME NEW c \in Coros, Release(c)
      PROVE  OrderInv'
  <2>1. CASE AtLastStage(c)
    <3>1. /\ Holds(c) /\ pc' = [pc EXCEPT ![c] = "idle"] /\ stage' = stage
          /\ mutex' = [mutex EXCEPT ![stage[c]] = Unlock(@)]
          /\ scheduled' = scheduled \o Woken(mutex[stage[c]])
          /\ arrival' = Unlink(arrival, c)
          /\ running = c
      BY <1>6, <2>1 DEF Release, Holds
    <3>2. QED
      BY <3>1, HolderGoneStep
  <2>2. CASE ~AtLastStage(c)
    BY <1>6, <2>2, PassOnStep
  <2>3. QED
    BY <2>1, <2>2
<1>7. ASSUME NEW c \in Coros, CancelWaiting(c)
      PROVE  OrderInv'
  BY <1>7, CancelKeepsOrder
<1>8. ASSUME NEW c \in Coros, CancelHolding(c)
      PROVE  OrderInv'
  <2>1. /\ Holds(c) /\ pc' = [pc EXCEPT ![c] = "idle"] /\ stage' = stage
        /\ mutex' = [mutex EXCEPT ![stage[c]] = Unlock(@)]
        /\ scheduled' = scheduled \o Woken(mutex[stage[c]])
        /\ arrival' = Unlink(arrival, c)
        /\ running' = running
    BY <1>8 DEF CancelHolding, Holds
  <2>2. QED
    BY <2>1, HolderGoneStep
<1>9. CASE UNCHANGED vars
  BY <1>9
  DEF vars, OrderInv, ArrivalExact, OneEnters, WaitersListed, QueueIsLocked, LockHasKeeper,
      WaitersInOrder, ArrivalInOrder, Holds, IsScheduled
<1>10. QED
  BY <1>1, <1>2, <1>3, <1>4, <1>5, <1>6, <1>7, <1>8, <1>9 DEF Next, Run, Cancel

LEMMA OrderInvariance == ~CancelScheduled /\ Safe => [](IInv /\ OrderInv)
<1>1. CASE CancelScheduled
  BY <1>1
<1>2. CASE ~CancelScheduled
  <2>1. IInv /\ OrderInv /\ [Next]_vars => IInv' /\ OrderInv'
    BY <1>2, InvNext, OrderNext
  <2>2. QED
    BY <2>1, InvInit, OrderInit, PTL DEF Safe
<1>3. QED
  BY <1>1, <1>2

\* Nobody overtakes anybody on the way through the mutexes, and a mutex that reads as
\* locked has somebody who will unlock it, through every cancellation but the one of a
\* scheduled coroutine.
THEOREM Fifo == ~CancelScheduled /\ Safe => []QueuesAreSound
<1>1. IInv /\ OrderInv => QueuesAreSound
  <2> SUFFICES ASSUME IInv, OrderInv PROVE QueuesAreSound
    OBVIOUS
  <2>1. NoOvertaking
    <3>1. ASSUME NEW i \in 1 .. Len(arrival), NEW j \in 1 .. Len(arrival), i < j
          PROVE  \/ stage[arrival[j]] < stage[arrival[i]]
                 \/ stage[arrival[j]] = stage[arrival[i]] /\ ~Holds(arrival[j])
      <4>1. PICK c \in Coros : c = arrival[i]
        BY Shapes DEF IInv
      <4>2. PICK d \in Coros : d = arrival[j]
        BY Shapes DEF IInv
      <4>3. Precedes(arrival, c, d)
        BY <3>1, <4>1, <4>2 DEF Precedes
      <4>4. QED
        BY <4>1, <4>2, <4>3 DEF OrderInv, ArrivalInOrder
    <3>2. DOMAIN arrival = 1 .. Len(arrival)
      BY Shapes DEF IInv
    <3>3. QED
      BY <3>1, <3>2 DEF NoOvertaking
  <2>2. QED
    BY <2>1 DEF QueuesAreSound, IInv, OrderInv
<1>2. QED
  BY <1>1, OrderInvariance, PTL

-----------------------------------------------------------------------------
(* The refinement.                                                         *)

\* The owner of a mutex is the coroutine that holds it.
LEMMA OwnerIs ==
  ASSUME MutualExclusion, NEW s
  PROVE  /\ \A c \in Coros : Holds(c) /\ stage[c] = s => Owner(s) = c
         /\ NoHolderAt(s) => Owner(s) = Nil
BY DEF Owner, MutualExclusion, NoHolderAt

\* A mutex whose holders stay keeps its owner.
LEMMA OwnerStays ==
  ASSUME NEW s, \A c \in Coros : Holds(c)' /\ stage'[c] = s <=> Holds(c) /\ stage[c] = s
  PROVE  Owner(s)' = Owner(s)
BY DEF Owner

\* The owners and queues after a step that changes those of one mutex only.
LEMMA OneMutex ==
  ASSUME NEW s \in StageSet,
         \A t \in StageSet \ {s} :
           /\ mutex'[t].waiters = mutex[t].waiters
           /\ Owner(t)' = Owner(t)
  PROVE  LET O == [t \in StageSet |-> Owner(t)]
             Q == [t \in StageSet |-> mutex[t].waiters]
         IN  /\ O' = [O EXCEPT ![s] = Owner(s)']
             /\ Q' = [Q EXCEPT ![s] = mutex'[s].waiters]
             /\ O[s] = Owner(s) /\ Q[s] = mutex[s].waiters
OBVIOUS

LEMMA OwnerInit == Init => Lock!Init
<1> SUFFICES ASSUME Init PROVE Lock!Init
  OBVIOUS
<1>1. \A s \in StageSet : mutex[s].waiters = <<>> /\ Owner(s) = Nil
  BY DEF Init, Unlocked, Owner, Holds
<1>2. QED
  BY <1>1 DEF Lock!Init

\* Every step of the chain is a step of the fifo lock, or changes neither owners nor
\* queues.
LEMMA Simulation ==
  ASSUME ~CancelScheduled, IInv, OrderInv, IInv', [Next]_vars
  PROVE  [Lock!Next]_(Lock!vars)
<1> DEFINE O == [t \in StageSet |-> Owner(t)]
           Q == [t \in StageSet |-> mutex[t].waiters]
<1>1. /\ mutex \in [StageSet -> MutexOver(Coros)] /\ pc \in [Coros -> PCs]
      /\ stage \in [Coros -> StageSet] /\ scheduled \in Seq(Coros)
      /\ \A t \in StageSet : mutex[t].waiters \in Seq(Coros)
  BY Shapes DEF IInv
<1>2. Nil \notin Coros
  BY CoAssumption
<1>3. \A t \in StageSet : /\ \A c \in Coros : Holds(c) /\ stage[c] = t => Owner(t) = c
                          /\ NoHolderAt(t) => Owner(t) = Nil
  BY OwnerIs DEF IInv
<1>4. \A t \in StageSet :
        /\ \A c \in Coros : Holds(c)' /\ stage'[c] = t => Owner(t)' = c
        /\ NoHolderAt(t)' => Owner(t)' = Nil
  BY DEF IInv, Owner, MutualExclusion, NoHolderAt
<1>5. ASSUME NEW s \in StageSet, NEW c \in Coros,
             \A d \in Coros \ {c} : (Holds(d)' <=> Holds(d)) /\ stage'[d] = stage[d],
             Holds(c) => stage[c] = s, Holds(c)' => stage'[c] = s
      PROVE  \A t \in StageSet \ {s} : Owner(t)' = Owner(t)
  BY <1>5, OwnerStays
<1>6. CASE Resume
  <2>1. PICK c \in Coros : c = scheduled[1] /\ Len(scheduled) > 0
    BY <1>1, <1>6 DEF Resume
  <2>0. PICK s \in StageSet : s = stage[c]
    BY <1>1
  <2> DEFINE w == mutex[s].waiters
  <2>2. HandedOver(c) /\ s = stage[c] /\ s \in StageSet
    BY <1>1, <2>0, <2>1 DEF IInv, ScheduledOnce
  <2>3. /\ mutex' = [mutex EXCEPT ![s] = Take(@, c)]
        /\ pc' = [pc EXCEPT ![c] = "hold"] /\ stage' = stage
    BY <1>1, <2>0, <1>6, <2>1 DEF Resume
  <2>4. /\ mutex'[s].waiters = Unlink(w, c)
        /\ \A t \in StageSet \ {s} : mutex'[t].waiters = mutex[t].waiters
    BY <1>1, <2>2, <2>3 DEF Take, MutexOver
  <2>5. w \in Seq(Coros) /\ Distinct(w) /\ Len(w) > 0 /\ w[1] = c
    BY <1>1, <2>2, ListedWaits DEF HandedOver
  <2>p. Unlink(w, w[1]) = Tail(w)
    BY <2>5, UnlinkFirst
  <2>6. mutex'[s].waiters = Tail(w) /\ Head(w) = c /\ w # <<>>
    BY <2>4, <2>5, <2>p
  <2>7. Holds(c)' /\ stage'[c] = s
        /\ \A d \in Coros \ {c} : (Holds(d)' <=> Holds(d)) /\ stage'[d] = stage[d]
    BY <1>1, <2>2, <2>3 DEF Holds
  <2>8. Owner(s) = Nil /\ Owner(s)' = c
    BY <1>3, <1>4, <2>2, <2>7 DEF HandedOver
  <2>9. \A t \in StageSet \ {s} : Owner(t)' = Owner(t)
    <3>1. ~Holds(c)
      BY <2>2 DEF HandedOver, Holds
    <3>2. QED
      BY <1>5, <2>2, <2>7, <3>1
  <2>10. /\ O' = [O EXCEPT ![s] = c] /\ Q' = [Q EXCEPT ![s] = Tail(@)]
         /\ O[s] = Nil /\ Q[s] = w
    BY <2>2, <2>4, <2>6, <2>8, <2>9, OneMutex
  <2>11. Lock!Grant(s)
    BY <2>6, <2>10 DEF Lock!Grant
  <2>12. QED
    BY <2>2, <2>11 DEF Lock!Next
<1>7. ASSUME NEW c \in Coros, EnterFree(c)
      PROVE  Lock!Next
  <2>0. PICK s \in StageSet : s = stage[c]
    BY <1>1
  <2>1. /\ s \in StageSet /\ s = stage[c]
        /\ pc[c] = "enter" /\ ~mutex[s].locked
        /\ mutex' = [mutex EXCEPT ![s] = Take(@, c)]
        /\ pc' = [pc EXCEPT ![c] = "hold"] /\ stage' = stage
    BY <1>1, <2>0, <1>7 DEF EnterFree, CanTake
  <2>2. mutex[s].waiters = <<>>
    <3>1. ~(Len(mutex[s].waiters) > 0)
      BY <2>1 DEF OrderInv, QueueIsLocked
    <3>2. QED
      BY <1>1, <2>1, <3>1
  <2>3. \A t \in StageSet : mutex'[t].waiters = mutex[t].waiters
    <3>1. ~Contains(mutex[s].waiters, c)
      BY <2>1, ListedWaits
    <3>2. QED
      BY <1>1, <2>1, <3>1, UnlinkAbsent DEF Take, MutexOver
  <2>4. /\ Holds(c)' /\ stage'[c] = s /\ ~Holds(c)
        /\ \A d \in Coros \ {c} : (Holds(d)' <=> Holds(d)) /\ stage'[d] = stage[d]
    BY <1>1, <2>1 DEF Holds
  <2>5. NoHolderAt(s)
    BY <2>1 DEF IInv, HeldIsLocked, NoHolderAt
  <2>6. Owner(s) = Nil /\ Owner(s)' = c
    BY <1>3, <1>4, <2>1, <2>4, <2>5
  <2>7. \A t \in StageSet \ {s} : Owner(t)' = Owner(t)
    BY <1>5, <2>1, <2>4
  <2>8. /\ O' = [O EXCEPT ![s] = c] /\ Q' = Q
        /\ O[s] = Nil /\ Q[s] = <<>>
    BY <2>1, <2>2, <2>3, <2>6, <2>7, OneMutex
  <2>9. Lock!Acquire(s, c)
    BY <2>8 DEF Lock!Acquire
  <2>10. QED
    BY <2>1, <2>9 DEF Lock!Next
<1>8. ASSUME NEW c \in Coros, EnterBusy(c)
      PROVE  Lock!Next
  <2>0. PICK s \in StageSet : s = stage[c]
    BY <1>1
  <2> DEFINE w == mutex[s].waiters
  <2>1. /\ s \in StageSet /\ s = stage[c]
        /\ pc[c] = "enter" /\ mutex[s].locked
        /\ mutex' = [mutex EXCEPT ![s] = Enqueue(@, c)]
        /\ pc' = [pc EXCEPT ![c] = "wait"] /\ stage' = stage
    BY <1>1, <2>0, <1>8 DEF EnterBusy, CanTake
  <2>2. /\ mutex'[s].waiters = Append(w, c)
        /\ \A t \in StageSet \ {s} : mutex'[t].waiters = mutex[t].waiters
    BY <1>1, <2>1 DEF Enqueue, MutexOver
  <2>3. /\ ~Holds(c)' /\ ~Holds(c)
        /\ \A d \in Coros \ {c} : (Holds(d)' <=> Holds(d)) /\ stage'[d] = stage[d]
    BY <1>1, <2>1 DEF Holds
  <2>4. \A t \in StageSet : Owner(t)' = Owner(t)
    BY <2>3, OwnerStays
  <2>5. Owner(s) # Nil \/ w # <<>>
    <3>1. PICK e \in Coros :
            stage[e] = s /\ (Holds(e) \/ (pc[e] = "wait" /\ IsScheduled(e)))
      BY <2>1 DEF OrderInv, LockHasKeeper
    <3>2. CASE Holds(e)
      BY <1>2, <1>3, <2>1, <3>1, <3>2
    <3>3. CASE pc[e] = "wait"
      <4>1. Contains(w, e)
        BY <3>1, <3>3 DEF OrderInv, WaitersListed
      <4>2. QED
        BY <4>1 DEF Contains
    <3>4. QED
      BY <3>1, <3>2, <3>3
  <2>6. Owner(s) # c
    <3>1. CASE NoHolderAt(s)
      BY <1>2, <1>3, <2>1, <3>1
    <3>2. CASE ~NoHolderAt(s)
      BY <1>3, <2>1, <2>3, <3>2 DEF NoHolderAt
    <3>3. QED
      BY <3>1, <3>2
  <2>7. \A i \in DOMAIN w : w[i] # c
    BY <1>1, <2>1, ListedWaits DEF Contains
  <2>8. /\ O' = O /\ Q' = [Q EXCEPT ![s] = Append(@, c)]
        /\ O[s] = Owner(s) /\ Q[s] = w
    BY <2>1, <2>2, <2>4, OneMutex
  <2>9. Lock!Wait(s, c)
    BY <2>5, <2>6, <2>7, <2>8 DEF Lock!Wait, Lock!Queued
  <2>10. QED
    BY <2>1, <2>9 DEF Lock!Next
<1>9. ASSUME NEW c \in Coros, CancelWaiting(c)
      PROVE  Lock!Next
  <2>0. PICK s \in StageSet : s = stage[c]
    BY <1>1
  <2> DEFINE w == mutex[s].waiters
  <2>1. /\ s \in StageSet /\ s = stage[c]
        /\ pc[c] = "wait"
        /\ mutex' = [mutex EXCEPT ![s] = Forget(@, c)]
        /\ pc' = [pc EXCEPT ![c] = "idle"] /\ stage' = stage
    BY <1>1, <2>0, <1>9 DEF CancelWaiting
  <2>2. /\ mutex'[s].waiters = Unlink(w, c)
        /\ \A t \in StageSet \ {s} : mutex'[t].waiters = mutex[t].waiters
    BY <1>1, <2>1 DEF Forget, MutexOver
  <2>3. /\ ~Holds(c)' /\ ~Holds(c)
        /\ \A d \in Coros \ {c} : (Holds(d)' <=> Holds(d)) /\ stage'[d] = stage[d]
    BY <1>1, <2>1 DEF Holds
  <2>4. \A t \in StageSet : Owner(t)' = Owner(t)
    BY <2>3, OwnerStays
  <2>5. Contains(w, c)
    BY <2>1 DEF OrderInv, WaitersListed
  <2>6. \E i \in DOMAIN w :
          w[i] = c /\ Unlink(w, c) = SubSeq(w, 1, i - 1) \o SubSeq(w, i + 1, Len(w))
    <3>1. w \in Seq(Coros)
      BY <1>1
    <3> HIDE DEF w
    <3>2. QED
      BY <2>5, <3>1, UnlinkCuts
  <2>7. /\ O' = O /\ Q' = [Q EXCEPT ![s] = Unlink(w, c)] /\ Q[s] = w
    BY <2>1, <2>2, <2>4, OneMutex
  <2>8. Lock!Abandon(s, c)
    BY <2>6, <2>7 DEF Lock!Abandon
  <2>9. QED
    BY <2>1, <2>8 DEF Lock!Next
\* A lock's destructor, at the end of the block or of its coroutine's cancellation.
<1>10. ASSUME NEW c \in Coros, Release(c) \/ CancelHolding(c)
       PROVE  Lock!Next
  <2>0. PICK s \in StageSet : s = stage[c]
    BY <1>1
  <2>1. /\ s \in StageSet /\ s = stage[c]
        /\ Holds(c) /\ ~Holds(c)'
        /\ mutex' = [mutex EXCEPT ![s] = Unlock(@)]
        /\ \A d \in Coros \ {c} : (Holds(d)' <=> Holds(d)) /\ stage'[d] = stage[d]
    BY <1>1, <2>0, <1>10 DEF Release, CancelHolding, Holds
  <2>2. \A t \in StageSet : mutex'[t].waiters = mutex[t].waiters
    BY <1>1, <2>1 DEF Unlock, MutexOver
  <2>3. Owner(s) # Nil /\ Owner(s)' = Nil
    <3>1. Owner(s) = c
      BY <1>3, <2>1
    <3>2. NoHolderAt(s)'
      BY <2>1 DEF IInv, MutualExclusion, NoHolderAt
    <3>3. QED
      BY <1>2, <1>4, <2>1, <3>1, <3>2
  <2>4. \A t \in StageSet \ {s} : Owner(t)' = Owner(t)
    BY <1>5, <2>1
  <2>5. O' = [O EXCEPT ![s] = Nil] /\ Q' = Q /\ O[s] # Nil
    BY <2>1, <2>2, <2>3, <2>4, OneMutex
  <2>6. Lock!Release(s)
    BY <2>5 DEF Lock!Release
  <2>7. QED
    BY <2>1, <2>6 DEF Lock!Next
<1>11. ASSUME NEW c \in Coros, Start(c) \/ Sync(c) \/ Suspend(c) \/ Wake(c)
       PROVE  UNCHANGED Lock!vars
  <2>1. /\ mutex' = mutex
        /\ \A d \in Coros : /\ Holds(d)' <=> Holds(d)
                            /\ Holds(d) => stage'[d] = stage[d]
    BY <1>1, <1>11 DEF Start, Sync, Suspend, Wake, Holds
  <2>2. \A t \in StageSet : Owner(t)' = Owner(t)
    BY <2>1, OwnerStays
  <2>3. QED
    BY <2>1, <2>2 DEF Lock!vars
<1>12. CASE UNCHANGED vars
  BY <1>12 DEF vars, Lock!vars, Owner, Holds
<1>13. QED
  BY <1>6, <1>7, <1>8, <1>9, <1>10, <1>11, <1>12 DEF Next, Run, Cancel

\* The chain of co_mutexes is a set of fifo locks: a newcomer never takes a lock that is
\* owned or waited for, and the oldest waiter is the one that gets it.  That a free lock
\* with a queue is granted at all is liveness, and model-checked only.
THEOREM Refinement == ~CancelScheduled /\ Safe => Lock!Safe
<1>1. CASE CancelScheduled
  BY <1>1
<1>2. CASE ~CancelScheduled
  <2>1. IInv /\ OrderInv /\ IInv' /\ [Next]_vars => [Lock!Next]_(Lock!vars)
    BY <1>2, Simulation
  <2>2. QED
    BY <1>2, <2>1, OwnerInit, OrderInvariance, PTL DEF Safe, Lock!Safe
<1>3. QED
  BY <1>1, <1>2
=============================================================================
