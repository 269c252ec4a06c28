--------------------------- MODULE RunloopProofs ---------------------------
(***************************************************************************)
(* Proofs about runloop2_poll, for any waiters, delays and sizes of the    *)
(* arrays, whatever the code that step() runs registers and cancels.       *)
(***************************************************************************)
EXTENDS Runloop, ListLemmas, FiniteSetTheorems

-----------------------------------------------------------------------------
(* An array of slots and its freelist.                                     *)

FreeSlots(a) == {i \in DOMAIN a : a[i].waiter = None}

\* A waiter waits once in a, and f names the free slots.
ArrayOK(a, f) ==
  /\ FreeIs(Len(a), FreeSlots(a), f)
  /\ \A i, j \in DOMAIN a : a[i].waiter = a[j].waiter /\ a[i].waiter # None => i = j

LEMMA ArrayIs ==
  ASSUME NEW S, NEW a \in Seq(S), NEW f, ArrayOK(a, f)
  PROVE  /\ Len(a) \in Nat /\ DOMAIN a = 1 .. Len(a)
         /\ f = <<>> => \A i \in DOMAIN a : a[i].waiter # None
         /\ f # <<>> => f[1] \in DOMAIN a /\ a[f[1]].waiter = None
<1>1. Len(a) \in Nat /\ DOMAIN a = 1 .. Len(a)
  OBVIOUS
<1>2. FreeIs(Len(a), FreeSlots(a), f)
  BY DEF ArrayOK
<1>3. ASSUME f = <<>>, NEW i \in DOMAIN a PROVE a[i].waiter # None
  <2>1. i \notin FreeSlots(a)
    BY <1>1, <1>2, <1>3 DEF FreeIs
  <2>2. QED
    BY <2>1 DEF FreeSlots
<1>4. ASSUME f # <<>> PROVE f[1] \in DOMAIN a /\ a[f[1]].waiter = None
  <2>1. f[1] \in FreeSlots(a)
    BY <1>1, <1>2, <1>4, FreeTake
  <2>2. QED
    BY <2>1 DEF FreeSlots
<1>5. QED
  BY <1>1, <1>3, <1>4

\* A waiter takes the first slot of the freelist.
LEMMA PutOK ==
  ASSUME NEW S, NEW a \in Seq(S), NEW f, ArrayOK(a, f), f # <<>>,
         NEW x \in S, x.waiter # None, \A i \in DOMAIN a : a[i].waiter # x.waiter
  PROVE  [a EXCEPT ![f[1]] = x] \in Seq(S) /\ ArrayOK([a EXCEPT ![f[1]] = x], Tail(f))
<1> DEFINE b == [a EXCEPT ![f[1]] = x]
<1>1. Len(a) \in Nat /\ DOMAIN a = 1 .. Len(a) /\ f[1] \in DOMAIN a /\ a[f[1]].waiter = None
  BY ArrayIs
<1>2. /\ b \in Seq(S) /\ Len(b) = Len(a) /\ DOMAIN b = DOMAIN a
      /\ b[f[1]] = x /\ \A i \in DOMAIN a \ {f[1]} : b[i] = a[i]
  BY <1>1
<1> HIDE DEF b
<1>3. FreeIs(Len(a), FreeSlots(a) \ {f[1]}, Tail(f))
  BY <1>1, FreeTake DEF ArrayOK
<1>4. FreeSlots(b) = FreeSlots(a) \ {f[1]}
  BY <1>1, <1>2 DEF FreeSlots
<1>5. \A i, j \in DOMAIN b : b[i].waiter = b[j].waiter /\ b[i].waiter # None => i = j
  <2> SUFFICES ASSUME NEW i \in DOMAIN a, NEW j \in DOMAIN a, b[i].waiter = b[j].waiter,
                      b[i].waiter # None
               PROVE  i = j
    BY <1>2
  <2>1. i = f[1] <=> j = f[1]
    BY <1>2
  <2>2. QED
    BY <1>2, <2>1 DEF ArrayOK
<1>6. QED
  BY <1>2, <1>3, <1>4, <1>5 DEF ArrayOK, b

\* None is free, and a waiter takes a new slot.
LEMMA AppendOK ==
  ASSUME NEW S, NEW a \in Seq(S), ArrayOK(a, <<>>),
         NEW x \in S, x.waiter # None, \A i \in DOMAIN a : a[i].waiter # x.waiter
  PROVE  Append(a, x) \in Seq(S) /\ ArrayOK(Append(a, x), <<>>)
<1> DEFINE b == Append(a, x)
<1>1. Len(a) \in Nat /\ DOMAIN a = 1 .. Len(a) /\ \A i \in DOMAIN a : a[i].waiter # None
  BY ArrayIs
<1>2. /\ b \in Seq(S) /\ Len(b) = Len(a) + 1 /\ DOMAIN b = DOMAIN a \cup {Len(a) + 1}
      /\ b[Len(a) + 1] = x /\ \A i \in DOMAIN a : b[i] = a[i]
  BY <1>1
<1> HIDE DEF b
<1>3. FreeSlots(b) = {}
  BY <1>1, <1>2 DEF FreeSlots
<1>4. FreeIs(Len(b), FreeSlots(b), <<>>)
  BY <1>3 DEF FreeIs
<1>5. \A i, j \in DOMAIN b : b[i].waiter = b[j].waiter /\ b[i].waiter # None => i = j
  <2> SUFFICES ASSUME NEW i \in DOMAIN b, NEW j \in DOMAIN b, b[i].waiter = b[j].waiter,
                      b[i].waiter # None
               PROVE  i = j
    OBVIOUS
  <2>1. i = Len(a) + 1 <=> j = Len(a) + 1
    BY <1>2
  <2>2. QED
    BY <1>2, <2>1 DEF ArrayOK
<1>6. QED
  BY <1>2, <1>4, <1>5 DEF ArrayOK, b

\* The waiter of slot i is gone.
LEMMA ClearOK ==
  ASSUME NEW S, NEW a \in Seq(S), NEW f, ArrayOK(a, f), NEW i \in DOMAIN a, a[i].waiter # None,
         NEW x \in S, x.waiter = None
  PROVE  [a EXCEPT ![i] = x] \in Seq(S) /\ ArrayOK([a EXCEPT ![i] = x], <<i>> \o f)
<1> DEFINE b == [a EXCEPT ![i] = x]
<1>1. Len(a) \in Nat /\ DOMAIN a = 1 .. Len(a)
  OBVIOUS
<1>2. /\ b \in Seq(S) /\ Len(b) = Len(a) /\ DOMAIN b = DOMAIN a
      /\ b[i] = x /\ \A j \in DOMAIN a \ {i} : b[j] = a[j]
  BY <1>1
<1> HIDE DEF b
<1>3. i \notin FreeSlots(a) /\ i \in 1 .. Len(a)
  BY <1>1 DEF FreeSlots
<1>4. FreeIs(Len(a), FreeSlots(a) \cup {i}, <<i>> \o f)
  BY <1>1, <1>3, FreeGive DEF ArrayOK
<1>5. FreeSlots(b) = FreeSlots(a) \cup {i}
  BY <1>1, <1>2 DEF FreeSlots
<1>6. \A j, k \in DOMAIN b : b[j].waiter = b[k].waiter /\ b[j].waiter # None => j = k
  BY <1>2 DEF ArrayOK
<1>7. QED
  BY <1>2, <1>4, <1>5, <1>6 DEF ArrayOK, b

\* The array grows by m free slots.
LEMMA GrowOK ==
  ASSUME NEW S, NEW a \in Seq(S), ArrayOK(a, <<>>), NEW m \in Nat, NEW x \in S, x.waiter = None
  PROVE  /\ a \o [i \in 1 .. m |-> x] \in Seq(S)
         /\ ArrayOK(a \o [i \in 1 .. m |-> x], [i \in 1 .. m |-> Len(a) + i])
<1> DEFINE b == a \o [i \in 1 .. m |-> x]
<1>1. Len(a) \in Nat /\ DOMAIN a = 1 .. Len(a) /\ \A i \in DOMAIN a : a[i].waiter # None
  BY ArrayIs
<1>2. /\ b \in Seq(S) /\ Len(b) = Len(a) + m /\ DOMAIN b = 1 .. Len(a) + m
      /\ \A i \in DOMAIN a : b[i] = a[i]
      /\ \A i \in Len(a) + 1 .. Len(a) + m : b[i] = x
  <2>1. [i \in 1 .. m |-> x] \in Seq(S) /\ Len([i \in 1 .. m |-> x]) = m
    OBVIOUS
  <2>2. QED
    BY <1>1, <2>1
<1> HIDE DEF b
<1>3. FreeSlots(b) = Len(a) + 1 .. Len(a) + m
  <2>1. \A i \in DOMAIN b : i \in DOMAIN a \/ i \in Len(a) + 1 .. Len(a) + m
    BY <1>1, <1>2
  <2>2. \A i \in Len(a) + 1 .. Len(a) + m : i \in DOMAIN b /\ i \notin DOMAIN a
    BY <1>1, <1>2
  <2>3. QED
    BY <1>1, <1>2, <2>1, <2>2 DEF FreeSlots
<1>4. FreeIs(Len(b), FreeSlots(b), [i \in 1 .. m |-> Len(a) + i])
  BY <1>1, <1>2, <1>3, FreeNew
<1>5. \A i, j \in DOMAIN b : b[i].waiter = b[j].waiter /\ b[i].waiter # None => i = j
  <2> SUFFICES ASSUME NEW i \in DOMAIN b, NEW j \in DOMAIN b, b[i].waiter = b[j].waiter,
                      b[i].waiter # None
               PROVE  i = j
    OBVIOUS
  <2>1. i \in DOMAIN a /\ j \in DOMAIN a
    BY <1>1, <1>2
  <2>2. QED
    BY <1>2, <2>1 DEF ArrayOK
<1>6. QED
  BY <1>2, <1>4, <1>5 DEF ArrayOK, b

\* The same waiters wait in the same slots.
LEMMA StayOK ==
  ASSUME NEW S, NEW a \in Seq(S), NEW f, ArrayOK(a, f), NEW b, DOMAIN b = DOMAIN a,
         Len(b) = Len(a), \A i \in DOMAIN a : b[i].waiter = a[i].waiter
  PROVE  ArrayOK(b, f)
<1>1. FreeSlots(b) = FreeSlots(a)
  BY DEF FreeSlots
<1>2. QED
  BY <1>1 DEF ArrayOK

-----------------------------------------------------------------------------
(* The invariant.                                                          *)

FdSlot == [waiter : Waiters \union {None}, revents : BOOLEAN]
TimeSlot == [waiter : Waiters \union {None}, left : 0 .. MaxDelay]

\* Nobody waits for a descriptor and for a timeout.
Apart ==
  \A i \in DOMAIN fds, j \in DOMAIN timeouts :
    fds[i].waiter = timeouts[j].waiter => fds[i].waiter = None

SlotInv ==
  /\ fds \in Seq(FdSlot) /\ ArrayOK(fds, fds_free)
  /\ timeouts \in Seq(TimeSlot) /\ ArrayOK(timeouts, timeouts_free)
  /\ Apart

ControlInv ==
  /\ scheduled \in Seq(Waiters) /\ IsInjective(scheduled)
  /\ phase \in {"start", "poll", "fds", "timeouts", "scheduled"}
  /\ until \in {None} \union 0 .. MaxDelay
  /\ running \in Waiters \union {Main, None}
  /\ owed \subseteq Waiters
  /\ at \in Nat /\ at > 0 /\ size \in Nat

\* What ppoll() said of a slot the loop has not passed is said of a waiter that is owed
\* its turn.
PolledInv ==
  phase = "fds" =>
    \A i \in DOMAIN fds : at <= i /\ fds[i].revents => fds[i].waiter \in owed

ReadyAt(w) == \E i \in DOMAIN fds : at <= i /\ fds[i].waiter = w /\ fds[i].revents

DueAt(w, lo, hi) ==
  \E i \in DOMAIN timeouts :
    lo <= i /\ i <= hi /\ timeouts[i].waiter = w /\ timeouts[i].left = 0

\* Whoever is owed its turn is in front of the loops.
OwedInv ==
  /\ phase = "fds" => \A w \in owed : ReadyAt(w) \/ DueAt(w, 1, Len(timeouts))
  /\ phase = "timeouts" => size <= Len(timeouts) /\ \A w \in owed : DueAt(w, at, size)
  /\ phase \in {"start", "poll", "scheduled"} /\ fault = None => owed = {}

Inv == SlotInv /\ ControlInv /\ PolledInv /\ OwedInv

-----------------------------------------------------------------------------
(* What the code that runs does to the arrays.                             *)

\* Array b is a with x in a slot that was free or is new.
Takes(a, b, x) ==
  \E i \in DOMAIN b :
    /\ DOMAIN b = DOMAIN a \cup {i} /\ b[i] = x
    /\ i \in DOMAIN a => a[i].waiter = None
    /\ \A j \in DOMAIN a \ {i} : b[j] = a[j]

\* The same, and b may have more new slots, free ones.
Adds(a, b, x) ==
  /\ DOMAIN a \subseteq DOMAIN b /\ Len(a) <= Len(b)
  /\ \E i \in DOMAIN b :
       /\ b[i] = x
       /\ i \in DOMAIN a => a[i].waiter = None
       /\ \A j \in DOMAIN b \ {i} : IF j \in DOMAIN a THEN b[j] = a[j] ELSE b[j].waiter = None

\* Array b is a with the slot of w freed, and nothing left in it of what was due.
Frees(a, b, w) ==
  /\ DOMAIN b = DOMAIN a /\ Len(b) = Len(a)
  /\ \E i \in DOMAIN a :
       /\ a[i].waiter = w /\ b[i].waiter = None
       /\ \A j \in DOMAIN a \ {i} : b[j] = a[j]

LEMMA NewFd ==
  ASSUME SlotInv, NEW w \in Waiters, AwaitFd(w)
  PROVE  /\ fds' \in Seq(FdSlot) /\ ArrayOK(fds', fds_free')
         /\ Takes(fds, fds', Registered(w))
<1> DEFINE x == Registered(w)
<1>1. x \in FdSlot /\ x.waiter = w /\ x.waiter # None
  BY RunloopAssumption DEF Registered, FdSlot
<1>2. fds \in Seq(FdSlot) /\ ArrayOK(fds, fds_free)
  BY DEF SlotInv
<1>3. \A i \in DOMAIN fds : fds[i].waiter # x.waiter
  BY <1>1 DEF AwaitFd, Idle, OnFd
<1>4. DOMAIN fds = 1 .. Len(fds) /\ Len(fds) \in Nat
  BY <1>2, ArrayIs
<1> HIDE DEF x
<1>5. CASE fds_free = <<>>
  <2>1. fds' = Append(fds, x) /\ fds_free' = <<>>
    BY <1>5 DEF AwaitFd, x
  <2>2. fds' \in Seq(FdSlot) /\ ArrayOK(fds', fds_free')
    BY <1>1, <1>2, <1>3, <1>5, <2>1, AppendOK
  <2>3. /\ Len(fds') = Len(fds) + 1 /\ DOMAIN fds' = DOMAIN fds \cup {Len(fds) + 1}
        /\ fds'[Len(fds) + 1] = x /\ \A j \in DOMAIN fds : fds'[j] = fds[j]
    BY <1>1, <1>2, <1>4, <2>1
  <2>4. Takes(fds, fds', x)
    BY <1>4, <2>3 DEF Takes
  <2>5. QED
    BY <2>2, <2>4 DEF x
<1>6. CASE fds_free # <<>>
  <2>1. fds' = [fds EXCEPT ![fds_free[1]] = x] /\ fds_free' = Tail(fds_free)
    BY <1>6 DEF AwaitFd, x
  <2>2. fds' \in Seq(FdSlot) /\ ArrayOK(fds', fds_free')
    BY <1>1, <1>2, <1>3, <1>6, <2>1, PutOK
  <2>3. fds_free[1] \in DOMAIN fds /\ fds[fds_free[1]].waiter = None
    BY <1>2, <1>6, ArrayIs
  <2>4. /\ DOMAIN fds' = DOMAIN fds /\ Len(fds') = Len(fds) /\ fds'[fds_free[1]] = x
        /\ \A j \in DOMAIN fds \ {fds_free[1]} : fds'[j] = fds[j]
    BY <1>2, <1>4, <2>1, <2>3
  <2>5. Takes(fds, fds', x)
    BY <1>4, <2>3, <2>4 DEF Takes
  <2>6. QED
    BY <2>2, <2>5 DEF x
<1>7. QED
  BY <1>5, <1>6

\* The array of timeouts with a free slot: as it is, or with as many new ones as it has,
\* or with the first ones.
LEMMA GrownIs ==
  ASSUME SlotInv
  PROVE  /\ Grown.slots \in Seq(TimeSlot) /\ ArrayOK(Grown.slots, Grown.free)
         /\ Grown.free # <<>>
         /\ DOMAIN timeouts \subseteq DOMAIN Grown.slots /\ Len(timeouts) <= Len(Grown.slots)
         /\ \A i \in DOMAIN Grown.slots :
              IF i \in DOMAIN timeouts THEN Grown.slots[i] = timeouts[i]
              ELSE Grown.slots[i].waiter = None
         /\ timeouts_free # <<>> => Grown.slots = timeouts
         /\ timeouts = <<>> /\ timeouts_free = <<>> => Len(Grown.slots) = TimeoutSlots
<1>1. timeouts \in Seq(TimeSlot) /\ ArrayOK(timeouts, timeouts_free)
  BY DEF SlotInv
<1>2. DOMAIN timeouts = 1 .. Len(timeouts) /\ Len(timeouts) \in Nat
  BY <1>1, ArrayIs
<1>3. CASE timeouts_free # <<>>
  <2>1. Grown.slots = timeouts /\ Grown.free = timeouts_free
    BY <1>3 DEF Grown
  <2>2. QED
    BY <1>1, <1>2, <1>3, <2>1
<1>4. CASE timeouts_free = <<>>
  <2>1. PICK m \in Nat :
          /\ m > 0
          /\ Grown.slots = timeouts \o [i \in 1 .. m |-> Unused]
          /\ Grown.free = [i \in 1 .. m |-> Len(timeouts) + i]
          /\ timeouts = <<>> => m = TimeoutSlots
    <3>1. CASE Len(timeouts) = 0
      <4>1. TimeoutSlots - 0 = TimeoutSlots /\ TimeoutSlots \in Nat /\ TimeoutSlots > 0
        BY RunloopAssumption
      <4>2. /\ Grown.slots = timeouts \o [i \in 1 .. TimeoutSlots |-> Unused]
            /\ Grown.free = [i \in 1 .. TimeoutSlots |-> Len(timeouts) + i]
        BY <1>4, <3>1, <4>1 DEF Grown
      <4>3. QED
        BY <4>1, <4>2
    <3>2. CASE Len(timeouts) # 0
      <4>1. 2 * Len(timeouts) - Len(timeouts) = Len(timeouts) /\ Len(timeouts) > 0
            /\ timeouts # <<>>
        BY <1>2, <3>2
      <4>2. /\ Grown.slots = timeouts \o [i \in 1 .. Len(timeouts) |-> Unused]
            /\ Grown.free = [i \in 1 .. Len(timeouts) |-> Len(timeouts) + i]
        BY <1>4, <3>2, <4>1 DEF Grown
      <4>3. QED
        BY <1>2, <4>1, <4>2
    <3>3. QED
      BY <3>1, <3>2
  <2>2. Unused \in TimeSlot /\ Unused.waiter = None
    BY RunloopAssumption DEF Unused, TimeSlot
  <2>3. Grown.slots \in Seq(TimeSlot) /\ ArrayOK(Grown.slots, Grown.free)
    <3>1. ArrayOK(timeouts, <<>>)
      BY <1>1, <1>4
    <3>2. /\ timeouts \o [i \in 1 .. m |-> Unused] \in Seq(TimeSlot)
          /\ ArrayOK(timeouts \o [i \in 1 .. m |-> Unused], [i \in 1 .. m |-> Len(timeouts) + i])
      BY <1>1, <2>1, <2>2, <3>1, GrowOK
    <3>3. QED
      BY <2>1, <3>2
  <2>4. /\ Len(Grown.slots) = Len(timeouts) + m /\ DOMAIN Grown.slots = 1 .. Len(timeouts) + m
        /\ \A i \in 1 .. Len(timeouts) : Grown.slots[i] = timeouts[i]
        /\ \A i \in Len(timeouts) + 1 .. Len(timeouts) + m : Grown.slots[i] = Unused
    <3>1. [i \in 1 .. m |-> Unused] \in Seq(TimeSlot) /\ Len([i \in 1 .. m |-> Unused]) = m
      BY <2>2
    <3>2. QED
      BY <1>1, <1>2, <2>1, <2>2, <3>1
  <2>5. Grown.free # <<>>
    <3>1. 1 \in DOMAIN Grown.free
      BY <2>1
    <3>2. QED
      BY <3>1
  <2>6. DOMAIN timeouts \subseteq DOMAIN Grown.slots /\ Len(timeouts) <= Len(Grown.slots)
    BY <1>2, <2>4
  <2>7. ASSUME NEW i \in DOMAIN Grown.slots
        PROVE  IF i \in DOMAIN timeouts THEN Grown.slots[i] = timeouts[i]
               ELSE Grown.slots[i].waiter = None
    <3>1. CASE i \in DOMAIN timeouts
      BY <1>2, <2>4, <3>1
    <3>2. CASE i \notin DOMAIN timeouts
      <4>1. i \in Len(timeouts) + 1 .. Len(timeouts) + m
        BY <1>2, <2>4, <3>2
      <4>2. QED
        BY <2>2, <2>4, <3>2, <4>1
    <3>3. QED
      BY <3>1, <3>2
  <2>8. timeouts = <<>> => Len(Grown.slots) = TimeoutSlots
    BY <2>1, <2>4, RunloopAssumption
  <2>9. QED
    BY <1>4, <2>3, <2>5, <2>6, <2>7, <2>8
<1>5. QED
  BY <1>3, <1>4

LEMMA NewTimeout ==
  ASSUME SlotInv, NEW w \in Waiters, AwaitTimeout(w)
  PROVE  /\ timeouts' \in Seq(TimeSlot) /\ ArrayOK(timeouts', timeouts_free')
         /\ \E d \in 0 .. MaxDelay : Adds(timeouts, timeouts', [waiter |-> w, left |-> d])
         /\ Len(timeouts') = Len(Grown.slots)
<1>1. PICK g : g = Grown
  OBVIOUS
<1>2. PICK d \in 0 .. MaxDelay :
        /\ timeouts' = [g.slots EXCEPT ![g.free[1]] = [waiter |-> w, left |-> d]]
        /\ timeouts_free' = Tail(g.free)
  BY <1>1 DEF AwaitTimeout
<1>3. PICK x : x = [waiter |-> w, left |-> d]
  OBVIOUS
<1>4. x \in TimeSlot /\ x.waiter = w /\ x.waiter # None
  BY <1>3, RunloopAssumption DEF TimeSlot
<1>5. /\ g.slots \in Seq(TimeSlot) /\ ArrayOK(g.slots, g.free) /\ g.free # <<>>
      /\ DOMAIN timeouts \subseteq DOMAIN g.slots /\ Len(timeouts) <= Len(g.slots)
      /\ \A i \in DOMAIN g.slots :
           IF i \in DOMAIN timeouts THEN g.slots[i] = timeouts[i] ELSE g.slots[i].waiter = None
  BY <1>1, GrownIs
<1>6. \A i \in DOMAIN g.slots : g.slots[i].waiter # x.waiter
  <2>1. \A i \in DOMAIN timeouts : timeouts[i].waiter # w
    BY DEF AwaitTimeout, Idle, OnTimeout
  <2>2. QED
    BY <1>4, <1>5, <2>1
<1>7. timeouts' \in Seq(TimeSlot) /\ ArrayOK(timeouts', timeouts_free')
  BY <1>2, <1>3, <1>4, <1>5, <1>6, PutOK
<1>8. g.free[1] \in DOMAIN g.slots /\ g.slots[g.free[1]].waiter = None
  BY <1>5, ArrayIs
<1>9. /\ DOMAIN timeouts' = DOMAIN g.slots /\ Len(timeouts') = Len(g.slots)
      /\ timeouts'[g.free[1]] = x
      /\ \A j \in DOMAIN g.slots \ {g.free[1]} : timeouts'[j] = g.slots[j]
  BY <1>2, <1>3, <1>5, <1>8
<1>10. Adds(timeouts, timeouts', x)
  BY <1>5, <1>8, <1>9 DEF Adds
<1>11. QED
  BY <1>1, <1>3, <1>7, <1>9, <1>10

\* A waiter that is cancelled, or that runs, leaves its slot.
LEMMA FdFreed ==
  ASSUME SlotInv, NEW i \in DOMAIN fds, fds[i].waiter # None, NEW x \in FdSlot, x.waiter = None,
         fds' = [fds EXCEPT ![i] = x], fds_free' = <<i>> \o fds_free, UNCHANGED timeoutArray
  PROVE  /\ SlotInv'
         /\ DOMAIN fds' = DOMAIN fds /\ fds'[i] = x /\ \A j \in DOMAIN fds \ {i} : fds'[j] = fds[j]
<1>1. /\ fds \in Seq(FdSlot) /\ ArrayOK(fds, fds_free) /\ Apart
      /\ timeouts \in Seq(TimeSlot) /\ ArrayOK(timeouts, timeouts_free)
  BY DEF SlotInv
<1>2. fds' \in Seq(FdSlot) /\ ArrayOK(fds', fds_free')
  BY <1>1, ClearOK
<1>3. DOMAIN fds' = DOMAIN fds /\ fds'[i] = x /\ \A j \in DOMAIN fds \ {i} : fds'[j] = fds[j]
  BY <1>1
<1>4. Apart'
  BY <1>1, <1>3 DEF Apart, timeoutArray
<1>5. QED
  BY <1>1, <1>2, <1>3, <1>4 DEF SlotInv, timeoutArray

LEMMA TimeoutFreed ==
  ASSUME SlotInv, NEW i \in DOMAIN timeouts, timeouts[i].waiter # None, FreeTimeout(i),
         UNCHANGED fdArray
  PROVE  /\ SlotInv'
         /\ DOMAIN timeouts' = DOMAIN timeouts /\ Len(timeouts') = Len(timeouts)
         /\ timeouts'[i] = Unused /\ \A j \in DOMAIN timeouts \ {i} : timeouts'[j] = timeouts[j]
<1>1. /\ fds \in Seq(FdSlot) /\ ArrayOK(fds, fds_free) /\ Apart
      /\ timeouts \in Seq(TimeSlot) /\ ArrayOK(timeouts, timeouts_free)
  BY DEF SlotInv
<1>2. Unused \in TimeSlot /\ Unused.waiter = None
  BY RunloopAssumption DEF Unused, TimeSlot
<1>3. timeouts' = [timeouts EXCEPT ![i] = Unused] /\ timeouts_free' = <<i>> \o timeouts_free
  BY DEF FreeTimeout
<1>4. timeouts' \in Seq(TimeSlot) /\ ArrayOK(timeouts', timeouts_free')
  BY <1>1, <1>2, <1>3, ClearOK
<1>5. /\ DOMAIN timeouts' = DOMAIN timeouts /\ Len(timeouts') = Len(timeouts)
      /\ timeouts'[i] = Unused /\ \A j \in DOMAIN timeouts \ {i} : timeouts'[j] = timeouts[j]
  BY <1>1, <1>3
<1>6. Apart'
  BY <1>1, <1>2, <1>5 DEF Apart, fdArray
<1>7. QED
  BY <1>1, <1>4, <1>5, <1>6 DEF SlotInv, fdArray

\* Registering takes nobody's slot.
LEMMA AwaitFdOK ==
  ASSUME Inv, NEW w \in Waiters, AwaitFd(w)
  PROVE  Inv'
<1>1. SlotInv /\ ControlInv /\ PolledInv /\ OwedInv /\ Apart
  BY DEF Inv, SlotInv
<1>2. /\ fds' \in Seq(FdSlot) /\ ArrayOK(fds', fds_free')
      /\ Takes(fds, fds', Registered(w))
  BY <1>1, NewFd
<1>3. /\ UNCHANGED <<timeouts, timeouts_free, scheduled, phase, at, size, until, running, owed, fault>>
      /\ \A i \in DOMAIN timeouts : timeouts[i].waiter # w
  BY DEF AwaitFd, Idle, OnTimeout, timeoutArray, loop
<1>4. PICK i \in DOMAIN fds' :
        /\ DOMAIN fds' = DOMAIN fds \cup {i}
        /\ fds'[i].waiter = w /\ fds'[i].revents = FALSE
        /\ i \in DOMAIN fds => fds[i].waiter = None
        /\ \A j \in DOMAIN fds \ {i} : fds'[j] = fds[j]
  BY <1>2 DEF Takes, Registered
<1>5. SlotInv'
  <2>1. Apart'
    BY <1>1, <1>3, <1>4 DEF Apart
  <2>2. QED
    BY <1>1, <1>2, <1>3, <2>1 DEF SlotInv
<1>6. ControlInv'
  BY <1>1, <1>3 DEF ControlInv
<1>7. PolledInv'
  BY <1>1, <1>3, <1>4 DEF PolledInv
<1>8. OwedInv'
  <2>1. owed \subseteq Waiters /\ None \notin Waiters
    BY <1>1, RunloopAssumption DEF ControlInv
  <2>2. ASSUME NEW q \in owed, ReadyAt(q) PROVE ReadyAt(q)'
    BY <1>3, <1>4, <2>1, <2>2 DEF ReadyAt
  <2>3. \A q, lo, hi : DueAt(q, lo, hi)' <=> DueAt(q, lo, hi)
    BY <1>3 DEF DueAt
  <2>4. QED
    BY <1>1, <1>3, <2>2, <2>3 DEF OwedInv
<1>9. QED
  BY <1>5, <1>6, <1>7, <1>8 DEF Inv

LEMMA AwaitTimeoutOK ==
  ASSUME Inv, NEW w \in Waiters, AwaitTimeout(w)
  PROVE  Inv'
<1>1. SlotInv /\ ControlInv /\ PolledInv /\ OwedInv /\ Apart
  BY DEF Inv, SlotInv
<1>2. timeouts' \in Seq(TimeSlot) /\ ArrayOK(timeouts', timeouts_free')
  BY <1>1, NewTimeout
<1>3. /\ UNCHANGED <<fds, fds_free, scheduled, phase, at, size, until, running, owed, fault>>
      /\ \A i \in DOMAIN fds : fds[i].waiter # w
  BY DEF AwaitTimeout, Idle, OnFd, fdArray, loop
<1>4. /\ DOMAIN timeouts \subseteq DOMAIN timeouts' /\ Len(timeouts) <= Len(timeouts')
      /\ \E i \in DOMAIN timeouts' :
           /\ timeouts'[i].waiter = w
           /\ i \in DOMAIN timeouts => timeouts[i].waiter = None
           /\ \A j \in DOMAIN timeouts' \ {i} :
                IF j \in DOMAIN timeouts THEN timeouts'[j] = timeouts[j]
                ELSE timeouts'[j].waiter = None
  <2>1. PICK d \in 0 .. MaxDelay : Adds(timeouts, timeouts', [waiter |-> w, left |-> d])
    BY <1>1, NewTimeout
  <2>2. [waiter |-> w, left |-> d].waiter = w
    OBVIOUS
  <2>3. QED
    BY <2>1, <2>2 DEF Adds
<1>5. PICK i \in DOMAIN timeouts' :
        /\ timeouts'[i].waiter = w
        /\ i \in DOMAIN timeouts => timeouts[i].waiter = None
        /\ \A j \in DOMAIN timeouts' \ {i} :
             IF j \in DOMAIN timeouts THEN timeouts'[j] = timeouts[j]
             ELSE timeouts'[j].waiter = None
  BY <1>4
<1>6. SlotInv'
  <2>1. Apart'
    BY <1>1, <1>3, <1>5 DEF Apart
  <2>2. QED
    BY <1>1, <1>2, <1>3, <2>1 DEF SlotInv
<1>7. ControlInv' /\ PolledInv'
  BY <1>1, <1>3 DEF ControlInv, PolledInv
<1>8. OwedInv'
  <2>1. owed \subseteq Waiters /\ None \notin Waiters /\ at \in Nat /\ size \in Nat
    BY <1>1, RunloopAssumption DEF ControlInv
  <2>2. Len(timeouts) \in Nat /\ Len(timeouts') \in Nat /\ DOMAIN timeouts = 1 .. Len(timeouts)
    BY <1>1, <1>2, ArrayIs DEF SlotInv
  <2>3. ASSUME NEW q \in owed, NEW lo \in Nat, NEW hi \in Nat, DueAt(q, lo, hi)
        PROVE  DueAt(q, lo, hi)'
    BY <1>4, <1>5, <2>1, <2>3 DEF DueAt
  <2>4. \A q : ReadyAt(q) => ReadyAt(q)'
    BY <1>3 DEF ReadyAt
  <2>5. ASSUME NEW q \in owed, DueAt(q, 1, Len(timeouts)) PROVE DueAt(q, 1, Len(timeouts))'
    <3>1. PICK j \in DOMAIN timeouts : timeouts[j].waiter = q /\ timeouts[j].left = 0
      BY <2>5 DEF DueAt
    <3>2. j # i
      BY <1>5, <2>1, <3>1
    <3>3. j \in DOMAIN timeouts' /\ timeouts'[j] = timeouts[j] /\ 1 <= j /\ j <= Len(timeouts')
      BY <1>4, <1>5, <2>2, <3>1, <3>2
    <3>4. QED
      BY <3>1, <3>3 DEF DueAt
  <2>6. phase = "timeouts" => size <= Len(timeouts')
    BY <1>1, <1>4, <2>1, <2>2 DEF OwedInv
  <2>7. QED
    BY <1>1, <1>3, <2>1, <2>3, <2>4, <2>5, <2>6 DEF OwedInv
<1>9. QED
  BY <1>6, <1>7, <1>8 DEF Inv

\* A waiter that is cancelled is not owed anything.
LEMMA CancelOK ==
  ASSUME Inv, NEW w \in Waiters, Cancel(w)
  PROVE  Inv'
<1>1. SlotInv /\ ControlInv /\ PolledInv /\ OwedInv /\ Apart /\ ArrayOK(fds, fds_free) /\ w # None
  BY RunloopAssumption DEF Inv, SlotInv
<1>2. UNCHANGED <<scheduled, phase, at, size, until, running, fault>> /\ owed' = owed \ {w}
  BY DEF Cancel, loop
<1>3. ControlInv'
  BY <1>1, <1>2 DEF ControlInv
<1>4. ASSUME NEW i \in DOMAIN fds, fds[i].waiter = w, CancelFd(i), UNCHANGED timeoutArray
      PROVE  Inv'
  <2>1. PICK x : x = [waiter |-> None, revents |-> FALSE]
    OBVIOUS
  <2>2. x \in FdSlot /\ x.waiter = None /\ x.revents = FALSE
    BY <2>1 DEF FdSlot
  <2>3. fds' = [fds EXCEPT ![i] = x] /\ fds_free' = <<i>> \o fds_free
    BY <1>4, <2>1 DEF CancelFd
  <2>4. /\ SlotInv'
        /\ DOMAIN fds' = DOMAIN fds /\ fds'[i] = x /\ \A j \in DOMAIN fds \ {i} : fds'[j] = fds[j]
    BY <1>1, <1>4, <2>2, <2>3, FdFreed
  <2>5. timeouts' = timeouts
    BY <1>4 DEF timeoutArray
  <2>6. \A j \in DOMAIN fds \ {i} : fds[j].waiter # w
    BY <1>1, <1>4 DEF ArrayOK
  <2>7. PolledInv'
    BY <1>1, <1>2, <2>2, <2>4, <2>6 DEF PolledInv
  <2>8. OwedInv'
    <3>1. ASSUME NEW q \in owed \ {w}, ReadyAt(q) PROVE ReadyAt(q)'
      BY <1>2, <1>4, <2>4, <3>1 DEF ReadyAt
    <3>2. \A q, lo, hi : DueAt(q, lo, hi)' <=> DueAt(q, lo, hi)
      BY <2>5 DEF DueAt
    <3>3. QED
      BY <1>1, <1>2, <2>5, <3>1, <3>2 DEF OwedInv
  <2>9. QED
    BY <1>3, <2>4, <2>7, <2>8 DEF Inv
<1>5. ASSUME NEW i \in DOMAIN timeouts, timeouts[i].waiter = w, FreeTimeout(i), UNCHANGED fdArray
      PROVE  Inv'
  <2>1. /\ SlotInv' /\ fds' = fds
        /\ DOMAIN timeouts' = DOMAIN timeouts /\ Len(timeouts') = Len(timeouts)
        /\ \A j \in DOMAIN timeouts \ {i} : timeouts'[j] = timeouts[j]
    BY <1>1, <1>5, TimeoutFreed DEF fdArray
  <2>2. \A j \in DOMAIN fds : fds[j].waiter # w
    BY <1>1, <1>5 DEF Apart
  <2>3. PolledInv'
    BY <1>1, <1>2, <2>1, <2>2 DEF PolledInv
  <2>4. OwedInv'
    <3>1. \A q : ReadyAt(q)' <=> ReadyAt(q)
      BY <1>2, <2>1 DEF ReadyAt
    <3>2. ASSUME NEW q \in owed \ {w}, DueAt(q, 1, Len(timeouts))
          PROVE  DueAt(q, 1, Len(timeouts))'
      BY <1>5, <2>1, <3>2 DEF DueAt
    <3>3. ASSUME NEW q \in owed \ {w}, DueAt(q, at, size)
          PROVE  DueAt(q, at, size)'
      BY <1>2, <1>5, <2>1, <3>3 DEF DueAt
    <3>4. QED
      BY <1>1, <1>2, <2>1, <3>1, <3>2, <3>3 DEF OwedInv
  <2>5. QED
    BY <1>3, <2>1, <2>3, <2>4 DEF Inv
<1>6. QED
  BY <1>4, <1>5 DEF Cancel

LEMMA ArraysStay ==
  ASSUME UNCHANGED <<fds, fds_free, timeouts, timeouts_free>>
  PROVE  /\ SlotInv => SlotInv'
         /\ UNCHANGED <<at, phase, owed>> /\ PolledInv => PolledInv'
         /\ UNCHANGED <<at, phase, owed, size, fault>> /\ OwedInv => OwedInv'
<1>1. ASSUME SlotInv PROVE SlotInv'
  BY <1>1 DEF SlotInv, Apart
<1>2. ASSUME UNCHANGED <<at, phase, owed>>, PolledInv PROVE PolledInv'
  BY <1>2 DEF PolledInv
<1>3. ASSUME UNCHANGED <<at, phase, owed, size, fault>>, OwedInv PROVE OwedInv'
  BY <1>3 DEF OwedInv, ReadyAt, DueAt
<1>4. QED
  BY <1>1, <1>2, <1>3

LEMMA ScheduleOK ==
  ASSUME Inv, NEW w \in Waiters, Schedule(w)
  PROVE  Inv'
<1>1. /\ UNCHANGED <<fds, fds_free, timeouts, timeouts_free, phase, at, size, until, running, owed, fault>>
      /\ scheduled' = Append(scheduled, w)
      /\ ~Contains(scheduled, w)
  BY DEF Schedule, Idle, fdArray, timeoutArray, loop
<1>2. SlotInv' /\ PolledInv' /\ OwedInv'
  BY <1>1, ArraysStay DEF Inv
<1>3. ControlInv'
  <2>1. scheduled \in Seq(Waiters) /\ IsInjective(scheduled)
    BY DEF Inv, ControlInv
  <2>2. /\ scheduled' \in Seq(Waiters) /\ DOMAIN scheduled' = 1 .. Len(scheduled) + 1
        /\ scheduled'[Len(scheduled) + 1] = w
        /\ \A i \in 1 .. Len(scheduled) : scheduled'[i] = scheduled[i] /\ scheduled[i] # w
    BY <1>1, <2>1 DEF Contains
  <2>3. IsInjective(scheduled')
    BY <2>1, <2>2 DEF IsInjective
  <2>4. QED
    BY <1>1, <2>2, <2>3 DEF Inv, ControlInv
<1>4. QED
  BY <1>2, <1>3 DEF Inv

LEMMA ReturnOK ==
  ASSUME Inv, Return
  PROVE  Inv'
<1>1. /\ UNCHANGED <<fds, fds_free, timeouts, timeouts_free, scheduled, phase, at, size, until, owed, fault>>
      /\ running' = None
  BY DEF Return, fdArray, timeoutArray, loop
<1>2. SlotInv' /\ PolledInv' /\ OwedInv'
  BY <1>1, ArraysStay DEF Inv
<1>3. ControlInv'
  BY <1>1 DEF Inv, ControlInv
<1>4. QED
  BY <1>2, <1>3 DEF Inv

-----------------------------------------------------------------------------
(* What step() does.                                                       *)

\* How long step() waits is one of the timeouts.
LEMMA DeadlineType ==
  ASSUME SlotInv
  PROVE  Deadline \in {None} \union 0 .. MaxDelay
<1>1. Deadlines \subseteq 0 .. MaxDelay
  <2>1. \A i \in DOMAIN timeouts : timeouts[i] \in TimeSlot
    BY DEF SlotInv
  <2>2. QED
    BY <2>1 DEF Deadlines, TimeSlot
<1>2. CASE Deadlines = {}
  BY <1>2 DEF Deadline
<1>3. CASE Deadlines # {}
  <2>1. Deadlines \in SUBSET Nat
    BY <1>1
  <2>2. Min(Deadlines) \in Deadlines
    BY <1>3, <2>1, Least
  <2>3. QED
    BY <1>1, <1>3, <2>2 DEF Deadline
<1>4. QED
  BY <1>2, <1>3

LEMMA StepBeginsOK ==
  ASSUME Inv, StepBegins
  PROVE  Inv'
<1>1. /\ UNCHANGED <<fds, fds_free, timeouts, timeouts_free, scheduled, at, size, running, owed, fault>>
      /\ phase \in {"start", "scheduled"} /\ phase' = "poll" /\ fault = None
      /\ until' \in {0, Deadline}
  BY DEF StepBegins, InLoop, fdArray, timeoutArray
<1>2. SlotInv'
  BY <1>1, ArraysStay DEF Inv
<1>3. until' \in {None} \union 0 .. MaxDelay
  <2>1. Deadline \in {None} \union 0 .. MaxDelay
    BY DeadlineType DEF Inv
  <2>2. 0 \in 0 .. MaxDelay
    BY RunloopAssumption
  <2>3. QED
    BY <1>1, <2>1, <2>2
<1>4. ControlInv'
  BY <1>1, <1>3 DEF Inv, ControlInv
<1>5. PolledInv' /\ OwedInv'
  BY <1>1 DEF Inv, PolledInv, OwedInv
<1>6. QED
  BY <1>2, <1>4, <1>5 DEF Inv

LEMMA TickOK ==
  ASSUME Inv, Tick
  PROVE  Inv'
<1>1. /\ UNCHANGED <<fds, fds_free, timeouts_free, scheduled, phase, at, size, running, owed, fault>>
      /\ phase = "poll" /\ fault = None
      /\ until' = Less(until)
      /\ timeouts' = [i \in DOMAIN timeouts |-> [timeouts[i] EXCEPT !.left = Less(@)]]
  BY DEF Tick, InLoop, fdArray
<1>2. /\ fds \in Seq(FdSlot) /\ ArrayOK(fds, fds_free) /\ Apart
      /\ timeouts \in Seq(TimeSlot) /\ ArrayOK(timeouts, timeouts_free)
  BY DEF Inv, SlotInv
<1>3. \A t \in {None} \union 0 .. MaxDelay : Less(t) \in {None} \union 0 .. MaxDelay
  BY RunloopAssumption DEF Less
<1>4. /\ DOMAIN timeouts = 1 .. Len(timeouts) /\ Len(timeouts) \in Nat
      /\ \A i \in DOMAIN timeouts : timeouts[i] \in TimeSlot
  BY <1>2
<1>5. timeouts' \in Seq(TimeSlot) /\ DOMAIN timeouts' = DOMAIN timeouts
      /\ Len(timeouts') = Len(timeouts)
      /\ \A i \in DOMAIN timeouts : timeouts'[i].waiter = timeouts[i].waiter
  <2>1. ASSUME NEW i \in DOMAIN timeouts
        PROVE  /\ [timeouts[i] EXCEPT !.left = Less(@)] \in TimeSlot
               /\ [timeouts[i] EXCEPT !.left = Less(@)].waiter = timeouts[i].waiter
    <3>1. timeouts[i] \in TimeSlot
      BY <1>4
    <3>2. Less(timeouts[i].left) \in 0 .. MaxDelay
      BY <3>1, RunloopAssumption DEF TimeSlot, Less
    <3>3. QED
      BY <3>1, <3>2 DEF TimeSlot
  <2>2. /\ timeouts' \in [1 .. Len(timeouts) -> TimeSlot]
        /\ \A i \in DOMAIN timeouts : timeouts'[i] = [timeouts[i] EXCEPT !.left = Less(@)]
    BY <1>1, <1>4, <2>1
  <2>3. timeouts' \in Seq(TimeSlot) /\ Len(timeouts') = Len(timeouts) /\ DOMAIN timeouts' = DOMAIN timeouts
    BY <1>4, <2>2
  <2>4. QED
    BY <2>1, <2>2, <2>3
<1>6. SlotInv'
  <2>1. ArrayOK(timeouts', timeouts_free)
    BY <1>2, <1>5, StayOK
  <2>2. Apart'
    BY <1>1, <1>2, <1>5 DEF Apart
  <2>3. QED
    BY <1>1, <1>2, <1>5, <2>1, <2>2 DEF SlotInv
<1>7. ControlInv'
  BY <1>1, <1>3 DEF Inv, ControlInv
<1>8. PolledInv' /\ OwedInv'
  BY <1>1 DEF Inv, PolledInv, OwedInv
<1>9. QED
  BY <1>6, <1>7, <1>8 DEF Inv

\* What ppoll() reports is owed, and in front of the loops.
LEMMA PollReturnsOK ==
  ASSUME Inv, PollReturns
  PROVE  Inv'
<1>1. /\ UNCHANGED <<fds_free, timeouts, timeouts_free, scheduled, size, fault>>
      /\ phase' = "fds" /\ at' = 1 /\ until' = None
  BY DEF PollReturns, timeoutArray
<1>2. PICK ready \in SUBSET {i \in DOMAIN fds : fds[i].waiter # None} :
        /\ fds' = [i \in DOMAIN fds |-> [fds[i] EXCEPT !.revents = i \in ready]]
        /\ owed' = {fds[i].waiter : i \in ready} \union Due
        /\ running' \in {Main, None}
  BY DEF PollReturns
<1>3. /\ fds \in Seq(FdSlot) /\ ArrayOK(fds, fds_free) /\ Apart
      /\ timeouts \in Seq(TimeSlot) /\ ArrayOK(timeouts, timeouts_free)
  BY DEF Inv, SlotInv
<1>4. /\ DOMAIN fds = 1 .. Len(fds) /\ Len(fds) \in Nat
      /\ \A i \in DOMAIN fds : fds[i] \in FdSlot
  BY <1>3
<1>5. /\ fds' \in Seq(FdSlot) /\ DOMAIN fds' = DOMAIN fds /\ Len(fds') = Len(fds)
      /\ \A i \in DOMAIN fds : fds'[i].waiter = fds[i].waiter /\ (fds'[i].revents <=> i \in ready)
  <2>1. ASSUME NEW i \in DOMAIN fds
        PROVE  /\ [fds[i] EXCEPT !.revents = i \in ready] \in FdSlot
               /\ [fds[i] EXCEPT !.revents = i \in ready].waiter = fds[i].waiter
               /\ [fds[i] EXCEPT !.revents = i \in ready].revents <=> i \in ready
    <3>1. fds[i] \in FdSlot
      BY <1>4
    <3>2. PICK b \in BOOLEAN : b <=> i \in ready
      OBVIOUS
    <3>3. (i \in ready) = b
      BY <3>2
    <3>4. QED
      BY <3>1, <3>2, <3>3 DEF FdSlot
  <2>2. /\ fds' \in [1 .. Len(fds) -> FdSlot]
        /\ \A i \in DOMAIN fds : fds'[i] = [fds[i] EXCEPT !.revents = i \in ready]
    BY <1>2, <1>4, <2>1
  <2>3. fds' \in Seq(FdSlot) /\ Len(fds') = Len(fds) /\ DOMAIN fds' = DOMAIN fds
    BY <1>4, <2>2
  <2>4. QED
    BY <2>1, <2>2, <2>3
<1>6. SlotInv'
  <2>1. ArrayOK(fds', fds_free)
    BY <1>3, <1>5, StayOK
  <2>2. Apart'
    BY <1>1, <1>3, <1>5 DEF Apart
  <2>3. QED
    BY <1>1, <1>3, <1>5, <2>1, <2>2 DEF SlotInv
<1>7. owed' \subseteq Waiters
  <2>1. \A i \in ready : fds[i].waiter \in Waiters
    BY <1>4 DEF FdSlot
  <2>2. QED
    BY <1>2, <2>1 DEF Due
<1>8. ControlInv'
  BY <1>1, <1>2, <1>7 DEF Inv, ControlInv
<1>9. PolledInv'
  BY <1>2, <1>5 DEF PolledInv
<1>10. OwedInv'
  <2> SUFFICES ASSUME NEW w \in owed' PROVE ReadyAt(w)' \/ DueAt(w, 1, Len(timeouts))'
    BY <1>1 DEF OwedInv
  <2>1. ASSUME NEW i \in ready, w = fds[i].waiter PROVE ReadyAt(w)'
    BY <1>1, <1>4, <1>5, <2>1 DEF ReadyAt
  <2>2. ASSUME w \in Due PROVE DueAt(w, 1, Len(timeouts))'
    <3>1. PICK i \in DOMAIN timeouts : timeouts[i] = [waiter |-> w, left |-> 0]
      BY <2>2 DEF Due
    <3>2. timeouts[i].waiter = w /\ timeouts[i].left = 0 /\ 1 <= i /\ i <= Len(timeouts)
      BY <1>3, <3>1
    <3>3. QED
      BY <1>1, <3>2 DEF DueAt
  <2>3. QED
    BY <1>2, <2>1, <2>2
<1>11. QED
  BY <1>6, <1>8, <1>9, <1>10 DEF Inv

\* The next descriptor's waiter is one that ppoll() reported, and all others that it
\* reported are behind.
LEMMA NextReady ==
  ASSUME Inv, RunFd
  PROVE  \E i \in DOMAIN fds :
           /\ at <= i /\ fds[i].revents /\ fds[i].waiter \in owed
           /\ i = Min(ReadyFds) /\ i \in Nat
           /\ \A j \in DOMAIN fds : at <= j /\ fds[j].revents /\ j # i => i + 1 <= j
<1>1. SlotInv /\ ControlInv /\ PolledInv /\ fds \in Seq(FdSlot)
  BY DEF Inv, SlotInv
<1>2. DOMAIN fds \subseteq Nat /\ at \in Nat
  BY <1>1 DEF ControlInv
<1>3. ReadyFds \in SUBSET Nat /\ ReadyFds # {}
  BY <1>2 DEF ReadyFds, RunFd
<1>4. Min(ReadyFds) \in ReadyFds /\ \A j \in ReadyFds : Min(ReadyFds) <= j
  BY <1>3, Least
<1>5. PICK i \in DOMAIN fds : i = Min(ReadyFds) /\ at <= i /\ fds[i].revents
  BY <1>2, <1>4 DEF ReadyFds
<1>6. fds[i].waiter \in owed
  BY <1>1, <1>5 DEF PolledInv, RunFd, InLoop
<1>7. ASSUME NEW j \in DOMAIN fds, at <= j, fds[j].revents, j # i PROVE i + 1 <= j
  <2>1. j \in ReadyFds
    BY <1>2, <1>7 DEF ReadyFds
  <2>2. QED
    BY <1>2, <1>4, <1>5, <1>7, <2>1
<1>8. QED
  BY <1>2, <1>5, <1>6, <1>7

LEMMA RunFdOK ==
  ASSUME Inv, RunFd
  PROVE  Inv' /\ fault' = None
<1>1. SlotInv /\ ControlInv /\ PolledInv /\ OwedInv /\ ArrayOK(fds, fds_free) /\ fds \in Seq(FdSlot)
  BY DEF Inv, SlotInv
<1>2. PICK i \in DOMAIN fds :
        /\ at <= i /\ fds[i].revents /\ fds[i].waiter \in owed
        /\ i = Min(ReadyFds) /\ i \in Nat
        /\ \A j \in DOMAIN fds : at <= j /\ fds[j].revents /\ j # i => i + 1 <= j
  BY NextReady
<1>3. PICK w \in Waiters : w = fds[i].waiter
  BY <1>1, <1>2 DEF ControlInv
<1>4. /\ UNCHANGED <<timeouts, timeouts_free, scheduled, phase, size, until>>
      /\ fds' = [fds EXCEPT ![i].waiter = None] /\ fds_free' = <<i>> \o fds_free
      /\ running' = w /\ owed' = owed \ {w} /\ at' = i + 1
      /\ fault' = IF w = None THEN "no_waiter" ELSE None
      /\ phase = "fds"
  BY <1>2, <1>3 DEF RunFd, InLoop, timeoutArray
<1>5. w # None
  BY RunloopAssumption
<1>6. PICK x : x = [waiter |-> None, revents |-> fds[i].revents]
  OBVIOUS
<1>7. x \in FdSlot /\ x.waiter = None /\ fds' = [fds EXCEPT ![i] = x]
  <2>1. fds[i] \in FdSlot
    BY <1>1
  <2>2. [fds[i] EXCEPT !.waiter = None] = x
    BY <1>6, <2>1 DEF FdSlot
  <2>3. QED
    BY <1>4, <1>6, <2>1, <2>2 DEF FdSlot
<1>8. /\ SlotInv'
      /\ DOMAIN fds' = DOMAIN fds /\ fds'[i] = x /\ \A j \in DOMAIN fds \ {i} : fds'[j] = fds[j]
  BY <1>1, <1>3, <1>4, <1>5, <1>7, FdFreed DEF timeoutArray
<1>9. at \in Nat /\ DOMAIN fds \subseteq Nat /\ \A j \in DOMAIN fds \ {i} : fds[j].waiter # w
  BY <1>1, <1>3, <1>5 DEF ControlInv, ArrayOK
<1>10. \A j \in DOMAIN fds : at' <= j <=> (i + 1 <= j)
  BY <1>4
<1>11. ControlInv'
  BY <1>1, <1>2, <1>4 DEF ControlInv
<1>12. PolledInv'
  <2> SUFFICES ASSUME NEW j \in DOMAIN fds, i + 1 <= j, fds'[j].revents PROVE fds'[j].waiter \in owed \ {w}
    BY <1>4, <1>8 DEF PolledInv
  <2>1. j # i /\ at <= j
    BY <1>2, <1>9
  <2>2. fds[j].waiter \in owed
    BY <1>1, <1>4, <1>8, <2>1 DEF PolledInv
  <2>3. QED
    BY <1>8, <1>9, <2>1, <2>2
<1>13. OwedInv'
  <2> SUFFICES ASSUME NEW q \in owed \ {w} PROVE ReadyAt(q)' \/ DueAt(q, 1, Len(timeouts))'
    BY <1>4 DEF OwedInv
  <2>1. CASE ReadyAt(q)
    <3>1. PICK j \in DOMAIN fds : at <= j /\ fds[j].waiter = q /\ fds[j].revents
      BY <2>1 DEF ReadyAt
    <3>2. j # i
      BY <1>3, <3>1
    <3>3. i + 1 <= j
      BY <1>2, <3>1, <3>2
    <3>4. QED
      BY <1>4, <1>8, <3>1, <3>2, <3>3 DEF ReadyAt
  <2>2. CASE DueAt(q, 1, Len(timeouts))
    BY <1>4, <2>2 DEF DueAt
  <2>3. QED
    BY <1>1, <1>4, <2>1, <2>2 DEF OwedInv
<1>14. QED
  BY <1>4, <1>5, <1>8, <1>11, <1>12, <1>13 DEF Inv

LEMMA FdsDoneOK ==
  ASSUME Inv, FdsDone
  PROVE  Inv'
<1>1. /\ UNCHANGED <<fds, fds_free, timeouts, timeouts_free, scheduled, until, running, owed, fault>>
      /\ phase = "fds" /\ ReadyFds = {}
      /\ phase' = "timeouts" /\ at' = 1 /\ size' = Len(timeouts)
  BY DEF FdsDone, InLoop, fdArray, timeoutArray
<1>2. SlotInv' /\ PolledInv'
  BY <1>1, ArraysStay DEF Inv, PolledInv
<1>3. Len(timeouts) \in Nat /\ timeouts \in Seq(TimeSlot) /\ fds \in Seq(FdSlot) /\ at \in Nat
  BY DEF Inv, SlotInv, ControlInv
<1>4. ControlInv'
  BY <1>1, <1>3 DEF Inv, ControlInv
<1>5. OwedInv'
  <2>1. ASSUME NEW w \in owed PROVE DueAt(w, 1, Len(timeouts))
    <3>1. ~ReadyAt(w)
      BY <1>1, <1>3 DEF ReadyAt, ReadyFds
    <3>2. QED
      BY <1>1, <3>1 DEF Inv, OwedInv
  <2>2. ASSUME NEW w \in owed PROVE DueAt(w, at, size)'
    BY <1>1, <2>1 DEF DueAt
  <2>3. QED
    BY <1>1, <1>3, <2>2 DEF OwedInv
<1>6. QED
  BY <1>2, <1>4, <1>5 DEF Inv

LEMMA RunTimeoutOK ==
  ASSUME Inv, RunTimeout
  PROVE  Inv' /\ fault' = None
<1>1. SlotInv /\ ControlInv /\ OwedInv /\ timeouts \in Seq(TimeSlot)
  BY DEF Inv, SlotInv
<1>2. DOMAIN timeouts \subseteq Nat /\ at \in Nat
  BY <1>1 DEF ControlInv
<1>3. DueTimeouts \in SUBSET Nat /\ DueTimeouts # {}
  BY <1>2 DEF DueTimeouts, RunTimeout
<1>4. Min(DueTimeouts) \in DueTimeouts /\ \A j \in DueTimeouts : Min(DueTimeouts) <= j
  BY <1>3, Least
<1>5. PICK i \in DOMAIN timeouts :
        i = Min(DueTimeouts) /\ at <= i /\ timeouts[i].waiter # None /\ timeouts[i].left = 0
  BY <1>2, <1>4 DEF DueTimeouts
<1>6. PICK w \in Waiters : w = timeouts[i].waiter
  <2>1. timeouts[i] \in TimeSlot
    BY <1>1
  <2>2. QED
    BY <1>5, <2>1 DEF TimeSlot
<1>7. /\ UNCHANGED <<fds, fds_free, scheduled, phase, size, until, fault>>
      /\ FreeTimeout(i)
      /\ running' = w /\ owed' = owed \ {w} /\ at' = i + 1
      /\ phase = "timeouts" /\ fault = None
  BY <1>5, <1>6 DEF RunTimeout, InLoop, fdArray, NextSlot
<1>8. /\ SlotInv'
      /\ DOMAIN timeouts' = DOMAIN timeouts /\ Len(timeouts') = Len(timeouts)
      /\ \A j \in DOMAIN timeouts \ {i} : timeouts'[j] = timeouts[j]
  BY <1>1, <1>5, <1>7, TimeoutFreed DEF fdArray
<1>9. ControlInv' /\ PolledInv'
  BY <1>1, <1>2, <1>7 DEF ControlInv, PolledInv
<1>10. OwedInv'
  <2> SUFFICES ASSUME NEW q \in owed \ {w} PROVE DueAt(q, at, size)'
    BY <1>1, <1>7, <1>8 DEF OwedInv
  <2>1. PICK j \in DOMAIN timeouts :
          at <= j /\ j <= size /\ timeouts[j].waiter = q /\ timeouts[j].left = 0
    BY <1>1, <1>7 DEF OwedInv, DueAt
  <2>2. j # i /\ q # None
    BY <1>1, <1>6, <2>1, RunloopAssumption DEF ControlInv
  <2>3. j \in DueTimeouts
    BY <1>2, <2>1, <2>2 DEF DueTimeouts
  <2>4. i + 1 <= j
    BY <1>2, <1>4, <1>5, <2>2, <2>3
  <2>5. QED
    BY <1>7, <1>8, <2>1, <2>2, <2>4 DEF DueAt
<1>11. QED
  BY <1>7, <1>8, <1>9, <1>10 DEF Inv

\* The loop ends with nobody owed anything, unless the array it walks is gone.
LEMMA TimeoutsDoneOK ==
  ASSUME Inv, TimeoutsDone
  PROVE  Inv' /\ fault' \in {None, "dangling"}
<1>1. /\ UNCHANGED <<fds, fds_free, timeouts, timeouts_free, scheduled, until, running, owed>>
      /\ phase = "timeouts" /\ phase' = "scheduled" /\ at' = 1 /\ size' = 0
      /\ fault' = IF Walks /\ Reallocated THEN "dangling" ELSE None
      /\ Walks => Reallocated \/ DueTimeouts = {}
  BY DEF TimeoutsDone, InLoop, fdArray, timeoutArray
<1>2. SlotInv' /\ ControlInv' /\ PolledInv'
  BY <1>1, ArraysStay DEF Inv, ControlInv, PolledInv
<1>3. ASSUME fault' = None, NEW w \in owed PROVE FALSE
  <2>1. ~(Walks /\ Reallocated)
    BY <1>1, <1>3, RunloopAssumption
  <2>2. PICK i \in DOMAIN timeouts :
          at <= i /\ i <= size /\ timeouts[i].waiter = w /\ timeouts[i].left = 0
    BY <1>1 DEF Inv, OwedInv, DueAt
  <2>3. at \in Nat /\ size \in Nat /\ i \in Nat /\ w \in Waiters
    BY <2>2 DEF Inv, SlotInv, ControlInv
  <2>4. Walks
    BY <2>2, <2>3 DEF Walks
  <2>5. i \in DueTimeouts
    BY <2>2, <2>3, RunloopAssumption DEF DueTimeouts
  <2>6. QED
    BY <1>1, <2>1, <2>4, <2>5
<1>4. OwedInv'
  BY <1>1, <1>3 DEF OwedInv
<1>5. QED
  BY <1>1, <1>2, <1>4 DEF Inv

LEMMA RunScheduledOK ==
  ASSUME Inv, RunScheduled
  PROVE  Inv'
<1>1. /\ UNCHANGED <<fds, fds_free, timeouts, timeouts_free, phase, at, size, until, owed, fault>>
      /\ scheduled # <<>> /\ scheduled' = Tail(scheduled) /\ running' = Head(scheduled)
  BY DEF RunScheduled, fdArray, timeoutArray
<1>2. SlotInv' /\ PolledInv' /\ OwedInv'
  BY <1>1, ArraysStay DEF Inv
<1>3. ControlInv'
  <2>1. scheduled \in Seq(Waiters) /\ IsInjective(scheduled)
    BY DEF Inv, ControlInv
  <2>2. /\ scheduled' \in Seq(Waiters) /\ DOMAIN scheduled' = 1 .. Len(scheduled) - 1
        /\ running' \in Waiters
        /\ \A i \in 1 .. Len(scheduled) - 1 :
             scheduled'[i] = scheduled[i + 1] /\ i + 1 \in DOMAIN scheduled
    BY <1>1, <2>1
  <2>3. IsInjective(scheduled')
    <3> SUFFICES ASSUME NEW i \in DOMAIN scheduled', NEW j \in DOMAIN scheduled',
                        scheduled'[i] = scheduled'[j]
                 PROVE  i = j
      BY DEF IsInjective
    <3>1. i + 1 = j + 1
      BY <2>1, <2>2 DEF IsInjective
    <3>2. QED
      BY <2>2, <3>1
  <2>4. QED
    BY <1>1, <2>2, <2>3 DEF Inv, ControlInv
<1>4. QED
  BY <1>2, <1>3 DEF Inv

LEMMA InvInit == Init => Inv
<1> SUFFICES ASSUME Init PROVE Inv
  OBVIOUS
<1>1. /\ fds = <<>> /\ fds_free = <<>> /\ timeouts = <<>> /\ timeouts_free = <<>>
      /\ scheduled = <<>> /\ phase = "start" /\ at = 1 /\ size = 0 /\ until = None
      /\ running = Main /\ owed = {}
  BY DEF Init
<1>2. ArrayOK(<<>>, <<>>)
  <2>1. FreeSlots(<<>>) = {} /\ Len(<<>>) = 0 /\ DOMAIN <<>> = {}
    BY DEF FreeSlots
  <2>2. FreeIs(0, {}, <<>>)
    BY DEF FreeIs
  <2>3. QED
    BY <2>1, <2>2 DEF ArrayOK
<1>3. SlotInv
  BY <1>1, <1>2 DEF SlotInv, Apart
<1>4. ControlInv
  BY <1>1 DEF ControlInv, IsInjective
<1>5. PolledInv /\ OwedInv
  BY <1>1 DEF PolledInv, OwedInv
<1>6. QED
  BY <1>3, <1>4, <1>5 DEF Inv

LEMMA InvNext == Inv /\ [Next]_vars => Inv'
<1> SUFFICES ASSUME Inv, [Next]_vars PROVE Inv'
  OBVIOUS
<1>1. ASSUME NEW w \in Waiters, AwaitFd(w) \/ AwaitTimeout(w) \/ Cancel(w) \/ Schedule(w)
      PROVE  Inv'
  BY <1>1, AwaitFdOK, AwaitTimeoutOK, CancelOK, ScheduleOK
<1>2. CASE Return
  BY <1>2, ReturnOK
<1>3. CASE Step
  BY <1>3, StepBeginsOK, PollReturnsOK, RunFdOK, FdsDoneOK, RunTimeoutOK, TimeoutsDoneOK,
     RunScheduledOK DEF Step
<1>4. CASE Tick
  BY <1>4, TickOK
<1>5. CASE UNCHANGED vars
  <2>1. UNCHANGED <<fds, fds_free, timeouts, timeouts_free, scheduled, phase, at, size, until,
                    running, owed, fault>>
    BY <1>5 DEF vars
  <2>2. SlotInv' /\ PolledInv' /\ OwedInv'
    BY <2>1, ArraysStay DEF Inv
  <2>3. ControlInv'
    BY <2>1 DEF Inv, ControlInv
  <2>4. QED
    BY <2>2, <2>3 DEF Inv
<1>6. QED
  BY <1>1, <1>2, <1>3, <1>4, <1>5 DEF Next

LEMMA Invariance == Spec => []Inv
BY InvInit, InvNext, PTL DEF Spec

LEMMA SlotsKept == Inv => TypeOK /\ NoSlotLost
<1> SUFFICES ASSUME Inv PROVE TypeOK /\ NoSlotLost
  OBVIOUS
<1>1. /\ fds \in Seq(FdSlot) /\ ArrayOK(fds, fds_free)
      /\ timeouts \in Seq(TimeSlot) /\ ArrayOK(timeouts, timeouts_free)
      /\ ControlInv
  BY DEF Inv, SlotInv
<1>2. /\ DOMAIN fds = 1 .. Len(fds)
      /\ FreeIs(Len(fds), FreeSlots(fds), fds_free)
      /\ DOMAIN timeouts = 1 .. Len(timeouts)
      /\ FreeIs(Len(timeouts), FreeSlots(timeouts), timeouts_free)
  BY <1>1 DEF ArrayOK
<1>3. IsInjective(fds_free) /\ IsInjective(timeouts_free)
  <2>1. ASSUME NEW n, NEW E, NEW f, FreeIs(n, E, f) PROVE IsInjective(f)
    <3>1. DOMAIN f = 1 .. Len(f)
      BY <2>1 DEF FreeIs
    <3>2. QED
      BY <2>1, <3>1 DEF FreeIs, IsInjective
  <2>2. QED
    BY <1>2, <2>1
<1>4. TypeOK
  BY <1>1, <1>3 DEF TypeOK, ControlInv, FdSlot, TimeSlot
<1>5. \A i \in DOMAIN fds : (fds[i].waiter = None) <=> Contains(fds_free, i)
  BY <1>2 DEF FreeIs, FreeSlots, Contains
<1>6. \A i \in DOMAIN timeouts : (timeouts[i].waiter = None) <=> Contains(timeouts_free, i)
  BY <1>2 DEF FreeIs, FreeSlots, Contains
<1>7. QED
  BY <1>4, <1>5, <1>6 DEF NoSlotLost

-----------------------------------------------------------------------------
(* With room for all timeouts the array stays where it is.                 *)

Room ==
  /\ Len(timeouts) \in {0, TimeoutSlots}
  /\ phase = "timeouts" => size \in {0, Len(timeouts)}
  /\ fault = None

\* There is a free slot for somebody who does not wait yet.
LEMMA SlotLeft ==
  ASSUME IsFiniteSet(Waiters), Cardinality(Waiters) <= TimeoutSlots, SlotInv,
         Len(timeouts) = TimeoutSlots, NEW w \in Waiters, ~OnTimeout(w)
  PROVE  timeouts_free # <<>>
<1> SUFFICES ASSUME timeouts_free = <<>> PROVE FALSE
  OBVIOUS
<1>1. timeouts \in Seq(TimeSlot) /\ ArrayOK(timeouts, timeouts_free) /\ TimeoutSlots \in Nat
  BY RunloopAssumption DEF SlotInv
<1>2. DOMAIN timeouts = 1 .. TimeoutSlots /\ \A i \in DOMAIN timeouts : timeouts[i].waiter # None
  BY <1>1, ArrayIs
<1>3. PICK f : f = [i \in 1 .. TimeoutSlots |-> timeouts[i].waiter]
  OBVIOUS
<1>4. f \in [1 .. TimeoutSlots -> Waiters \ {w}]
  <2>1. ASSUME NEW i \in 1 .. TimeoutSlots PROVE timeouts[i].waiter \in Waiters \ {w}
    <3>1. timeouts[i] \in TimeSlot /\ timeouts[i].waiter # None /\ timeouts[i].waiter # w
      BY <1>1, <1>2 DEF OnTimeout
    <3>2. QED
      BY <3>1 DEF TimeSlot
  <2>2. QED
    BY <1>3, <2>1
<1>5. IsFiniteSet(1 .. TimeoutSlots) /\ Cardinality(1 .. TimeoutSlots) = TimeoutSlots
  BY <1>1, FS_Interval, RunloopAssumption
<1>6. /\ IsFiniteSet(Waiters \ {w}) /\ Cardinality(Waiters \ {w}) = Cardinality(Waiters) - 1
      /\ Cardinality(Waiters) \in Nat
  BY FS_RemoveElement, FS_CardinalityType
<1>7. Cardinality(Waiters \ {w}) < Cardinality(1 .. TimeoutSlots)
  BY <1>1, <1>5, <1>6
<1>8. \E i, j \in 1 .. TimeoutSlots : i # j /\ f[i] = f[j]
  BY <1>4, <1>5, <1>6, <1>7, FS_PigeonHole
<1>9. QED
  BY <1>1, <1>2, <1>3, <1>8 DEF ArrayOK

LEMMA RoomNext ==
  ASSUME IsFiniteSet(Waiters), Cardinality(Waiters) <= TimeoutSlots, Inv, Room, [Next]_vars
  PROVE  Room'
<1>1. /\ SlotInv /\ ControlInv /\ timeouts \in Seq(TimeSlot) /\ Len(timeouts) \in Nat
      /\ at \in Nat /\ at > 0 /\ size \in Nat
  BY DEF Inv, SlotInv, ControlInv
<1>2. ASSUME NEW w \in Waiters, AwaitTimeout(w) PROVE Room'
  <2>1. Len(timeouts') = Len(Grown.slots) /\ UNCHANGED <<phase, size, fault>> /\ ~OnTimeout(w)
    BY <1>1, <1>2, NewTimeout DEF AwaitTimeout, loop, Idle
  <2>2. CASE timeouts_free # <<>>
    BY <1>1, <2>1, <2>2, GrownIs DEF Room
  <2>3. CASE timeouts_free = <<>>
    <3>1. Len(timeouts) = 0
      BY <1>1, <2>1, <2>3, SlotLeft DEF Room
    <3>2. Len(timeouts') = TimeoutSlots
      BY <1>1, <2>1, <2>3, <3>1, GrownIs
    <3>3. QED
      BY <2>1, <3>1, <3>2 DEF Room
  <2>4. QED
    BY <2>2, <2>3
<1>3. ASSUME Len(timeouts') = Len(timeouts), UNCHANGED <<phase, size>>, fault' = None PROVE Room'
  BY <1>3 DEF Room
<1>4. ASSUME NEW w \in Waiters, AwaitFd(w) \/ Schedule(w) PROVE Room'
  BY <1>3, <1>4 DEF AwaitFd, Schedule, timeoutArray, loop, Room
<1>5. ASSUME NEW w \in Waiters, Cancel(w) PROVE Room'
  <2>1. UNCHANGED <<phase, size, fault>>
    BY <1>5 DEF Cancel, loop
  <2>2. Len(timeouts') = Len(timeouts)
    BY <1>1, <1>5, TimeoutFreed, RunloopAssumption DEF Cancel, timeoutArray
  <2>3. QED
    BY <1>3, <2>1, <2>2 DEF Room
<1>6. CASE Return \/ RunScheduled \/ UNCHANGED vars
  BY <1>3, <1>6 DEF Return, RunScheduled, vars, timeoutArray, loop, Room
<1>7. CASE StepBegins \/ PollReturns
  BY <1>7 DEF StepBegins, PollReturns, timeoutArray, Room
<1>8. CASE Tick
  <2>1. Len(timeouts') = Len(timeouts)
    BY <1>1, <1>8 DEF Tick
  <2>2. QED
    BY <1>3, <1>8, <2>1 DEF Tick, Room
<1>9. CASE RunFd
  <2>1. UNCHANGED <<timeouts, phase, size>>
    BY <1>9 DEF RunFd, timeoutArray
  <2>2. QED
    BY <1>3, <1>9, <2>1, RunFdOK
<1>10. CASE FdsDone
  BY <1>10 DEF FdsDone, timeoutArray, Room
<1>11. CASE RunTimeout
  <2>1. UNCHANGED <<phase, size>> /\ fault' = None
    BY <1>11, RunTimeoutOK DEF RunTimeout
  <2>2. Len(timeouts') = Len(timeouts)
    <3>1. DueTimeouts # {} /\ DueTimeouts \in SUBSET Nat
      BY <1>1, <1>11 DEF RunTimeout, DueTimeouts
    <3>2. Min(DueTimeouts) \in DueTimeouts
      BY <3>1, Least
    <3>3. QED
      BY <1>1, <1>11, <3>2, TimeoutFreed DEF RunTimeout, DueTimeouts
  <2>3. QED
    BY <1>3, <2>1, <2>2
<1>12. CASE TimeoutsDone
  <2>1. /\ UNCHANGED timeouts /\ phase' = "scheduled" /\ phase = "timeouts"
        /\ fault' = IF Walks /\ Reallocated THEN "dangling" ELSE None
    BY <1>12 DEF TimeoutsDone, InLoop, timeoutArray
  <2>2. ~(Walks /\ Reallocated)
    BY <1>1, <2>1 DEF Walks, Reallocated, Room
  <2>3. QED
    BY <2>1, <2>2 DEF Room
<1>13. QED
  BY <1>2, <1>4, <1>5, <1>6, <1>7, <1>8, <1>9, <1>10, <1>11, <1>12 DEF Next, Step

-----------------------------------------------------------------------------
(* The results.                                                            *)

\* However many timeouts there are and however the arrays grow, a slot is on its freelist
\* exactly while nobody waits in it, also inside activate() and cancel().
THEOREM SlotsAreKept == Spec => [](TypeOK /\ NoSlotLost)
BY Invariance, SlotsKept, PTL

\* Whoever ppoll() reported, or was due, has run or been cancelled when step() is through
\* with its loops, unless the loop over timeouts found its array reallocated.
THEOREM NobodyIsSkipped == Spec => [](fault = None => OwedIsPaid)
<1>1. Inv => (fault = None => OwedIsPaid)
  BY DEF Inv, OwedInv, OwedIsPaid
<1>2. QED
  BY <1>1, Invariance, PTL

\* The loop over the descriptors runs nobody whom ppoll() did not report, whoever was
\* cancelled and whoever took a slot meanwhile.
THEOREM OnlyPolled == Spec => OnlyPolledRun
<1>1. ASSUME Inv, [Next]_vars, phase = "fds", running = None, running' # None
      PROVE  running' \in owed
  <2>1. CASE RunFd
    <3>1. PICK i \in DOMAIN fds : fds[i].waiter \in owed /\ i = Min(ReadyFds)
      BY <1>1, <2>1, NextReady
    <3>2. QED
      BY <2>1, <3>1 DEF RunFd
  <2>2. CASE ~RunFd
    <3>1. \A w \in Waiters : ~AwaitFd(w) /\ ~AwaitTimeout(w) /\ ~Cancel(w) /\ ~Schedule(w)
      BY <1>1 DEF AwaitFd, AwaitTimeout, Cancel, Schedule
    <3>2. ~Return /\ ~StepBegins /\ ~PollReturns /\ ~RunTimeout /\ ~TimeoutsDone /\ ~RunScheduled /\ ~Tick
      BY <1>1 DEF Return, StepBegins, PollReturns, RunTimeout, TimeoutsDone, RunScheduled, Tick, InLoop
    <3>3. ~FdsDone /\ ~UNCHANGED vars
      BY <1>1 DEF FdsDone, vars
    <3>4. QED
      BY <1>1, <2>2, <3>1, <3>2, <3>3 DEF Next, Step
  <2>3. QED
    BY <2>1, <2>2
<1>2. Inv /\ [Next]_vars
      => [(phase = "fds" /\ running = None /\ running' # None) => running' \in owed]_vars
  BY <1>1
<1>3. QED
  BY <1>2, Invariance, PTL DEF Spec, OnlyPolledRun

\* If all waiters have room in the first array of timeouts, as eight of them have, then
\* step() walks nothing that was freed and skips nobody.
THEOREM LoopIsSound ==
  IsFiniteSet(Waiters) /\ Cardinality(Waiters) <= TimeoutSlots /\ Spec => []SlotsAreSound
<1>1. CASE IsFiniteSet(Waiters) /\ Cardinality(Waiters) <= TimeoutSlots
  <2>1. Init => Room
    BY DEF Init, Room
  <2>2. Inv /\ Room /\ [Next]_vars => Room'
    BY <1>1, RoomNext
  <2>3. Inv /\ Room => SlotsAreSound
    BY SlotsKept DEF Inv, OwedInv, OwedIsPaid, Room, SlotsAreSound, NoFault
  <2>4. QED
    BY <2>1, <2>2, <2>3, Invariance, PTL DEF Spec
<1>2. CASE ~(IsFiniteSet(Waiters) /\ Cardinality(Waiters) <= TimeoutSlots)
  BY <1>2
<1>3. QED
  BY <1>1, <1>2
=============================================================================
