----------------------------- MODULE DnsProofs ------------------------------
(***************************************************************************)
(* Proofs about dns_t, for any lookups, transaction ids, tries and sizes   *)
(* of the array, provided no caller that timeout() fails looks up again    *)
(* before it returns.                                                      *)
(***************************************************************************)
EXTENDS Dns, ListLemmas

-----------------------------------------------------------------------------
(* The invariant.                                                          *)

TimeoutCalls ==
  [call : {"timeout"}, special : Nat \union {None}, lookup : Lookups \union {None},
   size : Nat, next : {None} \union 0 .. Patience, at : Nat]
CallerCalls == [call : {"caller"}, lookup : Lookups, during : {"timeout", "recv"}]
Calls == TimeoutCalls \union CallerCalls \union {RecvCall}

\* A caller that completes in timeout() or complete_recv() returns to it, and timeout() runs
\* from the run loop or from a caller that completed in complete_recv().
Nested(s) ==
  \A k \in DOMAIN s :
    /\ s[k].call = "recv" => k = Len(s)
    /\ s[k].call = "caller" => k < Len(s) /\ s[k + 1].call = s[k].during
    /\ s[k].call = "timeout" =>
         \/ k = Len(s)
         \/ s[k + 1].call = "caller" /\ s[k + 1].during = "recv"

\* timeout() is in progress: it runs, or a caller it failed does.
Looping(s) ==
  s # <<>> /\ (s[1].call = "timeout" \/ (s[1].call = "caller" /\ s[1].during = "timeout"))
Loop(s) == IF s[1].call = "timeout" THEN s[1] ELSE s[2]

\* complete_recv() is in progress.
Reading(s) == \E k \in DOMAIN s : s[k].call = "recv"

\* Whose lookup each slot of w holds: before timeout() returns to await_lookup(), the slot
\* has no waiter yet.
Owners(w, s) ==
  [i \in DOMAIN w |-> IF Looping(s) /\ Loop(s).special = i THEN Loop(s).lookup ELSE w[i].waiter]

\* What is left of a lookup's time: that of its query, and of the retries it has.
Left(n) == n.retries * Patience + n.expiry

\* The owners o of the slots w, the freelist f and the callers agree.
ArrayOK(w, o, f, st, ag) ==
  /\ w \in Seq(Slots) /\ o \in [DOMAIN w -> Lookups \union {None}]
  /\ FreeIs(Len(w), {i \in DOMAIN w : o[i] = None}, f)
  /\ \A i, j \in DOMAIN w : o[i] = o[j] /\ o[i] # None => i = j
  /\ st \in [Lookups -> {"idle", "busy"} \union Answers] /\ ag \in [Lookups -> Nat]
  /\ \A l \in Lookups : st[l] = "busy" <=> \E i \in DOMAIN w : o[i] = l
  /\ \A i \in DOMAIN w : o[i] # None => ag[o[i]] + Left(w[i]) <= Tries * Patience

\* A timer due at t is due in time for the slots of D that are in use.
InTime(w, o, t, D) == \A i \in DOMAIN w : i \in D /\ o[i] # None => t # None /\ t <= w[i].expiry

\* The call of timeout() in progress holds a good pointer to its slot, which is fresh.
SpecialOK(w, t) ==
  t.special # None => /\ t.special \in DOMAIN w /\ w[t.special].waiter = None
                      /\ w[t.special].expiry = Patience
                      /\ t.size = Len(w) /\ t.lookup \in Lookups

StackOK(w, o, s) ==
  /\ s \in Seq(Calls) /\ Nested(s)
  /\ Looping(s) => /\ SpecialOK(w, Loop(s))
                   /\ Reading(s) => Loop(s).special # None
                   /\ InTime(w, o, Loop(s).next, 1 .. Loop(s).at - 1)

SockOK(w, o, s, sk, rw) ==
  /\ sk \in BOOLEAN /\ rw \in BOOLEAN
  /\ ((\E i \in DOMAIN w : o[i] # None) \/ Reading(s)) => sk
  /\ sk /\ ~Reading(s) => rw

TimerOK(w, o, s, tw) ==
  /\ tw \in {None} \union 0 .. Patience
  /\ tw # None \/ ~Looping(s) => InTime(w, o, tw, DOMAIN w)

owners == Owners(waiting, stack)

DnsInv ==
  /\ ArrayOK(waiting, owners, free, state, age)
  /\ StackOK(waiting, owners, stack)
  /\ SockOK(waiting, owners, stack, sock, recv_w)
  /\ TimerOK(waiting, owners, stack, time_w)
  /\ fault = None

-----------------------------------------------------------------------------
(* The array.                                                              *)

LEMMA ArrayIs ==
  ASSUME NEW w, NEW o, NEW f, NEW st, NEW ag, ArrayOK(w, o, f, st, ag)
  PROVE  /\ w \in Seq(Slots) /\ Len(w) \in Nat /\ DOMAIN w = 1 .. Len(w)
         /\ \A i \in DOMAIN w : w[i] \in Slots
         /\ o \in [DOMAIN w -> Lookups \union {None}]
         /\ st \in [Lookups -> {"idle", "busy"} \union Answers] /\ ag \in [Lookups -> Nat]
  BY DEF ArrayOK

\* What is left of a lookup's time is a number.
LEMMA LeftIs ==
  ASSUME NEW n \in Slots
  PROVE  Left(n) \in Nat /\ n.expiry \in 0 .. Patience /\ n.retries \in 0 .. Tries - 1
<1>1. n.expiry \in 0 .. Patience /\ n.retries \in 0 .. Tries - 1
  BY DEF Slots
<1>2. n.retries \in Nat /\ n.expiry \in Nat /\ Patience \in Nat
  BY <1>1, DnsAssumption
<1>3. n.retries * Patience \in Nat
  BY <1>2
<1>4. QED
  BY <1>1, <1>2, <1>3 DEF Left

LEMMA BlankIs == Blank \in Slots /\ Blank.waiter = None
  BY DnsAssumption DEF Blank, Slots

\* The slots and the ages change, but not who they are for.
LEMMA ChangeArray ==
  ASSUME NEW w, NEW o, NEW f, NEW st, NEW ag, ArrayOK(w, o, f, st, ag),
         NEW v \in Seq(Slots), Len(v) = Len(w), NEW bg \in [Lookups -> Nat],
         \A i \in DOMAIN w : o[i] # None => bg[o[i]] + Left(v[i]) <= Tries * Patience
  PROVE  DOMAIN v = DOMAIN w /\ ArrayOK(v, o, f, st, bg)
<1>1. DOMAIN v = DOMAIN w
  BY ArrayIs
<1>2. QED
  BY <1>1 DEF ArrayOK

\* A lookup ends.
LEMMA ClearArray ==
  ASSUME NEW w, NEW o, NEW f, NEW st, NEW ag, ArrayOK(w, o, f, st, ag),
         NEW i \in DOMAIN w, o[i] # None, NEW a \in {"idle"} \union Answers
  PROVE  ArrayOK([w EXCEPT ![i] = Blank], [o EXCEPT ![i] = None], <<i>> \o f,
                 [st EXCEPT ![o[i]] = a], ag)
<1> DEFINE v == [w EXCEPT ![i] = Blank]
           p == [o EXCEPT ![i] = None]
           tt == [st EXCEPT ![o[i]] = a]
<1>1. /\ w \in Seq(Slots) /\ Len(w) \in Nat /\ DOMAIN w = 1 .. Len(w)
      /\ o \in [DOMAIN w -> Lookups \union {None}]
      /\ st \in [Lookups -> {"idle", "busy"} \union Answers] /\ ag \in [Lookups -> Nat]
      /\ o[i] \in Lookups
  BY ArrayIs
<1>2. /\ v \in Seq(Slots) /\ Len(v) = Len(w) /\ DOMAIN v = DOMAIN w
      /\ \A j \in DOMAIN w \ {i} : v[j] = w[j]
  BY <1>1, BlankIs
<1>3. /\ p \in [DOMAIN v -> Lookups \union {None}]
      /\ p[i] = None /\ \A j \in DOMAIN w \ {i} : p[j] = o[j]
  BY <1>1, <1>2
<1>4. /\ tt \in [Lookups -> {"idle", "busy"} \union Answers]
      /\ tt[o[i]] # "busy" /\ \A l \in Lookups \ {o[i]} : tt[l] = st[l]
  BY <1>1 DEF Answers
<1> HIDE DEF v, p, tt
<1>5. FreeIs(Len(v), {j \in DOMAIN v : p[j] = None}, <<i>> \o f)
  <2> DEFINE E == {j \in DOMAIN w : o[j] = None}
  <2>1. {j \in DOMAIN v : p[j] = None} = E \cup {i}
    BY <1>2, <1>3
  <2>2. FreeIs(Len(w), E, f) /\ i \notin E
    BY DEF ArrayOK
  <2> HIDE DEF E
  <2>3. FreeIs(Len(w), E \cup {i}, <<i>> \o f)
    BY <1>1, <2>2, FreeGive
  <2>4. QED
    BY <1>2, <2>1, <2>3
<1>6. \A j, k \in DOMAIN v : p[j] = p[k] /\ p[j] # None => j = k
  BY <1>2, <1>3 DEF ArrayOK
<1>7. ASSUME NEW l \in Lookups
      PROVE  tt[l] = "busy" <=> \E j \in DOMAIN v : p[j] = l
  <2>0. l # None
    BY DnsAssumption
  <2>1. CASE l = o[i]
    <3>1. \A j \in DOMAIN w \ {i} : o[j] # o[i]
      BY DEF ArrayOK
    <3>2. \A j \in DOMAIN v : p[j] # l
      BY <1>2, <1>3, <2>0, <2>1, <3>1
    <3>3. QED
      BY <1>4, <2>1, <3>2
  <2>2. CASE l # o[i]
    <3>1. (\E j \in DOMAIN v : p[j] = l) <=> \E j \in DOMAIN w : o[j] = l
      BY <1>2, <1>3, <2>0, <2>2
    <3>2. QED
      BY <1>4, <2>2, <3>1 DEF ArrayOK
  <2>3. QED
    BY <2>1, <2>2
<1>8. \A j \in DOMAIN v : p[j] # None => ag[p[j]] + Left(v[j]) <= Tries * Patience
  BY <1>2, <1>3 DEF ArrayOK
<1>9. QED
  BY <1>1, <1>2, <1>3, <1>4, <1>5, <1>6, <1>7, <1>8 DEF ArrayOK, v, p, tt

\* A lookup begins in the first free slot.
LEMMA PutArray ==
  ASSUME NEW w, NEW o, NEW f, NEW st, NEW ag, ArrayOK(w, o, f, st, ag), f # <<>>,
         NEW l \in Lookups, st[l] # "busy", NEW n \in Slots, Left(n) <= Tries * Patience
  PROVE  /\ f[1] \in DOMAIN w /\ o[f[1]] = None
         /\ ArrayOK([w EXCEPT ![f[1]] = n], [o EXCEPT ![f[1]] = l], Tail(f),
                    [st EXCEPT ![l] = "busy"], [ag EXCEPT ![l] = 0])
<1> DEFINE i == f[1]
           v == [w EXCEPT ![i] = n]
           p == [o EXCEPT ![i] = l]
           tt == [st EXCEPT ![l] = "busy"]
           bg == [ag EXCEPT ![l] = 0]
           E == {j \in DOMAIN w : o[j] = None}
<1>1. /\ w \in Seq(Slots) /\ Len(w) \in Nat /\ DOMAIN w = 1 .. Len(w)
      /\ o \in [DOMAIN w -> Lookups \union {None}]
      /\ st \in [Lookups -> {"idle", "busy"} \union Answers] /\ ag \in [Lookups -> Nat]
      /\ l # None
  BY ArrayIs, DnsAssumption
<1>2. FreeIs(Len(w), E, f)
  BY DEF ArrayOK
<1> HIDE DEF E
<1>3. i \in DOMAIN w /\ i \in E /\ FreeIs(Len(w), E \ {i}, Tail(f))
  BY <1>1, <1>2, FreeTake
<1>4. o[i] = None
  BY <1>3 DEF E
<1> HIDE DEF i
<1>5. /\ v \in Seq(Slots) /\ Len(v) = Len(w) /\ DOMAIN v = DOMAIN w
      /\ v[i] = n /\ \A j \in DOMAIN w \ {i} : v[j] = w[j]
  BY <1>1, <1>3
<1>6. /\ p \in [DOMAIN v -> Lookups \union {None}]
      /\ p[i] = l /\ \A j \in DOMAIN w \ {i} : p[j] = o[j]
  BY <1>1, <1>3, <1>5
<1>7. /\ tt \in [Lookups -> {"idle", "busy"} \union Answers]
      /\ tt[l] = "busy" /\ \A k \in Lookups \ {l} : tt[k] = st[k]
  BY <1>1
<1>8. /\ bg \in [Lookups -> Nat]
      /\ bg[l] = 0 /\ \A k \in Lookups \ {l} : bg[k] = ag[k]
  BY <1>1
<1> HIDE DEF v, p, tt, bg
<1>9. FreeIs(Len(v), {j \in DOMAIN v : p[j] = None}, Tail(f))
  <2>1. {j \in DOMAIN v : p[j] = None} = E \ {i}
    BY <1>1, <1>5, <1>6 DEF E
  <2>2. QED
    BY <1>3, <1>5, <2>1
<1>10. \A j \in DOMAIN w : o[j] # l
  BY DEF ArrayOK
<1>11. \A j, k \in DOMAIN v : p[j] = p[k] /\ p[j] # None => j = k
  BY <1>5, <1>6, <1>10 DEF ArrayOK
<1>12. ASSUME NEW k \in Lookups
       PROVE  tt[k] = "busy" <=> \E j \in DOMAIN v : p[j] = k
  <2>1. CASE k = l
    BY <1>3, <1>5, <1>6, <1>7, <2>1
  <2>2. CASE k # l
    <3>1. k # None
      BY DnsAssumption
    <3>2. (\E j \in DOMAIN v : p[j] = k) <=> \E j \in DOMAIN w : o[j] = k
      BY <1>4, <1>5, <1>6, <2>2, <3>1
    <3>3. QED
      BY <1>7, <2>2, <3>2 DEF ArrayOK
  <2>3. QED
    BY <2>1, <2>2
<1>13. ASSUME NEW j \in DOMAIN v, p[j] # None
       PROVE  bg[p[j]] + Left(v[j]) <= Tries * Patience
  <2>1. CASE j = i
    <3>1. Left(n) \in Nat
      BY LeftIs
    <3>2. QED
      BY <1>5, <1>6, <1>8, <2>1, <3>1
  <2>2. CASE j # i
    <3>1. p[j] = o[j] /\ v[j] = w[j] /\ o[j] # None /\ o[j] # l /\ o[j] \in Lookups
      BY <1>1, <1>5, <1>6, <1>10, <1>13, <2>2
    <3>2. ag[o[j]] + Left(w[j]) <= Tries * Patience
      BY <1>5, <3>1 DEF ArrayOK
    <3>3. QED
      BY <1>8, <3>1, <3>2
  <2>3. QED
    BY <2>1, <2>2
<1>14. QED
  BY <1>3, <1>4, <1>5, <1>6, <1>7, <1>8, <1>9, <1>11, <1>12, <1>13
     DEF ArrayOK, i, v, p, tt, bg

\* reallocate(): the new slots belong to nobody.
LEMMA GrowArray ==
  ASSUME NEW o, NEW st, NEW ag, ArrayOK(waiting, o, free, st, ag)
  PROVE  /\ Grown.free # <<>> /\ DOMAIN waiting \subseteq DOMAIN Grown.slots
         /\ Len(Grown.slots) = Len(waiting) => Grown.slots = waiting
         /\ \A i \in DOMAIN waiting : Grown.slots[i] = waiting[i]
         /\ \A i \in DOMAIN Grown.slots \ DOMAIN waiting : Grown.slots[i].waiter = None
         /\ ArrayOK(Grown.slots,
                    [i \in DOMAIN Grown.slots |-> IF i \in DOMAIN waiting THEN o[i] ELSE None],
                    Grown.free, st, ag)
<1> DEFINE old == Len(waiting)
           new == IF old = 0 THEN InitialSize ELSE 2 * old
           m == new - old
           x == [i \in 1 .. m |-> Blank]
           g == [i \in 1 .. m |-> old + i]
           v == Grown.slots
           p == [i \in DOMAIN v |-> IF i \in DOMAIN waiting THEN o[i] ELSE None]
<1>1. /\ waiting \in Seq(Slots) /\ old \in Nat /\ DOMAIN waiting = 1 .. old
      /\ o \in [DOMAIN waiting -> Lookups \union {None}]
      /\ st \in [Lookups -> {"idle", "busy"} \union Answers] /\ ag \in [Lookups -> Nat]
  BY ArrayIs
<1>2. FreeIs(old, {i \in DOMAIN waiting : o[i] = None}, free)
  BY DEF ArrayOK
<1>3. CASE free # <<>>
  <2>1. Grown.slots = waiting /\ Grown.free = free
    BY <1>3 DEF Grown
  <2>2. p = o
    BY <1>1, <2>1
  <2>3. QED
    BY <1>3, <2>1, <2>2
<1>4. CASE free = <<>>
  <2>1. m \in Nat /\ m > 0
    <3>1. CASE old = 0
      BY <3>1, DnsAssumption
    <3>2. CASE old # 0
      BY <1>1, <3>2
    <3>3. QED
      BY <3>1, <3>2
  <2>2. Grown.slots = waiting \o x /\ Grown.free = g
    BY <1>4 DEF Grown
  <2> HIDE DEF m, new
  <2>3. x \in Seq(Slots) /\ Len(x) = m /\ \A i \in 1 .. m : x[i] = Blank
    BY <2>1, BlankIs
  <2> HIDE DEF x
  <2>4. /\ v \in Seq(Slots) /\ Len(v) = old + m /\ DOMAIN v = 1 .. old + m
        /\ \A i \in 1 .. old : v[i] = waiting[i]
        /\ \A i \in old + 1 .. old + m : v[i] = Blank
    <3>1. v = waiting \o x
      BY <2>2
    <3> HIDE DEF v, p, g
    <3>2. v \in Seq(Slots) /\ Len(v) = old + m
      BY <1>1, <2>3, <3>1, ConcatProperties
    <3>3. DOMAIN v = 1 .. old + m
      BY <3>2
    <3>4. ASSUME NEW i \in 1 .. old PROVE v[i] = waiting[i]
      <4>1. i \in 1 .. Len(waiting) + Len(x) /\ i <= Len(waiting)
        BY <1>1, <2>1, <2>3
      <4>2. QED
        BY <1>1, <2>3, <3>1, <4>1, ConcatProperties
    <3>5. ASSUME NEW i \in old + 1 .. old + m PROVE v[i] = Blank
      <4>1. i - old \in 1 .. m /\ i \in 1 .. Len(waiting) + Len(x) /\ i > Len(waiting)
        BY <1>1, <2>1, <2>3
      <4>2. v[i] = x[i - Len(waiting)]
        BY <1>1, <2>3, <3>1, <4>1, ConcatProperties
      <4>3. QED
        BY <2>3, <4>1, <4>2
    <3>6. QED
      BY <3>2, <3>3, <3>4, <3>5
  <2>5. g # <<>>
    BY <2>1
  <2> HIDE DEF v, old
  <2>6. ASSUME NEW i \in DOMAIN v, i \notin DOMAIN waiting
        PROVE  i \in old + 1 .. old + m
    BY <1>1, <2>1, <2>4, <2>6
  <2>7. /\ p \in [DOMAIN v -> Lookups \union {None}]
        /\ \A i \in DOMAIN waiting : p[i] = o[i] /\ i \in DOMAIN v
        /\ \A i \in DOMAIN v \ DOMAIN waiting : p[i] = None
    BY <1>1, <2>1, <2>4
  <2> HIDE DEF p
  <2>8. \A i \in DOMAIN waiting : o[i] # None
    <3> SUFFICES ASSUME NEW i \in DOMAIN waiting, o[i] = None PROVE FALSE
      OBVIOUS
    <3>1. \E k \in 1 .. Len(free) : free[k] = i
      BY <1>1, <1>2 DEF FreeIs
    <3>2. QED
      BY <1>4, <3>1
  <2>9. {i \in DOMAIN v : p[i] = None} = old + 1 .. old + m
    <3>1. \A i \in old + 1 .. old + m : i \in DOMAIN v /\ i \notin DOMAIN waiting
      BY <1>1, <2>1, <2>4
    <3>2. QED
      BY <2>6, <2>7, <2>8, <3>1
  <2>10. FreeIs(Len(v), {i \in DOMAIN v : p[i] = None}, g)
    <3>1. (old + 1 .. old + m) \cap 1 .. old = {}
      BY <1>1, <2>1
    <3>2. FreeIs(old + m, old + 1 .. old + m, g)
      BY <1>1, <2>1, <3>1, FreeNew
    <3>3. QED
      BY <2>4, <2>9, <3>2
  <2>11. \A i, j \in DOMAIN v : p[i] = p[j] /\ p[i] # None => i = j
    BY <2>7 DEF ArrayOK
  <2>12. \A l \in Lookups : (\E i \in DOMAIN v : p[i] = l) <=> \E i \in DOMAIN waiting : o[i] = l
    BY <2>7, DnsAssumption
  <2>13. \A l \in Lookups : st[l] = "busy" <=> \E i \in DOMAIN v : p[i] = l
    BY <2>12 DEF ArrayOK
  <2>14. \A i \in DOMAIN v : p[i] # None => ag[p[i]] + Left(v[i]) <= Tries * Patience
    <3>1. ASSUME NEW i \in DOMAIN v, p[i] # None
          PROVE  i \in DOMAIN waiting /\ p[i] = o[i] /\ v[i] = waiting[i]
      BY <1>1, <2>4, <2>7, <3>1
    <3>2. QED
      BY <3>1 DEF ArrayOK
  <2>15. ArrayOK(v, p, g, st, ag)
    BY <1>1, <2>4, <2>7, <2>10, <2>11, <2>13, <2>14 DEF ArrayOK
  <2>16. \A i \in DOMAIN v \ DOMAIN waiting : v[i].waiter = None
    BY <2>4, <2>6, BlankIs
  <2>17. \A i \in DOMAIN waiting : v[i] = waiting[i]
    BY <1>1, <2>4
  <2>18. Len(v) # old
    BY <1>1, <2>1, <2>4
  <2>19. Grown.free = g
    BY <2>2
  <2>20. QED
    BY <2>5, <2>7, <2>15, <2>16, <2>17, <2>18, <2>19 DEF v, p, old
<1>5. QED
  BY <1>3, <1>4

-----------------------------------------------------------------------------
(* The calls in progress.                                                  *)

LEMMA StackEmpty ==
  /\ <<>> \in Seq(Calls) /\ Nested(<<>>) /\ ~Looping(<<>>) /\ ~Reading(<<>>)
  /\ Len(<<>>) = 0 /\ DOMAIN <<>> = {}
  BY DEF Nested, Looping, Reading

LEMMA CallKinds ==
  ASSUME NEW c \in Calls
  PROVE  /\ c.call = "timeout" <=> c \in TimeoutCalls
         /\ c.call = "caller" <=> c \in CallerCalls
         /\ c.call = "recv" <=> c = RecvCall
         /\ c.call \in {"timeout", "caller", "recv"}
         /\ c.call = "caller" => c.during \in {"timeout", "recv"} /\ c.lookup \in Lookups
<1>1. CASE c \in TimeoutCalls
  BY <1>1 DEF TimeoutCalls, CallerCalls, RecvCall
<1>2. CASE c \in CallerCalls
  BY <1>2 DEF TimeoutCalls, CallerCalls, RecvCall
<1>3. CASE c = RecvCall
  BY <1>3 DEF TimeoutCalls, CallerCalls, RecvCall
<1>4. QED
  BY <1>1, <1>2, <1>3 DEF Calls

\* c may be called where the calls s are in progress.
MayCall(c, s) ==
  /\ c.call = "recv" => s = <<>>
  /\ c.call = "caller" => s # <<>> /\ s[1].call = c.during
  /\ c.call = "timeout" => s = <<>> \/ (s[1].call = "caller" /\ s[1].during = "recv")

\* c is called where the calls s are in progress.
Called(c, s) == <<c>> \o s

LEMMA Push ==
  ASSUME NEW s \in Seq(Calls), Nested(s), NEW c \in Calls, MayCall(c, s),
         NEW t, t = Called(c, s)
  PROVE  /\ t \in Seq(Calls) /\ Nested(t) /\ t # <<>> /\ t[1] = c
         /\ Reading(t) <=> c.call = "recv" \/ Reading(s)
         /\ Looping(t) <=> c.call = "timeout" \/ (c.call = "caller" /\ c.during = "timeout")
         /\ c.call = "timeout" => Loop(t) = c
         /\ c.call = "caller" => Loop(t) = s[1]
<1>1. /\ t \in Seq(Calls) /\ Len(s) \in Nat /\ Len(t) = Len(s) + 1 /\ t[1] = c
      /\ DOMAIN t = 1 .. Len(s) + 1 /\ DOMAIN s = 1 .. Len(s)
      /\ \A k \in 1 .. Len(s) : t[k + 1] = s[k]
      /\ t # <<>>
  BY DEF Called
<1>2. s # <<>> => Len(s) > 0 /\ 1 \in DOMAIN s /\ t[2] = s[1]
  <2>1. s # <<>> => 1 \in 1 .. Len(s)
    BY <1>1
  <2>2. QED
    BY <1>1, <2>1
<1>3. ASSUME NEW k \in DOMAIN t, k # 1
      PROVE  k - 1 \in DOMAIN s /\ t[k] = s[k - 1]
  <2>1. k - 1 \in DOMAIN s /\ k = (k - 1) + 1
    BY <1>1, <1>3
  <2>2. QED
    BY <1>1, <2>1
<1>4. Nested(t)
  <2> SUFFICES ASSUME NEW k \in DOMAIN t
               PROVE  /\ t[k].call = "recv" => k = Len(t)
                      /\ t[k].call = "caller" => k < Len(t) /\ t[k + 1].call = t[k].during
                      /\ t[k].call = "timeout" =>
                           \/ k = Len(t)
                           \/ t[k + 1].call = "caller" /\ t[k + 1].during = "recv"
    BY DEF Nested
  <2>1. CASE k = 1
    <3>1. s = <<>> => Len(t) = 1
      BY <1>1
    <3>2. QED
      BY <1>1, <1>2, <2>1, <3>1 DEF MayCall
  <2>2. CASE k # 1
    <3> DEFINE j == k - 1
    <3>1. j \in DOMAIN s /\ t[k] = s[j]
      BY <1>3, <2>2
    <3>2. /\ j = Len(s) <=> k = Len(t)
          /\ j < Len(s) => k < Len(t) /\ t[k + 1] = s[j + 1]
          /\ j # Len(s) => j < Len(s)
      <4>1. j < Len(s) => j + 1 \in 1 .. Len(s) /\ (j + 1) + 1 = k + 1
        BY <1>1, <3>1
      <4>2. j < Len(s) => t[k + 1] = s[j + 1]
        BY <1>1, <4>1
      <4>3. QED
        BY <1>1, <3>1, <4>2
    <3>3. /\ s[j].call = "recv" => j = Len(s)
          /\ s[j].call = "caller" => j < Len(s) /\ s[j + 1].call = s[j].during
          /\ s[j].call = "timeout" =>
               \/ j = Len(s)
               \/ s[j + 1].call = "caller" /\ s[j + 1].during = "recv"
      BY <3>1 DEF Nested
    <3> HIDE DEF j
    <3>4. QED
      BY <3>1, <3>2, <3>3
  <2>3. QED
    BY <2>1, <2>2
<1>5. Reading(t) <=> c.call = "recv" \/ Reading(s)
  <2>1. ASSUME NEW k \in DOMAIN s, s[k].call = "recv"
        PROVE  \E j \in DOMAIN t : t[j].call = "recv"
    <3>1. k + 1 \in DOMAIN t /\ t[k + 1] = s[k]
      BY <1>1
    <3>2. QED
      BY <2>1, <3>1
  <2>2. 1 \in DOMAIN t
    BY <1>1
  <2>3. QED
    BY <1>1, <1>3, <2>1, <2>2 DEF Reading
<1>6. /\ Looping(t) <=> c.call = "timeout" \/ (c.call = "caller" /\ c.during = "timeout")
      /\ c.call = "timeout" => Loop(t) = c
      /\ c.call = "caller" => Loop(t) = s[1]
  BY <1>1, <1>2 DEF Looping, Loop, MayCall
<1>7. QED
  BY <1>1, <1>4, <1>5, <1>6

\* The calls that the innermost returns to.
Below(s) == Tail(s)

LEMMA Pop ==
  ASSUME NEW s \in Seq(Calls), Nested(s), s # <<>>
  PROVE  /\ s[1] \in Calls /\ Below(s) \in Seq(Calls) /\ Nested(Below(s))
         /\ s[1].call # "recv" => (Reading(Below(s)) <=> Reading(s))
         /\ s[1].call = "recv" => Below(s) = <<>> /\ Reading(s)
         /\ s[1].call = "caller" => /\ Below(s) # <<>> /\ Below(s)[1] = s[2]
                                    /\ s[2] \in Calls /\ s[2].call = s[1].during
         /\ s[1].call = "timeout" => MayCall(s[1], Below(s))
         /\ s[1].call = "timeout" \/ (s[1].call = "caller" /\ s[1].during = "recv") =>
              ~Looping(Below(s))
         /\ s[1].call = "caller" /\ s[1].during = "recv" => Reading(s)
<1> DEFINE u == Below(s)
<1>1. /\ Len(s) \in Nat /\ Len(s) > 0 /\ 1 \in DOMAIN s /\ DOMAIN s = 1 .. Len(s)
      /\ u \in Seq(Calls) /\ Len(u) = Len(s) - 1 /\ DOMAIN u = 1 .. Len(s) - 1
      /\ \A k \in 1 .. Len(s) - 1 : u[k] = s[k + 1]
      /\ Len(u) = 0 => u = <<>>
      /\ u # <<>> => Len(u) > 0
      /\ \A k \in DOMAIN s : s[k] \in Calls
  <2>1. /\ Len(s) \in Nat /\ Len(s) > 0 /\ DOMAIN s = 1 .. Len(s)
        /\ \A k \in DOMAIN s : s[k] \in Calls
    OBVIOUS
  <2>2. /\ u \in Seq(Calls) /\ Len(u) = Len(s) - 1
        /\ \A k \in 1 .. Len(s) - 1 : u[k] = s[k + 1]
    BY HeadTailProperties DEF Below
  <2> HIDE DEF u
  <2>3. DOMAIN u = 1 .. Len(s) - 1 /\ (Len(u) = 0 => u = <<>>) /\ (u # <<>> => Len(u) > 0)
    BY <2>1, <2>2
  <2>4. QED
    BY <2>1, <2>2, <2>3
<1> HIDE DEF u
<1>2. ASSUME NEW k \in DOMAIN u PROVE k + 1 \in DOMAIN s /\ u[k] = s[k + 1]
  BY <1>1, <1>2
<1>3. u # <<>> => 1 \in DOMAIN u /\ u[1] = s[2] /\ 2 \in DOMAIN s
  BY <1>1
<1>4. Nested(u)
  <2> SUFFICES ASSUME NEW k \in DOMAIN u
               PROVE  /\ u[k].call = "recv" => k = Len(u)
                      /\ u[k].call = "caller" => k < Len(u) /\ u[k + 1].call = u[k].during
                      /\ u[k].call = "timeout" =>
                           \/ k = Len(u)
                           \/ u[k + 1].call = "caller" /\ u[k + 1].during = "recv"
    BY DEF Nested
  <2> DEFINE j == k + 1
  <2>1. j \in DOMAIN s /\ u[k] = s[j]
    BY <1>2
  <2>2. /\ j = Len(s) <=> k = Len(u)
        /\ j < Len(s) => k < Len(u) /\ u[k + 1] = s[j + 1]
        /\ j # Len(s) => j < Len(s)
    <3>1. j < Len(s) => k + 1 \in 1 .. Len(s) - 1
      BY <1>1, <2>1
    <3>2. j < Len(s) => u[k + 1] = s[j + 1]
      BY <1>1, <3>1
    <3>3. QED
      BY <1>1, <2>1, <3>2
  <2>3. /\ s[j].call = "recv" => j = Len(s)
        /\ s[j].call = "caller" => j < Len(s) /\ s[j + 1].call = s[j].during
        /\ s[j].call = "timeout" =>
             \/ j = Len(s)
             \/ s[j + 1].call = "caller" /\ s[j + 1].during = "recv"
    BY <2>1 DEF Nested
  <2> HIDE DEF j
  <2>4. QED
    BY <2>1, <2>2, <2>3
<1>5. Reading(s) <=> s[1].call = "recv" \/ Reading(u)
  <2>1. ASSUME NEW k \in DOMAIN s, k # 1 PROVE k - 1 \in DOMAIN u /\ u[k - 1] = s[k]
    <3>1. k - 1 \in 1 .. Len(s) - 1 /\ (k - 1) + 1 = k
      BY <1>1, <2>1
    <3>2. QED
      BY <1>1, <3>1
  <2>2. ASSUME Reading(u) PROVE Reading(s)
    BY <1>2, <2>2 DEF Reading
  <2>3. ASSUME Reading(s), s[1].call # "recv" PROVE Reading(u)
    BY <2>1, <2>3 DEF Reading
  <2>4. s[1].call = "recv" => Reading(s)
    BY <1>1 DEF Reading
  <2>5. QED
    BY <2>2, <2>3, <2>4
<1>6. /\ s[1].call = "recv" => 1 = Len(s)
      /\ s[1].call = "caller" => 1 < Len(s) /\ s[2].call = s[1].during
      /\ s[1].call = "timeout" =>
           1 = Len(s) \/ (s[2].call = "caller" /\ s[2].during = "recv")
  <2>1. 1 + 1 = 2
    OBVIOUS
  <2>2. QED
    BY <1>1, <2>1 DEF Nested
<1>7. s[1].call = "recv" => u = <<>>
  BY <1>1, <1>6
<1>8. s[1].call = "caller" => u # <<>>
  BY <1>1, <1>6
<1>9. s[1].call = "timeout" => u = <<>> \/ (u[1].call = "caller" /\ u[1].during = "recv")
  BY <1>1, <1>3, <1>6
<1>10. s[1].call = "timeout" => ~Looping(u)
  BY <1>9 DEF Looping
<1>11. s[1].call = "caller" /\ s[1].during = "recv" => ~Looping(u) /\ Reading(s)
  <2>1. s[1].call = "caller" /\ s[1].during = "recv" => u[1].call = "recv" /\ 1 \in DOMAIN u
    BY <1>3, <1>6, <1>8
  <2>2. QED
    BY <1>5, <2>1 DEF Looping, Reading
<1>12. s[1].call = "timeout" => MayCall(s[1], u)
  BY <1>9 DEF MayCall
<1>13. QED
  BY <1>1, <1>3, <1>4, <1>5, <1>6, <1>7, <1>8, <1>10, <1>11, <1>12 DEF u

-----------------------------------------------------------------------------
(* What the invariant says of each kind of call.                           *)

LEMMA DataIs ==
  ASSUME DnsInv
  PROVE  /\ waiting \in Seq(Slots) /\ Len(waiting) \in Nat /\ DOMAIN waiting = 1 .. Len(waiting)
         /\ \A i \in DOMAIN waiting : waiting[i] \in Slots
         /\ owners \in [DOMAIN waiting -> Lookups \union {None}]
         /\ state \in [Lookups -> {"idle", "busy"} \union Answers] /\ age \in [Lookups -> Nat]
         /\ stack \in Seq(Calls) /\ Nested(stack)
         /\ sock \in BOOLEAN /\ recv_w \in BOOLEAN /\ time_w \in {None} \union 0 .. Patience
         /\ fault = None
<1>1. ArrayOK(waiting, owners, free, state, age)
  BY DEF DnsInv
<1>2. QED
  BY <1>1, ArrayIs DEF DnsInv, StackOK, SockOK, TimerOK

LEMMA InTimeoutIs ==
  ASSUME DnsInv, In("timeout")
  PROVE  /\ stack # <<>> /\ Top = stack[1] /\ Top \in TimeoutCalls /\ Top.call = "timeout"
         /\ Looping(stack) /\ Loop(stack) = Top
         /\ Below(stack) \in Seq(Calls) /\ Nested(Below(stack)) /\ MayCall(Top, Below(stack))
         /\ ~Looping(Below(stack)) /\ (Reading(Below(stack)) <=> Reading(stack))
<1>1. stack # <<>> /\ Top = stack[1] /\ stack[1].call = "timeout"
  BY DEF In, Top
<1>2. stack \in Seq(Calls) /\ Nested(stack)
  BY DataIs
<1>3. QED
  BY <1>1, <1>2, Pop, CallKinds DEF Looping, Loop

LEMMA InCallerIs ==
  ASSUME DnsInv, In("caller")
  PROVE  /\ stack # <<>> /\ Top = stack[1]
         /\ Below(stack) \in Seq(Calls) /\ Nested(Below(stack))
         /\ Reading(Below(stack)) <=> Reading(stack)
         /\ Top.during = "recv" => ~Looping(stack) /\ ~Looping(Below(stack)) /\ Reading(stack)
         /\ Top.during # "recv" => /\ Top.during = "timeout"
                                   /\ Looping(stack) /\ Looping(Below(stack))
                                   /\ Loop(Below(stack)) = Loop(stack)
                                   /\ Loop(stack) \in TimeoutCalls
<1>1. stack # <<>> /\ Top = stack[1] /\ stack[1].call = "caller"
  BY DEF In, Top
<1>2. stack \in Seq(Calls) /\ Nested(stack)
  BY DataIs
<1>3. stack[1].during \in {"timeout", "recv"}
  BY <1>1, <1>2, Pop, CallKinds
<1>4. CASE stack[1].during = "recv"
  <2>1. ~Looping(stack)
    BY <1>1, <1>4 DEF Looping
  <2>2. QED
    BY <1>1, <1>2, <1>4, <2>1, Pop
<1>5. CASE stack[1].during = "timeout"
  <2>1. /\ Below(stack) # <<>> /\ Below(stack)[1] = stack[2]
        /\ stack[2] \in Calls /\ stack[2].call = "timeout"
    BY <1>1, <1>2, <1>5, Pop
  <2>2. /\ Looping(stack) /\ Looping(Below(stack)) /\ Loop(Below(stack)) = Loop(stack)
        /\ Loop(stack) = stack[2]
    BY <1>1, <1>5, <2>1 DEF Looping, Loop
  <2>3. QED
    BY <1>1, <1>2, <1>5, <2>1, <2>2, Pop, CallKinds
<1>6. QED
  BY <1>3, <1>4, <1>5

LEMMA InRecvIs ==
  ASSUME DnsInv, In("recv")
  PROVE  Reading(stack) /\ ~Looping(stack) /\ Below(stack) = <<>>
<1>1. stack # <<>> /\ stack[1].call = "recv"
  BY DEF In, Top
<1>2. stack \in Seq(Calls) /\ Nested(stack)
  BY DataIs
<1>3. QED
  BY <1>1, <1>2, Pop DEF Looping

LEMMA LoopIs ==
  ASSUME DnsInv, Looping(stack)
  PROVE  Loop(stack) \in TimeoutCalls
<1>1. stack # <<>> /\ stack \in Seq(Calls) /\ Nested(stack)
  BY DataIs DEF Looping
<1>2. CASE stack[1].call = "timeout"
  BY <1>1, <1>2, Pop, CallKinds DEF Loop
<1>3. CASE stack[1].call = "caller" /\ stack[1].during = "timeout"
  BY <1>1, <1>3, Pop, CallKinds DEF Loop
<1>4. QED
  BY <1>2, <1>3 DEF Looping

\* Where the callers run: the run loop, or a caller.
LEMMA CallersIs ==
  ASSUME DnsInv, CallersRun
  PROVE  fault = None /\ (stack = <<>> \/ In("caller"))
  BY DEF CallersRun, InRunloop, In

\* A caller that looks up is not in the middle of timeout().
LEMMA MayLookUpIs ==
  ASSUME DnsInv, MayLookUp, ~AgainInTimeout
  PROVE  /\ ~Looping(stack)
         /\ \A c \in Calls : c.call = "timeout" => MayCall(c, stack)
<1>1. CASE InRunloop
  BY <1>1, StackEmpty DEF InRunloop, MayCall
<1>2. CASE In("caller") /\ Top.during = "recv"
  <2>1. ~Looping(stack)
    BY <1>2, InCallerIs
  <2>2. stack[1].call = "caller" /\ stack[1].during = "recv"
    BY <1>2 DEF In, Top
  <2>3. QED
    BY <2>1, <2>2 DEF MayCall
<1>3. QED
  BY <1>1, <1>2 DEF MayLookUp

LEMMA OwnersIdle ==
  ASSUME NEW w, NEW s, ~Looping(s)
  PROVE  Owners(w, s) = [i \in DOMAIN w |-> w[i].waiter]
  BY DEF Owners

LEMMA OwnersLoop ==
  ASSUME NEW w, NEW s, Looping(s)
  PROVE  Owners(w, s) =
           [i \in DOMAIN w |-> IF Loop(s).special = i THEN Loop(s).lookup ELSE w[i].waiter]
  BY DEF Owners

\* A slot with a waiter is in use, and the call of timeout() in progress has one more.
LEMMA OwnersIs ==
  ASSUME DnsInv
  PROVE  /\ \A i \in DOMAIN waiting : waiting[i].waiter # None => owners[i] = waiting[i].waiter
         /\ ~Looping(stack) => \A i \in DOMAIN waiting : owners[i] = waiting[i].waiter
         /\ Looping(stack) =>
              /\ \A i \in DOMAIN waiting :
                   i # Loop(stack).special => owners[i] = waiting[i].waiter
              /\ Loop(stack).special # None => /\ Loop(stack).special \in DOMAIN waiting
                                               /\ owners[Loop(stack).special] = Loop(stack).lookup
                                               /\ Loop(stack).lookup # None
<1>1. CASE ~Looping(stack)
  BY <1>1, OwnersIdle DEF owners
<1>2. CASE Looping(stack)
  <2>1. SpecialOK(waiting, Loop(stack))
    BY <1>2 DEF DnsInv, StackOK
  <2>2. /\ \A i \in DOMAIN waiting : i # Loop(stack).special => owners[i] = waiting[i].waiter
        /\ \A i \in DOMAIN waiting : i = Loop(stack).special => owners[i] = Loop(stack).lookup
    BY <1>2, OwnersLoop DEF owners
  <2>3. Loop(stack).special # None =>
          /\ Loop(stack).special \in DOMAIN waiting /\ waiting[Loop(stack).special].waiter = None
          /\ owners[Loop(stack).special] = Loop(stack).lookup
          /\ Loop(stack).lookup # None
    BY <2>1, <2>2, DnsAssumption DEF SpecialOK
  <2>4. \A i \in DOMAIN waiting : waiting[i].waiter # None => i # Loop(stack).special
    BY <2>1, DataIs, DnsAssumption DEF SpecialOK
  <2>5. QED
    BY <1>2, <2>2, <2>3, <2>4
<1>3. QED
  BY <1>1, <1>2

-----------------------------------------------------------------------------
(* The steps of timeout().                                                 *)

\* The loop skips no slot that is in use.
LEMMA LoopsOverOwned ==
  ASSUME DnsInv, In("timeout"), NEW i \in DOMAIN waiting, owners[i] # None
  PROVE  LoopsOver(i)
<1>1. Looping(stack) /\ Loop(stack) = Top /\ SpecialOK(waiting, Top)
  BY InTimeoutIs DEF DnsInv, StackOK
<1>2. CASE i = Top.special
  <2>1. Top.special # None
    BY <1>2, DataIs, DnsAssumption
  <2>2. QED
    BY <1>1, <1>2, <2>1 DEF LoopsOver, SpecialOK
<1>3. CASE i # Top.special
  BY <1>1, <1>3, OwnersIs DEF LoopsOver
<1>4. QED
  BY <1>2, <1>3

LEMMA VisitIs ==
  ASSUME DnsInv, In("timeout"), Visited # {}
  PROVE  /\ Visit \in DOMAIN waiting /\ Visit \in Nat /\ owners[Visit] # None
         /\ \A i \in DOMAIN waiting : owners[i] # None /\ i < Visit => i < Top.at
         /\ waiting[Visit].expiry = 0 => /\ Visit # Top.special
                                         /\ waiting[Visit].waiter \in Lookups
                                         /\ owners[Visit] = waiting[Visit].waiter
<1>1. /\ Looping(stack) /\ Loop(stack) = Top /\ SpecialOK(waiting, Top)
      /\ Top \in TimeoutCalls
  BY InTimeoutIs DEF DnsInv, StackOK
<1>2. Len(waiting) \in Nat /\ DOMAIN waiting = 1 .. Len(waiting) /\ Top.at \in Nat
  BY <1>1, DataIs DEF TimeoutCalls
<1>3. Visited \in SUBSET Nat
  BY <1>2 DEF Visited
<1>4. Visit \in Visited /\ \A i \in Visited : Visit <= i
  BY <1>3, Least DEF Visit
<1>5. Visit \in DOMAIN waiting /\ Visit \in Nat /\ LoopsOver(Visit)
  BY <1>3, <1>4 DEF Visited
<1>6. owners[Visit] # None
  <2>1. CASE waiting[Visit].waiter # None
    BY <1>5, <2>1, OwnersIs
  <2>2. CASE Top.special = Visit
    <3>1. Top.special # None
      BY <1>5, <2>2, DnsAssumption
    <3>2. QED
      BY <1>1, <2>2, <3>1, OwnersIs
  <2>3. QED
    BY <1>5, <2>1, <2>2 DEF LoopsOver
<1>7. ASSUME NEW i \in DOMAIN waiting, owners[i] # None, i < Visit
      PROVE  i < Top.at
  <2>1. LoopsOver(i) /\ i \notin Visited
    BY <1>2, <1>4, <1>5, <1>7, LoopsOverOwned
  <2>2. QED
    BY <1>2, <2>1 DEF Visited
<1>8. ASSUME waiting[Visit].expiry = 0
      PROVE  /\ Visit # Top.special /\ waiting[Visit].waiter \in Lookups
             /\ owners[Visit] = waiting[Visit].waiter
  <2>1. Visit # Top.special
    BY <1>1, <1>5, <1>8, DnsAssumption DEF SpecialOK
  <2>2. waiting[Visit].waiter # None
    BY <1>5, <2>1 DEF LoopsOver
  <2>3. waiting[Visit].waiter \in Lookups \union {None}
    BY <1>5, DataIs DEF Slots
  <2>4. QED
    BY <1>5, <2>1, <2>2, <2>3, OwnersIs
<1>9. QED
  BY <1>5, <1>6, <1>7, <1>8

Goes(c, next, at) == [c EXCEPT !.next = next, !.at = at]

\* s is the stack when the loop in progress goes on with another bound, at another slot.
GoesOn(s, next, at) ==
  /\ s \in Seq(Calls) /\ Nested(s) /\ s # <<>> /\ s[1].call = "timeout"
  /\ Looping(s) /\ (Reading(s) <=> Reading(stack))
  /\ Loop(s).special = Top.special /\ Loop(s).lookup = Top.lookup
  /\ Loop(s).size = Top.size /\ Loop(s).next = next /\ Loop(s).at = at
  /\ \A w : Owners(w, s) = Owners(w, stack)

LEMMA LoopOn ==
  ASSUME DnsInv, In("timeout"), NEW next \in {None} \union 0 .. Patience, NEW at \in Nat
  PROVE  GoesOn(Called(Goes(Top, next, at), Below(stack)), next, at)
<1> DEFINE c == Goes(Top, next, at)
           s == Called(c, Below(stack))
<1>1. /\ Top \in TimeoutCalls /\ Top.call = "timeout" /\ Looping(stack) /\ Loop(stack) = Top
      /\ Below(stack) \in Seq(Calls) /\ Nested(Below(stack)) /\ MayCall(Top, Below(stack))
      /\ Reading(Below(stack)) <=> Reading(stack)
  BY InTimeoutIs
<1>2. /\ c \in TimeoutCalls /\ c.call = "timeout" /\ c.next = next /\ c.at = at
      /\ c.special = Top.special /\ c.lookup = Top.lookup /\ c.size = Top.size
  BY <1>1 DEF TimeoutCalls, Goes
<1> HIDE DEF c
<1>3. c \in Calls /\ MayCall(c, Below(stack))
  BY <1>1, <1>2 DEF MayCall, Calls
<1>4. /\ s \in Seq(Calls) /\ Nested(s) /\ s # <<>> /\ s[1] = c
      /\ Looping(s) /\ Loop(s) = c /\ (Reading(s) <=> Reading(stack))
  BY <1>1, <1>2, <1>3, Push
<1> HIDE DEF s
<1>5. ASSUME NEW w PROVE Owners(w, s) = Owners(w, stack)
  <2>1. /\ Owners(w, s) =
             [i \in DOMAIN w |-> IF Loop(s).special = i THEN Loop(s).lookup ELSE w[i].waiter]
        /\ Owners(w, stack) =
             [i \in DOMAIN w |-> IF Top.special = i THEN Top.lookup ELSE w[i].waiter]
    BY <1>1, <1>4, OwnersLoop
  <2>2. Loop(s).special = Top.special /\ Loop(s).lookup = Top.lookup
    BY <1>2, <1>4
  <2>3. QED
    BY <2>1, <2>2
<1>6. GoesOn(s, next, at)
  BY <1>2, <1>4, <1>5 DEF GoesOn
<1>7. QED
  BY <1>6 DEF s, c

\* The loop goes on behind the slot it visits.
LEMMA LoopPast ==
  ASSUME DnsInv, In("timeout"), Visited # {}, NEW next \in {None} \union 0 .. Patience
  PROVE  GoesOn(Looped(next), next, Visit + 1)
<1>1. Visit + 1 \in Nat
  BY VisitIs
<1>2. Looped(next) = Called(Goes(Top, next, Visit + 1), Below(stack))
  BY DEF Looped, Called, Goes, Below
<1>3. QED
  BY <1>1, <1>2, LoopOn

LEMMA LaterStep == DnsInv /\ TimeoutLater => DnsInv'
<1> SUFFICES ASSUME DnsInv, TimeoutLater PROVE DnsInv'
  OBVIOUS
<1> DEFINE next == Sooner(Top.next, waiting[Visit].expiry)
<1>1. /\ In("timeout") /\ Visited # {}
      /\ stack' = Looped(next)
      /\ UNCHANGED <<waiting, free, sock, recv_w, time_w, state, age, fault>>
  BY DEF TimeoutLater, slots, waits, callers
<1>2. Top \in TimeoutCalls /\ Loop(stack) = Top /\ Looping(stack)
  BY <1>1, InTimeoutIs
<1>3. Visit \in DOMAIN waiting /\ Visit \in Nat
      /\ \A i \in DOMAIN waiting : owners[i] # None /\ i < Visit => i < Top.at
  BY <1>1, VisitIs
<1>4. waiting[Visit].expiry \in 0 .. Patience /\ Top.next \in {None} \union 0 .. Patience
      /\ Top.at \in Nat
  BY <1>2, <1>3, DataIs, LeftIs DEF TimeoutCalls
<1>5. /\ next \in 0 .. Patience /\ next # None /\ next <= waiting[Visit].expiry
      /\ Top.next # None => next <= Top.next
  BY <1>4, DnsAssumption DEF Sooner
<1> HIDE DEF next
<1>6. GoesOn(stack', next, Visit + 1)
  BY <1>1, <1>5, LoopPast
<1>7. owners' = owners
  BY <1>1, <1>6 DEF GoesOn, owners
<1>8. InTime(waiting, owners, next, 1 .. Visit)
  <2> SUFFICES ASSUME NEW i \in DOMAIN waiting, i \in 1 .. Visit, owners[i] # None
               PROVE  next <= waiting[i].expiry
    BY <1>5 DEF InTime
  <2>1. waiting[i].expiry \in 0 .. Patience
    BY DataIs, LeftIs
  <2>2. CASE i = Visit
    BY <1>5, <2>2
  <2>3. CASE i # Visit
    <3>1. i \in 1 .. Top.at - 1
      BY <1>3, <1>4, <2>3
    <3>2. Top.next # None /\ Top.next <= waiting[i].expiry
      BY <1>2, <3>1 DEF DnsInv, StackOK, InTime
    <3>3. QED
      BY <1>4, <1>5, <2>1, <3>2
  <2>4. QED
    BY <2>2, <2>3
<1>9. StackOK(waiting, owners, stack)'
  <2>1. (Visit + 1) - 1 = Visit
    BY <1>3
  <2>2. SpecialOK(waiting, Loop(stack'))
    BY <1>2, <1>6 DEF DnsInv, StackOK, SpecialOK, GoesOn
  <2>3. Reading(stack') => Loop(stack').special # None
    BY <1>2, <1>6 DEF DnsInv, StackOK, GoesOn
  <2>4. QED
    BY <1>1, <1>6, <1>8, <1>7, <2>1, <2>2, <2>3 DEF StackOK, GoesOn
<1>10. QED
  BY <1>1, <1>2, <1>6, <1>9, <1>7 DEF DnsInv, SockOK, TimerOK, GoesOn

LEMMA RetryStep == DnsInv /\ TimeoutRetry => DnsInv'
<1> SUFFICES ASSUME DnsInv, TimeoutRetry PROVE DnsInv'
  OBVIOUS
<1> DEFINE n == waiting[Visit]
           next == Sooner(Top.next, Patience)
<1>1. /\ In("timeout") /\ Visited # {} /\ n.expiry = 0 /\ n.retries > 0
      /\ waiting' = [waiting EXCEPT ![Visit] = Retried(n)]
      /\ stack' = Looped(next)
      /\ sock => UNCHANGED fault
      /\ UNCHANGED <<free, sock, recv_w, time_w, state, age>>
  BY DEF TimeoutRetry, waits, callers
<1>2. /\ Top \in TimeoutCalls /\ Loop(stack) = Top /\ Looping(stack)
      /\ Top.next \in {None} \union 0 .. Patience /\ Top.at \in Nat
  BY <1>1, InTimeoutIs DEF TimeoutCalls
<1>3. /\ Visit \in DOMAIN waiting /\ Visit \in Nat /\ owners[Visit] # None
      /\ \A i \in DOMAIN waiting : owners[i] # None /\ i < Visit => i < Top.at
      /\ Visit # Top.special /\ n.waiter \in Lookups
  BY <1>1, VisitIs
<1>4. /\ waiting \in Seq(Slots) /\ Len(waiting) \in Nat /\ DOMAIN waiting = 1 .. Len(waiting)
      /\ n \in Slots /\ n.retries \in 0 .. Tries - 1 /\ Patience \in Nat /\ Tries \in Nat
  BY <1>3, DataIs, LeftIs, DnsAssumption
<1>5. /\ next \in 0 .. Patience /\ next # None /\ next <= Patience
      /\ Top.next # None => next <= Top.next
  BY <1>2, <1>4, DnsAssumption DEF Sooner
<1> HIDE DEF next
<1>6. sock
  BY <1>3 DEF DnsInv, SockOK
<1>7. Retried(n) \in Slots /\ Retried(n).waiter = n.waiter /\ Retried(n).expiry = Patience
  <2>1. Retried(n) = [n EXCEPT !.retries = n.retries - 1, !.expiry = Patience]
    BY DEF Retried
  <2>2. n.retries - 1 \in 0 .. Tries - 1 /\ Patience \in 0 .. Patience
    BY <1>1, <1>4
  <2> HIDE DEF n
  <2>3. QED
    BY <1>4, <2>1, <2>2 DEF Slots
<1>8. Left(Retried(n)) = Left(n)
  <2>1. Retried(n).retries = n.retries - 1
    BY <1>4 DEF Retried, Slots
  <2>2. (n.retries - 1) * Patience + Patience = n.retries * Patience + 0
    BY <1>4
  <2>3. QED
    BY <1>1, <1>7, <2>1, <2>2 DEF Left
<1>9. /\ waiting' \in Seq(Slots) /\ Len(waiting') = Len(waiting)
      /\ DOMAIN waiting' = DOMAIN waiting /\ waiting'[Visit] = Retried(n)
      /\ \A i \in DOMAIN waiting \ {Visit} : waiting'[i] = waiting[i]
  BY <1>1, <1>3, <1>4, <1>7
<1>10. \A i \in DOMAIN waiting : /\ waiting'[i].waiter = waiting[i].waiter
                                 /\ Left(waiting'[i]) = Left(waiting[i])
                                 /\ waiting'[i].expiry >= waiting[i].expiry
  <2> SUFFICES ASSUME NEW i \in DOMAIN waiting
               PROVE  /\ waiting'[i].waiter = waiting[i].waiter
                      /\ Left(waiting'[i]) = Left(waiting[i])
                      /\ waiting'[i].expiry >= waiting[i].expiry
    OBVIOUS
  <2>1. waiting[i].expiry \in 0 .. Patience
    BY DataIs, LeftIs
  <2>2. CASE i = Visit
    BY <1>1, <1>4, <1>7, <1>8, <1>9, <2>2
  <2>3. CASE i # Visit
    BY <1>9, <2>1, <2>3
  <2>4. QED
    BY <2>2, <2>3
<1>11. GoesOn(stack', next, Visit + 1)
  BY <1>1, <1>5, LoopPast
<1>12. owners' = owners
  <2>1. Owners(waiting', stack') = Owners(waiting', stack)
    BY <1>11 DEF GoesOn
  <2>2. Owners(waiting', stack) = Owners(waiting, stack)
    BY <1>2, <1>9, <1>10, OwnersLoop
  <2>3. QED
    BY <2>1, <2>2 DEF owners
<1>13. ArrayOK(waiting, owners, free, state, age)'
  <2>1. ArrayOK(waiting, owners, free, state, age) /\ age \in [Lookups -> Nat]
    BY DataIs DEF DnsInv
  <2>2. \A i \in DOMAIN waiting : owners[i] # None =>
          age[owners[i]] + Left(waiting'[i]) <= Tries * Patience
    BY <1>10, <2>1 DEF ArrayOK
  <2>3. ArrayOK(waiting', owners, free, state, age)
    BY <1>9, <2>1, <2>2, ChangeArray
  <2>4. QED
    BY <1>1, <1>12, <2>3
<1>14. ASSUME NEW t \in {None} \union 0 .. Patience, NEW D, InTime(waiting, owners, t, D)
       PROVE  InTime(waiting', owners, t, D)
  <2> SUFFICES ASSUME NEW i \in DOMAIN waiting, i \in D, owners[i] # None
               PROVE  t # None /\ t <= waiting'[i].expiry
    BY <1>9 DEF InTime
  <2>1. waiting[i].expiry \in 0 .. Patience /\ waiting'[i].expiry \in 0 .. Patience
    BY <1>9, DataIs, LeftIs
  <2>2. t # None /\ t <= waiting[i].expiry
    BY <1>14 DEF InTime
  <2>3. QED
    BY <1>4, <1>10, <2>1, <2>2
<1>15. InTime(waiting', owners, next, 1 .. Visit)
  <2> SUFFICES ASSUME NEW i \in DOMAIN waiting, i \in 1 .. Visit, owners[i] # None
               PROVE  next <= waiting'[i].expiry
    BY <1>5, <1>9 DEF InTime
  <2>1. waiting'[i].expiry \in 0 .. Patience
    BY <1>9, LeftIs
  <2>2. CASE i = Visit
    BY <1>5, <1>7, <1>9, <2>2
  <2>3. CASE i # Visit
    <3>1. i \in 1 .. Top.at - 1
      BY <1>2, <1>3, <2>3
    <3>2. InTime(waiting, owners, Top.next, 1 .. Top.at - 1)
      BY <1>2 DEF DnsInv, StackOK
    <3>3. Top.next # None /\ Top.next <= waiting'[i].expiry
      BY <1>2, <1>9, <1>14, <3>1, <3>2 DEF InTime
    <3>4. QED
      BY <1>2, <1>4, <1>5, <2>1, <3>3
  <2>4. QED
    BY <2>2, <2>3
<1>16. StackOK(waiting, owners, stack)'
  <2>1. (Visit + 1) - 1 = Visit
    BY <1>3
  <2>2. SpecialOK(waiting, Top)
    BY <1>2 DEF DnsInv, StackOK
  <2>3. SpecialOK(waiting', Loop(stack'))
    BY <1>3, <1>9, <1>11, <2>2 DEF SpecialOK, GoesOn
  <2>4. Reading(stack') => Loop(stack').special # None
    BY <1>2, <1>11 DEF DnsInv, StackOK, GoesOn
  <2>5. QED
    BY <1>11, <1>15, <1>12, <2>1, <2>3, <2>4 DEF StackOK, GoesOn
<1>17. SockOK(waiting, owners, stack, sock, recv_w)'
  BY <1>1, <1>9, <1>11, <1>12 DEF DnsInv, SockOK, GoesOn
<1>18. TimerOK(waiting, owners, stack, time_w)'
  <2>1. time_w \in {None} \union 0 .. Patience
        /\ (time_w # None => InTime(waiting, owners, time_w, DOMAIN waiting))
    BY DEF DnsInv, TimerOK
  <2>2. time_w # None => InTime(waiting', owners, time_w, DOMAIN waiting)
    BY <1>14, <2>1
  <2>3. QED
    BY <1>1, <1>9, <1>11, <1>12, <2>1, <2>2 DEF TimerOK, GoesOn
<1>19. QED
  BY <1>1, <1>6, <1>13, <1>16, <1>17, <1>18 DEF DnsInv

-----------------------------------------------------------------------------
(* Lookups end.                                                            *)

\* Freeing a slot with a waiter leaves the call of timeout() in progress as it is.
LEMMA Freed ==
  ASSUME DnsInv, NEW i \in DOMAIN waiting, waiting[i].waiter # None, Dealloc(i),
         NEW a \in {"idle"} \union Answers, state' = [state EXCEPT ![waiting[i].waiter] = a],
         age' = age
  PROVE  LET o == Owners(waiting', stack)
         IN  /\ Len(waiting') = Len(waiting) /\ DOMAIN waiting' = DOMAIN waiting
             /\ ArrayOK(waiting', o, free', state', age')
             /\ o[i] = None /\ \A j \in DOMAIN waiting \ {i} : o[j] = owners[j]
             /\ \A j \in DOMAIN waiting \ {i} : waiting'[j] = waiting[j]
             /\ Looping(stack) => SpecialOK(waiting', Loop(stack))
<1> DEFINE o == Owners(waiting', stack)
<1>1. /\ waiting \in Seq(Slots) /\ Len(waiting) \in Nat /\ DOMAIN waiting = 1 .. Len(waiting)
      /\ owners \in [DOMAIN waiting -> Lookups \union {None}]
      /\ ArrayOK(waiting, owners, free, state, age)
  BY DataIs DEF DnsInv
<1>2. owners[i] = waiting[i].waiter
  BY OwnersIs
<1>3. waiting' = [waiting EXCEPT ![i] = Blank] /\ free' = <<i>> \o free
  BY DEF Dealloc
<1>4. /\ Len(waiting') = Len(waiting) /\ DOMAIN waiting' = DOMAIN waiting
      /\ waiting'[i] = Blank /\ \A j \in DOMAIN waiting \ {i} : waiting'[j] = waiting[j]
  BY <1>1, <1>3, BlankIs
<1>5. Looping(stack) => SpecialOK(waiting, Loop(stack)) /\ i # Loop(stack).special
  <2>1. Looping(stack) => SpecialOK(waiting, Loop(stack))
    BY DEF DnsInv, StackOK
  <2>2. i # None
    BY <1>1, DnsAssumption
  <2>3. QED
    BY <2>1, <2>2 DEF SpecialOK
<1>6. o = [owners EXCEPT ![i] = None]
  <2>1. CASE Looping(stack)
    <3>1. o = [j \in DOMAIN waiting |->
                IF Loop(stack).special = j THEN Loop(stack).lookup ELSE waiting'[j].waiter]
      BY <1>4, <2>1, OwnersLoop
    <3>2. owners = [j \in DOMAIN waiting |->
                     IF Loop(stack).special = j THEN Loop(stack).lookup ELSE waiting[j].waiter]
      BY <2>1, OwnersLoop DEF owners
    <3>3. QED
      BY <1>4, <1>5, <2>1, <3>1, <3>2, BlankIs
  <2>2. CASE ~Looping(stack)
    <3>1. o = [j \in DOMAIN waiting |-> waiting'[j].waiter]
      BY <1>4, <2>2, OwnersIdle
    <3>2. owners = [j \in DOMAIN waiting |-> waiting[j].waiter]
      BY <2>2, OwnersIdle DEF owners
    <3>3. QED
      BY <1>4, <3>1, <3>2, BlankIs
  <2>3. QED
    BY <2>1, <2>2
<1>7. o[i] = None /\ \A j \in DOMAIN waiting \ {i} : o[j] = owners[j]
  BY <1>1, <1>6
<1>8. ArrayOK(waiting', o, free', state', age')
  <2>1. ArrayOK([waiting EXCEPT ![i] = Blank], [owners EXCEPT ![i] = None], <<i>> \o free,
                [state EXCEPT ![owners[i]] = a], age)
    BY <1>1, <1>2, ClearArray
  <2>2. state' = [state EXCEPT ![owners[i]] = a]
    BY <1>2
  <2>3. QED
    BY <1>3, <1>6, <2>1, <2>2
<1>9. Looping(stack) => SpecialOK(waiting', Loop(stack))
  BY <1>4, <1>5 DEF SpecialOK
<1>10. QED
  BY <1>4, <1>7, <1>8, <1>9

\* Freeing a slot leaves the sockets and timers good.
LEMMA FreedInTime ==
  ASSUME NEW w, NEW o, NEW v, NEW p, DOMAIN v = DOMAIN w, NEW i,
         p[i] = None, \A j \in DOMAIN w \ {i} : p[j] = o[j] /\ v[j] = w[j]
  PROVE  /\ \A t, D : InTime(w, o, t, D) => InTime(v, p, t, D)
         /\ (\E j \in DOMAIN v : p[j] # None) => \E j \in DOMAIN w : o[j] # None
<1>1. ASSUME NEW t, NEW D, InTime(w, o, t, D) PROVE InTime(v, p, t, D)
  BY <1>1 DEF InTime
<1>2. QED
  BY <1>1

LEMMA CancelStep == ASSUME NEW l \in Lookups PROVE DnsInv /\ Cancel(l) => DnsInv'
<1> SUFFICES ASSUME DnsInv, Cancel(l) PROVE DnsInv'
  OBVIOUS
<1>1. PICK i \in DOMAIN waiting : waiting[i].waiter = l /\ Dealloc(i)
  BY DEF Cancel
<1>2. /\ state' = [state EXCEPT ![l] = "idle"]
      /\ UNCHANGED <<sock, recv_w, time_w, stack, age, fault>>
  BY DEF Cancel, waits
<1>3. l # None
  BY DnsAssumption
<1>4. /\ Len(waiting') = Len(waiting) /\ DOMAIN waiting' = DOMAIN waiting
      /\ ArrayOK(waiting', owners', free', state', age')
      /\ owners'[i] = None
      /\ \A j \in DOMAIN waiting \ {i} : owners'[j] = owners[j] /\ waiting'[j] = waiting[j]
      /\ Looping(stack) => SpecialOK(waiting', Loop(stack))
  <2>1. Owners(waiting', stack) = owners'
    BY <1>2 DEF owners
  <2>2. QED
    BY <1>1, <1>2, <1>3, <2>1, Freed
<1>5. /\ \A t, D : InTime(waiting, owners, t, D) => InTime(waiting', owners', t, D)
      /\ (\E j \in DOMAIN waiting' : owners'[j] # None) =>
           \E j \in DOMAIN waiting : owners[j] # None
  BY <1>4, FreedInTime
<1>6. StackOK(waiting, owners, stack)'
  BY <1>2, <1>4, <1>5 DEF DnsInv, StackOK
<1>7. SockOK(waiting, owners, stack, sock, recv_w)'
  BY <1>2, <1>4, <1>5 DEF DnsInv, SockOK
<1>8. TimerOK(waiting, owners, stack, time_w)'
  BY <1>2, <1>4, <1>5 DEF DnsInv, TimerOK
<1>9. QED
  BY <1>2, <1>4, <1>6, <1>7, <1>8 DEF DnsInv

LEMMA FailStep == DnsInv /\ TimeoutFail => DnsInv'
<1> SUFFICES ASSUME DnsInv, TimeoutFail PROVE DnsInv'
  OBVIOUS
<1> DEFINE n == waiting[Visit]
           s == Looped(Top.next)
           c == CallerCall(n.waiter, "timeout")
<1>1. /\ In("timeout") /\ Visited # {} /\ n.expiry = 0 /\ Dealloc(Visit)
      /\ state' = [state EXCEPT ![n.waiter] = "failed"]
      /\ stack' = Called(c, s)
      /\ UNCHANGED <<sock, recv_w, time_w, age, fault>>
  BY DEF TimeoutFail, waits, Called
<1>2. /\ Top \in TimeoutCalls /\ Loop(stack) = Top /\ Looping(stack)
      /\ Top.next \in {None} \union 0 .. Patience /\ Top.at \in Nat
  BY <1>1, InTimeoutIs DEF TimeoutCalls
<1>3. /\ Visit \in DOMAIN waiting /\ Visit \in Nat
      /\ \A i \in DOMAIN waiting : owners[i] # None /\ i < Visit => i < Top.at
      /\ n.waiter \in Lookups /\ n.waiter # None
  BY <1>1, VisitIs, DnsAssumption
<1>4. GoesOn(s, Top.next, Visit + 1)
  BY <1>1, <1>2, LoopPast
<1> HIDE DEF s, n
<1>5. c \in Calls /\ c.call = "caller" /\ c.during = "timeout" /\ MayCall(c, s)
  BY <1>3, <1>4 DEF GoesOn, MayCall, CallerCall, Calls, CallerCalls
<1> HIDE DEF c
<1>6. /\ stack' \in Seq(Calls) /\ Nested(stack')
      /\ Reading(stack') <=> Reading(s)
      /\ Looping(stack') /\ Loop(stack') = s[1]
  BY <1>1, <1>4, <1>5, Push DEF GoesOn
<1>7. Loop(s) = s[1]
  BY <1>4 DEF GoesOn, Loop
<1>8. Owners(waiting', stack') = Owners(waiting', stack)
  <2>1. Owners(waiting', stack') = Owners(waiting', s)
    BY <1>4, <1>6, <1>7, OwnersLoop DEF GoesOn
  <2>2. QED
    BY <1>4, <2>1 DEF GoesOn
<1>9. /\ Len(waiting') = Len(waiting) /\ DOMAIN waiting' = DOMAIN waiting
      /\ ArrayOK(waiting', owners', free', state', age')
      /\ owners'[Visit] = None
      /\ \A j \in DOMAIN waiting \ {Visit} :
           owners'[j] = owners[j] /\ waiting'[j] = waiting[j]
      /\ SpecialOK(waiting', Top)
  <2>1. Owners(waiting', stack) = owners'
    BY <1>8 DEF owners
  <2>2. "failed" \in {"idle"} \union Answers
    BY DEF Answers
  <2>3. QED
    BY <1>1, <1>2, <1>3, <2>1, <2>2, Freed DEF n
<1>10. /\ \A t, D : InTime(waiting, owners, t, D) => InTime(waiting', owners', t, D)
       /\ (\E j \in DOMAIN waiting' : owners'[j] # None) =>
            \E j \in DOMAIN waiting : owners[j] # None
  BY <1>9, FreedInTime
<1>11. StackOK(waiting, owners, stack)'
  <2>1. (Visit + 1) - 1 = Visit
    BY <1>3
  <2>2. SpecialOK(waiting', Loop(stack'))
    BY <1>4, <1>6, <1>7, <1>9 DEF SpecialOK, GoesOn
  <2>3. Reading(stack') => Loop(stack').special # None
    BY <1>2, <1>4, <1>6, <1>7 DEF DnsInv, StackOK, GoesOn
  <2>4. InTime(waiting, owners, Top.next, 1 .. Top.at - 1)
    BY <1>2 DEF DnsInv, StackOK
  <2>5. InTime(waiting', owners', Top.next, 1 .. Visit)
    <3> SUFFICES ASSUME NEW i \in DOMAIN waiting, i \in 1 .. Visit, owners'[i] # None
                 PROVE  Top.next # None /\ Top.next <= waiting'[i].expiry
      BY <1>9 DEF InTime
    <3>1. i # Visit /\ owners[i] # None /\ waiting'[i] = waiting[i]
      BY <1>9
    <3>2. i \in 1 .. Top.at - 1
      BY <1>2, <1>3, <3>1
    <3>3. QED
      BY <2>4, <3>1, <3>2 DEF InTime
  <2>6. QED
    BY <1>4, <1>6, <1>7, <2>1, <2>2, <2>3, <2>5 DEF StackOK, GoesOn
<1>12. SockOK(waiting, owners, stack, sock, recv_w)'
  BY <1>1, <1>4, <1>6, <1>10 DEF DnsInv, SockOK, GoesOn
<1>13. TimerOK(waiting, owners, stack, time_w)'
  BY <1>1, <1>2, <1>6, <1>9, <1>10 DEF DnsInv, TimerOK
<1>14. QED
  BY <1>1, <1>9, <1>11, <1>12, <1>13 DEF DnsInv

-----------------------------------------------------------------------------
(* The other steps.                                                        *)

LEMMA ReturnStep == DnsInv /\ TimeoutReturn => DnsInv'
<1> SUFFICES ASSUME DnsInv, TimeoutReturn PROVE DnsInv'
  OBVIOUS
<1>1. /\ In("timeout") /\ Visited = {} /\ stack' = Below(stack)
      /\ IF Top.next = None THEN sock' = FALSE /\ recv_w' = FALSE /\ UNCHANGED time_w
         ELSE /\ time_w' = (IF time_w = None THEN Top.next ELSE time_w)
              /\ UNCHANGED <<sock, recv_w>>
      /\ UNCHANGED <<free, state, age>>
  BY DEF TimeoutReturn, Below, callers
<1>2. /\ Top \in TimeoutCalls /\ Loop(stack) = Top /\ Looping(stack)
      /\ Top.next \in {None} \union 0 .. Patience /\ Top.at \in Nat
      /\ stack' \in Seq(Calls) /\ Nested(stack') /\ ~Looping(stack')
      /\ Reading(stack') <=> Reading(stack)
  BY <1>1, InTimeoutIs DEF TimeoutCalls
<1>3. /\ waiting \in Seq(Slots) /\ Len(waiting) \in Nat /\ DOMAIN waiting = 1 .. Len(waiting)
      /\ owners \in [DOMAIN waiting -> Lookups \union {None}] /\ fault = None
  BY DataIs
<1>4. /\ SpecialOK(waiting, Top)
      /\ InTime(waiting, owners, Top.next, 1 .. Top.at - 1)
  BY <1>2 DEF DnsInv, StackOK
<1>5. InTime(waiting, owners, Top.next, DOMAIN waiting)
  <2> SUFFICES ASSUME NEW i \in DOMAIN waiting, owners[i] # None
               PROVE  i \in 1 .. Top.at - 1
    BY <1>4 DEF InTime
  <2>1. LoopsOver(i)
    BY <1>1, LoopsOverOwned
  <2>2. ~(i >= Top.at)
    BY <1>1, <2>1 DEF Visited
  <2>3. QED
    BY <1>2, <1>3, <2>2
<1>6. Top.next = None => ~Reading(stack) /\ \A i \in DOMAIN waiting : owners[i] = None
  <2>1. Top.next = None => \A i \in DOMAIN waiting : owners[i] = None
    BY <1>5 DEF InTime
  <2>2. Top.special # None => \E i \in DOMAIN waiting : owners[i] # None
    BY <1>2, OwnersIs
  <2>3. Reading(stack) => Top.special # None
    BY <1>2 DEF DnsInv, StackOK
  <2>4. QED
    BY <2>1, <2>2, <2>3
<1>7. /\ fault' = None /\ waiting' \in Seq(Slots) /\ Len(waiting') = Len(waiting)
      /\ DOMAIN waiting' = DOMAIN waiting
      /\ \A i \in DOMAIN waiting :
           /\ waiting'[i].waiter = owners[i] /\ waiting'[i].expiry = waiting[i].expiry
           /\ Left(waiting'[i]) = Left(waiting[i])
  <2>1. CASE Top.special = None
    <3>1. UNCHANGED <<waiting, fault>>
      BY <2>1 DEF TimeoutReturn
    <3>2. \A i \in DOMAIN waiting : i # Top.special
      BY <1>3, <2>1, DnsAssumption
    <3>3. \A i \in DOMAIN waiting : owners[i] = waiting[i].waiter
      BY <1>2, <3>2, OwnersIs
    <3>4. QED
      BY <1>3, <3>1, <3>3
  <2>2. CASE Top.special # None
    <3> DEFINE k == Top.special
               x == [waiting[k] EXCEPT !.waiter = Top.lookup]
    <3>1. /\ k \in DOMAIN waiting /\ Top.size = Len(waiting) /\ Top.lookup \in Lookups
      BY <1>2, <2>2 DEF DnsInv, StackOK, SpecialOK
    <3>2. waiting' = [waiting EXCEPT ![k].waiter = Top.lookup] /\ UNCHANGED fault
      BY <2>2, <3>1 DEF TimeoutReturn
    <3>3. waiting[k] \in Slots
      BY <1>3, <3>1
    <3>4. x \in Slots /\ x.waiter = Top.lookup /\ x.expiry = waiting[k].expiry
          /\ Left(x) = Left(waiting[k])
      <4> DEFINE y == waiting[k]
      <4>1. y \in Slots /\ x = [y EXCEPT !.waiter = Top.lookup]
        BY <3>3
      <4> HIDE DEF y, x
      <4>2. x \in Slots /\ x.waiter = Top.lookup /\ x.expiry = y.expiry /\ x.retries = y.retries
        BY <3>1, <4>1 DEF Slots
      <4>3. QED
        BY <4>2 DEF Left, y
    <3>5. waiting' = [waiting EXCEPT ![k] = x]
      BY <3>2
    <3> HIDE DEF x
    <3>6. /\ waiting' \in Seq(Slots) /\ Len(waiting') = Len(waiting)
          /\ DOMAIN waiting' = DOMAIN waiting
          /\ waiting'[k] = x /\ \A i \in DOMAIN waiting \ {k} : waiting'[i] = waiting[i]
      BY <1>3, <3>1, <3>4, <3>5
    <3>7. owners[k] = Top.lookup /\ \A i \in DOMAIN waiting \ {k} : owners[i] = waiting[i].waiter
      BY <1>2, <2>2, OwnersIs
    <3>8. QED
      BY <1>3, <3>2, <3>4, <3>6, <3>7
  <2>3. QED
    BY <2>1, <2>2
<1>8. owners' = owners
  <2>1. owners' = [i \in DOMAIN waiting |-> waiting'[i].waiter]
    BY <1>2, <1>7, OwnersIdle DEF owners
  <2>2. QED
    BY <1>3, <1>7, <2>1
<1>9. ArrayOK(waiting, owners, free, state, age)'
  <2>1. ArrayOK(waiting, owners, free, state, age) /\ age \in [Lookups -> Nat]
    BY DataIs DEF DnsInv
  <2>2. \A i \in DOMAIN waiting : owners[i] # None =>
          age[owners[i]] + Left(waiting'[i]) <= Tries * Patience
    BY <1>7, <2>1 DEF ArrayOK
  <2>3. ArrayOK(waiting', owners, free, state, age)
    BY <1>7, <2>1, <2>2, ChangeArray
  <2>4. QED
    BY <1>1, <1>8, <2>3
<1>10. \A t : InTime(waiting, owners, t, DOMAIN waiting) =>
               InTime(waiting', owners, t, DOMAIN waiting)
  BY <1>7 DEF InTime
<1>11. StackOK(waiting, owners, stack)'
  BY <1>2 DEF StackOK
<1>12. SockOK(waiting, owners, stack, sock, recv_w)'
  <2>1. SockOK(waiting, owners, stack, sock, recv_w)
    BY DEF DnsInv
  <2>2. CASE Top.next = None
    BY <1>1, <1>2, <1>6, <1>7, <1>8, <2>2 DEF SockOK
  <2>3. CASE Top.next # None
    BY <1>1, <1>2, <1>7, <1>8, <2>1, <2>3 DEF SockOK
  <2>4. QED
    BY <2>2, <2>3
<1>13. TimerOK(waiting, owners, stack, time_w)'
  <2>1. time_w \in {None} \union 0 .. Patience
        /\ (time_w # None => InTime(waiting, owners, time_w, DOMAIN waiting))
    BY DEF DnsInv, TimerOK
  <2>2. time_w' \in {None} \union 0 .. Patience
    BY <1>1, <1>2, <2>1
  <2>3. InTime(waiting, owners, time_w', DOMAIN waiting)
    <3>1. CASE Top.next = None
      BY <1>6, <3>1 DEF InTime
    <3>2. CASE Top.next # None
      BY <1>1, <1>5, <2>1, <3>2
    <3>3. QED
      BY <3>1, <3>2
  <2>4. QED
    BY <1>7, <1>8, <1>10, <2>2, <2>3 DEF TimerOK
<1>14. QED
  BY <1>7, <1>9, <1>11, <1>12, <1>13 DEF DnsInv

LEMMA FiresStep == DnsInv /\ TimerFires => DnsInv'
<1> SUFFICES ASSUME DnsInv, TimerFires PROVE DnsInv'
  OBVIOUS
<1> DEFINE c == TimeoutCall(None, None, Len(waiting))
<1>1. /\ stack = <<>> /\ time_w' = None /\ stack' = <<c>>
      /\ UNCHANGED <<waiting, free, sock, recv_w, state, age, fault>>
  BY DEF TimerFires, InRunloop, slots, callers
<1>2. /\ c \in Calls /\ c.call = "timeout" /\ c.special = None /\ c.next = None /\ c.at = 1
      /\ MayCall(c, stack)
  BY <1>1, DataIs DEF TimeoutCall, Calls, TimeoutCalls, MayCall
<1> HIDE DEF c
<1>3. stack' = Called(c, stack)
  BY <1>1, <1>2 DEF Called
<1>4. ~Looping(stack) /\ ~Reading(stack)
  BY <1>1, StackEmpty
<1>5. /\ stack' \in Seq(Calls) /\ Nested(stack')
      /\ Reading(stack') <=> Reading(stack)
      /\ Looping(stack') /\ Loop(stack') = c
  BY <1>2, <1>3, DataIs, Push
<1>6. owners' = owners
  <2>1. owners' = [i \in DOMAIN waiting |->
                    IF c.special = i THEN c.lookup ELSE waiting[i].waiter]
    BY <1>1, <1>5, OwnersLoop DEF owners
  <2>2. owners = [i \in DOMAIN waiting |-> waiting[i].waiter]
    BY <1>4, OwnersIdle DEF owners
  <2>3. \A i \in DOMAIN waiting : c.special # i
    BY <1>2, DataIs, DnsAssumption
  <2>4. QED
    BY <2>1, <2>2, <2>3
<1>7. StackOK(waiting, owners, stack)'
  <2>1. InTime(waiting, owners, None, 1 .. 1 - 1)
    BY DEF InTime
  <2>2. QED
    BY <1>1, <1>2, <1>4, <1>5, <1>6, <2>1 DEF StackOK, SpecialOK
<1>8. TimerOK(waiting, owners, stack, time_w)'
  BY <1>1, <1>5 DEF TimerOK
<1>9. SockOK(waiting, owners, stack, sock, recv_w)'
  BY <1>1, <1>5, <1>6 DEF DnsInv, SockOK
<1>10. QED
  BY <1>1, <1>6, <1>7, <1>8, <1>9 DEF DnsInv

LEMMA CallerReturnStep == DnsInv /\ CallerReturn => DnsInv'
<1> SUFFICES ASSUME DnsInv, CallerReturn PROVE DnsInv'
  OBVIOUS
<1>1. /\ In("caller") /\ stack' = Below(stack)
      /\ UNCHANGED <<waiting, free, sock, recv_w, time_w, state, age, fault>>
  BY DEF CallerReturn, Below, slots, waits, callers
<1>2. stack' \in Seq(Calls) /\ Nested(stack')
  BY <1>1, InCallerIs
<1>3. /\ Reading(stack') <=> Reading(stack)
      /\ Looping(stack') <=> Looping(stack)
      /\ Looping(stack) => Loop(stack') = Loop(stack)
  BY <1>1, InCallerIs
<1>4. owners' = owners
  <2>1. Owners(waiting, stack') = Owners(waiting, stack)
    <3>1. CASE Looping(stack)
      BY <1>3, <3>1, OwnersLoop
    <3>2. CASE ~Looping(stack)
      BY <1>3, <3>2, OwnersIdle
    <3>3. QED
      BY <3>1, <3>2
  <2>2. QED
    BY <1>1, <2>1 DEF owners
<1>5. StackOK(waiting, owners, stack)'
  BY <1>1, <1>2, <1>3, <1>4 DEF DnsInv, StackOK
<1>6. QED
  BY <1>1, <1>3, <1>4, <1>5 DEF DnsInv, SockOK, TimerOK

LEMMA RecvReturnStep == DnsInv /\ RecvReturn => DnsInv'
<1> SUFFICES ASSUME DnsInv, RecvReturn PROVE DnsInv'
  OBVIOUS
<1>1. /\ Reading(stack) /\ ~Looping(stack) /\ stack' = <<>>
      /\ UNCHANGED <<waiting, free, sock, time_w, state, age>>
  BY InRecvIs DEF RecvReturn, slots, callers
<1>2. sock
  BY <1>1 DEF DnsInv, SockOK
<1>3. recv_w' = TRUE /\ UNCHANGED fault
  BY <1>2 DEF RecvReturn
<1>4. stack' \in Seq(Calls) /\ Nested(stack') /\ ~Looping(stack') /\ ~Reading(stack')
  BY <1>1, StackEmpty
<1>5. owners' = owners
  BY <1>1, <1>4, OwnersIdle DEF owners
<1>6. StackOK(waiting, owners, stack)'
  BY <1>4 DEF StackOK
<1>7. SockOK(waiting, owners, stack, sock, recv_w)'
  BY <1>1, <1>2, <1>3, <1>4 DEF SockOK
<1>8. TimerOK(waiting, owners, stack, time_w)'
  BY <1>1, <1>5 DEF DnsInv, TimerOK
<1>9. QED
  BY <1>1, <1>3, <1>5, <1>6, <1>7, <1>8 DEF DnsInv

LEMMA RecvStep == DnsInv /\ Recv => DnsInv'
<1> SUFFICES ASSUME DnsInv, Recv PROVE DnsInv'
  OBVIOUS
<1>1. PICK m \in replies : Received(m)
  BY DEF Recv
<1>2. stack = <<>> /\ sock /\ UNCHANGED <<sock, time_w, age, fault>>
  BY DEF Recv, InRunloop
<1>3. ~Looping(stack) /\ ~Reading(stack)
  BY <1>2, StackEmpty
<1>4. CASE NodesFor(m.trid) = {}
  <2>1. UNCHANGED <<waiting, free, recv_w, stack, state>>
    BY <1>1, <1>4 DEF Received, slots
  <2>2. owners' = owners
    BY <2>1 DEF owners
  <2>3. QED
    BY <1>2, <2>1, <2>2 DEF DnsInv
<1>5. CASE NodesFor(m.trid) # {}
  <2> DEFINE i == Min(NodesFor(m.trid))
             l == waiting[i].waiter
             c == CallerCall(l, "recv")
  <2>1. i \in DOMAIN waiting /\ l # None
    <3>1. NodesFor(m.trid) \in SUBSET Nat
      BY DataIs DEF NodesFor
    <3>2. i \in NodesFor(m.trid)
      BY <1>5, <3>1, Least
    <3>3. QED
      BY <3>2 DEF NodesFor
  <2>2. PICK a \in Answers : state' = [state EXCEPT ![l] = a]
    <3> DEFINE A == IF m.name = waiting[i].name THEN Answers ELSE {"failed"}
    <3>1. \E a \in A : state' = [state EXCEPT ![l] = a]
      BY <1>1, <1>5 DEF Received
    <3>2. A \subseteq Answers
      BY DEF Answers
    <3> HIDE DEF A
    <3>3. QED
      BY <3>1, <3>2
  <2>3. Dealloc(i) /\ recv_w' = FALSE /\ stack' = <<c, RecvCall>>
    <3>1. Dealloc(i)
      BY <1>1, <1>5 DEF Received
    <3>2. recv_w' = FALSE
      BY <1>1, <1>5 DEF Received
    <3>3. stack' = <<c, RecvCall>>
      BY <1>1, <1>5 DEF Received
    <3>4. QED
      BY <3>1, <3>2, <3>3
  <2> HIDE DEF i
  <2>4. l \in Lookups
    BY <2>1, DataIs DEF Slots
  <2>5. Answers \subseteq {"idle"} \union Answers
    OBVIOUS
  <2>6. LET o == Owners(waiting', stack)
        IN  /\ Len(waiting') = Len(waiting) /\ DOMAIN waiting' = DOMAIN waiting
            /\ ArrayOK(waiting', o, free', state', age')
            /\ o[i] = None /\ \A j \in DOMAIN waiting \ {i} : o[j] = owners[j]
            /\ \A j \in DOMAIN waiting \ {i} : waiting'[j] = waiting[j]
    BY <1>2, <2>1, <2>2, <2>3, <2>5, Freed
  <2> HIDE DEF l
  <2>7. c \in Calls /\ c.call = "caller" /\ c.during = "recv"
    BY <2>4 DEF CallerCall, Calls, CallerCalls
  <2> HIDE DEF c
  <2>8. RecvCall \in Calls /\ RecvCall.call = "recv"
    BY DEF Calls, RecvCall
  <2>9. <<RecvCall>> \in Seq(Calls) /\ Nested(<<RecvCall>>) /\ <<RecvCall>>[1] = RecvCall
        /\ Reading(<<RecvCall>>)
    <3>1. MayCall(RecvCall, <<>>) /\ <<RecvCall>> = Called(RecvCall, <<>>)
      BY <2>8 DEF MayCall, Called
    <3>2. QED
      BY <2>8, <3>1, StackEmpty, Push
  <2>10. stack' = Called(c, <<RecvCall>>) /\ MayCall(c, <<RecvCall>>)
    BY <2>3, <2>7, <2>8 DEF Called, MayCall
  <2>11. stack' \in Seq(Calls) /\ Nested(stack') /\ Reading(stack') /\ ~Looping(stack')
    BY <2>7, <2>9, <2>10, Push
  <2>12. Owners(waiting', stack) = owners'
    BY <1>3, <2>11, OwnersIdle DEF owners
  <2>13. /\ \A t, D : InTime(waiting, owners, t, D) => InTime(waiting', owners', t, D)
    BY <2>6, <2>12, FreedInTime
  <2>14. StackOK(waiting, owners, stack)'
    BY <2>11 DEF StackOK
  <2>15. SockOK(waiting, owners, stack, sock, recv_w)'
    BY <1>2, <2>3, <2>11 DEF SockOK
  <2>16. TimerOK(waiting, owners, stack, time_w)'
    BY <1>2, <1>3, <2>6, <2>13 DEF DnsInv, TimerOK
  <2>17. QED
    BY <1>2, <2>6, <2>12, <2>14, <2>15, <2>16 DEF DnsInv
<1>6. QED
  BY <1>4, <1>5

LEMMA TickStep == DnsInv /\ Tick => DnsInv'
<1> SUFFICES ASSUME DnsInv, Tick PROVE DnsInv'
  OBVIOUS
<1>1. /\ stack = <<>> /\ time_w # 0
      /\ time_w' = (IF time_w = None THEN None ELSE time_w - 1)
      /\ waiting' = [i \in DOMAIN waiting |->
                      [waiting[i] EXCEPT !.expiry = IF @ > 0 THEN @ - 1 ELSE 0]]
      /\ age' = [l \in Lookups |-> IF state[l] # "busy" THEN 0
                                   ELSE Min({age[l] + 1, Tries * Patience + 1})]
      /\ UNCHANGED <<free, sock, recv_w, stack, state, fault>>
  BY DEF Tick, InRunloop
<1>2. /\ ~Looping(stack) /\ ~Reading(stack)
  BY <1>1, StackEmpty
<1>3. /\ waiting \in Seq(Slots) /\ Len(waiting) \in Nat /\ DOMAIN waiting = 1 .. Len(waiting)
      /\ \A i \in DOMAIN waiting : waiting[i] \in Slots
      /\ owners \in [DOMAIN waiting -> Lookups \union {None}]
      /\ age \in [Lookups -> Nat] /\ time_w \in {None} \union 0 .. Patience
      /\ Patience \in Nat /\ Tries \in Nat /\ Tries * Patience \in Nat
  BY DataIs, DnsAssumption
<1>4. InTime(waiting, owners, time_w, DOMAIN waiting)
  BY <1>2 DEF DnsInv, TimerOK
<1>5. /\ Len(waiting') = Len(waiting) /\ DOMAIN waiting' = DOMAIN waiting
      /\ waiting' \in Seq(Slots)
      /\ \A i \in DOMAIN waiting : /\ waiting'[i].waiter = waiting[i].waiter
                                   /\ waiting'[i].retries = waiting[i].retries
                                   /\ waiting[i].expiry > 0 =>
                                        waiting'[i].expiry = waiting[i].expiry - 1
  <2>1. ASSUME NEW n \in Slots
        PROVE  LET x == [n EXCEPT !.expiry = IF @ > 0 THEN @ - 1 ELSE 0]
               IN  /\ x \in Slots /\ x.waiter = n.waiter /\ x.retries = n.retries
                   /\ n.expiry > 0 => x.expiry = n.expiry - 1
    <3>1. n.expiry \in 0 .. Patience
      BY LeftIs
    <3>2. (IF n.expiry > 0 THEN n.expiry - 1 ELSE 0) \in 0 .. Patience
      BY <1>3, <3>1
    <3>3. QED
      BY <3>1, <3>2 DEF Slots
  <2> DEFINE dec(n) == [n EXCEPT !.expiry = IF @ > 0 THEN @ - 1 ELSE 0]
  <2>2. waiting' = [i \in 1 .. Len(waiting) |-> dec(waiting[i])]
    BY <1>1, <1>3
  <2>3. \A n \in Slots : /\ dec(n) \in Slots /\ dec(n).waiter = n.waiter
                         /\ dec(n).retries = n.retries
                         /\ n.expiry > 0 => dec(n).expiry = n.expiry - 1
    BY <2>1
  <2> HIDE DEF dec
  <2>4. QED
    BY <1>3, <2>2, <2>3
<1>6. owners' = owners
  <2>1. owners' = [i \in DOMAIN waiting |-> waiting'[i].waiter]
    <3>1. owners' = Owners(waiting', stack)
      BY <1>1 DEF owners
    <3>2. Owners(waiting', stack) = [i \in DOMAIN waiting' |-> waiting'[i].waiter]
      BY <1>2, OwnersIdle
    <3>3. QED
      BY <1>5, <3>1, <3>2
  <2>2. owners = [i \in DOMAIN waiting |-> waiting[i].waiter]
    BY <1>2, OwnersIdle DEF owners
  <2>3. QED
    BY <1>5, <2>1, <2>2
<1>7. ASSUME NEW i \in DOMAIN waiting, owners[i] # None
      PROVE  /\ time_w # None /\ time_w' = time_w - 1 /\ time_w' # None
             /\ time_w \in 1 .. Patience /\ time_w <= waiting[i].expiry
             /\ waiting[i].expiry \in 1 .. Patience
             /\ waiting'[i].expiry = waiting[i].expiry - 1
  <2>1. time_w # None /\ time_w <= waiting[i].expiry
    BY <1>4, <1>7 DEF InTime
  <2>2. time_w \in 1 .. Patience
    BY <1>1, <1>3, <2>1
  <2>3. waiting[i].expiry \in 0 .. Patience
    BY <1>3, LeftIs
  <2>4. time_w' = time_w - 1 /\ time_w' # None
    BY <1>1, <1>3, <2>1, <2>2, DnsAssumption
  <2>5. QED
    BY <1>3, <1>5, <2>1, <2>2, <2>3, <2>4
<1>8. ASSUME NEW l \in Lookups PROVE age'[l] \in Nat /\ age'[l] <= age[l] + 1
  <2>1. CASE state[l] # "busy"
    BY <1>1, <1>3, <2>1
  <2>2. CASE state[l] = "busy"
    <3>1. age[l] + 1 \in Nat /\ Tries * Patience + 1 \in Nat
      BY <1>3
    <3>2. /\ Min({age[l] + 1, Tries * Patience + 1}) \in {age[l] + 1, Tries * Patience + 1}
          /\ Min({age[l] + 1, Tries * Patience + 1}) <= age[l] + 1
      BY <3>1, Least
    <3>3. QED
      BY <1>1, <2>2, <3>1, <3>2
  <2>3. QED
    BY <2>1, <2>2
<1>9. age' \in [Lookups -> Nat]
  BY <1>1, <1>8
<1>10. ArrayOK(waiting, owners, free, state, age)'
  <2>1. ArrayOK(waiting, owners, free, state, age)
    BY DEF DnsInv
  <2>2. ASSUME NEW i \in DOMAIN waiting, owners[i] # None
        PROVE  age'[owners[i]] + Left(waiting'[i]) <= Tries * Patience
    <3>1. owners[i] \in Lookups
      BY <1>3, <2>2
    <3>2. age[owners[i]] + Left(waiting[i]) <= Tries * Patience
      BY <2>1, <2>2 DEF ArrayOK
    <3>3. Left(waiting'[i]) = Left(waiting[i]) - 1 /\ Left(waiting[i]) \in Nat
      <4>1. Left(waiting[i]) \in Nat /\ waiting[i].retries \in 0 .. Tries - 1
        BY <1>3, LeftIs
      <4>2. waiting[i].retries * Patience \in Nat
        BY <1>3, <4>1
      <4>3. waiting'[i].expiry = waiting[i].expiry - 1 /\ waiting[i].expiry \in 1 .. Patience
        BY <1>7, <2>2
      <4>4. waiting'[i].retries = waiting[i].retries
        BY <1>5
      <4>5. QED
        BY <4>1, <4>2, <4>3, <4>4 DEF Left
    <3>4. age'[owners[i]] \in Nat /\ age'[owners[i]] <= age[owners[i]] + 1
      BY <1>8, <3>1
    <3>5. age[owners[i]] \in Nat
      BY <1>3, <3>1
    <3>6. QED
      BY <1>3, <3>2, <3>3, <3>4, <3>5
  <2>3. ArrayOK(waiting', owners, free, state, age')
    BY <1>5, <1>9, <2>1, <2>2, ChangeArray
  <2>4. QED
    BY <1>1, <1>6, <2>3
<1>11. StackOK(waiting, owners, stack)'
  BY <1>1, StackEmpty DEF StackOK
<1>12. SockOK(waiting, owners, stack, sock, recv_w)'
  BY <1>1, <1>5, <1>6 DEF DnsInv, SockOK
<1>13. TimerOK(waiting, owners, stack, time_w)'
  <2>1. time_w' \in {None} \union 0 .. Patience
    BY <1>1, <1>3
  <2>2. ASSUME NEW i \in DOMAIN waiting, owners[i] # None
        PROVE  time_w' # None /\ time_w' <= waiting'[i].expiry
    <3>1. /\ time_w' = time_w - 1 /\ time_w' # None /\ time_w \in 1 .. Patience
          /\ time_w <= waiting[i].expiry /\ waiting[i].expiry \in 1 .. Patience
          /\ waiting'[i].expiry = waiting[i].expiry - 1
      BY <1>7, <2>2
    <3> HIDE DEF InTime
    <3>2. ASSUME NEW a \in 1 .. Patience, NEW b \in 1 .. Patience, a <= b
          PROVE  a - 1 <= b - 1
      BY <1>3, <3>2
    <3>3. time_w - 1 <= waiting[i].expiry - 1
      BY <3>1, <3>2
    <3>4. QED
      BY <3>1, <3>3
  <2>3. QED
    BY <1>5, <1>6, <2>1, <2>2 DEF TimerOK, InTime
<1>14. QED
  BY <1>1, <1>10, <1>11, <1>12, <1>13 DEF DnsInv

-----------------------------------------------------------------------------
(* Lookups begin.                                                          *)

\* The array before a lookup, grown if there is no free slot.
LEMMA GrownIs ==
  ASSUME DnsInv, ~Looping(stack),
         NEW p, p = [i \in DOMAIN Grown.slots |-> IF i \in DOMAIN waiting THEN owners[i] ELSE None]
  PROVE  /\ Grown.free # <<>> /\ ArrayOK(Grown.slots, p, Grown.free, state, age)
         /\ p = [i \in DOMAIN Grown.slots |-> Grown.slots[i].waiter]
         /\ \A t, D : InTime(waiting, owners, t, DOMAIN waiting) => InTime(Grown.slots, p, t, D)
         /\ (\E i \in DOMAIN Grown.slots : p[i] # None) =>
              \E i \in DOMAIN waiting : owners[i] # None
<1>1. /\ Grown.free # <<>>
      /\ \A i \in DOMAIN waiting : Grown.slots[i] = waiting[i]
      /\ \A i \in DOMAIN Grown.slots \ DOMAIN waiting : Grown.slots[i].waiter = None
      /\ ArrayOK(Grown.slots, p, Grown.free, state, age)
  <2>1. ArrayOK(waiting, owners, free, state, age)
    BY DEF DnsInv
  <2>2. QED
    BY <2>1, GrowArray
<1>2. \A i \in DOMAIN waiting : owners[i] = waiting[i].waiter
  BY OwnersIs
<1>3. ASSUME NEW i \in DOMAIN Grown.slots
      PROVE  /\ p[i] = Grown.slots[i].waiter
             /\ p[i] # None => /\ i \in DOMAIN waiting /\ owners[i] # None
                               /\ Grown.slots[i] = waiting[i]
  BY <1>1, <1>2
<1>4. p = [i \in DOMAIN Grown.slots |-> Grown.slots[i].waiter]
  BY <1>3
<1>5. ASSUME NEW t, NEW D, InTime(waiting, owners, t, DOMAIN waiting)
      PROVE  InTime(Grown.slots, p, t, D)
  BY <1>3, <1>5 DEF InTime
<1>6. QED
  BY <1>1, <1>3, <1>4, <1>5

LEMMA LookupSyncStep ==
  ASSUME NEW l \in Lookups, ~AgainInTimeout PROVE DnsInv /\ LookupSync(l) => DnsInv'
<1> SUFFICES ASSUME DnsInv, LookupSync(l) PROVE DnsInv'
  OBVIOUS
<1> DEFINE p == [i \in DOMAIN Grown.slots |-> IF i \in DOMAIN waiting THEN owners[i] ELSE None]
<1>1. PICK a \in Answers : state' = [state EXCEPT ![l] = a]
  BY DEF LookupSync
<1>2. /\ state[l] # "busy" /\ waiting' = Grown.slots /\ free' = Grown.free
      /\ UNCHANGED <<sock, recv_w, time_w, stack, age, fault>>
  BY DEF LookupSync, waits
<1>3. ~Looping(stack)
  BY MayLookUpIs DEF LookupSync
<1>4. /\ ArrayOK(waiting', p, free', state, age)
      /\ p = [i \in DOMAIN waiting' |-> waiting'[i].waiter]
      /\ \A t, D : InTime(waiting, owners, t, DOMAIN waiting) => InTime(waiting', p, t, D)
      /\ (\E i \in DOMAIN waiting' : p[i] # None) => \E i \in DOMAIN waiting : owners[i] # None
  BY <1>2, <1>3, GrownIs
<1> HIDE DEF p
<1>5. owners' = p
  BY <1>2, <1>3, <1>4, OwnersIdle DEF owners
<1>6. ArrayOK(waiting', p, free', state', age')
  <2>1. state \in [Lookups -> {"idle", "busy"} \union Answers]
    BY DataIs
  <2>2. /\ state' \in [Lookups -> {"idle", "busy"} \union Answers]
        /\ \A k \in Lookups : state'[k] = "busy" <=> state[k] = "busy"
    BY <1>1, <1>2, <2>1 DEF Answers
  <2>3. QED
    BY <1>2, <1>4, <2>2 DEF ArrayOK
<1>7. StackOK(waiting, owners, stack)'
  BY <1>2, <1>3 DEF DnsInv, StackOK
<1>8. SockOK(waiting, owners, stack, sock, recv_w)'
  BY <1>2, <1>4, <1>5 DEF DnsInv, SockOK
<1>9. TimerOK(waiting, owners, stack, time_w)'
  BY <1>2, <1>3, <1>4, <1>5 DEF DnsInv, TimerOK
<1>10. QED
  BY <1>2, <1>5, <1>6, <1>7, <1>8, <1>9 DEF DnsInv

LEMMA LookupStep ==
  ASSUME NEW l \in Lookups, ~AgainInTimeout PROVE DnsInv /\ Lookup(l) => DnsInv'
<1> SUFFICES ASSUME DnsInv, Lookup(l) PROVE DnsInv'
  OBVIOUS
<1> DEFINE p == [j \in DOMAIN Grown.slots |-> IF j \in DOMAIN waiting THEN owners[j] ELSE None]
           i == Grown.free[1]
           c == TimeoutCall(i, l, Len(waiting'))
           N(trid) == [waiter |-> None, name |-> l, trid |-> trid, expiry |-> Patience,
                       retries |-> Tries - 1]
<1>1. PICK trid \in FreeTrids :
        /\ waiting' = [Grown.slots EXCEPT ![i] = N(trid)]
        /\ free' = Tail(Grown.free)
        /\ stack' = <<c>> \o stack
  BY DEF Lookup
<1> DEFINE n == N(trid)
<1>2. /\ state[l] # "busy" /\ state' = [state EXCEPT ![l] = "busy"]
      /\ age' = [age EXCEPT ![l] = 0] /\ sock' = TRUE /\ recv_w' = (recv_w \/ ~sock)
      /\ UNCHANGED <<time_w, fault>>
  BY DEF Lookup
<1>3. ~Looping(stack) /\ \A d \in Calls : d.call = "timeout" => MayCall(d, stack)
  BY MayLookUpIs DEF Lookup
<1>4. /\ Grown.free # <<>> /\ ArrayOK(Grown.slots, p, Grown.free, state, age)
      /\ p = [j \in DOMAIN Grown.slots |-> Grown.slots[j].waiter]
      /\ \A t, D : InTime(waiting, owners, t, DOMAIN waiting) => InTime(Grown.slots, p, t, D)
  BY <1>3, GrownIs
<1>5. n \in Slots /\ n.waiter = None /\ n.expiry = Patience /\ Left(n) <= Tries * Patience
  <2>1. Tries \in Nat /\ Patience \in Nat /\ Tries > 0 /\ trid \in Trids /\ l \in Lookups
    BY DnsAssumption DEF FreeTrids
  <2>2. n \in Slots /\ n.waiter = None /\ n.expiry = Patience /\ n.retries = Tries - 1
    BY <2>1 DEF Slots
  <2> HIDE DEF n
  <2>3. (Tries - 1) * Patience + Patience <= Tries * Patience
    BY <2>1
  <2>4. QED
    BY <2>2, <2>3 DEF Left
<1> HIDE DEF p, n, N
<1>6. waiting' = [Grown.slots EXCEPT ![i] = n]
  BY <1>1 DEF n
<1>7. /\ i \in DOMAIN Grown.slots /\ p[i] = None
      /\ ArrayOK(waiting', [p EXCEPT ![i] = l], free', state', age')
  <2> DEFINE w == Grown.slots
             f == Grown.free
             u == [w EXCEPT ![i] = n]
             q == [p EXCEPT ![i] = l]
             tt == [state EXCEPT ![l] = "busy"]
             bg == [age EXCEPT ![l] = 0]
  <2>1. i = f[1]
    OBVIOUS
  <2>2. f # <<>> /\ ArrayOK(w, p, f, state, age) /\ state[l] # "busy"
    BY <1>2, <1>4
  <2>3. u = [w EXCEPT ![i] = n] /\ q = [p EXCEPT ![i] = l]
        /\ tt = [state EXCEPT ![l] = "busy"] /\ bg = [age EXCEPT ![l] = 0]
    OBVIOUS
  <2>4. waiting' = u /\ free' = Tail(f) /\ state' = tt /\ age' = bg
    BY <1>1, <1>2, <1>6
  <2> HIDE DEF w, f, i, u, q, tt, bg
  <2>5. /\ i \in DOMAIN w /\ p[i] = None
        /\ ArrayOK(u, q, Tail(f), tt, bg)
    BY <1>5, <2>1, <2>2, <2>3, PutArray
  <2>6. ArrayOK(waiting', q, free', state', age')
    BY <2>4, <2>5
  <2>7. QED
    BY <2>3, <2>5, <2>6 DEF w
<1> HIDE DEF i
<1>8. /\ Grown.slots \in Seq(Slots) /\ DOMAIN Grown.slots = 1 .. Len(Grown.slots)
      /\ Len(Grown.slots) \in Nat
      /\ p \in [DOMAIN Grown.slots -> Lookups \union {None}]
  BY <1>4, ArrayIs
<1>9. /\ Len(waiting') = Len(Grown.slots) /\ DOMAIN waiting' = DOMAIN Grown.slots
      /\ waiting'[i] = n /\ \A j \in DOMAIN Grown.slots \ {i} : waiting'[j] = Grown.slots[j]
  BY <1>5, <1>6, <1>7, <1>8
<1>10. i \in Nat /\ i # None
  BY <1>7, <1>8, DnsAssumption
<1>11. /\ c \in Calls /\ c.call = "timeout" /\ c.special = i /\ c.lookup = l
       /\ c.size = Len(waiting') /\ c.next = None /\ c.at = 1
  BY <1>8, <1>9, <1>10 DEF TimeoutCall, Calls, TimeoutCalls
<1> HIDE DEF c
<1>12. /\ stack' \in Seq(Calls) /\ Nested(stack') /\ (Reading(stack') <=> Reading(stack))
       /\ Looping(stack') /\ Loop(stack') = c
  <2>1. MayCall(c, stack) /\ stack' = Called(c, stack)
    BY <1>1, <1>3, <1>11 DEF Called
  <2>2. QED
    BY <1>11, <2>1, DataIs, Push
<1>13. owners' = [p EXCEPT ![i] = l]
  <2>1. owners' = [j \in DOMAIN waiting' |->
                    IF c.special = j THEN c.lookup ELSE waiting'[j].waiter]
    BY <1>12, OwnersLoop DEF owners
  <2>2. \A j \in DOMAIN Grown.slots \ {i} : waiting'[j].waiter = p[j]
    BY <1>4, <1>9
  <2>3. QED
    BY <1>8, <1>9, <1>11, <2>1, <2>2
<1>14. ASSUME InTime(waiting, owners, time_w, DOMAIN waiting), time_w # None
       PROVE  InTime(waiting', owners', time_w, DOMAIN waiting')
  <2>1. InTime(Grown.slots, p, time_w, DOMAIN Grown.slots)
    BY <1>4, <1>14
  <2>2. time_w \in 0 .. Patience /\ Patience \in Nat
    BY <1>14, DataIs, DnsAssumption
  <2>3. SUFFICES ASSUME NEW j \in DOMAIN Grown.slots, owners'[j] # None
                 PROVE  time_w <= waiting'[j].expiry
    BY <1>9, <1>14 DEF InTime
  <2>4. CASE j = i
    BY <1>5, <1>9, <2>2, <2>4
  <2>5. CASE j # i
    BY <1>8, <1>9, <1>13, <2>1, <2>3, <2>5 DEF InTime
  <2>6. QED
    BY <2>4, <2>5
<1>15. StackOK(waiting, owners, stack)'
  <2>1. InTime(waiting', owners', None, 1 .. 1 - 1)
    BY DEF InTime
  <2>2. SpecialOK(waiting', c)
    BY <1>5, <1>7, <1>9, <1>11 DEF SpecialOK
  <2>3. QED
    BY <1>10, <1>11, <1>12, <2>1, <2>2 DEF StackOK
<1>16. SockOK(waiting, owners, stack, sock, recv_w)'
  BY <1>2, <1>12 DEF DnsInv, SockOK
<1>17. TimerOK(waiting, owners, stack, time_w)'
  <2>1. /\ time_w \in {None} \union 0 .. Patience
        /\ InTime(waiting, owners, time_w, DOMAIN waiting)
    BY <1>3 DEF DnsInv, TimerOK
  <2>2. QED
    BY <1>2, <1>12, <1>14, <2>1 DEF TimerOK
<1>18. fault' = None
  BY <1>2 DEF DnsInv
<1>19. QED
  BY <1>7, <1>13, <1>15, <1>16, <1>17, <1>18 DEF DnsInv

-----------------------------------------------------------------------------
(* The theorems.                                                           *)

LEMMA DnsInit == Init => DnsInv
<1> SUFFICES ASSUME Init PROVE DnsInv
  OBVIOUS
<1>1. /\ waiting = <<>> /\ free = <<>> /\ sock = FALSE /\ recv_w = FALSE /\ time_w = None
      /\ stack = <<>> /\ fault = None
      /\ state = [l \in Lookups |-> "idle"] /\ age = [l \in Lookups |-> 0]
  BY DEF Init
<1>2. ~Looping(stack) /\ ~Reading(stack) /\ stack \in Seq(Calls) /\ Nested(stack)
  BY <1>1, StackEmpty
<1>3. DOMAIN waiting = {} /\ Len(waiting) = 0 /\ waiting \in Seq(Slots)
  BY <1>1
<1>4. owners = [i \in {} |-> waiting[i].waiter]
  BY <1>2, <1>3, OwnersIdle DEF owners
<1>5. ArrayOK(waiting, owners, free, state, age)
  <2>1. FreeIs(0, {}, <<>>)
    BY DEF FreeIs
  <2>2. {i \in DOMAIN waiting : owners[i] = None} = {}
    BY <1>3
  <2>3. owners \in [DOMAIN waiting -> Lookups \union {None}]
    BY <1>3, <1>4
  <2>4. QED
    BY <1>1, <1>3, <2>1, <2>2, <2>3 DEF ArrayOK
<1>6. StackOK(waiting, owners, stack)
  BY <1>2 DEF StackOK
<1>7. SockOK(waiting, owners, stack, sock, recv_w)
  BY <1>1, <1>2, <1>3 DEF SockOK
<1>8. TimerOK(waiting, owners, stack, time_w)
  BY <1>1, <1>3 DEF TimerOK, InTime
<1>9. QED
  BY <1>1, <1>5, <1>6, <1>7, <1>8 DEF DnsInv

LEMMA DnsNext == ~AgainInTimeout /\ DnsInv /\ [Next]_vars => DnsInv'
<1> SUFFICES ASSUME ~AgainInTimeout, DnsInv, [Next]_vars PROVE DnsInv'
  OBVIOUS
<1>1. ASSUME NEW l \in Lookups, LookupSync(l) \/ Lookup(l) \/ Cancel(l) PROVE DnsInv'
  BY <1>1, LookupSyncStep, LookupStep, CancelStep
<1>2. CASE TimeoutLater \/ TimeoutRetry \/ TimeoutFail \/ TimeoutReturn
  BY <1>2, LaterStep, RetryStep, FailStep, ReturnStep
<1>3. CASE TimerFires \/ Recv \/ RecvReturn \/ CallerReturn \/ Tick
  BY <1>3, FiresStep, RecvStep, RecvReturnStep, CallerReturnStep, TickStep
<1>4. CASE UNCHANGED vars
  BY <1>4 DEF vars, DnsInv, owners
<1>5. QED
  BY <1>1, <1>2, <1>3, <1>4 DEF Next

LEMMA DnsSound == DnsInv => SlotsAreSound
<1> SUFFICES ASSUME DnsInv PROVE SlotsAreSound
  OBVIOUS
<1>1. /\ waiting \in Seq(Slots) /\ Len(waiting) \in Nat /\ DOMAIN waiting = 1 .. Len(waiting)
      /\ state \in [Lookups -> {"idle", "busy"} \union Answers]
      /\ sock \in BOOLEAN /\ recv_w \in BOOLEAN /\ time_w \in {None} \union 0 .. Patience
      /\ fault = None
  BY DataIs
<1>2. FreeIs(Len(waiting), {i \in DOMAIN waiting : owners[i] = None}, free)
  BY DEF DnsInv, ArrayOK
<1>3. /\ free \in Seq(1 .. Len(waiting)) /\ DOMAIN free = 1 .. Len(free)
      /\ \A i, j \in 1 .. Len(free) : free[i] = free[j] => i = j
  BY <1>2 DEF FreeIs
<1>4. TypeOK
  <2>1. \A i \in DOMAIN free : free[i] \in DOMAIN waiting
    BY <1>1, <1>3
  <2>2. IsInjective(free)
    BY <1>3 DEF IsInjective
  <2>3. QED
    BY <1>1, <2>1, <2>2 DEF TypeOK
<1>5. ASSUME InRunloop
      PROVE  ~Looping(stack) /\ ~Reading(stack)
             /\ \A i \in DOMAIN waiting : owners[i] = waiting[i].waiter
  BY <1>5, StackEmpty, OwnersIs DEF InRunloop
<1>6. WaitingIsWatched
  <2> SUFFICES ASSUME InRunloop, NEW i \in DOMAIN waiting, waiting[i].waiter # None
               PROVE  sock /\ recv_w /\ time_w # None /\ time_w <= waiting[i].expiry
    BY DEF WaitingIsWatched
  <2>1. owners[i] # None
    BY <1>5
  <2>2. sock /\ recv_w
    BY <1>5, <2>1 DEF DnsInv, SockOK
  <2>3. InTime(waiting, owners, time_w, DOMAIN waiting)
    BY <1>5 DEF DnsInv, TimerOK
  <2>4. QED
    BY <2>1, <2>2, <2>3 DEF InTime
<1>7. NoSlotLost
  <2> SUFFICES ASSUME InRunloop, NEW i \in DOMAIN waiting
               PROVE  waiting[i].waiter = None <=> \E k \in DOMAIN free : free[k] = i
    BY DEF NoSlotLost
  <2>1. owners[i] = waiting[i].waiter
    BY <1>5
  <2>2. owners[i] = None <=> \E k \in 1 .. Len(free) : free[k] = i
    BY <1>1, <1>2 DEF FreeIs
  <2>3. QED
    BY <1>3, <2>1, <2>2
<1>8. QED
  BY <1>1, <1>4, <1>6, <1>7 DEF SlotsAreSound, NoFault

LEMMA DnsInTime == DnsInv => EndsInTime
<1> SUFFICES ASSUME DnsInv, InRunloop, NEW l \in Lookups, state[l] = "busy"
             PROVE  /\ age[l] <= Tries * Patience
                    /\ \E i \in DOMAIN waiting : waiting[i].waiter = l
  BY DEF EndsInTime
<1>1. ArrayOK(waiting, owners, free, state, age)
  BY DEF DnsInv
<1>2. PICK i \in DOMAIN waiting : owners[i] = l
  BY <1>1 DEF ArrayOK
<1>3. owners[i] = waiting[i].waiter
  BY StackEmpty, OwnersIs DEF InRunloop
<1>4. age[l] + Left(waiting[i]) <= Tries * Patience /\ age[l] \in Nat
  BY <1>1, <1>2, DnsAssumption DEF ArrayOK
<1>5. Left(waiting[i]) \in Nat /\ Tries * Patience \in Nat
  BY DataIs, LeftIs, DnsAssumption
<1>6. QED
  BY <1>2, <1>3, <1>4, <1>5

\* For any lookups, ids, tries and sizes of the array, and whatever the callers start and
\* cancel while a lookup completes: the freelist names exactly the slots that nobody waits
\* for, a lookup that waits has the socket and the timer watched for it, and no socket that
\* was closed and no slot that moved is used, provided no caller that timeout() fails looks
\* up at once (dns.cpp:292-345).
THEOREM SlotsStaySound == ~AgainInTimeout /\ Spec => []SlotsAreSound
<1>1. ASSUME ~AgainInTimeout PROVE DnsInv /\ [Next]_vars => DnsInv'
  BY <1>1, DnsNext
<1>2. ASSUME ~AgainInTimeout PROVE Spec => []DnsInv
  <2>1. DnsInv /\ [Next]_vars => DnsInv'
    BY <1>1, <1>2
  <2>2. QED
    BY <2>1, DnsInit, PTL DEF Spec
<1>3. ASSUME ~AgainInTimeout PROVE Spec => []SlotsAreSound
  <2>1. Spec => []DnsInv
    BY <1>2, <1>3
  <2>2. QED
    BY <2>1, DnsSound, PTL
<1>4. QED
  BY <1>3

\* Under the same proviso a lookup ends within `tries' times the 2000 ms of one query, and
\* until then a slot waits for it, so that no caller waits for ever (dns.cpp:243-244, 310-345).
THEOREM LookupsEndInTime == ~AgainInTimeout /\ Spec => []EndsInTime
<1>1. ASSUME ~AgainInTimeout PROVE DnsInv /\ [Next]_vars => DnsInv'
  BY <1>1, DnsNext
<1>2. ASSUME ~AgainInTimeout PROVE Spec => []DnsInv
  <2>1. DnsInv /\ [Next]_vars => DnsInv'
    BY <1>1, <1>2
  <2>2. QED
    BY <2>1, DnsInit, PTL DEF Spec
<1>3. ASSUME ~AgainInTimeout PROVE Spec => []EndsInTime
  <2>1. Spec => []DnsInv
    BY <1>2, <1>3
  <2>2. QED
    BY <2>1, DnsInTime, PTL
<1>4. QED
  BY <1>3

=============================================================================
