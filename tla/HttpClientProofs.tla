-------------------------- MODULE HttpClientProofs --------------------------
(***************************************************************************)
(* Proofs about http_t::request, for any set of requests, methods and      *)
(* origins, any number of connections, whatever is closed on the way, and  *)
(* whatever is cancelled but a request that unlock() has scheduled and the *)
(* run loop has not resumed; at last that it implements HttpService:       *)
(* requests are answered in the order of the calls, each once, but that a  *)
(* call made inside a failed send may overtake the sender, and until       *)
(* something is cancelled nobody gets the response to another request.     *)
(***************************************************************************)
EXTENDS HttpClient, ListLemmas

-----------------------------------------------------------------------------
(* The mutexes: where a request is says which of the two it holds or waits *)
(* for, one caller runs at a time, and no mutex is held twice.             *)

\* A pair as a function.
LEMMA Pair ==
  ASSUME NEW a, NEW b
  PROVE  /\ <<a, b>>[1] = a /\ <<a, b>>[2] = b
         /\ \A S : a \in S /\ b \in S => <<a, b>> \in [{1, 2} -> S]
         /\ \A f : DOMAIN f = {1, 2} /\ f = [i \in {1, 2} |-> f[i]] /\ f[1] = a /\ f[2] = b => f = <<a, b>>
<1>1. {1, 2} = 1 .. 2
  OBVIOUS
<1>2. <<a, b>>[1] = a /\ <<a, b>>[2] = b
  OBVIOUS
<1>3. ASSUME NEW S, a \in S, b \in S
      PROVE  <<a, b>> \in [{1, 2} -> S]
  BY <1>1, <1>3
<1>4. ASSUME NEW f, DOMAIN f = {1, 2}, f = [i \in {1, 2} |-> f[i]], f[1] = a, f[2] = b
      PROVE  f = <<a, b>>
  <2>1. <<a, b>> = [i \in {1, 2} |-> <<a, b>>[i]]
    BY <1>1
  <2>2. \A i \in {1, 2} : f[i] = <<a, b>>[i]
    BY <1>4
  <2>3. [i \in {1, 2} |-> f[i]] = [i \in {1, 2} |-> <<a, b>>[i]]
    BY <2>2
  <2>4. QED
    BY <1>4, <2>1, <2>3
<1>5. QED
  BY <1>2, <1>3, <1>4

-----------------------------------------------------------------------------
(* The mutexes, as a function of the values they are made of.              *)

MutexValue == MutexOver(Reqs)

WaitLabels == {"wait1", "wait2", "wait2x"}

\* A request at label x waits for mutex m.
Waits(x, m) == IF m = 1 THEN x = "wait1" ELSE x \in {"wait2", "wait2x"}

Free(m, h) == \A r \in Reqs : m \notin h[r]

MutexTypes(p, h, mu, s) ==
  /\ p \in [Reqs -> Labels]
  /\ h \in [Reqs -> SUBSET {1, 2}]
  /\ mu \in [{1, 2} -> MutexValue]
  /\ s \in Seq(Reqs)

\* The list of a mutex holds requests that wait for it, each once.
WaitersWait(p, mu) ==
  \A m \in {1, 2} :
    /\ Distinct(mu[m].waiters)
    /\ \A i \in 1 .. Len(mu[m].waiters) : Waits(p[mu[m].waiters[i]], m)

\* r was handed mutex m, which is locked for it alone.
HandedTo(r, m, p, h, mu) ==
  /\ Waits(p[r], m)
  /\ mu[m].locked
  /\ Len(mu[m].waiters) > 0 /\ mu[m].waiters[1] = r
  /\ Free(m, h)

ScheduledOnce(p, h, mu, s) ==
  /\ Distinct(s)
  /\ \A i \in 1 .. Len(s) : \E m \in {1, 2} : HandedTo(s[i], m, p, h, mu)

HeldIsLocked(h, mu) == \A m \in {1, 2} : ~Free(m, h) => mu[m].locked

\* Nobody is left to wait for a mutex that nobody will unlock.
LockHasKeeper(p, h, mu, s) ==
  \A m \in {1, 2} : mu[m].locked =>
    ~Free(m, h) \/ \E i \in 1 .. Len(s) : Waits(p[s[i]], m)

OneHolder(h) == \A r, q \in Reqs : h[r] \cap h[q] # {} => r = q

MutexesOK(p, h, mu, s) ==
  /\ MutexTypes(p, h, mu, s)
  /\ WaitersWait(p, mu)
  /\ ScheduledOnce(p, h, mu, s)
  /\ HeldIsLocked(h, mu)
  /\ LockHasKeeper(p, h, mu, s)
  /\ OneHolder(h)

LEMMA WaitersAre ==
  ASSUME NEW mu \in [{1, 2} -> MutexValue], NEW m \in {1, 2}
  PROVE  /\ mu[m] \in MutexValue /\ mu[m].waiters \in Seq(Reqs) /\ mu[m].locked \in BOOLEAN
         /\ Len(mu[m].waiters) \in Nat
         /\ \A i \in 1 .. Len(mu[m].waiters) : mu[m].waiters[i] \in Reqs
<1>1. mu[m].waiters \in Seq(Reqs) /\ mu[m].locked \in BOOLEAN
  BY DEF MutexValue, MutexOver
<1>2. QED
  BY <1>1

LEMMA WaitsOnce ==
  ASSUME NEW x, NEW m \in {1, 2}, NEW n \in {1, 2}, Waits(x, m)
  PROVE  x \in WaitLabels /\ (Waits(x, n) => m = n)
BY DEF Waits, WaitLabels

\* A step of a request that neither waited nor waits.
LEMMA MoveOK ==
  ASSUME NEW p, NEW h, NEW mu, NEW s, MutexesOK(p, h, mu, s),
         NEW r \in Reqs, p[r] \notin WaitLabels, NEW x \in Labels \ WaitLabels
  PROVE  MutexesOK([p EXCEPT ![r] = x], h, mu, s)
<1> DEFINE p2 == [p EXCEPT ![r] = x]
<1>1. MutexTypes(p, h, mu, s) /\ MutexTypes(p2, h, mu, s)
  BY DEF MutexesOK, MutexTypes
<1>2. \A q \in Reqs : \A m \in {1, 2} : Waits(p2[q], m) <=> Waits(p[q], m)
  BY <1>1 DEF MutexTypes, Waits, WaitLabels
<1> HIDE DEF p2
<1>3. \A m \in {1, 2} : \A i \in 1 .. Len(mu[m].waiters) : mu[m].waiters[i] \in Reqs
  BY <1>1, WaitersAre DEF MutexTypes
<1>4. \A i \in 1 .. Len(s) : s[i] \in Reqs
  BY <1>1 DEF MutexTypes
<1>5. WaitersWait(p2, mu)
  BY <1>2, <1>3 DEF MutexesOK, WaitersWait
<1>6. ScheduledOnce(p2, h, mu, s)
  BY <1>2, <1>4 DEF MutexesOK, ScheduledOnce, HandedTo
<1>7. LockHasKeeper(p2, h, mu, s)
  BY <1>2, <1>4 DEF MutexesOK, LockHasKeeper
<1>8. QED
  BY <1>1, <1>5, <1>6, <1>7 DEF MutexesOK, p2

\* unlock() by r, which holds m.
LEMMA UnlockOK ==
  ASSUME NEW p, NEW h, NEW mu, NEW s, MutexesOK(p, h, mu, s),
         NEW r \in Reqs, NEW m \in {1, 2}, m \in h[r]
  PROVE  MutexesOK(p, [h EXCEPT ![r] = @ \ {m}], [mu EXCEPT ![m] = Unlock(@)],
                   s \o Woken(mu[m]))
<1> DEFINE h2 == [h EXCEPT ![r] = @ \ {m}]
           mu2 == [mu EXCEPT ![m] = Unlock(@)]
           w == mu[m].waiters
           s2 == s \o Woken(mu[m])
<1>1. MutexTypes(p, h, mu, s)
  BY DEF MutexesOK
<1>2. /\ w \in Seq(Reqs) /\ mu[m] \in MutexOver(Reqs) /\ Woken(mu[m]) \in Seq(Reqs)
      /\ Unlock(mu[m]) \in MutexOver(Reqs) /\ s \in Seq(Reqs)
  BY <1>1, OpsType, WaitersAre DEF MutexTypes, MutexValue
<1>3. MutexTypes(p, h2, mu2, s2)
  BY <1>1, <1>2 DEF MutexTypes, MutexValue
<1>4. /\ \A n \in {1, 2} : mu2[n].waiters = mu[n].waiters
      /\ \A n \in {1, 2} \ {m} : mu2[n] = mu[n]
      /\ mu2[m].locked <=> w # <<>>
  BY <1>1 DEF Unlock, MutexTypes, MutexValue, MutexOver
<1>5. /\ \A n \in {1, 2} \ {m} : Free(n, h2) <=> Free(n, h)
      /\ Free(m, h2) /\ ~Free(m, h)
  BY <1>1 DEF Free, MutexesOK, OneHolder, MutexTypes
<1>6. OneHolder(h2)
  BY <1>1 DEF MutexesOK, OneHolder, MutexTypes
<1>7. /\ \A i \in 1 .. Len(s) : s2[i] = s[i]
      /\ w = <<>> => Len(s2) = Len(s)
      /\ w # <<>> => /\ Len(s2) = Len(s) + 1 /\ s2[Len(s) + 1] = w[1] /\ Len(w) > 0
  BY <1>2, WokenAt
<1>8. Len(s) \in Nat /\ Len(w) \in Nat
  BY <1>2
<1> HIDE DEF h2, mu2, s2
<1>9. WaitersWait(p, mu2)
  BY <1>4 DEF MutexesOK, WaitersWait
<1>10. HeldIsLocked(h2, mu2)
  BY <1>4, <1>5 DEF MutexesOK, HeldIsLocked
<1>11. \A i \in 1 .. Len(s) : \E n \in {1, 2} \ {m} : HandedTo(s[i], n, p, h, mu)
  BY <1>5 DEF MutexesOK, ScheduledOnce, HandedTo
<1>12. \A i \in 1 .. Len(s) : \E n \in {1, 2} \ {m} : HandedTo(s[i], n, p, h2, mu2)
  BY <1>4, <1>5, <1>11 DEF HandedTo
<1>13. w # <<>> => HandedTo(w[1], m, p, h2, mu2)
  <2>1. ASSUME w # <<>> PROVE 1 \in 1 .. Len(w) /\ mu2[m].locked /\ mu2[m].waiters = w
    BY <1>4, <1>7, <1>8, <2>1
  <2>2. ASSUME w # <<>> PROVE Waits(p[w[1]], m)
    BY <2>1, <2>2 DEF MutexesOK, WaitersWait
  <2>3. QED
    BY <1>5, <1>7, <2>1, <2>2 DEF HandedTo
<1>14. w # <<>> => \A i \in 1 .. Len(s) : s[i] # w[1]
  BY <1>11, <1>13, WaitsOnce DEF HandedTo
<1>15. \A i \in 1 .. Len(s2) :
         \/ i \in 1 .. Len(s) /\ s2[i] = s[i]
         \/ w # <<>> /\ i = Len(s) + 1 /\ s2[i] = w[1]
  BY <1>7, <1>8
<1>16. ScheduledOnce(p, h2, mu2, s2)
  <2>1. Distinct(s2)
    BY <1>14, <1>15 DEF Distinct, MutexesOK, ScheduledOnce
  <2>2. \A i \in 1 .. Len(s2) : \E n \in {1, 2} : HandedTo(s2[i], n, p, h2, mu2)
    BY <1>12, <1>13, <1>15
  <2>3. QED
    BY <2>1, <2>2 DEF ScheduledOnce
<1>17. LockHasKeeper(p, h2, mu2, s2)
  <2>1. ASSUME NEW n \in {1, 2}, mu2[n].locked, Free(n, h2)
        PROVE  \E i \in 1 .. Len(s2) : Waits(p[s2[i]], n)
    <3>1. CASE n = m
      <4>1. w # <<>>
        BY <1>4, <2>1, <3>1
      <4>2. Len(s) + 1 \in 1 .. Len(s2)
        BY <1>7, <1>8, <4>1
      <4>3. QED
        BY <1>7, <1>13, <3>1, <4>1, <4>2 DEF HandedTo
    <3>2. CASE n # m
      <4>1. mu[n].locked /\ Free(n, h)
        BY <1>4, <1>5, <2>1, <3>2
      <4>2. PICK i \in 1 .. Len(s) : Waits(p[s[i]], n)
        BY <4>1 DEF MutexesOK, LockHasKeeper
      <4>3. i \in 1 .. Len(s2) /\ s2[i] = s[i]
        BY <1>7, <1>8
      <4>4. QED
        BY <4>2, <4>3
    <3>3. QED
      BY <3>1, <3>2
  <2>2. QED
    BY <2>1 DEF LockHasKeeper
<1>18. QED
  BY <1>3, <1>6, <1>9, <1>10, <1>16, <1>17 DEF MutexesOK, h2, mu2, s2

\* r takes mutex m: because it is free, or because r was resumed with it.
LEMMA TakeOK ==
  ASSUME NEW p, NEW h, NEW mu, NEW s, MutexesOK(p, h, mu, s),
         NEW r \in Reqs, NEW m \in {1, 2}, NEW x \in Labels \ WaitLabels, NEW s2,
         \/ ~mu[m].locked /\ p[r] \notin WaitLabels /\ s2 = s
         \/ s # <<>> /\ Head(s) = r /\ Waits(p[r], m) /\ s2 = Tail(s)
  PROVE  MutexesOK([p EXCEPT ![r] = x], [h EXCEPT ![r] = @ \cup {m}],
                   [mu EXCEPT ![m] = Take(@, r)], s2)
<1> DEFINE p2 == [p EXCEPT ![r] = x]
           h2 == [h EXCEPT ![r] = @ \cup {m}]
           mu2 == [mu EXCEPT ![m] = Take(@, r)]
           w == mu[m].waiters
<1>1. MutexTypes(p, h, mu, s)
  BY DEF MutexesOK
<1>2. /\ w \in Seq(Reqs) /\ mu[m] \in MutexOver(Reqs) /\ Len(w) \in Nat
      /\ Take(mu[m], r) \in MutexOver(Reqs) /\ s \in Seq(Reqs) /\ Len(s) \in Nat
  <2>1. /\ w \in Seq(Reqs) /\ mu[m] \in MutexOver(Reqs) /\ Len(w) \in Nat
        /\ s \in Seq(Reqs) /\ Len(s) \in Nat
    BY <1>1, WaitersAre DEF MutexTypes, MutexValue
  <2>2. Take(mu[m], r) \in MutexOver(Reqs)
    BY <2>1, OpsType
  <2>3. QED
    BY <2>1, <2>2
<1>3. /\ s2 \in Seq(Reqs)
      /\ \A i \in 1 .. Len(s2) :
           /\ s2[i] \in Reqs
           /\ s2[i] # r
           /\ \E j \in 1 .. Len(s) : s2[i] = s[j] /\ (s2 = s => j = i) /\ (s2 # s => j = i + 1)
      /\ \A j \in 1 .. Len(s) : s[j] # r => \E i \in 1 .. Len(s2) : s2[i] = s[j]
  <2>1. CASE ~mu[m].locked /\ p[r] \notin WaitLabels /\ s2 = s
    <3>1. \A i \in 1 .. Len(s) : s[i] \in Reqs /\ s[i] # r
      BY <1>2, <2>1, WaitsOnce DEF MutexesOK, ScheduledOnce, HandedTo
    <3>2. QED
      BY <1>2, <2>1, <3>1
  <2>2. CASE s # <<>> /\ Head(s) = r /\ Waits(p[r], m) /\ s2 = Tail(s)
    <3>0. /\ s[1] = r /\ Tail(s) \in Seq(Reqs) /\ Len(Tail(s)) = Len(s) - 1
          /\ \A i \in 1 .. Len(s) - 1 : Tail(s)[i] = s[i + 1]
          /\ 1 \in 1 .. Len(s)
      BY <1>2, <2>2
    <3>1. /\ s[1] = r /\ s2 \in Seq(Reqs) /\ Len(s2) = Len(s) - 1
          /\ \A i \in 1 .. Len(s) - 1 : s2[i] = s[i + 1]
          /\ 1 \in 1 .. Len(s)
      BY <2>2, <3>0
    <3>2. s2 # s
      BY <1>2, <3>1
    <3>3. \A i \in 1 .. Len(s2) : i + 1 \in 1 .. Len(s) /\ s2[i] = s[i + 1]
      BY <1>2, <3>1
    <3>4. \A i \in 1 .. Len(s2) : s[i + 1] \in Reqs /\ s[i + 1] # r
      BY <1>2, <3>1, <3>3 DEF MutexesOK, ScheduledOnce, Distinct
    <3>5. ASSUME NEW j \in 1 .. Len(s), s[j] # r
          PROVE  \E i \in 1 .. Len(s2) : s2[i] = s[j]
      <4>0. j # 1
        BY <3>1, <3>5
      <4>1. j - 1 \in 1 .. Len(s2) /\ j - 1 + 1 = j
        BY <1>2, <3>1, <4>0
      <4>2. QED
        BY <3>3, <4>1
    <3>6. QED
      BY <2>2, <3>1, <3>2, <3>3, <3>4, <3>5
  <2>3. QED
    BY <2>1, <2>2
<1>4. MutexTypes(p2, h2, mu2, s2)
  BY <1>1, <1>2, <1>3 DEF MutexTypes, MutexValue
<1>5. Free(m, h)
  <2>1. CASE ~mu[m].locked
    BY <2>1 DEF MutexesOK, HeldIsLocked
  <2>2. CASE s # <<>> /\ Head(s) = r /\ Waits(p[r], m)
    <3>1. 1 \in 1 .. Len(s) /\ s[1] = r
      BY <1>2, <2>2
    <3>2. PICK n \in {1, 2} : HandedTo(r, n, p, h, mu)
      BY <3>1 DEF MutexesOK, ScheduledOnce
    <3>3. n = m
      BY <2>2, <3>2, WaitsOnce DEF HandedTo
    <3>4. QED
      BY <3>2, <3>3 DEF HandedTo
  <2>3. QED
    BY <2>1, <2>2
<1>6. /\ mu2[m].locked /\ mu2[m].waiters = Unlink(w, r)
      /\ \A n \in {1, 2} \ {m} : mu2[n] = mu[n]
  BY <1>1 DEF Take, MutexTypes
<1>7. /\ \A n \in {1, 2} \ {m} : Free(n, h2) <=> Free(n, h)
      /\ ~Free(m, h2)
  BY <1>1 DEF Free, MutexTypes
<1>8. OneHolder(h2)
  BY <1>1, <1>5 DEF Free, OneHolder, MutexesOK, MutexTypes
<1>9. \A q \in Reqs : q # r => p2[q] = p[q]
  BY <1>1 DEF MutexTypes
<1>10. \A n \in {1, 2} : \A i \in 1 .. Len(mu[n].waiters) :
         mu[n].waiters[i] \in Reqs /\ Waits(p[mu[n].waiters[i]], n)
  BY <1>1, WaitersAre DEF MutexTypes, MutexesOK, WaitersWait
<1> HIDE DEF p2, h2, mu2
<1>11. WaitersWait(p2, mu2)
  <2>1. ASSUME NEW n \in {1, 2}
        PROVE  /\ Distinct(mu2[n].waiters)
               /\ \A i \in 1 .. Len(mu2[n].waiters) : Waits(p2[mu2[n].waiters[i]], n)
    <3>1. CASE n = m
      <4>1. Distinct(w)
        BY DEF MutexesOK, WaitersWait
      <4>2. /\ \A j \in 1 .. Len(Unlink(w, r)) :
                 Unlink(w, r)[j] # r /\ \E i \in 1 .. Len(w) : Unlink(w, r)[j] = w[i]
            /\ Distinct(Unlink(w, r))
        BY <1>2, <4>1, UnlinkDistinct DEF Distinct
      <4>3. mu2[n].waiters = Unlink(w, r)
        BY <1>6, <3>1
      <4>4. \A i \in 1 .. Len(w) : w[i] \in Reqs /\ Waits(p[w[i]], n)
        BY <1>10, <3>1
      <4>5. ASSUME NEW j \in 1 .. Len(Unlink(w, r))
            PROVE  Waits(p2[Unlink(w, r)[j]], n)
        <5>1. PICK i \in 1 .. Len(w) : Unlink(w, r)[j] = w[i] /\ w[i] # r
          BY <4>2
        <5>2. QED
          BY <1>9, <4>4, <5>1
      <4>6. QED
        BY <4>2, <4>3, <4>5
    <3>2. CASE n # m
      <4>1. ASSUME NEW i \in 1 .. Len(mu[n].waiters)
            PROVE  mu[n].waiters[i] # r
        <5>1. mu[n].waiters[i] \in Reqs /\ Waits(p[mu[n].waiters[i]], n)
          BY <1>10
        <5>2. p[r] \notin WaitLabels \/ Waits(p[r], m)
          OBVIOUS
        <5>3. QED
          BY <3>2, <5>1, <5>2, WaitsOnce
      <4>2. mu2[n] = mu[n] /\ Distinct(mu[n].waiters)
        BY <1>6, <3>2 DEF MutexesOK, WaitersWait
      <4>3. QED
        BY <1>9, <1>10, <4>1, <4>2
    <3>3. QED
      BY <3>1, <3>2
  <2>2. QED
    BY <2>1 DEF WaitersWait
<1>12. \A i \in 1 .. Len(s2) : \E n \in {1, 2} \ {m} : HandedTo(s2[i], n, p, h, mu)
  <2>1. ASSUME NEW i \in 1 .. Len(s2)
        PROVE  \E n \in {1, 2} \ {m} : HandedTo(s2[i], n, p, h, mu)
    <3>1. PICK j \in 1 .. Len(s) : s2[i] = s[j]
      BY <1>3
    <3>2. PICK n \in {1, 2} : HandedTo(s[j], n, p, h, mu)
      BY DEF MutexesOK, ScheduledOnce
    <3>3. n # m
      <4>1. CASE ~mu[m].locked
        BY <3>2, <4>1 DEF HandedTo
      <4>2. CASE s # <<>> /\ Head(s) = r /\ Waits(p[r], m)
        <5>1. 1 \in 1 .. Len(s) /\ s[1] = r
          BY <1>2, <4>2
        <5>2. PICK k \in {1, 2} : HandedTo(r, k, p, h, mu)
          BY <5>1 DEF MutexesOK, ScheduledOnce
        <5>3. k = m /\ w[1] = r
          BY <4>2, <5>2, WaitsOnce DEF HandedTo
        <5>4. s[j] # r
          BY <1>3, <3>1
        <5>5. QED
          BY <3>2, <5>3, <5>4 DEF HandedTo
      <4>3. QED
        BY <4>1, <4>2
    <3>4. QED
      BY <3>1, <3>2, <3>3
  <2>2. QED
    BY <2>1
<1>13. ScheduledOnce(p2, h2, mu2, s2)
  <2>1. Distinct(s2)
    BY <1>2, <1>3 DEF Distinct, MutexesOK, ScheduledOnce
  <2>2. \A i \in 1 .. Len(s2) : \E n \in {1, 2} : HandedTo(s2[i], n, p2, h2, mu2)
    <3>1. ASSUME NEW i \in 1 .. Len(s2), NEW n \in {1, 2} \ {m}, HandedTo(s2[i], n, p, h, mu)
          PROVE  HandedTo(s2[i], n, p2, h2, mu2)
      <4>1. s2[i] \in Reqs /\ s2[i] # r
        BY <1>3
      <4>2. p2[s2[i]] = p[s2[i]] /\ mu2[n] = mu[n] /\ (Free(n, h2) <=> Free(n, h))
        BY <1>6, <1>7, <1>9, <4>1
      <4>3. QED
        BY <3>1, <4>2 DEF HandedTo
    <3>2. QED
      BY <1>12, <3>1
  <2>3. QED
    BY <2>1, <2>2 DEF ScheduledOnce
<1>14. HeldIsLocked(h2, mu2)
  BY <1>6, <1>7 DEF MutexesOK, HeldIsLocked
<1>15. LockHasKeeper(p2, h2, mu2, s2)
  <2>1. ASSUME NEW n \in {1, 2}, mu2[n].locked, Free(n, h2)
        PROVE  \E i \in 1 .. Len(s2) : Waits(p2[s2[i]], n)
    <3>1. n # m
      BY <1>7, <2>1
    <3>2. mu[n].locked /\ Free(n, h)
      BY <1>6, <1>7, <2>1, <3>1
    <3>3. PICK j \in 1 .. Len(s) : Waits(p[s[j]], n)
      BY <3>2 DEF MutexesOK, LockHasKeeper
    <3>4. s[j] # r
      BY <3>1, <3>3, WaitsOnce
    <3>5. PICK i \in 1 .. Len(s2) : s2[i] = s[j]
      BY <1>3, <3>4
    <3>6. QED
      BY <1>3, <1>9, <3>3, <3>4, <3>5
  <2>2. QED
    BY <2>1 DEF LockHasKeeper
<1>16. QED
  BY <1>4, <1>8, <1>11, <1>13, <1>14, <1>15 DEF MutexesOK, p2, h2, mu2

\* r finds mutex m taken and is put behind its waiters.
LEMMA EnqueueOK ==
  ASSUME NEW p, NEW h, NEW mu, NEW s, MutexesOK(p, h, mu, s),
         NEW r \in Reqs, p[r] \notin WaitLabels, NEW m \in {1, 2}, mu[m].locked,
         NEW x \in WaitLabels, Waits(x, m)
  PROVE  MutexesOK([p EXCEPT ![r] = x], h, [mu EXCEPT ![m] = Enqueue(@, r)], s)
<1> DEFINE p2 == [p EXCEPT ![r] = x]
           mu2 == [mu EXCEPT ![m] = Enqueue(@, r)]
           w == mu[m].waiters
<1>1. MutexTypes(p, h, mu, s)
  BY DEF MutexesOK
<1>2. /\ w \in Seq(Reqs) /\ mu[m] \in MutexOver(Reqs) /\ Len(w) \in Nat
      /\ s \in Seq(Reqs) /\ Len(s) \in Nat
  BY <1>1, WaitersAre DEF MutexTypes, MutexValue
<1>3. Enqueue(mu[m], r) \in MutexOver(Reqs)
  BY <1>2, OpsType
<1>4. MutexTypes(p2, h, mu2, s)
  <2>1. x \in Labels
    BY DEF WaitLabels, Labels
  <2>2. QED
    BY <1>1, <1>3, <2>1 DEF MutexTypes, MutexValue
<1>5. /\ mu2[m].waiters = Append(w, r) /\ mu2[m].locked
      /\ \A n \in {1, 2} \ {m} : mu2[n] = mu[n]
  BY <1>1, <1>2 DEF Enqueue, MutexTypes, MutexOver
<1>6. p2[r] = x /\ \A q \in Reqs : q # r => p2[q] = p[q]
  BY <1>1 DEF MutexTypes
<1>7. \A n \in {1, 2} : \A i \in 1 .. Len(mu[n].waiters) :
         /\ mu[n].waiters[i] \in Reqs /\ Waits(p[mu[n].waiters[i]], n)
         /\ mu[n].waiters[i] # r
  <2>1. ASSUME NEW n \in {1, 2}, NEW i \in 1 .. Len(mu[n].waiters)
        PROVE  /\ mu[n].waiters[i] \in Reqs /\ Waits(p[mu[n].waiters[i]], n)
               /\ mu[n].waiters[i] # r
    <3>1. mu[n].waiters[i] \in Reqs /\ Waits(p[mu[n].waiters[i]], n)
      BY <1>1, WaitersAre DEF MutexTypes, MutexesOK, WaitersWait
    <3>2. QED
      BY <3>1, WaitsOnce
  <2>2. QED
    BY <2>1
<1>8. \A i \in 1 .. Len(s) : s[i] \in Reqs /\ s[i] # r
  BY <1>2, WaitsOnce DEF MutexesOK, ScheduledOnce, HandedTo
<1>9. /\ Len(Append(w, r)) = Len(w) + 1
      /\ \A i \in 1 .. Len(w) : Append(w, r)[i] = w[i]
      /\ Append(w, r)[Len(w) + 1] = r
  BY <1>2
<1>10. \A i \in 1 .. Len(mu2[m].waiters) :
         \/ i \in 1 .. Len(w) /\ mu2[m].waiters[i] = w[i]
         \/ i = Len(w) + 1 /\ mu2[m].waiters[i] = r
  BY <1>2, <1>5, <1>9
<1> HIDE DEF p2, mu2
<1>11. WaitersWait(p2, mu2)
  <2>1. Distinct(mu2[m].waiters)
    <3>1. Distinct(w) /\ \A i \in 1 .. Len(w) : w[i] # r
      BY <1>7 DEF MutexesOK, WaitersWait
    <3>2. QED
      BY <1>2, <1>10, <3>1 DEF Distinct
  <2>2. \A i \in 1 .. Len(mu2[m].waiters) : Waits(p2[mu2[m].waiters[i]], m)
    BY <1>6, <1>7, <1>10
  <2>3. ASSUME NEW n \in {1, 2} \ {m}
        PROVE  /\ Distinct(mu2[n].waiters)
               /\ \A i \in 1 .. Len(mu2[n].waiters) : Waits(p2[mu2[n].waiters[i]], n)
    BY <1>5, <1>6, <1>7 DEF MutexesOK, WaitersWait
  <2>4. QED
    BY <2>1, <2>2, <2>3 DEF WaitersWait
<1>12. ScheduledOnce(p2, h, mu2, s)
  <2>1. ASSUME NEW i \in 1 .. Len(s), NEW n \in {1, 2}, HandedTo(s[i], n, p, h, mu)
        PROVE  HandedTo(s[i], n, p2, h, mu2)
    <3>1. p2[s[i]] = p[s[i]]
      BY <1>6, <1>8
    <3>2. /\ mu2[n].locked
          /\ Len(mu2[n].waiters) > 0 /\ mu2[n].waiters[1] = mu[n].waiters[1]
      <4>1. CASE n = m
        <5>1. 1 \in 1 .. Len(w)
          BY <1>2, <2>1, <4>1 DEF HandedTo
        <5>2. QED
          BY <1>2, <1>5, <1>9, <4>1, <5>1
      <4>2. CASE n # m
        BY <1>5, <2>1, <4>2 DEF HandedTo
      <4>3. QED
        BY <4>1, <4>2
    <3>3. QED
      BY <2>1, <3>1, <3>2 DEF HandedTo
  <2>2. QED
    BY <2>1 DEF MutexesOK, ScheduledOnce
<1>13. HeldIsLocked(h, mu2)
  BY <1>5 DEF MutexesOK, HeldIsLocked
<1>14. LockHasKeeper(p2, h, mu2, s)
  BY <1>5, <1>6, <1>8 DEF MutexesOK, LockHasKeeper
<1>15. QED
  BY <1>4, <1>11, <1>12, <1>13, <1>14 DEF MutexesOK, p2, mu2

\* r, which nobody scheduled, is cancelled: its places in the lists are destroyed.
LEMMA ForgetOK ==
  ASSUME NEW p, NEW h, NEW mu, NEW s, MutexesOK(p, h, mu, s),
         NEW r \in Reqs, ~Contains(s, r), NEW x \in Labels \ WaitLabels
  PROVE  MutexesOK([p EXCEPT ![r] = x], h, [m \in {1, 2} |-> Forget(mu[m], r)], s)
<1> DEFINE p2 == [p EXCEPT ![r] = x]
           mu2 == [m \in {1, 2} |-> Forget(mu[m], r)]
<1>1. MutexTypes(p, h, mu, s)
  BY DEF MutexesOK
<1>2. s \in Seq(Reqs) /\ Len(s) \in Nat /\ DOMAIN s = 1 .. Len(s)
  BY <1>1 DEF MutexTypes
<1>3. \A i \in 1 .. Len(s) : s[i] \in Reqs /\ s[i] # r
  BY <1>2 DEF Contains
<1>4. \A q \in Reqs : q # r => p2[q] = p[q]
  BY <1>1 DEF MutexTypes
<1>5. ASSUME NEW m \in {1, 2}
      PROVE  LET w == mu[m].waiters
                 u == mu2[m].waiters IN
             /\ mu2[m] \in MutexValue
             /\ mu2[m].locked <=> mu[m].locked
             /\ Distinct(u)
             /\ \A i \in 1 .. Len(u) : u[i] \in Reqs /\ u[i] # r /\ Waits(p[u[i]], m)
             /\ Len(w) > 0 /\ w[1] # r => Len(u) > 0 /\ u[1] = w[1]
  <2> DEFINE w == mu[m].waiters
             u == mu2[m].waiters
  <2>1. w \in Seq(Reqs) /\ mu[m] \in MutexOver(Reqs)
    BY <1>1, WaitersAre DEF MutexTypes, MutexValue
  <2>2. mu2[m] \in MutexValue
    BY <2>1, OpsType DEF MutexValue
  <2>3. u = Unlink(w, r) /\ (mu2[m].locked <=> mu[m].locked)
    BY <2>1 DEF Forget, MutexOver
  <2>4. Distinct(w) /\ \A i \in 1 .. Len(w) : w[i] \in Reqs /\ Waits(p[w[i]], m)
    BY <1>1, WaitersAre DEF MutexTypes, MutexesOK, WaitersWait
  <2>5. /\ \A j \in 1 .. Len(Unlink(w, r)) :
             Unlink(w, r)[j] # r /\ \E i \in 1 .. Len(w) : Unlink(w, r)[j] = w[i]
        /\ Distinct(Unlink(w, r))
        /\ Len(w) > 0 /\ w[1] # r => Len(Unlink(w, r)) > 0 /\ Unlink(w, r)[1] = w[1]
    BY <2>1, <2>4, UnlinkDistinct DEF Distinct
  <2> HIDE DEF w, u
  <2>6. \A i \in 1 .. Len(u) : u[i] \in Reqs /\ u[i] # r /\ Waits(p[u[i]], m)
    BY <2>3, <2>4, <2>5
  <2>7. QED
    BY <2>2, <2>3, <2>5, <2>6 DEF w, u
<1>6. MutexTypes(p2, h, mu2, s)
  <2>1. p2 \in [Reqs -> Labels]
    BY <1>1 DEF MutexTypes
  <2>2. mu2 \in [{1, 2} -> MutexValue]
    BY <1>5
  <2>3. QED
    BY <1>1, <2>1, <2>2 DEF MutexTypes
<1> HIDE DEF p2, mu2
<1>7. WaitersWait(p2, mu2)
  BY <1>4, <1>5 DEF WaitersWait
<1>8. ScheduledOnce(p2, h, mu2, s)
  <2>1. ASSUME NEW i \in 1 .. Len(s), NEW n \in {1, 2}, HandedTo(s[i], n, p, h, mu)
        PROVE  HandedTo(s[i], n, p2, h, mu2)
    <3>1. p2[s[i]] = p[s[i]] /\ s[i] # r
      BY <1>3, <1>4
    <3>2. QED
      BY <1>5, <2>1, <3>1 DEF HandedTo
  <2>2. QED
    BY <2>1 DEF MutexesOK, ScheduledOnce
<1>9. HeldIsLocked(h, mu2)
  BY <1>5 DEF MutexesOK, HeldIsLocked
<1>10. LockHasKeeper(p2, h, mu2, s)
  BY <1>3, <1>4, <1>5 DEF MutexesOK, LockHasKeeper
<1>11. QED
  BY <1>6, <1>7, <1>8, <1>9, <1>10 DEF MutexesOK, p2, mu2

\* Whom the destruction of the locks ms schedules.
LEMMA ReleaseHas ==
  ASSUME NEW p, NEW h, NEW mu, NEW s, MutexesOK(p, h, mu, s), NEW ms \in SUBSET {1, 2}, NEW q,
         Contains(s \o (IF 2 \in ms THEN Woken(mu[2]) ELSE <<>>)
                    \o (IF 1 \in ms THEN Woken(mu[1]) ELSE <<>>), q)
  PROVE  Contains(s, q) \/ \E m \in ms : Waits(p[q], m)
<1>1. MutexTypes(p, h, mu, s)
  BY DEF MutexesOK
<1>2. s \in Seq(Reqs)
  BY <1>1 DEF MutexTypes
<1>3. \A m \in {1, 2} : /\ Woken(mu[m]) \in Seq(Reqs)
                        /\ \A x : Contains(Woken(mu[m]), x) => Waits(p[x], m)
  <2>1. ASSUME NEW m \in {1, 2}
        PROVE  /\ Woken(mu[m]) \in Seq(Reqs)
               /\ \A x : Contains(Woken(mu[m]), x) => Waits(p[x], m)
    <3>1. mu[m].waiters \in Seq(Reqs)
      BY <1>1, WaitersAre DEF MutexTypes
    <3>2. CASE mu[m].waiters = <<>>
      <4>1. Woken(mu[m]) = <<>>
        BY <3>2 DEF Woken
      <4>2. QED
        BY <3>1, <4>1 DEF Contains
    <3>3. CASE mu[m].waiters # <<>>
      <4>1. 1 \in 1 .. Len(mu[m].waiters) /\ Head(mu[m].waiters) = mu[m].waiters[1]
        BY <3>1, <3>3
      <4>2. Woken(mu[m]) = <<mu[m].waiters[1]>> /\ mu[m].waiters[1] \in Reqs
        BY <3>1, <3>3, <4>1 DEF Woken
      <4>3. Waits(p[mu[m].waiters[1]], m)
        BY <4>1 DEF MutexesOK, WaitersWait
      <4>4. QED
        BY <3>1, <4>2, <4>3 DEF Contains
    <3>4. QED
      BY <3>2, <3>3
  <2>2. QED
    BY <2>1
<1> DEFINE a == IF 2 \in ms THEN Woken(mu[2]) ELSE <<>>
           b == IF 1 \in ms THEN Woken(mu[1]) ELSE <<>>
<1>4. a \in Seq(Reqs) /\ b \in Seq(Reqs) /\ Contains((s \o a) \o b, q)
  BY <1>3
<1>5. Contains(a, q) \/ Contains(b, q) => \E m \in ms : Waits(p[q], m)
  <2>1. ~Contains(<<>>, q)
    BY DEF Contains
  <2>2. QED
    BY <1>3, <2>1
<1> HIDE DEF a, b
<1>6. s \o a \in Seq(Reqs)
  BY <1>2, <1>4
<1>7. Contains(s \o a, q) \/ Contains(b, q)
  BY <1>4, <1>6, ConcatHas
<1>8. Contains(s, q) \/ Contains(a, q) \/ Contains(b, q)
  BY <1>2, <1>4, <1>7, ConcatHas
<1>9. QED
  BY <1>5, <1>8

\* The locks ms of r are destroyed, l2 before l1.
LEMMA ReleaseOK ==
  ASSUME NEW p, NEW h, NEW mu, NEW s, MutexesOK(p, h, mu, s),
         NEW r \in Reqs, NEW ms \in SUBSET h[r], NEW h2, NEW mu2, NEW s2,
         h2 = [h EXCEPT ![r] = @ \ ms],
         mu2 = [m \in {1, 2} |-> IF m \in ms THEN Unlock(mu[m]) ELSE mu[m]],
         s2 = s \o (IF 2 \in ms THEN Woken(mu[2]) ELSE <<>>)
                \o (IF 1 \in ms THEN Woken(mu[1]) ELSE <<>>)
  PROVE  MutexesOK(p, h2, mu2, s2)
<1>1. MutexTypes(p, h, mu, s)
  BY DEF MutexesOK
<1>2. ms \in SUBSET {1, 2} /\ s \in Seq(Reqs)
  BY <1>1 DEF MutexTypes
<1>3. \A m \in {1, 2} : Woken(mu[m]) \in Seq(Reqs)
  BY <1>1, OpsType DEF MutexTypes, MutexValue
<1>5. CASE ms = {}
  <2>1. h2 = h
    BY <1>1, <1>5 DEF MutexTypes
  <2>2. mu2 = mu
    BY <1>1, <1>5 DEF MutexTypes
  <2>3. s2 = s
    BY <1>2, <1>5
  <2>4. QED
    BY <2>1, <2>2, <2>3
<1>6. ASSUME NEW k \in {1, 2}, ms = {k}
      PROVE  MutexesOK(p, h2, mu2, s2)
  <2>1. h2 = [h EXCEPT ![r] = @ \ {k}]
    BY <1>6
  <2>2. mu2 = [mu EXCEPT ![k] = Unlock(@)]
    BY <1>1, <1>6 DEF MutexTypes
  <2>3. s2 = s \o Woken(mu[k])
    <3>1. \A t \in Seq(Reqs) : t \o <<>> = t
      OBVIOUS
    <3>2. s \o Woken(mu[2]) \in Seq(Reqs)
      BY <1>2, <1>3
    <3>3. CASE k = 1
      BY <1>2, <1>6, <3>1, <3>3
    <3>4. CASE k = 2
      BY <1>6, <3>1, <3>2, <3>4
    <3>5. QED
      BY <3>3, <3>4
  <2>4. k \in h[r]
    BY <1>6
  <2>5. MutexesOK(p, [h EXCEPT ![r] = @ \ {k}], [mu EXCEPT ![k] = Unlock(@)], s \o Woken(mu[k]))
    BY <2>4, UnlockOK
  <2>6. QED
    BY <2>1, <2>2, <2>3, <2>5
<1>7. CASE ms = {1, 2}
  <2> DEFINE h1 == [h EXCEPT ![r] = @ \ {2}]
             mu1 == [mu EXCEPT ![2] = Unlock(@)]
             s1 == s \o Woken(mu[2])
  <2>1. MutexesOK(p, h1, mu1, s1)
    BY <1>7, UnlockOK
  <2>2. 1 \in h1[r] /\ mu1[1] = mu[1]
    BY <1>1, <1>7 DEF MutexTypes
  <2>3. h2 = [h1 EXCEPT ![r] = @ \ {1}]
    BY <1>1, <1>7 DEF MutexTypes
  <2>4. mu2 = [mu1 EXCEPT ![1] = Unlock(@)]
    <3>1. /\ mu1[1] = mu[1] /\ mu1[2] = Unlock(mu[2])
          /\ mu1 = [m \in {1, 2} |-> mu1[m]]
      <4>1. mu1[1] = mu[1] /\ mu1[2] = Unlock(mu[2])
        BY <1>1 DEF MutexTypes
      <4>2. mu1 \in [{1, 2} -> MutexValue]
        BY <2>1 DEF MutexesOK, MutexTypes
      <4> HIDE DEF mu1
      <4>3. QED
        BY <4>1, <4>2
    <3>2. [mu1 EXCEPT ![1] = Unlock(@)] = [m \in {1, 2} |-> IF m = 1 THEN Unlock(mu1[1]) ELSE mu1[m]]
      BY <3>1
    <3>3. \A m \in {1, 2} : (IF m = 1 THEN Unlock(mu1[1]) ELSE mu1[m]) = Unlock(mu[m])
      BY <3>1
    <3>4. \A m \in {1, 2} : (IF m \in ms THEN Unlock(mu[m]) ELSE mu[m]) = Unlock(mu[m])
      BY <1>7
    <3>5. mu2 = [m \in {1, 2} |-> Unlock(mu[m])]
      BY <3>4
    <3>6. QED
      BY <3>2, <3>3, <3>5
  <2>5. s2 = s1 \o Woken(mu1[1])
    BY <1>7, <2>2
  <2> HIDE DEF h1, mu1, s1
  <2>6. MutexesOK(p, [h1 EXCEPT ![r] = @ \ {1}], [mu1 EXCEPT ![1] = Unlock(@)], s1 \o Woken(mu1[1]))
    BY <2>1, <2>2, UnlockOK
  <2>7. QED
    BY <2>3, <2>4, <2>5, <2>6
<1>8. ms = {} \/ ms = {1} \/ ms = {2} \/ ms = {1, 2}
  BY <1>2
<1>9. QED
  BY <1>5, <1>6, <1>7, <1>8

-----------------------------------------------------------------------------
(* The stack.                                                              *)

RunLabels == {"want1", "have1", "sending", "want2", "have2", "want2x", "have2x", "recreate", "return"}

\* Those that run are on the stack, once; all but the innermost have returned, or are
\* in a send that failed, and the innermost may be the reader which that resumed.
StackOK(p, st) ==
  /\ st \in Seq(Reqs)
  /\ Distinct(st)
  /\ \A r \in Reqs : p[r] \in RunLabels => Contains(st, r)
  /\ \A i \in 1 .. Len(st) : p[st[i]] \in RunLabels \cup {"status", "body"}
  /\ \A i \in 2 .. Len(st) : p[st[i]] \in {"return", "sending"}

\* Where the coroutines on the stack are when one is resumed.
AllBelow(p, st) == \A i \in 1 .. Len(st) : p[st[i]] \in {"return", "sending"}

LEMMA BelowAre ==
  ASSUME NEW p, NEW st, StackOK(p, st), st # <<>> => p[Head(st)] \in {"return", "sending"}
  PROVE  AllBelow(p, st)
<1>1. st \in Seq(Reqs) /\ Len(st) \in Nat
  BY DEF StackOK
<1>2. ASSUME NEW i \in 1 .. Len(st)
      PROVE  p[st[i]] \in {"return", "sending"}
  <2>1. CASE i = 1
    BY <1>1, <2>1
  <2>2. CASE i # 1
    <3>1. i \in 2 .. Len(st)
      BY <1>1, <2>2
    <3>2. QED
      BY <3>1 DEF StackOK
  <2>3. QED
    BY <2>1, <2>2
<1>3. QED
  BY <1>2 DEF AllBelow

LEMMA StackPush ==
  ASSUME NEW p \in [Reqs -> Labels], NEW st, StackOK(p, st), NEW r \in Reqs, p[r] \notin RunLabels,
         st # <<>> => p[Head(st)] = "return", NEW x \in RunLabels
  PROVE  StackOK([p EXCEPT ![r] = x], <<r>> \o st)
<1>0. AllBelow(p, st)
  BY BelowAre
<1> DEFINE t == <<r>> \o st
           p2 == [p EXCEPT ![r] = x]
<1>1. st \in Seq(Reqs) /\ Len(st) \in Nat /\ DOMAIN st = 1 .. Len(st)
  BY DEF StackOK
<1>2. /\ t \in Seq(Reqs) /\ Len(t) = Len(st) + 1 /\ t[1] = r /\ DOMAIN t = 1 .. Len(t)
      /\ \A i \in 1 .. Len(st) : t[i + 1] = st[i]
  BY <1>1
<1>3. p2[r] = x /\ \A q \in Reqs : q # r => p2[q] = p[q]
  OBVIOUS
<1>4. \A i \in 1 .. Len(st) : st[i] \in Reqs /\ st[i] # r /\ p2[st[i]] \in {"return", "sending"}
  <2>1. ASSUME NEW i \in 1 .. Len(st)
        PROVE  st[i] \in Reqs /\ st[i] # r /\ p2[st[i]] \in {"return", "sending"}
    <3>1. p[st[i]] \in {"return", "sending"} /\ st[i] \in Reqs
      BY <1>0, <1>1 DEF AllBelow
    <3>2. st[i] # r
      BY <3>1 DEF RunLabels
    <3>3. QED
      BY <1>3, <3>1, <3>2
  <2>2. QED
    BY <2>1
<1> HIDE DEF t, p2
<1>5. \A i \in 1 .. Len(t) : i = 1 \/ (i # 1 /\ i - 1 \in 1 .. Len(st) /\ t[i] = st[i - 1])
  BY <1>1, <1>2
<1>6. Distinct(t)
  <2>1. ASSUME NEW i \in 1 .. Len(t), NEW j \in 1 .. Len(t), t[i] = t[j]
        PROVE  i = j
    <3>1. CASE i = 1 /\ j = 1
      BY <3>1
    <3>2. CASE i = 1 /\ j # 1
      BY <1>2, <1>4, <1>5, <2>1, <3>2
    <3>3. CASE i # 1 /\ j = 1
      BY <1>2, <1>4, <1>5, <2>1, <3>3
    <3>4. CASE i # 1 /\ j # 1
      <4>1. i - 1 \in 1 .. Len(st) /\ j - 1 \in 1 .. Len(st) /\ st[i - 1] = st[j - 1]
        BY <1>5, <2>1, <3>4
      <4>2. i - 1 = j - 1
        BY <4>1 DEF StackOK, Distinct
      <4>3. QED
        BY <1>2, <4>2
    <3>5. QED
      BY <3>1, <3>2, <3>3, <3>4
  <2>2. QED
    BY <2>1 DEF Distinct
<1>7. ASSUME NEW q \in Reqs, p2[q] \in RunLabels
      PROVE  Contains(t, q)
  <2>1. CASE q = r
    BY <1>1, <1>2, <2>1 DEF Contains
  <2>2. CASE q # r
    <3>1. PICK i \in 1 .. Len(st) : st[i] = q
      BY <1>1, <1>3, <1>7, <2>2 DEF StackOK, Contains
    <3>2. i + 1 \in 1 .. Len(t) /\ t[i + 1] = q
      BY <1>1, <1>2, <3>1
    <3>3. QED
      BY <1>2, <3>2 DEF Contains
  <2>3. QED
    BY <2>1, <2>2
<1>8. \A i \in 1 .. Len(t) : p2[t[i]] \in RunLabels \cup {"status", "body"}
  <2>1. p2[r] \in RunLabels
    BY <1>3
  <2>2. {"return", "sending"} \subseteq RunLabels
    BY DEF RunLabels
  <2>3. QED
    BY <1>2, <1>4, <1>5, <2>1, <2>2
<1>9. ASSUME NEW i \in 2 .. Len(t) PROVE p2[t[i]] \in {"return", "sending"}
  <2>1. i \in 1 .. Len(t) /\ i # 1
    BY <1>1, <1>2
  <2>2. QED
    BY <1>4, <1>5, <2>1
<1>10. QED
  BY <1>2, <1>6, <1>7, <1>8, <1>9 DEF StackOK, t, p2

\* The innermost coroutine goes on.
LEMMA StackStay ==
  ASSUME NEW p \in [Reqs -> Labels], NEW st, StackOK(p, st), NEW r \in Reqs,
         st # <<>>, Head(st) = r, NEW x \in RunLabels
  PROVE  StackOK([p EXCEPT ![r] = x], st)
<1> DEFINE p2 == [p EXCEPT ![r] = x]
<1>1. st \in Seq(Reqs) /\ Len(st) \in Nat /\ 1 \in 1 .. Len(st) /\ st[1] = r
      /\ DOMAIN st = 1 .. Len(st)
  BY DEF StackOK
<1>2. p2[r] = x /\ \A q \in Reqs : q # r => p2[q] = p[q]
  OBVIOUS
<1>3. \A i \in 2 .. Len(st) : i \in 1 .. Len(st) /\ st[i] \in Reqs /\ st[i] # r
  BY <1>1 DEF StackOK, Distinct
<1> HIDE DEF p2
<1>4. \A i \in 2 .. Len(st) : p2[st[i]] \in {"return", "sending"}
  BY <1>2, <1>3 DEF StackOK
<1>5. \A i \in 1 .. Len(st) : p2[st[i]] \in RunLabels \cup {"status", "body"}
  BY <1>1, <1>2 DEF StackOK
<1>6. \A q \in Reqs : p2[q] \in RunLabels => Contains(st, q)
  BY <1>1, <1>2 DEF StackOK, Contains
<1>7. QED
  BY <1>4, <1>5, <1>6 DEF StackOK, p2

\* The innermost coroutine suspends or ends.
LEMMA StackPop ==
  ASSUME NEW p \in [Reqs -> Labels], NEW st, StackOK(p, st), NEW r \in Reqs,
         st # <<>>, Head(st) = r, NEW x \in Labels \ RunLabels
  PROVE  StackOK([p EXCEPT ![r] = x], Tail(st))
<1> DEFINE p2 == [p EXCEPT ![r] = x]
           t == Tail(st)
<1>1. /\ st \in Seq(Reqs) /\ Len(st) \in Nat /\ 1 \in 1 .. Len(st) /\ st[1] = r
      /\ DOMAIN st = 1 .. Len(st)
      /\ t \in Seq(Reqs) /\ Len(t) = Len(st) - 1 /\ DOMAIN t = 1 .. Len(t)
      /\ \A i \in 1 .. Len(st) - 1 : t[i] = st[i + 1]
  BY DEF StackOK
<1>2. p2[r] = x /\ \A q \in Reqs : q # r => p2[q] = p[q]
  OBVIOUS
<1> HIDE DEF p2, t
<1>3. \A i \in 1 .. Len(t) : /\ i + 1 \in 2 .. Len(st) /\ i + 1 \in 1 .. Len(st)
                             /\ t[i] = st[i + 1]
  BY <1>1
<1>4. \A i \in 1 .. Len(t) : t[i] \in Reqs /\ t[i] # r /\ p2[t[i]] \in {"return", "sending"}
  <2>1. ASSUME NEW i \in 1 .. Len(t)
        PROVE  t[i] \in Reqs /\ t[i] # r /\ p2[t[i]] \in {"return", "sending"}
    <3>1. st[i + 1] \in Reqs /\ p[st[i + 1]] \in {"return", "sending"}
      BY <1>1, <1>3 DEF StackOK
    <3>2. i + 1 # 1
      BY <1>3
    <3>3. st[i + 1] # r
      BY <1>1, <1>3, <3>2 DEF StackOK, Distinct
    <3>4. QED
      BY <1>2, <1>3, <3>1, <3>3
  <2>2. QED
    BY <2>1
<1>5. Distinct(t)
  <2>1. ASSUME NEW i \in 1 .. Len(t), NEW j \in 1 .. Len(t), t[i] = t[j]
        PROVE  i = j
    <3>1. i + 1 = j + 1
      BY <1>3, <2>1 DEF StackOK, Distinct
    <3>2. QED
      BY <1>1, <3>1
  <2>2. QED
    BY <2>1 DEF Distinct
<1>6. ASSUME NEW q \in Reqs, p2[q] \in RunLabels
      PROVE  Contains(t, q)
  <2>1. q # r /\ p[q] \in RunLabels
    BY <1>2, <1>6
  <2>2. PICK i \in 1 .. Len(st) : st[i] = q
    BY <1>1, <2>1 DEF StackOK, Contains
  <2>3. i # 1
    BY <1>1, <2>1, <2>2
  <2>4. i - 1 \in 1 .. Len(t) /\ i - 1 + 1 = i
    BY <1>1, <2>3
  <2>5. t[i - 1] = q
    BY <1>3, <2>2, <2>4
  <2>6. QED
    BY <1>1, <2>4, <2>5 DEF Contains
<1>7. \A i \in 2 .. Len(t) : i \in 1 .. Len(t)
  BY <1>1
<1>8. QED
  BY <1>1, <1>4, <1>5, <1>6, <1>7 DEF StackOK, RunLabels, p2, t

\* A step of a request that is not on the stack, nor goes there.
LEMMA StackOther ==
  ASSUME NEW p \in [Reqs -> Labels], NEW st, StackOK(p, st), NEW r \in Reqs,
         p[r] \notin RunLabels, NEW x \in Labels \ RunLabels,
         st # <<>> => p[Head(st)] = "return"
  PROVE  StackOK([p EXCEPT ![r] = x], st)
<1> DEFINE p2 == [p EXCEPT ![r] = x]
<1>0. AllBelow(p, st)
  BY BelowAre
<1>1. st \in Seq(Reqs) /\ Len(st) \in Nat /\ \A i \in 1 .. Len(st) : st[i] \in Reqs /\ st[i] # r
  BY <1>0 DEF StackOK, AllBelow, RunLabels
<1>2. p2[r] = x /\ \A q \in Reqs : q # r => p2[q] = p[q]
  OBVIOUS
<1> HIDE DEF p2
<1>3. \A i \in 2 .. Len(st) : i \in 1 .. Len(st)
  BY <1>1
<1>4. QED
  BY <1>1, <1>2, <1>3 DEF StackOK, p2

\* A send of the innermost coroutine r fails and resumes the reader q inside it.
LEMMA StackNests ==
  ASSUME NEW p \in [Reqs -> Labels], NEW st, StackOK(p, st), NEW r \in Reqs, NEW q \in Reqs,
         st # <<>>, Head(st) = r, p[r] = "have1", p[q] \in {"status", "body"}
  PROVE  StackOK([p EXCEPT ![r] = "sending"], <<q>> \o st)
<1> DEFINE t == <<q>> \o st
           p2 == [p EXCEPT ![r] = "sending"]
<1>1. /\ st \in Seq(Reqs) /\ Len(st) \in Nat /\ DOMAIN st = 1 .. Len(st)
      /\ 1 \in 1 .. Len(st) /\ st[1] = r
  BY DEF StackOK
<1>2. /\ t \in Seq(Reqs) /\ Len(t) = Len(st) + 1 /\ t[1] = q /\ DOMAIN t = 1 .. Len(t)
      /\ \A i \in 1 .. Len(st) : t[i + 1] = st[i]
  BY <1>1
<1>3. p2[r] = "sending" /\ \A c \in Reqs : c # r => p2[c] = p[c]
  OBVIOUS
<1>4. \A i \in 1 .. Len(st) : st[i] \in Reqs /\ st[i] # q /\ p2[st[i]] \in {"return", "sending"}
  <2>1. ASSUME NEW i \in 1 .. Len(st)
        PROVE  st[i] \in Reqs /\ st[i] # q /\ p2[st[i]] \in {"return", "sending"}
    <3>1. CASE i = 1
      BY <1>1, <1>3, <3>1
    <3>2. CASE i # 1
      <4>1. i \in 2 .. Len(st)
        BY <1>1, <3>2
      <4>2. p[st[i]] \in {"return", "sending"} /\ st[i] \in Reqs
        BY <1>1, <4>1 DEF StackOK
      <4>3. QED
        BY <1>3, <4>2
    <3>3. QED
      BY <3>1, <3>2
  <2>2. QED
    BY <2>1
<1> HIDE DEF t, p2
<1>5. \A i \in 1 .. Len(t) : i = 1 \/ (i # 1 /\ i - 1 \in 1 .. Len(st) /\ t[i] = st[i - 1])
  BY <1>1, <1>2
<1>6. Distinct(t)
  <2>1. ASSUME NEW i \in 1 .. Len(t), NEW j \in 1 .. Len(t), t[i] = t[j]
        PROVE  i = j
    <3>1. CASE i = 1 /\ j = 1
      BY <3>1
    <3>2. CASE i = 1 /\ j # 1
      BY <1>2, <1>4, <1>5, <2>1, <3>2
    <3>3. CASE i # 1 /\ j = 1
      BY <1>2, <1>4, <1>5, <2>1, <3>3
    <3>4. CASE i # 1 /\ j # 1
      <4>1. i - 1 \in 1 .. Len(st) /\ j - 1 \in 1 .. Len(st) /\ st[i - 1] = st[j - 1]
        BY <1>5, <2>1, <3>4
      <4>2. i - 1 = j - 1
        BY <4>1 DEF StackOK, Distinct
      <4>3. QED
        BY <1>2, <4>2
    <3>5. QED
      BY <3>1, <3>2, <3>3, <3>4
  <2>2. QED
    BY <2>1 DEF Distinct
<1>7. ASSUME NEW c \in Reqs, p2[c] \in RunLabels
      PROVE  Contains(t, c)
  <2>0. p[c] \in RunLabels
    BY <1>3, <1>7 DEF RunLabels
  <2>1. PICK i \in 1 .. Len(st) : st[i] = c
    BY <1>1, <2>0 DEF StackOK, Contains
  <2>2. i + 1 \in 1 .. Len(t) /\ t[i + 1] = c
    BY <1>1, <1>2, <2>1
  <2>3. QED
    BY <1>2, <2>2 DEF Contains
<1>8. \A i \in 1 .. Len(t) : p2[t[i]] \in RunLabels \cup {"status", "body"}
  <2>1. p2[q] \in {"status", "body"}
    BY <1>3
  <2>2. QED
    BY <1>2, <1>4, <1>5, <2>1 DEF RunLabels
<1>9. ASSUME NEW i \in 2 .. Len(t) PROVE p2[t[i]] \in {"return", "sending"}
  <2>1. i \in 1 .. Len(t) /\ i # 1
    BY <1>1, <1>2
  <2>2. QED
    BY <1>4, <1>5, <2>1
<1>10. QED
  BY <1>2, <1>6, <1>7, <1>8, <1>9 DEF StackOK, t, p2

-----------------------------------------------------------------------------
(* Control: where the requests are, the mutexes they hold, the stack.      *)

\* The mutexes a request may have at label x.
HeldAt(x) ==
  CASE x \in {"have1", "want2x", "wait2x"} -> {{1}}
    [] x \in {"have2", "status", "body"} -> {{2}}
    [] x = "have2x" -> {{1, 2}}
    [] x \in {"recreate", "mksock", "return"} -> {{2}, {1, 2}}
    [] OTHER -> {{}}

ControlInv ==
  /\ MutexesOK(pc, held, mut, scheduled)
  /\ StackOK(pc, stack)
  /\ \A r \in Reqs : held[r] \in HeldAt(pc[r])

\* What a step that takes r to label x does to the stack.
StackStep(r, x) ==
  \/ Running(r) /\ x \in RunLabels /\ stack' = stack
  \/ Running(r) /\ x \notin RunLabels /\ stack' = Tail(stack)
  \/ pc[r] \notin RunLabels /\ CallerRuns /\ x \in RunLabels /\ stack' = <<r>> \o stack
  \/ pc[r] \notin RunLabels /\ CallerRuns /\ x \notin RunLabels /\ stack' = stack
  \/ /\ Running(r) /\ pc[r] = "have1" /\ x = "sending"
     /\ \E q \in Reqs : InRead(q) /\ stack' = <<q>> \o stack

LEMMA StackStepOK ==
  ASSUME ControlInv, NEW r \in Reqs, NEW x \in Labels, StackStep(r, x)
  PROVE  StackOK([pc EXCEPT ![r] = x], stack')
<1>1. pc \in [Reqs -> Labels] /\ StackOK(pc, stack)
  BY DEF ControlInv, MutexesOK, MutexTypes
<1>2. CASE Running(r) /\ x \in RunLabels /\ stack' = stack
  BY <1>1, <1>2, StackStay DEF Running
<1>3. CASE Running(r) /\ x \notin RunLabels /\ stack' = Tail(stack)
  BY <1>1, <1>3, StackPop DEF Running
<1>4. CASE pc[r] \notin RunLabels /\ CallerRuns /\ x \in RunLabels /\ stack' = <<r>> \o stack
  BY <1>1, <1>4, StackPush DEF CallerRuns
<1>5. CASE pc[r] \notin RunLabels /\ CallerRuns /\ x \notin RunLabels /\ stack' = stack
  BY <1>1, <1>5, StackOther DEF CallerRuns
<1>6. CASE /\ Running(r) /\ pc[r] = "have1" /\ x = "sending"
           /\ \E q \in Reqs : InRead(q) /\ stack' = <<q>> \o stack
  BY <1>1, <1>6, StackNests DEF Running, InRead
<1>7. QED
  BY <1>2, <1>3, <1>4, <1>5, <1>6 DEF StackStep

LEMMA ControlTypes ==
  ASSUME ControlInv
  PROVE  /\ pc \in [Reqs -> Labels] /\ held \in [Reqs -> SUBSET {1, 2}]
         /\ mut \in [{1, 2} -> MutexValue] /\ scheduled \in Seq(Reqs) /\ stack \in Seq(Reqs)
BY DEF ControlInv, MutexesOK, MutexTypes, StackOK

\* A step that leaves the mutexes alone.
LEMMA ControlMove ==
  ASSUME ControlInv, NEW r \in Reqs, NEW x \in Labels \ WaitLabels, pc[r] \notin WaitLabels,
         Goto(r, x), StackStep(r, x), UNCHANGED locks, held[r] \in HeldAt(x)
  PROVE  ControlInv'
<1>1. pc' = [pc EXCEPT ![r] = x] /\ held' = held /\ mut' = mut /\ scheduled' = scheduled
  BY DEF Goto, locks
<1>2. StackOK(pc', stack')
  BY <1>1, StackStepOK
<1>3. MutexesOK([pc EXCEPT ![r] = x], held, mut, scheduled)
  BY MoveOK DEF ControlInv
<1>4. MutexesOK(pc', held', mut', scheduled')
  BY <1>1, <1>3
<1>5. \A q \in Reqs : held'[q] \in HeldAt(pc'[q])
  <2>1. ASSUME NEW q \in Reqs PROVE held'[q] \in HeldAt(pc'[q])
    <3>1. CASE q = r
      BY <1>1, <3>1, ControlTypes
    <3>2. CASE q # r
      <4>1. pc'[q] = pc[q]
        BY <1>1, <3>2, ControlTypes
      <4>2. QED
        BY <1>1, <4>1 DEF ControlInv
    <3>3. QED
      BY <3>1, <3>2
  <2>2. QED
    BY <2>1
<1>6. QED
  BY <1>2, <1>4, <1>5 DEF ControlInv

\* The mutexes the others have.
LEMMA HeldOthers ==
  ASSUME ControlInv, NEW r \in Reqs, NEW x, NEW hs, hs \in HeldAt(x)
  PROVE  \A q \in Reqs :
           [held EXCEPT ![r] = hs][q] \in HeldAt([pc EXCEPT ![r] = x][q])
<1>1. ASSUME NEW q \in Reqs
      PROVE  [held EXCEPT ![r] = hs][q] \in HeldAt([pc EXCEPT ![r] = x][q])
  <2>1. CASE q = r
    <3>1. [held EXCEPT ![r] = hs][q] = hs /\ [pc EXCEPT ![r] = x][q] = x
      BY <2>1, ControlTypes
    <3>2. QED
      BY <3>1
  <2>2. CASE q # r
    <3>1. [held EXCEPT ![r] = hs][q] = held[q] /\ [pc EXCEPT ![r] = x][q] = pc[q]
      BY <2>2, ControlTypes
    <3>2. QED
      BY <3>1 DEF ControlInv
  <2>3. QED
    BY <2>1, <2>2
<1>2. QED
  BY <1>1

\* A step that releases locks.
LEMMA ControlRelease ==
  ASSUME ControlInv, NEW r \in Reqs, NEW x \in Labels \ WaitLabels, pc[r] \notin WaitLabels,
         Goto(r, x), StackStep(r, x), NEW ms \in SUBSET held[r], ReleaseLocks(r, ms),
         held[r] \ ms \in HeldAt(x)
  PROVE  ControlInv'
<1>1. /\ pc' = [pc EXCEPT ![r] = x]
      /\ held' = [held EXCEPT ![r] = @ \ ms]
      /\ mut' = [m \in {1, 2} |-> IF m \in ms THEN Unlock(mut[m]) ELSE mut[m]]
      /\ scheduled' = scheduled \o (IF 2 \in ms THEN Woken(mut[2]) ELSE <<>>)
                                \o (IF 1 \in ms THEN Woken(mut[1]) ELSE <<>>)
  BY DEF Goto, ReleaseLocks
<1>2. StackOK(pc', stack')
  BY <1>1, StackStepOK
<1>3. MutexesOK(pc, held, mut, scheduled)
  BY DEF ControlInv
<1>4. MutexesOK(pc, held', mut', scheduled')
  BY <1>1, <1>3, ReleaseOK
<1>5. MutexesOK([pc EXCEPT ![r] = x], held', mut', scheduled')
  BY <1>4, MoveOK
<1>6. MutexesOK(pc', held', mut', scheduled')
  BY <1>1, <1>5
<1>7. \A q \in Reqs : held'[q] \in HeldAt(pc'[q])
  <2>1. held' = [held EXCEPT ![r] = held[r] \ ms]
    BY <1>1
  <2>2. QED
    BY <1>1, <2>1, HeldOthers
<1>8. QED
  BY <1>2, <1>6, <1>7 DEF ControlInv

\* The labels before and after co_await mut1 and mut2.
LEMMA LockLabels ==
  ASSUME NEW r \in Reqs
  PROVE  /\ pc[r] \in DOMAIN Blocked => pc[r] \in {"want1", "want2", "want2x"}
         /\ pc[r] \in DOMAIN Got => pc[r] \in {"want1", "want2", "want2x"} \cup WaitLabels
         /\ MutexOf(r) \in {1, 2}
         /\ pc[r] \in WaitLabels => Waits(pc[r], MutexOf(r))
         /\ pc[r] \in {"want1", "want2", "want2x"} =>
              /\ Blocked[pc[r]] \in WaitLabels /\ Waits(Blocked[pc[r]], MutexOf(r))
              /\ HeldAt(Blocked[pc[r]]) = HeldAt(pc[r])
         /\ pc[r] \in {"want1", "want2", "want2x"} \cup WaitLabels =>
              /\ Got[pc[r]] \in {"have1", "have2", "have2x"}
              /\ \A h \in HeldAt(pc[r]) : h \cup {MutexOf(r)} \in HeldAt(Got[pc[r]])
<1>1. DOMAIN Blocked = {"want1", "want2", "want2x"}
  BY DEF Blocked
<1>2. DOMAIN Got = {"want1", "want2", "want2x", "wait1", "wait2", "wait2x"}
  BY DEF Got
<1>3. MutexOf(r) = IF pc[r] \in {"want1", "wait1"} THEN 1 ELSE 2
  BY DEF MutexOf
<1>4. pc[r] \in WaitLabels => Waits(pc[r], MutexOf(r))
  BY <1>3 DEF WaitLabels, Waits
<1>5. CASE pc[r] = "want1"
  BY <1>1, <1>2, <1>3, <1>5 DEF Blocked, Got, WaitLabels, Waits, HeldAt
<1>6. CASE pc[r] = "want2"
  BY <1>1, <1>2, <1>3, <1>6 DEF Blocked, Got, WaitLabels, Waits, HeldAt
<1>7. CASE pc[r] = "want2x"
  BY <1>1, <1>2, <1>3, <1>7 DEF Blocked, Got, WaitLabels, Waits, HeldAt
<1>8. CASE pc[r] = "wait1"
  BY <1>1, <1>2, <1>3, <1>4, <1>8 DEF Got, WaitLabels, HeldAt
<1>9. CASE pc[r] = "wait2"
  BY <1>1, <1>2, <1>3, <1>4, <1>9 DEF Got, WaitLabels, HeldAt
<1>10. CASE pc[r] = "wait2x"
  BY <1>1, <1>2, <1>3, <1>4, <1>10 DEF Got, WaitLabels, HeldAt
<1>11. CASE pc[r] \notin {"want1", "want2", "want2x", "wait1", "wait2", "wait2x"}
  BY <1>1, <1>2, <1>3, <1>11 DEF WaitLabels
<1>12. QED
  BY <1>5, <1>6, <1>7, <1>8, <1>9, <1>10, <1>11

LEMMA ControlTake ==
  ASSUME ControlInv, NEW r \in Reqs, LockFree(r) \/ LockHandedOver(r)
  PROVE  ControlInv'
<1> DEFINE m == MutexOf(r)
           x == Got[pc[r]]
<1>1. pc[r] \in {"want1", "want2", "want2x"} \cup WaitLabels
  BY LockLabels DEF LockFree, LockHandedOver, WaitLabels
<1>2. /\ m \in {1, 2} /\ x \in {"have1", "have2", "have2x"}
      /\ held[r] \cup {m} \in HeldAt(x)
  BY <1>1, LockLabels DEF ControlInv
<1>3. x \in Labels \ WaitLabels /\ x \in RunLabels
  BY <1>2 DEF Labels, WaitLabels, RunLabels
<1>4. /\ pc' = [pc EXCEPT ![r] = x]
      /\ held' = [held EXCEPT ![r] = held[r] \cup {m}]
      /\ mut' = [mut EXCEPT ![m] = Take(@, r)]
  BY DEF LockFree, LockHandedOver, GetsLock, Goto
<1>5. StackStep(r, x)
  <2>1. CASE LockFree(r)
    BY <1>3, <2>1 DEF LockFree, StackStep
  <2>2. CASE LockHandedOver(r)
    <3>1. pc[r] \notin RunLabels /\ CallerRuns /\ stack' = <<r>> \o stack
      BY <2>2 DEF LockHandedOver, Resumes, Dispatching, CallerRuns, RunLabels
    <3>2. QED
      BY <1>3, <3>1 DEF StackStep
  <2>3. QED
    BY <2>1, <2>2
<1>6. StackOK(pc', stack')
  BY <1>3, <1>4, <1>5, StackStepOK
<1>7. \/ ~mut[m].locked /\ pc[r] \notin WaitLabels /\ scheduled' = scheduled
      \/ scheduled # <<>> /\ Head(scheduled) = r /\ Waits(pc[r], m) /\ scheduled' = Tail(scheduled)
  <2>1. CASE LockFree(r)
    BY <2>1, LockLabels DEF LockFree, CanTake, WaitLabels
  <2>2. CASE LockHandedOver(r)
    BY <2>2, LockLabels DEF LockHandedOver, WaitLabels
  <2>3. QED
    BY <2>1, <2>2
<1> HIDE DEF m, x
<1>8. MutexesOK([pc EXCEPT ![r] = x], [held EXCEPT ![r] = @ \cup {m}],
                [mut EXCEPT ![m] = Take(@, r)], scheduled')
  BY <1>2, <1>3, <1>7, TakeOK DEF ControlInv
<1>9. MutexesOK(pc', held', mut', scheduled')
  BY <1>4, <1>8
<1>10. \A q \in Reqs : held'[q] \in HeldAt(pc'[q])
  BY <1>2, <1>4, HeldOthers
<1>11. QED
  BY <1>6, <1>9, <1>10 DEF ControlInv

LEMMA ControlBusy ==
  ASSUME ControlInv, NEW r \in Reqs, LockBusy(r)
  PROVE  ControlInv'
<1> DEFINE m == MutexOf(r)
           x == Blocked[pc[r]]
<1>1. pc[r] \in {"want1", "want2", "want2x"} /\ pc[r] \notin WaitLabels
  BY LockLabels DEF LockBusy, WaitLabels
<1>2. m \in {1, 2} /\ x \in WaitLabels /\ Waits(x, m) /\ held[r] \in HeldAt(x)
  BY <1>1, LockLabels DEF ControlInv
<1>3. x \in Labels /\ x \notin RunLabels
  BY <1>2 DEF Labels, WaitLabels, RunLabels
<1>4. /\ pc' = [pc EXCEPT ![r] = x] /\ held' = held /\ scheduled' = scheduled
      /\ mut' = [mut EXCEPT ![m] = Enqueue(@, r)] /\ mut[m].locked
      /\ Running(r) /\ stack' = Tail(stack)
  BY DEF LockBusy, Goto, CanTake, Suspends
<1> HIDE DEF m, x
<1>5. StackOK(pc', stack')
  BY <1>3, <1>4, StackStepOK DEF StackStep
<1>6. MutexesOK([pc EXCEPT ![r] = x], held, [mut EXCEPT ![m] = Enqueue(@, r)], scheduled)
  BY <1>1, <1>2, <1>4, EnqueueOK DEF ControlInv
<1>7. MutexesOK(pc', held', mut', scheduled')
  BY <1>4, <1>6
<1>8. \A q \in Reqs : held'[q] \in HeldAt(pc'[q])
  <2>1. held' = [held EXCEPT ![r] = held[r]]
    BY <1>4, ControlTypes
  <2>2. QED
    BY <1>2, <1>4, <2>1, HeldOthers
<1>9. QED
  BY <1>5, <1>7, <1>8 DEF ControlInv

LEMMA ControlCancel ==
  ASSUME ControlInv, ~CancelScheduled, NEW r \in Reqs, Cancel(r)
  PROVE  ControlInv'
<1>1. /\ pc' = [pc EXCEPT ![r] = "gone"] /\ stack' = stack
      /\ held' = [held EXCEPT ![r] = {}]
      /\ mut' = [m \in {1, 2} |-> Forget(IF m \in held[r] THEN Unlock(mut[m]) ELSE mut[m], r)]
      /\ scheduled' = scheduled \o (IF 2 \in held[r] THEN Woken(mut[2]) ELSE <<>>)
                                \o (IF 1 \in held[r] THEN Woken(mut[1]) ELSE <<>>)
      /\ ~Contains(scheduled, r)
      /\ pc[r] \in Suspended /\ CallerRuns
  BY DEF Cancel, Goto
<1>2. pc[r] \notin RunLabels /\ "gone" \in Labels /\ "gone" \notin RunLabels /\ "gone" \notin WaitLabels
  BY <1>1 DEF Suspended, RunLabels, Labels, WaitLabels
<1>3. StackOK(pc', stack')
  BY <1>1, <1>2, StackStepOK DEF StackStep
<1> DEFINE mu1 == [m \in {1, 2} |-> IF m \in held[r] THEN Unlock(mut[m]) ELSE mut[m]]
<1>4. held' = [held EXCEPT ![r] = @ \ held[r]]
  BY <1>1, ControlTypes
<1>5. MutexesOK(pc, held, mut, scheduled)
  BY DEF ControlInv
<1>d. mu1 = [m \in {1, 2} |-> IF m \in held[r] THEN Unlock(mut[m]) ELSE mut[m]]
  OBVIOUS
<1>8. mut' = [m \in {1, 2} |-> Forget(mu1[m], r)]
  BY <1>1
<1> HIDE DEF mu1
<1>6. /\ MutexesOK(pc, held', mu1, scheduled')
      /\ \A q : Contains(scheduled', q) => Contains(scheduled, q) \/ \E m \in held[r] : Waits(pc[q], m)
  <2> DEFINE ms == held[r]
  <2>1. /\ ms \in SUBSET held[r]
        /\ held' = [held EXCEPT ![r] = @ \ ms]
        /\ mu1 = [m \in {1, 2} |-> IF m \in ms THEN Unlock(mut[m]) ELSE mut[m]]
        /\ scheduled' = scheduled \o (IF 2 \in ms THEN Woken(mut[2]) ELSE <<>>)
                                  \o (IF 1 \in ms THEN Woken(mut[1]) ELSE <<>>)
    BY <1>1, <1>4, <1>d
  <2> HIDE DEF ms
  <2>2. MutexesOK(pc, held', mu1, scheduled')
    BY <1>5, <2>1, ReleaseOK
  <2>3. ASSUME NEW q, Contains(scheduled', q)
        PROVE  Contains(scheduled, q) \/ \E m \in ms : Waits(pc[q], m)
    <3>1. Contains(scheduled \o (IF 2 \in ms THEN Woken(mut[2]) ELSE <<>>)
                             \o (IF 1 \in ms THEN Woken(mut[1]) ELSE <<>>), q)
      BY <2>1, <2>3
    <3>2. ms \in SUBSET {1, 2}
      BY <2>1, ControlTypes
    <3>3. QED
      BY <1>5, <3>1, <3>2, ReleaseHas
  <2>4. QED
    BY <2>2, <2>3 DEF ms
<1>7. ~Contains(scheduled', r)
  <2>1. ASSUME NEW m \in held[r], Waits(pc[r], m) PROVE FALSE
    <3>1. m \in {1, 2} /\ held[r] \in HeldAt(pc[r])
      BY ControlTypes DEF ControlInv
    <3>2. QED
      BY <2>1, <3>1 DEF Waits, HeldAt
  <2>2. QED
    BY <1>1, <1>6, <2>1
<1>9. MutexesOK([pc EXCEPT ![r] = "gone"], held', [m \in {1, 2} |-> Forget(mu1[m], r)], scheduled')
  BY <1>2, <1>6, <1>7, ForgetOK
<1>10. MutexesOK(pc', held', mut', scheduled')
  BY <1>1, <1>8, <1>9
<1>11. \A q \in Reqs : held'[q] \in HeldAt(pc'[q])
  <2>1. {} \in HeldAt("gone")
    BY DEF HeldAt
  <2>2. QED
    BY <1>1, <2>1, HeldOthers
<1>12. QED
  BY <1>3, <1>10, <1>11 DEF ControlInv

\* The labels.
LEMMA LabelsAre ==
  /\ Labels \ WaitLabels = {"idle", "want1", "have1", "sending", "want2", "have2", "want2x",
       "have2x", "recreate", "mksock", "status", "body", "return", "done", "gone"}
  /\ \A x \in {"recreate", "mksock", "return"} : \A y \in {"recreate", "mksock", "return"} :
       HeldAt(x) = HeldAt(y)
  /\ HeldAt("idle") = HeldAt("want1")
  /\ HeldAt("have1") = HeldAt("want2x") /\ HeldAt("sending") = HeldAt("want2")
  /\ HeldAt("have2") = HeldAt("status") /\ HeldAt("status") = HeldAt("body")
  /\ HeldAt("status") \subseteq HeldAt("return") /\ HeldAt("have2x") \subseteq HeldAt("recreate")
  /\ {} \in HeldAt("done") /\ {} \in HeldAt("want2") /\ {2} \in HeldAt("status")
<1>1. Labels \ WaitLabels = {"idle", "want1", "have1", "sending", "want2", "have2", "want2x",
       "have2x", "recreate", "mksock", "status", "body", "return", "done", "gone"}
  BY DEF Labels, WaitLabels
<1>2. QED
  BY <1>1 DEF HeldAt

LEMMA ControlCall == ASSUME ControlInv, NEW r \in Reqs, Call(r) PROVE ControlInv'
<1>1. StackStep(r, "want1") /\ pc[r] \notin WaitLabels /\ Goto(r, "want1") /\ UNCHANGED locks
  BY DEF Call, StackStep, Resumes, RunLabels, WaitLabels, locks
<1>2. held[r] \in HeldAt("want1")
  BY LabelsAre DEF Call, ControlInv
<1>3. QED
  BY <1>1, <1>2, LabelsAre, ControlMove

\* The steps that go on running, by the label they go to.
LEMMA ControlGoesOn ==
  ASSUME ControlInv, NEW r \in Reqs,
         Exclusive(r) \/ NeedSocket(r) \/ GiveUp(r) \/ SendReturns(r)
  PROVE  ControlInv'
<1>1. CASE Exclusive(r)
  <2>1. StackStep(r, "want2x") /\ pc[r] \notin WaitLabels /\ Goto(r, "want2x") /\ UNCHANGED locks
    BY <1>1 DEF Exclusive, StackStep, RunLabels, WaitLabels, locks
  <2>2. held[r] \in HeldAt("want2x")
    BY <1>1, LabelsAre DEF Exclusive, ControlInv
  <2>3. QED
    BY <2>1, <2>2, LabelsAre, ControlMove
<1>2. CASE NeedSocket(r)
  <2>1. StackStep(r, "recreate") /\ pc[r] \notin WaitLabels /\ Goto(r, "recreate") /\ UNCHANGED locks
    BY <1>2 DEF NeedSocket, StackStep, RunLabels, WaitLabels, locks
  <2>2. held[r] \in HeldAt("recreate")
    BY <1>2, LabelsAre DEF NeedSocket, ControlInv
  <2>3. QED
    BY <2>1, <2>2, LabelsAre, ControlMove
<1>3. CASE GiveUp(r)
  <2>1. StackStep(r, "return") /\ pc[r] \notin WaitLabels /\ Goto(r, "return") /\ UNCHANGED locks
    BY <1>3 DEF GiveUp, Fail, Deliver, StackStep, RunLabels, WaitLabels, locks
  <2>2. held[r] \in HeldAt("return")
    BY <1>3, LabelsAre DEF GiveUp, ControlInv
  <2>3. QED
    BY <2>1, <2>2, LabelsAre, ControlMove
<1>4. CASE SendReturns(r)
  <2>1. StackStep(r, "want2") /\ pc[r] \notin WaitLabels /\ Goto(r, "want2") /\ UNCHANGED locks
    BY <1>4 DEF SendReturns, StackStep, RunLabels, WaitLabels, locks
  <2>2. held[r] \in HeldAt("want2")
    BY <1>4, LabelsAre DEF SendReturns, ControlInv
  <2>3. QED
    BY <2>1, <2>2, LabelsAre, ControlMove
<1>5. QED
  BY <1>1, <1>2, <1>3, <1>4

LEMMA ControlSuspends ==
  ASSUME ControlInv, NEW r \in Reqs, ReadTurn(r) \/ Connect(r)
  PROVE  ControlInv'
<1>1. CASE ReadTurn(r)
  <2>1. StackStep(r, "status") /\ pc[r] \notin WaitLabels /\ Goto(r, "status") /\ UNCHANGED locks
    BY <1>1 DEF ReadTurn, StackStep, Suspends, RunLabels, WaitLabels, locks
  <2>2. held[r] \in HeldAt("status")
    BY <1>1, LabelsAre DEF ReadTurn, ControlInv
  <2>3. QED
    BY <2>1, <2>2, LabelsAre, ControlMove
<1>2. CASE Connect(r)
  <2>1. StackStep(r, "mksock") /\ pc[r] \notin WaitLabels /\ Goto(r, "mksock") /\ UNCHANGED locks
    BY <1>2 DEF Connect, StackStep, Suspends, RunLabels, WaitLabels, locks
  <2>2. held[r] \in HeldAt("mksock")
    BY <1>2, LabelsAre DEF Connect, ControlInv
  <2>3. QED
    BY <2>1, <2>2, LabelsAre, ControlMove
<1>3. QED
  BY <1>1, <1>2

\* What the run loop resumes.
LEMMA ControlResumed ==
  ASSUME ControlInv, NEW r \in Reqs,
         \/ ConnectFails(r) \/ ReadHead(r) \/ ReadBody(r) \/ Reject(r)
         \/ LostBeforeStatus(r) \/ LostInHeaders(r) \/ LostInBody(r)
  PROVE  ControlInv'
<1>1. CASE ReadHead(r)
  <2>1. StackStep(r, "body") /\ pc[r] \notin WaitLabels /\ Goto(r, "body") /\ UNCHANGED locks
    BY <1>1 DEF ReadHead, StackStep, Dispatching, CallerRuns, RunLabels, WaitLabels, locks
  <2>2. held[r] \in HeldAt("body")
    BY <1>1, LabelsAre DEF ReadHead, ControlInv
  <2>3. QED
    BY <2>1, <2>2, LabelsAre, ControlMove
<1>2. CASE LostBeforeStatus(r)
  <2>1. StackStep(r, "recreate") /\ pc[r] \notin WaitLabels /\ Goto(r, "recreate") /\ UNCHANGED locks
    BY <1>2
    DEF LostBeforeStatus, ReadFails, StackStep, Dispatching, CallerRuns, Resumes, RunLabels,
        WaitLabels, locks
  <2>2. held[r] \in HeldAt("recreate")
    BY <1>2, LabelsAre DEF LostBeforeStatus, ControlInv
  <2>3. QED
    BY <2>1, <2>2, LabelsAre, ControlMove
<1>3. CASE ConnectFails(r) \/ ReadBody(r) \/ Reject(r) \/ LostInHeaders(r) \/ LostInBody(r)
  <2>1. /\ pc[r] \in {"mksock", "status", "body"} /\ Goto(r, "return")
        /\ \/ Dispatching /\ Resumes(r)
           \/ Running(r) /\ UNCHANGED stack
        /\ UNCHANGED locks
    BY <1>3
    DEF ConnectFails, ReadBody, Reject, LostInHeaders, LostInBody, ReadFails, Fail, Deliver, locks
  <2>2. StackStep(r, "return") /\ pc[r] \notin WaitLabels
    BY <2>1 DEF StackStep, Dispatching, CallerRuns, Resumes, RunLabels, WaitLabels
  <2>3. held[r] \in HeldAt("return")
    BY <2>1, LabelsAre DEF ControlInv
  <2>4. QED
    BY <2>1, <2>2, <2>3, LabelsAre, ControlMove
<1>4. QED
  BY <1>1, <1>2, <1>3

\* The steps that release locks.
LEMMA ControlReleases ==
  ASSUME ControlInv, NEW r \in Reqs,
         Pipeline(r) \/ ReuseSocket(r) \/ Connected(r) \/ Return(r)
  PROVE  ControlInv'
<1>0. held[r] \in HeldAt(pc[r])
  BY DEF ControlInv
<1>1. CASE Pipeline(r)
  <2>1. PICK x \in {"want2", "sending"} :
          StackStep(r, x) /\ pc[r] \notin WaitLabels /\ Goto(r, x) /\ ReleaseLocks(r, {1})
    BY <1>1 DEF Pipeline, StackStep, Resumes, RunLabels, WaitLabels
  <2>2. held[r] = {1}
    BY <1>0, <1>1 DEF Pipeline, HeldAt
  <2>3. {1} \in SUBSET held[r] /\ held[r] \ {1} \in HeldAt(x)
    BY <2>2 DEF HeldAt
  <2>4. QED
    BY <2>1, <2>3, LabelsAre, ControlRelease
<1>2. CASE ReuseSocket(r)
  <2>1. StackStep(r, "status") /\ pc[r] \notin WaitLabels /\ Goto(r, "status") /\ ReleaseLocks(r, {1})
    BY <1>2 DEF ReuseSocket, StackStep, Suspends, RunLabels, WaitLabels
  <2>2. held[r] = {1, 2}
    BY <1>0, <1>2 DEF ReuseSocket, HeldAt
  <2>3. {1} \in SUBSET held[r] /\ held[r] \ {1} \in HeldAt("status")
    BY <2>2 DEF HeldAt
  <2>4. QED
    BY <2>1, <2>3, LabelsAre, ControlRelease
<1>3. CASE Connected(r)
  <2>1. /\ StackStep(r, "status") /\ pc[r] \notin WaitLabels /\ Goto(r, "status")
        /\ ReleaseLocks(r, held[r] \ {2})
    BY <1>3 DEF Connected, Dispatching, CallerRuns, StackStep, RunLabels, WaitLabels
  <2>2. held[r] = {2} \/ held[r] = {1, 2}
    BY <1>0, <1>3 DEF Connected, HeldAt
  <2>3. held[r] \ {2} \in SUBSET held[r] /\ held[r] \ (held[r] \ {2}) \in HeldAt("status")
    BY <2>2 DEF HeldAt
  <2>4. QED
    BY <2>1, <2>3, LabelsAre, ControlRelease
<1>4. CASE Return(r)
  <2>1. StackStep(r, "done") /\ pc[r] \notin WaitLabels /\ Goto(r, "done") /\ ReleaseLocks(r, held[r])
    BY <1>4 DEF Return, StackStep, Suspends, RunLabels, WaitLabels
  <2>2. held[r] \in SUBSET held[r] /\ held[r] \ held[r] \in HeldAt("done")
    BY DEF HeldAt
  <2>3. QED
    BY <2>1, <2>2, LabelsAre, ControlRelease
<1>5. QED
  BY <1>1, <1>2, <1>3, <1>4

LEMMA ControlQuiet ==
  ASSUME ControlInv, UNCHANGED <<pc, locks, stack>>
  PROVE  ControlInv'
BY DEF ControlInv, locks

LEMMA ControlInit == Init => ControlInv
<1> SUFFICES ASSUME Init PROVE ControlInv
  OBVIOUS
<1>1. Unlocked \in MutexValue /\ Unlocked.waiters = <<>> /\ Unlocked.locked = FALSE
  BY DEF Unlocked, MutexValue, MutexOver
<1>2. mut \in [{1, 2} -> MutexValue] /\ mut[1] = Unlocked /\ mut[2] = Unlocked
  BY <1>1, Pair DEF Init
<1>3. MutexTypes(pc, held, mut, scheduled)
  BY <1>2 DEF Init, MutexTypes, Labels
<1>4. WaitersWait(pc, mut)
  BY <1>1, <1>2 DEF WaitersWait, Distinct
<1>5. ScheduledOnce(pc, held, mut, scheduled)
  BY DEF Init, ScheduledOnce, Distinct
<1>6. HeldIsLocked(held, mut) /\ LockHasKeeper(pc, held, mut, scheduled) /\ OneHolder(held)
  BY <1>1, <1>2 DEF Init, HeldIsLocked, LockHasKeeper, OneHolder, Free
<1>7. StackOK(pc, stack)
  BY DEF Init, StackOK, Distinct, RunLabels
<1>8. \A r \in Reqs : held[r] \in HeldAt(pc[r])
  BY DEF Init, HeldAt
<1>9. QED
  BY <1>3, <1>4, <1>5, <1>6, <1>7, <1>8 DEF ControlInv, MutexesOK

LEMMA ControlNext == ~CancelScheduled /\ ControlInv /\ [Next]_vars => ControlInv'
<1> SUFFICES ASSUME ~CancelScheduled, ControlInv, [Next]_vars PROVE ControlInv'
  OBVIOUS
<1>1. ASSUME NEW r \in Reqs, Call(r) PROVE ControlInv'
  BY <1>1, ControlCall
<1>2. ASSUME NEW r \in Reqs, Step(r) PROVE ControlInv'
  BY <1>2, ControlTake, ControlBusy, ControlGoesOn, ControlSuspends, ControlResumed, ControlReleases
  DEF Step
<1>3. ASSUME NEW r \in Reqs, Cancel(r) PROVE ControlInv'
  BY <1>3, ControlCancel
<1>4. CASE KeepaliveExpires \/ ServerSends \/ ServerCloses \/ UNCHANGED vars
  <2>1. UNCHANGED <<pc, locks, stack>>
    BY <1>4 DEF KeepaliveExpires, ServerSends, ServerCloses, vars, locks
  <2>2. QED
    BY <2>1, ControlQuiet
<1>5. QED
  BY <1>1, <1>2, <1>3, <1>4 DEF Next

-----------------------------------------------------------------------------
(* The locals of a request.                                                *)

LocalsOK ==
  /\ can_retry \in [Reqs -> BOOLEAN]
  /\ last_gen \in [Reqs -> Nat] /\ recv_expect \in [Reqs -> Nat]
  /\ from \in [Reqs -> Reqs \cup {None}]
  /\ result \in [Reqs -> Reqs \cup Errors \cup {None}]
  /\ sends \in [Reqs -> Nat]

SocketOK ==
  /\ sock \in BOOLEAN /\ keepalive \in BOOLEAN /\ server_open \in BOOLEAN
  /\ sock_generation \in 0 .. MaxSockets
  /\ sock_sent \in Nat /\ sock_received \in Nat
  /\ Origin \in Origins
  /\ sock_origin \in {Origin[r] : r \in Reqs} \cup {None}
  /\ wire \in Seq(Reqs \X {"head", "body"}) /\ inbox \in Seq(Reqs \X {"head", "body"})

TypesOK == ControlInv /\ LocalsOK /\ SocketOK /\ pending \in Seq(Reqs)

\* A request that has not been sent; one that may be sent again was sent at most once.
Fresh == {"idle", "want1", "wait1", "have1", "want2x", "wait2x", "have2x"}

RetryAt(r) ==
  /\ pc[r] \in Fresh => sends[r] = 0 /\ can_retry[r] /\ last_gen[r] = 0
  /\ can_retry[r] => sends[r] <= IF Method[r] = "GET" THEN 1 ELSE 0
  /\ ~can_retry[r] => sends[r] <= IF Method[r] = "GET" THEN 2 ELSE 1
  /\ pc[r] = "mksock" => can_retry[r]
  /\ pc[r] = "body" => from[r] \in Reqs
  /\ result[r] # None => pc[r] \in {"return", "done"}
  /\ result[r] = "e_connect" => can_retry[r]

RetryInv == \A r \in Reqs : RetryAt(r)

\* Nothing of a request q but r changes.
OthersStay(r) ==
  \A q \in Reqs \ {r} :
    /\ pc'[q] = pc[q] /\ can_retry'[q] = can_retry[q] /\ sends'[q] = sends[q]
    /\ last_gen'[q] = last_gen[q] /\ recv_expect'[q] = recv_expect[q]
    /\ from'[q] = from[q] /\ result'[q] = result[q]

LEMMA RetryOthers ==
  ASSUME RetryInv, NEW r \in Reqs, OthersStay(r), RetryAt(r)'
  PROVE  RetryInv'
BY DEF RetryInv, RetryAt, OthersStay

\* The steps that change no local of a request, and answer none.
Silent(r) ==
  \/ Call(r) \/ LockFree(r) \/ LockBusy(r) \/ LockHandedOver(r) \/ SendReturns(r) \/ Exclusive(r)
  \/ ReadTurn(r) \/ NeedSocket(r) \/ Connect(r) \/ LostBeforeStatus(r) \/ Return(r) \/ Cancel(r)

LEMMA SilentIs ==
  ASSUME TypesOK, RetryInv, NEW r \in Reqs, Silent(r)
  PROVE  /\ UNCHANGED <<locals, result>>
         /\ \E x \in Labels :
              /\ pc' = [pc EXCEPT ![r] = x]
              /\ x \in Fresh => pc[r] \in Fresh
              /\ x = "mksock" => can_retry[r]
              /\ x \notin {"body", "sending"}
              /\ pc[r] \in {"return", "done"} => x \in {"return", "done"}
<1>1. UNCHANGED <<locals, result>>
  BY DEF Silent, Call, LockFree, LockBusy, LockHandedOver, SendReturns, Exclusive, ReadTurn,
         NeedSocket, Connect, LostBeforeStatus, Return, Cancel, answers
<1>2. CASE LockFree(r) \/ LockHandedOver(r)
  <2>1. pc' = [pc EXCEPT ![r] = Got[pc[r]]]
    BY <1>2 DEF LockFree, LockHandedOver, GetsLock, Goto
  <2>2. pc[r] \in {"want1", "want2", "want2x"} \cup WaitLabels
    BY <1>2, LockLabels DEF LockFree, LockHandedOver, WaitLabels
  <2>3. Got[pc[r]] \in {"have1", "have2", "have2x"}
    BY <2>2, LockLabels
  <2>4. Got[pc[r]] \in Fresh => pc[r] \in Fresh
    <3>1. Got["want2"] = "have2" /\ Got["wait2"] = "have2"
      BY DEF Got
    <3>2. QED
      BY <2>2, <3>1 DEF Fresh, WaitLabels
  <2>5. QED
    BY <1>1, <2>1, <2>2, <2>3, <2>4 DEF Labels, WaitLabels
<1>3. CASE LockBusy(r)
  <2>1. pc' = [pc EXCEPT ![r] = Blocked[pc[r]]] /\ pc[r] \in {"want1", "want2", "want2x"}
    BY <1>3, LockLabels DEF LockBusy, Goto
  <2>2. Blocked[pc[r]] \in WaitLabels
    BY <2>1, LockLabels
  <2>3. Blocked[pc[r]] \in Fresh => pc[r] \in Fresh
    <3>1. Blocked["want2"] = "wait2"
      BY DEF Blocked
    <3>2. QED
      BY <2>1, <3>1 DEF Fresh
  <2>4. QED
    BY <1>1, <2>1, <2>2, <2>3 DEF Labels, WaitLabels
<1>4. CASE Call(r) \/ SendReturns(r) \/ Exclusive(r)
  BY <1>1, <1>4 DEF Call, SendReturns, Exclusive, Goto, Labels, Fresh
<1>5. CASE ReadTurn(r) \/ NeedSocket(r) \/ LostBeforeStatus(r)
  BY <1>1, <1>5 DEF ReadTurn, NeedSocket, LostBeforeStatus, Goto, Labels, Fresh
<1>6. CASE Connect(r) \/ Return(r) \/ Cancel(r)
  BY <1>1, <1>6 DEF Connect, Return, Cancel, Goto, Labels, Fresh, Suspended
<1>7. QED
  BY <1>2, <1>3, <1>4, <1>5, <1>6 DEF Silent

LEMMA SilentRetry ==
  ASSUME TypesOK, RetryInv, NEW r \in Reqs, Silent(r)
  PROVE  RetryInv' /\ OthersStay(r) /\ LocalsOK'
<1>1. /\ can_retry' = can_retry /\ sends' = sends /\ last_gen' = last_gen
      /\ recv_expect' = recv_expect /\ from' = from /\ result' = result
  BY SilentIs DEF locals
<1>2. PICK x \in Labels : /\ pc' = [pc EXCEPT ![r] = x]
                          /\ x \in Fresh => pc[r] \in Fresh
                          /\ x = "mksock" => can_retry[r]
                          /\ x # "body"
                          /\ pc[r] \in {"return", "done"} => x \in {"return", "done"}
  BY SilentIs
<1>3. pc'[r] = x /\ \A q \in Reqs \ {r} : pc'[q] = pc[q]
  BY <1>2, ControlTypes DEF TypesOK
<1>4. OthersStay(r)
  BY <1>1, <1>3 DEF OthersStay
<1>5. RetryAt(r)'
  BY <1>1, <1>2, <1>3 DEF RetryInv, RetryAt
<1>6. LocalsOK'
  BY <1>1 DEF TypesOK, LocalsOK
<1>7. QED
  BY <1>4, <1>5, <1>6, RetryOthers

\* The steps that answer a request.
Answers(r) ==
  \/ GiveUp(r) \/ ConnectFails(r) \/ ReadBody(r) \/ Reject(r) \/ LostInHeaders(r) \/ LostInBody(r)

\* Its answer: an error, or the response whose head it has read.
LEMMA AnswersIs ==
  ASSUME TypesOK, RetryInv, NEW r \in Reqs, Answers(r)
  PROVE  /\ UNCHANGED locals
         /\ pc' = [pc EXCEPT ![r] = "return"]
         /\ \E a : /\ result' = [result EXCEPT ![r] = a]
                   /\ \/ a \in Errors /\ (a = "e_connect" => can_retry[r])
                      \/ pc[r] = "body" /\ a = from[r]
<1>1. UNCHANGED locals /\ pc' = [pc EXCEPT ![r] = "return"]
  BY DEF Answers, GiveUp, ConnectFails, ReadBody, Reject, LostInHeaders, LostInBody, Fail,
         Deliver, Goto
<1>2. CASE GiveUp(r)
  <2>1. \/ result' = [result EXCEPT ![r] = "e_bad_url"]
        \/ result' = [result EXCEPT ![r] = "e_broken"]
    BY <1>2 DEF GiveUp, Fail, Deliver
  <2>2. QED
    BY <1>1, <2>1 DEF Errors
<1>3. CASE ConnectFails(r)
  BY <1>1, <1>3 DEF ConnectFails, Fail, Deliver, Errors, RetryInv, RetryAt
<1>4. CASE Reject(r) \/ LostInHeaders(r)
  BY <1>1, <1>4 DEF Reject, LostInHeaders, Fail, Deliver, Errors
<1>5. CASE ReadBody(r) \/ LostInBody(r)
  BY <1>1, <1>5 DEF ReadBody, LostInBody, Deliver
<1>6. QED
  BY <1>2, <1>3, <1>4, <1>5 DEF Answers

LEMMA AnswersRetry ==
  ASSUME TypesOK, RetryInv, NEW r \in Reqs, Answers(r)
  PROVE  RetryInv' /\ OthersStay(r) /\ LocalsOK'
<1>1. /\ can_retry' = can_retry /\ sends' = sends /\ last_gen' = last_gen
      /\ recv_expect' = recv_expect /\ from' = from
      /\ pc' = [pc EXCEPT ![r] = "return"]
  BY AnswersIs DEF locals
<1>2. PICK a : /\ result' = [result EXCEPT ![r] = a]
               /\ \/ a \in Errors /\ (a = "e_connect" => can_retry[r])
                  \/ pc[r] = "body" /\ a = from[r]
  BY AnswersIs
<1>3. a \in Reqs \cup Errors /\ (a = "e_connect" => can_retry[r])
  <2>1. pc[r] = "body" => from[r] \in Reqs
    BY DEF RetryInv, RetryAt
  <2>2. "e_connect" \notin Reqs
    BY HttpAssumption DEF Errors
  <2>3. QED
    BY <1>2, <2>1, <2>2
<1>4. pc'[r] = "return" /\ \A q \in Reqs \ {r} : pc'[q] = pc[q]
  BY <1>1, ControlTypes DEF TypesOK
<1>5. result'[r] = a /\ \A q \in Reqs \ {r} : result'[q] = result[q]
  BY <1>2 DEF TypesOK, LocalsOK
<1>6. OthersStay(r)
  BY <1>1, <1>4, <1>5 DEF OthersStay
<1>7. RetryAt(r)'
  BY <1>1, <1>3, <1>4, <1>5 DEF RetryInv, RetryAt, Fresh
<1>8. LocalsOK'
  BY <1>1, <1>2, <1>3 DEF TypesOK, LocalsOK
<1>9. QED
  BY <1>6, <1>7, <1>8, RetryOthers

\* The steps that send a request.
Transmits(r) == Pipeline(r) \/ ReuseSocket(r) \/ Connected(r)

LEMMA TransmitsIs ==
  ASSUME TypesOK, NEW r \in Reqs, Transmits(r)
  PROVE  /\ sends' = [sends EXCEPT ![r] = @ + 1]
         /\ from' = from /\ result' = result
         /\ last_gen' = [last_gen EXCEPT ![r] = sock_generation']
         /\ recv_expect' = [recv_expect EXCEPT ![r] = sock_sent' - 1]
         /\ sock_generation' \in 0 .. MaxSockets /\ sock_sent' \in Nat /\ sock_sent' > 0
         /\ \/ /\ pc[r] = "have1" /\ \E x \in {"want2", "sending"} : pc' = [pc EXCEPT ![r] = x]
               /\ Method[r] = "GET" /\ can_retry' = can_retry
            \/ /\ pc[r] \in {"have2x", "mksock"} /\ pc' = [pc EXCEPT ![r] = "status"]
               /\ can_retry' = [can_retry EXCEPT ![r] = FALSE]
<1>1. sock_generation \in 0 .. MaxSockets /\ sock_sent \in Nat /\ MaxSockets \in Nat
  BY HttpAssumption DEF TypesOK, SocketOK
<1>2. CASE Pipeline(r)
  BY <1>1, <1>2 DEF Pipeline, Transmit, Goto, CanPipeline, answers
<1>3. CASE ReuseSocket(r)
  BY <1>1, <1>3 DEF ReuseSocket, Transmit, Goto, NoRetry, answers
<1>4. CASE Connected(r)
  BY <1>1, <1>4 DEF Connected, Transmit, NewSocket, Goto, NoRetry, answers
<1>5. QED
  BY <1>2, <1>3, <1>4 DEF Transmits

LEMMA TransmitsRetry ==
  ASSUME TypesOK, RetryInv, NEW r \in Reqs, Transmits(r)
  PROVE  RetryInv' /\ OthersStay(r) /\ LocalsOK'
<1>1. /\ sends' = [sends EXCEPT ![r] = @ + 1]
      /\ from' = from /\ result' = result
      /\ last_gen' = [last_gen EXCEPT ![r] = sock_generation']
      /\ recv_expect' = [recv_expect EXCEPT ![r] = sock_sent' - 1]
      /\ sock_generation' \in Nat /\ sock_sent' - 1 \in Nat
  BY TransmitsIs, HttpAssumption
<1>2. \/ /\ pc[r] = "have1" /\ \E x \in {"want2", "sending"} : pc' = [pc EXCEPT ![r] = x]
         /\ Method[r] = "GET" /\ can_retry' = can_retry
      \/ /\ pc[r] \in {"have2x", "mksock"} /\ pc' = [pc EXCEPT ![r] = "status"]
         /\ can_retry' = [can_retry EXCEPT ![r] = FALSE]
  BY TransmitsIs
<1>3. OthersStay(r)
  <2>1. pc \in [Reqs -> Labels]
    BY ControlTypes DEF TypesOK
  <2>2. \A q \in Reqs \ {r} : pc'[q] = pc[q] /\ can_retry'[q] = can_retry[q]
    BY <1>2, <2>1 DEF TypesOK, LocalsOK
  <2>3. \A q \in Reqs \ {r} : sends'[q] = sends[q] /\ last_gen'[q] = last_gen[q]
                            /\ recv_expect'[q] = recv_expect[q]
    BY <1>1 DEF TypesOK, LocalsOK
  <2>4. QED
    BY <1>1, <2>2, <2>3 DEF OthersStay
<1>4. LocalsOK'
  <2>1. can_retry' \in [Reqs -> BOOLEAN]
    BY <1>2 DEF TypesOK, LocalsOK
  <2>2. /\ sends' \in [Reqs -> Nat] /\ last_gen' \in [Reqs -> Nat]
        /\ recv_expect' \in [Reqs -> Nat]
    BY <1>1 DEF TypesOK, LocalsOK
  <2>3. QED
    BY <1>1, <2>1, <2>2 DEF TypesOK, LocalsOK
<1>5. /\ sends'[r] = sends[r] + 1 /\ sends[r] \in Nat /\ result'[r] = result[r]
      /\ from'[r] = from[r]
      /\ \/ /\ pc[r] = "have1" /\ pc'[r] \in {"want2", "sending"}
            /\ Method[r] = "GET" /\ can_retry'[r] = can_retry[r]
         \/ pc[r] \in {"have2x", "mksock"} /\ pc'[r] = "status" /\ can_retry'[r] = FALSE
  <2>1. pc \in [Reqs -> Labels]
    BY ControlTypes DEF TypesOK
  <2>2. QED
    BY <1>1, <1>2, <2>1 DEF TypesOK, LocalsOK
<1>6. RetryAt(r)'
  <2>1. RetryAt(r)
    BY DEF RetryInv
  <2>2. CASE /\ pc[r] = "have1" /\ pc'[r] \in {"want2", "sending"}
             /\ Method[r] = "GET" /\ can_retry'[r] = can_retry[r]
    <3>1. sends[r] = 0 /\ result[r] = None /\ can_retry[r]
      BY <2>1, <2>2 DEF RetryAt, Fresh
    <3>2. "e_connect" # None
      BY DEF None
    <3>3. QED
      BY <1>5, <2>2, <3>1, <3>2 DEF RetryAt, Fresh
  <2>3. CASE pc[r] \in {"have2x", "mksock"} /\ pc'[r] = "status" /\ can_retry'[r] = FALSE
    <3>1. result[r] = None /\ can_retry[r]
      BY <2>1, <2>3 DEF RetryAt, Fresh
    <3>2. sends[r] <= IF Method[r] = "GET" THEN 1 ELSE 0
      BY <2>1, <3>1 DEF RetryAt
    <3>3. "e_connect" # None
      BY DEF None
    <3>4. QED
      BY <1>5, <2>3, <3>1, <3>2, <3>3 DEF RetryAt, Fresh
  <2>4. QED
    BY <1>5, <2>2, <2>3
<1>7. QED
  BY <1>3, <1>4, <1>6, RetryOthers

LEMMA ReadHeadRetry ==
  ASSUME TypesOK, RetryInv, NEW r \in Reqs, ReadHead(r)
  PROVE  /\ RetryInv' /\ OthersStay(r) /\ LocalsOK'
         /\ from'[r] = Head(inbox)[1] /\ pc'[r] = "body" /\ can_retry'[r] = can_retry[r]
<1>1. /\ can_retry' = can_retry /\ sends' = sends /\ last_gen' = last_gen
      /\ recv_expect' = recv_expect /\ result' = result
      /\ from' = [from EXCEPT ![r] = Head(inbox)[1]]
      /\ pc' = [pc EXCEPT ![r] = "body"] /\ pc[r] = "status" /\ inbox # <<>>
  BY DEF ReadHead, answers, Goto
<1>2. Head(inbox)[1] \in Reqs
  <2>1. inbox \in Seq(Reqs \X {"head", "body"})
    BY DEF TypesOK, SocketOK
  <2>2. Head(inbox) \in Reqs \X {"head", "body"}
    BY <1>1, <2>1
  <2>3. QED
    BY <2>2
<1>3. /\ from'[r] = Head(inbox)[1] /\ pc'[r] = "body"
      /\ \A q \in Reqs \ {r} : from'[q] = from[q] /\ pc'[q] = pc[q]
  BY <1>1, ControlTypes DEF TypesOK, LocalsOK
<1>4. OthersStay(r)
  BY <1>1, <1>3 DEF OthersStay
<1>5. LocalsOK'
  BY <1>1, <1>2 DEF TypesOK, LocalsOK
<1>6. RetryAt(r)'
  BY <1>1, <1>2, <1>3 DEF RetryInv, RetryAt, Fresh
<1>7. QED
  BY <1>1, <1>3, <1>4, <1>5, <1>6, RetryOthers

-----------------------------------------------------------------------------
(* What is on its way on a connection.                                     *)

Unit == Reqs \X {"head", "body"}

\* x is unit number t of the connection, where pl says as what number each request was
\* sent on it, from 1, and is 0 for those that were not.
IsUnit(x, t, pl) ==
  /\ pl[x[1]] > 0
  /\ \/ x[2] = "head" /\ t + 2 = 2 * pl[x[1]]
     \/ x[2] = "body" /\ t + 1 = 2 * pl[x[1]]

\* s is the connection's units from number t on.
Units(s, t, pl) == \A j \in 1 .. Len(s) : IsUnit(s[j], t + j - 1, pl)

\* Of a connection that is in use, with n requests sent and k responses received, ib
\* has arrived and w has not, and if a head was read the next unit is a body.
Aligned(pl, n, k, w, ib, open, h) ==
  /\ Units(ib, 2 * k + h, pl)
  /\ Units(w, 2 * k + h + Len(ib), pl)
  /\ 2 * k + h + Len(ib) + Len(w) <= 2 * n
  /\ open => 2 * k + h + Len(ib) + Len(w) = 2 * n

WireOK(pl, sk, n, k, w, ib, open, reading) ==
  /\ sk => \E h \in {0, 1} : (reading => h = 1) /\ Aligned(pl, n, k, w, ib, open, h)
  /\ reading => k < n
  /\ k <= n
  /\ sk => \A r \in Reqs : pl[r] <= n
  /\ sk => \A r, q \in Reqs : pl[r] = pl[q] /\ pl[r] # 0 => r = q

LEMMA UnitsTail ==
  ASSUME NEW s \in Seq(Unit), s # <<>>, NEW t \in Nat, NEW pl \in [Reqs -> Nat], Units(s, t, pl)
  PROVE  /\ Head(s) \in Unit /\ IsUnit(Head(s), t, pl)
         /\ Tail(s) \in Seq(Unit) /\ Units(Tail(s), t + 1, pl) /\ Len(s) = 1 + Len(Tail(s))
<1>1. /\ Head(s) = s[1] /\ 1 \in 1 .. Len(s) /\ Head(s) \in Unit
      /\ Tail(s) \in Seq(Unit) /\ Len(s) = 1 + Len(Tail(s)) /\ Len(Tail(s)) \in Nat
      /\ \A j \in 1 .. Len(Tail(s)) : Tail(s)[j] = s[j + 1] /\ j + 1 \in 1 .. Len(s)
  OBVIOUS
<1>2. IsUnit(Head(s), t, pl)
  <2>1. IsUnit(s[1], t + 1 - 1, pl)
    BY <1>1 DEF Units
  <2>2. t + 1 - 1 = t
    OBVIOUS
  <2>3. QED
    BY <1>1, <2>1, <2>2
<1>3. ASSUME NEW j \in 1 .. Len(Tail(s))
      PROVE  IsUnit(Tail(s)[j], t + 1 + j - 1, pl)
  <2>1. IsUnit(s[j + 1], t + (j + 1) - 1, pl)
    BY <1>1 DEF Units
  <2>2. t + (j + 1) - 1 = t + 1 + j - 1
    BY <1>1
  <2>3. QED
    BY <1>1, <2>1, <2>2
<1>4. QED
  BY <1>1, <1>2, <1>3 DEF Units

LEMMA UnitsAppend ==
  ASSUME NEW s \in Seq(Unit), NEW t \in Nat, NEW pl \in [Reqs -> Nat], Units(s, t, pl),
         NEW x \in Unit, IsUnit(x, t + Len(s), pl)
  PROVE  /\ Append(s, x) \in Seq(Unit) /\ Units(Append(s, x), t, pl)
         /\ Len(Append(s, x)) = Len(s) + 1
<1>1. /\ Append(s, x) \in Seq(Unit) /\ Len(Append(s, x)) = Len(s) + 1 /\ Len(s) \in Nat
      /\ \A j \in 1 .. Len(s) : Append(s, x)[j] = s[j]
      /\ Append(s, x)[Len(s) + 1] = x
  OBVIOUS
<1>2. ASSUME NEW j \in 1 .. Len(s) + 1
      PROVE  IsUnit(Append(s, x)[j], t + j - 1, pl)
  <2>1. CASE j \in 1 .. Len(s)
    BY <1>1, <2>1 DEF Units
  <2>2. CASE j = Len(s) + 1
    <3>1. t + j - 1 = t + Len(s)
      BY <1>1, <2>2
    <3>2. QED
      BY <1>1, <2>2, <3>1
  <2>3. QED
    BY <1>1, <2>1, <2>2
<1>3. QED
  BY <1>1, <1>2 DEF Units

\* A request that is on no unit of s may get a place.
LEMMA UnitsPlace ==
  ASSUME NEW s \in Seq(Unit), NEW t \in Nat, NEW pl \in [Reqs -> Nat], Units(s, t, pl),
         NEW r \in Reqs, pl[r] = 0, NEW n \in Nat
  PROVE  Units(s, t, [pl EXCEPT ![r] = n])
<1>1. ASSUME NEW j \in 1 .. Len(s)
      PROVE  IsUnit(s[j], t + j - 1, [pl EXCEPT ![r] = n])
  <2>1. s[j] \in Unit /\ IsUnit(s[j], t + j - 1, pl)
    BY DEF Units
  <2>2. s[j][1] \in Reqs /\ pl[s[j][1]] > 0
    BY <2>1 DEF IsUnit, Unit
  <2>3. [pl EXCEPT ![r] = n][s[j][1]] = pl[s[j][1]]
    BY <2>2
  <2>4. QED
    BY <2>1, <2>3 DEF IsUnit
<1>2. QED
  BY <1>1 DEF Units

\* The next unit is a head: it is that of the request whose turn it is.
LEMMA WireHead ==
  ASSUME NEW pl \in [Reqs -> Nat], NEW n \in Nat, NEW k \in Nat, NEW w \in Seq(Unit),
         NEW ib \in Seq(Unit), NEW open \in BOOLEAN,
         WireOK(pl, TRUE, n, k, w, ib, open, FALSE), ib # <<>>, Head(ib)[2] = "head"
  PROVE  /\ Head(ib)[1] \in Reqs /\ pl[Head(ib)[1]] = k + 1
         /\ WireOK(pl, TRUE, n, k, w, Tail(ib), open, TRUE)
<1>1. PICK h \in {0, 1} : Aligned(pl, n, k, w, ib, open, h)
  BY DEF WireOK
<1>2. 2 * k + h \in Nat
  OBVIOUS
<1>3. /\ Head(ib) \in Unit /\ IsUnit(Head(ib), 2 * k + h, pl) /\ Len(ib) = 1 + Len(Tail(ib))
      /\ Tail(ib) \in Seq(Unit) /\ Units(Tail(ib), 2 * k + h + 1, pl)
  BY <1>1, <1>2, UnitsTail DEF Aligned
<1>4. Head(ib)[1] \in Reqs /\ pl[Head(ib)[1]] \in Nat
  BY <1>3 DEF Unit
<1>5. 2 * k + h + 2 = 2 * pl[Head(ib)[1]]
  <2>1. "head" # "body"
    OBVIOUS
  <2>2. QED
    BY <1>3 DEF IsUnit
<1>6. h = 0 /\ pl[Head(ib)[1]] = k + 1
  BY <1>4, <1>5
<1>7. k < n
  BY <1>4, <1>6 DEF WireOK
<1>8. Aligned(pl, n, k, w, Tail(ib), open, 1)
  <2>1. Len(Tail(ib)) \in Nat /\ Len(w) \in Nat /\ Len(ib) \in Nat
    BY <1>3
  <2>2. 2 * k + h + 1 = 2 * k + 1 /\ 2 * k + 1 + Len(Tail(ib)) = 2 * k + h + Len(ib)
    BY <1>3, <1>6, <2>1
  <2>3. QED
    BY <1>1, <1>3, <2>2 DEF Aligned
<1>9. QED
  BY <1>4, <1>6, <1>7, <1>8 DEF WireOK

\* The body is read.
LEMMA WireBody ==
  ASSUME NEW pl \in [Reqs -> Nat], NEW n \in Nat, NEW k \in Nat, NEW w \in Seq(Unit),
         NEW ib \in Seq(Unit), NEW open \in BOOLEAN,
         WireOK(pl, TRUE, n, k, w, ib, open, TRUE), ib # <<>>
  PROVE  WireOK(pl, TRUE, n, k + 1, w, Tail(ib), open, FALSE)
<1>1. Aligned(pl, n, k, w, ib, open, 1)
  BY DEF WireOK
<1>2. /\ Len(ib) = 1 + Len(Tail(ib))
      /\ Tail(ib) \in Seq(Unit) /\ Units(Tail(ib), 2 * k + 1 + 1, pl)
  <2>1. 2 * k + 1 \in Nat /\ Units(ib, 2 * k + 1, pl)
    BY <1>1 DEF Aligned
  <2>2. QED
    BY <2>1, UnitsTail
<1>3. Aligned(pl, n, k + 1, w, Tail(ib), open, 0)
  <2>1. Len(Tail(ib)) \in Nat /\ Len(w) \in Nat /\ Len(ib) \in Nat
    BY <1>2
  <2>2. /\ 2 * k + 1 + 1 = 2 * (k + 1) + 0
        /\ 2 * (k + 1) + 0 + Len(Tail(ib)) = 2 * k + 1 + Len(ib)
    BY <1>2, <2>1
  <2>3. QED
    BY <1>1, <1>2, <2>2 DEF Aligned
<1>4. k + 1 <= n
  BY DEF WireOK
<1>5. QED
  BY <1>3, <1>4 DEF WireOK

LEMMA UnitsTwo ==
  ASSUME NEW s \in Seq(Unit), NEW t \in Nat, NEW pl \in [Reqs -> Nat], Units(s, t, pl),
         NEW x \in Unit, IsUnit(x, t + Len(s), pl), NEW y \in Unit, IsUnit(y, t + Len(s) + 1, pl)
  PROVE  /\ s \o <<x, y>> \in Seq(Unit) /\ Units(s \o <<x, y>>, t, pl)
         /\ Len(s \o <<x, y>>) = Len(s) + 2
<1> DEFINE a == Append(s, x)
<1>1. s \o <<x, y>> = Append(a, y)
  OBVIOUS
<1>2. a \in Seq(Unit) /\ Units(a, t, pl) /\ Len(a) = Len(s) + 1
  BY UnitsAppend
<1>3. IsUnit(y, t + Len(a), pl)
  <2>1. t + Len(a) = t + Len(s) + 1
    <3>1. Len(s) \in Nat
      OBVIOUS
    <3>2. QED
      BY <1>2, <3>1
  <2>2. QED
    BY <2>1
<1> HIDE DEF a
<1>4. /\ Append(a, y) \in Seq(Unit) /\ Units(Append(a, y), t, pl)
      /\ Len(Append(a, y)) = Len(a) + 1
  BY <1>2, <1>3, UnitsAppend
<1>5. Len(a) + 1 = Len(s) + 2
  <2>1. Len(s) \in Nat
    OBVIOUS
  <2>2. QED
    BY <1>2, <2>1
<1>6. QED
  BY <1>1, <1>4, <1>5

\* A new connection, with its first request.
LEMMA WireNew ==
  ASSUME NEW r \in Reqs, NEW pl \in [Reqs -> Nat], pl[r] = 1, \A q \in Reqs \ {r} : pl[q] = 0,
         NEW x \in Unit, x[1] = r, x[2] = "head", NEW y \in Unit, y[1] = r, y[2] = "body",
         NEW w, w = <<>> \o <<x, y>>
  PROVE  w \in Seq(Unit) /\ WireOK(pl, TRUE, 1, 0, w, <<>>, TRUE, FALSE)
<1>1. w \in Seq(Unit) /\ Len(w) = 2 /\ w[1] = x /\ w[2] = y
  OBVIOUS
<1>2. IsUnit(w[1], 0, pl) /\ IsUnit(w[2], 1, pl)
  BY <1>1 DEF IsUnit
<1>3. Units(w, 0, pl)
  <2>1. ASSUME NEW j \in 1 .. Len(w) PROVE IsUnit(w[j], 0 + j - 1, pl)
    <3>1. j = 1 \/ j = 2
      BY <1>1
    <3>2. QED
      BY <1>2, <3>1
  <2>2. QED
    BY <2>1 DEF Units
<1>4. Units(<<>>, 0, pl) /\ Len(<<>>) = 0
  BY DEF Units
<1>5. Aligned(pl, 1, 0, w, <<>>, TRUE, 0)
  BY <1>1, <1>3, <1>4 DEF Aligned
<1>6. /\ \A q \in Reqs : pl[q] <= 1
      /\ \A q, s \in Reqs : pl[q] = pl[s] /\ pl[q] # 0 => q = s
  OBVIOUS
<1>7. \E h \in {0, 1} : (FALSE => h = 1) /\ Aligned(pl, 1, 0, w, <<>>, TRUE, h)
  BY <1>5
<1>8. QED
  <2>1. 0 <= 1
    OBVIOUS
  <2>2. QED
    BY <1>1, <1>6, <1>7, <2>1, Zenon DEF WireOK

\* The server sends a unit.
LEMMA WireArrives ==
  ASSUME NEW pl \in [Reqs -> Nat], NEW sk \in BOOLEAN, NEW n \in Nat, NEW k \in Nat,
         NEW w \in Seq(Unit), NEW ib \in Seq(Unit), NEW open \in BOOLEAN, NEW reading \in BOOLEAN,
         WireOK(pl, sk, n, k, w, ib, open, reading), w # <<>>
  PROVE  /\ Tail(w) \in Seq(Unit) /\ Append(ib, Head(w)) \in Seq(Unit)
         /\ WireOK(pl, sk, n, k, Tail(w), Append(ib, Head(w)), open, reading)
<1>1. Tail(w) \in Seq(Unit) /\ Head(w) \in Unit /\ Append(ib, Head(w)) \in Seq(Unit)
  OBVIOUS
<1>2. ASSUME NEW h \in {0, 1}, Aligned(pl, n, k, w, ib, open, h)
      PROVE  Aligned(pl, n, k, Tail(w), Append(ib, Head(w)), open, h)
  <2>1. /\ 2 * k + h \in Nat /\ 2 * k + h + Len(ib) \in Nat
        /\ Len(ib) \in Nat /\ Len(w) \in Nat
    OBVIOUS
  <2>2. /\ IsUnit(Head(w), 2 * k + h + Len(ib), pl) /\ Len(w) = 1 + Len(Tail(w))
        /\ Units(Tail(w), 2 * k + h + Len(ib) + 1, pl)
    BY <1>2, <2>1, UnitsTail DEF Aligned
  <2>3. /\ Units(Append(ib, Head(w)), 2 * k + h, pl)
        /\ Len(Append(ib, Head(w))) = Len(ib) + 1
    BY <1>1, <1>2, <2>1, <2>2, UnitsAppend DEF Aligned
  <2>4. /\ 2 * k + h + Len(ib) + 1 = 2 * k + h + Len(Append(ib, Head(w)))
        /\ 2 * k + h + Len(ib) + Len(w) = 2 * k + h + Len(Append(ib, Head(w))) + Len(Tail(w))
    <3>1. Len(Tail(w)) \in Nat
      BY <1>1
    <3>2. QED
      BY <2>1, <2>2, <2>3, <3>1
  <2>5. QED
    BY <1>2, <2>2, <2>3, <2>4 DEF Aligned
<1>3. QED
  BY <1>1, <1>2 DEF WireOK

\* The server closes its end.
LEMMA WireCloses ==
  ASSUME NEW pl \in [Reqs -> Nat], NEW sk \in BOOLEAN, NEW n \in Nat, NEW k \in Nat,
         NEW w \in Seq(Unit), NEW ib \in Seq(Unit), NEW open \in BOOLEAN, NEW reading \in BOOLEAN,
         WireOK(pl, sk, n, k, w, ib, open, reading),
         NEW w2, w2 = <<>>, NEW open2 \in BOOLEAN, ~open2
  PROVE  WireOK(pl, sk, n, k, w2, ib, open2, reading)
<1>1. ASSUME NEW h \in {0, 1}, Aligned(pl, n, k, w, ib, open, h)
      PROVE  Aligned(pl, n, k, w2, ib, open2, h)
  <2>1. Units(w2, 2 * k + h + Len(ib), pl) /\ Len(w2) = 0
    BY DEF Units
  <2>2. Len(w) \in Nat /\ Len(ib) \in Nat
    OBVIOUS
  <2>3. 2 * k + h + Len(ib) + Len(w2) <= 2 * n
    BY <1>1, <2>1, <2>2 DEF Aligned
  <2>4. QED
    BY <1>1, <2>1, <2>3 DEF Aligned
<1>2. QED
  BY <1>1 DEF WireOK

\* The client drops the socket, or a reader goes away.
LEMMA WireDrops ==
  ASSUME NEW pl, NEW sk \in BOOLEAN, NEW n, NEW k, NEW w, NEW ib, NEW open, NEW reading \in BOOLEAN,
         WireOK(pl, sk, n, k, w, ib, open, reading),
         NEW sk2 \in BOOLEAN, sk2 => sk, NEW reading2 \in BOOLEAN, reading2 => reading
  PROVE  WireOK(pl, sk2, n, k, w, ib, open, reading2)
BY DEF WireOK

-----------------------------------------------------------------------------
(* The socket, and whose responses are on it.                              *)

\* As what number each request was sent on the connection, from 1.
Place == [r \in Reqs |-> IF last_gen[r] = sock_generation THEN recv_expect[r] + 1 ELSE 0]

Reading == \E r \in Reqs : pc[r] = "body"

WireInv ==
  /\ WireOK(Place, sock, sock_sent, sock_received, wire, inbox, server_open, Reading)
  /\ sock => sock_generation > 0
  /\ \A r \in Reqs : last_gen[r] <= sock_generation

\* A request that was not sent again reads in its turn, what it reads is its response,
\* and that is its answer.
OwnAt(r) ==
  can_retry[r] =>
    /\ sock /\ pc[r] = "status" => Place[r] = sock_received + 1
    /\ pc[r] = "body" => from[r] = r
    /\ result[r] \in Reqs => result[r] = r

OwnInv == \A r \in Reqs : OwnAt(r)

Inv == TypesOK /\ RetryInv /\ WireInv /\ OwnInv /\ RightOrigin

\* Only one request at a time uses the socket, or has just used it.
LEMMA Alone ==
  ASSUME ControlInv, NEW r \in Reqs, NEW q \in Reqs,
         pc[r] \in {"have2", "have2x", "recreate", "mksock", "status", "body", "return"},
         pc[q] \in {"have2", "have2x", "recreate", "mksock", "status", "body", "return"}
  PROVE  r = q
<1>1. \A x \in {"have2", "have2x", "recreate", "mksock", "status", "body", "return"} :
        \A h \in HeldAt(x) : 2 \in h
  BY DEF HeldAt
<1>2. 2 \in held[r] /\ 2 \in held[q]
  BY <1>1 DEF ControlInv
<1>3. QED
  BY <1>2 DEF ControlInv, MutexesOK, OneHolder

LEMMA PlaceType ==
  ASSUME TypesOK
  PROVE  /\ Place \in [Reqs -> Nat]
         /\ \A r \in Reqs : Place[r] = IF last_gen[r] = sock_generation THEN recv_expect[r] + 1 ELSE 0
BY DEF Place, TypesOK, LocalsOK

LEMMA SocketTypes ==
  ASSUME TypesOK
  PROVE  /\ sock \in BOOLEAN /\ server_open \in BOOLEAN /\ Reading \in BOOLEAN
         /\ sock_sent \in Nat /\ sock_received \in Nat
         /\ sock_generation \in 0 .. MaxSockets /\ sock_generation \in Nat /\ MaxSockets \in Nat
         /\ wire \in Seq(Unit) /\ inbox \in Seq(Unit)
<1>1. Reading \in BOOLEAN
  BY DEF Reading
<1>2. QED
  BY <1>1, HttpAssumption DEF TypesOK, SocketOK, Unit

\* Of the others nothing is left to prove when the socket stays or is dropped, or nobody
\* else is reading.
LEMMA OwnOthers ==
  ASSUME TypesOK, OwnInv, NEW r \in Reqs, OthersStay(r), OwnAt(r)',
         \/ /\ sock' => sock
            /\ sock_generation' = sock_generation /\ sock_received' = sock_received
         \/ pc[r] \in {"have2x", "mksock", "body"}
  PROVE  OwnInv'
<1>1. ASSUME NEW q \in Reqs \ {r} PROVE OwnAt(q)'
  <2>1. /\ pc'[q] = pc[q] /\ can_retry'[q] = can_retry[q] /\ from'[q] = from[q]
        /\ result'[q] = result[q] /\ last_gen'[q] = last_gen[q] /\ recv_expect'[q] = recv_expect[q]
    BY DEF OthersStay
  <2>2. OwnAt(q)
    BY DEF OwnInv
  <2>3. CASE /\ sock' => sock
             /\ sock_generation' = sock_generation /\ sock_received' = sock_received
    <3>1. Place'[q] = Place[q]
      BY <2>1, <2>3 DEF Place
    <3>2. QED
      BY <2>1, <2>2, <2>3, <3>1 DEF OwnAt
  <2>4. CASE pc[r] \in {"have2x", "mksock", "body"}
    <3>1. pc[q] # "status"
      BY <2>4, Alone DEF TypesOK
    <3>2. QED
      BY <2>1, <2>2, <3>1 DEF OwnAt
  <2>5. QED
    BY <2>3, <2>4
<1>2. QED
  BY <1>1 DEF OwnInv

\* Nothing happens on the socket, but it may be dropped, or its reader go away.
LEMMA WireStays ==
  ASSUME TypesOK, WireInv, UNCHANGED <<last_gen, recv_expect, sock_generation, sock_sent, sock_received, network>>,
         sock' = sock \/ sock' = FALSE, Reading' => Reading
  PROVE  WireInv'
<1>1. Place' = Place
  BY DEF Place
<1>2. /\ sock' \in BOOLEAN /\ (sock' => sock) /\ Reading' \in BOOLEAN /\ sock \in BOOLEAN
      /\ Reading \in BOOLEAN
  <2>1. Reading' \in BOOLEAN
    BY DEF Reading
  <2>2. sock \in BOOLEAN /\ Reading \in BOOLEAN
    BY SocketTypes
  <2>3. sock' \in BOOLEAN /\ (sock' => sock)
    <3>1. CASE sock' = sock
      BY <2>2, <3>1
    <3>2. CASE sock' = FALSE
      BY <3>2
    <3>3. QED
      BY <3>1, <3>2
  <2>4. QED
    BY <2>1, <2>2, <2>3, Zenon
<1>3. WireOK(Place, sock', sock_sent, sock_received, wire, inbox, server_open, Reading')
  BY <1>2, WireDrops DEF WireInv
<1>4. WireOK(Place', sock', sock_sent', sock_received', wire', inbox', server_open', Reading')
  BY <1>1, <1>3 DEF network
<1>5. QED
  BY <1>2, <1>4 DEF WireInv

LEMMA ReadingStays ==
  ASSUME NEW r \in Reqs, OthersStay(r), pc'[r] # "body", Reading'
  PROVE  Reading
BY DEF Reading, OthersStay

-----------------------------------------------------------------------------
(* The steps, one kind after the other.                                    *)

\* What a step does to the socket that does not use it.
SocketStays ==
  /\ UNCHANGED <<Origin, sock_generation, sock_sent, sock_received, sock_origin, keepalive, network>>
  /\ sock' = sock \/ sock' = FALSE

LEMMA InTurnType ==
  ASSUME pending \in Seq(Reqs), NEW r \in Reqs
  PROVE  InTurn(r) \in Seq(Reqs)
<1>1. CASE pending # <<>> /\ Overtaken(Last(pending))
  <2>1. Len(pending) \in Nat /\ Len(pending) > 0
    BY <1>1
  <2>2. /\ \A i \in 1 .. Len(pending) : pending[i] \in Reqs
        /\ 1 \in Int /\ Len(pending) - 1 \in Int
        /\ \A i \in 1 .. Len(pending) - 1 : pending[i] \in Reqs
    BY <2>1, ElementOfSeq
  <2>3. SubSeq(pending, 1, Len(pending) - 1) \in Seq(Reqs) /\ pending[Len(pending)] \in Reqs
    BY <2>1, <2>2, SubSeqProperties
  <2>4. QED
    BY <1>1, <2>3 DEF InTurn, Front, Last
<1>2. CASE ~(pending # <<>> /\ Overtaken(Last(pending)))
  BY <1>2 DEF InTurn
<1>3. QED
  BY <1>1, <1>2

LEMMA SilentSocket ==
  ASSUME TypesOK, NEW r \in Reqs, Silent(r), UNCHANGED Origin
  PROVE  SocketStays /\ pending' \in Seq(Reqs)
<1>1. CASE Call(r)
  BY <1>1, InTurnType DEF Call, SocketStays, socket, TypesOK
<1>2. CASE Cancel(r)
  BY <1>2, UnlinkType DEF Cancel, SocketStays, socket, TypesOK
<1>3. CASE LostBeforeStatus(r)
  BY <1>3 DEF LostBeforeStatus, SocketStays, answers, TypesOK
<1>4. CASE \/ LockFree(r) \/ LockBusy(r) \/ LockHandedOver(r) \/ SendReturns(r) \/ Exclusive(r)
           \/ ReadTurn(r) \/ NeedSocket(r) \/ Connect(r) \/ Return(r)
  <2>1. UNCHANGED <<answers, socket, network>>
    BY <1>4 DEF LockFree, LockBusy, LockHandedOver, SendReturns, Exclusive, ReadTurn, NeedSocket,
                Connect, Return
  <2>2. QED
    BY <2>1 DEF answers, socket, SocketStays, TypesOK
<1>5. QED
  BY <1>1, <1>2, <1>3, <1>4 DEF Silent

\* With the socket, the origins on it and the types stay as they are.
LEMMA SocketStaysOK ==
  ASSUME TypesOK, RightOrigin, SocketStays
  PROVE  SocketOK' /\ RightOrigin'
<1>1. SocketOK'
  <2>1. sock' \in BOOLEAN
    BY SocketTypes DEF SocketStays
  <2>2. QED
    BY <2>1 DEF SocketStays, network, TypesOK, SocketOK
<1>2. RightOrigin'
  BY DEF SocketStays, network, RightOrigin
<1>3. QED
  BY <1>1, <1>2

LEMMA SilentStatus ==
  ASSUME TypesOK, NEW r \in Reqs, Silent(r), pc'[r] = "status"
  PROVE  pc[r] = "have2" /\ MayRead(r)
<1>1. pc \in [Reqs -> Labels]
  BY ControlTypes DEF TypesOK
<1>2. CASE LockFree(r) \/ LockHandedOver(r)
  <2>1. pc'[r] = Got[pc[r]] /\ pc[r] \in {"want1", "want2", "want2x"} \cup WaitLabels
    BY <1>1, <1>2, LockLabels DEF LockFree, LockHandedOver, GetsLock, Goto, WaitLabels
  <2>2. QED
    BY <2>1, LockLabels
<1>3. CASE LockBusy(r)
  <2>1. pc'[r] = Blocked[pc[r]] /\ pc[r] \in {"want1", "want2", "want2x"}
    BY <1>1, <1>3, LockLabels DEF LockBusy, Goto
  <2>2. QED
    BY <2>1, LockLabels DEF WaitLabels
<1>4. CASE ReadTurn(r)
  BY <1>4 DEF ReadTurn
<1>5. CASE \/ Call(r) \/ SendReturns(r) \/ Exclusive(r) \/ NeedSocket(r) \/ Connect(r)
           \/ LostBeforeStatus(r) \/ Return(r) \/ Cancel(r)
  BY <1>1, <1>5 DEF Call, SendReturns, Exclusive, NeedSocket, Connect, LostBeforeStatus, Return, Cancel, Goto
<1>6. QED
  BY <1>2, <1>3, <1>4, <1>5 DEF Silent

LEMMA SilentOK ==
  ASSUME Inv, ControlInv', NEW r \in Reqs, Silent(r), UNCHANGED Origin
  PROVE  Inv'
<1>1. TypesOK /\ RetryInv /\ WireInv /\ OwnInv /\ RightOrigin
  BY DEF Inv
<1>2. RetryInv' /\ OthersStay(r) /\ LocalsOK'
  BY <1>1, SilentRetry
<1>3. SocketStays /\ pending' \in Seq(Reqs)
  BY <1>1, SilentSocket
<1>4. SocketOK' /\ RightOrigin'
  BY <1>1, <1>3, SocketStaysOK
<1>5. PICK x \in Labels : pc' = [pc EXCEPT ![r] = x] /\ x # "body"
  BY <1>1, SilentIs
<1>6. pc'[r] = x
  BY <1>1, <1>5, ControlTypes DEF TypesOK
<1>7. /\ last_gen' = last_gen /\ recv_expect' = recv_expect /\ can_retry' = can_retry
      /\ from' = from /\ result' = result
  BY <1>1, SilentIs DEF locals
<1>8. WireInv'
  <2>1. Reading' => Reading
    BY <1>2, <1>5, <1>6, ReadingStays
  <2>2. QED
    BY <1>1, <1>3, <1>7, <2>1, WireStays DEF SocketStays
<1>9. pc'[r] = "status" => pc[r] = "have2" /\ MayRead(r)
  BY <1>1, <1>5, <1>6, SilentStatus
<1>10. OwnAt(r)'
  <2>1. OwnAt(r)
    BY <1>1 DEF OwnInv
  <2>2. Place' = Place
    BY <1>3, <1>7 DEF Place, SocketStays
  <2>3. ASSUME pc'[r] = "status" PROVE Place[r] = sock_received + 1
    BY <1>1, <1>9, <2>3, PlaceType DEF MayRead
  <2>4. QED
    BY <1>3, <1>5, <1>6, <1>7, <2>1, <2>2, <2>3 DEF OwnAt, SocketStays
<1>11. OwnInv'
  <2>1. /\ sock' => sock
        /\ sock_generation' = sock_generation /\ sock_received' = sock_received
    BY <1>3 DEF SocketStays
  <2>2. QED
    BY <1>1, <1>2, <1>10, <2>1, OwnOthers
<1>12. QED
  BY <1>2, <1>3, <1>4, <1>8, <1>11 DEF Inv, TypesOK

\* The steps that fail a request.
Fails(r) == GiveUp(r) \/ ConnectFails(r) \/ Reject(r) \/ LostInHeaders(r)

LEMMA FailsOK ==
  ASSUME Inv, ControlInv', NEW r \in Reqs, Fails(r), UNCHANGED Origin
  PROVE  Inv'
<1>1. TypesOK /\ RetryInv /\ WireInv /\ OwnInv /\ RightOrigin
  BY DEF Inv
<1>2. Answers(r)
  BY DEF Fails, Answers
<1>3. RetryInv' /\ OthersStay(r) /\ LocalsOK'
  BY <1>1, <1>2, AnswersRetry
<1>4. PICK e \in Errors : Fail(r, e)
  <2>1. \A e \in {"e_bad_url", "e_broken", "e_connect", "e_not_http"} : e \in Errors
    BY DEF Errors
  <2>2. QED
    BY <2>1 DEF Fails, GiveUp, ConnectFails, Reject, LostInHeaders
<1>5. /\ pc' = [pc EXCEPT ![r] = "return"] /\ result' = [result EXCEPT ![r] = e]
      /\ pending' = Unlink(pending, r) /\ sock' = FALSE
      /\ last_gen' = last_gen /\ recv_expect' = recv_expect
      /\ UNCHANGED <<sock_generation, sock_sent, sock_received, sock_origin, keepalive, network>>
  BY <1>4 DEF Fail, Deliver, Goto, locals
<1>6. SocketStays /\ pending' \in Seq(Reqs)
  BY <1>1, <1>5, UnlinkType DEF SocketStays, TypesOK
<1>7. SocketOK' /\ RightOrigin'
  BY <1>1, <1>6, SocketStaysOK
<1>8. pc'[r] = "return" /\ result'[r] = e /\ e \notin Reqs
  <2>1. e \notin Reqs
    BY HttpAssumption
  <2>2. QED
    BY <1>1, <1>5, <2>1, ControlTypes DEF TypesOK, LocalsOK
<1>9. WireInv'
  <2>1. Reading' => Reading
    BY <1>3, <1>8, ReadingStays
  <2>2. QED
    BY <1>1, <1>5, <2>1, WireStays
<1>10. OwnAt(r)'
  BY <1>8 DEF OwnAt
<1>11. OwnInv'
  BY <1>1, <1>3, <1>5, <1>10, OwnOthers
<1>12. QED
  BY <1>3, <1>6, <1>7, <1>9, <1>11 DEF Inv, TypesOK

LEMMA HeadOK ==
  ASSUME Inv, ControlInv', NEW r \in Reqs, ReadHead(r), UNCHANGED Origin
  PROVE  Inv'
<1>1. TypesOK /\ RetryInv /\ WireInv /\ OwnInv /\ RightOrigin
  BY DEF Inv
<1>2. /\ RetryInv' /\ OthersStay(r) /\ LocalsOK'
      /\ from'[r] = Head(inbox)[1] /\ pc'[r] = "body" /\ can_retry'[r] = can_retry[r]
  BY <1>1, ReadHeadRetry
<1>3. /\ UNCHANGED <<last_gen, recv_expect, result, pending, sock, sock_generation, sock_sent,
                     sock_received, sock_origin, keepalive, server_open, wire>>
      /\ sock /\ inbox # <<>> /\ Head(inbox)[2] = "head" /\ inbox' = Tail(inbox)
      /\ pc[r] = "status"
  BY DEF ReadHead, socket, answers
<1>4. Place' = Place
  BY <1>3 DEF Place
<1>5. /\ Place \in [Reqs -> Nat] /\ sock_sent \in Nat /\ sock_received \in Nat
      /\ wire \in Seq(Unit) /\ inbox \in Seq(Unit) /\ server_open \in BOOLEAN /\ Reading \in BOOLEAN
      /\ sock \in BOOLEAN
  BY <1>1, PlaceType, SocketTypes
<1>6. sock = TRUE /\ sock' = TRUE /\ Reading' = TRUE
  <2>1. Reading'
    BY <1>2 DEF Reading
  <2>2. Reading' \in BOOLEAN
    BY DEF Reading
  <2>3. QED
    BY <1>3, <1>5, <2>1, <2>2, Zenon
<1>7. WireOK(Place, TRUE, sock_sent, sock_received, wire, inbox, server_open, FALSE)
  BY <1>1, <1>6 DEF WireInv, WireOK
<1>8. /\ Head(inbox)[1] \in Reqs /\ Place[Head(inbox)[1]] = sock_received + 1
      /\ WireOK(Place, TRUE, sock_sent, sock_received, wire, Tail(inbox), server_open, TRUE)
  <2>1. inbox # <<>> /\ Head(inbox)[2] = "head"
    BY <1>3
  <2>2. QED
    BY <1>5, <1>7, <2>1, WireHead
<1>9. WireInv'
  <2>1. WireOK(Place', sock', sock_sent', sock_received', wire', inbox', server_open', Reading')
    BY <1>3, <1>4, <1>6, <1>8
  <2>2. QED
    BY <1>1, <1>3, <2>1 DEF WireInv
<1>10. OwnAt(r)'
  <2>1. ASSUME can_retry[r] PROVE Head(inbox)[1] = r
    <3>1. Place[r] = sock_received + 1
      BY <1>1, <1>3, <2>1 DEF OwnInv, OwnAt
    <3>2. Place[r] = Place[Head(inbox)[1]] /\ Place[r] # 0
      BY <1>5, <1>8, <3>1
    <3>3. QED
      BY <1>7, <1>8, <3>2 DEF WireOK
  <2>2. OwnAt(r)
    BY <1>1 DEF OwnInv
  <2>3. QED
    BY <1>2, <1>3, <2>1, <2>2 DEF OwnAt
<1>11. OwnInv'
  BY <1>1, <1>2, <1>3, <1>10, OwnOthers
<1>12. SocketOK'
  <2>1. inbox' \in Seq(Unit)
    BY <1>3, <1>5
  <2>2. QED
    BY <1>1, <1>3, <2>1 DEF TypesOK, SocketOK, Unit
<1>13. RightOrigin'
  BY <1>1, <1>3 DEF RightOrigin
<1>14. QED
  BY <1>1, <1>2, <1>3, <1>9, <1>11, <1>12, <1>13 DEF Inv, TypesOK

\* The response is handed over, with a body or without.
LEMMA BodyOK ==
  ASSUME Inv, ControlInv', NEW r \in Reqs, ReadBody(r) \/ LostInBody(r), UNCHANGED Origin
  PROVE  Inv'
<1>1. TypesOK /\ RetryInv /\ WireInv /\ OwnInv /\ RightOrigin
  BY DEF Inv
<1>2. RetryInv' /\ OthersStay(r) /\ LocalsOK'
  BY <1>1, AnswersRetry DEF Answers
<1>3. /\ UNCHANGED <<last_gen, recv_expect, can_retry, from, sock_generation, sock_sent, sock_origin,
                     server_open, wire>>
      /\ pc[r] = "body" /\ pc' = [pc EXCEPT ![r] = "return"]
      /\ result' = [result EXCEPT ![r] = from[r]] /\ pending' = Unlink(pending, r)
      /\ sock_received' = sock_received + 1 /\ keepalive' = TRUE
      /\ \/ sock /\ sock' = sock /\ inbox # <<>> /\ inbox' = Tail(inbox)
         \/ sock' = FALSE /\ inbox' = inbox
  BY DEF ReadBody, LostInBody, Deliver, Goto, locals, network
<1>4. Place' = Place
  BY <1>3 DEF Place
<1>5. /\ Place \in [Reqs -> Nat] /\ sock_sent \in Nat /\ sock_received \in Nat
      /\ wire \in Seq(Unit) /\ inbox \in Seq(Unit) /\ server_open \in BOOLEAN
      /\ sock \in BOOLEAN
  BY <1>1, PlaceType, SocketTypes
<1>6. pc'[r] = "return" /\ result'[r] = from[r] /\ \A q \in Reqs \ {r} : pc'[q] = pc[q]
  BY <1>1, <1>3, ControlTypes DEF TypesOK, LocalsOK
<1>7. Reading = TRUE /\ Reading' = FALSE
  <2>1. Reading
    BY <1>3 DEF Reading
  <2>2. \A q \in Reqs \ {r} : pc[q] # "body"
    BY <1>1, <1>3, Alone DEF TypesOK
  <2>3. ~Reading'
    BY <1>6, <2>2 DEF Reading
  <2>4. Reading \in BOOLEAN /\ Reading' \in BOOLEAN
    BY DEF Reading
  <2>5. QED
    BY <2>1, <2>3, <2>4, Zenon
<1>8. WireOK(Place, sock, sock_sent, sock_received, wire, inbox, server_open, TRUE)
  BY <1>1, <1>7 DEF WireInv
<1>9. WireOK(Place', sock', sock_sent', sock_received', wire', inbox', server_open', FALSE)
  <2>1. CASE sock /\ sock' = sock /\ inbox # <<>> /\ inbox' = Tail(inbox)
    <3>1. sock = TRUE /\ sock' = TRUE
      BY <1>5, <2>1, Zenon
    <3>2. WireOK(Place, TRUE, sock_sent, sock_received + 1, wire, Tail(inbox), server_open, FALSE)
      BY <1>5, <1>8, <2>1, <3>1, WireBody
    <3>3. QED
      BY <1>3, <1>4, <2>1, <3>1, <3>2
  <2>2. CASE sock' = FALSE /\ inbox' = inbox
    <3>1. sock_received + 1 <= sock_sent
      BY <1>5, <1>8 DEF WireOK
    <3>2. WireOK(Place, FALSE, sock_sent, sock_received + 1, wire, inbox, server_open, FALSE)
      BY <3>1 DEF WireOK
    <3>3. QED
      BY <1>3, <1>4, <2>2, <3>2
  <2>3. QED
    BY <1>3, <2>1, <2>2
<1>10. WireInv'
  <2>1. sock' => sock
    BY <1>3
  <2>2. QED
    BY <1>1, <1>3, <1>7, <1>9, <2>1 DEF WireInv
<1>11. OwnAt(r)'
  <2>1. OwnAt(r)
    BY <1>1 DEF OwnInv
  <2>2. QED
    BY <1>3, <1>6, <2>1 DEF OwnAt
<1>12. OwnInv'
  BY <1>1, <1>2, <1>3, <1>11, OwnOthers
<1>13. SocketOK'
  <2>1. inbox' \in Seq(Unit) /\ sock' \in BOOLEAN /\ sock_received' \in Nat
    <3>1. CASE sock /\ sock' = sock /\ inbox # <<>> /\ inbox' = Tail(inbox)
      BY <1>3, <1>5, <3>1
    <3>2. CASE sock' = FALSE /\ inbox' = inbox
      <4>1. inbox' \in Seq(Unit) /\ sock_received' \in Nat
        BY <1>3, <1>5, <3>2
      <4>2. sock' \in BOOLEAN
        BY <3>2, Zenon
      <4>3. QED
        BY <4>1, <4>2
    <3>3. QED
      BY <1>3, <3>1, <3>2
  <2>2. QED
    BY <1>1, <1>3, <2>1 DEF TypesOK, SocketOK, Unit
<1>14. RightOrigin'
  BY <1>1, <1>3 DEF RightOrigin
<1>15. pending' \in Seq(Reqs)
  BY <1>1, <1>3, UnlinkType DEF TypesOK
<1>16. QED
  BY <1>2, <1>10, <1>12, <1>13, <1>14, <1>15 DEF Inv, TypesOK

\* A request is sent as one more.
LEMMA WireSend ==
  ASSUME TypesOK, sock, WireOK(Place, sock, sock_sent, sock_received, wire, inbox, server_open, Reading),
         NEW r \in Reqs, Place[r] = 0,
         NEW x \in Unit, x[1] = r, x[2] = "head", NEW y \in Unit, y[1] = r, y[2] = "body",
         wire' = IF server_open THEN wire \o <<x, y>> ELSE wire
  PROVE  /\ wire' \in Seq(Unit)
         /\ WireOK([Place EXCEPT ![r] = sock_sent + 1], sock', sock_sent + 1, sock_received,
                   wire', inbox, server_open, Reading)
<1>0. /\ Place \in [Reqs -> Nat] /\ sock_sent \in Nat /\ sock_received \in Nat
      /\ wire \in Seq(Unit) /\ inbox \in Seq(Unit) /\ server_open \in BOOLEAN
  BY PlaceType, SocketTypes
<1> USE <1>0
<1> DEFINE p2 == [Place EXCEPT ![r] = sock_sent + 1]
<1>1. p2 \in [Reqs -> Nat] /\ p2[r] = sock_sent + 1 /\ \A q \in Reqs : q # r => p2[q] = Place[q]
  OBVIOUS
<1>2. PICK h \in {0, 1} : (Reading => h = 1) /\ Aligned(Place, sock_sent, sock_received, wire, inbox, server_open, h)
  BY DEF WireOK
<1>3. /\ 2 * sock_received + h \in Nat /\ Len(inbox) \in Nat /\ Len(wire) \in Nat
      /\ 2 * sock_received + h + Len(inbox) \in Nat
  OBVIOUS
<1>4. Units(inbox, 2 * sock_received + h, p2) /\ Units(wire, 2 * sock_received + h + Len(inbox), p2)
  <2>1. Units(inbox, 2 * sock_received + h, Place) /\ Units(wire, 2 * sock_received + h + Len(inbox), Place) /\ sock_sent + 1 \in Nat
    BY <1>2 DEF Aligned
  <2>2. Units(inbox, 2 * sock_received + h, [Place EXCEPT ![r] = sock_sent + 1])
    BY <1>3, <2>1, UnitsPlace
  <2>3. Units(wire, 2 * sock_received + h + Len(inbox), [Place EXCEPT ![r] = sock_sent + 1])
    BY <1>3, <2>1, UnitsPlace
  <2>4. QED
    BY <2>2, <2>3
<1> HIDE DEF p2
<1>5. wire' \in Seq(Unit) /\ Aligned(p2, sock_sent + 1, sock_received, wire', inbox, server_open, h)
  <2>1. CASE ~server_open
    BY <1>2, <1>3, <1>4, <2>1 DEF Aligned
  <2>2. CASE server_open
    <3>1. 2 * sock_received + h + Len(inbox) + Len(wire) = 2 * sock_sent
      BY <1>2, <2>2 DEF Aligned
    <3>2. wire' = wire \o <<x, y>>
      BY <2>2
    <3>3. IsUnit(x, 2 * sock_received + h + Len(inbox) + Len(wire), p2)
      BY <1>1, <3>1 DEF IsUnit
    <3>4. IsUnit(y, 2 * sock_received + h + Len(inbox) + Len(wire) + 1, p2)
      BY <1>1, <3>1 DEF IsUnit
    <3>5. /\ wire \o <<x, y>> \in Seq(Unit) /\ Len(wire \o <<x, y>>) = Len(wire) + 2
          /\ Units(wire \o <<x, y>>, 2 * sock_received + h + Len(inbox), p2)
      BY <1>1, <1>3, <1>4, <3>3, <3>4, UnitsTwo
    <3>6. 2 * sock_received + h + Len(inbox) + (Len(wire) + 2) = 2 * (sock_sent + 1)
      BY <1>3, <3>1
    <3>7. 2 * sock_received + h + Len(inbox) + Len(wire') = 2 * (sock_sent + 1)
      BY <3>2, <3>5, <3>6
    <3>8. Units(wire', 2 * sock_received + h + Len(inbox), p2) /\ wire' \in Seq(Unit)
      BY <3>2, <3>5
    <3>9. 2 * sock_received + h + Len(inbox) + Len(wire') <= 2 * (sock_sent + 1)
      <4>1. 2 * (sock_sent + 1) <= 2 * (sock_sent + 1)
        OBVIOUS
      <4>2. QED
        BY <3>7, <4>1
    <3>10. QED
      BY <1>4, <2>2, <3>7, <3>8, <3>9, Zenon DEF Aligned
  <2>3. QED
    BY <2>1, <2>2
<1>6. /\ \A q \in Reqs : p2[q] <= sock_sent + 1
      /\ \A q, s \in Reqs : p2[q] = p2[s] /\ p2[q] # 0 => q = s
  <2>1. /\ \A q \in Reqs : Place[q] \in Nat /\ Place[q] <= sock_sent
        /\ \A q, s \in Reqs : Place[q] = Place[s] /\ Place[q] # 0 => q = s
    BY DEF WireOK
  <2>2. \A q \in Reqs : q # r => p2[q] # sock_sent + 1
    BY <1>1, <2>1
  <2>3. ASSUME NEW q \in Reqs PROVE p2[q] <= sock_sent + 1
    <3>1. CASE q = r
      BY <1>1, <3>1
    <3>2. CASE q # r
      <4>1. p2[q] = Place[q] /\ Place[q] \in Nat /\ Place[q] <= sock_sent
        BY <1>1, <2>1, <3>2
      <4>2. QED
        BY <4>1
    <3>3. QED
      BY <3>1, <3>2
  <2>4. \A q, s \in Reqs : p2[q] = p2[s] /\ p2[q] # 0 => q = s
    BY <1>1, <2>1, <2>2
  <2>5. QED
    BY <2>3, <2>4
<1>7. sock_received <= sock_sent + 1 /\ (Reading => sock_received < sock_sent + 1)
  BY DEF WireOK
<1>8. QED
  BY <1>2, <1>5, <1>6, <1>7 DEF WireOK, p2

\* A request is sent on the socket there is.
LEMMA SendOK ==
  ASSUME Inv, ControlInv', NEW r \in Reqs, Pipeline(r) \/ ReuseSocket(r), UNCHANGED Origin
  PROVE  Inv'
<1>1. TypesOK /\ RetryInv /\ WireInv /\ OwnInv /\ RightOrigin
  BY DEF Inv
<1>2. RetryInv' /\ OthersStay(r) /\ LocalsOK'
  BY <1>1, TransmitsRetry DEF Transmits
<1>3. /\ UNCHANGED <<from, result, pending, sock_generation, sock_received, sock_origin,
                     keepalive, server_open, inbox>>
      /\ sock /\ sock_origin = Origin[r] /\ pc[r] \in {"have1", "have2x"}
      /\ last_gen' = [last_gen EXCEPT ![r] = sock_generation]
      /\ recv_expect' = [recv_expect EXCEPT ![r] = sock_sent]
      /\ sock_sent' = sock_sent + 1
      /\ wire' = IF server_open THEN wire \o <<<<r, "head">>, <<r, "body">>>> ELSE wire
      /\ sock' \in BOOLEAN
  <2>1. CASE Pipeline(r)
    BY <2>1 DEF Pipeline, CanPipeline, CanKeepalive, Transmit, answers
  <2>2. CASE ReuseSocket(r)
    BY <2>2 DEF ReuseSocket, CanKeepalive, Transmit, answers
  <2>3. QED
    BY <2>1, <2>2
<1>4. \/ \E x \in {"want2", "sending"} : pc' = [pc EXCEPT ![r] = x]
      \/ pc' = [pc EXCEPT ![r] = "status"] /\ can_retry' = [can_retry EXCEPT ![r] = FALSE]
  BY DEF Pipeline, ReuseSocket, Goto, NoRetry
<1>5. /\ Place \in [Reqs -> Nat] /\ sock_sent \in Nat /\ sock_received \in Nat
      /\ wire \in Seq(Unit) /\ inbox \in Seq(Unit) /\ server_open \in BOOLEAN /\ Reading \in BOOLEAN
      /\ sock \in BOOLEAN
  BY <1>1, PlaceType, SocketTypes
<1>6. Place[r] = 0
  <2>1. last_gen[r] = 0
    BY <1>1, <1>3 DEF RetryInv, RetryAt, Fresh
  <2>2. sock_generation # 0
    BY <1>1, <1>3, SocketTypes DEF WireInv
  <2>3. QED
    BY <1>1, <2>1, <2>2, PlaceType
<1>7. Place' = [Place EXCEPT ![r] = sock_sent + 1]
  <2>1. /\ last_gen'[r] = sock_generation' /\ recv_expect'[r] = sock_sent
        /\ sock_generation' = sock_generation
    BY <1>1, <1>3 DEF TypesOK, LocalsOK
  <2>2. \A q \in Reqs \ {r} : last_gen'[q] = last_gen[q] /\ recv_expect'[q] = recv_expect[q]
    BY <1>2 DEF OthersStay
  <2>3. QED
    BY <2>1, <2>2 DEF Place
<1>8. sock = TRUE /\ Reading' = Reading
  <2>1. sock = TRUE
    BY <1>3, <1>5, Zenon
  <2>2. pc[r] # "body" /\ pc'[r] # "body" /\ \A q \in Reqs \ {r} : pc'[q] = pc[q]
    <3>1. pc \in [Reqs -> Labels]
      BY <1>1, ControlTypes DEF TypesOK
    <3>2. QED
      BY <1>3, <1>4, <3>1
  <2>3. Reading' <=> Reading
    BY <2>2 DEF Reading
  <2>4. Reading' \in BOOLEAN
    BY DEF Reading
  <2>5. QED
    BY <1>5, <2>1, <2>3, <2>4, Zenon
<1> DEFINE x == <<r, "head">>
           y == <<r, "body">>
<1>9. x \in Unit /\ x[1] = r /\ x[2] = "head" /\ y \in Unit /\ y[1] = r /\ y[2] = "body"
  BY DEF Unit
<1>10. wire' = IF server_open THEN wire \o <<x, y>> ELSE wire
  BY <1>3
<1> HIDE DEF x, y
<1>11. sock /\ WireOK(Place, sock, sock_sent, sock_received, wire, inbox, server_open, Reading)
  BY <1>1, <1>3 DEF WireInv
<1>12. /\ wire' \in Seq(Unit)
       /\ WireOK([Place EXCEPT ![r] = sock_sent + 1], sock', sock_sent + 1, sock_received,
                 wire', inbox, server_open, Reading)
  BY <1>1, <1>6, <1>9, <1>10, <1>11, WireSend
<1>13. WireInv'
  <2>1. WireOK(Place', sock', sock_sent', sock_received', wire', inbox', server_open', Reading')
    BY <1>3, <1>7, <1>8, <1>12
  <2>2. sock_generation' > 0
    BY <1>1, <1>3 DEF WireInv
  <2>3. \A q \in Reqs : last_gen'[q] <= sock_generation'
    <3>1. sock_generation <= sock_generation
      BY <1>1, SocketTypes
    <3>2. QED
      BY <1>1, <1>3, <3>1 DEF WireInv, TypesOK, LocalsOK
  <2>4. QED
    BY <2>1, <2>2, <2>3 DEF WireInv
<1>14. OwnAt(r)'
  <2>1. pc \in [Reqs -> Labels]
    BY <1>1, ControlTypes DEF TypesOK
  <2>2. result'[r] \notin Reqs
    <3>1. result[r] = None
      BY <1>1, <1>3 DEF RetryInv, RetryAt
    <3>2. QED
      BY <1>3, <3>1, HttpAssumption
  <2>3. CASE \E z \in {"want2", "sending"} : pc' = [pc EXCEPT ![r] = z]
    BY <2>1, <2>2, <2>3 DEF OwnAt
  <2>4. CASE pc' = [pc EXCEPT ![r] = "status"] /\ can_retry' = [can_retry EXCEPT ![r] = FALSE]
    BY <1>1, <2>4 DEF OwnAt, TypesOK, LocalsOK
  <2>5. QED
    BY <1>4, <2>3, <2>4
<1>15. OwnInv'
  BY <1>1, <1>2, <1>3, <1>14, OwnOthers
<1>16. SocketOK'
  <2>1. sock_sent' \in Nat /\ wire' \in Seq(Unit)
    BY <1>3, <1>5, <1>12
  <2>2. QED
    BY <1>1, <1>3, <2>1 DEF TypesOK, SocketOK, Unit
<1>17. RightOrigin'
  <2>1. \A i \in 1 .. Len(wire) : Origin[wire[i][1]] = sock_origin
    BY <1>1, <1>5 DEF RightOrigin
  <2>2. ASSUME NEW i \in DOMAIN wire' PROVE Origin'[wire'[i][1]] = sock_origin'
    <3>1. wire' \in Seq(Unit) /\ i \in 1 .. Len(wire')
      BY <1>12
    <3>2. \/ i \in 1 .. Len(wire) /\ wire'[i] = wire[i]
          \/ wire'[i] = x \/ wire'[i] = y
      BY <1>5, <1>9, <1>10, <3>1
    <3>3. QED
      BY <1>3, <1>9, <2>1, <3>2
  <2>3. QED
    BY <2>2 DEF RightOrigin
<1>18. QED
  BY <1>1, <1>2, <1>3, <1>13, <1>15, <1>16, <1>17 DEF Inv, TypesOK

\* A new socket replaces the old one.
LEMMA NewOK ==
  ASSUME Inv, ControlInv', NEW r \in Reqs, Connected(r), UNCHANGED Origin
  PROVE  Inv'
<1>1. TypesOK /\ RetryInv /\ WireInv /\ OwnInv /\ RightOrigin
  BY DEF Inv
<1>2. RetryInv' /\ OthersStay(r) /\ LocalsOK'
  BY <1>1, TransmitsRetry DEF Transmits
<1>3. /\ UNCHANGED <<from, result, pending>>
      /\ pc[r] = "mksock" /\ pc' = [pc EXCEPT ![r] = "status"]
      /\ can_retry' = [can_retry EXCEPT ![r] = FALSE]
      /\ sock_generation < MaxSockets /\ sock_generation' = sock_generation + 1
      /\ last_gen' = [last_gen EXCEPT ![r] = sock_generation + 1]
      /\ recv_expect' = [recv_expect EXCEPT ![r] = 0]
      /\ sock_sent' = 0 + 1 /\ sock_received' = 0 /\ sock_origin' = Origin[r]
      /\ wire' = <<>> \o <<<<r, "head">>, <<r, "body">>>> /\ inbox' = <<>>
      /\ sock' \in {TRUE} /\ keepalive' = TRUE /\ server_open' = TRUE
  BY DEF Connected, Transmit, NewSocket, NoRetry, Goto, answers
<1>4. sock_generation \in Nat /\ MaxSockets \in Nat /\ sock' = TRUE /\ sock_sent' = 1
  BY <1>1, <1>3, SocketTypes
<1>5. pc'[r] = "status" /\ can_retry'[r] = FALSE /\ \A q \in Reqs \ {r} : pc'[q] = pc[q]
  BY <1>1, <1>3, ControlTypes DEF TypesOK, LocalsOK
<1>6. Reading' = FALSE
  <2>1. \A q \in Reqs \ {r} : pc[q] # "body"
    BY <1>1, <1>3, Alone DEF TypesOK
  <2>2. ~Reading'
    BY <1>5, <2>1 DEF Reading
  <2>3. Reading' \in BOOLEAN
    BY DEF Reading
  <2>4. QED
    BY <2>2, <2>3, Zenon
<1>7. \A q \in Reqs \ {r} : last_gen'[q] = last_gen[q] /\ last_gen[q] \in Nat /\ last_gen[q] <= sock_generation
  BY <1>1, <1>2 DEF OthersStay, WireInv, TypesOK, LocalsOK
<1>8. last_gen'[r] = sock_generation + 1 /\ recv_expect'[r] = 0
  BY <1>1, <1>3 DEF TypesOK, LocalsOK
<1>9. Place' \in [Reqs -> Nat] /\ Place'[r] = 1 /\ \A q \in Reqs \ {r} : Place'[q] = 0
  <2>1. \A q \in Reqs \ {r} : last_gen'[q] # sock_generation'
    BY <1>3, <1>4, <1>7
  <2>2. Place'[r] = 1 /\ \A q \in Reqs \ {r} : Place'[q] = 0
    BY <1>3, <1>8, <2>1 DEF Place
  <2>3. recv_expect' \in [Reqs -> Nat]
    BY <1>2 DEF LocalsOK
  <2>4. QED
    BY <2>2, <2>3 DEF Place
<1> DEFINE x == <<r, "head">>
           y == <<r, "body">>
<1>10. x \in Unit /\ x[1] = r /\ x[2] = "head" /\ y \in Unit /\ y[1] = r /\ y[2] = "body"
  BY DEF Unit
<1>11. wire' = <<>> \o <<x, y>>
  BY <1>3
<1> HIDE DEF x, y
<1>12. wire' \in Seq(Unit) /\ WireOK(Place', TRUE, 1, 0, wire', <<>>, TRUE, FALSE)
  BY <1>9, <1>10, <1>11, WireNew
<1>13. WireInv'
  <2>1. WireOK(Place', sock', sock_sent', sock_received', wire', inbox', server_open', Reading')
    BY <1>3, <1>4, <1>6, <1>12
  <2>2. \A q \in Reqs : last_gen'[q] <= sock_generation'
    <3>1. \A q \in Reqs \ {r} : last_gen'[q] <= sock_generation + 1
      BY <1>4, <1>7
    <3>2. QED
      BY <1>3, <1>4, <1>8, <3>1
  <2>3. sock_generation' > 0
    BY <1>3, <1>4
  <2>4. QED
    BY <2>1, <2>2, <2>3 DEF WireInv
<1>14. OwnAt(r)'
  BY <1>5 DEF OwnAt
<1>15. OwnInv'
  BY <1>1, <1>2, <1>3, <1>14, OwnOthers
<1>16. SocketOK'
  <2>1. sock_generation' \in 0 .. MaxSockets /\ inbox' \in Seq(Unit)
    BY <1>3, <1>4
  <2>2. QED
    BY <1>1, <1>3, <1>4, <1>12, <2>1 DEF TypesOK, SocketOK, Unit
<1>17. RightOrigin'
  <2>1. ASSUME NEW i \in DOMAIN wire' PROVE Origin'[wire'[i][1]] = sock_origin'
    <3>1. wire'[i] = x \/ wire'[i] = y
      BY <1>10, <1>11
    <3>2. QED
      BY <1>3, <1>10, <3>1
  <2>2. QED
    BY <2>1 DEF RightOrigin
<1>18. QED
  BY <1>1, <1>2, <1>3, <1>13, <1>15, <1>16, <1>17 DEF Inv, TypesOK

\* The clock and the server.
LEMMA ClockOK ==
  ASSUME Inv, ControlInv', KeepaliveExpires \/ ServerSends \/ ServerCloses \/ UNCHANGED vars
  PROVE  Inv'
<1>1. TypesOK /\ RetryInv /\ WireInv /\ OwnInv /\ RightOrigin
  BY DEF Inv
<1>2. UNCHANGED <<Origin, pc, locals, answers, sock, sock_generation, sock_sent, sock_received, sock_origin>>
  BY DEF KeepaliveExpires, ServerSends, ServerCloses, vars, socket
<1>3. /\ Place' = Place /\ (Reading' <=> Reading) /\ RetryInv' /\ OwnInv' /\ LocalsOK'
      /\ pending' \in Seq(Reqs)
  <2>1. Place' = Place
    BY <1>2 DEF Place, locals
  <2>2. Reading' <=> Reading
    BY <1>2 DEF Reading
  <2>3. RetryInv'
    BY <1>1, <1>2 DEF RetryInv, RetryAt, locals, answers
  <2>4. OwnInv'
    BY <1>1, <1>2, <2>1 DEF OwnInv, OwnAt, locals, answers
  <2>5. LocalsOK' /\ pending' \in Seq(Reqs)
    BY <1>1, <1>2 DEF TypesOK, LocalsOK, locals, answers
  <2>6. QED
    BY <2>1, <2>2, <2>3, <2>4, <2>5
<1>4. /\ Place \in [Reqs -> Nat] /\ sock_sent \in Nat /\ sock_received \in Nat
      /\ wire \in Seq(Unit) /\ inbox \in Seq(Unit) /\ server_open \in BOOLEAN /\ Reading \in BOOLEAN
      /\ sock \in BOOLEAN
  BY <1>1, PlaceType, SocketTypes
<1>5. Reading' = Reading
  <2>1. Reading' \in BOOLEAN
    BY DEF Reading
  <2>2. QED
    BY <1>3, <1>4, <2>1, Zenon
<1>6. WireOK(Place, sock, sock_sent, sock_received, wire, inbox, server_open, Reading)
  BY <1>1 DEF WireInv
<1>7. /\ wire' \in Seq(Unit) /\ inbox' \in Seq(Unit) /\ server_open' \in BOOLEAN /\ keepalive' \in BOOLEAN
      /\ WireOK(Place, sock, sock_sent, sock_received, wire', inbox', server_open', Reading)
      /\ \A i \in DOMAIN wire' : \E j \in DOMAIN wire : wire'[i] = wire[j]
  <2>1. CASE KeepaliveExpires \/ UNCHANGED vars
    <3>1. wire' = wire /\ inbox' = inbox /\ server_open' = server_open /\ keepalive' \in BOOLEAN
      BY <1>1, <2>1 DEF KeepaliveExpires, vars, network, socket, TypesOK, SocketOK
    <3>2. QED
      BY <1>4, <1>6, <3>1
  <2>2. CASE ServerSends
    <3>1. /\ wire # <<>> /\ wire' = Tail(wire) /\ inbox' = Append(inbox, Head(wire))
          /\ server_open' = server_open /\ keepalive' \in BOOLEAN
      BY <1>1, <2>2 DEF ServerSends, socket, TypesOK, SocketOK
    <3>2. /\ Tail(wire) \in Seq(Unit) /\ Append(inbox, Head(wire)) \in Seq(Unit)
          /\ WireOK(Place, sock, sock_sent, sock_received, Tail(wire), Append(inbox, Head(wire)),
                    server_open, Reading)
      BY <1>4, <1>6, <3>1, WireArrives
    <3>3. \A i \in DOMAIN Tail(wire) : i + 1 \in DOMAIN wire /\ Tail(wire)[i] = wire[i + 1]
      BY <1>4, <3>1
    <3>4. QED
      BY <1>4, <3>1, <3>2, <3>3
  <2>3. CASE ServerCloses
    <3>1. /\ wire' = <<>> /\ inbox' = inbox /\ server_open' \in BOOLEAN /\ ~server_open'
          /\ keepalive' \in BOOLEAN
      BY <1>1, <2>3 DEF ServerCloses, socket, TypesOK, SocketOK
    <3>2. WireOK(Place, sock, sock_sent, sock_received, wire', inbox, server_open', Reading)
      BY <1>4, <1>6, <3>1, WireCloses
    <3>3. wire' \in Seq(Unit) /\ DOMAIN wire' = {}
      BY <3>1
    <3>4. QED
      BY <1>4, <3>1, <3>2, <3>3
  <2>4. QED
    BY <2>1, <2>2, <2>3
<1>8. WireInv'
  <2>1. WireOK(Place', sock', sock_sent', sock_received', wire', inbox', server_open', Reading')
    BY <1>2, <1>3, <1>5, <1>7
  <2>2. QED
    BY <1>1, <1>2, <2>1 DEF WireInv, locals
<1>9. SocketOK'
  BY <1>1, <1>2, <1>7 DEF TypesOK, SocketOK, Unit
<1>10. RightOrigin'
  BY <1>1, <1>2, <1>7 DEF RightOrigin
<1>11. QED
  BY <1>3, <1>8, <1>9, <1>10 DEF Inv, TypesOK

LEMMA InvInit == Init => Inv
<1> SUFFICES ASSUME Init PROVE Inv
  OBVIOUS
<1>1. ControlInv
  BY ControlInit
<1>2. LocalsOK
  BY DEF Init, LocalsOK
<1>3. SocketOK /\ pending \in Seq(Reqs)
  <2>1. 0 \in 0 .. MaxSockets
    BY HttpAssumption
  <2>2. <<>> \in Seq(Reqs \X {"head", "body"}) /\ <<>> \in Seq(Reqs)
    OBVIOUS
  <2>3. sock \in BOOLEAN /\ keepalive \in BOOLEAN /\ server_open \in BOOLEAN
    BY DEF Init
  <2>4. QED
    BY <2>1, <2>2, <2>3 DEF Init, SocketOK
<1>4. RetryInv
  <2>1. "e_connect" # None
    BY DEF None
  <2>2. \A r \in Reqs : IF Method[r] = "GET" THEN 0 <= 1 ELSE 0 <= 0
    OBVIOUS
  <2>3. QED
    BY <2>1, <2>2 DEF Init, RetryInv, RetryAt
<1>5. WireInv
  <2>1. ~Reading
    BY DEF Init, Reading
  <2>2. WireOK(Place, sock, sock_sent, sock_received, wire, inbox, server_open, Reading)
    BY <2>1 DEF Init, WireOK
  <2>3. QED
    BY <2>2 DEF Init, WireInv
<1>6. OwnInv
  BY HttpAssumption DEF Init, OwnInv, OwnAt
<1>7. RightOrigin
  BY DEF Init, RightOrigin
<1>8. QED
  BY <1>1, <1>2, <1>3, <1>4, <1>5, <1>6, <1>7 DEF Inv, TypesOK

LEMMA InvNext == ~CancelScheduled /\ Inv /\ [Next]_vars => Inv'
<1> SUFFICES ASSUME ~CancelScheduled, Inv, [Next]_vars PROVE Inv'
  OBVIOUS
<1>1. ControlInv'
  BY ControlNext DEF Inv, TypesOK
<1>2. ASSUME NEW r \in Reqs, Call(r) \/ Step(r) \/ Cancel(r)
      PROVE  Inv'
  <2>1. UNCHANGED Origin
    BY <1>2 DEF Call, Step, Cancel
  <2>2. \/ Silent(r) \/ Fails(r) \/ ReadHead(r) \/ ReadBody(r) \/ LostInBody(r)
        \/ Pipeline(r) \/ ReuseSocket(r) \/ Connected(r)
    BY <1>2 DEF Step, Silent, Fails
  <2>3. QED
    BY <1>1, <2>1, <2>2, SilentOK, FailsOK, HeadOK, BodyOK, SendOK, NewOK
<1>3. CASE KeepaliveExpires \/ ServerSends \/ ServerCloses \/ UNCHANGED vars
  BY <1>1, <1>3, ClockOK
<1>4. QED
  BY <1>2, <1>3 DEF Next

LEMMA Invariant == ~CancelScheduled /\ Spec => []Inv
<1>1. CASE ~CancelScheduled
  <2>1. Inv /\ [Next]_vars => Inv'
    BY <1>1, InvNext
  <2>2. QED
    BY <2>1, InvInit, PTL DEF Spec, Safe
<1>2. CASE CancelScheduled
  BY <1>2
<1>3. QED
  BY <1>1, <1>2

-----------------------------------------------------------------------------
(* The results.                                                            *)

LEMMA TypesAre == Inv => TypeOK
<1> SUFFICES ASSUME Inv PROVE TypeOK
  OBVIOUS
<1>1. TypesOK /\ sock_received <= sock_sent /\ sock_sent \in Nat /\ sock_received \in Nat
  BY SocketTypes DEF Inv, WireInv, WireOK
<1>2. sock_received \in 0 .. sock_sent
  BY <1>1
<1>3. mut \in [{1, 2} -> [locked : BOOLEAN, waiters : Seq(Reqs)]]
  BY <1>1, ControlTypes DEF TypesOK, MutexValue, MutexOver
<1>4. QED
  BY <1>1, <1>2, <1>3, ControlTypes DEF TypesOK, TypeOK, LocalsOK, SocketOK

LEMMA OneReads == Inv => OneReader
<1> SUFFICES ASSUME Inv PROVE OneReader
  OBVIOUS
<1>1. ControlInv
  BY DEF Inv, TypesOK
<1>2. ASSUME NEW r \in Reqs, pc[r] \in {"recreate", "mksock", "status", "body"}
      PROVE  2 \in held[r]
  <2>1. \A x \in {"recreate", "mksock", "status", "body"} : \A h \in HeldAt(x) : 2 \in h
    BY DEF HeldAt
  <2>2. QED
    BY <1>1, <1>2, <2>1 DEF ControlInv
<1>3. \A r, q \in Reqs : held[r] \cap held[q] # {} => r = q
  BY <1>1 DEF ControlInv, MutexesOK, OneHolder
<1>4. QED
  BY <1>2, <1>3 DEF OneReader

\* Nobody waits, so nobody was scheduled, so neither mutex is locked for anybody.
LEMMA NothingLeaks == Inv => NoLockLeaked
<1> SUFFICES ASSUME Inv, \A r \in Reqs : pc[r] \in {"idle", "done", "gone"}
             PROVE  mut = <<Unlocked, Unlocked>> /\ scheduled = <<>> /\ stack = <<>>
  BY DEF NoLockLeaked
<1>1. ControlInv
  BY DEF Inv, TypesOK
<1>2. /\ scheduled \in Seq(Reqs) /\ stack \in Seq(Reqs) /\ mut \in [{1, 2} -> MutexValue]
  BY <1>1, ControlTypes
<1>3. \A r \in Reqs : /\ pc[r] \notin RunLabels /\ held[r] = {}
                      /\ \A m \in {1, 2} : ~Waits(pc[r], m)
  <2>1. \A x \in {"idle", "done", "gone"} : /\ x \notin RunLabels /\ HeldAt(x) = {{}}
                                            /\ \A m \in {1, 2} : ~Waits(x, m)
    BY DEF RunLabels, HeldAt, Waits
  <2>2. QED
    BY <1>1, <2>1 DEF ControlInv
<1>4. stack = <<>>
  <2>1. \A i \in 1 .. Len(stack) : FALSE
    BY <1>1, <1>2, <1>3 DEF ControlInv, StackOK
  <2>2. QED
    BY <1>2, <2>1
<1>5. scheduled = <<>>
  <2>1. \A i \in 1 .. Len(scheduled) : FALSE
    BY <1>1, <1>2, <1>3 DEF ControlInv, MutexesOK, ScheduledOnce, HandedTo
  <2>2. QED
    BY <1>2, <2>1
<1>6. ASSUME NEW m \in {1, 2} PROVE mut[m] = Unlocked
  <2>1. mut[m].waiters = <<>>
    <3>1. mut[m].waiters \in Seq(Reqs)
      BY <1>2, WaitersAre
    <3>2. \A i \in 1 .. Len(mut[m].waiters) : FALSE
      BY <1>1, <1>2, <1>3, WaitersAre DEF ControlInv, MutexesOK, WaitersWait
    <3>3. QED
      BY <3>1, <3>2
  <2>2. ~mut[m].locked
    BY <1>1, <1>3, <1>5 DEF ControlInv, MutexesOK, LockHasKeeper, Free
  <2>3. mut[m] \in MutexValue
    BY <1>2
  <2>4. QED
    BY <2>1, <2>2, <2>3 DEF MutexValue, MutexOver, Unlocked
<1>7. mut = <<Unlocked, Unlocked>>
  <2>1. DOMAIN mut = {1, 2} /\ mut = [i \in {1, 2} |-> mut[i]] /\ mut[1] = Unlocked /\ mut[2] = Unlocked
    BY <1>2, <1>6
  <2>2. QED
    BY <2>1, Pair
<1>8. QED
  BY <1>4, <1>5, <1>7

\* The two mutexes of http_t guard the socketbuf: only their holder touches it, and when
\* the last request has ended, however it did, both are free and nobody waits.
THEOREM SocketIsGuarded == ~CancelScheduled /\ Spec => []LocksAreSound
<1>1. Inv => LocksAreSound
  BY TypesAre, OneReads, NothingLeaks DEF LocksAreSound
<1>2. QED
  BY <1>1, Invariant, PTL

\* A request other than a GET is sent once, a GET at most twice, and e_connect is only
\* said of a request that, if it is not a GET, was not sent.
THEOREM NothingIsRepeated == ~CancelScheduled /\ Spec => []RetryIsSafe
<1>1. Inv => RetryIsSafe
  <2> SUFFICES ASSUME Inv PROVE RetryIsSafe
    OBVIOUS
  <2>1. RetryInv /\ \A r \in Reqs : sends[r] \in Nat /\ can_retry[r] \in BOOLEAN
    BY DEF Inv, TypesOK, LocalsOK
  <2>2. ASSUME NEW r \in Reqs PROVE sends[r] <= IF Method[r] = "GET" THEN 2 ELSE 1
    BY <2>1 DEF RetryInv, RetryAt
  <2>3. ASSUME NEW r \in Reqs, result[r] = "e_connect", Method[r] # "GET" PROVE sends[r] = 0
    BY <2>1, <2>3 DEF RetryInv, RetryAt
  <2>4. QED
    BY <2>2, <2>3 DEF RetryIsSafe, SentOnce, ConnectErrorIsSafe
<1>2. QED
  BY <1>1, Invariant, PTL

\* Whatever is on its way on a connection is for the origin the connection leads to.
THEOREM SentToItsOrigin == ~CancelScheduled /\ Spec => []RightOrigin
<1>1. Inv => RightOrigin
  BY DEF Inv
<1>2. QED
  BY <1>1, Invariant, PTL

\* A request that was pipelined, and was not sent again, is answered with its own response
\* or an error, whatever was cancelled, lost or closed before it.
THEOREM PipelinedGetsItsOwn == ~CancelScheduled /\ Spec => []PipelinedResponseIsOwn
<1>1. Inv => PipelinedResponseIsOwn
  BY DEF Inv, OwnInv, OwnAt, PipelinedResponseIsOwn
<1>2. QED
  BY <1>1, Invariant, PTL

-----------------------------------------------------------------------------
(* How far a request is: those that were made earlier are further.         *)

\* Where a request is that was made and is neither answered nor cancelled.
Active == {"want1", "wait1", "sending", "have1", "want2", "want2x", "wait2", "wait2x",
           "have2", "have2x", "recreate", "mksock", "status", "body"}

\* It has mut2.
InFront == {"have2", "have2x", "recreate", "mksock", "status", "body"}

Rank(x) ==
  CASE x = "want1" -> 0
    [] x = "wait1" -> 1
    [] x = "sending" -> 2
    [] x = "have1" -> 4
    [] x \in {"want2", "want2x"} -> 5
    [] x \in {"wait2", "wait2x"} -> 6
    [] OTHER -> 7

LEMMA RankIs ==
  ASSUME NEW x
  PROVE  /\ Rank(x) \in 0 .. 7
         /\ Rank(x) = 0 <=> x = "want1"
         /\ Rank(x) = 1 <=> x = "wait1"
         /\ Rank(x) = 2 <=> x = "sending"
         /\ Rank(x) # 3
         /\ Rank(x) = 4 <=> x = "have1"
         /\ Rank(x) = 5 <=> x \in {"want2", "want2x"}
         /\ Rank(x) = 6 <=> x \in {"wait2", "wait2x"}
         /\ x \in Active => (Rank(x) = 7 <=> x \in InFront)
         /\ x \in InFront => Rank(x) = 7
<1>1. CASE x \in {"want1", "wait1", "sending", "have1", "want2", "want2x", "wait2", "wait2x"}
  BY <1>1 DEF Rank, InFront
<1>2. CASE x \notin {"want1", "wait1", "sending", "have1", "want2", "want2x", "wait2", "wait2x"}
  <2>1. Rank(x) = 7
    BY <1>2 DEF Rank
  <2>2. QED
    BY <1>2, <2>1 DEF Active, InFront
<1>3. QED
  BY <1>1, <1>2

\* A new request that finds mut1 free passes one whose send failed.
Level(r) == IF pc[r] = "want1" /\ CanTake(mut[1]) THEN 3 ELSE Rank(pc[r])

LEMMA LevelIs ==
  ASSUME NEW r \in Reqs
  PROVE  /\ Level(r) \in 0 .. 7
         /\ pc[r] # "want1" => Level(r) = Rank(pc[r])
         /\ pc[r] = "want1" => Level(r) = IF CanTake(mut[1]) THEN 3 ELSE 0
<1>1. CASE pc[r] = "want1"
  BY <1>1, RankIs DEF Level
<1>2. CASE pc[r] # "want1"
  BY <1>2, RankIs DEF Level
<1>3. QED
  BY <1>1, <1>2

\* c is further than d, or they wait for the same mutex and c is in front.
Behind(c, d) ==
  \/ Level(c) > Level(d)
  \/ \E m \in {1, 2} :
       Waits(pc[c], m) /\ Waits(pc[d], m) /\ Precedes(mut[m].waiters, c, d)

PendingExact ==
  /\ Distinct(pending)
  /\ \A r \in Reqs : Contains(pending, r) <=> pc[r] \in Active

QueuesExact ==
  \A m \in {1, 2} :
    /\ \A r \in Reqs : Waits(pc[r], m) => Contains(mut[m].waiters, r)
    /\ mut[m].waiters # <<>> => mut[m].locked

PendingInOrder == \A c, d \in Reqs : Precedes(pending, c, d) => Behind(c, d)

OrderInv == PendingExact /\ QueuesExact /\ PendingInOrder

\* A send fails for a connection that the server closed, and without a socket nobody sends.
NestInv ==
  /\ sock => \A d \in Reqs : pc[d] # "sending"
  /\ ~MayClose => (sock => server_open) /\ \A d \in Reqs : pc[d] # "sending"

\* Only the coroutine on top of the stack is between two co_awaits.
LEMMA Busy ==
  ASSUME ControlInv, NEW c \in Reqs, pc[c] \in RunLabels, pc[c] \notin {"return", "sending"}
  PROVE  stack # <<>> /\ Head(stack) = c
<1>1. PICK i \in 1 .. Len(stack) : stack[i] = c
  BY DEF ControlInv, StackOK, Contains
<1>2. i \notin 2 .. Len(stack)
  BY <1>1 DEF ControlInv, StackOK
<1>3. i = 1 /\ stack \in Seq(Reqs) /\ Len(stack) > 0
  BY <1>1, <1>2 DEF ControlInv, StackOK
<1>4. QED
  BY <1>1, <1>3

\* The other requests are in none of these places while r makes a step.
Hurried == {"want1", "have1", "want2", "want2x", "have2", "have2x", "recreate"}

LEMMA OneRuns ==
  ASSUME ControlInv, NEW r \in Reqs, Running(r) \/ Dispatching \/ CallerRuns
  PROVE  \A q \in Reqs \ {r} : pc[q] \notin Hurried
<1> SUFFICES ASSUME NEW q \in Reqs \ {r}, pc[q] \in Hurried PROVE FALSE
  OBVIOUS
<1>1. stack # <<>> /\ Head(stack) = q
  BY Busy DEF Hurried, RunLabels
<1>2. QED
  BY <1>1 DEF Running, Dispatching, CallerRuns, Hurried

LEMMA OthersWait ==
  ASSUME ControlInv, NEW r \in Reqs, Call(r) \/ Step(r) \/ Cancel(r)
  PROVE  \A q \in Reqs \ {r} : pc[q] \notin Hurried
<1>1. CASE Call(r) \/ Cancel(r)
  BY <1>1, OneRuns DEF Call, Cancel
<1>2. CASE Step(r)
  <2>1. Running(r) \/ Dispatching
    BY <1>2 DEF Step, LockFree, LockBusy, LockHandedOver, Pipeline, SendReturns, Exclusive,
       ReuseSocket, ReadTurn, NeedSocket, GiveUp, Connect, Connected, ConnectFails, ReadHead,
       ReadBody, Reject, LostBeforeStatus, LostInHeaders, LostInBody, ReadFails, Return
  <2>2. QED
    BY <2>1, OneRuns
<1>3. QED
  BY <1>1, <1>2

\* Nobody runs when the run loop looks for what is ready.
LEMMA NobodyRuns ==
  ASSUME ControlInv, Dispatching
  PROVE  \A q \in Reqs : pc[q] \notin RunLabels
BY DEF ControlInv, StackOK, Contains, Dispatching

\* What r does leaves the others where they are, and in their order.
Keeps(r) ==
  /\ \A q \in Reqs \ {r} : pc'[q] = pc[q] /\ pc[q] # "want1"
  /\ \A q, c \in Reqs \ {r} :
       /\ Precedes(pending', q, c) => Precedes(pending, q, c)
       /\ \A m \in {1, 2} :
            Precedes(mut[m].waiters, q, c) => Precedes(mut'[m].waiters, q, c)

LEMMA OthersInOrder ==
  ASSUME PendingInOrder, NEW r \in Reqs, Keeps(r),
         ~Precedes(pending', r, r),
         \A c \in Reqs \ {r} : Precedes(pending', c, r) => Behind(c, r)',
         \A d \in Reqs \ {r} : Precedes(pending', r, d) => Behind(r, d)'
  PROVE  PendingInOrder'
<1> SUFFICES ASSUME NEW c \in Reqs, NEW d \in Reqs, Precedes(pending', c, d)
             PROVE  Behind(c, d)'
  BY DEF PendingInOrder
<1>1. CASE c # r /\ d # r
  <2>1. Precedes(pending, c, d)
    BY <1>1 DEF Keeps
  <2>2. Behind(c, d)
    BY <2>1 DEF PendingInOrder
  <2>3. /\ pc'[c] = pc[c] /\ pc'[d] = pc[d] /\ pc[c] # "want1" /\ pc[d] # "want1"
        /\ \A m \in {1, 2} :
             Precedes(mut[m].waiters, c, d) => Precedes(mut'[m].waiters, c, d)
    BY <1>1 DEF Keeps
  <2>4. Level(c)' = Level(c) /\ Level(d)' = Level(d)
    BY <2>3 DEF Level
  <2>5. QED
    BY <2>2, <2>3, <2>4 DEF Behind
<1>2. QED
  BY <1>1

\* What a step of r does to the list of waiters of a mutex: nothing, unlink r or append it.
QueueStep(r, y, w, w2, m) ==
  \/ w2 = w /\ (Waits(y, m) => Waits(pc[r], m))
  \/ w2 = Unlink(w, r) /\ ~Waits(y, m)
  \/ w2 = Append(w, r) /\ ~Contains(w, r)

LEMMA QueueStepIs ==
  ASSUME ControlInv, QueuesExact, NEW r \in Reqs, NEW y \in Labels, Goto(r, y),
         NEW m \in {1, 2}, NEW w2, QueueStep(r, y, mut[m].waiters, w2, m)
  PROVE  /\ \A q \in Reqs : Waits(pc'[q], m) => Contains(w2, q)
         /\ \A q, c \in Reqs \ {r} : Precedes(mut[m].waiters, q, c) => Precedes(w2, q, c)
         /\ Waits(y, m) => \A c \in Reqs \ {r} :
              Waits(pc[c], m) /\ ~Contains(mut[m].waiters, r) => Precedes(w2, c, r)
<1> DEFINE w == mut[m].waiters
<1>1. w \in Seq(Reqs) /\ Distinct(w)
  BY WaitersAre DEF ControlInv, MutexesOK, MutexTypes, WaitersWait
<1>2. \A q \in Reqs : Waits(pc[q], m) => Contains(w, q)
  BY DEF QueuesExact
<1>3. pc'[r] = y /\ \A q \in Reqs \ {r} : pc'[q] = pc[q]
  BY ControlTypes DEF Goto
<1> HIDE DEF w
<1>4. CASE w2 = w /\ (Waits(y, m) => Waits(pc[r], m))
  <2>1. Waits(y, m) => Contains(w, r)
    BY <1>2, <1>4
  <2>2. QED
    BY <1>2, <1>3, <1>4, <2>1 DEF w
<1>5. CASE w2 = Unlink(w, r) /\ ~Waits(y, m)
  <2>1. /\ \A x : Contains(w2, x) <=> Contains(w, x) /\ x # r
        /\ \A x, z : Precedes(w2, x, z) <=> Precedes(w, x, z) /\ x # r /\ z # r
    BY <1>1, <1>5, UnlinkOrder
  <2>2. QED
    BY <1>2, <1>3, <1>5, <2>1 DEF w
<1>6. CASE w2 = Append(w, r) /\ ~Contains(w, r)
  <2>1. /\ \A x : Contains(w2, x) <=> Contains(w, x) \/ x = r
        /\ \A x, z : Precedes(w2, x, z) <=> Precedes(w, x, z) \/ (z = r /\ Contains(w, x))
    BY <1>1, <1>6, AppendOrder
  <2>2. QED
    BY <1>2, <1>3, <1>6, <2>1 DEF w
<1>7. QED
  BY <1>4, <1>5, <1>6 DEF QueueStep, w

\* The two lists, and the others' labels.
QueuesStep(r, y) ==
  \A m \in {1, 2} :
    /\ QueueStep(r, y, mut[m].waiters, mut'[m].waiters, m)
    /\ mut'[m].waiters # <<>> => mut'[m].locked

LEMMA QueuesStepOK ==
  ASSUME ControlInv, QueuesExact, NEW r \in Reqs, NEW y \in Labels, Goto(r, y), QueuesStep(r, y)
  PROVE  /\ QueuesExact'
         /\ \A q, c \in Reqs \ {r} : \A m \in {1, 2} :
              Precedes(mut[m].waiters, q, c) => Precedes(mut'[m].waiters, q, c)
<1>1. ASSUME NEW m \in {1, 2}
      PROVE  /\ \A q \in Reqs : Waits(pc'[q], m) => Contains(mut'[m].waiters, q)
             /\ \A q, c \in Reqs \ {r} :
                  Precedes(mut[m].waiters, q, c) => Precedes(mut'[m].waiters, q, c)
  BY QueueStepIs DEF QueuesStep
<1>2. QED
  BY <1>1 DEF QueuesExact, QueuesStep

\* A request that is made comes last, or before one that it overtakes.
LEMMA InTurnOrder ==
  ASSUME pending \in Seq(Reqs), Distinct(pending), NEW r \in Reqs, ~Contains(pending, r),
         NEW u, u = InTurn(r)
  PROVE  /\ Distinct(u) /\ ~Precedes(u, r, r)
         /\ \A x : Contains(u, x) <=> Contains(pending, x) \/ x = r
         /\ \A x, z : x # r /\ z # r => (Precedes(u, x, z) <=> Precedes(pending, x, z))
         /\ \/ /\ \A s : Overtaken(s) /\ Contains(pending, s) =>
                           \E z \in Reqs : Precedes(pending, s, z)
               /\ \A x : (Precedes(u, x, r) => Contains(pending, x)) /\ ~Precedes(u, r, x)
            \/ \E s \in Reqs :
                 /\ Overtaken(s) /\ Contains(pending, s)
                 /\ \A x : Precedes(u, x, r) => Precedes(pending, x, s)
                 /\ \A x : Precedes(u, r, x) => x = s
<1>0. Len(pending) \in Nat /\ DOMAIN pending = 1 .. Len(pending)
  OBVIOUS
<1>1. CASE pending # <<>> /\ Overtaken(Last(pending))
  <2> DEFINE e == Last(pending)
  <2>1. u = Front(pending) \o <<r, Last(pending)>>
    BY <1>1 DEF InTurn
  <2> DEFINE v == Front(pending) \o <<r, Last(pending)>>
  <2>p. /\ Distinct(v)
        /\ \A x : Contains(v, x) <=> Contains(pending, x) \/ x = r
        /\ \A x, z : x # r /\ z # r => (Precedes(v, x, z) <=> Precedes(pending, x, z))
        /\ \A x : Precedes(v, x, r) => Precedes(pending, x, e)
        /\ \A x : Precedes(v, r, x) => x = e
    BY <1>1, PassOrder, Zenon
  <2>q. u = v
    BY <2>1
  <2> HIDE DEF e, v
  <2>2. /\ Distinct(u)
        /\ \A x : Contains(u, x) <=> Contains(pending, x) \/ x = r
        /\ \A x, z : x # r /\ z # r => (Precedes(u, x, z) <=> Precedes(pending, x, z))
        /\ \A x : Precedes(u, x, r) => Precedes(pending, x, e)
        /\ \A x : Precedes(u, r, x) => x = e
    BY <2>p, <2>q
  <2>3. e \in Reqs /\ Contains(pending, e) /\ Overtaken(e)
    BY <1>0, <1>1 DEF Last, Contains, e
  <2>4. ~Precedes(u, r, r)
    BY <2>2, <2>3
  <2>5. QED
    BY <2>2, <2>3, <2>4
<1>2. CASE ~(pending # <<>> /\ Overtaken(Last(pending)))
  <2>1. u = Append(pending, r)
    BY <1>2 DEF InTurn
  <2>2. /\ Distinct(u)
        /\ \A x : Contains(u, x) <=> Contains(pending, x) \/ x = r
        /\ \A x, z : Precedes(u, x, z) <=>
                       Precedes(pending, x, z) \/ (z = r /\ Contains(pending, x))
    BY <2>1, AppendOrder
  <2>3. \A x, z : Precedes(pending, x, z) => Contains(pending, x) /\ Contains(pending, z)
    BY <1>0 DEF Precedes, Contains
  <2>4. ASSUME NEW s, Overtaken(s), Contains(pending, s)
        PROVE  \E z \in Reqs : Precedes(pending, s, z)
    <3>1. PICK i \in 1 .. Len(pending) : pending[i] = s
      BY <1>0, <2>4 DEF Contains
    <3>2. i # Len(pending)
      <4> SUFFICES ASSUME i = Len(pending) PROVE FALSE
        OBVIOUS
      <4>1. pending # <<>> /\ Last(pending) = s
        BY <1>0, <3>1 DEF Last
      <4>2. QED
        BY <1>2, <2>4, <4>1, Zenon
    <3>3. i \in 1 .. Len(pending) /\ i < Len(pending) /\ Len(pending) \in 1 .. Len(pending)
      <4> DEFINE n == Len(pending)
      <4>1. n \in Nat /\ i \in 1 .. n /\ i # n
        BY <1>0, <3>1, <3>2
      <4> HIDE DEF n
      <4>2. i < n /\ n \in 1 .. n
        BY <4>1
      <4>3. QED
        BY <4>1, <4>2 DEF n
    <3>4. pending[Len(pending)] \in Reqs
      BY <3>3, ElementOfSeq
    <3>5. QED
      BY <3>1, <3>3, <3>4 DEF Precedes
  <2>5. QED
    BY <2>2, <2>3, <2>4
<1>3. QED
  BY <1>1, <1>2

\* What a step of r does to the list of unanswered requests.
PendingStep(r, y) ==
  \/ pending' = pending /\ (y \in Active <=> pc[r] \in Active)
  \/ pending' = Unlink(pending, r) /\ y \notin Active
  \/ pending' = InTurn(r) /\ pc[r] \notin Active /\ y \in Active

LEMMA PendingStepOK ==
  ASSUME TypesOK, PendingExact, NEW r \in Reqs, NEW y \in Labels, Goto(r, y), PendingStep(r, y)
  PROVE  /\ PendingExact'
         /\ \A q, c \in Reqs \ {r} : Precedes(pending', q, c) => Precedes(pending, q, c)
         /\ ~Precedes(pending', r, r)
         /\ y \notin Active =>
              \A c \in Reqs : ~Precedes(pending', c, r) /\ ~Precedes(pending', r, c)
         /\ y \in Active /\ pc[r] \in Active => pending' = pending
<1>1. pending \in Seq(Reqs) /\ Distinct(pending)
  BY DEF TypesOK, PendingExact
<1>2. \A q \in Reqs : Contains(pending, q) <=> pc[q] \in Active
  BY DEF PendingExact
<1>3. pc'[r] = y /\ \A q \in Reqs \ {r} : pc'[q] = pc[q]
  BY ControlTypes DEF Goto, TypesOK
<1>4. \A x, z : Precedes(pending, x, z) => x # z /\ Contains(pending, x) /\ Contains(pending, z)
  BY <1>1 DEF Precedes, Distinct, Contains
<1>5. CASE pending' = pending /\ (y \in Active <=> pc[r] \in Active)
  <2>1. PendingExact'
    BY <1>1, <1>2, <1>3, <1>5 DEF PendingExact
  <2>2. QED
    BY <1>2, <1>4, <1>5, <2>1
<1>6. CASE pending' = Unlink(pending, r) /\ y \notin Active
  <2>1. /\ Distinct(pending')
        /\ \A x : Contains(pending', x) <=> Contains(pending, x) /\ x # r
        /\ \A x, z : Precedes(pending', x, z) <=> Precedes(pending, x, z) /\ x # r /\ z # r
    BY <1>1, <1>6, UnlinkOrder
  <2>2. PendingExact'
    BY <1>2, <1>3, <1>6, <2>1 DEF PendingExact
  <2>3. QED
    BY <1>6, <2>1, <2>2
<1>7. CASE pending' = InTurn(r) /\ pc[r] \notin Active /\ y \in Active
  <2>1. ~Contains(pending, r)
    BY <1>2, <1>7
  <2>2. /\ Distinct(pending') /\ ~Precedes(pending', r, r)
        /\ \A x : Contains(pending', x) <=> Contains(pending, x) \/ x = r
        /\ \A x, z : x # r /\ z # r => (Precedes(pending', x, z) <=> Precedes(pending, x, z))
    BY <1>1, <1>7, <2>1, InTurnOrder
  <2>3. PendingExact'
    BY <1>2, <1>3, <1>7, <2>2 DEF PendingExact
  <2>4. QED
    BY <1>7, <2>2, <2>3
<1>8. QED
  BY <1>5, <1>6, <1>7 DEF PendingStep

LEMMA KeepsOK ==
  ASSUME TypesOK, PendingExact, QueuesExact, NEW r \in Reqs, NEW y \in Labels, Goto(r, y),
         QueuesStep(r, y), PendingStep(r, y), \A q \in Reqs \ {r} : pc[q] \notin Hurried
  PROVE  Keeps(r)
<1>1. ControlInv /\ \A q \in Reqs \ {r} : pc'[q] = pc[q] /\ pc[q] # "want1"
  BY ControlTypes DEF Goto, TypesOK, Hurried
<1>2. \A q, c \in Reqs \ {r} : Precedes(pending', q, c) => Precedes(pending, q, c)
  BY PendingStepOK
<1>3. \A q, c \in Reqs \ {r} : \A m \in {1, 2} :
        Precedes(mut[m].waiters, q, c) => Precedes(mut'[m].waiters, q, c)
  BY <1>1, QueuesStepOK
<1>4. QED
  BY <1>1, <1>2, <1>3 DEF Keeps

\* A request leaves: it is answered or cancelled, or it was before.
LEMMA OrderLeaves ==
  ASSUME TypesOK, OrderInv, NEW r \in Reqs, NEW y \in Labels \ Active, Goto(r, y),
         QueuesStep(r, y), PendingStep(r, y), \A q \in Reqs \ {r} : pc[q] \notin Hurried
  PROVE  OrderInv'
<1>1. ControlInv /\ PendingExact /\ QueuesExact /\ PendingInOrder
  BY DEF TypesOK, OrderInv
<1>2. Keeps(r)
  BY <1>1, KeepsOK
<1>3. PendingExact' /\ \A c \in Reqs : ~Precedes(pending', c, r) /\ ~Precedes(pending', r, c)
  BY <1>1, PendingStepOK
<1>4. QueuesExact'
  BY <1>1, QueuesStepOK
<1>5. PendingInOrder'
  BY <1>1, <1>2, <1>3, OthersInOrder
<1>6. QED
  BY <1>3, <1>4, <1>5 DEF OrderInv

\* Of those that are made and do not run, only two kinds have not come to mut2.
LEMMA WaitingLevel ==
  ASSUME NEW c \in Reqs, pc[c] \in Active, pc[c] \notin Hurried
  PROVE  /\ Level(c) = Rank(pc[c])
         /\ Level(c) \in {1, 2, 6, 7}
         /\ Level(c) = 1 => pc[c] = "wait1"
         /\ Level(c) = 2 => pc[c] = "sending"
<1>1. Level(c) = Rank(pc[c])
  BY LevelIs DEF Hurried
<1>2. QED
  BY <1>1, RankIs DEF Hurried, Active

\* A request is made, while nobody is about to take a mutex.
LEMMA OrderCall ==
  ASSUME TypesOK, OrderInv, NEW r \in Reqs, Call(r)
  PROVE  OrderInv'
<1>1. ControlInv /\ PendingExact /\ QueuesExact /\ PendingInOrder /\ pending \in Seq(Reqs)
  BY DEF TypesOK, OrderInv
<1>2. "want1" \in Labels /\ Goto(r, "want1") /\ pc[r] = "idle" /\ UNCHANGED <<mut, held>>
  BY DEF Call, Labels, locks
<1>3. QueuesStep(r, "want1")
  BY <1>1, <1>2 DEF QueuesStep, QueueStep, QueuesExact, Waits
<1>4. PendingStep(r, "want1") /\ "want1" \in Active /\ pc[r] \notin Active
  BY <1>2 DEF PendingStep, Call, Active
<1>h. \A q \in Reqs \ {r} : pc[q] \notin Hurried
  BY <1>1, OthersWait
<1>5. Keeps(r)
  BY <1>1, <1>2, <1>3, <1>4, <1>h, KeepsOK
<1>6. PendingExact' /\ ~Precedes(pending', r, r)
  BY <1>1, <1>2, <1>4, PendingStepOK
<1>7. QueuesExact'
  BY <1>1, <1>2, <1>3, QueuesStepOK
<1>8. /\ pc'[r] = "want1" /\ Level(r)' \in 0 .. 3
      /\ ~CanTake(mut[1]) => Level(r)' = 0
      /\ CanTake(mut[1]) => Level(r)' = 3
  <2>1. pc'[r] = "want1"
    BY <1>1, <1>2, ControlTypes DEF Goto
  <2>2. Rank("want1") = 0
    BY DEF Rank
  <2>3. QED
    BY <1>2, <2>1, <2>2 DEF Level
<1>9. \A c \in Reqs \ {r} : Level(c)' = Level(c)
  BY <1>5 DEF Keeps, Level
<1>10. \A x, z : Precedes(pending, x, z) => Contains(pending, x) /\ Contains(pending, z)
  BY <1>1 DEF Precedes, Contains
<1>11. \A c \in Reqs : Contains(pending, c) => c # r /\ pc[c] \in Active
  BY <1>1, <1>4 DEF PendingExact
<1>12. \/ /\ \A s : Overtaken(s) /\ Contains(pending, s) =>
                      \E z \in Reqs : Precedes(pending, s, z)
          /\ \A x : (Precedes(pending', x, r) => Contains(pending, x)) /\ ~Precedes(pending', r, x)
       \/ \E s \in Reqs :
            /\ Overtaken(s) /\ Contains(pending, s)
            /\ \A x : Precedes(pending', x, r) => Precedes(pending, x, s)
            /\ \A x : Precedes(pending', r, x) => x = s
  <2>1. pending' = InTurn(r) /\ ~Contains(pending, r) /\ Distinct(pending)
    BY <1>1, <1>11 DEF Call, PendingExact
  <2>2. QED
    BY <1>1, <2>1, InTurnOrder
<1>13. ASSUME /\ \A s : Overtaken(s) /\ Contains(pending, s) =>
                        \E z \in Reqs : Precedes(pending, s, z)
            /\ \A x : (Precedes(pending', x, r) => Contains(pending, x)) /\ ~Precedes(pending', r, x)
       PROVE  PendingInOrder'
  <2>1. ASSUME NEW c \in Reqs \ {r}, Precedes(pending', c, r)
        PROVE  Behind(c, r)'
    <3>1. Contains(pending, c) /\ pc[c] \in Active /\ pc[c] \notin Hurried
      BY <1>11, <1>13, <1>h, <2>1
    <3>2. CASE ~CanTake(mut[1])
      BY <1>8, <1>9, <3>1, <3>2, WaitingLevel DEF Behind
    <3>3. CASE CanTake(mut[1])
      <4>1. pc[c] # "wait1"
        BY <1>1, <3>3 DEF QueuesExact, Waits, CanTake, Contains
      <4>2. pc[c] # "sending"
        <5>1. ASSUME pc[c] = "sending" PROVE FALSE
          <6>1. PICK z \in Reqs : Precedes(pending, c, z)
            BY <1>13, <3>1, <3>3, <5>1 DEF Overtaken
          <6>2. Behind(c, z) /\ z # r /\ pc[z] \in Active
            BY <1>1, <1>10, <1>11, <6>1 DEF PendingInOrder
          <6>3. pc[z] # "wait1"
            BY <1>1, <3>3 DEF QueuesExact, Waits, CanTake, Contains
          <6>4. Level(z) >= 2 /\ Level(z) \in Nat
            BY <1>h, <6>2, <6>3, WaitingLevel
          <6>5. Level(c) = 2
            BY <5>1, LevelIs, RankIs
          <6>6. QED
            BY <5>1, <6>2, <6>4, <6>5 DEF Behind, Waits
        <5>2. QED
          BY <5>1
      <4>3. Level(c) \in {6, 7}
        BY <3>1, <4>1, <4>2, WaitingLevel
      <4>4. QED
        BY <1>8, <1>9, <3>3, <4>3 DEF Behind
    <3>4. QED
      BY <3>2, <3>3
  <2>2. ASSUME NEW d \in Reqs \ {r}, Precedes(pending', r, d)
        PROVE  Behind(r, d)'
    BY <1>13, <2>2
  <2>3. QED
    BY <1>1, <1>5, <1>6, <2>1, <2>2, OthersInOrder
<1>14. ASSUME \E s \in Reqs :
                /\ Overtaken(s) /\ Contains(pending, s)
                /\ \A x : Precedes(pending', x, r) => Precedes(pending, x, s)
                /\ \A x : Precedes(pending', r, x) => x = s
       PROVE  PendingInOrder'
  <2>1. PICK s \in Reqs :
          /\ Overtaken(s) /\ Contains(pending, s)
          /\ \A x : Precedes(pending', x, r) => Precedes(pending, x, s)
          /\ \A x : Precedes(pending', r, x) => x = s
    BY <1>14
  <2>2. pc[s] = "sending" /\ CanTake(mut[1]) /\ s # r
    BY <1>11, <2>1 DEF Overtaken
  <2>3. Level(s) = 2
    BY <2>2, LevelIs, RankIs
  <2>4. ASSUME NEW c \in Reqs \ {r}, Precedes(pending', c, r)
        PROVE  Behind(c, r)'
    <3>1. Behind(c, s) /\ pc[c] \in Active
      BY <1>1, <1>10, <1>11, <2>1, <2>4 DEF PendingInOrder
    <3>2. Level(c) > 2 /\ Level(c) \in {1, 2, 6, 7}
      BY <1>h, <2>2, <2>3, <3>1, WaitingLevel DEF Behind, Waits
    <3>3. QED
      BY <1>8, <1>9, <2>2, <3>2 DEF Behind
  <2>5. ASSUME NEW d \in Reqs \ {r}, Precedes(pending', r, d)
        PROVE  Behind(r, d)'
    BY <1>8, <1>9, <2>1, <2>2, <2>3, <2>5 DEF Behind
  <2>6. QED
    BY <1>1, <1>5, <1>6, <2>4, <2>5, OthersInOrder
<1>15. PendingInOrder'
  BY <1>12, <1>13, <1>14
<1>16. QED
  BY <1>6, <1>7, <1>15 DEF OrderInv

\* A request goes on, behind those that were further and before those that were not.
LEMMA OrderForward ==
  ASSUME TypesOK, OrderInv, NEW r \in Reqs, NEW y \in Active, pc[r] \in Active, Goto(r, y),
         QueuesStep(r, y), pending' = pending, \A q \in Reqs \ {r} : pc[q] \notin Hurried,
         \A c \in Reqs \ {r} : pc[c] \in Active /\ Behind(c, r) => Behind(c, r)',
         \A d \in Reqs \ {r} : pc[d] \in Active /\ Behind(r, d) => Rank(y) > Level(d)
  PROVE  OrderInv'
<1>1. ControlInv /\ PendingExact /\ QueuesExact /\ PendingInOrder /\ y \in Labels
  BY DEF TypesOK, OrderInv, Active, Labels
<1>2. PendingStep(r, y)
  BY DEF PendingStep
<1>3. Keeps(r) /\ QueuesExact'
  BY <1>1, <1>2, KeepsOK, QueuesStepOK
<1>4. PendingExact' /\ ~Precedes(pending', r, r)
  BY <1>1, <1>2, PendingStepOK
<1>5. \A c, d \in Reqs : Precedes(pending, c, d) => Behind(c, d) /\ pc[c] \in Active /\ pc[d] \in Active
  BY <1>1 DEF PendingInOrder, PendingExact, Precedes, Contains, TypesOK
<1>6. ASSUME NEW c \in Reqs \ {r}, Precedes(pending', c, r)
      PROVE  Behind(c, r)'
  BY <1>5, <1>6
<1>7. ASSUME NEW d \in Reqs \ {r}, Precedes(pending', r, d)
      PROVE  Behind(r, d)'
  <2>1. Rank(y) > Level(d)
    BY <1>5, <1>7
  <2>2. Level(d)' = Level(d) /\ Level(d) \in 0 .. 7
    BY <1>3, LevelIs DEF Keeps, Level
  <2>3. Level(r)' = Rank(y) \/ (Level(r)' = 3 /\ y = "want1")
    <3>1. pc'[r] = y
      BY <1>1, ControlTypes DEF Goto
    <3>2. QED
      BY <3>1 DEF Level
  <2>4. Rank(y) \in 0 .. 7 /\ (y = "want1" => Rank(y) = 0)
    BY RankIs
  <2>5. Level(r)' > Level(d)'
    BY <2>1, <2>2, <2>3, <2>4
  <2>6. QED
    BY <2>5 DEF Behind
<1>8. PendingInOrder'
  BY <1>1, <1>3, <1>4, <1>6, <1>7, OthersInOrder
<1>9. QED
  BY <1>3, <1>4, <1>8 DEF OrderInv

\* One that goes up stays before those that are behind it.
LEMMA AheadStays ==
  ASSUME NEW r \in Reqs, NEW y, Rank(y) >= Level(r), pc[r] \in WaitLabels => Rank(y) > Level(r)
  PROVE  \A d \in Reqs : Behind(r, d) => Rank(y) > Level(d)
<1> SUFFICES ASSUME NEW d \in Reqs, Behind(r, d) PROVE Rank(y) > Level(d)
  OBVIOUS
<1>1. Level(r) \in 0 .. 7 /\ Level(d) \in 0 .. 7 /\ Rank(y) \in 0 .. 7
  BY LevelIs, RankIs
<1>2. CASE Level(r) > Level(d)
  BY <1>1, <1>2
<1>3. CASE \E m \in {1, 2} : Waits(pc[r], m) /\ Waits(pc[d], m)
  <2>1. pc[r] \in WaitLabels /\ Level(d) = Level(r)
    <3>1. PICK m \in {1, 2} : Waits(pc[r], m) /\ Waits(pc[d], m)
      BY <1>3
    <3>2. \A q \in Reqs : Waits(pc[q], m) =>
            pc[q] \in WaitLabels /\ Level(q) = IF m = 1 THEN 1 ELSE 6
      BY LevelIs, RankIs DEF Waits, WaitLabels
    <3>3. QED
      BY <3>1, <3>2
  <2>2. QED
    BY <1>1, <2>1
<1>4. QED
  BY <1>2, <1>3 DEF Behind

\* The steps that do not queue for a mutex, as steps of the lists of waiters.
LEMMA QueuesStay ==
  ASSUME ControlInv, QueuesExact, NEW r \in Reqs, NEW y \in Labels \ WaitLabels,
         \/ mut' = mut
         \/ \E ms \in SUBSET {1, 2} :
              mut' = [m \in {1, 2} |-> IF m \in ms THEN Unlock(mut[m]) ELSE mut[m]]
  PROVE  QueuesStep(r, y)
<1>1. ASSUME NEW m \in {1, 2}
      PROVE  mut'[m].waiters = mut[m].waiters /\ (mut'[m].waiters # <<>> => mut'[m].locked)
  <2>1. mut[m] \in MutexValue /\ (mut[m].waiters # <<>> => mut[m].locked)
    BY ControlTypes DEF QueuesExact
  <2>2. /\ Unlock(mut[m]).waiters = mut[m].waiters
        /\ Unlock(mut[m]).locked <=> mut[m].waiters # <<>>
    BY <2>1 DEF Unlock, MutexValue, MutexOver
  <2>3. QED
    BY <2>1, <2>2
<1>2. \A m \in {1, 2} : ~Waits(y, m)
  BY DEF Waits, WaitLabels
<1>3. QED
  BY <1>1, <1>2 DEF QueuesStep, QueueStep

LEMMA QueuesForget ==
  ASSUME ControlInv, QueuesExact, NEW r \in Reqs, NEW y \in Labels \ WaitLabels,
         \A m \in {1, 2} : mut'[m] = Forget(mut[m], r) \/ mut'[m] = Forget(Unlock(mut[m]), r)
  PROVE  QueuesStep(r, y)
<1>1. ASSUME NEW m \in {1, 2}
      PROVE  /\ mut'[m].waiters = Unlink(mut[m].waiters, r)
             /\ mut'[m].waiters # <<>> => mut'[m].locked
  <2>1. mut[m] \in MutexValue /\ (mut[m].waiters # <<>> => mut[m].locked)
    BY ControlTypes DEF QueuesExact
  <2>2. /\ Forget(mut[m], r).waiters = Unlink(mut[m].waiters, r)
        /\ Forget(mut[m], r).locked = mut[m].locked
        /\ Forget(Unlock(mut[m]), r).waiters = Unlink(mut[m].waiters, r)
        /\ Forget(Unlock(mut[m]), r).locked <=> mut[m].waiters # <<>>
    BY <2>1 DEF Unlock, Forget, MutexValue, MutexOver
  <2>3. Unlink(<<>>, r) = <<>>
    BY DEF Unlink, Contains
  <2>4. QED
    BY <2>1, <2>2, <2>3
<1>2. \A m \in {1, 2} : ~Waits(y, m)
  BY DEF Waits, WaitLabels
<1>3. QED
  BY <1>1, <1>2 DEF QueuesStep, QueueStep

LEMMA QueuesTake ==
  ASSUME ControlInv, QueuesExact, NEW r \in Reqs, NEW y \in Labels \ WaitLabels,
         NEW n \in {1, 2}, mut' = [mut EXCEPT ![n] = Take(@, r)]
  PROVE  QueuesStep(r, y)
<1>1. ASSUME NEW m \in {1, 2}
      PROVE  /\ mut'[m].waiters = IF m = n THEN Unlink(mut[m].waiters, r) ELSE mut[m].waiters
             /\ mut'[m].waiters # <<>> => mut'[m].locked
  BY ControlTypes DEF QueuesExact, Take
<1>2. \A m \in {1, 2} : ~Waits(y, m)
  BY DEF Waits, WaitLabels
<1>3. QED
  BY <1>1, <1>2 DEF QueuesStep, QueueStep

LEMMA QueuesEnqueue ==
  ASSUME ControlInv, QueuesExact, NEW r \in Reqs, pc[r] \notin WaitLabels, NEW y \in WaitLabels,
         NEW n \in {1, 2}, Waits(y, n), mut[n].locked, mut' = [mut EXCEPT ![n] = Enqueue(@, r)]
  PROVE  QueuesStep(r, y) /\ ~Contains(mut[n].waiters, r)
<1>1. /\ \A m \in {1, 2} : mut[m] \in MutexValue /\ (mut[m].waiters # <<>> => mut[m].locked)
      /\ mut \in [{1, 2} -> MutexValue]
  BY ControlTypes DEF QueuesExact
<1>2. ASSUME NEW m \in {1, 2}
      PROVE  /\ mut'[m].waiters = IF m = n THEN Append(mut[m].waiters, r) ELSE mut[m].waiters
             /\ mut'[m].waiters # <<>> => mut'[m].locked
  <2>1. CASE m = n
    <3>1. mut'[m] = Enqueue(mut[m], r)
      BY <1>1, <2>1
    <3>2. /\ Enqueue(mut[m], r).waiters = Append(mut[m].waiters, r)
          /\ Enqueue(mut[m], r).locked = mut[m].locked
      BY <1>1 DEF Enqueue, MutexValue, MutexOver
    <3>3. QED
      BY <2>1, <3>1, <3>2
  <2>2. CASE m # n
    BY <1>1, <2>2
  <2>3. QED
    BY <2>1, <2>2
<1>3. \A m \in {1, 2} : Waits(y, m) => m = n
  BY WaitsOnce
<1>4. ~Contains(mut[n].waiters, r)
  <2>1. \A i \in 1 .. Len(mut[n].waiters) : Waits(pc[mut[n].waiters[i]], n)
    BY DEF ControlInv, MutexesOK, WaitersWait
  <2>2. ~Waits(pc[r], n)
    BY WaitsOnce
  <2>3. DOMAIN mut[n].waiters = 1 .. Len(mut[n].waiters)
    BY <1>1 DEF MutexValue, MutexOver
  <2>4. QED
    BY <2>1, <2>2, <2>3 DEF Contains
<1>5. QED
  BY <1>2, <1>3, <1>4 DEF QueuesStep, QueueStep

LEMMA HasMutex ==
  ASSUME ControlInv, NEW c \in Reqs
  PROVE  (pc[c] = "have1" => 1 \in held[c]) /\ (pc[c] \in InFront => 2 \in held[c])
BY DEF ControlInv, HeldAt, InFront

\* A mutex that r gets is nobody's, and nobody waits for it in front of r.
LEMMA GetsFree ==
  ASSUME TypesOK, OrderInv, NEW r \in Reqs, LockFree(r) \/ LockHandedOver(r)
  PROVE  /\ \A c \in Reqs : MutexOf(r) \notin held[c]
         /\ \A c \in Reqs : Waits(pc[c], MutexOf(r)) =>
              Waits(pc[r], MutexOf(r)) /\ ~Precedes(mut[MutexOf(r)].waiters, c, r)
<1> DEFINE m == MutexOf(r)
<1>1. m \in {1, 2} /\ ControlInv /\ MutexesOK(pc, held, mut, scheduled) /\ QueuesExact
  BY LockLabels DEF TypesOK, ControlInv, OrderInv
<1>2. CASE LockFree(r)
  <2>1. ~mut[m].locked
    BY <1>2 DEF LockFree, CanTake
  <2>2. \A c \in Reqs : m \notin held[c]
    BY <1>1, <2>1 DEF MutexesOK, HeldIsLocked, Free
  <2>3. mut[m].waiters = <<>>
    BY <1>1, <2>1 DEF QueuesExact
  <2>4. \A c \in Reqs : ~Waits(pc[c], m)
    BY <1>1, <2>3 DEF QueuesExact, Contains
  <2>5. QED
    BY <2>2, <2>4
<1>3. CASE LockHandedOver(r)
  <2>1. scheduled \in Seq(Reqs) /\ scheduled # <<>> /\ scheduled[1] = r /\ Waits(pc[r], m)
    BY <1>1, <1>3, LockLabels, ControlTypes DEF LockHandedOver, WaitLabels
  <2>2. PICK n \in {1, 2} : HandedTo(r, n, pc, held, mut)
    BY <1>1, <2>1 DEF MutexesOK, ScheduledOnce
  <2>3. HandedTo(r, m, pc, held, mut)
    BY <1>1, <2>1, <2>2, WaitsOnce DEF HandedTo
  <2>4. \A c \in Reqs : m \notin held[c]
    BY <2>3 DEF HandedTo, Free
  <2>5. \A c \in Reqs : ~Precedes(mut[m].waiters, c, r)
    <3>1. mut[m].waiters \in Seq(Reqs) /\ Distinct(mut[m].waiters)
      BY <1>1, WaitersAre DEF MutexesOK, MutexTypes, WaitersWait
    <3>2. mut[m].waiters[1] = r /\ Len(mut[m].waiters) > 0
      BY <2>3 DEF HandedTo
    <3>3. QED
      BY <3>1, <3>2, FirstPrecedes
  <2>6. QED
    BY <2>1, <2>4, <2>5
<1>4. QED
  BY <1>2, <1>3

LEMMA OrderTake ==
  ASSUME TypesOK, OrderInv, NEW r \in Reqs, LockFree(r) \/ LockHandedOver(r),
         \A q \in Reqs \ {r} : pc[q] \notin Hurried
  PROVE  OrderInv'
<1> DEFINE m == MutexOf(r)
           y == Got[pc[r]]
<1>1. /\ ControlInv /\ QueuesExact
      /\ Goto(r, y) /\ pending' = pending
      /\ mut' = [mut EXCEPT ![m] = Take(@, r)]
  BY DEF TypesOK, OrderInv, LockFree, LockHandedOver, GetsLock, answers
<1>2. /\ pc[r] \in {"want1", "want2", "want2x", "wait1", "wait2", "wait2x"}
      /\ m = IF pc[r] \in {"want1", "wait1"} THEN 1 ELSE 2
      /\ y = IF pc[r] \in {"want1", "wait1"} THEN "have1"
               ELSE IF pc[r] \in {"want2", "wait2"} THEN "have2" ELSE "have2x"
  BY DEF LockFree, LockHandedOver, Blocked, Got, MutexOf
<1>3. y \in Labels \ WaitLabels /\ y \in Active /\ pc[r] \in Active /\ m \in {1, 2}
  BY <1>2 DEF Labels, WaitLabels, Active
<1>4. QueuesStep(r, y)
  BY <1>1, <1>3, QueuesTake
<1>5. /\ \A q \in Reqs \ {r} : pc'[q] = pc[q] /\ pc[q] # "want1"
      /\ pc'[r] = y
  BY <1>1, ControlTypes DEF Goto, Hurried
<1>6. /\ \A c \in Reqs : m \notin held[c]
      /\ \A c \in Reqs : Waits(pc[c], m) =>
           Waits(pc[r], m) /\ ~Precedes(mut[m].waiters, c, r)
  BY GetsFree
<1>7. /\ Level(r) = (IF m = 1 THEN IF pc[r] = "want1" THEN 3 ELSE 1
                             ELSE IF pc[r] \in {"want2", "want2x"} THEN 5 ELSE 6)
      /\ Rank(y) = IF m = 1 THEN 4 ELSE 7
  <2>1. pc[r] = "want1" => CanTake(mut[1])
    BY DEF LockFree, LockHandedOver, MutexOf
  <2>2. Level(r) = IF pc[r] = "want1" THEN 3 ELSE Rank(pc[r])
    BY <2>1, LevelIs
  <2>3. QED
    BY <1>2, <2>2 DEF Rank
<1>8. ASSUME NEW c \in Reqs \ {r}, pc[c] \in Active, Behind(c, r)
      PROVE  m = 1 /\ Level(c) > 5
  <2>1. Level(c) > Level(r)
    <3>1. \A n \in {1, 2} : Waits(pc[r], n) => n = m
      BY <1>2 DEF Waits
    <3>2. QED
      BY <1>6, <1>8, <3>1 DEF Behind
  <2>2. /\ Level(c) \in {1, 2, 6, 7}
        /\ Level(c) = 2 => pc[c] = "sending"
        /\ Level(c) = Rank(pc[c])
    BY <1>8, WaitingLevel
  <2>3. CASE m = 1
    <3>1. CASE pc[r] = "want1"
      BY <1>7, <2>1, <2>2, <2>3, <3>1
    <3>2. CASE pc[r] # "want1"
      <4>1. LockHandedOver(r)
        BY <1>2, <2>3, <3>2 DEF LockFree, Blocked
      <4>2. pc[c] # "sending"
        BY <1>1, <4>1, NobodyRuns DEF LockHandedOver, RunLabels
      <4>3. QED
        BY <1>7, <2>1, <2>2, <2>3, <3>2, <4>2
    <3>3. QED
      BY <3>1, <3>2
  <2>4. CASE m = 2
    <3>1. pc[c] \notin InFront
      BY <1>1, <1>6, <2>4, HasMutex
    <3>2. Level(c) = 6 /\ pc[c] \in {"wait2", "wait2x"} /\ pc[r] \in {"want2", "want2x"}
      BY <1>7, <1>8, <2>1, <2>2, <2>4, <3>1, RankIs
    <3>3. QED
      BY <1>6, <2>4, <3>2 DEF Waits
  <2>5. QED
    BY <1>3, <2>3, <2>4
<1>9. ASSUME NEW c \in Reqs \ {r}, pc[c] \in Active, Behind(c, r)
      PROVE  Behind(c, r)'
  <2>1. Level(c) > 5 /\ Rank(y) = 4 /\ Level(c) \in 0 .. 7
    BY <1>7, <1>8, <1>9, LevelIs
  <2>2. Level(c)' = Level(c) /\ (Level(r)' = Rank(y) \/ Level(r)' = 3)
    BY <1>5 DEF Level
  <2>3. Level(c)' > Level(r)'
    BY <2>1, <2>2
  <2>4. QED
    BY <2>3 DEF Behind
<1>10. \A d \in Reqs : Behind(r, d) => Rank(y) > Level(d)
  <2>1. Rank(y) > Level(r)
    BY <1>3, <1>7
  <2>2. Rank(y) >= Level(r)
    BY <1>3, <1>7
  <2> HIDE DEF y
  <2>3. QED
    BY <2>1, <2>2, AheadStays
<1> HIDE DEF m, y
<1>11. QED
  BY <1>1, <1>3, <1>4, <1>9, <1>10, OrderForward

LEMMA OrderBusy ==
  ASSUME TypesOK, OrderInv, NEW r \in Reqs, LockBusy(r),
         \A q \in Reqs \ {r} : pc[q] \notin Hurried
  PROVE  OrderInv'
<1> DEFINE m == MutexOf(r)
           y == Blocked[pc[r]]
<1>1. /\ ControlInv /\ QueuesExact
      /\ Goto(r, y) /\ pending' = pending
      /\ mut' = [mut EXCEPT ![m] = Enqueue(@, r)] /\ mut[m].locked
  BY DEF TypesOK, OrderInv, LockBusy, answers, CanTake
<1>2. /\ pc[r] \in {"want1", "want2", "want2x"}
      /\ m = IF pc[r] = "want1" THEN 1 ELSE 2
      /\ y = IF pc[r] = "want1" THEN "wait1" ELSE IF pc[r] = "want2" THEN "wait2" ELSE "wait2x"
  BY DEF LockBusy, Blocked, MutexOf
<1>3. /\ y \in WaitLabels /\ y \in Labels /\ y \in Active /\ pc[r] \in Active /\ m \in {1, 2}
      /\ pc[r] \notin WaitLabels /\ Waits(y, m)
  BY <1>2 DEF Labels, WaitLabels, Active, Waits
<1>4. QueuesStep(r, y) /\ ~Contains(mut[m].waiters, r)
  BY <1>1, <1>3, QueuesEnqueue
<1>5. /\ \A q \in Reqs \ {r} : pc'[q] = pc[q] /\ pc[q] # "want1"
      /\ pc'[r] = y /\ y # "want1"
  BY <1>1, <1>2, ControlTypes DEF Goto, Hurried
<1>6. Level(r) = (IF m = 1 THEN 0 ELSE 5) /\ Rank(y) = (IF m = 1 THEN 1 ELSE 6)
  <2>1. pc[r] = "want1" => ~CanTake(mut[1])
    BY DEF LockBusy, MutexOf
  <2>2. Level(r) = Rank(pc[r])
    BY <2>1, LevelIs, RankIs
  <2>3. QED
    BY <1>2, <2>2 DEF Rank
<1>7. \A c \in Reqs \ {r} : Waits(pc[c], m) => Precedes(mut'[m].waiters, c, r)
  <2>1. QueueStep(r, y, mut[m].waiters, mut'[m].waiters, m)
    BY <1>3, <1>4 DEF QueuesStep
  <2>2. QED
    BY <1>1, <1>3, <1>4, <2>1, QueueStepIs
<1>8. ASSUME NEW c \in Reqs \ {r}, pc[c] \in Active, Behind(c, r)
      PROVE  Behind(c, r)'
  <2>1. Level(c) > Level(r)
    BY <1>3, <1>8 DEF Behind, Waits, WaitLabels
  <2>2. Level(c) \in {1, 2, 6, 7} /\ Level(c) = Rank(pc[c]) /\ (Level(c) = 1 => pc[c] = "wait1")
    BY <1>8, WaitingLevel
  <2>3. Level(c)' = Level(c) /\ Level(r)' = Rank(y)
    BY <1>5 DEF Level
  <2>4. CASE Level(c) > Rank(y)
    BY <2>3, <2>4 DEF Behind
  <2>5. CASE ~(Level(c) > Rank(y))
    <3>1. Waits(pc[c], m)
      <4>1. CASE m = 1
        BY <1>6, <2>1, <2>2, <2>5, <4>1 DEF Waits
      <4>2. CASE m = 2
        <5>1. Rank(pc[c]) = 6
          BY <1>6, <2>1, <2>2, <2>5, <4>2
        <5>2. QED
          BY <4>2, <5>1, RankIs DEF Waits
      <4>3. QED
        BY <1>3, <4>1, <4>2
    <3>2. QED
      BY <1>3, <1>5, <1>7, <3>1 DEF Behind
  <2>6. QED
    BY <2>4, <2>5
<1>9. \A d \in Reqs : Behind(r, d) => Rank(y) > Level(d)
  <2>1. Rank(y) >= Level(r)
    BY <1>3, <1>6
  <2> HIDE DEF y
  <2>2. QED
    BY <1>3, <2>1, AheadStays
<1> HIDE DEF m, y
<1>10. QED
  BY <1>1, <1>3, <1>4, <1>8, <1>9, OrderForward

\* The decision to pipeline, or not; and the return from a send that failed.
LEMMA OrderDecides ==
  ASSUME TypesOK, OrderInv, NestInv, NEW r \in Reqs, Pipeline(r) \/ Exclusive(r) \/ SendReturns(r),
         \A q \in Reqs \ {r} : pc[q] \notin Hurried
  PROVE  OrderInv'
<1>1. PICK y \in {"sending", "want2", "want2x"} :
        Goto(r, y) /\ (y = "sending" => Pipeline(r))
  BY DEF Pipeline, Exclusive, SendReturns
<1>2. /\ ControlInv /\ QueuesExact /\ pc[r] \in {"have1", "sending"} /\ pending' = pending
  BY DEF TypesOK, OrderInv, Pipeline, Exclusive, SendReturns, answers
<1>3. /\ y \in Labels \ WaitLabels /\ y \in Active /\ pc[r] \in Active /\ pc[r] \notin WaitLabels
      /\ pc[r] # "want1" /\ y # "want1"
  BY <1>2 DEF Labels, WaitLabels, Active
<1>4. QueuesStep(r, y)
  <2>1. \/ mut' = mut
        \/ \E ms \in SUBSET {1, 2} :
             mut' = [m \in {1, 2} |-> IF m \in ms THEN Unlock(mut[m]) ELSE mut[m]]
    BY DEF Pipeline, Exclusive, SendReturns, ReleaseLocks, locks
  <2>2. QED
    BY <1>2, <1>3, <2>1, QueuesStay
<1>5. /\ \A q \in Reqs \ {r} : pc'[q] = pc[q] /\ pc[q] # "want1"
      /\ pc'[r] = y
  BY <1>1, <1>2, ControlTypes DEF Goto, Hurried
<1>6. /\ Level(r) = (IF pc[r] = "have1" THEN 4 ELSE 2)
      /\ Rank(y) = (IF y = "sending" THEN 2 ELSE 5)
  <2>1. Level(r) = Rank(pc[r])
    BY <1>3, LevelIs
  <2>2. QED
    BY <1>2, <2>1 DEF Rank
<1>7. ASSUME NEW c \in Reqs \ {r}, pc[c] \in Active, Behind(c, r)
      PROVE  Behind(c, r)'
  <2>1. Level(c) > Level(r)
    BY <1>2, <1>7 DEF Behind, Waits
  <2>2. Level(c) \in {1, 2, 6, 7}
    BY <1>7, WaitingLevel
  <2>3. Level(c)' = Level(c) /\ Level(r)' = Rank(y)
    BY <1>3, <1>5 DEF Level
  <2>4. Level(c)' > Level(r)'
    BY <1>6, <2>1, <2>2, <2>3
  <2>5. QED
    BY <2>4 DEF Behind
<1>8. ASSUME NEW d \in Reqs \ {r}, pc[d] \in Active, Behind(r, d)
      PROVE  Rank(y) > Level(d)
  <2>1. CASE y # "sending"
    <3>1. Rank(y) >= Level(r)
      BY <1>6, <2>1
    <3>2. QED
      BY <1>3, <1>8, <3>1, AheadStays
  <2>2. CASE y = "sending"
    <3>1. pc[d] # "sending"
      BY <1>1, <2>2 DEF Pipeline, CanPipeline, CanKeepalive, NestInv
    <3>2. Level(d) \in {1, 2, 6, 7} /\ (Level(d) = 2 => pc[d] = "sending")
      BY <1>8, WaitingLevel
    <3>3. Level(r) > Level(d)
      BY <1>2, <1>8 DEF Behind, Waits
    <3>4. pc[r] = "have1"
      BY <1>1, <2>2 DEF Pipeline
    <3>5. QED
      BY <1>6, <2>2, <3>1, <3>2, <3>3, <3>4
  <2>3. QED
    BY <2>1, <2>2
<1>9. QED
  BY <1>1, <1>2, <1>3, <1>4, <1>7, <1>8, OrderForward

\* Nobody was made before the one that has mut2.
LEMMA FrontIsFirst ==
  ASSUME NEW r \in Reqs, pc[r] \in InFront, NEW c \in Reqs
  PROVE  ~Behind(c, r)
<1>1. Level(r) = 7 /\ Level(c) \in 0 .. 7
  BY LevelIs, RankIs DEF InFront
<1>2. QED
  BY <1>1 DEF Behind, Waits, InFront

LEMMA FrontPrecedes ==
  ASSUME OrderInv, NEW r \in Reqs, pc[r] \in InFront, NEW c \in Reqs
  PROVE  ~Precedes(pending, c, r)
BY FrontIsFirst DEF OrderInv, PendingInOrder

\* What the request that has mut2 does before its end.
LEMMA OrderFront ==
  ASSUME TypesOK, OrderInv, NEW r \in Reqs,
         \/ ReuseSocket(r) \/ ReadTurn(r) \/ NeedSocket(r) \/ Connect(r) \/ Connected(r)
         \/ ReadHead(r) \/ LostBeforeStatus(r),
         \A q \in Reqs \ {r} : pc[q] \notin Hurried
  PROVE  OrderInv'
<1>1. PICK y \in {"status", "recreate", "mksock", "body"} : Goto(r, y)
  BY DEF ReuseSocket, ReadTurn, NeedSocket, Connect, Connected, ReadHead, LostBeforeStatus
<1>2. /\ ControlInv /\ QueuesExact
  BY DEF TypesOK, OrderInv
<1>3. pc[r] \in InFront /\ pending' = pending
  BY DEF ReuseSocket, ReadTurn, NeedSocket, Connect, Connected, ReadHead, LostBeforeStatus,
         InFront, answers
<1>4. /\ y \in Labels \ WaitLabels /\ y \in Active /\ pc[r] \in Active /\ pc[r] \notin WaitLabels
      /\ Rank(y) = 7 /\ Level(r) = 7
  BY <1>3, RankIs, LevelIs DEF Labels, WaitLabels, Active, InFront
<1>5. \/ mut' = mut
      \/ \E ms \in SUBSET {1, 2} :
           mut' = [m \in {1, 2} |-> IF m \in ms THEN Unlock(mut[m]) ELSE mut[m]]
  <2>1. held[r] \ {2} \in SUBSET {1, 2} /\ {1} \in SUBSET {1, 2}
    BY <1>2, ControlTypes
  <2>2. CASE ReuseSocket(r) \/ Connected(r)
    BY <2>1, <2>2 DEF ReuseSocket, Connected, ReleaseLocks
  <2>3. CASE ~(ReuseSocket(r) \/ Connected(r))
    BY <2>3 DEF ReadTurn, NeedSocket, Connect, ReadHead, LostBeforeStatus, locks
  <2>4. QED
    BY <2>2, <2>3
<1>6. QueuesStep(r, y)
  BY <1>2, <1>4, <1>5, QueuesStay
<1>7. \A d \in Reqs : Behind(r, d) => Rank(y) > Level(d)
  <2>1. Rank(y) >= Level(r)
    BY <1>4
  <2>2. QED
    BY <1>4, <2>1, AheadStays
<1>8. QED
  BY <1>1, <1>3, <1>4, <1>6, <1>7, FrontIsFirst, OrderForward

\* A request ends: it is answered, its locals are destroyed, or it is cancelled.
LEMMA OrderEnds ==
  ASSUME TypesOK, OrderInv, NEW r \in Reqs, Answers(r) \/ Return(r) \/ Cancel(r),
         \A q \in Reqs \ {r} : pc[q] \notin Hurried
  PROVE  OrderInv'
<1>1. ControlInv /\ QueuesExact
  BY DEF TypesOK, OrderInv
<1>2. CASE Answers(r)
  <2>1. Goto(r, "return") /\ pending' = Unlink(pending, r) /\ UNCHANGED locks
    BY <1>2 DEF Answers, GiveUp, ConnectFails, ReadBody, Reject, LostInHeaders, LostInBody,
                Fail, Deliver
  <2>2. "return" \in Labels \ WaitLabels /\ "return" \in Labels \ Active
    BY DEF Labels, WaitLabels, Active
  <2>3. QueuesStep(r, "return")
    BY <1>1, <2>1, <2>2, QueuesStay DEF locks
  <2>4. PendingStep(r, "return")
    BY <2>1, <2>2 DEF PendingStep
  <2>5. QED
    BY <2>1, <2>2, <2>3, <2>4, OrderLeaves
<1>3. CASE Return(r)
  <2>1. Goto(r, "done") /\ pending' = pending /\ pc[r] = "return" /\ ReleaseLocks(r, held[r])
    BY <1>3 DEF Return, answers
  <2>2. "done" \in Labels \ WaitLabels /\ "done" \in Labels \ Active /\ pc[r] \notin Active
    BY <2>1 DEF Labels, WaitLabels, Active
  <2>3. held[r] \in SUBSET {1, 2}
    BY <1>1, ControlTypes
  <2>4. QueuesStep(r, "done")
    BY <1>1, <2>1, <2>2, <2>3, QueuesStay DEF ReleaseLocks
  <2>5. PendingStep(r, "done")
    BY <2>1, <2>2 DEF PendingStep
  <2>6. QED
    BY <2>1, <2>2, <2>4, <2>5, OrderLeaves
<1>4. CASE Cancel(r)
  <2>1. /\ Goto(r, "gone") /\ pending' = Unlink(pending, r)
        /\ mut' = [m \in {1, 2} |-> Forget(IF m \in held[r] THEN Unlock(mut[m]) ELSE mut[m], r)]
    BY <1>4 DEF Cancel
  <2>2. "gone" \in Labels \ WaitLabels /\ "gone" \in Labels \ Active
    BY DEF Labels, WaitLabels, Active
  <2>3. \A m \in {1, 2} : mut'[m] = Forget(mut[m], r) \/ mut'[m] = Forget(Unlock(mut[m]), r)
    BY <2>1
  <2>4. QueuesStep(r, "gone")
    BY <1>1, <2>2, <2>3, QueuesForget
  <2>5. PendingStep(r, "gone")
    BY <2>1, <2>2 DEF PendingStep
  <2>6. QED
    BY <2>1, <2>2, <2>4, <2>5, OrderLeaves
<1>5. QED
  BY <1>2, <1>3, <1>4

LEMMA OrderStays ==
  ASSUME OrderInv, UNCHANGED <<pc, mut, pending>>
  PROVE  OrderInv'
BY DEF OrderInv, PendingExact, QueuesExact, PendingInOrder, Behind, Level

LEMMA OrderInit == Init => OrderInv
<1> SUFFICES ASSUME Init PROVE OrderInv
  OBVIOUS
<1>1. pending = <<>> /\ mut = <<Unlocked, Unlocked>> /\ \A r \in Reqs : pc[r] = "idle"
  BY DEF Init
<1>2. PendingExact
  BY <1>1 DEF PendingExact, Distinct, Contains, Active
<1>3. QueuesExact
  <2>1. \A m \in {1, 2} : mut[m].waiters = <<>>
    BY <1>1, Pair DEF Unlocked
  <2>2. \A r \in Reqs : \A m \in {1, 2} : ~Waits(pc[r], m)
    BY <1>1 DEF Waits
  <2>3. QED
    BY <2>1, <2>2 DEF QueuesExact
<1>4. PendingInOrder
  BY <1>1 DEF PendingInOrder, Precedes
<1>5. QED
  BY <1>2, <1>3, <1>4 DEF OrderInv

LEMMA OrderNext == TypesOK /\ NestInv /\ OrderInv /\ [Next]_vars => OrderInv'
<1> SUFFICES ASSUME TypesOK, NestInv, OrderInv, [Next]_vars PROVE OrderInv'
  OBVIOUS
<1>1. ASSUME NEW r \in Reqs, Call(r) \/ Step(r) \/ Cancel(r)
      PROVE  OrderInv'
  <2>1. \A q \in Reqs \ {r} : pc[q] \notin Hurried
    BY <1>1, OthersWait DEF TypesOK
  <2>2. QED
    BY <1>1, <2>1, OrderCall, OrderTake, OrderBusy, OrderDecides, OrderFront, OrderEnds
    DEF Step, Answers
<1>2. CASE KeepaliveExpires \/ ServerSends \/ ServerCloses \/ UNCHANGED vars
  <2>1. UNCHANGED <<pc, mut, pending>>
    BY <1>2 DEF KeepaliveExpires, ServerSends, ServerCloses, vars, locks, answers
  <2>2. QED
    BY <2>1, OrderStays
<1>3. QED
  BY <1>1, <1>2 DEF Next

\* All steps but the sends go to another label, and keep the server's end as it is.
LEMMA NestStep ==
  ASSUME TypesOK, RetryInv, NEW r \in Reqs, Silent(r) \/ Answers(r) \/ ReadHead(r), UNCHANGED Origin
  PROVE  /\ \A d \in Reqs : pc'[d] = "sending" => pc[d] = "sending"
         /\ (sock' => sock) /\ server_open' = server_open
<1>0. pc \in [Reqs -> Labels]
  BY ControlTypes DEF TypesOK
<1>1. CASE Silent(r)
  <2>1. \E x \in Labels : pc' = [pc EXCEPT ![r] = x] /\ x # "sending"
    BY <1>1, SilentIs
  <2>2. (sock' => sock) /\ server_open' = server_open
    BY <1>1, SilentSocket DEF SocketStays, network
  <2>3. QED
    BY <1>0, <2>1, <2>2
<1>2. CASE Answers(r)
  <2>1. pc' = [pc EXCEPT ![r] = "return"]
    BY <1>2, AnswersIs
  <2>2. (sock' => sock) /\ server_open' = server_open
    BY <1>2 DEF Answers, GiveUp, ConnectFails, ReadBody, Reject, LostInHeaders, LostInBody, Fail,
                network
  <2>3. QED
    BY <1>0, <2>1, <2>2
<1>3. CASE ReadHead(r)
  BY <1>0, <1>3 DEF ReadHead, Goto, socket
<1>4. QED
  BY <1>1, <1>2, <1>3

LEMMA NestNext == TypesOK /\ RetryInv /\ NestInv /\ [Next]_vars => NestInv'
<1> SUFFICES ASSUME TypesOK, RetryInv, NestInv, [Next]_vars PROVE NestInv'
  OBVIOUS
<1>0. pc \in [Reqs -> Labels]
  BY ControlTypes DEF TypesOK
<1>1. ASSUME NEW r \in Reqs, Silent(r) \/ Answers(r) \/ ReadHead(r), UNCHANGED Origin
      PROVE  NestInv'
  BY <1>1, NestStep DEF NestInv
<1>2. ASSUME NEW r \in Reqs, Pipeline(r)
      PROVE  NestInv'
  <2>1. /\ sock /\ server_open' = server_open
        /\ server_open => sock' = TRUE
        /\ \/ pc' = [pc EXCEPT ![r] = "want2"]
           \/ ~sock' /\ pc' = [pc EXCEPT ![r] = "sending"]
    BY <1>2 DEF Pipeline, CanPipeline, CanKeepalive, Transmit, Goto
  <2>2. QED
    BY <1>0, <2>1 DEF NestInv
<1>3. ASSUME NEW r \in Reqs, ReuseSocket(r)
      PROVE  NestInv'
  <2>1. /\ sock /\ server_open' = server_open /\ pc' = [pc EXCEPT ![r] = "status"]
    BY <1>3 DEF ReuseSocket, CanKeepalive, Goto
  <2>2. QED
    BY <1>0, <2>1 DEF NestInv
<1>4. ASSUME NEW r \in Reqs, Connected(r)
      PROVE  NestInv'
  <2>1. server_open' = TRUE /\ pc' = [pc EXCEPT ![r] = "status"]
    BY <1>4 DEF Connected, NewSocket, Goto
  <2>2. \A d \in Reqs : pc[d] # "sending"
    BY <1>4, NobodyRuns DEF Connected, TypesOK, RunLabels
  <2>3. QED
    BY <1>0, <2>1, <2>2 DEF NestInv
<1>5. CASE KeepaliveExpires \/ ServerSends \/ UNCHANGED vars
  BY <1>5 DEF KeepaliveExpires, ServerSends, vars, socket, network, NestInv
<1>6. CASE ServerCloses
  BY <1>6 DEF ServerCloses, socket, NestInv
<1>7. ASSUME NEW r \in Reqs, Call(r) \/ Step(r) \/ Cancel(r)
      PROVE  NestInv'
  <2>1. UNCHANGED Origin
    BY <1>7 DEF Call, Step, Cancel
  <2>2. \/ Silent(r) \/ Answers(r) \/ ReadHead(r)
        \/ Pipeline(r) \/ ReuseSocket(r) \/ Connected(r)
    BY <1>7 DEF Step, Silent, Answers
  <2>3. QED
    BY <1>1, <1>2, <1>3, <1>4, <2>1, <2>2
<1>8. QED
  BY <1>5, <1>6, <1>7 DEF Next

-----------------------------------------------------------------------------
(* Whose response is next.                                                 *)

\* On a connection requests are sent in the order of their turns.
PlacesInOrder ==
  sock => \A c, d \in Reqs :
            Precedes(pending, c, d) /\ Place[c] # 0 /\ Place[d] # 0 => Place[c] < Place[d]

\* The requests behind one that has mut1 were not sent.
UnsentInv ==
  \A c, d \in Reqs : Precedes(pending, c, d) /\ 1 \in held[c] /\ sock => Place[d] = 0

\* Sent and not answered, and about to read in its turn.
SentLabels == {"sending", "want2", "wait2", "have2", "status", "body"}

Undisturbed == \A r \in Reqs : pc[r] # "gone"

\* Every response that is still to come has a request that will read it.
Awaited ==
  sock => \A n \in sock_received + 1 .. sock_sent :
            \E q \in Reqs : Place[q] = n /\ pc[q] \in SentLabels

ReaderIsNext == \A r \in Reqs : sock /\ pc[r] \in {"status", "body"} => Place[r] = sock_received + 1

ResponsesOwn ==
  \A r \in Reqs : /\ pc[r] = "body" => from[r] = r
                  /\ result[r] \in Reqs => result[r] = r

TurnInv == Undisturbed => Awaited /\ ReaderIsNext /\ ResponsesOwn

FullInv == Inv /\ NestInv /\ OrderInv /\ UnsentInv /\ PlacesInOrder /\ TurnInv

LEMMA FreshPlace ==
  ASSUME Inv, sock, NEW r \in Reqs, pc[r] \in Fresh
  PROVE  Place[r] = 0
<1>1. TypesOK /\ last_gen[r] = 0 /\ sock_generation > 0
  BY DEF Inv, RetryInv, RetryAt, WireInv
<1>2. sock_generation # 0
  BY <1>1, SocketTypes
<1>3. QED
  BY <1>1, <1>2, PlaceType

\* A request that is sent becomes the last.
LEMMA SendPlace ==
  ASSUME Inv, NEW r \in Reqs, Pipeline(r) \/ ReuseSocket(r)
  PROVE  /\ sock /\ pc[r] \in {"have1", "have2x"} /\ Place[r] = 0
         /\ Place'[r] = sock_sent + 1 /\ \A q \in Reqs \ {r} : Place'[q] = Place[q]
         /\ pending' = pending /\ sock_sent' = sock_sent + 1 /\ sock_received' = sock_received
         /\ from' = from /\ result' = result
         /\ \/ pc[r] = "have1" /\ pc'[r] \in {"want2", "sending"}
            \/ pc[r] = "have2x" /\ pc'[r] = "status"
         /\ \A q \in Reqs \ {r} : pc'[q] = pc[q]
<1>1. TypesOK
  BY DEF Inv
<1>2. /\ UNCHANGED <<from, result, pending, sock_generation, sock_received>>
      /\ sock /\ pc[r] \in {"have1", "have2x"}
      /\ last_gen' = [last_gen EXCEPT ![r] = sock_generation]
      /\ recv_expect' = [recv_expect EXCEPT ![r] = sock_sent]
      /\ sock_sent' = sock_sent + 1
      /\ \/ pc[r] = "have1" /\ \E x \in {"want2", "sending"} : pc' = [pc EXCEPT ![r] = x]
         \/ pc[r] = "have2x" /\ pc' = [pc EXCEPT ![r] = "status"]
  <2>1. CASE Pipeline(r)
    BY <2>1 DEF Pipeline, CanPipeline, CanKeepalive, Transmit, answers, Goto
  <2>2. CASE ReuseSocket(r)
    BY <2>2 DEF ReuseSocket, CanKeepalive, Transmit, answers, Goto
  <2>3. QED
    BY <2>1, <2>2
<1>3. Place[r] = 0
  BY <1>2, FreshPlace DEF Fresh
<1>4. Place'[r] = sock_sent + 1 /\ \A q \in Reqs \ {r} : Place'[q] = Place[q]
  BY <1>1, <1>2 DEF Place, TypesOK, LocalsOK
<1>5. pc \in [Reqs -> Labels]
  BY <1>1, ControlTypes DEF TypesOK
<1>6. QED
  BY <1>2, <1>3, <1>4, <1>5

\* A request that connects is the only one on its socket.
LEMMA NewPlace ==
  ASSUME Inv, NEW r \in Reqs, Connected(r)
  PROVE  /\ Place'[r] = 1 /\ \A q \in Reqs \ {r} : Place'[q] = 0
         /\ pending' = pending /\ sock_sent' = 1 /\ sock_received' = 0
         /\ from' = from /\ result' = result
         /\ pc[r] = "mksock" /\ pc'[r] = "status" /\ \A q \in Reqs \ {r} : pc'[q] = pc[q]
<1>1. TypesOK /\ WireInv
  BY DEF Inv
<1>2. /\ UNCHANGED <<from, result, pending>>
      /\ pc[r] = "mksock" /\ pc' = [pc EXCEPT ![r] = "status"]
      /\ sock_generation' = sock_generation + 1
      /\ last_gen' = [last_gen EXCEPT ![r] = sock_generation + 1]
      /\ recv_expect' = [recv_expect EXCEPT ![r] = 0]
      /\ sock_sent' = 0 + 1 /\ sock_received' = 0
  BY DEF Connected, Transmit, NewSocket, Goto, answers
<1>3. sock_generation \in Nat /\ pc \in [Reqs -> Labels]
  BY <1>1, SocketTypes, ControlTypes DEF TypesOK
<1>4. \A q \in Reqs \ {r} : last_gen'[q] # sock_generation'
  BY <1>1, <1>2, <1>3 DEF WireInv, TypesOK, LocalsOK
<1>5. last_gen'[r] = sock_generation' /\ recv_expect'[r] = 0
  BY <1>1, <1>2 DEF TypesOK, LocalsOK
<1>6. Place'[r] = 1 /\ \A q \in Reqs \ {r} : Place'[q] = 0
  BY <1>4, <1>5 DEF Place
<1>7. QED
  BY <1>2, <1>3, <1>6

\* The other steps send nothing.
LEMMA OtherPlace ==
  ASSUME Inv, NEW r \in Reqs, Silent(r) \/ Answers(r) \/ ReadHead(r)
  PROVE  /\ Place' = Place /\ (sock' => sock)
         /\ \/ pending' = pending
            \/ pending' = Unlink(pending, r)
            \/ Call(r) /\ pending' = InTurn(r)
<1>1. CASE Silent(r)
  <2>1. UNCHANGED <<last_gen, recv_expect, sock_generation>>
    BY <1>1 DEF Silent, Call, LockFree, LockBusy, LockHandedOver, SendReturns, Exclusive, ReadTurn,
                NeedSocket, Connect, LostBeforeStatus, Return, Cancel, locals, socket
  <2>2. sock' = sock \/ sock' = FALSE
    BY <1>1 DEF Silent, Call, LockFree, LockBusy, LockHandedOver, SendReturns, Exclusive, ReadTurn,
                NeedSocket, Connect, LostBeforeStatus, Return, Cancel, socket
  <2>3. \/ pending' = pending
        \/ pending' = Unlink(pending, r)
        \/ Call(r) /\ pending' = InTurn(r)
    BY <1>1 DEF Silent, Call, LockFree, LockBusy, LockHandedOver, SendReturns, Exclusive, ReadTurn,
                NeedSocket, Connect, LostBeforeStatus, Return, Cancel, answers
  <2>4. QED
    BY <2>1, <2>2, <2>3 DEF Place
<1>2. CASE Answers(r)
  <2>1. /\ UNCHANGED <<last_gen, recv_expect, sock_generation>>
        /\ sock' = sock \/ sock' = FALSE
        /\ pending' = Unlink(pending, r)
    BY <1>2 DEF Answers, GiveUp, ConnectFails, ReadBody, Reject, LostInHeaders, LostInBody,
                Fail, Deliver, locals
  <2>2. QED
    BY <2>1 DEF Place
<1>3. CASE ReadHead(r)
  BY <1>3 DEF ReadHead, Place, socket, answers
<1>4. QED
  BY <1>1, <1>2, <1>3

LEMMA UnsentBehind ==
  ASSUME Inv, UnsentInv, sock, NEW r \in Reqs, pc[r] \in {"have1", "have2x"},
         NEW d \in Reqs, Precedes(pending, r, d)
  PROVE  Place[d] = 0
<1>1. 1 \in held[r]
  BY DEF Inv, TypesOK, ControlInv, HeldAt
<1>2. QED
  BY <1>1 DEF UnsentInv

\* Who gets mut1 was waiting for it.
LEMMA HeldGrows ==
  ASSUME TypesOK, NEW r \in Reqs, Silent(r) \/ Answers(r) \/ ReadHead(r), NEW c \in Reqs,
         1 \in held'[c], 1 \notin held[c]
  PROVE  /\ c = r /\ pending' = pending
         /\ \/ pc[r] = "want1" /\ CanTake(mut[1])
            \/ pc[r] = "wait1"
<1>1. held \in [Reqs -> SUBSET {1, 2}] /\ pc \in [Reqs -> Labels]
  BY ControlTypes DEF TypesOK
<1>2. held' # held
  OBVIOUS
<1>3. ASSUME NEW h, held' = [held EXCEPT ![r] = h], h \subseteq held[r] PROVE FALSE
  BY <1>1, <1>3
<1>4. CASE LockFree(r) \/ LockHandedOver(r)
  <2>1. held' = [held EXCEPT ![r] = @ \cup {MutexOf(r)}] /\ pending' = pending
    BY <1>4 DEF LockFree, LockHandedOver, GetsLock, answers
  <2>2. c = r /\ MutexOf(r) = 1
    BY <1>1, <2>1
  <2>3. pc[r] \in {"want1", "wait1"}
    BY <2>2 DEF MutexOf
  <2>4. pc[r] = "want1" => CanTake(mut[1])
    BY <1>4, <2>2 DEF LockFree, LockHandedOver
  <2>5. QED
    BY <2>1, <2>2, <2>3, <2>4
<1>5. CASE Return(r) \/ Cancel(r)
  <2>1. \E h : held' = [held EXCEPT ![r] = h] /\ h \subseteq held[r]
    BY <1>5 DEF Return, Cancel, ReleaseLocks
  <2>2. QED
    BY <1>3, <2>1
<1>6. CASE \/ Call(r) \/ LockBusy(r) \/ SendReturns(r) \/ Exclusive(r) \/ ReadTurn(r)
           \/ NeedSocket(r) \/ Connect(r) \/ LostBeforeStatus(r) \/ ReadHead(r)
  BY <1>2, <1>6 DEF Call, LockBusy, SendReturns, Exclusive, ReadTurn, NeedSocket, Connect,
                    LostBeforeStatus, ReadHead, locks
<1>7. CASE Answers(r)
  BY <1>2, <1>7 DEF Answers, GiveUp, ConnectFails, ReadBody, Reject, LostInHeaders, LostInBody,
                    Fail, locks
<1>8. QED
  BY <1>4, <1>5, <1>6, <1>7 DEF Silent

\* Nor were those behind one that gets it.
LEMMA UnsentNow ==
  ASSUME Inv, NestInv, OrderInv, sock, NEW c \in Reqs, NEW d \in Reqs, Precedes(pending, c, d),
         \/ pc[c] = "want1" /\ CanTake(mut[1])
         \/ pc[c] = "wait1"
  PROVE  Place[d] = 0
<1>1. Behind(c, d)
  BY DEF OrderInv, PendingInOrder
<1>2. Level(d) \in Nat /\ (pc[d] # "want1" => Level(d) = Rank(pc[d]))
  BY LevelIs
<1>3. Level(c) <= 3
  BY LevelIs, RankIs
<1>4. pc[d] \in {"want1", "wait1", "sending"}
  <2>1. CASE Level(c) > Level(d)
    <3>1. Level(d) <= 2
      BY <1>2, <1>3, <2>1, LevelIs
    <3>2. QED
      BY <1>2, <3>1, RankIs
  <2>2. CASE \E m \in {1, 2} :
               Waits(pc[c], m) /\ Waits(pc[d], m) /\ Precedes(mut[m].waiters, c, d)
    BY <2>2 DEF Waits
  <2>3. QED
    BY <1>1, <2>1, <2>2 DEF Behind
<1>5. pc[d] # "sending"
  BY DEF NestInv
<1>6. QED
  BY <1>4, <1>5, FreshPlace DEF Fresh

LEMMA UnsentNext ==
  ASSUME Inv, NestInv, OrderInv, UnsentInv, [Next]_vars
  PROVE  UnsentInv'
<1> SUFFICES ASSUME sock', NEW c \in Reqs, NEW d \in Reqs,
                    Precedes(pending', c, d), 1 \in held'[c]
             PROVE  Place'[d] = 0
  BY DEF UnsentInv
<1>1. /\ TypesOK /\ ControlInv /\ pending \in Seq(Reqs) /\ Distinct(pending)
      /\ held \in [Reqs -> SUBSET {1, 2}]
  BY ControlTypes DEF Inv, TypesOK, OrderInv, PendingExact
<1>2. ASSUME NEW r \in Reqs, Silent(r) \/ Answers(r) \/ ReadHead(r)
      PROVE  Place'[d] = 0
  <2>1. Place' = Place /\ sock
    BY <1>2, OtherPlace
  <2>2. CASE pending' = pending \/ pending' = Unlink(pending, r)
    <3>1. Precedes(pending, c, d)
      BY <1>1, <2>2, UnlinkOrder
    <3>2. CASE 1 \in held[c]
      BY <2>1, <3>1, <3>2 DEF UnsentInv
    <3>3. CASE 1 \notin held[c]
      BY <1>1, <1>2, <2>1, <3>1, <3>3, HeldGrows, UnsentNow
    <3>4. QED
      BY <3>2, <3>3
  <2>3. CASE Call(r) /\ pending' = InTurn(r)
    <3>1. pc[r] = "idle" /\ held' = held
      BY <2>3 DEF Call, locks
    <3>2. c # r
      BY <1>1, <3>1 DEF ControlInv, HeldAt
    <3>3. CASE d = r
      BY <2>1, <3>1, <3>3, FreshPlace DEF Fresh
    <3>4. CASE d # r
      <4>1. ~Contains(pending, r)
        BY <3>1 DEF OrderInv, PendingExact, Active
      <4>2. Precedes(pending, c, d)
        BY <1>1, <2>3, <3>2, <3>4, <4>1, InTurnOrder
      <4>3. QED
        BY <2>1, <3>1, <4>2 DEF UnsentInv
    <3>5. QED
      BY <3>3, <3>4
  <2>4. QED
    BY <1>2, <2>2, <2>3, OtherPlace
<1>3. ASSUME NEW r \in Reqs, Pipeline(r) \/ ReuseSocket(r)
      PROVE  FALSE
  <2>1. held' = [held EXCEPT ![r] = @ \ {1}] /\ pc[r] \in {"have1", "have2x"}
    BY <1>3 DEF Pipeline, ReuseSocket, ReleaseLocks
  <2>2. c # r /\ 1 \in held[c]
    BY <1>1, <2>1
  <2>3. 1 \in held[r]
    BY <1>1, <2>1 DEF ControlInv, HeldAt
  <2>4. QED
    BY <1>1, <2>2, <2>3 DEF ControlInv, MutexesOK, OneHolder
<1>4. ASSUME NEW r \in Reqs, Connected(r)
      PROVE  Place'[d] = 0
  <2>1. pending' = pending /\ pc[r] = "mksock" /\ \A q \in Reqs \ {r} : Place'[q] = 0
    BY <1>4, NewPlace
  <2>2. d # r
    BY <2>1, FrontPrecedes DEF InFront
  <2>3. QED
    BY <2>1, <2>2
<1>5. CASE KeepaliveExpires \/ ServerSends \/ ServerCloses \/ UNCHANGED vars
  <2>1. UNCHANGED <<last_gen, recv_expect, sock_generation, sock, pending, held>>
    BY <1>5 DEF KeepaliveExpires, ServerSends, ServerCloses, vars, locals, socket, answers, locks
  <2>2. Place' = Place
    BY <2>1 DEF Place
  <2>3. QED
    BY <2>1, <2>2 DEF UnsentInv
<1>6. ASSUME NEW r \in Reqs, Call(r) \/ Step(r) \/ Cancel(r)
      PROVE  \/ Silent(r) \/ Answers(r) \/ ReadHead(r)
             \/ Pipeline(r) \/ ReuseSocket(r) \/ Connected(r)
  BY <1>6 DEF Step, Silent, Answers
<1>7. QED
  BY <1>2, <1>3, <1>4, <1>5, <1>6 DEF Next

LEMMA PlacesNext ==
  ASSUME Inv, OrderInv, UnsentInv, PlacesInOrder, [Next]_vars
  PROVE  PlacesInOrder'
<1> SUFFICES ASSUME sock', NEW c \in Reqs, NEW d \in Reqs,
                    Precedes(pending', c, d), Place'[c] # 0, Place'[d] # 0
             PROVE  Place'[c] < Place'[d]
  BY DEF PlacesInOrder
<1>1. /\ TypesOK /\ pending \in Seq(Reqs) /\ Distinct(pending)
      /\ Place \in [Reqs -> Nat] /\ sock_sent \in Nat
  BY PlaceType, SocketTypes DEF Inv, TypesOK, OrderInv, PendingExact
<1>2. ASSUME NEW r \in Reqs, Silent(r) \/ Answers(r) \/ ReadHead(r)
      PROVE  Place'[c] < Place'[d]
  <2>1. Place' = Place /\ sock
    BY <1>2, OtherPlace
  <2>2. CASE pending' = pending
    BY <2>1, <2>2 DEF PlacesInOrder
  <2>3. CASE pending' = Unlink(pending, r)
    <3>1. Precedes(pending, c, d)
      BY <1>1, <2>3, UnlinkOrder
    <3>2. QED
      BY <2>1, <3>1 DEF PlacesInOrder
  <2>4. CASE Call(r) /\ pending' = InTurn(r)
    <3>1. Place[r] = 0
      BY <2>1, <2>4, FreshPlace DEF Call, Fresh
    <3>2. ~Contains(pending, r)
      BY <2>4 DEF OrderInv, PendingExact, Call, Active
    <3>3. c # r /\ d # r
      BY <2>1, <3>1
    <3>4. Precedes(pending, c, d)
      BY <1>1, <2>4, <3>2, <3>3, InTurnOrder
    <3>5. QED
      BY <2>1, <3>4 DEF PlacesInOrder
  <2>5. QED
    BY <1>2, <2>2, <2>3, <2>4, OtherPlace
<1>3. ASSUME NEW r \in Reqs, Pipeline(r) \/ ReuseSocket(r)
      PROVE  Place'[c] < Place'[d]
  <2>1. /\ sock /\ pc[r] \in {"have1", "have2x"} /\ pending' = pending
        /\ Place'[r] = sock_sent + 1 /\ \A q \in Reqs \ {r} : Place'[q] = Place[q]
    BY <1>3, SendPlace
  <2>2. Precedes(pending, c, d) /\ c # d
    BY <1>1, <2>1 DEF Precedes, Distinct
  <2>3. c # r
    BY <2>1, <2>2, UnsentBehind
  <2>4. CASE d = r
    <3>1. Place[c] <= sock_sent
      BY <2>1 DEF Inv, WireInv, WireOK
    <3>2. QED
      BY <1>1, <2>1, <2>3, <2>4, <3>1
  <2>5. CASE d # r
    BY <2>1, <2>2, <2>3, <2>5 DEF PlacesInOrder
  <2>6. QED
    BY <2>4, <2>5
<1>4. ASSUME NEW r \in Reqs, Connected(r)
      PROVE  Place'[c] < Place'[d]
  <2>1. pending' = pending /\ \A q \in Reqs \ {r} : Place'[q] = 0
    BY <1>4, NewPlace
  <2>2. c # d
    BY <1>1, <2>1 DEF Precedes, Distinct
  <2>3. QED
    BY <2>1, <2>2
<1>5. CASE KeepaliveExpires \/ ServerSends \/ ServerCloses \/ UNCHANGED vars
  <2>1. UNCHANGED <<last_gen, recv_expect, sock_generation, sock, pending>>
    BY <1>5 DEF KeepaliveExpires, ServerSends, ServerCloses, vars, locals, socket, answers
  <2>2. Place' = Place
    BY <2>1 DEF Place
  <2>3. QED
    BY <2>1, <2>2 DEF PlacesInOrder
<1>6. ASSUME NEW r \in Reqs, Call(r) \/ Step(r) \/ Cancel(r)
      PROVE  \/ Silent(r) \/ Answers(r) \/ ReadHead(r)
             \/ Pipeline(r) \/ ReuseSocket(r) \/ Connected(r)
  BY <1>6 DEF Step, Silent, Answers
<1>7. QED
  BY <1>2, <1>3, <1>4, <1>5, <1>6 DEF Next

\* Who is gone stays so.
LEMMA UndisturbedBefore ==
  ASSUME Inv, [Next]_vars, Undisturbed'
  PROVE  Undisturbed
<1> SUFFICES ASSUME NEW q \in Reqs, pc[q] = "gone" PROVE pc'[q] = "gone"
  BY DEF Undisturbed
<1>1. TypesOK /\ RetryInv
  BY DEF Inv
<1>2. ASSUME NEW r \in Reqs, Call(r) \/ Step(r) \/ Cancel(r)
      PROVE  pc'[q] = pc[q]
  <2>1. \/ Silent(r) \/ Answers(r) \/ Transmits(r) \/ ReadHead(r)
    BY <1>2 DEF Step, Silent, Answers, Transmits
  <2>2. OthersStay(r)
    BY <1>1, <2>1, SilentRetry, AnswersRetry, TransmitsRetry, ReadHeadRetry
  <2>3. pc[r] # "gone"
    BY <1>2 DEF Call, Step, Cancel, LockFree, LockBusy, LockHandedOver, Pipeline, SendReturns,
         Exclusive, ReuseSocket, ReadTurn, NeedSocket, GiveUp, Connect, Connected, ConnectFails,
         ReadHead, ReadBody, Reject, LostBeforeStatus, LostInHeaders, LostInBody, Return, Blocked, Suspended
  <2>4. QED
    BY <2>2, <2>3 DEF OthersStay
<1>3. CASE KeepaliveExpires \/ ServerSends \/ ServerCloses \/ UNCHANGED vars
  BY <1>3 DEF KeepaliveExpires, ServerSends, ServerCloses, vars
<1>4. QED
  BY <1>2, <1>3 DEF Next

\* Undisturbed, whoever gets mut2 is not too early, and one that may have a socket of
\* its own finds nothing left to come on the one there is.
LEMMA NoGap ==
  ASSUME Inv, NestInv, OrderInv, UnsentInv, PlacesInOrder, Awaited, sock, sock_received < sock_sent,
         NEW r \in Reqs, Running(r), pc[r] \in {"have2", "have2x"}
  PROVE  pc[r] = "have2" /\ Place[r] <= sock_received + 1
<1>1. /\ TypesOK /\ ControlInv /\ Place \in [Reqs -> Nat]
      /\ sock_sent \in Nat /\ sock_received \in Nat
  BY PlaceType, SocketTypes DEF Inv, TypesOK
<1>2. PICK q \in Reqs : Place[q] = sock_received + 1 /\ pc[q] \in SentLabels
  BY <1>1 DEF Awaited
<1>3. CASE q = r
  BY <1>1, <1>2, <1>3 DEF SentLabels
<1>4. CASE q # r
  <2>1. pc[q] = "wait2"
    <3>1. pc[q] \notin {"want2", "sending"}
      BY <1>1, <1>4, OneRuns DEF Hurried, NestInv
    <3>2. pc[q] \notin {"have2", "status", "body"}
      BY <1>1, <1>4, Alone
    <3>3. QED
      BY <1>2, <3>1, <3>2 DEF SentLabels
  <2>2. Contains(pending, q) /\ Contains(pending, r) /\ Distinct(pending) /\ pending \in Seq(Reqs)
    BY <1>1, <2>1 DEF OrderInv, PendingExact, Active, TypesOK
  <2>3. Precedes(pending, q, r) \/ Precedes(pending, r, q)
    BY <1>4, <2>2, PrecedesOrder
  <2>4. Precedes(pending, r, q)
    BY <2>3, FrontPrecedes DEF InFront
  <2>5. Place[q] # 0
    BY <1>1, <1>2
  <2>6. pc[r] = "have2"
    BY <2>4, <2>5, UnsentBehind
  <2>7. Place[r] = 0 \/ Place[r] < Place[q]
    BY <2>4, <2>5 DEF PlacesInOrder
  <2>8. QED
    BY <1>1, <1>2, <2>6, <2>7
<1>5. QED
  BY <1>3, <1>4

\* Steps that send and read nothing.
LEMMA SilentTurn ==
  ASSUME Inv, NEW r \in Reqs, Silent(r), UNCHANGED Origin
  PROVE  /\ Place' = Place /\ (sock' => sock)
         /\ UNCHANGED <<from, result, sock_sent, sock_received>>
         /\ \A q \in Reqs \ {r} : pc'[q] = pc[q]
         /\ pc'[r] # "body"
         /\ pc'[r] = "status" => pc[r] = "have2" /\ MayRead(r)
         /\ pc[r] \in SentLabels =>
              \/ pc'[r] \in SentLabels \/ pc'[r] = "gone" \/ ~sock'
              \/ Running(r) /\ pc[r] = "have2" /\ ~MayRead(r)
<1>1. TypesOK /\ RetryInv
  BY DEF Inv
<1>2. Place' = Place /\ (sock' => sock)
  BY OtherPlace
<1>3. UNCHANGED <<from, result, sock_sent, sock_received>>
  BY <1>1, SilentIs, SilentSocket DEF locals, SocketStays
<1>4. \A q \in Reqs \ {r} : pc'[q] = pc[q]
  BY <1>1, SilentRetry DEF OthersStay
<1>5. pc'[r] = "status" => pc[r] = "have2" /\ MayRead(r)
  BY <1>1, SilentStatus
<1>6. pc \in [Reqs -> Labels]
  BY <1>1, ControlTypes DEF TypesOK
<1>7. pc'[r] # "body"
  BY <1>1, <1>6, SilentIs
<1>8. ASSUME pc[r] \in SentLabels
      PROVE  \/ pc'[r] \in SentLabels \/ pc'[r] = "gone" \/ ~sock'
             \/ Running(r) /\ pc[r] = "have2" /\ ~MayRead(r)
  <2>1. CASE LockFree(r) \/ LockHandedOver(r)
    BY <1>6, <1>8, <2>1 DEF LockFree, LockHandedOver, GetsLock, Goto, Got, Blocked, SentLabels
  <2>2. CASE LockBusy(r)
    BY <1>6, <1>8, <2>2 DEF LockBusy, Goto, Blocked, SentLabels
  <2>3. CASE NeedSocket(r)
    BY <1>8, <2>3 DEF NeedSocket, SentLabels
  <2>4. CASE ReadTurn(r) \/ LostBeforeStatus(r) \/ Cancel(r)
    BY <1>6, <2>4 DEF ReadTurn, LostBeforeStatus, Cancel, Goto, SentLabels
  <2>5. CASE Call(r) \/ Exclusive(r) \/ Connect(r) \/ Return(r)
    BY <1>8, <2>5 DEF Call, Exclusive, Connect, Return, SentLabels
  <2>6. CASE SendReturns(r)
    BY <1>6, <2>6 DEF SendReturns, Goto, SentLabels
  <2>7. QED
    BY <2>1, <2>2, <2>3, <2>4, <2>5, <2>6 DEF Silent
<1>9. QED
  BY <1>2, <1>3, <1>4, <1>5, <1>7, <1>8

LEMMA TurnSilent ==
  ASSUME Inv, NestInv, OrderInv, UnsentInv, PlacesInOrder, Awaited, ReaderIsNext, ResponsesOwn, Undisturbed',
         NEW r \in Reqs, Silent(r), UNCHANGED Origin
  PROVE  Awaited' /\ ReaderIsNext' /\ ResponsesOwn'
<1>1. /\ TypesOK /\ Place \in [Reqs -> Nat] /\ sock_sent \in Nat /\ sock_received \in Nat
      /\ recv_expect[r] \in Nat
  BY PlaceType, SocketTypes DEF Inv, TypesOK, LocalsOK
<1>2. /\ Place' = Place /\ (sock' => sock)
      /\ UNCHANGED <<from, result, sock_sent, sock_received>>
      /\ \A q \in Reqs \ {r} : pc'[q] = pc[q]
  BY SilentTurn
<1>3. Awaited'
  <2> SUFFICES ASSUME sock', NEW n \in sock_received + 1 .. sock_sent
               PROVE  \E q \in Reqs : Place[q] = n /\ pc'[q] \in SentLabels
    BY <1>2 DEF Awaited
  <2>1. PICK q \in Reqs : Place[q] = n /\ pc[q] \in SentLabels
    BY <1>2 DEF Awaited
  <2>2. CASE q # r
    BY <1>2, <2>1, <2>2
  <2>3. CASE q = r
    <3>1. CASE Running(r) /\ pc[r] = "have2" /\ ~MayRead(r)
      <4>1. Place[r] <= sock_received + 1
        BY <1>1, <1>2, <3>1, NoGap
      <4>2. Place[r] = sock_received + 1
        BY <1>1, <2>1, <2>3, <4>1
      <4>3. last_gen[r] = sock_generation /\ recv_expect[r] = sock_received
        BY <1>1, <4>2, PlaceType
      <4>4. QED
        BY <1>2, <3>1, <4>3 DEF MayRead
    <3>2. CASE ~(Running(r) /\ pc[r] = "have2" /\ ~MayRead(r))
      <4>1. pc'[r] # "gone"
        BY DEF Undisturbed
      <4>2. pc'[r] \in SentLabels
        BY <2>1, <2>3, <3>2, <4>1, SilentTurn
      <4>3. QED
        BY <2>1, <2>3, <4>2
    <3>3. QED
      BY <3>1, <3>2
  <2>4. QED
    BY <2>2, <2>3
<1>4. ReaderIsNext'
  <2> SUFFICES ASSUME sock', NEW q \in Reqs, pc'[q] \in {"status", "body"}
               PROVE  Place[q] = sock_received + 1
    BY <1>2 DEF ReaderIsNext
  <2>1. CASE q # r
    BY <1>2, <2>1 DEF ReaderIsNext
  <2>2. CASE q = r
    <3>1. MayRead(r)
      BY <2>2, SilentTurn
    <3>2. QED
      BY <1>1, <2>2, <3>1, PlaceType DEF MayRead
  <2>3. QED
    BY <2>1, <2>2
<1>5. ResponsesOwn'
  <2>1. pc'[r] # "body"
    BY SilentTurn
  <2>2. QED
    BY <1>2, <2>1 DEF ResponsesOwn
<1>6. QED
  BY <1>3, <1>4, <1>5

LEMMA TurnFails ==
  ASSUME Inv, ResponsesOwn, NEW r \in Reqs, Fails(r)
  PROVE  Awaited' /\ ReaderIsNext' /\ ResponsesOwn'
<1>1. TypesOK /\ pc \in [Reqs -> Labels] /\ result \in [Reqs -> Reqs \cup Errors \cup {None}]
  BY ControlTypes DEF Inv, TypesOK, LocalsOK
<1>2. PICK e \in Errors : result' = [result EXCEPT ![r] = e]
  BY DEF Fails, GiveUp, ConnectFails, Reject, LostInHeaders, Fail, Deliver, Errors
<1>3. sock' = FALSE /\ from' = from /\ pc' = [pc EXCEPT ![r] = "return"]
  BY DEF Fails, GiveUp, ConnectFails, Reject, LostInHeaders, Fail, Deliver, Goto, locals
<1>4. result'[r] \notin Reqs /\ pc'[r] # "body"
  BY <1>1, <1>2, <1>3, HttpAssumption
<1>5. \A q \in Reqs \ {r} : pc'[q] = pc[q] /\ result'[q] = result[q]
  BY <1>1, <1>2, <1>3
<1>6. ResponsesOwn'
  BY <1>3, <1>4, <1>5 DEF ResponsesOwn
<1>7. QED
  BY <1>3, <1>6 DEF Awaited, ReaderIsNext

LEMMA TurnHead ==
  ASSUME Inv, Awaited, ReaderIsNext, ResponsesOwn, NEW r \in Reqs, ReadHead(r)
  PROVE  Awaited' /\ ReaderIsNext' /\ ResponsesOwn'
<1>1. /\ TypesOK /\ WireInv /\ Place \in [Reqs -> Nat] /\ pc \in [Reqs -> Labels]
      /\ sock_sent \in Nat /\ sock_received \in Nat
      /\ wire \in Seq(Unit) /\ inbox \in Seq(Unit) /\ server_open \in BOOLEAN
      /\ Reading \in BOOLEAN /\ sock \in BOOLEAN
  BY PlaceType, SocketTypes, ControlTypes DEF Inv, TypesOK
<1>2. /\ UNCHANGED <<last_gen, recv_expect, result, sock, sock_generation, sock_sent, sock_received>>
      /\ sock /\ inbox # <<>> /\ Head(inbox)[2] = "head"
      /\ pc[r] = "status" /\ pc' = [pc EXCEPT ![r] = "body"]
      /\ from' = [from EXCEPT ![r] = Head(inbox)[1]]
  BY DEF ReadHead, socket, answers, Goto
<1>3. Place' = Place
  BY <1>2 DEF Place
<1>4. pc'[r] = "body" /\ \A q \in Reqs \ {r} : pc'[q] = pc[q] /\ from'[q] = from[q]
  BY <1>1, <1>2 DEF TypesOK, LocalsOK
<1>5. sock = TRUE
  BY <1>1, <1>2, Zenon
<1>6. WireOK(Place, TRUE, sock_sent, sock_received, wire, inbox, server_open, FALSE)
  BY <1>1, <1>5 DEF WireInv, WireOK
<1>7. /\ Head(inbox)[1] \in Reqs /\ Place[Head(inbox)[1]] = sock_received + 1
      /\ WireOK(Place, TRUE, sock_sent, sock_received, wire, Tail(inbox), server_open, TRUE)
  <2>1. inbox # <<>> /\ Head(inbox)[2] = "head"
    BY <1>2
  <2>2. /\ Place \in [Reqs -> Nat] /\ sock_sent \in Nat /\ sock_received \in Nat
        /\ wire \in Seq(Unit) /\ inbox \in Seq(Unit) /\ server_open \in BOOLEAN
    BY <1>1
  <2>3. QED
    BY <1>6, <2>1, <2>2, WireHead
<1>8. Place[r] = sock_received + 1
  BY <1>2 DEF ReaderIsNext
<1>9. Head(inbox)[1] = r
  BY <1>1, <1>6, <1>7, <1>8 DEF WireOK
<1>10. from'[r] = r
  BY <1>1, <1>2, <1>9 DEF TypesOK, LocalsOK
<1>11. Awaited'
  BY <1>2, <1>3, <1>4 DEF Awaited, SentLabels
<1>12. ReaderIsNext'
  BY <1>2, <1>3, <1>4, <1>8 DEF ReaderIsNext
<1>13. ResponsesOwn'
  BY <1>2, <1>4, <1>10 DEF ResponsesOwn
<1>14. QED
  BY <1>11, <1>12, <1>13

LEMMA TurnBody ==
  ASSUME Inv, Awaited, ReaderIsNext, ResponsesOwn, NEW r \in Reqs, ReadBody(r) \/ LostInBody(r)
  PROVE  Awaited' /\ ReaderIsNext' /\ ResponsesOwn'
<1>1. /\ TypesOK /\ ControlInv /\ Place \in [Reqs -> Nat] /\ pc \in [Reqs -> Labels]
      /\ sock_sent \in Nat /\ sock_received \in Nat /\ result \in [Reqs -> Reqs \cup Errors \cup {None}]
  BY PlaceType, SocketTypes, ControlTypes DEF Inv, TypesOK, LocalsOK
<1>2. /\ UNCHANGED <<last_gen, recv_expect, from, sock_generation, sock_sent>>
      /\ pc[r] = "body" /\ pc' = [pc EXCEPT ![r] = "return"]
      /\ result' = [result EXCEPT ![r] = from[r]]
      /\ sock_received' = sock_received + 1
      /\ sock' => sock
  BY DEF ReadBody, LostInBody, Deliver, Goto, locals
<1>3. Place' = Place
  BY <1>2 DEF Place
<1>4. /\ pc'[r] = "return" /\ result'[r] = from[r]
      /\ \A q \in Reqs \ {r} : pc'[q] = pc[q] /\ result'[q] = result[q]
  BY <1>1, <1>2
<1>5. \A q \in Reqs \ {r} : pc[q] \notin {"status", "body"}
  BY <1>1, <1>2, Alone
<1>6. Awaited'
  <2> SUFFICES ASSUME sock', NEW n \in sock_received + 2 .. sock_sent
               PROVE  \E q \in Reqs : Place[q] = n /\ pc'[q] \in SentLabels
    BY <1>1, <1>2, <1>3 DEF Awaited
  <2>1. n \in sock_received + 1 .. sock_sent /\ n # sock_received + 1
    BY <1>1
  <2>2. PICK q \in Reqs : Place[q] = n /\ pc[q] \in SentLabels
    BY <1>2, <2>1 DEF Awaited
  <2>3. Place[r] = sock_received + 1
    BY <1>2 DEF ReaderIsNext
  <2>4. q # r
    BY <2>1, <2>2, <2>3
  <2>5. QED
    BY <1>4, <2>2, <2>4
<1>7. ReaderIsNext'
  BY <1>4, <1>5 DEF ReaderIsNext
<1>8. ResponsesOwn'
  BY <1>2, <1>4 DEF ResponsesOwn
<1>9. QED
  BY <1>6, <1>7, <1>8

LEMMA TurnSends ==
  ASSUME Inv, NestInv, OrderInv, UnsentInv, PlacesInOrder, Awaited, ReaderIsNext, ResponsesOwn,
         NEW r \in Reqs, Pipeline(r) \/ ReuseSocket(r)
  PROVE  Awaited' /\ ReaderIsNext' /\ ResponsesOwn'
<1>1. TypesOK /\ sock_sent \in Nat /\ sock_received \in Nat
  BY SocketTypes DEF Inv
<1>2. /\ sock /\ pc[r] \in {"have1", "have2x"} /\ Place[r] = 0
      /\ Place'[r] = sock_sent + 1 /\ \A q \in Reqs \ {r} : Place'[q] = Place[q]
      /\ sock_sent' = sock_sent + 1 /\ sock_received' = sock_received
      /\ from' = from /\ result' = result
      /\ \/ pc[r] = "have1" /\ pc'[r] \in {"want2", "sending"}
         \/ pc[r] = "have2x" /\ pc'[r] = "status"
      /\ \A q \in Reqs \ {r} : pc'[q] = pc[q]
  BY SendPlace
<1>3. Awaited'
  <2> SUFFICES ASSUME NEW n \in sock_received + 1 .. sock_sent + 1
               PROVE  \E q \in Reqs : Place'[q] = n /\ pc'[q] \in SentLabels
    BY <1>2 DEF Awaited
  <2>1. CASE n = sock_sent + 1
    BY <1>2, <2>1 DEF SentLabels
  <2>2. CASE n # sock_sent + 1
    <3>1. n \in sock_received + 1 .. sock_sent
      BY <1>1, <2>2
    <3>2. PICK q \in Reqs : Place[q] = n /\ pc[q] \in SentLabels
      BY <1>2, <3>1 DEF Awaited
    <3>3. q # r
      BY <1>2, <3>2 DEF SentLabels
    <3>4. QED
      BY <1>2, <3>2, <3>3
  <2>3. QED
    BY <2>1, <2>2
<1>4. ReaderIsNext'
  <2> SUFFICES ASSUME NEW q \in Reqs, pc'[q] \in {"status", "body"}
               PROVE  Place'[q] = sock_received + 1
    BY <1>2 DEF ReaderIsNext
  <2>1. CASE q # r
    BY <1>2, <2>1 DEF ReaderIsNext
  <2>2. CASE q = r
    <3>1. pc[r] = "have2x"
      BY <1>2, <2>2
    <3>2. Running(r)
      BY DEF Pipeline, ReuseSocket
    <3>3. ~(sock_received < sock_sent)
      BY <1>2, <3>1, <3>2, NoGap
    <3>4. sock_received <= sock_sent
      BY DEF Inv, WireInv, WireOK
    <3>5. sock_received = sock_sent
      BY <1>1, <3>3, <3>4
    <3>6. QED
      BY <1>2, <2>2, <3>5
  <2>3. QED
    BY <2>1, <2>2
<1>5. ResponsesOwn'
  BY <1>2 DEF ResponsesOwn
<1>6. QED
  BY <1>3, <1>4, <1>5

LEMMA TurnNew ==
  ASSUME Inv, ResponsesOwn, NEW r \in Reqs, Connected(r)
  PROVE  Awaited' /\ ReaderIsNext' /\ ResponsesOwn'
<1>1. TypesOK /\ ControlInv
  BY DEF Inv, TypesOK
<1>2. /\ Place'[r] = 1 /\ sock_sent' = 1 /\ sock_received' = 0
      /\ from' = from /\ result' = result
      /\ pc[r] = "mksock" /\ pc'[r] = "status" /\ \A q \in Reqs \ {r} : pc'[q] = pc[q]
  BY NewPlace
<1>3. Awaited'
  BY <1>2 DEF Awaited, SentLabels
<1>4. \A q \in Reqs \ {r} : pc[q] \notin {"status", "body"}
  BY <1>1, <1>2, Alone
<1>5. ReaderIsNext'
  BY <1>2, <1>4 DEF ReaderIsNext
<1>6. ResponsesOwn'
  BY <1>2 DEF ResponsesOwn
<1>7. QED
  BY <1>3, <1>5, <1>6

LEMMA TurnStays ==
  ASSUME Awaited, ReaderIsNext, ResponsesOwn,
         KeepaliveExpires \/ ServerSends \/ ServerCloses \/ UNCHANGED vars
  PROVE  Awaited' /\ ReaderIsNext' /\ ResponsesOwn'
<1>1. UNCHANGED <<pc, from, result, last_gen, recv_expect, sock_generation, sock, sock_sent, sock_received>>
  BY DEF KeepaliveExpires, ServerSends, ServerCloses, vars, locals, socket, answers
<1>2. Place' = Place
  BY <1>1 DEF Place
<1>3. QED
  BY <1>1, <1>2 DEF Awaited, ReaderIsNext, ResponsesOwn

LEMMA TurnNext ==
  ASSUME Inv, NestInv, OrderInv, UnsentInv, PlacesInOrder, TurnInv, [Next]_vars
  PROVE  TurnInv'
<1> SUFFICES ASSUME Undisturbed' PROVE Awaited' /\ ReaderIsNext' /\ ResponsesOwn'
  BY DEF TurnInv
<1>1. Awaited /\ ReaderIsNext /\ ResponsesOwn
  BY UndisturbedBefore DEF TurnInv
<1>2. ASSUME NEW r \in Reqs, Call(r) \/ Step(r) \/ Cancel(r)
      PROVE  Awaited' /\ ReaderIsNext' /\ ResponsesOwn'
  <2>1. UNCHANGED Origin
    BY <1>2 DEF Call, Step, Cancel
  <2>2. \/ Silent(r) \/ Fails(r) \/ ReadHead(r) \/ ReadBody(r) \/ LostInBody(r)
        \/ Pipeline(r) \/ ReuseSocket(r) \/ Connected(r)
    BY <1>2 DEF Step, Silent, Fails
  <2>3. QED
    BY <1>1, <2>1, <2>2, TurnSilent, TurnFails, TurnHead, TurnBody, TurnSends, TurnNew
<1>3. CASE KeepaliveExpires \/ ServerSends \/ ServerCloses \/ UNCHANGED vars
  BY <1>1, <1>3, TurnStays
<1>4. QED
  BY <1>2, <1>3 DEF Next

LEMMA FullInit == Init => FullInv
<1> SUFFICES ASSUME Init PROVE FullInv
  OBVIOUS
<1>1. Inv /\ OrderInv
  BY InvInit, OrderInit
<1>2. NestInv /\ UnsentInv /\ PlacesInOrder
  BY DEF Init, NestInv, UnsentInv, PlacesInOrder
<1>3. TurnInv
  <2>1. Awaited /\ ReaderIsNext
    BY DEF Init, Awaited, ReaderIsNext
  <2>2. ResponsesOwn
    BY HttpAssumption DEF Init, ResponsesOwn
  <2>3. QED
    BY <2>1, <2>2 DEF TurnInv
<1>4. QED
  BY <1>1, <1>2, <1>3 DEF FullInv

LEMMA FullNext == ~CancelScheduled /\ FullInv /\ [Next]_vars => FullInv'
<1> SUFFICES ASSUME ~CancelScheduled, FullInv, [Next]_vars PROVE FullInv'
  OBVIOUS
<1>1. Inv' /\ NestInv' /\ OrderInv'
  BY InvNext, NestNext, OrderNext DEF FullInv, Inv
<1>2. UnsentInv' /\ PlacesInOrder' /\ TurnInv'
  BY UnsentNext, PlacesNext, TurnNext DEF FullInv
<1>3. QED
  BY <1>1, <1>2 DEF FullInv

LEMMA FullInvariant == ~CancelScheduled /\ Spec => []FullInv
<1>1. CASE ~CancelScheduled
  <2>1. FullInv /\ [Next]_vars => FullInv'
    BY <1>1, FullNext
  <2>2. QED
    BY <2>1, FullInit, PTL DEF Spec, Safe
<1>2. CASE CancelScheduled
  BY <1>2
<1>3. QED
  BY <1>1, <1>2

-----------------------------------------------------------------------------
(* The service.                                                            *)

gone == {r \in Reqs : pc[r] = "gone"}

\* A request is made.
LEMMA CallIsRequest ==
  ASSUME FullInv, NEW r \in Reqs, Call(r)
  PROVE  Service!Request(r)
<1>1. /\ ControlInv /\ RetryAt(r) /\ PendingExact /\ NestInv
      /\ pending \in Seq(Reqs)
  BY DEF FullInv, Inv, TypesOK, RetryInv, OrderInv
<1>2. /\ pc[r] = "idle" /\ pc' = [pc EXCEPT ![r] = "want1"]
      /\ pending' = InTurn(r) /\ result' = result
  BY DEF Call, Goto
<1>3. result[r] = "none"
  BY <1>1, <1>2 DEF RetryAt, None
<1>4. ~\E i \in DOMAIN pending : pending[i] = r
  BY <1>1, <1>2 DEF PendingExact, Contains, Active
<1>5. gone' = gone /\ r \notin gone
  BY <1>1, <1>2, ControlTypes DEF gone
<1>6. \/ pending' = Append(pending, r)
      \/ MayClose /\ pending # <<>> /\ pending' = Service!BeforeLast(pending, r)
  <2>1. CASE pending # <<>> /\ Overtaken(Last(pending))
    <3>1. Len(pending) \in 1 .. Len(pending)
      BY <1>1, <2>1
    <3>2. Last(pending) \in Reqs
      BY <1>1, <3>1, ElementOfSeq DEF Last
    <3>3. MayClose
      BY <1>1, <2>1, <3>2 DEF Overtaken, NestInv
    <3>4. pending' = Front(pending) \o <<r, Last(pending)>>
      BY <1>2, <2>1 DEF InTurn
    <3>5. QED
      BY <2>1, <3>3, <3>4 DEF Service!BeforeLast, Front, Last
  <2>2. CASE ~(pending # <<>> /\ Overtaken(Last(pending)))
    BY <1>2, <2>2 DEF InTurn
  <2>3. QED
    BY <2>1, <2>2
<1>7. QED
  BY <1>2, <1>3, <1>4, <1>5, <1>6 DEF gone, Service!Request, Service!None, Service!Waiting

\* A request is cancelled.
LEMMA CancelIsCancel ==
  ASSUME FullInv, NEW r \in Reqs, Cancel(r)
  PROVE  Service!Cancel(r)
<1>1. ControlInv /\ PendingExact /\ pending \in Seq(Reqs)
  BY DEF FullInv, Inv, TypesOK, OrderInv
<1>2. /\ pc[r] \in Suspended /\ pc' = [pc EXCEPT ![r] = "gone"]
      /\ pending' = Unlink(pending, r) /\ result' = result
  BY DEF Cancel, Goto
<1>3. Contains(pending, r)
  BY <1>1, <1>2 DEF PendingExact, Suspended, Active
<1>4. \E i \in DOMAIN pending :
        /\ pending[i] = r
        /\ pending' = SubSeq(pending, 1, i - 1) \o SubSeq(pending, i + 1, Len(pending))
  BY <1>1, <1>2, <1>3, UnlinkCuts
<1>5. gone' = gone \cup {r}
  BY <1>1, <1>2, ControlTypes DEF gone
<1>6. QED
  BY <1>2, <1>4, <1>5 DEF gone, Service!Cancel

\* The oldest request is answered: with its own response if none was cancelled.
LEMMA AnswersIsAnswer ==
  ASSUME FullInv, NEW r \in Reqs, Answers(r)
  PROVE  Service!Answer
<1>1. /\ TypesOK /\ ControlInv /\ RetryInv /\ PendingExact /\ OrderInv /\ TurnInv
      /\ pending \in Seq(Reqs) /\ Distinct(pending)
  BY DEF FullInv, Inv, TypesOK, OrderInv, PendingExact
<1>2. /\ pc[r] \in InFront /\ pending' = Unlink(pending, r)
  BY DEF Answers, GiveUp, ConnectFails, ReadBody, Reject, LostInHeaders, LostInBody, Fail, Deliver,
         InFront
<1>3. Contains(pending, r)
  BY <1>1, <1>2 DEF PendingExact, InFront, Active
<1>4. Len(pending) > 0 /\ pending[1] = r
  <2>1. PICK i \in 1 .. Len(pending) : pending[i] = r
    BY <1>1, <1>3 DEF Contains
  <2>2. pending[1] \in Reqs /\ ~Precedes(pending, pending[1], r)
    BY <1>1, <1>2, <2>1, FrontPrecedes
  <2>3. ~(1 < i)
    BY <1>1, <2>1, <2>2 DEF Precedes
  <2>4. QED
    BY <1>1, <2>1, <2>3
<1>5. pending # <<>> /\ Head(pending) = r /\ pending' = Tail(pending)
  BY <1>1, <1>2, <1>4, UnlinkFirst
<1>6. pc' = [pc EXCEPT ![r] = "return"]
  BY <1>1, AnswersIs
<1>7. gone' = gone
  BY <1>1, <1>2, <1>6, ControlTypes DEF gone, InFront
<1>8. PICK a : /\ result' = [result EXCEPT ![r] = a]
               /\ a \in Errors \/ (pc[r] = "body" /\ a = from[r])
  BY <1>1, AnswersIs
<1>9. a \in (IF gone = {} THEN {r} ELSE Reqs) \cup Errors
  <2>1. CASE a \in Errors
    BY <2>1
  <2>2. CASE pc[r] = "body" /\ a = from[r]
    <3>1. a \in Reqs
      BY <1>1, <2>2 DEF RetryInv, RetryAt
    <3>2. gone = {} => a = r
      BY <1>1, <2>2 DEF gone, TurnInv, Undisturbed, ResponsesOwn
    <3>3. QED
      BY <3>1, <3>2
  <2>3. QED
    BY <1>8, <2>1, <2>2
<1>10. QED
  BY <1>5, <1>7, <1>8, <1>9 DEF gone, Service!Answer, Service!Responses

\* Nothing else the client does is seen by its callers.
LEMMA OtherIsNothing ==
  ASSUME FullInv, NEW r \in Reqs, Step(r), ~Answers(r)
  PROVE  UNCHANGED <<pending, gone, result>>
<1>1. ControlInv
  BY DEF FullInv, Inv, TypesOK
<1>2. /\ UNCHANGED <<pending, result>> /\ pc[r] # "gone"
      /\ \E x \in {"have1", "have2", "have2x", "wait1", "wait2", "wait2x", "want2", "want2x",
                   "sending", "status", "recreate", "mksock", "body", "done"} : Goto(r, x)
  <2>1. CASE LockFree(r) \/ LockHandedOver(r)
    BY <2>1 DEF LockFree, LockHandedOver, GetsLock, Blocked, Got, answers
  <2>2. CASE LockBusy(r)
    BY <2>2 DEF LockBusy, Blocked, answers
  <2>3. CASE \/ Pipeline(r) \/ SendReturns(r) \/ Exclusive(r) \/ ReuseSocket(r) \/ ReadTurn(r)
             \/ NeedSocket(r)
    BY <2>3 DEF Pipeline, SendReturns, Exclusive, ReuseSocket, ReadTurn, NeedSocket, answers
  <2>4. CASE Connect(r) \/ Connected(r) \/ ReadHead(r) \/ LostBeforeStatus(r) \/ Return(r)
    BY <2>4 DEF Connect, Connected, ReadHead, LostBeforeStatus, Return, answers
  <2>5. QED
    BY <2>1, <2>2, <2>3, <2>4 DEF Step, Answers
<1>3. gone' = gone
  BY <1>1, <1>2, ControlTypes DEF gone, Goto
<1>4. QED
  BY <1>2, <1>3

LEMMA ServiceInit == Init => Service!Init
<1> SUFFICES ASSUME Init PROVE Service!Init
  OBVIOUS
<1>1. pending = <<>> /\ result = [r \in Reqs |-> "none"] /\ {r \in Reqs : pc[r] = "gone"} = {}
  BY DEF Init, None
<1>2. QED
  BY <1>1 DEF Service!Init, Service!None

LEMMA ServiceNext == FullInv /\ [Next]_vars => [Service!Next]_(Service!vars)
<1> SUFFICES ASSUME FullInv, [Next]_vars
             PROVE  Service!Next \/ UNCHANGED <<pending, gone, result>>
  BY DEF Service!vars, gone
<1>1. ASSUME NEW r \in Reqs, Call(r) \/ Step(r) \/ Cancel(r)
      PROVE  Service!Next \/ UNCHANGED <<pending, gone, result>>
  BY <1>1, CallIsRequest, CancelIsCancel, AnswersIsAnswer, OtherIsNothing DEF Service!Next
<1>2. CASE KeepaliveExpires \/ ServerSends \/ ServerCloses \/ UNCHANGED vars
  BY <1>2 DEF KeepaliveExpires, ServerSends, ServerCloses, vars, answers, gone
<1>3. QED
  BY <1>1, <1>2 DEF Next

-----------------------------------------------------------------------------
(* The results.                                                            *)

\* Nothing but a cancellation disturbs the socket for the others.
LEMMA NobodyLeaves ==
  ASSUME MayCancel = {}, FullInv, Undisturbed, [Next]_vars
  PROVE  Undisturbed'
<1>1. ASSUME NEW r \in Reqs, Call(r) \/ Step(r)
      PROVE  Undisturbed'
  <2>1. CASE Call(r)
    <3>1. pc' = [pc EXCEPT ![r] = "want1"] /\ pc \in [Reqs -> Labels]
      BY <2>1, ControlTypes DEF Call, Goto, FullInv, Inv, TypesOK
    <3>2. QED
      BY <3>1 DEF Undisturbed
  <2>2. CASE Answers(r)
    <3>1. pc' = [pc EXCEPT ![r] = "return"] /\ pc \in [Reqs -> Labels]
      BY <2>2, AnswersIs, ControlTypes DEF FullInv, Inv, TypesOK
    <3>2. QED
      BY <3>1 DEF Undisturbed
  <2>3. CASE Step(r) /\ ~Answers(r)
    BY <2>3, OtherIsNothing DEF Undisturbed, gone
  <2>4. QED
    BY <1>1, <2>1, <2>2, <2>3
<1>2. \A r \in Reqs : ~Cancel(r)
  BY DEF Cancel
<1>3. CASE KeepaliveExpires \/ ServerSends \/ ServerCloses \/ UNCHANGED vars
  BY <1>3 DEF KeepaliveExpires, ServerSends, ServerCloses, vars, Undisturbed
<1>4. QED
  BY <1>1, <1>2, <1>3 DEF Next

\* Without cancellation nobody gets the response to somebody else's request, pipelined
\* or not, over any number of connections and failed sends: the code's "mutex two" and
\* its counters do what they are there for.
THEOREM EverybodyGetsTheirOwn == MayCancel = {} /\ ~CancelScheduled /\ Spec => []ResponseIsOwn
<1>1. FullInv /\ Undisturbed => ResponseIsOwn
  BY DEF FullInv, TurnInv, ResponsesOwn, ResponseIsOwn
<1>2. Init => Undisturbed
  BY DEF Init, Undisturbed
<1>3. CASE MayCancel = {}
  <2>1. FullInv /\ Undisturbed /\ [Next]_vars => Undisturbed'
    BY <1>3, NobodyLeaves
  <2>2. QED
    BY <1>1, <1>2, <2>1, FullInvariant, PTL DEF Spec, Safe
<1>4. CASE MayCancel # {}
  BY <1>4
<1>5. QED
  BY <1>3, <1>4

\* Every step of the client is a step of the service, or none that its callers see: one
\* answer each, to the request itself or an error, in the order of the calls, but for a
\* call that is made inside a failing send and comes before the request that is sent.
THEOREM IsTheService == ~CancelScheduled /\ Spec => Service!Safe
BY FullInvariant, ServiceInit, ServiceNext, PTL DEF Spec, Safe, Service!Safe
=============================================================================
