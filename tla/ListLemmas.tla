----------------------------- MODULE ListLemmas -----------------------------
(***************************************************************************)
(* What holds of the lists of any set's members that the program keeps:    *)
(* the waiters of a co_mutex and the coroutines the run loop resumes, the  *)
(* freelists of the arrays of slots in runloop2_poll and dns_t, and the    *)
(* history and the sockets of the IRC bouncer.                             *)
(***************************************************************************)
EXTENDS CoMutex, SequenceTheorems, WellFoundedInduction, TLAPS

-----------------------------------------------------------------------------
(* The lists of a co_mutex.                                                *)

MutexOver(S) == [locked : BOOLEAN, waiters : Seq(S)]

\* c is in front of d in the list s.
Precedes(s, c, d) ==
  \E i, j \in 1 .. Len(s) : i < j /\ s[i] = c /\ s[j] = d

Distinct(s) == \A i, j \in 1 .. Len(s) : s[i] = s[j] => i = j

\* Unlinking a node from a list leaves a list.
LEMMA UnlinkType ==
  ASSUME NEW S, NEW s \in Seq(S), NEW c
  PROVE  Unlink(s, c) \in Seq(S)
<1>1. CASE ~Contains(s, c)
  BY <1>1 DEF Unlink
<1>2. CASE Contains(s, c)
  <2>1. PICK k \in 1 .. Len(s) : k = CHOOSE i \in DOMAIN s : s[i] = c
    BY <1>2 DEF Contains
  <2>2. SubSeq(s, 1, k-1) \in Seq(S) /\ SubSeq(s, k+1, Len(s)) \in Seq(S)
    <3>1. \A i \in 1 .. Len(s) : s[i] \in S
      BY ElementOfSeq
    <3>2. k \in Int /\ Len(s) \in Nat /\ 1 \in Int /\ k-1 \in Int /\ k+1 \in Int
      BY <2>1
    <3>3. \A i \in 1 .. k-1 : s[i] \in S
      BY <3>1, <3>2
    <3>4. \A i \in k+1 .. Len(s) : s[i] \in S
      BY <3>1, <3>2
    <3>5. QED
      BY <3>2, <3>3, <3>4, SubSeqProperties
  <2>3. QED
    BY <1>2, <2>1, <2>2 DEF Unlink, RemoveAt
<1>3. QED
  BY <1>1, <1>2

LEMMA OpsType ==
  ASSUME NEW S, NEW mx \in MutexOver(S), NEW c \in S
  PROVE  /\ Take(mx, c) \in MutexOver(S)
         /\ Enqueue(mx, c) \in MutexOver(S)
         /\ Unlock(mx) \in MutexOver(S)
         /\ Forget(mx, c) \in MutexOver(S)
         /\ Woken(mx) \in Seq(S)
<1>1. mx.waiters \in Seq(S)
  BY DEF MutexOver
<1>2. Unlink(mx.waiters, c) \in Seq(S)
  BY <1>1, UnlinkType
<1>3. Append(mx.waiters, c) \in Seq(S)
  BY <1>1
<1>4. Woken(mx) \in Seq(S)
  BY <1>1 DEF Woken
<1>5. QED
  BY <1>1, <1>2, <1>3, <1>4 DEF MutexOver, Take, Enqueue, Unlock, Forget

\* u is s without its element k.
CutAt(u, s, k) ==
  /\ Len(u) = Len(s) - 1
  /\ \A j \in 1 .. Len(s) - 1 : u[j] = IF j < k THEN s[j] ELSE s[j + 1]

\* What unlinking does to the positions of a list.
LEMMA UnlinkAt ==
  ASSUME NEW S, NEW s \in Seq(S), NEW c, Contains(s, c)
  PROVE  \E k \in 1 .. Len(s) : s[k] = c /\ CutAt(Unlink(s, c), s, k)
<1>1. PICK k \in 1 .. Len(s) : k = (CHOOSE i \in DOMAIN s : s[i] = c) /\ s[k] = c
  BY DEF Contains
<1> DEFINE a == SubSeq(s, 1, k - 1)
           b == SubSeq(s, k + 1, Len(s))
<1>2. /\ a \in Seq(S) /\ Len(a) = k - 1
      /\ \A j \in 1 .. k - 1 : a[j] = s[j]
  <2>1. k \in Int /\ 1 \in Int /\ k - 1 \in Int /\ Len(s) \in Nat
    BY <1>1
  <2>2. \A i \in 1 .. k - 1 : s[i] \in S
    BY <2>1, ElementOfSeq
  <2>3. QED
    BY <2>1, <2>2, SubSeqProperties
<1>3. /\ b \in Seq(S) /\ Len(b) = Len(s) - k
      /\ \A j \in 1 .. Len(s) - k : b[j] = s[k + j]
  <2>1. k \in Int /\ k + 1 \in Int /\ Len(s) \in Nat /\ Len(s) \in Int
    BY <1>1
  <2>2. \A i \in k + 1 .. Len(s) : s[i] \in S
    BY <2>1, ElementOfSeq
  <2>3. QED
    BY <2>1, <2>2, SubSeqProperties
<1>4. Unlink(s, c) = a \o b
  BY <1>1 DEF Unlink, RemoveAt
<1> HIDE DEF a, b
<1>5. Len(a \o b) = Len(s) - 1
  BY <1>2, <1>3
<1>6. ASSUME NEW j \in 1 .. Len(s) - 1
      PROVE  (a \o b)[j] = IF j < k THEN s[j] ELSE s[j + 1]
  BY <1>2, <1>3
<1>7. CutAt(a \o b, s, k)
  BY <1>5, <1>6 DEF CutAt
<1>8. QED
  BY <1>1, <1>4, <1>7

\* A coroutine that is not in a list can be unlinked from it.
LEMMA UnlinkAbsent ==
  ASSUME NEW S, NEW s \in Seq(S), NEW c, ~Contains(s, c)
  PROVE  Unlink(s, c) = s
BY DEF Unlink

\* The list without c: every remaining element was there, at most once, is not c, and
\* the first one stays first unless it is c.
LEMMA UnlinkDistinct ==
  ASSUME NEW S, NEW s \in Seq(S), NEW c,
         \A i, j \in 1 .. Len(s) : s[i] = s[j] => i = j
  PROVE  LET u == Unlink(s, c) IN
         /\ \A j \in 1 .. Len(u) : u[j] # c /\ \E i \in 1 .. Len(s) : u[j] = s[i]
         /\ \A i, j \in 1 .. Len(u) : u[i] = u[j] => i = j
         /\ Len(s) > 0 /\ s[1] # c => Len(u) > 0 /\ u[1] = s[1]
<1> DEFINE u == Unlink(s, c)
<1>1. CASE ~Contains(s, c)
  <2>1. u = s
    BY <1>1, UnlinkAbsent
  <2>2. \A j \in 1 .. Len(s) : s[j] # c
    BY <1>1 DEF Contains
  <2>3. QED
    BY <2>1, <2>2
<1>2. CASE Contains(s, c)
  <2>0. PICK k \in 1 .. Len(s) : s[k] = c /\ CutAt(Unlink(s, c), s, k)
    BY <1>2, UnlinkAt
  <2>1. s[k] = c
    BY <2>0
  <2>u. /\ Len(u) = Len(s) - 1
        /\ \A j \in 1 .. Len(s) - 1 : u[j] = IF j < k THEN s[j] ELSE s[j + 1]
    BY <2>0 DEF CutAt
  <2> HIDE DEF u
  <2>2. ASSUME NEW j \in 1 .. Len(u)
        PROVE  u[j] # c /\ \E i \in 1 .. Len(s) : u[j] = s[i]
    BY <2>1, <2>u
  <2>3. ASSUME NEW i \in 1 .. Len(u), NEW j \in 1 .. Len(u), u[i] = u[j]
        PROVE  i = j
    BY <2>1, <2>u, <2>3
  <2>4. ASSUME Len(s) > 0, s[1] # c
        PROVE  Len(u) > 0 /\ u[1] = s[1]
    BY <2>1, <2>u, <2>4
  <2>5. QED
    BY <2>2, <2>3, <2>4 DEF u
<1>3. QED
  BY <1>1, <1>2

\* What is in two lists that are put together.
LEMMA ConcatHas ==
  ASSUME NEW S, NEW s \in Seq(S), NEW t \in Seq(S), NEW c
  PROVE  Contains(s \o t, c) <=> Contains(s, c) \/ Contains(t, c)
<1>1. /\ Len(s) \in Nat /\ Len(t) \in Nat /\ Len(s \o t) = Len(s) + Len(t)
      /\ DOMAIN s = 1 .. Len(s) /\ DOMAIN t = 1 .. Len(t) /\ DOMAIN (s \o t) = 1 .. Len(s) + Len(t)
      /\ \A i \in 1 .. Len(s) : (s \o t)[i] = s[i]
      /\ \A i \in 1 .. Len(t) : (s \o t)[Len(s) + i] = t[i]
  OBVIOUS
<1>2. \A i \in 1 .. Len(s) + Len(t) :
        i \in 1 .. Len(s) \/ (i - Len(s) \in 1 .. Len(t) /\ i = Len(s) + (i - Len(s)))
  BY <1>1
<1>3. ASSUME Contains(s \o t, c) PROVE Contains(s, c) \/ Contains(t, c)
  <2>1. PICK i \in 1 .. Len(s) + Len(t) : (s \o t)[i] = c
    BY <1>1, <1>3 DEF Contains
  <2>2. CASE i \in 1 .. Len(s)
    BY <1>1, <2>1, <2>2 DEF Contains
  <2>3. CASE i - Len(s) \in 1 .. Len(t) /\ i = Len(s) + (i - Len(s))
    <3>1. t[i - Len(s)] = c
      BY <1>1, <2>1, <2>3
    <3>2. QED
      BY <1>1, <2>3, <3>1 DEF Contains
  <2>4. QED
    BY <1>2, <2>2, <2>3
<1>4. ASSUME Contains(s, c) PROVE Contains(s \o t, c)
  <2>1. PICK i \in 1 .. Len(s) : s[i] = c
    BY <1>1, <1>4 DEF Contains
  <2>2. i \in 1 .. Len(s) + Len(t) /\ (s \o t)[i] = c
    BY <1>1, <2>1
  <2>3. QED
    BY <1>1, <2>2 DEF Contains
<1>5. ASSUME Contains(t, c) PROVE Contains(s \o t, c)
  <2>1. PICK i \in 1 .. Len(t) : t[i] = c
    BY <1>1, <1>5 DEF Contains
  <2>2. Len(s) + i \in 1 .. Len(s) + Len(t) /\ (s \o t)[Len(s) + i] = c
    BY <1>1, <2>1
  <2>3. QED
    BY <1>1, <2>2 DEF Contains
<1>6. QED
  BY <1>3, <1>4, <1>5

\* The fifo after unlock() gave it the first waiter, if there is one.
LEMMA WokenAt ==
  ASSUME NEW S, NEW q \in Seq(S), NEW mx \in MutexOver(S)
  PROVE  LET r == q \o Woken(mx)
             w == mx.waiters IN
         /\ \A i \in 1 .. Len(q) : r[i] = q[i]
         /\ w = <<>> => Len(r) = Len(q)
         /\ w # <<>> => /\ Len(r) = Len(q) + 1
                        /\ r[Len(q) + 1] = w[1]
                        /\ Len(w) > 0
<1>1. mx.waiters \in Seq(S)
  BY DEF MutexOver
<1>2. CASE mx.waiters = <<>>
  BY <1>2 DEF Woken
<1>3. CASE mx.waiters # <<>>
  <2>1. Woken(mx) = <<mx.waiters[1]>> /\ Len(mx.waiters) > 0
    BY <1>1, <1>3 DEF Woken
  <2>2. mx.waiters[1] \in S
    BY <1>1, <2>1
  <2>3. QED
    BY <1>3, <2>1, <2>2
<1>4. QED
  BY <1>2, <1>3

\* In a list without duplicates any two elements are in one order.
LEMMA PrecedesOrder ==
  ASSUME NEW s, NEW x, NEW y, Len(s) \in Nat, DOMAIN s = 1 .. Len(s), Distinct(s)
  PROVE  /\ Precedes(s, x, y) => /\ x # y /\ ~Precedes(s, y, x)
                                 /\ Contains(s, x) /\ Contains(s, y)
         /\ Contains(s, x) /\ Contains(s, y) /\ x # y =>
              Precedes(s, x, y) \/ Precedes(s, y, x)
BY DEF Precedes, Distinct, Contains

\* Unlinking c leaves the others in their order.
LEMMA UnlinkOrder ==
  ASSUME NEW S, NEW s \in Seq(S), NEW c, Distinct(s)
  PROVE  LET u == Unlink(s, c) IN
         /\ Distinct(u)
         /\ \A x : Contains(u, x) <=> Contains(s, x) /\ x # c
         /\ \A x, y : Precedes(u, x, y) <=> Precedes(s, x, y) /\ x # c /\ y # c
<1> DEFINE u == Unlink(s, c)
<1>0. Len(s) \in Nat /\ DOMAIN s = 1 .. Len(s)
  OBVIOUS
<1>t. u \in Seq(S) /\ Len(u) \in Nat /\ DOMAIN u = 1 .. Len(u)
  BY UnlinkType
<1>d. Distinct(u)
  BY UnlinkDistinct DEF Distinct
<1>1. CASE ~Contains(s, c)
  <2>1. u = s
    BY <1>1, UnlinkAbsent
  <2>2. \A j \in 1 .. Len(s) : s[j] # c
    BY <1>0, <1>1 DEF Contains
  <2>3. \A x, y : Precedes(s, x, y) => x # c /\ y # c
    BY <2>2 DEF Precedes
  <2>4. QED
    BY <1>1, <1>d, <2>1, <2>3
<1>2. CASE Contains(s, c)
  <2>0. PICK k \in 1 .. Len(s) : s[k] = c /\ CutAt(Unlink(s, c), s, k)
    BY <1>2, UnlinkAt
  <2>1. /\ s[k] = c
        /\ Len(u) = Len(s) - 1
        /\ \A j \in 1 .. Len(s) - 1 : u[j] = IF j < k THEN s[j] ELSE s[j + 1]
    BY <2>0 DEF CutAt
  <2> HIDE DEF u
  \* The places of the two lists correspond, but for that of c.
  <2>2. \A j \in 1 .. Len(u) : \E i \in 1 .. Len(s) :
          u[j] = s[i] /\ i # k /\ i = IF j < k THEN j ELSE j + 1
    BY <1>0, <2>1
  <2>3. \A i \in 1 .. Len(s) : i # k => \E j \in 1 .. Len(u) :
          u[j] = s[i] /\ j = IF i < k THEN i ELSE i - 1
    <3>1. ASSUME NEW i \in 1 .. Len(s), i # k
          PROVE  \E j \in 1 .. Len(u) : u[j] = s[i] /\ j = IF i < k THEN i ELSE i - 1
      <4>1. CASE i < k
        <5>1. i \in 1 .. Len(s) - 1
          BY <1>0, <4>1
        <5>2. QED
          BY <2>1, <4>1, <5>1
      <4>2. CASE i > k
        <5>1. i - 1 \in 1 .. Len(s) - 1 /\ ~(i - 1 < k) /\ i - 1 + 1 = i /\ ~(i < k)
          BY <1>0, <4>2
        <5>2. u[i - 1] = s[i]
          BY <2>1, <5>1
        <5>3. QED
          BY <2>1, <5>1, <5>2
      <4>3. QED
        BY <3>1, <4>1, <4>2
    <3>2. QED
      BY <3>1
  <2>4. \A i \in 1 .. Len(s) : s[i] = c <=> i = k
    BY <2>1 DEF Distinct
  <2>5. ASSUME NEW x
        PROVE  Contains(u, x) <=> Contains(s, x) /\ x # c
    <3>1. Contains(u, x) <=> \E j \in 1 .. Len(u) : u[j] = x
      BY <1>t DEF Contains
    <3>2. Contains(s, x) <=> \E i \in 1 .. Len(s) : s[i] = x
      BY <1>0 DEF Contains
    <3>3. ASSUME NEW j \in 1 .. Len(u), u[j] = x
          PROVE  x # c /\ \E i \in 1 .. Len(s) : s[i] = x
      <4>1. PICK i \in 1 .. Len(s) : u[j] = s[i] /\ i # k
        BY <2>2
      <4>2. QED
        BY <2>4, <3>3, <4>1
    <3>4. ASSUME NEW i \in 1 .. Len(s), s[i] = x, x # c
          PROVE  \E j \in 1 .. Len(u) : u[j] = x
      <4>1. i # k
        BY <2>4, <3>4
      <4>2. QED
        BY <2>3, <3>4, <4>1
    <3>5. QED
      BY <3>1, <3>2, <3>3, <3>4
  <2>6. ASSUME NEW x, NEW y
        PROVE  Precedes(u, x, y) <=> Precedes(s, x, y) /\ x # c /\ y # c
    <3>1. ASSUME Precedes(u, x, y)
          PROVE  Precedes(s, x, y) /\ x # c /\ y # c
      <4>1. PICK i, j \in 1 .. Len(u) : i < j /\ u[i] = x /\ u[j] = y
        BY <3>1 DEF Precedes
      <4>2. PICK a \in 1 .. Len(s) : x = s[a] /\ a # k /\ a = IF i < k THEN i ELSE i + 1
        BY <2>2, <4>1
      <4>3. PICK b \in 1 .. Len(s) : y = s[b] /\ b # k /\ b = IF j < k THEN j ELSE j + 1
        BY <2>2, <4>1
      <4>4. a < b
        BY <4>1, <4>2, <4>3
      <4>5. QED
        BY <2>4, <4>2, <4>3, <4>4 DEF Precedes
    <3>2. ASSUME Precedes(s, x, y), x # c, y # c
          PROVE  Precedes(u, x, y)
      <4>1. PICK a, b \in 1 .. Len(s) : a < b /\ s[a] = x /\ s[b] = y
        BY <3>2 DEF Precedes
      <4>2. PICK i \in 1 .. Len(u) : u[i] = x /\ i = IF a < k THEN a ELSE a - 1
        BY <2>3, <2>4, <3>2, <4>1
      <4>3. PICK j \in 1 .. Len(u) : u[j] = y /\ j = IF b < k THEN b ELSE b - 1
        BY <2>3, <2>4, <3>2, <4>1
      <4>4. i < j
        BY <2>4, <3>2, <4>1, <4>2, <4>3
      <4>5. QED
        BY <4>2, <4>3, <4>4 DEF Precedes
    <3>3. QED
      BY <3>1, <3>2
  <2>7. QED
    BY <1>d, <2>5, <2>6 DEF u
<1>3. QED
  BY <1>1, <1>2

\* Appending c puts it behind everybody and moves nobody.
LEMMA AppendOrder ==
  ASSUME NEW S, NEW s \in Seq(S), NEW c \in S, Distinct(s), ~Contains(s, c)
  PROVE  LET a == Append(s, c) IN
         /\ Distinct(a)
         /\ \A x : Contains(a, x) <=> Contains(s, x) \/ x = c
         /\ \A x, y : Precedes(a, x, y) <=>
                        Precedes(s, x, y) \/ (y = c /\ Contains(s, x))
<1> DEFINE a == Append(s, c)
<1>1. /\ Len(s) \in Nat /\ DOMAIN s = 1 .. Len(s)
      /\ Len(a) = Len(s) + 1 /\ DOMAIN a = 1 .. Len(a)
      /\ \A i \in 1 .. Len(s) : a[i] = s[i] /\ s[i] # c
      /\ a[Len(s) + 1] = c
  BY DEF Contains
<1> HIDE DEF a
<1>2. \A i \in 1 .. Len(a) :
        \/ i \in 1 .. Len(s) /\ a[i] = s[i] /\ s[i] # c
        \/ i = Len(s) + 1 /\ a[i] = c
  BY <1>1
<1>3. Distinct(a)
  BY <1>1, <1>2 DEF Distinct
<1>4. ASSUME NEW x
      PROVE  Contains(a, x) <=> Contains(s, x) \/ x = c
  <2>1. Contains(a, x) <=> \E j \in 1 .. Len(a) : a[j] = x
    BY <1>1 DEF Contains
  <2>2. Contains(s, x) <=> \E i \in 1 .. Len(s) : s[i] = x
    BY <1>1 DEF Contains
  <2>3. QED
    BY <1>1, <1>2, <2>1, <2>2
<1>5. ASSUME NEW x, NEW y
      PROVE  Precedes(a, x, y) <=> Precedes(s, x, y) \/ (y = c /\ Contains(s, x))
  <2>1. Contains(s, x) <=> \E i \in 1 .. Len(s) : s[i] = x
    BY <1>1 DEF Contains
  <2>2. ASSUME Precedes(a, x, y)
        PROVE  Precedes(s, x, y) \/ (y = c /\ Contains(s, x))
    BY <1>1, <1>2, <2>1, <2>2 DEF Precedes
  <2>3. ASSUME Precedes(s, x, y) PROVE Precedes(a, x, y)
    BY <1>1, <2>3 DEF Precedes
  <2>4. ASSUME y = c, Contains(s, x) PROVE Precedes(a, x, y)
    <3>1. PICK i \in 1 .. Len(s) : s[i] = x
      BY <2>1, <2>4
    <3>2. i \in 1 .. Len(a) /\ Len(s) + 1 \in 1 .. Len(a) /\ i < Len(s) + 1
      BY <1>1
    <3>3. QED
      BY <1>1, <2>4, <3>1, <3>2 DEF Precedes
  <2>5. QED
    BY <2>2, <2>3, <2>4
<1>6. QED
  BY <1>3, <1>4, <1>5 DEF a

\* Inserting c before the last element moves nobody else.
LEMMA PassOrder ==
  ASSUME NEW S, NEW s \in Seq(S), s # <<>>, NEW c \in S, Distinct(s), ~Contains(s, c)
  PROVE  LET u == Front(s) \o <<c, Last(s)>> IN
         /\ u \in Seq(S) /\ Distinct(u)
         /\ \A x : Contains(u, x) <=> Contains(s, x) \/ x = c
         /\ \A x, y : x # c /\ y # c => (Precedes(u, x, y) <=> Precedes(s, x, y))
         /\ \A x : Precedes(u, x, c) => Precedes(s, x, Last(s))
         /\ \A x : Precedes(u, c, x) => x = Last(s)
<1> DEFINE a == Front(s)
           e == Last(s)
           u == a \o <<c, e>>
           n == Len(s)
<1>0. n \in Nat /\ n > 0 /\ n - 1 \in Nat /\ DOMAIN s = 1 .. n /\ e = s[n] /\ e \in S
  BY DEF Last
<1>1. a \in Seq(S) /\ Len(a) = n - 1 /\ \A j \in 1 .. n - 1 : a[j] = s[j]
  <2>1. 1 \in Int /\ n - 1 \in Int /\ \A i \in 1 .. n - 1 : s[i] \in S
    BY <1>0, ElementOfSeq
  <2>2. /\ SubSeq(s, 1, n - 1) \in Seq(S)
        /\ Len(SubSeq(s, 1, n - 1)) = IF 1 <= n - 1 + 1 THEN n - 1 - 1 + 1 ELSE 0
        /\ \A j \in 1 .. n - 1 - 1 + 1 : SubSeq(s, 1, n - 1)[j] = s[1 + j - 1]
    BY <2>1, SubSeqProperties
  <2>3. QED
    BY <1>0, <2>2 DEF Front
<1> HIDE DEF a, e, n
<1>2. /\ u \in Seq(S) /\ Len(u) = n + 1 /\ DOMAIN u = 1 .. n + 1
      /\ \A i \in 1 .. n - 1 : u[i] = a[i]
      /\ u[n] = c /\ u[n + 1] = e
  BY <1>0, <1>1
<1>3. \A i \in 1 .. n : s[i] # c
  BY <1>0 DEF Contains
<1> HIDE DEF u
\* Where the elements of u come from.
<1>4. \A i \in 1 .. n + 1 :
        \/ i \in 1 .. n - 1 /\ u[i] = s[i] /\ u[i] # c
        \/ i = n /\ u[i] = c
        \/ i = n + 1 /\ u[i] = s[n] /\ u[i] # c
  BY <1>0, <1>1, <1>2, <1>3
<1>5. Distinct(u)
  <2>1. \A i, j \in 1 .. n : s[i] = s[j] => i = j
    BY DEF Distinct, n
  <2>2. QED
    BY <1>0, <1>2, <1>4, <2>1 DEF Distinct
<1>6. ASSUME NEW x
      PROVE  Contains(u, x) <=> Contains(s, x) \/ x = c
  <2>1. Contains(u, x) <=> \E j \in 1 .. n + 1 : u[j] = x
    BY <1>2 DEF Contains
  <2>2. Contains(s, x) <=> \E i \in 1 .. n : s[i] = x
    BY <1>0 DEF Contains
  <2>3. ASSUME NEW i \in 1 .. n, s[i] = x PROVE \E j \in 1 .. n + 1 : u[j] = x
    <3>1. CASE i = n
      BY <1>0, <1>2, <2>3, <3>1
    <3>2. CASE i # n
      BY <1>0, <1>1, <1>2, <2>3, <3>2
    <3>3. QED
      BY <3>1, <3>2
  <2>4. \E j \in 1 .. n + 1 : u[j] = c
    BY <1>0, <1>2
  <2>5. ASSUME NEW j \in 1 .. n + 1, u[j] = x PROVE x = c \/ \E i \in 1 .. n : s[i] = x
    BY <1>0, <1>4, <2>5
  <2>6. QED
    BY <2>1, <2>2, <2>3, <2>4, <2>5
<1>7. ASSUME NEW x, NEW y, x # c, y # c
      PROVE  Precedes(u, x, y) <=> Precedes(s, x, y)
  <2>1. ASSUME Precedes(u, x, y) PROVE Precedes(s, x, y)
    <3>1. PICK i, j \in 1 .. n + 1 : i < j /\ u[i] = x /\ u[j] = y
      BY <1>2, <2>1 DEF Precedes
    <3>2. i \in 1 .. n - 1 /\ s[i] = x
      BY <1>0, <1>4, <1>7, <3>1
    <3>3. (j \in 1 .. n - 1 /\ s[j] = y) \/ s[n] = y
      BY <1>4, <1>7, <3>1
    <3>4. QED
      BY <1>0, <3>1, <3>2, <3>3 DEF Precedes, n
  <2>2. ASSUME Precedes(s, x, y) PROVE Precedes(u, x, y)
    <3>1. PICK i, j \in 1 .. n : i < j /\ s[i] = x /\ s[j] = y
      BY <2>2 DEF Precedes, n
    <3>2. i \in 1 .. n - 1 /\ u[i] = x
      BY <1>0, <1>1, <1>2, <3>1
    <3>3. (j \in 1 .. n - 1 /\ u[j] = y) \/ u[n + 1] = y
      BY <1>0, <1>1, <1>2, <3>1
    <3>4. QED
      BY <1>0, <1>2, <3>1, <3>2, <3>3 DEF Precedes
  <2>3. QED
    BY <2>1, <2>2
<1>8. ASSUME NEW x, Precedes(u, x, c) PROVE Precedes(s, x, e)
  <2>1. PICK i, j \in 1 .. n + 1 : i < j /\ u[i] = x /\ u[j] = c
    BY <1>2, <1>8 DEF Precedes
  <2>2. j = n
    BY <1>4, <2>1
  <2>3. i \in 1 .. n - 1 /\ s[i] = x
    BY <1>0, <1>4, <2>1, <2>2
  <2>4. QED
    BY <1>0, <2>3 DEF Precedes, n
<1>9. ASSUME NEW x, Precedes(u, c, x) PROVE x = e
  <2>1. PICK i, j \in 1 .. n + 1 : i < j /\ u[i] = c /\ u[j] = x
    BY <1>2, <1>9 DEF Precedes
  <2>2. i = n
    BY <1>4, <2>1
  <2>3. j = n + 1
    BY <1>0, <2>1, <2>2
  <2>4. QED
    BY <1>2, <2>1, <2>3
<1>10. QED
  BY <1>2, <1>5, <1>6, <1>7, <1>8, <1>9 DEF u, a, e

\* The first element of a list without duplicates is in front of every other.
LEMMA FirstPrecedes ==
  ASSUME NEW S, NEW s \in Seq(S), Distinct(s), Len(s) > 0, NEW x
  PROVE  ~Precedes(s, x, s[1])
BY DEF Precedes, Distinct

\* Unlinking the first waiter leaves the rest.
LEMMA UnlinkFirst ==
  ASSUME NEW S, NEW s \in Seq(S), Distinct(s), Len(s) > 0
  PROVE  Unlink(s, s[1]) = Tail(s)
<1> DEFINE u == Unlink(s, s[1])
<1>1. Contains(s, s[1])
  BY DEF Contains
<1>2. PICK k \in 1 .. Len(s) : s[k] = s[1] /\ CutAt(u, s, k)
  BY <1>1, UnlinkAt
<1>3. Len(u) = Len(s) - 1 /\ \A j \in 1 .. Len(s) - 1 : u[j] = s[j + 1]
  BY <1>2 DEF Distinct, CutAt
<1>4. u \in Seq(S)
  BY UnlinkType
<1> HIDE DEF u
<1>5. Tail(s) \in Seq(S) /\ Len(Tail(s)) = Len(s) - 1
  OBVIOUS
<1>6. \A j \in 1 .. Len(u) : u[j] = Tail(s)[j]
  BY <1>3
<1>7. u = Tail(s)
  BY <1>3, <1>4, <1>5, <1>6, SeqEqual
<1>8. QED
  BY <1>7 DEF u

\* Unlinking takes one node out.
LEMMA UnlinkCuts ==
  ASSUME NEW S, NEW s \in Seq(S), NEW c, Contains(s, c)
  PROVE  \E i \in DOMAIN s :
           s[i] = c /\ Unlink(s, c) = SubSeq(s, 1, i - 1) \o SubSeq(s, i + 1, Len(s))
<1>1. PICK k \in DOMAIN s : k = (CHOOSE i \in DOMAIN s : s[i] = c) /\ s[k] = c
  BY DEF Contains
<1>2. Unlink(s, c) = SubSeq(s, 1, k - 1) \o SubSeq(s, k + 1, Len(s))
  BY <1>1 DEF Unlink, RemoveAt
<1>3. QED
  BY <1>1, <1>2

-----------------------------------------------------------------------------
(* The freelist of an array of slots.                                      *)

\* f names the members of E, the free ones of the slots 1 .. n, each once.
FreeIs(n, E, f) ==
  /\ f \in Seq(1 .. n)
  /\ \A i, j \in 1 .. Len(f) : f[i] = f[j] => i = j
  /\ \A i \in 1 .. n : i \in E <=> \E k \in 1 .. Len(f) : f[k] = i

LEMMA FreeTake ==
  ASSUME NEW n \in Nat, NEW E, NEW f, FreeIs(n, E, f), f # <<>>
  PROVE  /\ f[1] \in 1 .. n /\ f[1] \in E
         /\ FreeIs(n, E \ {f[1]}, Tail(f))
<1>1. /\ f \in Seq(1 .. n) /\ Len(f) \in Nat /\ Len(f) > 0 /\ f[1] \in 1 .. n
      /\ \A i, j \in 1 .. Len(f) : f[i] = f[j] => i = j
      /\ \A i \in 1 .. n : i \in E <=> \E k \in 1 .. Len(f) : f[k] = i
  BY DEF FreeIs
<1>2. /\ Tail(f) \in Seq(1 .. n) /\ Len(Tail(f)) = Len(f) - 1
      /\ \A i \in 1 .. Len(f) - 1 : Tail(f)[i] = f[i + 1]
  BY <1>1
<1>3. f[1] \in E
  BY <1>1
<1>4. \A i, j \in 1 .. Len(Tail(f)) : Tail(f)[i] = Tail(f)[j] => i = j
  <2> SUFFICES ASSUME NEW i \in 1 .. Len(f) - 1, NEW j \in 1 .. Len(f) - 1, f[i + 1] = f[j + 1]
               PROVE  i = j
    BY <1>1, <1>2
  <2>1. i + 1 \in 1 .. Len(f) /\ j + 1 \in 1 .. Len(f)
    BY <1>1
  <2>2. i + 1 = j + 1
    BY <1>1, <2>1
  <2>3. QED
    BY <2>2
<1>5. ASSUME NEW i \in 1 .. n
      PROVE  i \in E \ {f[1]} <=> \E k \in 1 .. Len(Tail(f)) : Tail(f)[k] = i
  <2>1. ASSUME i \in E, i # f[1] PROVE \E k \in 1 .. Len(Tail(f)) : Tail(f)[k] = i
    <3>1. PICK k \in 1 .. Len(f) : f[k] = i
      BY <1>1, <2>1
    <3>2. k - 1 \in 1 .. Len(f) - 1
      BY <1>1, <2>1, <3>1
    <3>3. Tail(f)[k - 1] = i
      BY <1>2, <3>1, <3>2
    <3>4. QED
      BY <1>2, <3>2, <3>3
  <2>2. ASSUME NEW k \in 1 .. Len(Tail(f)), Tail(f)[k] = i PROVE i \in E /\ i # f[1]
    <3>1. k + 1 \in 1 .. Len(f) /\ f[k + 1] = i /\ k + 1 # 1 /\ 1 \in 1 .. Len(f)
      BY <1>1, <1>2, <2>2
    <3>2. QED
      BY <1>1, <3>1
  <2>3. QED
    BY <2>1, <2>2
<1>6. QED
  BY <1>1, <1>2, <1>3, <1>4, <1>5 DEF FreeIs

LEMMA FreeGive ==
  ASSUME NEW n \in Nat, NEW E, NEW f, FreeIs(n, E, f), NEW i \in 1 .. n, i \notin E
  PROVE  FreeIs(n, E \cup {i}, <<i>> \o f)
<1> DEFINE g == <<i>> \o f
<1>1. /\ f \in Seq(1 .. n) /\ Len(f) \in Nat
      /\ \A k, j \in 1 .. Len(f) : f[k] = f[j] => k = j
      /\ \A j \in 1 .. n : j \in E <=> \E k \in 1 .. Len(f) : f[k] = j
  BY DEF FreeIs
<1>2. /\ g \in Seq(1 .. n) /\ Len(g) = Len(f) + 1 /\ g[1] = i
      /\ \A k \in 1 .. Len(f) : g[k + 1] = f[k]
  BY <1>1
<1>3. ASSUME NEW k \in 1 .. Len(g), k # 1
      PROVE  k - 1 \in 1 .. Len(f) /\ g[k] = f[k - 1] /\ g[k] # i
  <2>1. k - 1 \in 1 .. Len(f) /\ k = (k - 1) + 1
    BY <1>1, <1>2, <1>3
  <2>2. g[k] = f[k - 1]
    BY <1>2, <2>1
  <2>3. f[k - 1] # i
    BY <1>1, <2>1
  <2>4. QED
    BY <2>1, <2>2, <2>3
<1> HIDE DEF g
<1>4. ASSUME NEW k \in 1 .. Len(g), NEW j \in 1 .. Len(g), g[k] = g[j] PROVE k = j
  <2>1. CASE k = 1 \/ j = 1
    BY <1>2, <1>3, <1>4, <2>1
  <2>2. CASE k # 1 /\ j # 1
    <3>1. k - 1 \in 1 .. Len(f) /\ j - 1 \in 1 .. Len(f) /\ f[k - 1] = f[j - 1]
      BY <1>3, <1>4, <2>2
    <3>2. k - 1 = j - 1
      BY <1>1, <3>1
    <3>3. QED
      BY <1>1, <1>2, <3>2
  <2>3. QED
    BY <2>1, <2>2
<1>5. ASSUME NEW j \in 1 .. n
      PROVE  j \in E \cup {i} <=> \E k \in 1 .. Len(g) : g[k] = j
  <2>1. ASSUME j \in E PROVE \E k \in 1 .. Len(g) : g[k] = j
    <3>1. PICK k \in 1 .. Len(f) : f[k] = j
      BY <1>1, <2>1
    <3>2. k + 1 \in 1 .. Len(g) /\ g[k + 1] = j
      BY <1>1, <1>2, <3>1
    <3>3. QED
      BY <3>2
  <2>2. ASSUME j = i PROVE \E k \in 1 .. Len(g) : g[k] = j
    <3>1. 1 \in 1 .. Len(g)
      BY <1>1, <1>2
    <3>2. QED
      BY <1>2, <2>2, <3>1
  <2>3. ASSUME NEW k \in 1 .. Len(g), g[k] = j PROVE j \in E \cup {i}
    <3>1. CASE k = 1
      BY <1>2, <2>3, <3>1
    <3>2. CASE k # 1
      BY <1>1, <1>3, <2>3, <3>2
    <3>3. QED
      BY <3>1, <3>2
  <2>4. QED
    BY <2>1, <2>2, <2>3
<1>6. QED
  BY <1>2, <1>4, <1>5 DEF FreeIs, g

\* All of m new slots behind n that are taken.
LEMMA FreeNew ==
  ASSUME NEW n \in Nat, NEW m \in Nat, NEW E, E \cap 1 .. n = {}, n + 1 .. n + m \subseteq E
  PROVE  FreeIs(n + m, E, [i \in 1 .. m |-> n + i])
<1> DEFINE g == [i \in 1 .. m |-> n + i]
<1>1. g \in Seq(1 .. n + m) /\ Len(g) = m /\ \A i \in 1 .. m : g[i] = n + i
  OBVIOUS
<1> HIDE DEF g
<1>2. \A i, j \in 1 .. Len(g) : g[i] = g[j] => i = j
  BY <1>1
<1>3. ASSUME NEW i \in 1 .. n + m
      PROVE  i \in E <=> \E k \in 1 .. Len(g) : g[k] = i
  <2>1. CASE i <= n
    <3>1. i \notin E
      BY <2>1
    <3>2. \A k \in 1 .. Len(g) : g[k] # i
      BY <1>1, <2>1
    <3>3. QED
      BY <3>1, <3>2
  <2>2. CASE i > n
    <3>1. i \in E
      BY <2>2
    <3>2. i - n \in 1 .. Len(g) /\ g[i - n] = i
      BY <1>1, <2>2
    <3>3. QED
      BY <3>1, <3>2
  <2>3. QED
    BY <2>1, <2>2
<1>4. QED
  BY <1>1, <1>2, <1>3 DEF FreeIs, g

-----------------------------------------------------------------------------
(* Sets of numbers.                                                        *)

\* The least element of a set of numbers.
LEMMA Least ==
  ASSUME NEW S \in SUBSET Nat, S # {}
  PROVE  Min(S) \in S /\ \A y \in S : Min(S) <= y
<1>1. PICK x \in S : \A y \in S : ~ (<<y, x>> \in OpToRel(<, Nat))
  BY NatLessThanWellFounded, WFMin
<1>2. \A y \in S : x <= y
  <2> SUFFICES ASSUME NEW y \in S PROVE x <= y
    OBVIOUS
  <2>1. ~ (<<y, x>> \in OpToRel(<, Nat))
    BY <1>1
  <2>2. ~(y < x)
    BY <2>1 DEF OpToRel
  <2>3. QED
    BY <2>2
<1>3. QED
  BY <1>2 DEF Min

-----------------------------------------------------------------------------
(* Lists of whatever they are of.                                          *)

IsList(s) == s \in Seq(ToSet(s))

\* t is s and one more that is e.
Longer(s, t, e) ==
    /\ IsList(t) /\ Len(t) = Len(s) + 1
    /\ \A i \in 1..Len(s) : t[i] = s[i]
    /\ t[Len(t)] = e

\* t is s without its first element.
Shorter(s, t) ==
    /\ IsList(t) /\ Len(t) = Len(s) - 1
    /\ \A i \in 1..Len(t) : t[i] = s[i + 1]

\* t is what s has behind its first k elements.
RestOf(s, t, k) ==
    /\ IsList(t) /\ Len(t) = Len(s) - k
    /\ \A i \in 1..Len(t) : t[i] = s[i + k]

\* What a list over any set is.
LEMMA IsListOf ==
    ASSUME NEW S, NEW s \in Seq(S) PROVE IsList(s)
<1>1. s \in Seq(Range(s))
    BY SeqOfRange
<1>2. Range(s) = ToSet(s)
    BY DEF Range, ToSet
<1>q. QED
    BY <1>1, <1>2 DEF IsList

\* Its length and its places.
LEMMA ListPlaces ==
    ASSUME NEW s, IsList(s)
    PROVE  /\ Len(s) \in Nat /\ DOMAIN s = 1..Len(s)
           /\ s = <<>> <=> Len(s) = 0
           /\ s # <<>> => Head(s) = s[1] /\ 1 \in DOMAIN s /\ Len(s) >= 1
<1>1. s \in Seq(ToSet(s))
    BY DEF IsList
<1>2. Len(s) \in Nat /\ DOMAIN s = 1..Len(s)
    BY <1>1, LenProperties
<1>3. s = <<>> <=> Len(s) = 0
    BY <1>1, EmptySeq
<1>4. s # <<>> => Head(s) = s[1]
    BY <1>1
<1>q. QED
    BY <1>2, <1>3, <1>4

LEMMA EmptyList == IsList(<<>>) /\ Len(<<>>) = 0 /\ DOMAIN <<>> = {}
<1>1. <<>> \in Seq({})
    OBVIOUS
<1>2. IsList(<<>>)
    BY <1>1, IsListOf
<1>q. QED
    BY <1>2, ListPlaces

\* One more element.
LEMMA AppendLonger ==
    ASSUME NEW s, IsList(s), NEW e PROVE Longer(s, Append(s, e), e)
<1> DEFINE S == ToSet(s) \union {e}
<1>1. s \in Seq(S)
    BY SeqMonotonic DEF IsList
<1>2. e \in S
    OBVIOUS
<1>3. /\ Append(s, e) \in Seq(S)
      /\ Len(Append(s, e)) = Len(s) + 1
      /\ \A i \in 1..Len(s) : Append(s, e)[i] = s[i]
      /\ Append(s, e)[Len(s) + 1] = e
    BY <1>1, <1>2, AppendProperties
<1>4. IsList(Append(s, e))
    BY <1>3, IsListOf
<1>q. QED
    BY <1>3, <1>4 DEF Longer

\* One less.
LEMMA TailShorter ==
    ASSUME NEW s, IsList(s), s # <<>> PROVE Shorter(s, Tail(s))
<1>1. s \in Seq(ToSet(s))
    BY DEF IsList
<1>2. /\ Tail(s) \in Seq(ToSet(s))
      /\ Len(Tail(s)) = Len(s) - 1
      /\ \A i \in 1..Len(Tail(s)) : Tail(s)[i] = s[i + 1]
    BY <1>1, HeadTailProperties
<1>3. IsList(Tail(s))
    BY <1>2, IsListOf
<1>q. QED
    BY <1>2, <1>3 DEF Shorter

\* Two lists, one behind the other.
LEMMA ConcatIsList ==
    ASSUME NEW s, IsList(s), NEW t, IsList(t)
    PROVE  /\ IsList(s \o t) /\ Len(s \o t) = Len(s) + Len(t)
           /\ \A i \in 1..Len(s) : (s \o t)[i] = s[i]
           /\ \A i \in 1..Len(t) : (s \o t)[Len(s) + i] = t[i]
<1> DEFINE S == ToSet(s) \union ToSet(t)
<1>1. s \in Seq(S) /\ t \in Seq(S)
    BY SeqMonotonic DEF IsList
<1>2. Len(s) \in Nat /\ Len(t) \in Nat
    BY ListPlaces
<1>3. /\ s \o t \in Seq(S)
      /\ Len(s \o t) = Len(s) + Len(t)
      /\ \A i \in 1..Len(s) + Len(t) :
            (s \o t)[i] = IF i <= Len(s) THEN s[i] ELSE t[i - Len(s)]
    BY <1>1, ConcatProperties
<1>4. IsList(s \o t)
    BY <1>3, IsListOf
<1>5. \A i \in 1..Len(s) : (s \o t)[i] = s[i]
    BY <1>2, <1>3
<1>6. ASSUME NEW i \in 1..Len(t) PROVE (s \o t)[Len(s) + i] = t[i]
    <2>1. Len(s) + i \in 1..Len(s) + Len(t) /\ ~(Len(s) + i <= Len(s)) /\ Len(s) + i - Len(s) = i
        BY <1>2
    <2>2. (s \o t)[Len(s) + i] = t[Len(s) + i - Len(s)]
        BY <1>3, <2>1
    <2>q. QED
        BY <2>1, <2>2
<1>q. QED
    BY <1>3, <1>4, <1>5, <1>6

\* The rest of a list.
LEMMA RestIsRest ==
    ASSUME NEW s, IsList(s), NEW k \in 0..Len(s) PROVE RestOf(s, SubSeq(s, k + 1, Len(s)), k)
<1> DEFINE t == SubSeq(s, k + 1, Len(s))
<1>1. Len(s) \in Nat /\ DOMAIN s = 1..Len(s)
    BY ListPlaces
<1>2. \A i \in (k + 1)..Len(s) : s[i] \in ToSet(s)
    BY <1>1 DEF ToSet
<1>3. k + 1 \in Int /\ Len(s) \in Int
    BY <1>1
<1>4. /\ t \in Seq(ToSet(s))
      /\ Len(t) = IF k + 1 <= Len(s) THEN Len(s) - (k + 1) + 1 ELSE 0
      /\ \A i \in 1..Len(s) - (k + 1) + 1 : t[i] = s[k + 1 + i - 1]
    BY <1>2, <1>3, SubSeqProperties
<1> HIDE DEF t
<1>5. Len(t) = Len(s) - k
    <2>1. Len(s) \in Nat /\ k \in Nat /\ k <= Len(s)
        BY <1>1
    <2>2. CASE k + 1 <= Len(s)
        <3>1. Len(t) = Len(s) - (k + 1) + 1
            BY <1>4, <2>2
        <3>q. QED
            BY <2>1, <3>1
    <2>3. CASE ~(k + 1 <= Len(s))
        <3>1. Len(t) = 0
            BY <1>4, <2>3
        <3>2. Len(s) = k
            BY <2>1, <2>3
        <3>q. QED
            BY <2>1, <3>1, <3>2
    <2>q. QED
        BY <2>2, <2>3
<1>6. IsList(t)
    BY <1>4, IsListOf
<1>7. ASSUME NEW i \in 1..Len(t) PROVE t[i] = s[i + k]
    <2>1. i \in 1..Len(s) - (k + 1) + 1 /\ k + 1 + i - 1 = i + k
        BY <1>1, <1>5
    <2>q. QED
        BY <1>4, <2>1
<1>8. RestOf(s, t, k)
    BY <1>5, <1>6, <1>7 DEF RestOf
<1>q. QED
    BY <1>8 DEF t

LEMMA LongerPlaces ==
    ASSUME NEW s, IsList(s), NEW t, NEW e, Longer(s, t, e)
    PROVE  /\ Len(s) \in Nat /\ Len(t) = Len(s) + 1 /\ IsList(t)
           /\ DOMAIN s = 1..Len(s) /\ DOMAIN t = 1..(Len(s) + 1)
           /\ \A i \in DOMAIN s : i \in DOMAIN t /\ t[i] = s[i]
           /\ \A i \in DOMAIN t : i \in DOMAIN s \/ i = Len(s) + 1
           /\ Len(s) + 1 \in DOMAIN t /\ t[Len(s) + 1] = e /\ t # <<>>
<1>1. Len(s) \in Nat /\ DOMAIN s = 1..Len(s)
    BY ListPlaces
<1>2. IsList(t) /\ Len(t) = Len(s) + 1 /\ (\A i \in 1..Len(s) : t[i] = s[i]) /\ t[Len(t)] = e
    BY DEF Longer
<1>3. DOMAIN t = 1..Len(t) /\ (t = <<>> <=> Len(t) = 0)
    BY <1>2, ListPlaces
<1>q. QED
    BY <1>1, <1>2, <1>3

LEMMA ShorterPlaces ==
    ASSUME NEW s, IsList(s), s # <<>>, NEW t, Shorter(s, t)
    PROVE  /\ Len(s) \in Nat /\ Len(s) >= 1 /\ Len(t) = Len(s) - 1 /\ IsList(t)
           /\ DOMAIN s = 1..Len(s) /\ DOMAIN t = 1..Len(t) /\ Len(t) \in Nat
           /\ \A i \in DOMAIN t : i \in Nat /\ i >= 1 /\ i + 1 \in DOMAIN s /\ t[i] = s[i + 1]
           /\ \A i \in DOMAIN s : i = 1 \/ (i - 1 \in DOMAIN t /\ t[i - 1] = s[i])
<1>1. Len(s) \in Nat /\ DOMAIN s = 1..Len(s) /\ Len(s) >= 1
    BY ListPlaces
<1>2. IsList(t) /\ Len(t) = Len(s) - 1 /\ \A i \in 1..Len(t) : t[i] = s[i + 1]
    BY DEF Shorter
<1>3. DOMAIN t = 1..Len(t) /\ Len(t) \in Nat
    BY <1>2, ListPlaces
<1>4. ASSUME NEW i \in DOMAIN t
      PROVE  i \in Nat /\ i >= 1 /\ i + 1 \in DOMAIN s /\ t[i] = s[i + 1]
    BY <1>1, <1>2, <1>3
<1>5. ASSUME NEW i \in DOMAIN s, i # 1 PROVE i - 1 \in DOMAIN t /\ t[i - 1] = s[i]
    <2>1. i - 1 \in 1..Len(t) /\ (i - 1) + 1 = i
        BY <1>1, <1>2, <1>5
    <2>q. QED
        BY <1>2, <1>3, <2>1
<1>q. QED
    BY <1>1, <1>2, <1>3, <1>4, <1>5

LEMMA OneIsList ==
    ASSUME NEW e PROVE IsList(<<e>>) /\ DOMAIN <<e>> = {1} /\ <<e>>[1] = e /\ Len(<<e>>) = 1
<1>1. <<e>> \in Seq({e})
    OBVIOUS
<1>2. IsList(<<e>>)
    BY <1>1, IsListOf
<1>3. DOMAIN <<e>> = {1} /\ <<e>>[1] = e /\ Len(<<e>>) = 1
    OBVIOUS
<1>q. QED
    BY <1>2, <1>3

Cat(s, t) == s \o t

\* Two lists in a row, place by place.
LEMMA ConcatPlaces ==
    ASSUME NEW s, IsList(s), NEW t, IsList(t), NEW r, r = Cat(s, t)
    PROVE  /\ IsList(r) /\ Len(s) \in Nat
           /\ \A i \in DOMAIN s : i \in DOMAIN r /\ r[i] = s[i]
           /\ \A j \in DOMAIN t : Len(s) + j \in DOMAIN r /\ r[Len(s) + j] = t[j]
           /\ \A i \in DOMAIN r :
                \/ i \in DOMAIN s
                \/ i \in Nat /\ i > Len(s) /\ i - Len(s) \in DOMAIN t /\ r[i] = t[i - Len(s)]
<1>1. /\ IsList(r) /\ Len(r) = Len(s) + Len(t)
      /\ \A i \in 1..Len(s) : r[i] = s[i]
      /\ \A i \in 1..Len(t) : r[Len(s) + i] = t[i]
    BY ConcatIsList DEF Cat
<1>2. /\ Len(s) \in Nat /\ DOMAIN s = 1..Len(s) /\ Len(t) \in Nat /\ DOMAIN t = 1..Len(t)
      /\ DOMAIN r = 1..Len(r)
    BY <1>1, ListPlaces
<1>3. PICK k \in Nat : k = Len(s)
    BY <1>2
<1>4. PICK l \in Nat : l = Len(t)
    BY <1>2
<1>5. /\ DOMAIN s = 1..k /\ DOMAIN t = 1..l /\ DOMAIN r = 1..(k + l)
      /\ (\A i \in 1..k : r[i] = s[i]) /\ \A i \in 1..l : r[k + i] = t[i]
    BY <1>1, <1>2, <1>3, <1>4
<1>6. ASSUME NEW i \in DOMAIN r, i \notin DOMAIN s
      PROVE  i \in Nat /\ i > k /\ i - k \in DOMAIN t /\ r[i] = t[i - k]
    <2>1. i \in Nat /\ i > k /\ i - k \in 1..l /\ k + (i - k) = i
        BY <1>5, <1>6
    <2>q. QED
        BY <1>5, <2>1
<1>7. \A i \in DOMAIN s : i \in DOMAIN r /\ r[i] = s[i]
    BY <1>5
<1>8. \A j \in DOMAIN t : k + j \in DOMAIN r /\ r[k + j] = t[j]
    BY <1>5
<1>q. QED
    BY <1>1, <1>3, <1>6, <1>7, <1>8
=============================================================================
