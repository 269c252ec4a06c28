-------------------------- MODULE IrcBouncerProofs --------------------------
(***************************************************************************)
(* Proofs about the IRC bouncer, for any interfaces, channels and nicks,    *)
(* whatever breaks and whenever interfaces come and go: no line is lost,    *)
(* and none is shown twice.                                                 *)
(***************************************************************************)
EXTENDS IrcBouncer, ListLemmas

(***************************************************************************)
(* The history: its stamps grow, and what is trimmed or sent is a part.     *)
(***************************************************************************)
\* The loop over a history ends at the first line that is later.
LEMMA PassedIs ==
    ASSUME NEW s, IsList(s), \A i \in DOMAIN s : s[i].at \in Nat, NEW at \in Nat
    PROVE  /\ Passed(s, at) \in 0..Len(s)
           /\ \A i \in 1..Passed(s, at) : s[i].at <= at
           /\ Passed(s, at) < Len(s) => at < s[Passed(s, at) + 1].at
<1>1. Len(s) \in Nat /\ DOMAIN s = 1..Len(s)
    BY ListPlaces
<1>2. \E k \in 0..Len(s) :
        (\A i \in 1..k : s[i].at <= at) /\ (k < Len(s) => at < s[k + 1].at)
    <2>1. CASE \A i \in 1..Len(s) : s[i].at <= at
        BY <1>1, <2>1
    <2>2. CASE ~ \A i \in 1..Len(s) : s[i].at <= at
        <3> DEFINE L == {i \in 1..Len(s) : ~(s[i].at <= at)}
        <3>1. L \in SUBSET Nat /\ L # {}
            BY <1>1, <2>2
        <3>2. PICK l \in L : \A i \in L : l <= i
            BY <3>1, Least
        <3>3. l \in 1..Len(s) /\ at < s[l].at
            BY <1>1, <3>2
        <3>4. \A i \in 1..(l - 1) : s[i].at <= at
            BY <1>1, <3>2, <3>3
        <3>5. l - 1 \in 0..Len(s) /\ (l - 1) + 1 = l
            BY <1>1, <3>3
        <3>q. QED
            BY <3>3, <3>4, <3>5
    <2>q. QED
        BY <2>1, <2>2
<1>q. QED
    BY <1>2 DEF Passed

\* The stamps of a history grow.
Increasing(s) == \A i, j \in DOMAIN s : i < j => s[i].at < s[j].at
Stamped(s) == IsList(s) /\ Increasing(s) /\ \A i \in DOMAIN s : s[i].at \in Nat

\* t has nothing that s has not, in order.
Part(s, t) == Stamped(t) /\ \A i \in DOMAIN t : \E j \in DOMAIN s : t[i] = s[j]

\* The lines behind some place are such a part.
LEMMA RestOfIsPart ==
    ASSUME NEW s, Stamped(s), NEW k \in Nat, k <= Len(s), NEW t, RestOf(s, t, k)
    PROVE  Part(s, t)
<1>1. IsList(s) /\ Increasing(s) /\ \A i \in DOMAIN s : s[i].at \in Nat
    BY DEF Stamped
<1>2. Len(s) \in Nat /\ DOMAIN s = 1..Len(s)
    BY <1>1, ListPlaces
<1>3. IsList(t) /\ Len(t) = Len(s) - k /\ \A i \in 1..Len(t) : t[i] = s[i + k]
    BY DEF RestOf
<1>4. DOMAIN t = 1..Len(t) /\ Len(t) \in Nat
    BY <1>3, ListPlaces
<1>5. \A i \in DOMAIN t : i + k \in DOMAIN s /\ t[i] = s[i + k]
    BY <1>2, <1>3, <1>4
<1>6. \A i, j \in DOMAIN t : i < j => i + k < j + k
    BY <1>4
<1>7. Increasing(t)
    BY <1>1, <1>5, <1>6 DEF Increasing
<1>q. QED
    BY <1>1, <1>3, <1>5, <1>7 DEF Part, Stamped

\* The lines behind any place.
LEMMA RestIsPart ==
    ASSUME NEW s, Stamped(s), NEW k \in Nat, NEW t, t = SubSeq(s, k + 1, Len(s))
    PROVE  /\ Part(s, t)
           /\ k <= Len(s) => RestOf(s, t, k)
           /\ k > Len(s) => t = <<>>
<1>1. IsList(s)
    BY DEF Stamped
<1>2. Len(s) \in Nat
    BY <1>1, ListPlaces
<1>3. CASE k <= Len(s)
    <2>1. k \in 0..Len(s)
        BY <1>2, <1>3
    <2>2. RestOf(s, t, k)
        BY <1>1, <2>1, RestIsRest
    <2>3. Part(s, t)
        BY <1>3, <2>2, RestOfIsPart
    <2>q. QED
        BY <1>2, <1>3, <2>2, <2>3
<1>4. CASE ~(k <= Len(s))
    <2>1. t = <<>>
        BY <1>2, <1>4, SubSeqEmpty
    <2>2. IsList(t) /\ DOMAIN t = {}
        BY <2>1, EmptyList
    <2>q. QED
        BY <1>4, <2>1, <2>2 DEF Part, Stamped, Increasing
<1>q. QED
    BY <1>3, <1>4

\* What After and UpTo take of a history.
LEMMA AfterIs ==
    ASSUME NEW s, Stamped(s), NEW at \in Nat, NEW t, t = After(s, at)
    PROVE  /\ Part(s, t)
           /\ \A i \in DOMAIN t : at < t[i].at
           /\ \A i \in DOMAIN s : at < s[i].at => \E j \in DOMAIN t : t[j] = s[i]
<1> DEFINE k == Passed(s, at)
<1>1. IsList(s) /\ Increasing(s) /\ \A i \in DOMAIN s : s[i].at \in Nat
    BY DEF Stamped
<1>2. Len(s) \in Nat /\ DOMAIN s = 1..Len(s)
    BY <1>1, ListPlaces
<1>3. /\ k \in 0..Len(s)
      /\ \A i \in 1..k : s[i].at <= at
      /\ k < Len(s) => at < s[k + 1].at
    BY <1>1, PassedIs
<1>4. t = SubSeq(s, k + 1, Len(s))
    BY DEF After
<1> HIDE DEF k
<1>5. k \in Nat /\ k <= Len(s)
    BY <1>2, <1>3
<1>6. Part(s, t) /\ RestOf(s, t, k)
    BY <1>4, <1>5, RestIsPart
<1>7. IsList(t) /\ Len(t) = Len(s) - k /\ \A i \in 1..Len(t) : t[i] = s[i + k]
    BY <1>6 DEF RestOf
<1>8. DOMAIN t = 1..Len(t) /\ Len(t) \in Nat
    BY <1>7, ListPlaces
<1>9. ASSUME NEW i \in DOMAIN t PROVE at < t[i].at
    <2>1. i \in Nat /\ i + k \in DOMAIN s /\ k + 1 \in DOMAIN s /\ k < Len(s) /\ k + 1 <= i + k
        BY <1>2, <1>5, <1>7, <1>8
    <2>2. t[i] = s[i + k]
        BY <1>7, <1>8
    <2>3. s[k + 1].at <= s[i + k].at
        <3>1. CASE k + 1 = i + k
            BY <1>1, <2>1, <3>1
        <3>2. CASE k + 1 # i + k
            <4>1. k + 1 < i + k
                BY <1>5, <2>1, <3>2
            <4>2. s[k + 1].at < s[i + k].at
                BY <1>1, <2>1, <4>1 DEF Increasing
            <4>q. QED
                BY <1>1, <2>1, <4>2
        <3>q. QED
            BY <3>1, <3>2
    <2>4. at < s[k + 1].at /\ s[k + 1].at \in Nat /\ s[i + k].at \in Nat
        BY <1>1, <1>3, <2>1
    <2>q. QED
        BY <2>2, <2>3, <2>4
<1>10. ASSUME NEW i \in DOMAIN s, at < s[i].at PROVE \E j \in DOMAIN t : t[j] = s[i]
    <2>1. i \in 1..Len(s) /\ s[i].at \in Nat
        BY <1>1, <1>2
    <2>2. ~(i <= k)
        BY <1>3, <1>10, <1>5, <2>1
    <2>3. i - k \in DOMAIN t /\ (i - k) + k = i
        BY <1>2, <1>5, <1>7, <1>8, <2>1, <2>2
    <2>q. QED
        BY <1>7, <1>8, <2>3
<1>q. QED
    BY <1>6, <1>9, <1>10

\* What is not older than a week is sent, unless only a part of the history is older.
LEMMA NothingPassedOver ==
    ASSUME NEW s, IsList(s), NEW old, IsList(old), old = <<>> \/ s = <<>>,
           NEW t, Len(old) <= Len(s) => RestOf(s, t, Len(old))
    PROVE  \A i \in DOMAIN s : \E j \in DOMAIN t : t[j] = s[i]
<1>1. CASE s = <<>>
    BY <1>1, EmptyList
<1>2. CASE old = <<>>
    <2>1. Len(old) = 0 /\ Len(s) \in Nat /\ DOMAIN s = 1..Len(s)
        BY <1>2, ListPlaces
    <2>2. RestOf(s, t, 0)
        BY <2>1
    <2>3. IsList(t) /\ Len(t) = Len(s) - 0 /\ \A i \in 1..Len(t) : t[i] = s[i + 0]
        BY <2>2 DEF RestOf
    <2>4. DOMAIN t = 1..Len(t)
        BY <2>3, ListPlaces
    <2>5. Len(t) = Len(s)
        BY <2>1, <2>3
    <2>6. ASSUME NEW i \in DOMAIN s PROVE i \in DOMAIN t /\ t[i] = s[i]
        <3>1. i \in 1..Len(t) /\ i + 0 = i
            BY <2>1, <2>5
        <3>q. QED
            BY <2>3, <2>4, <3>1
    <2>q. QED
        BY <2>6
<1>q. QED
    BY <1>1, <1>2

LEMMA UpToIsList ==
    ASSUME NEW s, Stamped(s), NEW at \in Nat, NEW t, t = UpTo(s, at)
    PROVE  IsList(t) /\ Len(t) \in Nat
<1>1. IsList(s) /\ \A i \in DOMAIN s : s[i].at \in Nat
    BY DEF Stamped
<1>2. Len(s) \in Nat /\ DOMAIN s = 1..Len(s)
    BY <1>1, ListPlaces
<1>3. PICK k \in 0..Len(s) : t = SubSeq(s, 1, k)
    BY <1>1, PassedIs DEF UpTo
<1>4. \A i \in 1..k : s[i] \in ToSet(s)
    BY <1>2 DEF ToSet
<1>5. k \in Int
    BY <1>2
<1>6. t \in Seq(ToSet(s))
    BY <1>3, <1>4, <1>5, SubSeqProperties
<1>q. QED
    BY <1>6, IsListOf, ListPlaces

(***************************************************************************)
(* The inductive invariant, part by part.  What a part says of an interface *)
(* is said of its record v, the sockets q and p from and to the server, the *)
(* state c of its connection and the place m in time.                       *)
(***************************************************************************)
HistoryFine(h, m) ==
    Stamped(h) /\ \A i \in DOMAIN h : h[i].at \in 0..m /\ h[i].type \in {">", "<", "c"}

UiFine(v, m) ==
    /\ DOMAIN v = {"up", "sock", "track", "last"}
    /\ v.up \in BOOLEAN /\ v.sock \in BOOLEAN /\ v.last \in 0..m

OutFine(q, m) ==
    IsList(q) /\ \A i \in DOMAIN q : q[i].at \in 0..m /\ q[i].type \in {">", "<", "c", "S", "end"}

\* An interface asks for the state first and once.
InFine(p, c) ==
    /\ IsList(p)
    /\ c = "none" => p = <<>>
    /\ c \in {"backlog", "accepted"} => p # <<>> /\ p[1].type = "C"
    /\ \A i \in DOMAIN p :
        /\ p[i].type \in {"C", "<", "X"}
        /\ p[i].type = "C" => i = 1 /\ c \in {"backlog", "accepted"}
        /\ p[i].type = "<" => p[i].line.chan \in Chans

\* A socket is open at the interface unless it is gone; what says that the server has
\* ended comes last.
SockFine(u, v, q, c, g) ==
    /\ ~v.up => ~v.sock
    /\ ~v.sock => q = <<>>
    /\ c # "none" /\ ~v.sock => u \in g
    /\ u \in g => c # "none" /\ ~v.sock
    /\ \A i \in DOMAIN q : q[i].type = "end" => i = Len(q) /\ c = "none"

NetOK ==
    /\ n \in Nat /\ room \in [Chans -> SUBSET (Others \union {Me})]
    /\ asked \subseteq Chans /\ link \in {"off", "down", "open", "in"}
SrvOK ==
    /\ DOMAIN srv = {"up", "track", "history", "last_disconnect"}
    /\ srv.up \in BOOLEAN /\ srv.last_disconnect \in 0..n
    /\ HistoryFine(srv.history, n) /\ owed \subseteq 1..n
EndsOK ==
    /\ conn \in [Uis -> {"none", "backlog", "accepted", "ready"}] /\ gone \subseteq Uis
    /\ DOMAIN ui = Uis /\ DOMAIN toUi = Uis /\ DOMAIN toSrv = Uis
DownOK ==
    ~srv.up => /\ srv.history = <<>> /\ \A u \in Uis : conn[u] = "none"
               /\ link = "off" /\ inbox = <<>> /\ asked = {}
UisOK == \A u \in Uis : UiFine(ui[u], n)
OutOK == \A u \in Uis : OutFine(toUi[u], n)
InOK == \A u \in Uis : InFine(toSrv[u], conn[u])
SockOK == \A u \in Uis : SockFine(u, ui[u], toUi[u], conn[u], gone)

IInv == NetOK /\ SrvOK /\ EndsOK /\ DownOK /\ UisOK /\ OutOK /\ InOK /\ SockOK

(***************************************************************************)
(* What becomes of the parts when a line is added or read.                  *)
(***************************************************************************)
LEMMA HistoryGrows ==
    ASSUME NEW m \in Nat, NEW s, HistoryFine(s, m), NEW e, NEW t, Longer(s, t, e),
           e.at = m + 1 \/ (e.at = 0 /\ s = <<>>), e.type \in {">", "<", "c"}
    PROVE  HistoryFine(t, m + 1)
<1>1. IsList(s) /\ Increasing(s)
    BY DEF HistoryFine, Stamped
<1>2. \A i \in DOMAIN s : s[i].at \in 0..m /\ s[i].type \in {">", "<", "c"}
    BY DEF HistoryFine
<1>3. /\ Len(s) \in Nat /\ IsList(t) /\ DOMAIN s = 1..Len(s) /\ DOMAIN t = 1..(Len(s) + 1)
      /\ \A i \in DOMAIN s : t[i] = s[i]
      /\ \A i \in DOMAIN t : i \in DOMAIN s \/ i = Len(s) + 1
      /\ t[Len(s) + 1] = e
    BY <1>1, LongerPlaces
<1>4. \A i \in DOMAIN t : t[i].at \in 0..(m + 1) /\ t[i].type \in {">", "<", "c"}
    BY <1>2, <1>3
<1>5. ASSUME NEW i \in DOMAIN t, NEW j \in DOMAIN t, i < j PROVE t[i].at < t[j].at
    <2>1. i \in DOMAIN s
        BY <1>3, <1>5
    <2>2. CASE j \in DOMAIN s
        BY <1>1, <1>3, <1>5, <2>1, <2>2 DEF Increasing
    <2>3. CASE j = Len(s) + 1
        <3>1. e.at = m + 1
            BY <2>1, EmptyList
        <3>q. QED
            BY <1>2, <1>3, <2>1, <2>3, <3>1
    <2>q. QED
        BY <1>3, <2>2, <2>3
<1>q. QED
    BY <1>3, <1>4, <1>5 DEF HistoryFine, Stamped, Increasing

\* A part of a history is one.
LEMMA HistoryPart ==
    ASSUME NEW m \in Nat, NEW s, HistoryFine(s, m), NEW t, Part(s, t)
    PROVE  HistoryFine(t, m)
BY DEF HistoryFine, Part

LEMMA OutLater ==
    ASSUME NEW m \in Nat, NEW k \in Nat, m <= k, NEW q, OutFine(q, m)
    PROVE  OutFine(q, k)
BY DEF OutFine

LEMMA OutGrows ==
    ASSUME NEW m \in Nat, NEW s, OutFine(s, m), NEW e, NEW t, Longer(s, t, e),
           e.at \in 0..m, e.type \in {">", "<", "c", "S", "end"}
    PROVE  OutFine(t, m)
<1>1. IsList(s)
    BY DEF OutFine
<1>2. /\ IsList(t)
      /\ \A i \in DOMAIN s : t[i] = s[i]
      /\ \A i \in DOMAIN t : i \in DOMAIN s \/ i = Len(s) + 1
      /\ t[Len(s) + 1] = e
    BY <1>1, LongerPlaces
<1>q. QED
    BY <1>2 DEF OutFine

LEMMA OutReads ==
    ASSUME NEW m \in Nat, NEW s, OutFine(s, m), s # <<>>, NEW t, Shorter(s, t)
    PROVE  OutFine(t, m)
<1>1. IsList(s)
    BY DEF OutFine
<1>2. IsList(t) /\ \A i \in DOMAIN t : i + 1 \in DOMAIN s /\ t[i] = s[i + 1]
    BY <1>1, ShorterPlaces
<1>q. QED
    BY <1>2 DEF OutFine

LEMMA InGrows ==
    ASSUME NEW c, c # "none", NEW s, InFine(s, c), NEW e, NEW t, Longer(s, t, e),
           e.type \in {"<", "X"}, e.type = "<" => e.line.chan \in Chans
    PROVE  InFine(t, c)
<1>1. IsList(s)
    BY DEF InFine
<1>2. /\ IsList(t) /\ t # <<>> /\ Len(s) \in Nat
      /\ \A i \in DOMAIN s : t[i] = s[i]
      /\ \A i \in DOMAIN t : i \in DOMAIN s \/ i = Len(s) + 1
      /\ t[Len(s) + 1] = e
    BY <1>1, LongerPlaces
<1>3. s # <<>> => 1 \in DOMAIN s
    BY <1>1, ListPlaces
<1>q. QED
    BY <1>2, <1>3 DEF InFine

\* What is left in a socket when the server has read from it.
LEMMA InReads ==
    ASSUME NEW c, NEW s, InFine(s, c), s # <<>>, NEW t, Shorter(s, t)
    PROVE  InFine(t, "ready")
<1>1. IsList(s)
    BY DEF InFine
<1>2. /\ IsList(t)
      /\ \A i \in DOMAIN t : i \in Nat /\ i >= 1 /\ i + 1 \in DOMAIN s /\ t[i] = s[i + 1]
    BY <1>1, ShorterPlaces
<1>3. \A i \in DOMAIN t : i + 1 # 1
    BY <1>2
<1>q. QED
    BY <1>2, <1>3 DEF InFine

LEMMA SockGrows ==
    ASSUME NEW u, NEW v, NEW c, c # "none", NEW g, v.sock,
           NEW s, IsList(s), SockFine(u, v, s, c, g),
           NEW e, e.type # "end", NEW t, Longer(s, t, e)
    PROVE  SockFine(u, v, t, c, g)
<1>1. /\ \A i \in DOMAIN s : t[i] = s[i]
      /\ \A i \in DOMAIN t : i \in DOMAIN s \/ i = Len(s) + 1
      /\ t[Len(s) + 1] = e
    BY LongerPlaces
<1>2. \A i \in DOMAIN t : t[i].type # "end"
    BY <1>1 DEF SockFine
<1>q. QED
    BY <1>2 DEF SockFine

\* The server ends: what it says last, or nothing to an interface that is not attached.
LEMMA SockEnds ==
    ASSUME NEW u, NEW v, NEW c, NEW g, NEW s, IsList(s), SockFine(u, v, s, c, g)
    PROVE  /\ ~(c # "none" /\ u \notin g) => SockFine(u, v, s, "none", {})
           /\ c # "none" /\ u \notin g =>
                \A e, t : Longer(s, t, e) => SockFine(u, v, t, "none", {})
<1>1. CASE ~(c # "none" /\ u \notin g)
    BY <1>1 DEF SockFine
<1>2. CASE c # "none" /\ u \notin g
    <2>1. ASSUME NEW e, NEW t, Longer(s, t, e) PROVE SockFine(u, v, t, "none", {})
        <3>1. /\ Len(t) = Len(s) + 1
              /\ \A i \in DOMAIN s : t[i] = s[i]
              /\ \A i \in DOMAIN t : i \in DOMAIN s \/ i = Len(s) + 1
            BY <2>1, LongerPlaces
        <3>2. v.sock /\ v.up
            BY <1>2 DEF SockFine
        <3>3. \A i \in DOMAIN t : t[i].type = "end" => i = Len(t)
            BY <1>2, <3>1 DEF SockFine
        <3>q. QED
            BY <3>2, <3>3 DEF SockFine
    <2>q. QED
        BY <1>2, <2>1
<1>q. QED
    BY <1>1, <1>2

\* What a line from the server makes of an interface.
LEMMA UiLineIs ==
    ASSUME NEW m \in Nat, NEW v, UiFine(v, m), NEW e,
           e.at \in 0..m, e.type \in {">", "<", "c", "S", "end"}, NEW w, w = UiLine(v, e)
    PROVE  /\ UiFine(w, m) /\ w.up = v.up
           /\ (e.type = "end" => ~w.sock) /\ (e.type # "end" => w.sock = v.sock)
           /\ (ToShow(e) => w.last = e.at) /\ (~ToShow(e) => w.last = v.last)
<1>1. DOMAIN v = {"up", "sock", "track", "last"} /\ v.up \in BOOLEAN /\ v.sock \in BOOLEAN
      /\ v.last \in 0..m
    BY DEF UiFine
<1>2. CASE e.type = ">"
    <2>1. w = Shows([v EXCEPT !.track = Track(@, e.line)], e)
        BY <1>2 DEF UiLine
    <2>2. DOMAIN w = DOMAIN v /\ w.up = v.up /\ w.sock = v.sock /\ w.last = e.at
        BY <1>1, <2>1 DEF Shows
    <2>q. QED
        BY <1>1, <1>2, <2>2 DEF UiFine, ToShow
<1>3. CASE e.type = "<"
    <2>1. w = Shows(v, e)
        BY <1>3 DEF UiLine
    <2>2. DOMAIN w = DOMAIN v /\ w.up = v.up /\ w.sock = v.sock /\ w.last = e.at
        BY <1>1, <2>1 DEF Shows
    <2>q. QED
        BY <1>1, <1>3, <2>2 DEF UiFine, ToShow
<1>4. CASE e.type = "c"
    <2>1. w = [v EXCEPT !.track = Disconnected(@)]
        BY <1>4 DEF UiLine
    <2>2. DOMAIN w = DOMAIN v /\ w.up = v.up /\ w.sock = v.sock /\ w.last = v.last
        BY <1>1, <2>1
    <2>q. QED
        BY <1>1, <1>4, <2>2 DEF UiFine, ToShow
<1>5. CASE e.type = "S"
    <2>1. w = [v EXCEPT !.track = LoadState(@, e.line)]
        BY <1>5 DEF UiLine
    <2>2. DOMAIN w = DOMAIN v /\ w.up = v.up /\ w.sock = v.sock /\ w.last = v.last
        BY <1>1, <2>1
    <2>q. QED
        BY <1>1, <1>5, <2>2 DEF UiFine, ToShow
<1>6. CASE e.type = "end"
    <2>1. w = [v EXCEPT !.track = Disconnected(@), !.sock = FALSE]
        BY <1>6 DEF UiLine
    <2>2. DOMAIN w = DOMAIN v /\ w.up = v.up /\ w.sock = FALSE /\ w.last = v.last
        BY <1>1, <2>1
    <2>q. QED
        BY <1>1, <1>6, <2>2 DEF UiFine, ToShow
<1>q. QED
    BY <1>2, <1>3, <1>4, <1>5, <1>6

LEMMA StampIs ==
    ASSUME NEW type, NEW l, NEW e, e = Stamp(type, l)
    PROVE  e.at = n + 1 /\ e.type = type
BY DEF Stamp

LEMMA RecordedIs ==
    ASSUME NEW type, NEW l, NEW e, e = Stamp(type, l), NEW h, h = Recorded(e)
    PROVE  /\ h.type = type
           /\ h.at = n + 1 \/ (h.at = 0 /\ srv.history = <<>>)
           /\ type = ">" => h = e
BY DEF Stamp, Recorded

\* A server that runs is what an interface is attached to.
LEMMA AttachedToServer ==
    ASSUME IInv, NEW u \in Uis, conn[u] # "none" PROVE srv.up
BY DEF IInv, DownOK

LEMMA InitInv == Init => IInv
<1> SUFFICES ASSUME Init PROVE IInv
    OBVIOUS
<1>1. IsList(<<>>) /\ DOMAIN <<>> = {}
    BY EmptyList
<1>2. NetOK
    BY NicksAssumption DEF Init, NetOK
<1>3. Stamped(<<>>) /\ HistoryFine(<<>>, 0)
    BY <1>1 DEF HistoryFine, Stamped, Increasing
<1>4. SrvOK
    BY <1>3 DEF Init, SrvOK, NoServer
<1>5. EndsOK
    BY DEF Init, EndsOK
<1>6. DownOK
    BY DEF Init, DownOK, NoServer
<1>7. ASSUME NEW u \in Uis PROVE UiFine(ui[u], n)
    <2>1. ui[u] = [up |-> FALSE, sock |-> FALSE, track |-> FreshTracker, last |-> 0] /\ n = 0
        BY DEF Init
    <2>q. QED
        BY <2>1 DEF UiFine
<1>8. OutOK
    BY <1>1 DEF Init, OutOK, OutFine
<1>9. InOK
    BY <1>1 DEF Init, InOK, InFine
<1>10. SockOK
    BY <1>1 DEF Init, SockOK, SockFine
<1>q. QED
    BY <1>2, <1>4, <1>5, <1>6, <1>7, <1>8, <1>9, <1>10 DEF IInv, UisOK

(***************************************************************************)
(* send_line.                                                              *)
(***************************************************************************)
\* What it does, line by line.
LEMMA SendLineIs ==
    ASSUME IInv, NEW type \in {">", "<", "c"}, NEW l, NEW except, SendLine(type, l, except),
           NEW e, e = Stamp(type, l), NEW h, h = Recorded(e)
    PROVE  /\ n' = n + 1 /\ n \in Nat /\ conn' = conn /\ gone' = gone /\ gone \subseteq {except}
           /\ DOMAIN toUi' = Uis /\ DOMAIN srv' = DOMAIN srv
           /\ srv'.up = srv.up /\ srv'.last_disconnect = srv.last_disconnect
           /\ Longer(srv.history, srv'.history, h)
           /\ \A u \in Clients \ {except} : Longer(toUi[u], toUi'[u], e)
           /\ \A u \in Uis : u \notin Clients \ {except} => toUi'[u] = toUi[u]
           /\ owed' = IF type = ">" THEN owed \union {n'} ELSE owed
           /\ "early" \notin Races => \A u \in Uis : conn[u] # "accepted"
<1>1. n \in Nat /\ IsList(srv.history) /\ \A u \in Uis : IsList(toUi[u])
    BY DEF IInv, NetOK, SrvOK, HistoryFine, Stamped, OutOK, OutFine
<1>2. DOMAIN srv = {"up", "track", "history", "last_disconnect"}
    BY DEF IInv, SrvOK
<1>3. /\ n' = n + 1 /\ conn' = conn /\ gone' = gone /\ gone \subseteq {except}
      /\ toUi' = [u \in Uis |->
           IF u \in Clients \ {except} THEN Append(toUi[u], e) ELSE toUi[u]]
      /\ srv' = [srv EXCEPT !.history = Append(@, h)]
      /\ owed' = IF type = ">" THEN owed \union {n'} ELSE owed
      /\ "early" \notin Races => \A u \in Uis : conn[u] # "accepted"
    BY DEF SendLine, MayBroadcast
<1>4. Longer(srv.history, Append(srv.history, h), h)
    BY <1>1, AppendLonger
<1>5. ASSUME NEW u \in Uis PROVE Longer(toUi[u], Append(toUi[u], e), e)
    BY <1>1, AppendLonger
<1>6. /\ DOMAIN srv' = DOMAIN srv /\ srv'.up = srv.up
      /\ srv'.last_disconnect = srv.last_disconnect
      /\ srv'.history = Append(srv.history, h)
    BY <1>2, <1>3
<1>7. /\ \A u \in Clients \ {except} : Longer(toUi[u], toUi'[u], e)
      /\ \A u \in Uis : u \notin Clients \ {except} => toUi'[u] = toUi[u]
    <2>1. Clients \subseteq Uis
        BY DEF Clients
    <2>q. QED
        BY <1>3, <1>5, <2>1
<1>8. DOMAIN toUi' = Uis
    BY <1>3
<1>q. QED
    BY <1>1, <1>3, <1>4, <1>6, <1>7, <1>8

LEMMA SendLineKeeps ==
    ASSUME IInv, NEW type \in {">", "<", "c"}, NEW l, NEW except, SendLine(type, l, except),
           srv.up, ui' = ui, DOMAIN toSrv' = Uis
    PROVE  SrvOK' /\ EndsOK' /\ DownOK' /\ UisOK' /\ OutOK' /\ SockOK'
<1> PICK e, h : e = Stamp(type, l) /\ h = Recorded(e)
    OBVIOUS
<1>1. e.at = n + 1 /\ e.type = type
    BY StampIs
<1>2. /\ n' = n + 1 /\ n \in Nat /\ conn' = conn /\ gone' = gone /\ gone \subseteq {except}
      /\ DOMAIN toUi' = Uis /\ DOMAIN srv' = DOMAIN srv
      /\ srv'.up = srv.up /\ srv'.last_disconnect = srv.last_disconnect
      /\ Longer(srv.history, srv'.history, h)
      /\ \A u \in Clients \ {except} : Longer(toUi[u], toUi'[u], e)
      /\ \A u \in Uis : u \notin Clients \ {except} => toUi'[u] = toUi[u]
      /\ owed' = IF type = ">" THEN owed \union {n'} ELSE owed
    BY SendLineIs
<1>3. /\ DOMAIN srv = {"up", "track", "history", "last_disconnect"} /\ srv.up \in BOOLEAN
      /\ srv.last_disconnect \in 0..n /\ HistoryFine(srv.history, n) /\ owed \subseteq 1..n
    BY DEF IInv, SrvOK
<1>4. EndsOK' /\ DownOK'
    BY <1>2 DEF IInv, EndsOK, DownOK
<1>5. SrvOK'
    <2>1. h.type = type /\ (h.at = n + 1 \/ (h.at = 0 /\ srv.history = <<>>))
        BY RecordedIs
    <2>3. HistoryFine(srv'.history, n')
        BY <1>2, <1>3, <2>1, HistoryGrows
    <2>2. owed' \subseteq 1..n' /\ srv'.last_disconnect \in 0..n'
        BY <1>2, <1>3
    <2>q. QED
        BY <1>2, <1>3, <2>2, <2>3 DEF SrvOK
<1>6. UisOK'
    BY <1>2 DEF IInv, UisOK, UiFine
<1>7. ASSUME NEW u \in Uis
      PROVE OutFine(toUi'[u], n') /\ SockFine(u, ui'[u], toUi'[u], conn'[u], gone')
    <2>1. OutFine(toUi[u], n) /\ SockFine(u, ui[u], toUi[u], conn[u], gone) /\ UiFine(ui[u], n)
        BY DEF IInv, OutOK, SockOK, UisOK
    <2>2. OutFine(toUi[u], n') /\ IsList(toUi[u])
        BY <1>2, <2>1, OutLater DEF OutFine
    <2>3. CASE u \in Clients \ {except}
        <3>1. Longer(toUi[u], toUi'[u], e)
            BY <1>2, <2>3
        <3>2. conn[u] # "none" /\ u \notin gone
            BY <1>2, <2>3 DEF Clients
        <3>3. ui[u].sock
            BY <2>1, <3>2 DEF SockFine, UiFine
        <3>4. OutFine(toUi'[u], n')
            <4>1. n' \in Nat /\ e.at \in 0..n'
                BY <1>1, <1>2
            <4>q. QED
                BY <1>1, <2>2, <3>1, <4>1, OutGrows
        <3>5. SockFine(u, ui[u], toUi'[u], conn[u], gone)
            BY <1>1, <2>1, <2>2, <3>1, <3>2, <3>3, SockGrows
        <3>q. QED
            BY <1>2, <3>4, <3>5
    <2>4. CASE u \notin Clients \ {except}
        BY <1>2, <2>1, <2>2, <2>4
    <2>q. QED
        BY <2>3, <2>4
<1>q. QED
    BY <1>4, <1>5, <1>6, <1>7 DEF OutOK, SockOK

(***************************************************************************)
(* A client's 'C'.                                                         *)
(***************************************************************************)
\* r is q, what tells the state, and sent.
Sent(q, r, sent) ==
    /\ IsList(r)
    /\ \A i \in DOMAIN q : i \in DOMAIN r /\ r[i] = q[i]
    /\ \E k \in Nat :
        /\ k >= Len(q)
        /\ \A j \in DOMAIN sent : k + j \in DOMAIN r /\ r[k + j] = sent[j]
        /\ \A i \in DOMAIN r :
            \/ i \in DOMAIN q
            \/ i \in Nat /\ i > Len(q) /\ i <= k /\ r[i].at = 0 /\ r[i].type \in {"c", "S"}
            \/ i \in Nat /\ i > k /\ i - k \in DOMAIN sent /\ r[i] = sent[i - k]

\* What goes in front of the lines tells the state.
LEMMA SentIs ==
    ASSUME NEW q, IsList(q), NEW sent, IsList(sent),
           NEW a, a.at = 0, a.type = "c", NEW b, b.at = 0, b.type = "S",
           NEW cut, cut = <<>> \/ cut = <<a>>,
           NEW r, r = Cat(q, Cat(Cat(cut, <<b>>), sent))
    PROVE  Sent(q, r, sent)
<1>1. IsList(cut) /\ \A i \in DOMAIN cut : cut[i] = a
    BY EmptyList, OneIsList
<1>2. PICK o : o = <<b>>
    OBVIOUS
<1>o. IsList(o) /\ \A i \in DOMAIN o : o[i] = b
    BY <1>2, OneIsList
<1>3. PICK h : h = Cat(cut, o)
    OBVIOUS
<1>c. /\ IsList(h)
      /\ \A i \in DOMAIN h :
            \/ i \in DOMAIN cut /\ h[i] = cut[i]
            \/ i - Len(cut) \in DOMAIN o /\ h[i] = o[i - Len(cut)]
    <2>1. IsList(cut) /\ IsList(o)
        BY <1>1, <1>o
    <2>q. QED
        BY <1>3, <2>1, ConcatPlaces
<1>4. IsList(h) /\ \A i \in DOMAIN h : h[i] = a \/ h[i] = b
    BY <1>1, <1>o, <1>c
<1>5. PICK x : x = Cat(h, sent)
    OBVIOUS
<1>s. IsList(h)
    BY <1>4
<1>6. /\ IsList(x) /\ Len(h) \in Nat
      /\ \A j \in DOMAIN sent : Len(h) + j \in DOMAIN x /\ x[Len(h) + j] = sent[j]
      /\ \A i \in DOMAIN x :
            \/ i \in DOMAIN h /\ x[i] = h[i]
            \/ i \in Nat /\ i > Len(h) /\ i - Len(h) \in DOMAIN sent /\ x[i] = sent[i - Len(h)]
    BY <1>s, <1>5, ConcatPlaces
<1>7. PICK y : y = Cat(q, x)
    OBVIOUS
<1>r. r = y
    BY <1>2, <1>3, <1>5, <1>7
<1>x. IsList(x)
    BY <1>6
<1>y. /\ IsList(y) /\ Len(q) \in Nat
      /\ \A i \in DOMAIN q : i \in DOMAIN y /\ y[i] = q[i]
      /\ \A j \in DOMAIN x : Len(q) + j \in DOMAIN y /\ y[Len(q) + j] = x[j]
      /\ \A i \in DOMAIN y :
            \/ i \in DOMAIN q
            \/ i \in Nat /\ i > Len(q) /\ i - Len(q) \in DOMAIN x /\ y[i] = x[i - Len(q)]
    BY <1>x, <1>7, ConcatPlaces
<1>8. /\ IsList(r) /\ Len(q) \in Nat
      /\ \A i \in DOMAIN q : i \in DOMAIN r /\ r[i] = q[i]
      /\ \A j \in DOMAIN x : Len(q) + j \in DOMAIN r /\ r[Len(q) + j] = x[j]
      /\ \A i \in DOMAIN r :
            \/ i \in DOMAIN q
            \/ i \in Nat /\ i > Len(q) /\ i - Len(q) \in DOMAIN x /\ r[i] = x[i - Len(q)]
    BY <1>r, <1>y
<1>9. PICK l \in Nat : l = Len(q)
    BY <1>8
<1>10. PICK d \in Nat : d = Len(h) /\ DOMAIN h = 1..d
    BY <1>4, ListPlaces
<1>11. DOMAIN sent \subseteq Nat
    BY ListPlaces
<1>12. PICK k \in Nat : k = l + d
    OBVIOUS
<1>13. ASSUME NEW j \in DOMAIN sent PROVE k + j \in DOMAIN r /\ r[k + j] = sent[j]
    <2>1. d + j \in DOMAIN x /\ x[d + j] = sent[j]
        BY <1>6, <1>10
    <2>2. l + (d + j) \in DOMAIN r /\ r[l + (d + j)] = x[d + j]
        BY <1>8, <1>9, <2>1
    <2>3. l + (d + j) = k + j
        BY <1>11, <1>12
    <2>q. QED
        BY <2>1, <2>2, <2>3
<1>14. ASSUME NEW i \in DOMAIN r, i \notin DOMAIN q
       PROVE  \/ i \in Nat /\ i > l /\ i <= k /\ r[i].at = 0 /\ r[i].type \in {"c", "S"}
              \/ i \in Nat /\ i > k /\ i - k \in DOMAIN sent /\ r[i] = sent[i - k]
    <2>1. i \in Nat /\ i > l /\ i - l \in DOMAIN x /\ r[i] = x[i - l]
        BY <1>8, <1>9, <1>14
    <2>2. CASE i - l \in DOMAIN h /\ x[i - l] = h[i - l]
        <3>1. i <= k
            BY <1>10, <1>12, <2>1, <2>2
        <3>2. r[i] = a \/ r[i] = b
            BY <1>4, <2>1, <2>2
        <3>q. QED
            BY <2>1, <3>1, <3>2
    <2>3. CASE i - l > d /\ (i - l) - d \in DOMAIN sent /\ x[i - l] = sent[(i - l) - d]
        <3>1. i > k /\ (i - l) - d = i - k
            BY <1>12, <2>1, <2>3
        <3>q. QED
            BY <2>1, <2>3, <3>1
    <2>q. QED
        BY <1>6, <1>10, <2>1, <2>2, <2>3
<1>15. k >= l
    BY <1>12
<1>q. QED
    BY <1>8, <1>9, <1>13, <1>14, <1>15 DEF Sent

\* What leaves the history, what is left and what of it is sent, when the lines up to week
\* are too old.
Answers(week, kept, rest, sent) ==
    /\ week \in 0..n
    /\ Part(srv.history, kept) /\ Part(kept, rest) /\ Part(rest, sent)
    /\ \A i \in DOMAIN srv.history : week < srv.history[i].at =>
            \E j \in DOMAIN kept : kept[j] = srv.history[i]
    /\ "trim" \notin Races => \A i \in DOMAIN kept : \E j \in DOMAIN rest : rest[j] = kept[i]
    /\ \A i \in DOMAIN sent : srv.last_disconnect < sent[i].at
    /\ \A i \in DOMAIN rest : srv.last_disconnect < rest[i].at =>
            \E j \in DOMAIN sent : sent[j] = rest[i]

LEMMA ConfigureIs ==
    ASSUME IInv, NEW u \in Uis, Configure(u)
    PROVE  /\ conn' = [conn EXCEPT ![u] = "ready"]
           /\ link' = IF link = "off" THEN "down" ELSE link
           /\ UNCHANGED <<room, asked, inbox, gone, n>>
           /\ DOMAIN srv' = DOMAIN srv /\ srv'.up = srv.up
           /\ srv'.last_disconnect = srv.last_disconnect
           /\ DOMAIN toUi' = Uis /\ \A w \in Uis : w # u \/ u \in gone => toUi'[w] = toUi[w]
           /\ \E week, kept, rest, sent :
                /\ Answers(week, kept, rest, sent) /\ srv'.history = kept
                /\ u \notin gone => Sent(toUi[u], toUi'[u], sent)
                /\ owed' = {m \in owed : m > week /\ (u \in gone => m <= srv.last_disconnect)}
<1>1. /\ n \in Nat /\ DOMAIN srv = {"up", "track", "history", "last_disconnect"}
      /\ srv.last_disconnect \in Nat /\ DOMAIN toUi = Uis /\ IsList(toUi[u])
      /\ Stamped(srv.history)
    BY DEF IInv, NetOK, SrvOK, EndsOK, OutOK, OutFine, HistoryFine
<1> DEFINE old(week) == UpTo(srv.history, week)
           kept(week) == After(srv.history, week)
           rest(week) == SubSeq(kept(week), Len(old(week)) + 1, Len(kept(week)))
           stop == srv.last_disconnect
           track(week) == Replay(srv.track, old(week))
           local(week) == Replay(track(week), UpTo(rest(week), stop))
           a == [type |-> "c", at |-> 0, line |-> Status]
           cut(week) == IF stop > 0 /\ stop <= week THEN <<a>> ELSE <<>>
           state(week) == [type |-> "S", at |-> 0, line |-> local(week)]
           sent(week) == After(rest(week), stop)
<1>2. PICK week \in 0..(IF events < MaxEvents THEN n ELSE 0) :
        /\ MayTrim(old(week), kept(week))
        /\ srv' = [srv EXCEPT !.track = track(week), !.history = kept(week)]
        /\ Send(u, cut(week) \o <<state(week)>> \o sent(week))
        /\ conn' = [conn EXCEPT ![u] = "ready"]
        /\ link' = IF link = "off" THEN "down" ELSE link
        /\ owed' = {m \in owed : m > week /\ (u \in gone => m <= stop)}
        /\ UNCHANGED <<room, asked, inbox, gone, n>>
    BY DEF Configure
<1>3. week \in Nat /\ week \in 0..n
    BY <1>1
<1>4. PICK o, k, r, s, t, c, b : /\ o = old(week) /\ k = kept(week) /\ r = rest(week)
                                 /\ s = sent(week) /\ t = track(week) /\ c = cut(week)
                                 /\ b = state(week)
    OBVIOUS
<1>t. "trim" \notin Races => o = <<>> \/ k = <<>>
    BY <1>2, <1>4 DEF MayTrim
<1>u. o = UpTo(srv.history, week) /\ k = After(srv.history, week)
    BY <1>4
<1>v. r = SubSeq(k, Len(o) + 1, Len(k))
    BY <1>4
<1>w. s = After(r, srv.last_disconnect)
    BY <1>4
<1>5. /\ srv' = [srv EXCEPT !.track = t, !.history = k]
      /\ toUi' = [toUi EXCEPT ![u] = IF u \in gone THEN @ ELSE @ \o (c \o <<b>> \o s)]
      /\ c = <<>> \/ c = <<a>>
      /\ b.at = 0 /\ b.type = "S"
    BY <1>2, <1>4 DEF Send
<1>b. b.at = 0 /\ b.type = "S"
    BY <1>5
<1>6. PICK d : d = a
    OBVIOUS
<1>7. d.at = 0 /\ d.type = "c" /\ (c = <<>> \/ c = <<d>>)
    BY <1>5, <1>6
<1> HIDE DEF old, kept, rest, stop, track, local, a, cut, state, sent
<1>8. IsList(o) /\ Len(o) \in Nat
    BY <1>1, <1>3, <1>u, UpToIsList
<1>9. /\ Part(srv.history, k)
      /\ \A i \in DOMAIN srv.history : week < srv.history[i].at =>
            \E j \in DOMAIN k : k[j] = srv.history[i]
    BY <1>1, <1>3, <1>u, AfterIs
<1>10. Stamped(k)
    BY <1>9 DEF Part
<1>11. Part(k, r)
    BY <1>v, <1>8, <1>10, RestIsPart
<1>12. "trim" \notin Races => \A i \in DOMAIN k : \E j \in DOMAIN r : r[j] = k[i]
    <2> SUFFICES ASSUME "trim" \notin Races
                 PROVE  \A i \in DOMAIN k : \E j \in DOMAIN r : r[j] = k[i]
        OBVIOUS
    <2>1. o = <<>> \/ k = <<>>
        BY <1>t
    <2>2. IsList(k)
        BY <1>10 DEF Stamped
    <2>3. Len(o) <= Len(k) => RestOf(k, r, Len(o))
        BY <1>v, <1>8, <1>10, RestIsPart
    <2>q. QED
        BY <1>8, <2>1, <2>2, <2>3, NothingPassedOver
<1>13. Stamped(r)
    BY <1>11 DEF Part
<1>14. /\ Part(r, s)
       /\ \A i \in DOMAIN s : srv.last_disconnect < s[i].at
       /\ \A i \in DOMAIN r : srv.last_disconnect < r[i].at => \E j \in DOMAIN s : s[j] = r[i]
    BY <1>1, <1>w, <1>13, AfterIs
<1>15. Answers(week, k, r, s)
    BY <1>3, <1>9, <1>11, <1>12, <1>14 DEF Answers
<1>16. /\ DOMAIN srv' = DOMAIN srv /\ srv'.up = srv.up /\ srv'.history = k
       /\ srv'.last_disconnect = srv.last_disconnect
    BY <1>1, <1>5
<1>17. /\ DOMAIN toUi' = Uis /\ \A w \in Uis : w # u \/ u \in gone => toUi'[w] = toUi[w]
    BY <1>1, <1>5
<1>18. ASSUME u \notin gone PROVE Sent(toUi[u], toUi'[u], s)
    <2>1. IsList(s)
        BY <1>14 DEF Part, Stamped
    <2>2. toUi'[u] = Cat(toUi[u], Cat(Cat(c, <<b>>), s))
        BY <1>1, <1>5, <1>18 DEF Cat
    <2>q. QED
        BY <1>1, <1>b, <1>7, <2>1, <2>2, SentIs
<1>19. owed' = {m \in owed : m > week /\ (u \in gone => m <= srv.last_disconnect)}
    BY <1>2 DEF stop
<1>20. \E w, kk, rr, ss :
        /\ Answers(w, kk, rr, ss) /\ srv'.history = kk
        /\ u \notin gone => Sent(toUi[u], toUi'[u], ss)
        /\ owed' = {m \in owed : m > w /\ (u \in gone => m <= srv.last_disconnect)}
    BY <1>15, <1>16, <1>18, <1>19
<1>q. QED
    BY <1>2, <1>16, <1>17, <1>20

(***************************************************************************)
(* Every step keeps the invariant.                                         *)
(***************************************************************************)
\* What the IRC network does while the bouncer runs.
LEMMA NetKeeps ==
    ASSUME IInv, Quiet, NetOK', srv.up PROVE IInv'
<1>1. UNCHANGED <<srv, conn, gone, toSrv, toUi, ui, n, owed>>
    BY DEF Quiet, sockets
<1>2. SrvOK' /\ EndsOK' /\ UisOK' /\ OutOK' /\ InOK' /\ SockOK'
    BY <1>1 DEF IInv, SrvOK, EndsOK, UisOK, OutOK, InOK, SockOK
<1>3. DownOK'
    BY <1>1 DEF DownOK
<1>q. QED
    BY <1>2, <1>3 DEF IInv

LEMMA NetworkKeeps ==
    ASSUME IInv,
           \/ Welcome
           \/ \E c \in Chans :
                \/ LetIn(c) \/ Kicks(c)
                \/ \E who \in Others :
                    \/ OtherJoins(c, who) \/ OtherQuits(c, who) \/ OtherTalks(c, who)
                    \/ \E new \in Others : OtherRenames(c, who, new)
    PROVE  IInv' /\ UNCHANGED <<srv, conn, gone, toSrv, toUi, ui, n, owed>>
<1>1. /\ NetOK /\ n \in Nat /\ room \in [Chans -> SUBSET (Others \union {Me})]
      /\ asked \subseteq Chans /\ link \in {"off", "down", "open", "in"}
    BY DEF IInv, NetOK
<1>2. link # "off" \/ asked # {} => srv.up
    BY DEF IInv, DownOK, SrvOK
<1>3. CASE Welcome
    <2>1. Quiet /\ UNCHANGED <<room, asked, link>> /\ link = "open"
        BY <1>3 DEF Welcome
    <2>2. NetOK'
        BY <1>1, <2>1 DEF NetOK, Quiet
    <2>q. QED
        BY <1>2, <2>1, <2>2, NetKeeps DEF Quiet, sockets
<1>4. ASSUME NEW c \in Chans, LetIn(c) PROVE Quiet /\ NetOK' /\ srv.up
    <2>1. /\ c \in asked /\ asked' = asked \ {c} /\ room' = [room EXCEPT ![c] = @ \union {Me}]
          /\ Quiet /\ link' = link
        BY <1>4 DEF LetIn
    <2>q. QED
        BY <1>1, <1>2, <2>1 DEF NetOK, Quiet
<1>5. ASSUME NEW c \in Chans, Kicks(c) PROVE Quiet /\ NetOK' /\ srv.up
    <2>1. /\ room' = [room EXCEPT ![c] = @ \ {Me}] /\ Quiet /\ asked' = asked /\ link' = link
          /\ link # "off"
        BY <1>5 DEF Kicks, Event
    <2>q. QED
        BY <1>1, <1>2, <2>1 DEF NetOK, Quiet
<1>6. ASSUME NEW c \in Chans, NEW who \in Others, OtherJoins(c, who)
      PROVE  Quiet /\ NetOK' /\ srv.up
    <2>1. /\ room' = [room EXCEPT ![c] = @ \union {who}] /\ Quiet /\ asked' = asked
          /\ link' = link /\ link # "off"
        BY <1>6 DEF OtherJoins, Event
    <2>q. QED
        BY <1>1, <1>2, <2>1 DEF NetOK, Quiet
<1>7. ASSUME NEW c \in Chans, NEW who \in Others, OtherQuits(c, who)
      PROVE  Quiet /\ NetOK' /\ srv.up
    <2>1. /\ room' = [d \in Chans |-> room[d] \ {who}] /\ Quiet /\ asked' = asked
          /\ link' = link /\ link # "off"
        BY <1>7 DEF OtherQuits, Event
    <2>q. QED
        BY <1>1, <1>2, <2>1 DEF NetOK, Quiet
<1>8. ASSUME NEW c \in Chans, NEW who \in Others, OtherTalks(c, who)
      PROVE  Quiet /\ NetOK' /\ srv.up
    <2>1. UNCHANGED <<room, asked, link>> /\ Quiet /\ link # "off"
        BY <1>8 DEF OtherTalks, Event
    <2>q. QED
        BY <1>1, <1>2, <2>1 DEF NetOK, Quiet
<1>9. ASSUME NEW c \in Chans, NEW who \in Others, NEW new \in Others, OtherRenames(c, who, new)
      PROVE  Quiet /\ NetOK' /\ srv.up
    <2>1. /\ room' = [room EXCEPT ![c] = (@ \ {who}) \union {new}] /\ Quiet /\ asked' = asked
          /\ link' = link /\ link # "off"
        BY <1>9 DEF OtherRenames, Event
    <2>q. QED
        BY <1>1, <1>2, <2>1 DEF NetOK, Quiet
<1>10. Quiet /\ NetOK' /\ srv.up => IInv' /\ UNCHANGED <<srv, conn, gone, toSrv, toUi, ui, n, owed>>
    BY NetKeeps DEF Quiet, sockets
<1>q. QED
    BY <1>3, <1>4, <1>5, <1>6, <1>7, <1>8, <1>9, <1>10

\* The autopilot's lines.
LEMMA PilotKeeps ==
    ASSUME IInv, PilotConnects \/ PilotBreaks
    PROVE  IInv' /\ SendLine("c", Status, Nobody) /\ ui' = ui /\ toSrv' = toSrv
<1>1. /\ SendLine("c", Status, Nobody) /\ ui' = ui /\ toSrv' = toSrv /\ srv.up
      /\ link' \in {"off", "down", "open", "in"}
      /\ \/ room' = room /\ asked' = asked
         \/ room' = [c \in Chans |-> room[c] \ {Me}] /\ asked' = {}
    <2>1. CASE PilotConnects
        BY <2>1 DEF PilotConnects
    <2>2. CASE PilotBreaks
        BY <2>2 DEF PilotBreaks
    <2>q. QED
        BY <2>1, <2>2
<1>2. SrvOK' /\ EndsOK' /\ DownOK' /\ UisOK' /\ OutOK' /\ SockOK'
    BY <1>1, SendLineKeeps DEF IInv, EndsOK
<1>3. n' = n + 1 /\ conn' = conn
    BY <1>1 DEF SendLine
<1>4. NetOK'
    BY <1>1, <1>3 DEF IInv, NetOK
<1>5. InOK'
    BY <1>1, <1>3 DEF IInv, InOK
<1>q. QED
    BY <1>1, <1>2, <1>4, <1>5 DEF IInv

LEMMA IrcLineKeeps ==
    ASSUME IInv, IrcLine
    PROVE  IInv' /\ (\E l : SendLine(">", l, Nobody)) /\ ui' = ui /\ toSrv' = toSrv
<1>1. PICK l : /\ SendLine(">", l, Nobody) /\ ui' = ui /\ toSrv' = toSrv /\ room' = room
               /\ link' \in {"in", link} /\ asked' \in {Chans, asked} /\ inbox # <<>>
    BY DEF IrcLine
<1>2. srv.up
    BY <1>1 DEF IInv, DownOK
<1>3. SrvOK' /\ EndsOK' /\ DownOK' /\ UisOK' /\ OutOK' /\ SockOK'
    BY <1>1, <1>2, SendLineKeeps DEF IInv, EndsOK
<1>4. n' = n + 1 /\ conn' = conn
    BY <1>1 DEF SendLine
<1>5. NetOK'
    BY <1>1, <1>4 DEF IInv, NetOK
<1>6. InOK'
    BY <1>1, <1>4 DEF IInv, InOK
<1>q. QED
    BY <1>1, <1>3, <1>5, <1>6 DEF IInv

LEMMA AcceptKeeps == ASSUME IInv, NEW u \in Uis, Accept(u) PROVE IInv'
<1>1. /\ conn[u] = "backlog" /\ conn' = [conn EXCEPT ![u] = "accepted"] /\ srv.up
      /\ UNCHANGED <<room, asked, inbox, link, srv, gone, toSrv, toUi, ui, n, events, owed>>
    BY DEF Accept, net
<1>2. EndsOK /\ conn \in [Uis -> {"none", "backlog", "accepted", "ready"}]
    BY DEF IInv, EndsOK
<1>3. conn' \in [Uis -> {"none", "backlog", "accepted", "ready"}]
    BY <1>1, <1>2
<1>4. conn'[u] = "accepted" /\ \A w \in Uis : w # u => conn'[w] = conn[w]
    BY <1>1, <1>2
<1>5. NetOK' /\ SrvOK' /\ UisOK' /\ OutOK'
    BY <1>1 DEF IInv, NetOK, SrvOK, UisOK, OutOK
<1>6. EndsOK' /\ DownOK'
    BY <1>1, <1>2, <1>3 DEF EndsOK, DownOK
<1>7. ASSUME NEW w \in Uis
      PROVE InFine(toSrv'[w], conn'[w]) /\ SockFine(w, ui'[w], toUi'[w], conn'[w], gone')
    <2>1. InFine(toSrv[w], conn[w]) /\ SockFine(w, ui[w], toUi[w], conn[w], gone)
        BY DEF IInv, InOK, SockOK
    <2>2. CASE w # u
        BY <1>1, <1>4, <2>1, <2>2
    <2>3. CASE w = u
        BY <1>1, <1>4, <2>1, <2>3 DEF InFine, SockFine
    <2>q. QED
        BY <2>2, <2>3
<1>q. QED
    BY <1>5, <1>6, <1>7 DEF IInv, InOK, SockOK

\* What is at the head of a socket to the server.
LEMMA ServerReadsIs ==
    ASSUME IInv, NEW u \in Clients, toSrv[u] # <<>>
    PROVE  /\ u \in Uis /\ srv.up /\ DOMAIN toSrv = Uis
           /\ InFine(toSrv[u], conn[u]) /\ Shorter(toSrv[u], Tail(toSrv[u]))
           /\ InFine(Tail(toSrv[u]), "ready")
           /\ Head(toSrv[u]).type = "C" <=> conn[u] = "accepted"
           /\ Head(toSrv[u]).type = "<" => Head(toSrv[u]).line.chan \in Chans
<1>1. u \in Uis /\ conn[u] \in {"accepted", "ready"}
    BY DEF Clients
<1>2. InFine(toSrv[u], conn[u]) /\ srv.up /\ DOMAIN toSrv = Uis
    BY <1>1, AttachedToServer DEF IInv, InOK, EndsOK
<1>3. IsList(toSrv[u])
    BY <1>2 DEF InFine
<1>4. Shorter(toSrv[u], Tail(toSrv[u]))
    BY <1>3, TailShorter
<1>5. InFine(Tail(toSrv[u]), "ready")
    BY <1>2, <1>4, InReads
<1>6. Head(toSrv[u]) = toSrv[u][1] /\ 1 \in DOMAIN toSrv[u]
    BY <1>3, ListPlaces
<1>7. toSrv[u][1].type = "C" <=> conn[u] = "accepted"
    BY <1>1, <1>2, <1>6 DEF InFine
<1>8. toSrv[u][1].type = "<" => toSrv[u][1].line.chan \in Chans
    BY <1>2, <1>6 DEF InFine
<1>q. QED
    BY <1>1, <1>2, <1>4, <1>5, <1>6, <1>7, <1>8

LEMMA RelayKeeps ==
    ASSUME IInv, NEW u \in Clients, toSrv[u] # <<>>, Head(toSrv[u]).type = "<",
           Relay(u, Head(toSrv[u]).line), toSrv' = [toSrv EXCEPT ![u] = Tail(@)], ui' = ui
    PROVE  IInv' /\ (\E l : SendLine("<", l, u))
<1>1. PICK l : l = Head(toSrv[u]).line
    OBVIOUS
<1>2. /\ SendLine("<", l, u) /\ UNCHANGED <<room, inbox, link, events>>
      /\ asked' \in {asked, asked \union {l.chan}}
    BY <1>1 DEF Relay
<1>3. /\ u \in Uis /\ srv.up /\ DOMAIN toSrv = Uis /\ InFine(Tail(toSrv[u]), "ready")
      /\ l.chan \in Chans /\ conn[u] = "ready"
    <2>1. /\ u \in Uis /\ srv.up /\ DOMAIN toSrv = Uis /\ InFine(Tail(toSrv[u]), "ready")
          /\ Head(toSrv[u]).type = "C" <=> conn[u] = "accepted"
          /\ Head(toSrv[u]).type = "<" => Head(toSrv[u]).line.chan \in Chans
        BY ServerReadsIs
    <2>q. QED
        BY <1>1, <2>1 DEF Clients
<1>4. DOMAIN toSrv' = Uis
    BY <1>3
<1>5. SrvOK' /\ EndsOK' /\ DownOK' /\ UisOK' /\ OutOK' /\ SockOK'
    BY <1>2, <1>3, <1>4, SendLineKeeps
<1>6. n' = n + 1 /\ conn' = conn
    BY <1>2 DEF SendLine
<1>7. NetOK'
    BY <1>2, <1>3, <1>6 DEF IInv, NetOK
<1>8. InOK'
    BY <1>3, <1>6 DEF IInv, InOK
<1>q. QED
    BY <1>2, <1>5, <1>7, <1>8 DEF IInv

LEMMA ConfigureKeeps ==
    ASSUME IInv, NEW u \in Clients, toSrv[u] # <<>>, Head(toSrv[u]).type = "C",
           Configure(u), toSrv' = [toSrv EXCEPT ![u] = Tail(@)], ui' = ui
    PROVE  IInv'
<1>1. /\ u \in Uis /\ srv.up /\ DOMAIN toSrv = Uis /\ InFine(Tail(toSrv[u]), "ready")
      /\ conn[u] = "accepted"
    BY ServerReadsIs
<1>2. /\ conn' = [conn EXCEPT ![u] = "ready"]
      /\ link' = IF link = "off" THEN "down" ELSE link
      /\ UNCHANGED <<room, asked, inbox, gone, n>>
      /\ DOMAIN srv' = DOMAIN srv /\ srv'.up = srv.up
      /\ srv'.last_disconnect = srv.last_disconnect
      /\ DOMAIN toUi' = Uis /\ \A w \in Uis : w # u \/ u \in gone => toUi'[w] = toUi[w]
    BY <1>1, ConfigureIs
<1>3. PICK week, kept, rest, sent :
        /\ Answers(week, kept, rest, sent) /\ srv'.history = kept
        /\ u \notin gone => Sent(toUi[u], toUi'[u], sent)
        /\ owed' = {m \in owed : m > week /\ (u \in gone => m <= srv.last_disconnect)}
    BY <1>1, ConfigureIs
<1>4. /\ EndsOK /\ conn \in [Uis -> {"none", "backlog", "accepted", "ready"}]
      /\ n \in Nat /\ HistoryFine(srv.history, n) /\ owed \subseteq 1..n
    BY DEF IInv, EndsOK, NetOK, SrvOK
<1>5. HistoryFine(kept, n) /\ HistoryFine(sent, n)
    <2>1. Part(srv.history, kept) /\ Part(kept, rest) /\ Part(rest, sent)
        BY <1>3 DEF Answers
    <2>2. HistoryFine(kept, n)
        BY <1>4, <2>1, HistoryPart
    <2>3. HistoryFine(rest, n)
        BY <1>4, <2>1, <2>2, HistoryPart
    <2>4. HistoryFine(sent, n)
        BY <1>4, <2>1, <2>3, HistoryPart
    <2>q. QED
        BY <2>2, <2>4
<1>6. NetOK'
    BY <1>2 DEF IInv, NetOK
<1>7. SrvOK'
    BY <1>2, <1>3, <1>4, <1>5 DEF IInv, SrvOK
<1>8. conn' \in [Uis -> {"none", "backlog", "accepted", "ready"}]
    BY <1>2, <1>4
<1>9. conn'[u] = "ready" /\ \A w \in Uis : w # u => conn'[w] = conn[w]
    BY <1>1, <1>2, <1>4
<1>10. EndsOK' /\ DownOK' /\ UisOK'
    BY <1>1, <1>2, <1>4, <1>8 DEF IInv, EndsOK, DownOK, UisOK
<1>11. ASSUME NEW w \in Uis PROVE InFine(toSrv'[w], conn'[w])
    <2>1. CASE w = u
        BY <1>1, <1>9, <2>1
    <2>2. CASE w # u
        BY <1>1, <1>9, <2>2 DEF IInv, InOK
    <2>q. QED
        BY <2>1, <2>2
<1>12. ASSUME NEW w \in Uis
       PROVE OutFine(toUi'[w], n') /\ SockFine(w, ui'[w], toUi'[w], conn'[w], gone')
    <2>1. OutFine(toUi[w], n) /\ SockFine(w, ui[w], toUi[w], conn[w], gone) /\ UiFine(ui[w], n)
        BY DEF IInv, OutOK, SockOK, UisOK
    <2>2. CASE w # u
        BY <1>2, <1>9, <2>1, <2>2
    <2>3. CASE w = u /\ u \in gone
        BY <1>1, <1>2, <1>9, <2>1, <2>3 DEF SockFine
    <2>4. CASE w = u /\ u \notin gone
        <3>1. Sent(toUi[u], toUi'[u], sent)
            BY <1>3, <2>4
        <3>2. IsList(toUi'[u])
            BY <3>1 DEF Sent
        <3>3. ASSUME NEW i \in DOMAIN toUi'[u]
              PROVE  /\ toUi'[u][i].at \in 0..n /\ toUi'[u][i].type \in {">", "<", "c", "S", "end"}
                     /\ toUi'[u][i].type # "end"
            <4>1. \/ i \in DOMAIN toUi[u] /\ toUi'[u][i] = toUi[u][i]
                  \/ toUi'[u][i].at = 0 /\ toUi'[u][i].type \in {"c", "S"}
                  \/ \E j \in DOMAIN sent : toUi'[u][i] = sent[j]
                BY <3>1 DEF Sent
            <4>2. CASE i \in DOMAIN toUi[u] /\ toUi'[u][i] = toUi[u][i]
                BY <1>1, <2>1, <2>4, <4>2 DEF OutFine, SockFine
            <4>3. CASE toUi'[u][i].at = 0 /\ toUi'[u][i].type \in {"c", "S"}
                BY <1>4, <4>3
            <4>4. CASE \E j \in DOMAIN sent : toUi'[u][i] = sent[j]
                BY <1>4, <1>5, <4>4 DEF HistoryFine
            <4>q. QED
                BY <4>1, <4>2, <4>3, <4>4
        <3>4. OutFine(toUi'[u], n)
            BY <3>2, <3>3 DEF OutFine
        <3>5. ui[u].sock /\ ui[u].up
            BY <1>1, <2>1, <2>4 DEF SockFine, UiFine
        <3>6. SockFine(u, ui[u], toUi'[u], "ready", gone)
            BY <2>4, <3>3, <3>5 DEF SockFine
        <3>q. QED
            BY <1>2, <1>9, <2>4, <3>4, <3>6
    <2>q. QED
        BY <2>2, <2>3, <2>4
<1>q. QED
    BY <1>6, <1>7, <1>10, <1>11, <1>12 DEF IInv, InOK, OutOK, SockOK

\* A client's 'X': what it leaves in the sockets to the interfaces.
LEMMA ExitIs ==
    ASSUME IInv, Exit
    PROVE  /\ srv' = NoServer /\ link' = "off" /\ asked' = {} /\ inbox' = <<>> /\ gone' = {}
           /\ room' = [c \in Chans |-> room[c] \ {Me}] /\ n' = n
           /\ DOMAIN conn' = Uis /\ \A w \in Uis : conn'[w] = "none"
           /\ DOMAIN toUi' = Uis
           /\ \E e : /\ e.at = 0 /\ e.type = "end"
                     /\ \A w \in Uis : conn[w] # "none" /\ w \notin gone =>
                            Longer(toUi[w], toUi'[w], e)
           /\ \A w \in Uis : ~(conn[w] # "none" /\ w \notin gone) => toUi'[w] = toUi[w]
           /\ owed' = owed \intersect InFlight
<1>1. PICK e : e = [type |-> "end", at |-> 0, line |-> Status]
    OBVIOUS
<1>2. e.at = 0 /\ e.type = "end"
    BY <1>1
<1>3. /\ srv' = NoServer /\ link' = "off" /\ asked' = {} /\ inbox' = <<>> /\ gone' = {}
      /\ room' = [c \in Chans |-> room[c] \ {Me}] /\ n' = n
      /\ conn' = [v \in Uis |-> "none"]
      /\ toUi' = [v \in Uis |->
            IF conn[v] # "none" /\ v \notin gone THEN Append(toUi[v], e) ELSE toUi[v]]
      /\ owed' = owed \intersect InFlight
    BY <1>1 DEF Exit
<1>4. ASSUME NEW w \in Uis PROVE Longer(toUi[w], Append(toUi[w], e), e)
    BY AppendLonger DEF IInv, OutOK, OutFine
<1>5. DOMAIN conn' = Uis /\ DOMAIN toUi' = Uis /\ \A w \in Uis : conn'[w] = "none"
    BY <1>3
<1>6. \A w \in Uis : conn[w] # "none" /\ w \notin gone => Longer(toUi[w], toUi'[w], e)
    BY <1>3, <1>4
<1>7. \A w \in Uis : ~(conn[w] # "none" /\ w \notin gone) => toUi'[w] = toUi[w]
    BY <1>3
<1>q. QED
    BY <1>2, <1>3, <1>5, <1>6, <1>7

LEMMA ExitKeeps ==
    ASSUME IInv, Exit, toSrv' = [v \in Uis |-> <<>>], ui' = ui PROVE IInv'
<1>1. /\ srv' = NoServer /\ link' = "off" /\ asked' = {} /\ inbox' = <<>> /\ gone' = {}
      /\ room' = [c \in Chans |-> room[c] \ {Me}] /\ n' = n
      /\ DOMAIN conn' = Uis /\ (\A w \in Uis : conn'[w] = "none") /\ DOMAIN toUi' = Uis
      /\ \A w \in Uis : ~(conn[w] # "none" /\ w \notin gone) => toUi'[w] = toUi[w]
      /\ owed' = owed \intersect InFlight
    BY ExitIs
<1>2. PICK e : /\ e.at = 0 /\ e.type = "end"
               /\ \A w \in Uis : conn[w] # "none" /\ w \notin gone =>
                            Longer(toUi[w], toUi'[w], e)
    BY ExitIs
<1>3. n \in Nat /\ owed \subseteq 1..n /\ DOMAIN ui = Uis
      /\ room \in [Chans -> SUBSET (Others \union {Me})]
    BY DEF IInv, NetOK, SrvOK, EndsOK
<1>4. NetOK'
    BY <1>1, <1>3 DEF NetOK
<1>5. SrvOK'
    <2>1. HistoryFine(<<>>, n)
        BY EmptyList DEF HistoryFine, Stamped, Increasing
    <2>2. /\ DOMAIN NoServer = {"up", "track", "history", "last_disconnect"}
          /\ NoServer.up = FALSE /\ NoServer.history = <<>> /\ NoServer.last_disconnect = 0
        BY DEF NoServer
    <2>q. QED
        <3>1. srv' = NoServer /\ n' = n
            BY <1>1
        <3>2. DOMAIN srv' = {"up", "track", "history", "last_disconnect"} /\ srv'.up \in BOOLEAN
            BY <2>2, <3>1
        <3>3. srv'.last_disconnect \in 0..n'
            BY <1>3, <2>2, <3>1
        <3>4. HistoryFine(srv'.history, n')
            BY <2>1, <2>2, <3>1
        <3>5. owed' \subseteq 1..n'
            BY <1>1, <1>3
        <3>q. QED
            BY <3>2, <3>3, <3>4, <3>5 DEF SrvOK
<1>6. EndsOK'
    <2>1. conn' = [w \in Uis |-> "none"]
        BY DEF Exit
    <2>q. QED
        BY <1>1, <1>3, <2>1 DEF EndsOK
<1>7. DownOK' /\ UisOK'
    BY <1>1 DEF IInv, DownOK, UisOK, NoServer
<1>8. InOK'
    <2>1. InFine(<<>>, "none")
        BY EmptyList DEF InFine
    <2>q. QED
        BY <1>1, <2>1 DEF InOK
<1>9. ASSUME NEW w \in Uis
      PROVE OutFine(toUi'[w], n') /\ SockFine(w, ui'[w], toUi'[w], conn'[w], gone')
    <2>1. /\ OutFine(toUi[w], n) /\ SockFine(w, ui[w], toUi[w], conn[w], gone)
          /\ IsList(toUi[w])
        BY DEF IInv, OutOK, SockOK, OutFine
    <2>2. CASE ~(conn[w] # "none" /\ w \notin gone)
        <3>1. SockFine(w, ui[w], toUi[w], "none", {})
            BY <2>1, <2>2, SockEnds
        <3>q. QED
            BY <1>1, <2>1, <2>2, <3>1
    <2>3. CASE conn[w] # "none" /\ w \notin gone
        <3>1. Longer(toUi[w], toUi'[w], e)
            BY <1>2, <2>3
        <3>2. SockFine(w, ui[w], toUi'[w], "none", {})
            BY <2>1, <2>3, <3>1, SockEnds
        <3>3. e.at \in 0..n
            BY <1>2, <1>3
        <3>4. OutFine(toUi'[w], n)
            BY <1>2, <1>3, <2>1, <3>1, <3>3, OutGrows
        <3>q. QED
            BY <1>1, <3>2, <3>4
    <2>q. QED
        BY <2>2, <2>3
<1>q. QED
    BY <1>4, <1>5, <1>6, <1>7, <1>8, <1>9 DEF IInv, OutOK, SockOK

\* Where the last connection ended.
LEMMA ServerEofIs ==
    ASSUME IInv, NEW u \in Uis, ServerEof(u)
    PROVE  /\ conn' = [conn EXCEPT ![u] = "none"] /\ gone' = gone \ {u} /\ u \in gone
           /\ conn[u] = "ready" /\ toSrv[u] = <<>> /\ srv.up
           /\ UNCHANGED <<room, asked, inbox, link, toSrv, toUi, ui, n, events, owed>>
           /\ DOMAIN srv' = DOMAIN srv /\ srv'.up = srv.up /\ srv'.history = srv.history
           /\ srv'.last_disconnect \in 0..n
           /\ \A i \in DOMAIN srv.history : srv.history[i].at <= srv'.last_disconnect
<1>1. /\ DOMAIN srv = {"up", "track", "history", "last_disconnect"} /\ n \in Nat
      /\ HistoryFine(srv.history, n)
    BY DEF IInv, SrvOK, NetOK
<1>2. PICK h : h = srv.history
    OBVIOUS
<1>3. PICK d : d = IF h = <<>> THEN 0 ELSE Last(h).at
    OBVIOUS
<1>4. /\ u \in Clients \intersect gone /\ toSrv[u] = <<>>
      /\ conn' = [conn EXCEPT ![u] = "none"] /\ gone' = gone \ {u}
      /\ srv' = [srv EXCEPT !.last_disconnect = d]
      /\ UNCHANGED <<room, asked, inbox, link, toSrv, toUi, ui, n, events, owed>>
    BY <1>2, <1>3 DEF ServerEof, net
<1>5. InFine(toSrv[u], conn[u]) /\ conn[u] \in {"accepted", "ready"} /\ srv.up
    BY <1>4, AttachedToServer DEF IInv, InOK, Clients
<1>6. conn[u] = "ready"
    BY <1>4, <1>5 DEF InFine
<1>7. /\ IsList(h) /\ (\A i, j \in DOMAIN h : i < j => h[i].at < h[j].at)
      /\ \A i \in DOMAIN h : h[i].at \in 0..n
    BY <1>1, <1>2 DEF HistoryFine, Stamped, Increasing
<1>8. d \in 0..n /\ \A i \in DOMAIN h : h[i].at <= d
    <2>1. CASE h = <<>>
        BY <1>1, <1>3, <2>1, EmptyList
    <2>2. CASE h # <<>>
        <3>1. Len(h) \in Nat /\ DOMAIN h = 1..Len(h) /\ Len(h) >= 1
            BY <1>7, <2>2, ListPlaces
        <3>2. d = h[Len(h)].at
            BY <1>3, <2>2 DEF Last
        <3>3. Len(h) \in DOMAIN h
            BY <3>1
        <3>4. ASSUME NEW i \in DOMAIN h PROVE h[i].at <= d
            <4>1. CASE i = Len(h)
                BY <1>7, <3>2, <4>1
            <4>2. CASE i # Len(h)
                <5>1. i < Len(h)
                    BY <3>1, <4>2
                <5>2. h[i].at < d
                    BY <1>7, <3>2, <3>3, <5>1
                <5>q. QED
                    BY <1>7, <3>2, <3>3, <5>2
            <4>q. QED
                BY <4>1, <4>2
        <3>5. d \in 0..n
            BY <1>7, <3>2, <3>3
        <3>q. QED
            BY <3>4, <3>5
    <2>q. QED
        BY <2>1, <2>2
<1>9. /\ DOMAIN srv' = DOMAIN srv /\ srv'.up = srv.up /\ srv'.history = srv.history
      /\ srv'.last_disconnect = d
    BY <1>1, <1>4
<1>q. QED
    BY <1>2, <1>4, <1>5, <1>6, <1>8, <1>9

LEMMA ServerEofKeeps == ASSUME IInv, NEW u \in Uis, ServerEof(u) PROVE IInv'
<1>1. /\ conn' = [conn EXCEPT ![u] = "none"] /\ gone' = gone \ {u} /\ u \in gone
      /\ toSrv[u] = <<>> /\ srv.up
      /\ UNCHANGED <<room, asked, inbox, link, toSrv, toUi, ui, n, events, owed>>
      /\ DOMAIN srv' = DOMAIN srv /\ srv'.up = srv.up /\ srv'.history = srv.history
      /\ srv'.last_disconnect \in 0..n
    BY ServerEofIs
<1>2. EndsOK /\ conn \in [Uis -> {"none", "backlog", "accepted", "ready"}]
    BY DEF IInv, EndsOK
<1>3. /\ conn' \in [Uis -> {"none", "backlog", "accepted", "ready"}]
      /\ conn'[u] = "none" /\ \A w \in Uis : w # u => conn'[w] = conn[w]
    BY <1>1, <1>2
<1>4. NetOK' /\ SrvOK' /\ UisOK' /\ OutOK'
    BY <1>1 DEF IInv, NetOK, SrvOK, UisOK, OutOK
<1>5. EndsOK' /\ DownOK'
    BY <1>1, <1>2, <1>3 DEF EndsOK, DownOK
<1>6. ASSUME NEW w \in Uis
      PROVE InFine(toSrv'[w], conn'[w]) /\ SockFine(w, ui'[w], toUi'[w], conn'[w], gone')
    <2>1. /\ InFine(toSrv[w], conn[w]) /\ SockFine(w, ui[w], toUi[w], conn[w], gone)
          /\ IsList(toUi[w])
        BY DEF IInv, InOK, SockOK, OutOK, OutFine
    <2>2. CASE w # u
        BY <1>1, <1>3, <2>1, <2>2 DEF SockFine
    <2>3. CASE w = u
        <3>1. toUi[u] = <<>>
            BY <1>1, <2>1, <2>3 DEF SockFine
        <3>2. InFine(toSrv[u], "none")
            BY <1>1, EmptyList DEF InFine
        <3>3. SockFine(u, ui[u], toUi[u], "none", gone')
            BY <1>1, <2>1, <2>3, <3>1, EmptyList DEF SockFine
        <3>q. QED
            BY <1>1, <1>3, <2>3, <3>2, <3>3
    <2>q. QED
        BY <2>2, <2>3
<1>q. QED
    BY <1>4, <1>5, <1>6 DEF IInv, InOK, SockOK

\* main_recv up to its loop.
Attached(v) == [v EXCEPT !.up = TRUE, !.sock = TRUE]
LEMMA ConnectsIs ==
    ASSUME IInv, NEW u \in Uis, NEW v, UiFine(v, n), Connects(u, v),
           NEW w, w = Attached(v)
    PROVE  /\ conn[u] = "none" /\ conn' = [conn EXCEPT ![u] = "backlog"]
           /\ ui' = [ui EXCEPT ![u] = w] /\ UiFine(w, n) /\ w.up /\ w.sock /\ w.last = v.last
           /\ toUi' = [toUi EXCEPT ![u] = <<>>] /\ DOMAIN toSrv' = Uis
           /\ InFine(toSrv'[u], "backlog") /\ \A x \in Uis : x # u => toSrv'[x] = toSrv[x]
           /\ UNCHANGED <<room, asked, inbox, link, gone, n, events, owed>>
           /\ DOMAIN srv' = DOMAIN srv /\ srv'.up = TRUE /\ srv'.history = srv.history
           /\ srv'.last_disconnect \in 0..n /\ (srv.up => srv' = srv)
<1>1. /\ DOMAIN srv = {"up", "track", "history", "last_disconnect"} /\ srv.up \in BOOLEAN
      /\ srv.last_disconnect \in 0..n /\ n \in Nat /\ DOMAIN toSrv = Uis
      /\ ~srv.up => srv.history = <<>>
    BY DEF IInv, SrvOK, NetOK, EndsOK, DownOK
<1>2. PICK p : p = <<[type |-> "C", line |-> Status]>>
    OBVIOUS
<1>3. PICK e : e = [type |-> "C", line |-> Status]
    OBVIOUS
<1>4. p = <<e>> /\ e.type = "C"
    BY <1>2, <1>3
<1>5. IsList(p) /\ DOMAIN p = {1} /\ p[1] = e
    BY <1>4, OneIsList
<1>6. InFine(p, "backlog")
    <2>1. p # <<>>
        BY <1>5, EmptyList
    <2>q. QED
        BY <1>4, <1>5, <2>1 DEF InFine
<1>7. /\ conn[u] = "none" /\ conn' = [conn EXCEPT ![u] = "backlog"]
      /\ ui' = [ui EXCEPT ![u] = w] /\ toUi' = [toUi EXCEPT ![u] = <<>>]
      /\ UNCHANGED <<room, asked, inbox, link, gone, n, events, owed>>
      /\ toSrv' = [toSrv EXCEPT ![u] = p]
      /\ srv' = IF srv.up THEN srv ELSE [NoServer EXCEPT !.up = TRUE]
    BY <1>2 DEF Connects, Put, net, Attached
<1>8. UiFine(w, n) /\ w.up /\ w.sock /\ w.last = v.last
    BY DEF UiFine, Attached
<1>9. toSrv'[u] = p /\ DOMAIN toSrv' = Uis /\ \A x \in Uis : x # u => toSrv'[x] = toSrv[x]
    BY <1>1, <1>7
<1>10. /\ DOMAIN srv' = DOMAIN srv /\ srv'.up = TRUE /\ srv'.history = srv.history
       /\ srv'.last_disconnect \in 0..n
    <2>1. CASE srv.up
        BY <1>1, <1>7, <2>1
    <2>2. CASE ~srv.up
        <3>1. srv' = [NoServer EXCEPT !.up = TRUE]
            BY <1>7, <2>2
        <3>2. /\ DOMAIN NoServer = {"up", "track", "history", "last_disconnect"}
              /\ NoServer.history = <<>> /\ NoServer.last_disconnect = 0
            BY DEF NoServer
        <3>3. /\ DOMAIN srv' = DOMAIN NoServer /\ srv'.up = TRUE
              /\ srv'.history = NoServer.history
              /\ srv'.last_disconnect = NoServer.last_disconnect
            BY <3>1, <3>2
        <3>q. QED
            BY <1>1, <2>2, <3>2, <3>3
    <2>q. QED
        BY <2>1, <2>2
<1>q. QED
    BY <1>6, <1>7, <1>8, <1>9, <1>10

\* What the interface that connects knew of the server before.
LEMMA ConnectsFrom ==
    ASSUME IInv, NEW u \in Uis, UiStarts(u) \/ UiConnects(u)
    PROVE  Connects(u, ui[u]) /\ UiFine(ui[u], n) /\ toUi[u] = <<>> /\ u \notin gone
<1>1. Connects(u, ui[u]) /\ (~ui[u].up \/ ~ui[u].sock)
    BY DEF UiStarts, UiConnects
<1>2. UiFine(ui[u], n) /\ SockFine(u, ui[u], toUi[u], conn[u], gone)
    BY DEF IInv, UisOK, SockOK
<1>3. conn[u] = "none"
    BY <1>1 DEF Connects
<1>4. toUi[u] = <<>> /\ u \notin gone
    BY <1>1, <1>2, <1>3 DEF SockFine
<1>q. QED
    BY <1>1, <1>2, <1>4

LEMMA ConnectsKeeps ==
    ASSUME IInv, NEW u \in Uis, UiStarts(u) \/ UiConnects(u) PROVE IInv'
<1>1. PICK v, w : v = ui[u] /\ w = Attached(v)
    OBVIOUS
<1>2. Connects(u, v) /\ UiFine(v, n) /\ toUi[u] = <<>> /\ u \notin gone
    BY <1>1, ConnectsFrom
<1>3. /\ conn' = [conn EXCEPT ![u] = "backlog"]
      /\ ui' = [ui EXCEPT ![u] = w] /\ UiFine(w, n) /\ w.up /\ w.sock
      /\ toUi' = [toUi EXCEPT ![u] = <<>>] /\ DOMAIN toSrv' = Uis
      /\ InFine(toSrv'[u], "backlog") /\ (\A x \in Uis : x # u => toSrv'[x] = toSrv[x])
      /\ UNCHANGED <<room, asked, inbox, link, gone, n, events, owed>>
      /\ DOMAIN srv' = DOMAIN srv /\ srv'.up = TRUE /\ srv'.history = srv.history
      /\ srv'.last_disconnect \in 0..n
    <2>1. Connects(u, v) /\ UiFine(v, n)
        BY <1>2
    <2>2. w = Attached(v)
        BY <1>1
    <2>q. QED
        BY <2>1, <2>2, ConnectsIs
<1>4. /\ EndsOK /\ conn \in [Uis -> {"none", "backlog", "accepted", "ready"}]
      /\ DOMAIN ui = Uis /\ DOMAIN toUi = Uis /\ gone \subseteq Uis
    BY DEF IInv, EndsOK
<1>5. /\ conn' \in [Uis -> {"none", "backlog", "accepted", "ready"}]
      /\ conn'[u] = "backlog" /\ \A x \in Uis : x # u => conn'[x] = conn[x]
    BY <1>3, <1>4
<1>6. /\ DOMAIN ui' = Uis /\ ui'[u] = w /\ (\A x \in Uis : x # u => ui'[x] = ui[x])
      /\ DOMAIN toUi' = Uis /\ toUi'[u] = <<>> /\ \A x \in Uis : x # u => toUi'[x] = toUi[x]
    BY <1>3, <1>4
<1>7. NetOK' /\ SrvOK' /\ DownOK'
    BY <1>3 DEF IInv, NetOK, SrvOK, DownOK
<1>8. EndsOK'
    BY <1>3, <1>4, <1>5, <1>6 DEF EndsOK
<1>9. ASSUME NEW x \in Uis
      PROVE  /\ UiFine(ui'[x], n') /\ OutFine(toUi'[x], n') /\ InFine(toSrv'[x], conn'[x])
             /\ SockFine(x, ui'[x], toUi'[x], conn'[x], gone')
    <2>1. CASE x # u
        BY <1>3, <1>5, <1>6, <2>1 DEF IInv, UisOK, OutOK, InOK, SockOK
    <2>2. CASE x = u
        <3>1. OutFine(<<>>, n)
            BY EmptyList DEF OutFine
        <3>2. SockFine(u, w, <<>>, "backlog", gone)
            BY <1>2, <1>3, EmptyList DEF SockFine
        <3>q. QED
            BY <1>3, <1>5, <1>6, <2>2, <3>1, <3>2
    <2>q. QED
        BY <2>1, <2>2
<1>q. QED
    BY <1>7, <1>8, <1>9 DEF IInv, UisOK, OutOK, InOK, SockOK

\* An interface that reads.
LEMMA UiReadsIs ==
    ASSUME IInv, NEW u \in Uis, UiReads(u)
    PROVE  \E m, w :
        /\ m = Head(toUi[u]) /\ m = toUi[u][1] /\ 1 \in DOMAIN toUi[u] /\ toUi[u] # <<>>
        /\ m.at \in 0..n /\ m.type \in {">", "<", "c", "S", "end"}
        /\ w = UiLine(ui[u], m) /\ UiFine(w, n) /\ w.up = ui[u].up /\ ui[u].up
        /\ (m.type = "end" => ~w.sock) /\ (m.type # "end" => w.sock = ui[u].sock)
        /\ (ToShow(m) => w.last = m.at) /\ (~ToShow(m) => w.last = ui[u].last)
        /\ ui' = [ui EXCEPT ![u] = w] /\ owed' = owed \ {m.at}
        /\ Shorter(toUi[u], toUi'[u]) /\ DOMAIN toUi' = Uis
        /\ \A x \in Uis : x # u => toUi'[x] = toUi[x]
        /\ UNCHANGED <<room, asked, inbox, link, srv, conn, gone, toSrv, n, events>>
<1>1. /\ n \in Nat /\ OutFine(toUi[u], n) /\ UiFine(ui[u], n) /\ DOMAIN toUi = Uis
      /\ IsList(toUi[u])
    BY DEF IInv, NetOK, OutOK, UisOK, EndsOK, OutFine
<1>2. PICK m, w : m = Head(toUi[u]) /\ w = UiLine(ui[u], m)
    OBVIOUS
<1>3. /\ toUi[u] # <<>> /\ ui[u].up /\ ui' = [ui EXCEPT ![u] = w] /\ owed' = owed \ {m.at}
      /\ toUi' = [toUi EXCEPT ![u] = Tail(@)]
      /\ UNCHANGED <<room, asked, inbox, link, srv, conn, gone, toSrv, n, events>>
    BY <1>2 DEF UiReads, Put, net
<1>4. m = toUi[u][1] /\ 1 \in DOMAIN toUi[u]
    BY <1>1, <1>2, <1>3, ListPlaces
<1>5. m.at \in 0..n /\ m.type \in {">", "<", "c", "S", "end"}
    BY <1>1, <1>4 DEF OutFine
<1>6. /\ UiFine(w, n) /\ w.up = ui[u].up
      /\ (m.type = "end" => ~w.sock) /\ (m.type # "end" => w.sock = ui[u].sock)
      /\ (ToShow(m) => w.last = m.at) /\ (~ToShow(m) => w.last = ui[u].last)
    <2>1. w = UiLine(ui[u], m) /\ UiFine(ui[u], n)
        BY <1>1, <1>2
    <2>2. n \in Nat
        BY <1>1
    <2>q. QED
        BY <1>5, <2>1, <2>2, UiLineIs
<1>7. toUi'[u] = Tail(toUi[u]) /\ DOMAIN toUi' = Uis /\ \A x \in Uis : x # u => toUi'[x] = toUi[x]
    BY <1>1, <1>3
<1>8. Shorter(toUi[u], toUi'[u])
    BY <1>1, <1>3, <1>7, TailShorter
<1>q. QED
    BY <1>2, <1>3, <1>4, <1>5, <1>6, <1>7, <1>8

LEMMA UiReadsKeeps == ASSUME IInv, NEW u \in Uis, UiReads(u) PROVE IInv'
<1>1. PICK m, w :
        /\ m = toUi[u][1] /\ 1 \in DOMAIN toUi[u] /\ toUi[u] # <<>>
        /\ UiFine(w, n) /\ w.up = ui[u].up /\ ui[u].up
        /\ (m.type = "end" => ~w.sock) /\ (m.type # "end" => w.sock = ui[u].sock)
        /\ ui' = [ui EXCEPT ![u] = w] /\ owed' = owed \ {m.at}
        /\ Shorter(toUi[u], toUi'[u]) /\ DOMAIN toUi' = Uis
        /\ \A x \in Uis : x # u => toUi'[x] = toUi[x]
        /\ UNCHANGED <<room, asked, inbox, link, srv, conn, gone, toSrv, n, events>>
    BY UiReadsIs
<1>2. EndsOK /\ DOMAIN ui = Uis /\ n \in Nat
    BY DEF IInv, EndsOK, NetOK
<1>3. DOMAIN ui' = Uis /\ ui'[u] = w /\ \A x \in Uis : x # u => ui'[x] = ui[x]
    BY <1>1, <1>2
<1>4. NetOK' /\ SrvOK' /\ DownOK' /\ InOK'
    BY <1>1 DEF IInv, NetOK, SrvOK, DownOK, InOK
<1>5. EndsOK'
    BY <1>1, <1>2, <1>3 DEF EndsOK
<1>6. ASSUME NEW x \in Uis
      PROVE  /\ UiFine(ui'[x], n') /\ OutFine(toUi'[x], n')
             /\ SockFine(x, ui'[x], toUi'[x], conn'[x], gone')
    <2>1. CASE x # u
        BY <1>1, <1>3, <2>1 DEF IInv, UisOK, OutOK, SockOK
    <2>2. CASE x = u
        <3>1. /\ OutFine(toUi[u], n) /\ SockFine(u, ui[u], toUi[u], conn[u], gone)
              /\ IsList(toUi[u]) /\ UiFine(ui[u], n)
            BY DEF IInv, OutOK, SockOK, OutFine, UisOK
        <3>2. PICK q : q = toUi'[u]
            OBVIOUS
        <3>3. Shorter(toUi[u], q)
            BY <1>1, <3>2
        <3>4. OutFine(q, n)
            BY <1>1, <1>2, <3>1, <3>3, OutReads
        <3>5. /\ Len(toUi[u]) \in Nat /\ Len(q) = Len(toUi[u]) - 1 /\ IsList(q)
              /\ \A i \in DOMAIN q : i \in Nat /\ i + 1 \in DOMAIN toUi[u] /\ q[i] = toUi[u][i + 1]
            BY <1>1, <3>1, <3>3, ShorterPlaces
        <3>6. \A i \in DOMAIN q : q[i].type = "end" => i = Len(q) /\ conn[u] = "none"
            BY <3>1, <3>5 DEF SockFine
        <3>7. SockFine(u, w, q, conn[u], gone)
            <4>1. CASE m.type = "end"
                <5>1. conn[u] = "none" /\ Len(toUi[u]) = 1
                    BY <1>1, <3>1, <4>1 DEF SockFine
                <5>2. Len(q) = 0
                    BY <3>5, <5>1
                <5>3. q = <<>>
                    BY <3>5, <5>2, ListPlaces
                <5>q. QED
                    BY <1>1, <3>1, <3>6, <4>1, <5>1, <5>3 DEF SockFine
            <4>2. CASE m.type # "end"
                <5>1. w.sock = ui[u].sock /\ ui[u].sock
                    BY <1>1, <3>1, <4>2 DEF SockFine, UiFine
                <5>q. QED
                    BY <1>1, <3>1, <3>6, <5>1 DEF SockFine
            <4>q. QED
                BY <4>1, <4>2
        <3>q. QED
            BY <1>1, <1>3, <2>2, <3>2, <3>4, <3>7
    <2>q. QED
        BY <2>1, <2>2
<1>q. QED
    BY <1>4, <1>5, <1>6 DEF IInv, UisOK, OutOK, SockOK

\* An interface that closes its socket: it is v from then on.
LEMMA ClosesIs ==
    ASSUME IInv, NEW u \in Uis, UiExits(u) \/ UiPingTimeout(u) \/ UiRestartsServer(u)
    PROVE  \E v :
        /\ UiFine(v, n) /\ ~v.sock /\ v.last <= ui[u].last
        /\ ui' = [ui EXCEPT ![u] = v] /\ toUi' = [toUi EXCEPT ![u] = <<>>]
        /\ owed' = owed \ {toUi[u][i].at : i \in DOMAIN toUi[u]}
        /\ gone' = IF conn[u] # "none" THEN gone \union {u} ELSE gone
        /\ \/ toSrv' = toSrv
           \/ /\ conn[u] # "none"
              /\ toSrv' = [toSrv EXCEPT ![u] = Append(@, [type |-> "X", line |-> Status])]
        /\ UNCHANGED <<room, asked, inbox, link, srv, conn, n>>
<1>1. UiFine(ui[u], n) /\ n \in Nat
    BY DEF IInv, UisOK, NetOK
<1>2. /\ DOMAIN ui[u] = {"up", "sock", "track", "last"} /\ ui[u].up \in BOOLEAN
      /\ ui[u].last \in 0..n
    BY <1>1 DEF UiFine
<1>3. CASE UiExits(u)
    <2>1. PICK v : v = [ui[u] EXCEPT !.up = FALSE, !.sock = FALSE,
                                     !.track = FreshTracker, !.last = 0]
        OBVIOUS
    <2>2. Closes(u, v)
        BY <1>3, <2>1 DEF UiExits
    <2>3. DOMAIN v = DOMAIN ui[u] /\ v.up = FALSE /\ v.sock = FALSE /\ v.last = 0
        BY <1>2, <2>1
    <2>4. UiFine(v, n) /\ ~v.sock /\ v.last <= ui[u].last
        <3>1. DOMAIN v = {"up", "sock", "track", "last"}
            BY <1>2, <2>3
        <3>2. v.last \in 0..n /\ v.last <= ui[u].last
            BY <1>1, <1>2, <2>3
        <3>3. v.up \in BOOLEAN /\ v.sock \in BOOLEAN /\ ~v.sock
            BY <1>2, <2>3
        <3>q. QED
            BY <3>1, <3>2, <3>3 DEF UiFine
    <2>5. /\ toSrv' = toSrv /\ gone' = IF conn[u] # "none" THEN gone \union {u} ELSE gone
          /\ UNCHANGED <<room, asked, inbox, link, srv, conn, n>>
        BY <1>3 DEF UiExits, net
    <2>q. QED
        BY <2>2, <2>4, <2>5 DEF Closes, Put
<1>4. CASE UiPingTimeout(u)
    <2>1. PICK v : v = [ui[u] EXCEPT !.sock = FALSE,
                            !.track.merged = @
                                             \/ \E c \in Chans : ui[u].track.chans[c].members # <<>>]
        OBVIOUS
    <2>2. Closes(u, v)
        BY <1>4, <2>1 DEF UiPingTimeout
    <2>3. DOMAIN v = DOMAIN ui[u] /\ v.up = ui[u].up /\ v.sock = FALSE /\ v.last = ui[u].last
        BY <1>2, <2>1
    <2>4. UiFine(v, n) /\ ~v.sock /\ v.last <= ui[u].last
        <3>1. DOMAIN v = {"up", "sock", "track", "last"}
            BY <1>2, <2>3
        <3>2. v.last \in 0..n /\ v.last <= ui[u].last
            BY <1>1, <1>2, <2>3
        <3>3. v.up \in BOOLEAN /\ v.sock \in BOOLEAN /\ ~v.sock
            BY <1>2, <2>3
        <3>q. QED
            BY <3>1, <3>2, <3>3 DEF UiFine
    <2>5. /\ toSrv' = toSrv /\ gone' = IF conn[u] # "none" THEN gone \union {u} ELSE gone
          /\ UNCHANGED <<room, asked, inbox, link, srv, conn, n>>
        BY <1>4 DEF UiPingTimeout, net
    <2>q. QED
        BY <2>2, <2>4, <2>5 DEF Closes, Put
<1>5. CASE UiRestartsServer(u)
    <2>1. PICK v : v = [ui[u] EXCEPT !.track = Disconnected(@), !.sock = FALSE]
        OBVIOUS
    <2>2. Closes(u, v)
        BY <1>5, <2>1 DEF UiRestartsServer
    <2>3. DOMAIN v = DOMAIN ui[u] /\ v.up = ui[u].up /\ v.sock = FALSE /\ v.last = ui[u].last
        BY <1>2, <2>1
    <2>4. UiFine(v, n) /\ ~v.sock /\ v.last <= ui[u].last
        <3>1. DOMAIN v = {"up", "sock", "track", "last"}
            BY <1>2, <2>3
        <3>2. v.last \in 0..n /\ v.last <= ui[u].last
            BY <1>1, <1>2, <2>3
        <3>3. v.up \in BOOLEAN /\ v.sock \in BOOLEAN /\ ~v.sock
            BY <1>2, <2>3
        <3>q. QED
            BY <3>1, <3>2, <3>3 DEF UiFine
    <2>5. /\ toSrv' = [toSrv EXCEPT ![u] = Append(@, [type |-> "X", line |-> Status])]
          /\ gone' = (IF conn[u] # "none" THEN gone \union {u} ELSE gone) /\ conn[u] # "none"
          /\ UNCHANGED <<room, asked, inbox, link, srv, conn, n>>
        BY <1>5 DEF UiRestartsServer, net
    <2>q. QED
        BY <2>2, <2>4, <2>5 DEF Closes, Put
<1>q. QED
    BY <1>3, <1>4, <1>5

LEMMA ClosesKeeps ==
    ASSUME IInv, NEW u \in Uis, UiExits(u) \/ UiPingTimeout(u) \/ UiRestartsServer(u)
    PROVE  IInv'
<1>1. PICK v :
        /\ UiFine(v, n) /\ ~v.sock
        /\ ui' = [ui EXCEPT ![u] = v] /\ toUi' = [toUi EXCEPT ![u] = <<>>]
        /\ owed' = owed \ {toUi[u][i].at : i \in DOMAIN toUi[u]}
        /\ gone' = IF conn[u] # "none" THEN gone \union {u} ELSE gone
        /\ \/ toSrv' = toSrv
           \/ /\ conn[u] # "none"
              /\ toSrv' = [toSrv EXCEPT ![u] = Append(@, [type |-> "X", line |-> Status])]
        /\ UNCHANGED <<room, asked, inbox, link, srv, conn, n>>
    BY ClosesIs
<1>2. EndsOK /\ DOMAIN ui = Uis /\ DOMAIN toUi = Uis /\ DOMAIN toSrv = Uis /\ gone \subseteq Uis
    BY DEF IInv, EndsOK
<1>3. NetOK' /\ SrvOK' /\ DownOK'
    BY <1>1 DEF IInv, NetOK, SrvOK, DownOK
<1>4. EndsOK'
    BY <1>1, <1>2 DEF EndsOK
<1>5. /\ ui'[u] = v /\ (\A x \in Uis : x # u => ui'[x] = ui[x])
      /\ toUi'[u] = <<>> /\ \A x \in Uis : x # u => toUi'[x] = toUi[x]
    BY <1>1, <1>2
<1>6. ASSUME NEW x \in Uis PROVE InFine(toSrv'[x], conn'[x])
    <2>1. InFine(toSrv[x], conn[x]) /\ conn' = conn
        BY <1>1 DEF IInv, InOK
    <2>2. CASE toSrv' = toSrv
        BY <2>1, <2>2
    <2>3. CASE /\ conn[u] # "none"
               /\ toSrv' = [toSrv EXCEPT ![u] = Append(@, [type |-> "X", line |-> Status])]
        <3>1. PICK e : e = [type |-> "X", line |-> Status]
            OBVIOUS
        <3>2. e.type = "X"
            BY <3>1
        <3>3. CASE x = u
            <4>1. toSrv'[u] = Append(toSrv[u], e)
                BY <1>2, <2>3, <3>1
            <4>2. Longer(toSrv[u], toSrv'[u], e)
                BY <2>1, <3>3, <4>1, AppendLonger DEF InFine
            <4>q. QED
                BY <2>1, <2>3, <3>2, <3>3, <4>2, InGrows
        <3>4. CASE x # u
            BY <1>2, <2>1, <2>3, <3>4
        <3>q. QED
            BY <3>3, <3>4
    <2>q. QED
        BY <1>1, <2>2, <2>3
<1>7. ASSUME NEW x \in Uis
      PROVE  /\ UiFine(ui'[x], n') /\ OutFine(toUi'[x], n')
             /\ SockFine(x, ui'[x], toUi'[x], conn'[x], gone')
    <2>1. UiFine(ui[x], n) /\ OutFine(toUi[x], n) /\ SockFine(x, ui[x], toUi[x], conn[x], gone)
        BY DEF IInv, UisOK, OutOK, SockOK
    <2>2. CASE x # u
        BY <1>1, <1>5, <2>1, <2>2 DEF SockFine
    <2>3. CASE x = u
        <3>1. OutFine(<<>>, n)
            BY EmptyList DEF OutFine
        <3>2. SockFine(u, v, <<>>, conn[u], gone')
            BY <1>1, <2>1, <2>3, EmptyList DEF SockFine
        <3>q. QED
            BY <1>1, <1>5, <2>3, <3>1, <3>2
    <2>q. QED
        BY <2>2, <2>3
<1>q. QED
    BY <1>3, <1>4, <1>6, <1>7 DEF IInv, UisOK, OutOK, InOK, SockOK

LEMMA UiSendsKeeps ==
    ASSUME IInv, NEW u \in Uis, NEW c \in Chans, UiSends(u, c)
    PROVE  IInv' /\ UNCHANGED <<srv, conn, gone, toUi, ui, n, owed>>
<1>1. PICK e : /\ e.type = "<" /\ e.line.chan = c
               /\ toSrv' = [toSrv EXCEPT ![u] = Append(@, e)]
               /\ conn[u] # "none"
               /\ UNCHANGED <<room, asked, inbox, link, srv, conn, gone, toUi, ui, n, owed>>
    <2>1. PICK cmd : /\ toSrv' = [toSrv EXCEPT ![u] = Append(@, [type |-> "<",
                            line |-> [cmd |-> cmd, who |-> ui[u].track.nick, chan |-> c]])]
                     /\ conn[u] # "none"
                     /\ UNCHANGED <<room, asked, inbox, link, srv, conn, gone, toUi, ui, n, owed>>
        BY DEF UiSends, net
    <2>2. PICK e : e = [type |-> "<", line |-> [cmd |-> cmd, who |-> ui[u].track.nick, chan |-> c]]
        OBVIOUS
    <2>3. e.type = "<" /\ e.line.chan = c
        BY <2>2
    <2>q. QED
        BY <2>1, <2>2, <2>3
<1>2. EndsOK /\ DOMAIN toSrv = Uis
    BY DEF IInv, EndsOK
<1>3. NetOK' /\ SrvOK' /\ DownOK' /\ UisOK' /\ OutOK' /\ SockOK'
    BY <1>1 DEF IInv, NetOK, SrvOK, DownOK, UisOK, OutOK, SockOK
<1>4. EndsOK'
    BY <1>1, <1>2 DEF EndsOK
<1>5. ASSUME NEW x \in Uis PROVE InFine(toSrv'[x], conn'[x])
    <2>1. InFine(toSrv[x], conn[x]) /\ conn' = conn
        BY <1>1 DEF IInv, InOK
    <2>2. CASE x = u
        <3>1. toSrv'[u] = Append(toSrv[u], e)
            BY <1>1, <1>2
        <3>2. Longer(toSrv[u], toSrv'[u], e)
            BY <2>1, <2>2, <3>1, AppendLonger DEF InFine
        <3>q. QED
            BY <1>1, <2>1, <2>2, <3>2, InGrows
    <2>3. CASE x # u
        BY <1>1, <1>2, <2>1, <2>3
    <2>q. QED
        BY <2>2, <2>3
<1>q. QED
    BY <1>1, <1>3, <1>4, <1>5 DEF IInv, InOK

LEMMA ServerReadsCases ==
    ASSUME NEW u \in Uis, ServerReads(u)
    PROVE  /\ u \in Clients /\ toSrv[u] # <<>> /\ ui' = ui
           /\ \/ /\ Head(toSrv[u]).type = "C" /\ Configure(u)
                 /\ toSrv' = [toSrv EXCEPT ![u] = Tail(@)]
              \/ /\ Head(toSrv[u]).type = "<" /\ Relay(u, Head(toSrv[u]).line)
                 /\ toSrv' = [toSrv EXCEPT ![u] = Tail(@)]
              \/ Exit /\ toSrv' = [v \in Uis |-> <<>>]
<1>1. PICK m : m = Head(toSrv[u])
    OBVIOUS
<1>2. /\ u \in Clients /\ toSrv[u] # <<>> /\ ui' = ui
      /\ \/ m.type = "C" /\ Configure(u)
         \/ m.type = "<" /\ Relay(u, m.line)
         \/ m.type = "X" /\ Exit
      /\ toSrv' = IF m.type = "X" THEN [v \in Uis |-> <<>>] ELSE [toSrv EXCEPT ![u] = Tail(@)]
    BY <1>1 DEF ServerReads
<1>q. QED
    BY <1>1, <1>2

LEMMA ServerReadsKeeps == ASSUME IInv, NEW u \in Uis, ServerReads(u) PROVE IInv'
<1>1. u \in Clients /\ toSrv[u] # <<>> /\ ui' = ui
    BY ServerReadsCases
<1>2. CASE /\ Head(toSrv[u]).type = "C" /\ Configure(u)
           /\ toSrv' = [toSrv EXCEPT ![u] = Tail(@)]
    BY <1>1, <1>2, ConfigureKeeps
<1>3. CASE /\ Head(toSrv[u]).type = "<" /\ Relay(u, Head(toSrv[u]).line)
           /\ toSrv' = [toSrv EXCEPT ![u] = Tail(@)]
    BY <1>1, <1>3, RelayKeeps
<1>4. CASE Exit /\ toSrv' = [v \in Uis |-> <<>>]
    BY <1>1, <1>4, ExitKeeps
<1>q. QED
    BY <1>2, <1>3, <1>4, ServerReadsCases

LEMMA StutterKeeps == ASSUME IInv, UNCHANGED vars PROVE IInv'
<1>1. UNCHANGED <<room, asked, inbox, link, srv, conn, gone, toSrv, toUi, ui, n, owed>>
    BY DEF vars, net, sockets
<1>q. QED
    BY <1>1 DEF IInv, NetOK, SrvOK, EndsOK, DownOK, UisOK, OutOK, InOK, SockOK

LEMMA StepInv == ASSUME IInv, [Next]_vars PROVE IInv'
<1>1. CASE \/ Welcome
           \/ \E c \in Chans :
                \/ LetIn(c) \/ Kicks(c)
                \/ \E who \in Others :
                    \/ OtherJoins(c, who) \/ OtherQuits(c, who) \/ OtherTalks(c, who)
                    \/ \E new \in Others : OtherRenames(c, who, new)
    BY <1>1, NetworkKeeps
<1>2. CASE PilotConnects \/ PilotBreaks
    BY <1>2, PilotKeeps
<1>3. CASE IrcLine
    BY <1>3, IrcLineKeeps
<1>4. ASSUME NEW u \in Uis, Accept(u) PROVE IInv'
    BY <1>4, AcceptKeeps
<1>5. ASSUME NEW u \in Uis, ServerReads(u) PROVE IInv'
    BY <1>5, ServerReadsKeeps
<1>6. ASSUME NEW u \in Uis, ServerEof(u) PROVE IInv'
    BY <1>6, ServerEofKeeps
<1>7. ASSUME NEW u \in Uis, UiStarts(u) \/ UiConnects(u) PROVE IInv'
    BY <1>7, ConnectsKeeps
<1>8. ASSUME NEW u \in Uis, UiReads(u) PROVE IInv'
    BY <1>8, UiReadsKeeps
<1>9. ASSUME NEW u \in Uis, UiExits(u) \/ UiPingTimeout(u) \/ UiRestartsServer(u) PROVE IInv'
    BY <1>9, ClosesKeeps
<1>10. ASSUME NEW u \in Uis, NEW c \in Chans, UiSends(u, c) PROVE IInv'
    BY <1>10, UiSendsKeeps
<1>11. CASE UNCHANGED vars
    BY <1>11, StutterKeeps
<1>q. QED
    BY <1>1, <1>2, <1>3, <1>4, <1>5, <1>6, <1>7, <1>8, <1>9, <1>10, <1>11 DEF Next

LEMMA Always == Spec => []IInv
<1>1. IInv /\ [Next]_vars => IInv'
    BY StepInv
<1>q. QED
    BY InitInv, <1>1, PTL DEF Spec

(***************************************************************************)
(* No line is lost.                                                        *)
(***************************************************************************)
Waits(m) == m > srv.last_disconnect /\ \E i \in DOMAIN srv.history : srv.history[i].at = m

\* While an interface is attached, what no interface has shown is on its way to one.
Served == (\E u \in Uis : conn[u] = "ready") => owed \subseteq InFlight

OwedInv == (\A m \in owed : m \in InFlight \/ Waits(m)) /\ Served

LEMMA InFlightIs ==
    ASSUME NEW m
    PROVE  /\ m \in InFlight <=> \E u \in Uis : \E i \in DOMAIN toUi[u] : toUi[u][i].at = m
           /\ m \in InFlight' <=> \E u \in Uis : \E i \in DOMAIN toUi'[u] : toUi'[u][i].at = m
<1>1. m \in InFlight <=> \E u \in Uis : \E i \in DOMAIN toUi[u] : toUi[u][i].at = m
    BY DEF InFlight
<1>2. m \in InFlight' <=> \E u \in Uis : \E i \in DOMAIN toUi'[u] : toUi'[u][i].at = m
    BY DEF InFlight
<1>q. QED
    BY <1>1, <1>2

\* What is in the sockets stays there.
LEMMA InFlightStays ==
    ASSUME \A u \in Uis : \A i \in DOMAIN toUi[u] :
                i \in DOMAIN toUi'[u] /\ toUi'[u][i] = toUi[u][i]
    PROVE  InFlight \subseteq InFlight'
BY InFlightIs

\* Steps that leave the server alone.
LEMMA OwedQuiet ==
    ASSUME OwedInv, srv' = srv, conn' = conn, owed' \subseteq owed,
           \A m \in owed' : m \in InFlight => m \in InFlight'
    PROVE  OwedInv'
BY DEF OwedInv, Served, Waits

LEMMA SendLineOwed ==
    ASSUME IInv, OwedInv, NEW type \in {">", "<", "c"}, NEW l, NEW except,
           SendLine(type, l, except), type = ">" => except = Nobody
    PROVE  OwedInv'
<1> PICK e, h : e = Stamp(type, l) /\ h = Recorded(e)
    OBVIOUS
<1>1. e.at = n + 1 /\ e.type = type
    BY StampIs
<1>2. /\ n' = n + 1 /\ n \in Nat /\ conn' = conn
      /\ srv'.last_disconnect = srv.last_disconnect
      /\ Longer(srv.history, srv'.history, h)
      /\ \A u \in Clients \ {except} : Longer(toUi[u], toUi'[u], e)
      /\ \A u \in Uis : u \notin Clients \ {except} => toUi'[u] = toUi[u]
      /\ owed' = IF type = ">" THEN owed \union {n'} ELSE owed
    BY SendLineIs
<1>3. IsList(srv.history) /\ (\A u \in Uis : IsList(toUi[u])) /\ srv.last_disconnect \in 0..n
    BY DEF IInv, SrvOK, HistoryFine, Stamped, OutOK, OutFine
<1>4. /\ \A i \in DOMAIN srv.history : i \in DOMAIN srv'.history /\ srv'.history[i] = srv.history[i]
      /\ type = ">" => \E i \in DOMAIN srv'.history : srv'.history[i] = e
    BY <1>2, <1>3, LongerPlaces, RecordedIs
<1>5. ASSUME NEW u \in Uis, NEW i \in DOMAIN toUi[u]
      PROVE  i \in DOMAIN toUi'[u] /\ toUi'[u][i] = toUi[u][i]
    <2>1. CASE u \in Clients \ {except}
        <3>1. Longer(toUi[u], toUi'[u], e) /\ IsList(toUi[u])
            BY <1>2, <1>3, <2>1
        <3>q. QED
            BY <3>1, LongerPlaces
    <2>2. CASE u \notin Clients \ {except}
        BY <1>2, <2>2
    <2>q. QED
        BY <2>1, <2>2
<1>6. InFlight \subseteq InFlight'
    BY <1>5, InFlightStays
<1>7. ASSUME NEW m \in owed' PROVE m \in InFlight' \/ Waits(m)'
    <2>1. CASE m \in owed
        BY <1>2, <1>4, <1>6, <2>1 DEF OwedInv, Waits
    <2>2. CASE m = n + 1 /\ type = ">"
        <3>1. m > srv'.last_disconnect
            BY <1>2, <1>3, <2>2
        <3>q. QED
            BY <1>1, <1>4, <2>2, <3>1 DEF Waits
    <2>q. QED
        BY <1>2, <2>1, <2>2
<1>8. ASSUME NEW u \in Uis, conn'[u] = "ready", NEW m \in owed' PROVE m \in InFlight'
    <2>1. conn[u] = "ready"
        BY <1>2, <1>8
    <2>2. CASE m \in owed
        BY <1>6, <2>1, <2>2 DEF OwedInv, Served
    <2>3. CASE m = n + 1 /\ type = ">"
        <3>1. u # except
            BY <2>3, UisAssumption
        <3>2. u \in Clients \ {except}
            BY <2>1, <3>1 DEF Clients
        <3>3. Longer(toUi[u], toUi'[u], e) /\ IsList(toUi[u])
            BY <1>2, <1>3, <3>2
        <3>4. \E i \in DOMAIN toUi'[u] : toUi'[u][i] = e
            BY <3>3, LongerPlaces
        <3>q. QED
            BY <1>1, <2>3, <3>4, InFlightIs
    <2>q. QED
        BY <1>2, <2>2, <2>3
<1>q. QED
    BY <1>7, <1>8 DEF OwedInv, Served

LEMMA AcceptOwed == ASSUME IInv, OwedInv, NEW u \in Uis, Accept(u) PROVE OwedInv'
<1>1. /\ conn' = [conn EXCEPT ![u] = "accepted"] /\ srv' = srv /\ toUi' = toUi /\ owed' = owed
    BY DEF Accept
<1>2. conn \in [Uis -> {"none", "backlog", "accepted", "ready"}]
    BY DEF IInv, EndsOK
<1>3. InFlight' = InFlight
    BY <1>1 DEF InFlight
<1>4. \A w \in Uis : conn'[w] = "ready" => conn[w] = "ready"
    BY <1>1, <1>2
<1>q. QED
    BY <1>1, <1>3, <1>4 DEF OwedInv, Served, Waits

\* The state of the last detachment and every line after it: what no interface has shown
\* is among them, or an interface that is gone is not sent it and it stays.
LEMMA ConfigureOwed ==
    ASSUME "trim" \notin Races, IInv, OwedInv, NEW u \in Uis, Configure(u)
    PROVE  OwedInv'
<1>1. /\ srv'.last_disconnect = srv.last_disconnect
      /\ \A w \in Uis : w # u \/ u \in gone => toUi'[w] = toUi[w]
    BY ConfigureIs
<1>2. PICK week, kept, rest, sent :
        /\ Answers(week, kept, rest, sent) /\ srv'.history = kept
        /\ u \notin gone => Sent(toUi[u], toUi'[u], sent)
        /\ owed' = {m \in owed : m > week /\ (u \in gone => m <= srv.last_disconnect)}
    BY ConfigureIs
<1>3. /\ n \in Nat /\ HistoryFine(srv.history, n) /\ owed \subseteq 1..n
      /\ srv.last_disconnect \in 0..n
    BY DEF IInv, NetOK, SrvOK
<1>4. /\ week \in 0..n
      /\ \A i \in DOMAIN srv.history : week < srv.history[i].at =>
            \E j \in DOMAIN kept : kept[j] = srv.history[i]
      /\ \A i \in DOMAIN kept : \E j \in DOMAIN rest : rest[j] = kept[i]
      /\ \A i \in DOMAIN rest : srv.last_disconnect < rest[i].at =>
            \E j \in DOMAIN sent : sent[j] = rest[i]
    BY <1>2 DEF Answers
<1>5. ASSUME NEW w \in Uis, NEW i \in DOMAIN toUi[w]
      PROVE  i \in DOMAIN toUi'[w] /\ toUi'[w][i] = toUi[w][i]
    <2>1. CASE w # u \/ u \in gone
        BY <1>1, <2>1
    <2>2. CASE w = u /\ u \notin gone
        BY <1>2, <2>2 DEF Sent
    <2>q. QED
        BY <2>1, <2>2
<1>6. InFlight \subseteq InFlight'
    BY <1>5, InFlightStays
<1>7. ASSUME NEW m \in owed' PROVE m \in InFlight'
    <2>1. m \in owed /\ m > week /\ (u \in gone => m <= srv.last_disconnect) /\ m \in Nat
        <3>1. m \in {k \in owed : k > week /\ (u \in gone => k <= srv.last_disconnect)}
            BY <1>2
        <3>2. m \in owed /\ m > week /\ (u \in gone => m <= srv.last_disconnect)
            BY <3>1
        <3>q. QED
            BY <1>3, <3>2
    <2>2. CASE m \in InFlight
        BY <1>6, <2>2
    <2>3. CASE Waits(m)
        <3>1. m > srv.last_disconnect
            BY <2>3 DEF Waits
        <3>2. u \notin gone
            BY <1>3, <2>1, <3>1
        <3>3. PICK i \in DOMAIN srv.history : srv.history[i].at = m
            BY <2>3 DEF Waits
        <3>4. PICK j \in DOMAIN kept : kept[j].at = m
            BY <1>3, <1>4, <2>1, <3>3
        <3>5. PICK k \in DOMAIN rest : rest[k].at = m
            BY <1>4, <3>4
        <3>6. PICK x \in DOMAIN sent : sent[x].at = m
            BY <1>3, <1>4, <2>1, <3>1, <3>5
        <3>7. \E y \in DOMAIN toUi'[u] : toUi'[u][y] = sent[x]
            BY <1>2, <3>2 DEF Sent
        <3>q. QED
            BY <3>6, <3>7, InFlightIs
    <2>q. QED
        BY <2>1, <2>2, <2>3 DEF OwedInv
<1>q. QED
    BY <1>7 DEF OwedInv, Served

LEMMA ExitOwed == ASSUME IInv, OwedInv, Exit PROVE OwedInv'
<1>1. /\ owed' = owed \intersect InFlight
      /\ \A w \in Uis : ~(conn[w] # "none" /\ w \notin gone) => toUi'[w] = toUi[w]
    BY ExitIs
<1>2. PICK e : \A w \in Uis : conn[w] # "none" /\ w \notin gone => Longer(toUi[w], toUi'[w], e)
    BY ExitIs
<1>3. ASSUME NEW w \in Uis, NEW i \in DOMAIN toUi[w]
      PROVE  i \in DOMAIN toUi'[w] /\ toUi'[w][i] = toUi[w][i]
    <2>1. CASE conn[w] # "none" /\ w \notin gone
        <3>1. Longer(toUi[w], toUi'[w], e) /\ IsList(toUi[w])
            BY <1>2, <2>1 DEF IInv, OutOK, OutFine
        <3>q. QED
            BY <3>1, LongerPlaces
    <2>2. CASE ~(conn[w] # "none" /\ w \notin gone)
        BY <1>1, <2>2
    <2>q. QED
        BY <2>1, <2>2
<1>4. InFlight \subseteq InFlight'
    BY <1>3, InFlightStays
<1>q. QED
    BY <1>1, <1>4 DEF OwedInv, Served

\* The end of a connection: it was ready, and nothing waits.
LEMMA ServerEofOwed == ASSUME IInv, OwedInv, NEW u \in Uis, ServerEof(u) PROVE OwedInv'
<1>1. conn[u] = "ready" /\ toUi' = toUi /\ owed' = owed
    BY ServerEofIs
<1>2. InFlight' = InFlight
    BY <1>1 DEF InFlight
<1>3. owed' \subseteq InFlight'
    BY <1>1, <1>2 DEF OwedInv, Served
<1>q. QED
    BY <1>3 DEF OwedInv, Served

LEMMA ConnectsOwed ==
    ASSUME IInv, OwedInv, NEW u \in Uis, UiStarts(u) \/ UiConnects(u) PROVE OwedInv'
<1>1. PICK v, w : v = ui[u] /\ w = Attached(v)
    OBVIOUS
<1>2. Connects(u, v) /\ UiFine(v, n) /\ toUi[u] = <<>>
    BY <1>1, ConnectsFrom
<1>3. /\ conn' = [conn EXCEPT ![u] = "backlog"] /\ toUi' = [toUi EXCEPT ![u] = <<>>]
      /\ owed' = owed /\ srv'.history = srv.history /\ (srv.up => srv' = srv)
    <2>1. w = Attached(v)
        BY <1>1
    <2>q. QED
        BY <1>2, <2>1, ConnectsIs
<1>4. /\ conn \in [Uis -> {"none", "backlog", "accepted", "ready"}]
      /\ DOMAIN toUi = Uis /\ (~srv.up => srv.history = <<>>)
    BY DEF IInv, EndsOK, DownOK
<1>5. \A x \in Uis : toUi'[x] = toUi[x]
    BY <1>2, <1>3, <1>4
<1>6. InFlight \subseteq InFlight'
    BY <1>5, InFlightStays
<1>7. \A x \in Uis : conn'[x] = "ready" => conn[x] = "ready"
    BY <1>3, <1>4
<1>8. ASSUME NEW m \in owed, Waits(m) PROVE Waits(m)'
    <2>1. srv.up
        BY <1>4, <1>8, EmptyList DEF Waits
    <2>q. QED
        BY <1>3, <1>8, <2>1 DEF Waits
<1>q. QED
    BY <1>3, <1>6, <1>7, <1>8 DEF OwedInv, Served

LEMMA UiReadsOwed == ASSUME IInv, OwedInv, NEW u \in Uis, UiReads(u) PROVE OwedInv'
<1>1. PICK m :
        /\ m = toUi[u][1] /\ toUi[u] # <<>> /\ owed' = owed \ {m.at}
        /\ Shorter(toUi[u], toUi'[u])
        /\ \A x \in Uis : x # u => toUi'[x] = toUi[x]
        /\ srv' = srv /\ conn' = conn
    BY UiReadsIs
<1>2. IsList(toUi[u])
    BY DEF IInv, OutOK, OutFine
<1>3. \A i \in DOMAIN toUi[u] : i = 1 \/ (i - 1 \in DOMAIN toUi'[u] /\ toUi'[u][i - 1] = toUi[u][i])
    BY <1>1, <1>2, ShorterPlaces
<1>4. ASSUME NEW k \in owed', k \in InFlight PROVE k \in InFlight'
    <2>1. PICK w \in Uis : \E i \in DOMAIN toUi[w] : toUi[w][i].at = k
        BY <1>4, InFlightIs
    <2>2. \E i \in DOMAIN toUi'[w] : toUi'[w][i].at = k
        <3>1. CASE w = u
            BY <1>1, <1>3, <2>1, <3>1
        <3>2. CASE w # u
            BY <1>1, <2>1, <3>2
        <3>q. QED
            BY <3>1, <3>2
    <2>q. QED
        BY <2>2, InFlightIs
<1>q. QED
    BY <1>1, <1>4, OwedQuiet

LEMMA ClosesOwed ==
    ASSUME IInv, OwedInv, NEW u \in Uis, UiExits(u) \/ UiPingTimeout(u) \/ UiRestartsServer(u)
    PROVE  OwedInv'
<1>1. /\ toUi' = [toUi EXCEPT ![u] = <<>>] /\ srv' = srv /\ conn' = conn
      /\ owed' = owed \ {toUi[u][i].at : i \in DOMAIN toUi[u]}
    BY ClosesIs
<1>2. DOMAIN toUi = Uis
    BY DEF IInv, EndsOK
<1>3. ASSUME NEW k \in owed', k \in InFlight PROVE k \in InFlight'
    <2>1. PICK w \in Uis : \E i \in DOMAIN toUi[w] : toUi[w][i].at = k
        BY <1>3, InFlightIs
    <2>2. w # u
        BY <1>1, <2>1
    <2>3. toUi'[w] = toUi[w]
        BY <1>1, <1>2, <2>2
    <2>q. QED
        BY <2>1, <2>3, InFlightIs
<1>q. QED
    BY <1>1, <1>3, OwedQuiet

LEMMA StepOwed ==
    ASSUME "trim" \notin Races, IInv, OwedInv, [Next]_vars PROVE OwedInv'
<1>1. UNCHANGED <<srv, conn, toUi, owed>> => OwedInv'
    BY DEF OwedInv, Served, Waits, InFlight
<1>2. CASE \/ Welcome
           \/ \E c \in Chans :
                \/ LetIn(c) \/ Kicks(c)
                \/ \E who \in Others :
                    \/ OtherJoins(c, who) \/ OtherQuits(c, who) \/ OtherTalks(c, who)
                    \/ \E new \in Others : OtherRenames(c, who, new)
    BY <1>1, <1>2, NetworkKeeps
<1>3. CASE PilotConnects \/ PilotBreaks
    <2>1. SendLine("c", Status, Nobody)
        BY <1>3, PilotKeeps
    <2>q. QED
        BY <2>1, SendLineOwed
<1>4. CASE IrcLine
    <2>1. PICK l : SendLine(">", l, Nobody)
        BY <1>4, IrcLineKeeps
    <2>q. QED
        BY <2>1, SendLineOwed
<1>5. ASSUME NEW u \in Uis, Accept(u) PROVE OwedInv'
    BY <1>5, AcceptOwed
<1>6. ASSUME NEW u \in Uis, ServerReads(u) PROVE OwedInv'
    <2>1. u \in Clients /\ toSrv[u] # <<>> /\ ui' = ui
        BY <1>6, ServerReadsCases
    <2>2. CASE /\ Head(toSrv[u]).type = "C" /\ Configure(u)
               /\ toSrv' = [toSrv EXCEPT ![u] = Tail(@)]
        BY <2>2, ConfigureOwed
    <2>3. CASE /\ Head(toSrv[u]).type = "<" /\ Relay(u, Head(toSrv[u]).line)
               /\ toSrv' = [toSrv EXCEPT ![u] = Tail(@)]
        <3>1. PICK l : SendLine("<", l, u)
            BY <2>1, <2>3, RelayKeeps
        <3>q. QED
            BY <3>1, SendLineOwed
    <2>4. CASE Exit
        BY <2>4, ExitOwed
    <2>q. QED
        BY <1>6, <2>2, <2>3, <2>4, ServerReadsCases
<1>7. ASSUME NEW u \in Uis, ServerEof(u) PROVE OwedInv'
    BY <1>7, ServerEofOwed
<1>8. ASSUME NEW u \in Uis, UiStarts(u) \/ UiConnects(u) PROVE OwedInv'
    BY <1>8, ConnectsOwed
<1>9. ASSUME NEW u \in Uis, UiReads(u) PROVE OwedInv'
    BY <1>9, UiReadsOwed
<1>10. ASSUME NEW u \in Uis, UiExits(u) \/ UiPingTimeout(u) \/ UiRestartsServer(u) PROVE OwedInv'
    BY <1>10, ClosesOwed
<1>11. ASSUME NEW u \in Uis, NEW c \in Chans, UiSends(u, c) PROVE OwedInv'
    BY <1>1, <1>11, UiSendsKeeps
<1>12. CASE UNCHANGED vars
    BY <1>1, <1>12 DEF vars, sockets
<1>q. QED
    BY <1>2, <1>3, <1>4, <1>5, <1>6, <1>7, <1>8, <1>9, <1>10, <1>11, <1>12 DEF Next

LEMMA TypesFromInv == IInv => TypeOK
<1> SUFFICES ASSUME IInv PROVE TypeOK
    OBVIOUS
<1>1. /\ n \in Nat /\ room \in [Chans -> SUBSET (Others \union {Me})]
      /\ asked \subseteq Chans /\ link \in {"off", "down", "open", "in"}
    BY DEF IInv, NetOK
<1>2. /\ srv.up \in BOOLEAN /\ srv.last_disconnect \in 0..n /\ owed \subseteq 1..n
      /\ HistoryFine(srv.history, n)
    BY DEF IInv, SrvOK
<1>3. /\ \A i \in DOMAIN srv.history : srv.history[i].at \in 0..n
      /\ \A i, j \in DOMAIN srv.history : i < j => srv.history[i].at < srv.history[j].at
    BY <1>2 DEF HistoryFine, Stamped, Increasing
<1>4. conn \in [Uis -> {"none", "backlog", "accepted", "ready"}] /\ gone \subseteq Uis
    BY DEF IInv, EndsOK
<1>5. \A u \in gone : conn[u] # "none" /\ ~ui[u].sock
    BY <1>4 DEF IInv, SockOK, SockFine
<1>6. \A c \in Chans : room[c] \subseteq Others \union {Me}
    BY <1>1
<1>q. QED
    BY <1>1, <1>2, <1>3, <1>4, <1>5, <1>6 DEF TypeOK

\* Unless only a part of the history is older than a week when an interface attaches (the
\* index of sock_line 'C' passes over lines then), every line of IRC that no interface has
\* shown is on its way to one or is in the history behind last_disconnect, where the next
\* interface that attaches finds it.
THEOREM NoLineIsLost == ASSUME "trim" \notin Races PROVE Spec => []NothingLost
<1>1. Init => OwedInv
    BY DEF Init, OwedInv, Served
<1>2. IInv /\ OwedInv /\ [Next]_vars => OwedInv'
    BY StepOwed
<1>3. OwedInv => NoLineUnseen
    BY DEF OwedInv, Waits, NoLineUnseen
<1>4. IInv /\ OwedInv => NothingLost
    BY <1>3, TypesFromInv DEF NothingLost
<1>q. QED
    BY <1>1, <1>2, <1>4, Always, PTL DEF Spec

(***************************************************************************)
(* No line is shown twice.                                                 *)
(***************************************************************************)
\* What is in the socket q of an interface that showed l last.
ShownAt(l, q) ==
    \A i \in DOMAIN q : ToShow(q[i]) =>
        /\ l < q[i].at
        /\ \A j \in 1..(i - 1) : ToShow(q[j]) => q[j].at < q[i].at

\* The lines behind d in the history h are new to it.
FreshFor(l, q, h, d) ==
    \A k \in DOMAIN h : h[k].at > d =>
        h[k].at > l /\ \A i \in DOMAIN q : ToShow(q[i]) => h[k].at > q[i].at

\* An interface that has not asked for the state has seen nothing of what it will be sent.
ShownInv ==
    \A u \in Uis :
        /\ ShownAt(ui[u].last, toUi[u])
        /\ conn[u] # "ready" => FreshFor(ui[u].last, toUi[u], srv.history, srv.last_disconnect)

LEMMA NothingToShow ==
    ASSUME NEW m \in Nat, NEW l \in 0..m, NEW h, HistoryFine(h, m), NEW d \in 0..m,
           NEW k \in 0..m, k <= l
    PROVE  ShownAt(k, <<>>) /\ (FreshFor(l, <<>>, h, d) => FreshFor(k, <<>>, h, d))
           /\ \A q : FreshFor(l, q, h, d) => FreshFor(k, <<>>, h, d)
<1>1. DOMAIN <<>> = {}
    BY EmptyList
<1>2. \A i \in DOMAIN h : h[i].at \in Nat
    BY DEF HistoryFine
<1>3. ShownAt(k, <<>>)
    BY <1>1 DEF ShownAt
<1>4. ASSUME NEW q, FreshFor(l, q, h, d) PROVE FreshFor(k, <<>>, h, d)
    <2>1. \A i \in DOMAIN h : h[i].at > d => h[i].at > k
        BY <1>2, <1>4 DEF FreshFor
    <2>q. QED
        BY <1>1, <2>1 DEF FreshFor
<1>q. QED
    BY <1>3, <1>4

LEMMA ShownGrows ==
    ASSUME NEW l, NEW s, IsList(s), ShownAt(l, s), NEW e, NEW t, Longer(s, t, e),
           ToShow(e) => l < e.at /\ \A i \in DOMAIN s : ToShow(s[i]) => s[i].at < e.at
    PROVE  ShownAt(l, t)
<1>1. /\ Len(s) \in Nat /\ DOMAIN s = 1..Len(s)
      /\ \A i \in DOMAIN s : t[i] = s[i]
      /\ \A i \in DOMAIN t : i \in DOMAIN s \/ i = Len(s) + 1
      /\ t[Len(s) + 1] = e
    BY LongerPlaces
<1>2. ASSUME NEW i \in DOMAIN t, ToShow(t[i])
      PROVE  l < t[i].at /\ \A j \in 1..(i - 1) : ToShow(t[j]) => t[j].at < t[i].at
    <2>1. CASE i \in DOMAIN s
        <3>1. \A j \in 1..(i - 1) : j \in DOMAIN s
            BY <1>1, <2>1
        <3>q. QED
            BY <1>1, <1>2, <2>1, <3>1 DEF ShownAt
    <2>2. CASE i = Len(s) + 1
        <3>1. \A j \in 1..(i - 1) : j \in DOMAIN s
            BY <1>1, <2>2
        <3>2. t[i] = e
            BY <1>1, <2>2
        <3>q. QED
            BY <1>1, <1>2, <3>1, <3>2
    <2>q. QED
        BY <1>1, <2>1, <2>2
<1>q. QED
    BY <1>2 DEF ShownAt

\* Reading the first line.
LEMMA ShownReads ==
    ASSUME NEW l, NEW s, IsList(s), s # <<>>, ShownAt(l, s), NEW t, Shorter(s, t),
           NEW k, ToShow(s[1]) => k = s[1].at, ~ToShow(s[1]) => k = l
    PROVE  /\ ShownAt(k, t)
           /\ \A h, d : FreshFor(l, s, h, d) => FreshFor(k, t, h, d)
<1>1. /\ Len(s) \in Nat /\ Len(s) >= 1 /\ DOMAIN s = 1..Len(s)
      /\ DOMAIN t = 1..Len(t) /\ Len(t) \in Nat
      /\ \A i \in DOMAIN t : i \in Nat /\ i >= 1 /\ i + 1 \in DOMAIN s /\ t[i] = s[i + 1]
    BY ShorterPlaces
<1>2. 1 \in DOMAIN s
    BY <1>1
<1>3. ASSUME NEW i \in DOMAIN t, ToShow(t[i])
      PROVE  k < t[i].at /\ \A j \in 1..(i - 1) : ToShow(t[j]) => t[j].at < t[i].at
    <2>1. /\ i \in Nat /\ i >= 1 /\ i + 1 \in DOMAIN s /\ t[i] = s[i + 1] /\ ToShow(s[i + 1])
          /\ 1 \in 1..((i + 1) - 1)
        BY <1>1, <1>3
    <2>2. l < s[i + 1].at /\ \A j \in 1..((i + 1) - 1) : ToShow(s[j]) => s[j].at < s[i + 1].at
        BY <2>1 DEF ShownAt
    <2>3. k < t[i].at
        BY <2>1, <2>2
    <2>4. ASSUME NEW j \in 1..(i - 1), ToShow(t[j]) PROVE t[j].at < t[i].at
        <3>1. j \in DOMAIN t /\ j + 1 \in 1..((i + 1) - 1)
            BY <1>1, <2>1
        <3>2. t[j] = s[j + 1]
            BY <1>1, <3>1
        <3>q. QED
            BY <2>1, <2>2, <2>4, <3>1, <3>2
    <2>q. QED
        BY <2>3, <2>4
<1>4. ASSUME NEW h, NEW d, FreshFor(l, s, h, d) PROVE FreshFor(k, t, h, d)
    <2>1. ASSUME NEW x \in DOMAIN h, h[x].at > d PROVE h[x].at > k
        <3>1. h[x].at > l /\ (ToShow(s[1]) => h[x].at > s[1].at)
            BY <1>2, <1>4, <2>1 DEF FreshFor
        <3>q. QED
            BY <3>1
    <2>2. ASSUME NEW x \in DOMAIN h, h[x].at > d, NEW i \in DOMAIN t, ToShow(t[i])
          PROVE  h[x].at > t[i].at
        <3>1. i + 1 \in DOMAIN s /\ t[i] = s[i + 1]
            BY <1>1
        <3>q. QED
            BY <1>4, <2>2, <3>1 DEF FreshFor
    <2>q. QED
        BY <2>1, <2>2 DEF FreshFor
<1>q. QED
    BY <1>3, <1>4 DEF ShownAt

\* The state and lines that are new.
LEMMA ShownSent ==
    ASSUME NEW l, NEW q, IsList(q), ShownAt(l, q), NEW sent, Increasing(sent),
           DOMAIN sent \subseteq Nat, NEW r, Sent(q, r, sent),
           \A j \in DOMAIN sent :
                l < sent[j].at /\ \A i \in DOMAIN q : ToShow(q[i]) => q[i].at < sent[j].at
    PROVE  ShownAt(l, r)
<1>1. Len(q) \in Nat /\ DOMAIN q = 1..Len(q)
    BY ListPlaces
<1>2. PICK k \in Nat :
        /\ k >= Len(q)
        /\ \A i \in DOMAIN r :
            \/ i \in DOMAIN q
            \/ i \in Nat /\ i > Len(q) /\ i <= k /\ r[i].at = 0 /\ r[i].type \in {"c", "S"}
            \/ i \in Nat /\ i > k /\ i - k \in DOMAIN sent /\ r[i] = sent[i - k]
    BY DEF Sent
<1>3. \A i \in DOMAIN q : i \in DOMAIN r /\ r[i] = q[i]
    BY DEF Sent
<1>4. IsList(r)
    BY DEF Sent
<1>5. Len(r) \in Nat /\ DOMAIN r = 1..Len(r)
    BY <1>4, ListPlaces
<1>6. \A i \in DOMAIN r : ToShow(r[i]) =>
        i \in DOMAIN q \/ (i \in Nat /\ i > k /\ i - k \in DOMAIN sent /\ r[i] = sent[i - k])
    BY <1>2 DEF ToShow
<1>7. ASSUME NEW i \in DOMAIN r, ToShow(r[i])
      PROVE  l < r[i].at /\ \A j \in 1..(i - 1) : ToShow(r[j]) => r[j].at < r[i].at
    <2>1. CASE i \in DOMAIN q
        <3>1. \A j \in 1..(i - 1) : j \in DOMAIN q
            BY <1>1, <2>1
        <3>q. QED
            BY <1>3, <1>7, <2>1, <3>1 DEF ShownAt
    <2>2. CASE i \in Nat /\ i > k /\ i - k \in DOMAIN sent /\ r[i] = sent[i - k]
        <3>1. l < r[i].at /\ \A j \in DOMAIN q : ToShow(q[j]) => q[j].at < r[i].at
            BY <2>2
        <3>2. ASSUME NEW j \in 1..(i - 1), ToShow(r[j]) PROVE r[j].at < r[i].at
            <4>1. j \in DOMAIN r /\ j \in Nat /\ j < i
                BY <1>5, <2>2
            <4>2. CASE j \in DOMAIN q
                BY <1>3, <3>1, <3>2, <4>2
            <4>3. CASE j > k /\ j - k \in DOMAIN sent /\ r[j] = sent[j - k]
                <5>1. j - k < i - k
                    BY <2>2, <4>1
                <5>2. sent[j - k].at < sent[i - k].at
                    BY <2>2, <4>3, <5>1 DEF Increasing
                <5>q. QED
                    BY <2>2, <4>3, <5>2
            <4>q. QED
                BY <1>6, <3>2, <4>1, <4>2, <4>3
        <3>q. QED
            BY <3>1, <3>2
    <2>q. QED
        BY <1>6, <1>7, <2>1, <2>2
<1>q. QED
    BY <1>7 DEF ShownAt

LEMMA SendLineShown ==
    ASSUME "early" \notin Races, IInv, ShownInv, NEW type \in {">", "<", "c"}, NEW l, NEW except,
           SendLine(type, l, except), ui' = ui
    PROVE  ShownInv'
<1> PICK e, h : e = Stamp(type, l) /\ h = Recorded(e)
    OBVIOUS
<1>1. e.at = n + 1
    BY StampIs
<1>2. /\ n \in Nat /\ conn' = conn /\ srv'.last_disconnect = srv.last_disconnect
      /\ Longer(srv.history, srv'.history, h)
      /\ \A u \in Clients \ {except} : Longer(toUi[u], toUi'[u], e)
      /\ \A u \in Uis : u \notin Clients \ {except} => toUi'[u] = toUi[u]
    BY SendLineIs
<1>3. \A u \in Uis : conn[u] # "accepted"
    BY SendLineIs
<1>4. IsList(srv.history)
    BY DEF IInv, SrvOK, HistoryFine, Stamped
<1>5. \A i \in DOMAIN srv'.history : srv'.history[i] = h
            \/ (i \in DOMAIN srv.history /\ srv'.history[i] = srv.history[i])
    BY <1>2, <1>4, LongerPlaces
<1>6. ASSUME NEW u \in Uis
      PROVE  /\ ShownAt(ui'[u].last, toUi'[u])
             /\ conn'[u] # "ready" =>
                    FreshFor(ui'[u].last, toUi'[u], srv'.history, srv'.last_disconnect)
    <2>1. /\ ui[u].last \in 0..n /\ IsList(toUi[u])
          /\ \A i \in DOMAIN toUi[u] : toUi[u][i].at \in 0..n
        BY DEF IInv, UisOK, UiFine, OutOK, OutFine
    <2>2. ui[u].last < e.at /\ \A i \in DOMAIN toUi[u] : toUi[u][i].at < e.at
        BY <1>1, <1>2, <2>1
    <2>3. ShownAt(ui[u].last, toUi[u])
        BY DEF ShownInv
    <2>4. CASE u \in Clients \ {except}
        <3>1. Longer(toUi[u], toUi'[u], e)
            BY <1>2, <2>4
        <3>2. ShownAt(ui[u].last, toUi'[u])
            BY <2>1, <2>2, <2>3, <3>1, ShownGrows
        <3>3. conn[u] = "ready"
            BY <1>3, <2>4 DEF Clients
        <3>q. QED
            BY <1>2, <3>2, <3>3
    <2>5. CASE u \notin Clients \ {except}
        <3>1. toUi'[u] = toUi[u]
            BY <1>2, <2>5
        <3>2. ASSUME conn[u] # "ready"
              PROVE  FreshFor(ui[u].last, toUi[u], srv'.history, srv'.last_disconnect)
            <4>1. FreshFor(ui[u].last, toUi[u], srv.history, srv.last_disconnect)
                BY <3>2 DEF ShownInv
            <4>2. e.at > ui[u].last /\ \A i \in DOMAIN toUi[u] : e.at > toUi[u][i].at
                BY <1>1, <1>2, <2>1
            <4>3. h.at = e.at \/ ~(h.at > srv.last_disconnect)
                <5>1. srv.last_disconnect \in 0..n
                    BY DEF IInv, SrvOK
                <5>q. QED
                    BY <1>1, <1>2, <5>1, RecordedIs
            <4>q. QED
                BY <1>2, <1>5, <4>1, <4>2, <4>3 DEF FreshFor
        <3>q. QED
            BY <1>2, <2>3, <3>1, <3>2
    <2>q. QED
        BY <2>4, <2>5
<1>q. QED
    BY <1>6 DEF ShownInv

LEMMA AcceptShown == ASSUME IInv, ShownInv, NEW u \in Uis, Accept(u) PROVE ShownInv'
<1>1. /\ conn[u] = "backlog" /\ conn' = [conn EXCEPT ![u] = "accepted"]
      /\ srv' = srv /\ toUi' = toUi /\ ui' = ui
    BY DEF Accept
<1>2. conn \in [Uis -> {"none", "backlog", "accepted", "ready"}]
    BY DEF IInv, EndsOK
<1>3. \A w \in Uis : conn'[w] # "ready" => conn[w] # "ready"
    BY <1>1, <1>2
<1>q. QED
    BY <1>1, <1>3 DEF ShownInv

\* The lines behind last_disconnect are sent to an interface to which they are new.
LEMMA ConfigureShown ==
    ASSUME IInv, ShownInv, NEW u \in Uis, Configure(u), conn[u] = "accepted", ui' = ui
    PROVE  ShownInv'
<1>1. /\ conn' = [conn EXCEPT ![u] = "ready"]
      /\ srv'.last_disconnect = srv.last_disconnect
      /\ \A w \in Uis : w # u \/ u \in gone => toUi'[w] = toUi[w]
    BY ConfigureIs
<1>2. PICK week, kept, rest, sent :
        /\ Answers(week, kept, rest, sent) /\ srv'.history = kept
        /\ u \notin gone => Sent(toUi[u], toUi'[u], sent)
    BY ConfigureIs
<1>3. conn \in [Uis -> {"none", "backlog", "accepted", "ready"}]
    BY DEF IInv, EndsOK
<1>4. conn'[u] = "ready" /\ \A w \in Uis : w # u => conn'[w] = conn[w]
    BY <1>1, <1>3
<1>5. /\ Part(srv.history, kept) /\ Part(kept, rest) /\ Part(rest, sent)
      /\ \A i \in DOMAIN sent : srv.last_disconnect < sent[i].at
    BY <1>2 DEF Answers
<1>6. \A i \in DOMAIN kept : \E j \in DOMAIN srv.history : kept[i] = srv.history[j]
    BY <1>5 DEF Part
<1>7. \A i \in DOMAIN sent : \E j \in DOMAIN srv.history : sent[i] = srv.history[j]
    BY <1>5, <1>6 DEF Part
<1>8. Increasing(sent) /\ IsList(sent) /\ \A i \in DOMAIN sent : sent[i].at \in Nat
    BY <1>5 DEF Part, Stamped
<1>9. ASSUME NEW w \in Uis
      PROVE  /\ ShownAt(ui'[w].last, toUi'[w])
             /\ conn'[w] # "ready" =>
                    FreshFor(ui'[w].last, toUi'[w], srv'.history, srv'.last_disconnect)
    <2>1. /\ ShownAt(ui[w].last, toUi[w])
          /\ conn[w] # "ready" => FreshFor(ui[w].last, toUi[w], srv.history, srv.last_disconnect)
        BY DEF ShownInv
    <2>2. CASE w # u
        <3>1. conn[w] # "ready" => FreshFor(ui[w].last, toUi[w], kept, srv.last_disconnect)
            BY <1>6, <2>1 DEF FreshFor
        <3>q. QED
            BY <1>1, <1>2, <1>4, <2>1, <2>2, <3>1
    <2>3. CASE w = u /\ u \in gone
        BY <1>1, <1>4, <2>1, <2>3
    <2>4. CASE w = u /\ u \notin gone
        <3>1. FreshFor(ui[u].last, toUi[u], srv.history, srv.last_disconnect)
            BY <2>1, <2>4
        <3>2. /\ IsList(toUi[u]) /\ ui[u].last \in Nat
              /\ srv.last_disconnect \in Nat /\ \A i \in DOMAIN toUi[u] : toUi[u][i].at \in Nat
            BY DEF IInv, OutOK, OutFine, UisOK, UiFine, SrvOK
        <3>3. ASSUME NEW j \in DOMAIN sent
              PROVE  /\ ui[u].last < sent[j].at
                     /\ \A i \in DOMAIN toUi[u] : ToShow(toUi[u][i]) => toUi[u][i].at < sent[j].at
            <4>1. PICK x \in DOMAIN srv.history : sent[j] = srv.history[x]
                BY <1>7
            <4>2. srv.history[x].at > srv.last_disconnect /\ srv.history[x].at \in Nat
                BY <1>5, <1>8, <3>2, <4>1
            <4>3. /\ srv.history[x].at > ui[u].last
                  /\ \A i \in DOMAIN toUi[u] : ToShow(toUi[u][i]) =>
                        srv.history[x].at > toUi[u][i].at
                BY <3>1, <4>2 DEF FreshFor
            <4>q. QED
                BY <3>2, <4>1, <4>2, <4>3
        <3>4. DOMAIN sent \subseteq Nat
            BY <1>8, ListPlaces
        <3>5. Sent(toUi[u], toUi'[u], sent)
            BY <1>2, <2>4
        <3>6. ShownAt(ui[u].last, toUi[u])
            BY <2>1, <2>4
        <3>7. ShownAt(ui[u].last, toUi'[u])
            BY <1>8, <3>2, <3>3, <3>4, <3>5, <3>6, ShownSent
        <3>q. QED
            BY <1>4, <2>4, <3>7
    <2>q. QED
        BY <2>2, <2>3, <2>4
<1>q. QED
    BY <1>9 DEF ShownInv

LEMMA ExitShown == ASSUME IInv, ShownInv, Exit, ui' = ui PROVE ShownInv'
<1>1. /\ srv' = NoServer
      /\ \A w \in Uis : ~(conn[w] # "none" /\ w \notin gone) => toUi'[w] = toUi[w]
    BY ExitIs
<1>2. PICK e : /\ e.type = "end"
               /\ \A w \in Uis : conn[w] # "none" /\ w \notin gone => Longer(toUi[w], toUi'[w], e)
    BY ExitIs
<1>3. srv'.history = <<>>
    BY <1>1 DEF NoServer
<1>4. \A l, q, d : FreshFor(l, q, <<>>, d)
    BY EmptyList DEF FreshFor
<1>5. ASSUME NEW w \in Uis PROVE ShownAt(ui[w].last, toUi'[w])
    <2>1. ShownAt(ui[w].last, toUi[w]) /\ IsList(toUi[w])
        BY DEF ShownInv, IInv, OutOK, OutFine
    <2>2. CASE conn[w] # "none" /\ w \notin gone
        <3>1. Longer(toUi[w], toUi'[w], e) /\ ~ToShow(e)
            BY <1>2, <2>2 DEF ToShow
        <3>q. QED
            BY <2>1, <3>1, ShownGrows
    <2>3. CASE ~(conn[w] # "none" /\ w \notin gone)
        BY <1>1, <2>1, <2>3
    <2>q. QED
        BY <2>2, <2>3
<1>q. QED
    BY <1>3, <1>4, <1>5 DEF ShownInv

LEMMA ServerEofShown == ASSUME IInv, ShownInv, NEW u \in Uis, ServerEof(u) PROVE ShownInv'
<1>1. /\ toUi' = toUi /\ ui' = ui /\ srv'.history = srv.history /\ srv'.last_disconnect \in 0..n
      /\ \A i \in DOMAIN srv.history : srv.history[i].at <= srv'.last_disconnect
    BY ServerEofIs
<1>2. n \in Nat /\ \A i \in DOMAIN srv.history : srv.history[i].at \in 0..n
    BY DEF IInv, NetOK, SrvOK, HistoryFine
<1>3. \A i \in DOMAIN srv.history : ~(srv.history[i].at > srv'.last_disconnect)
    BY <1>1, <1>2
<1>4. \A l, q : FreshFor(l, q, srv.history, srv'.last_disconnect)
    BY <1>3 DEF FreshFor
<1>q. QED
    BY <1>1, <1>4 DEF ShownInv

LEMMA ConnectsShown ==
    ASSUME IInv, ShownInv, NEW u \in Uis, UiStarts(u) \/ UiConnects(u) PROVE ShownInv'
<1>1. PICK v, w : v = ui[u] /\ w = Attached(v)
    OBVIOUS
<1>2. Connects(u, v) /\ UiFine(v, n) /\ toUi[u] = <<>>
    BY <1>1, ConnectsFrom
<1>3. /\ conn[u] = "none" /\ conn' = [conn EXCEPT ![u] = "backlog"]
      /\ ui' = [ui EXCEPT ![u] = w] /\ w.last = v.last
      /\ toUi' = [toUi EXCEPT ![u] = <<>>]
      /\ srv'.history = srv.history /\ (srv.up => srv' = srv)
    <2>1. w = Attached(v)
        BY <1>1
    <2>q. QED
        BY <1>2, <2>1, ConnectsIs
<1>4. /\ conn \in [Uis -> {"none", "backlog", "accepted", "ready"}]
      /\ DOMAIN toUi = Uis /\ DOMAIN ui = Uis /\ (~srv.up => srv.history = <<>>)
    BY DEF IInv, EndsOK, DownOK
<1>5. /\ \A x \in Uis : toUi'[x] = toUi[x] /\ ui'[x].last = ui[x].last
      /\ \A x \in Uis : conn'[x] # "ready" => conn[x] # "ready"
    BY <1>1, <1>2, <1>3, <1>4
<1>6. \A l, q, d : FreshFor(l, q, <<>>, d)
    BY EmptyList DEF FreshFor
<1>7. \A l, q : FreshFor(l, q, srv.history, srv.last_disconnect) =>
                FreshFor(l, q, srv'.history, srv'.last_disconnect)
    BY <1>3, <1>4, <1>6
<1>q. QED
    BY <1>5, <1>7 DEF ShownInv

LEMMA UiReadsShown == ASSUME IInv, ShownInv, NEW u \in Uis, UiReads(u) PROVE ShownInv'
<1>1. PICK m, w :
        /\ m = toUi[u][1] /\ toUi[u] # <<>>
        /\ (ToShow(m) => w.last = m.at) /\ (~ToShow(m) => w.last = ui[u].last)
        /\ ui' = [ui EXCEPT ![u] = w] /\ Shorter(toUi[u], toUi'[u])
        /\ \A x \in Uis : x # u => toUi'[x] = toUi[x]
        /\ srv' = srv /\ conn' = conn
    BY UiReadsIs
<1>2. IsList(toUi[u]) /\ DOMAIN ui = Uis
    BY DEF IInv, OutOK, OutFine, EndsOK
<1>3. ui'[u] = w /\ \A x \in Uis : x # u => ui'[x] = ui[x]
    BY <1>1, <1>2
<1>4. PICK k, q : k = w.last /\ q = toUi'[u]
    OBVIOUS
<1>5. /\ ShownAt(ui[u].last, toUi[u])
      /\ conn[u] # "ready" => FreshFor(ui[u].last, toUi[u], srv.history, srv.last_disconnect)
    BY DEF ShownInv
<1>6. /\ Shorter(toUi[u], q) /\ toUi[u] # <<>>
      /\ (ToShow(toUi[u][1]) => k = toUi[u][1].at) /\ (~ToShow(toUi[u][1]) => k = ui[u].last)
    BY <1>1, <1>4
<1>7. /\ ShownAt(k, q)
      /\ \A h, d : FreshFor(ui[u].last, toUi[u], h, d) => FreshFor(k, q, h, d)
    BY <1>2, <1>5, <1>6, ShownReads
<1>8. ASSUME NEW x \in Uis
      PROVE  /\ ShownAt(ui'[x].last, toUi'[x])
             /\ conn'[x] # "ready" =>
                    FreshFor(ui'[x].last, toUi'[x], srv'.history, srv'.last_disconnect)
    <2>1. CASE x = u
        BY <1>1, <1>3, <1>4, <1>5, <1>7, <2>1
    <2>2. CASE x # u
        BY <1>1, <1>3, <2>2 DEF ShownInv
    <2>q. QED
        BY <2>1, <2>2
<1>q. QED
    BY <1>8 DEF ShownInv

LEMMA ClosesShown ==
    ASSUME IInv, ShownInv, NEW u \in Uis, UiExits(u) \/ UiPingTimeout(u) \/ UiRestartsServer(u)
    PROVE  ShownInv'
<1>1. PICK v :
        /\ UiFine(v, n) /\ v.last <= ui[u].last
        /\ ui' = [ui EXCEPT ![u] = v] /\ toUi' = [toUi EXCEPT ![u] = <<>>]
        /\ srv' = srv /\ conn' = conn
    BY ClosesIs
<1>2. /\ DOMAIN ui = Uis /\ DOMAIN toUi = Uis /\ n \in Nat /\ HistoryFine(srv.history, n)
      /\ srv.last_disconnect \in 0..n /\ ui[u].last \in 0..n /\ v.last \in 0..n
    BY <1>1 DEF IInv, EndsOK, NetOK, SrvOK, UisOK, UiFine
<1>3. /\ ui'[u] = v /\ toUi'[u] = <<>>
      /\ \A x \in Uis : x # u => ui'[x] = ui[x] /\ toUi'[x] = toUi[x]
    BY <1>1, <1>2
<1>4. /\ ShownAt(v.last, <<>>)
      /\ \A q : FreshFor(ui[u].last, q, srv.history, srv.last_disconnect) =>
                FreshFor(v.last, <<>>, srv.history, srv.last_disconnect)
    BY <1>1, <1>2, NothingToShow
<1>5. ASSUME NEW x \in Uis
      PROVE  /\ ShownAt(ui'[x].last, toUi'[x])
             /\ conn'[x] # "ready" =>
                    FreshFor(ui'[x].last, toUi'[x], srv'.history, srv'.last_disconnect)
    <2>1. CASE x = u
        BY <1>1, <1>3, <1>4, <2>1 DEF ShownInv
    <2>2. CASE x # u
        BY <1>1, <1>3, <2>2 DEF ShownInv
    <2>q. QED
        BY <2>1, <2>2
<1>q. QED
    BY <1>5 DEF ShownInv

LEMMA StepShown ==
    ASSUME "early" \notin Races, IInv, ShownInv, [Next]_vars PROVE ShownInv'
<1>1. UNCHANGED <<srv, conn, toUi, ui>> => ShownInv'
    BY DEF ShownInv
<1>2. CASE \/ Welcome
           \/ \E c \in Chans :
                \/ LetIn(c) \/ Kicks(c)
                \/ \E who \in Others :
                    \/ OtherJoins(c, who) \/ OtherQuits(c, who) \/ OtherTalks(c, who)
                    \/ \E new \in Others : OtherRenames(c, who, new)
    BY <1>1, <1>2, NetworkKeeps
<1>3. CASE PilotConnects \/ PilotBreaks
    <2>1. SendLine("c", Status, Nobody) /\ ui' = ui
        BY <1>3, PilotKeeps
    <2>q. QED
        BY <2>1, SendLineShown
<1>4. CASE IrcLine
    <2>1. PICK l : SendLine(">", l, Nobody) /\ ui' = ui
        BY <1>4, IrcLineKeeps
    <2>q. QED
        BY <2>1, SendLineShown
<1>5. ASSUME NEW u \in Uis, Accept(u) PROVE ShownInv'
    BY <1>5, AcceptShown
<1>6. ASSUME NEW u \in Uis, ServerReads(u) PROVE ShownInv'
    <2>1. u \in Clients /\ toSrv[u] # <<>> /\ ui' = ui
        BY <1>6, ServerReadsCases
    <2>2. CASE /\ Head(toSrv[u]).type = "C" /\ Configure(u)
               /\ toSrv' = [toSrv EXCEPT ![u] = Tail(@)]
        <3>1. conn[u] = "accepted"
            BY <2>1, <2>2, ServerReadsIs
        <3>q. QED
            BY <2>1, <2>2, <3>1, ConfigureShown
    <2>3. CASE /\ Head(toSrv[u]).type = "<" /\ Relay(u, Head(toSrv[u]).line)
               /\ toSrv' = [toSrv EXCEPT ![u] = Tail(@)]
        <3>1. PICK l : SendLine("<", l, u)
            BY <2>1, <2>3, RelayKeeps
        <3>q. QED
            BY <2>1, <3>1, SendLineShown
    <2>4. CASE Exit
        BY <2>1, <2>4, ExitShown
    <2>q. QED
        BY <1>6, <2>2, <2>3, <2>4, ServerReadsCases
<1>7. ASSUME NEW u \in Uis, ServerEof(u) PROVE ShownInv'
    BY <1>7, ServerEofShown
<1>8. ASSUME NEW u \in Uis, UiStarts(u) \/ UiConnects(u) PROVE ShownInv'
    BY <1>8, ConnectsShown
<1>9. ASSUME NEW u \in Uis, UiReads(u) PROVE ShownInv'
    BY <1>9, UiReadsShown
<1>10. ASSUME NEW u \in Uis, UiExits(u) \/ UiPingTimeout(u) \/ UiRestartsServer(u) PROVE ShownInv'
    BY <1>10, ClosesShown
<1>11. ASSUME NEW u \in Uis, NEW c \in Chans, UiSends(u, c) PROVE ShownInv'
    BY <1>1, <1>11, UiSendsKeeps
<1>12. CASE UNCHANGED vars
    BY <1>1, <1>12 DEF vars, sockets
<1>q. QED
    BY <1>2, <1>3, <1>4, <1>5, <1>6, <1>7, <1>8, <1>9, <1>10, <1>11, <1>12 DEF Next

\* Unless a line is broadcast to a client that was accepted and has not asked for the state,
\* an interface shows no line twice and none after a later one, over all its connections.
THEOREM NothingIsShownTwice == ASSUME "early" \notin Races PROVE Spec => []ShownOnce
<1>1. Init => ShownInv
    <2> SUFFICES ASSUME Init PROVE ShownInv
        OBVIOUS
    <2>1. srv.history = <<>> /\ \A u \in Uis : toUi[u] = <<>>
        BY DEF Init, NoServer
    <2>q. QED
        BY <2>1, EmptyList DEF ShownInv, ShownAt, FreshFor
<1>2. IInv /\ ShownInv /\ [Next]_vars => ShownInv'
    BY StepShown
<1>3. ShownInv => ShownOnce
    BY DEF ShownInv, ShownAt, ShownOnce
<1>q. QED
    BY <1>1, <1>2, <1>3, Always, PTL DEF Spec
=============================================================================
