------------------------------ MODULE BytePipe ------------------------------
(***************************************************************************)
(* bytepipe: a queue of bytes in two buffers.  Bytes are pushed behind the  *)
(* second and pulled from the first; what is asked for must lie in one      *)
(* piece.  Buffers keep the bytes they no longer count as theirs.           *)
(***************************************************************************)
EXTENDS Integers, Sequences

Buffer(size) == [i \in 1..size |-> 0]
Pipe(size) == [buf1 |-> Buffer(size), buf1st |-> 0, buf1end |-> 0,
               buf2 |-> Buffer(size), buf2st |-> 0, buf2end |-> 0]

Size(p) == p.buf1end - p.buf1st + p.buf2end - p.buf2st
Chunk1(p) == SubSeq(p.buf1, p.buf1st + 1, p.buf1end)
Chunk2(p) == SubSeq(p.buf2, p.buf2st + 1, p.buf2end)
Content(p) == Chunk1(p) \o Chunk2(p)

\* bytes written over those of buf from place at on (memcpy).
Written(buf, at, bytes) ==
    [i \in DOMAIN buf |-> IF i - at \in DOMAIN bytes THEN bytes[i - at] ELSE buf[i]]

\* Mutant: the bytes moved to the first buffer are in the second one still.
TrySwapFromStart(p) ==
    IF p.buf1st = p.buf1end /\ p.buf2end # 0
    THEN [buf1 |-> p.buf2, buf1st |-> 0, buf1end |-> p.buf2end,
          buf2 |-> p.buf1, buf2st |-> 0, buf2end |-> 0]
    ELSE p

TrySwap(p) ==
    IF p.buf1st = p.buf1end /\ p.buf2end # 0
    THEN [buf1 |-> p.buf2, buf1st |-> p.buf2st, buf1end |-> p.buf2end,
          buf2 |-> p.buf1, buf2st |-> 0, buf2end |-> 0]
    ELSE p

\* The least size * 2^k that is at least n.
Doubled(size, n) ==
    LET k == CHOOSE k \in 0..n : size * 2^k >= n /\ \A j \in 0..(k - 1) : size * 2^j < n
    IN  size * 2^k

\* Room for n bytes behind the second buffer's.
Room(p) == Len(p.buf2) - p.buf2end
PushBegin(p, n) ==
    LET q == IF Room(p) < n THEN TrySwap(p) ELSE p
        size == Doubled(Len(q.buf2), q.buf2end + n)
    IN  IF Room(q) < n THEN [q EXCEPT !.buf2 = Written(Buffer(size), 0, @)] ELSE q

Filled(p, bytes) ==     \* push_finish
    [p EXCEPT !.buf2 = Written(@, p.buf2end, bytes), !.buf2end = @ + Len(bytes)]
Push(p, bytes) == Filled(PushBegin(p, Len(bytes)), bytes)

\* Chunk1() of the result has the first n bytes at least, if there are as many.
PullBegin(p, n) ==
    LET q == TrySwap(p)
        moved == Len(Chunk1(q))
        all == Content(q)
    IN  IF Size(p) < n THEN p
        ELSE IF moved >= n THEN q
        ELSE IF n <= Len(q.buf1)
        THEN [q EXCEPT !.buf1 = Written(@, 0, SubSeq(all, 1, n)), !.buf1st = 0, !.buf1end = n,
                       !.buf2st = @ + (n - moved)]
        ELSE [q EXCEPT !.buf1 = Written(Buffer(Doubled(1, Len(all))), 0, all), !.buf1st = 0,
                       !.buf1end = Len(all), !.buf2st = 0, !.buf2end = 0]
PullFinish(p, n) == [p EXCEPT !.buf1st = @ + n]

\* pull(n): the first n bytes and what remains.
Pull(p, n) ==
    LET q == PullBegin(p, n)
    IN  IF Size(p) < n THEN [pipe |-> p, bytes |-> <<>>]
        ELSE [pipe |-> PullFinish(q, n), bytes |-> SubSeq(q.buf1, q.buf1st + 1, q.buf1st + n)]

\* pull_line(skip): up to the first newline, which is not among the first skip bytes.
PullLine(p, skip, newlines) ==
    LET Ends == {i \in DOMAIN Content(p) : i > skip /\ Content(p)[i] \in newlines}
    IN  IF Ends = {} THEN [pipe |-> p, bytes |-> <<>>]
        ELSE Pull(p, CHOOSE i \in Ends : \A j \in Ends : i <= j)
=============================================================================
