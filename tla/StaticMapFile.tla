--------------------------- MODULE StaticMapFile ---------------------------
(***************************************************************************)
(* The file of a staticmap (arlib/staticmap.cpp): objects whose sizes are  *)
(* powers of two, each aligned to its size, the free ones of a size in a   *)
(* doubly linked list; the root object with the heads of these lists and a *)
(* hash table with open addressing, which is an object itself.             *)
(*                                                                         *)
(* The code writes one thing at a time, in order, a sector or less at once *)
(* (staticmap.h states these assumptions), and the program may end after   *)
(* any of them.  A trace is the sequence of what the file was, image by    *)
(* image; an operation appends the images it makes.  Sizes and addresses   *)
(* are in units of the smallest object, 32 bytes.                          *)
(***************************************************************************)
EXTENDS Integers, Sequences, FiniteSets, FiniteSetsExt

CONSTANTS
  Keys, Hash,       \* the keys, and the hash of each without the four bits that are ignored
  Values, Bits,     \* the values, and log2 of the size of the object one needs; values whose
                    \* objects have the same size have the same size themselves
  RootBits,         \* log2 of the size of the root and of the first hash table, 4
  FileBits,         \* log2 of the size of a new file, 11
  MaxBits,          \* bound: log2 of the largest file
  SlotsPerUnit,     \* slots of the hash table in a unit, 2
  SectorBits,       \* log2 of what is written at once
  Stale,            \* whether headers remain inside of an object that now covers them; nothing
                    \* reads them, and without them there are fewer states
  GrowAt, CleanAt   \* of n slots: how many entries make it grow, how many used ones are
                    \* cleaned up; n / 2 and n * 3 / 4, less for the tables of an instance

ASSUME StaticMapAssumption ==
  /\ Hash \in [Keys -> Nat] /\ Bits \in [Values -> Nat]
  /\ RootBits + 1 < FileBits /\ FileBits <= MaxBits
  /\ \A b \in RootBits..MaxBits :
       LET n == SlotsPerUnit * 2^b IN n \in DOMAIN GrowAt => CleanAt[n] + 2 < n

Nil == 0      \* no object, an empty slot: the root is at 0
End == -1     \* in a list: it and all lists of larger objects are empty; in a slot: a tombstone
Absent == "absent"

Units(b) == 2^b
BitsOf(n) == CHOOSE b \in 0..MaxBits : Units(b) = n
Buckets == 0..(MaxBits + 1)
Slots(b) == SlotsPerUnit * Units(b)

-----------------------------------------------------------------------------
(* Objects.  A list is named by <<"list", b>>, the place behind object a in *)
(* it by <<"next", a>>: what prev points to.                               *)

Zero == [type |-> "zero"]
Root == [type |-> "root", bits |-> RootBits]
Free(b, next, prev) == [type |-> "free", bits |-> b, next |-> next, prev |-> prev]
Data(k, v) == [type |-> "data", bits |-> Bits[v], key |-> k, val |-> v]
Table(b, slots) == [type |-> "table", bits |-> b, slots |-> slots]
NoSlots(b) == [i \in 1..(Slots(b) - 1) |-> [ptr |-> Nil, hash |-> 0]]

EmptyFile ==
  [size |-> 0, sig |-> "none", table |-> Nil, load |-> 0, entries |-> 0,
   list |-> [b \in Buckets |-> Nil], at |-> [a \in 0..(Units(MaxBits) - 1) |-> Zero]]

\* ftruncate: what is cut off is gone, what is new is zero.
Resized(f, n) ==
  [f EXCEPT !.size = n,
            !.at = [a \in DOMAIN @ |-> IF a < n /\ a < f.size THEN @[a] ELSE Zero]]

Now(t) == t[Len(t)]
Covered(a, h) == (a + 1)..(a + Units(h.bits) - 1)
SetHead(f, a, h) ==
  [f EXCEPT !.at = [x \in DOMAIN @ |-> IF x = a THEN h
                                        ELSE IF ~Stale /\ x \in Covered(a, h) THEN Zero
                                        ELSE @[x]]]
SetPrev(f, a, prev) == IF a = Nil THEN f ELSE [f EXCEPT !.at[a].prev = prev]
SetNext(f, place, a) ==
  IF place[1] = "list" THEN [f EXCEPT !.list[place[2]] = a]
                       ELSE [f EXCEPT !.at[place[2]].next = a]

\* t with f as its next image, unless nothing was written.
Then(t, f) == IF f = Now(t) THEN t ELSE Append(t, f)

-----------------------------------------------------------------------------
(* The allocator.                                                          *)

\* Block a of size b becomes the first of its list.
PushFree(t, a, b) ==
  LET f == Now(t)
      next == IF f.list[b] = End THEN Nil ELSE f.list[b]
      f1 == SetPrev(f, next, <<"next", a>>)
      f2 == SetHead(f1, a, Free(b, next, <<"list", b>>))
  IN  Then(Then(Then(t, f1), f2), [f2 EXCEPT !.list[b] = a])

\* The first of list b, which is not empty, leaves it.
PopFree(t, b) ==
  LET f == Now(t)
      next == f.at[f.list[b]].next
      f1 == SetPrev(f, next, <<"list", b>>)
  IN  Then(Then(t, f1), [f1 EXCEPT !.list[b] = next])

\* The loop that should clear the marks of all smaller lists clears this one.
ClearEnd(t, b) == IF Now(t).list[b] = End THEN Then(t, [Now(t) EXCEPT !.list[b] = Nil]) ELSE t

\* The block at ptr of size has is cut down to size want: its right halves are free.
Split(t, ptr, want, has) ==
  LET cut[b \in want..has] ==
        IF b = want THEN t
        ELSE LET u == cut[b - 1] IN PushFree(ClearEnd(u, b - 1), ptr + Units(b - 1), b - 1)
  IN  IF want >= has THEN t ELSE cut[has]

\* Where the block of size want is, and the trace after it was taken.  The caller writes
\* its header: until then it has that of the free block it was cut from, or none.
Alloc(t, want) ==
  LET f == Now(t)
      b == Min({c \in Buckets : c >= want /\ f.list[c] # Nil})
  IN  IF f.list[b] # End
      THEN [ptr |-> f.list[b], trace |-> Split(PopFree(t, b), f.list[b], want, b)]
      ELSE [ptr |-> f.size,
            trace |-> Split(Append(t, Resized(f, 2 * f.size)), f.size, want, BitsOf(f.size))]

Buddy(a, b) == IF (a \div Units(b)) % 2 = 0 THEN a + Units(b) ELSE a - Units(b)
BuddyIsFree(f, a, b) ==
  /\ Buddy(a, b) \in DOMAIN f.at
  /\ f.at[Buddy(a, b)].type = "free" /\ f.at[Buddy(a, b)].bits = b

Unlinked(t, a) ==
  LET h == Now(t).at[a]
      f1 == SetNext(Now(t), h.prev, h.next)
  IN  Then(Then(t, f1), SetPrev(f1, h.next, h.prev))

\* The object at addr becomes a free block, with its buddy if that is free, and so on.
Dealloc(t, addr) ==
  LET first == Now(t).at[addr].bits
      merge[b \in first..MaxBits] ==
        IF b = first THEN [trace |-> t, a |-> addr, b |-> b]
        ELSE LET m == merge[b - 1] IN
             IF m.b = b - 1 /\ BuddyIsFree(Now(m.trace), m.a, m.b)
             THEN [trace |-> Unlinked(m.trace, Buddy(m.a, m.b)),
                   a |-> Min({m.a, Buddy(m.a, m.b)}), b |-> b]
             ELSE m
      last == merge[MaxBits]
  IN  PushFree(last.trace, last.a, last.b)

-----------------------------------------------------------------------------
(* The hash table.                                                         *)

TableAt(f) == f.at[f.table]
IsEntry(slot) == slot.ptr \notin {Nil, End}

\* The i-th slot that is looked at for a hash, in a table of n: slot zero is the header.
Probe(hash, i, n) == ((Max({hash % n, 1}) - 1 + i) % (n - 1)) + 1

KeyAt(f, a) == IF f.at[a].type = "data" THEN f.at[a].key ELSE Absent
Holds(f, slot, k) == IsEntry(slot) /\ slot.hash = Hash[k] /\ KeyAt(f, slot.ptr) = k

\* How many slots are looked at before the search for k ends, if it does.
SearchEnds(f, k) ==
  LET s == TableAt(f).slots
      n == Slots(TableAt(f).bits)
  IN  {i \in 0..(n - 2) : LET slot == s[Probe(Hash[k], i, n)] IN
         slot.ptr = Nil \/ Holds(f, slot, k)}

\* The slot of k, or the one it belongs in.
Locate(f, k) ==
  LET s == TableAt(f).slots
      n == Slots(TableAt(f).bits)
      end == Min(SearchEnds(f, k))
      vacant == {i \in 0..end : ~IsEntry(s[Probe(Hash[k], i, n)])}
  IN  Probe(Hash[k], IF Holds(f, s[Probe(Hash[k], end, n)], k) THEN end ELSE Min(vacant), n)

SlotOf(f, k) == TableAt(f).slots[Locate(f, k)]
SetSlot(f, i, slot) == [f EXCEPT !.at[f.table].slots[i] = slot]

\* An object is entered in slots of which n - 1 are there.
Entered(slots, ptr, hash) ==
  LET n == Cardinality(DOMAIN slots) + 1
      i == Min({j \in 0..(n - 2) : slots[Probe(hash, j, n)].ptr = Nil})
  IN  [slots EXCEPT ![Probe(hash, i, n)] = [ptr |-> ptr, hash |-> hash]]

\* The entries of slots, in order, in an empty table of size b.
Reentered(slots, b) ==
  LET done[i \in 0..Cardinality(DOMAIN slots)] ==
        IF i = 0 THEN NoSlots(b)
        ELSE LET s == done[i - 1] IN
             IF IsEntry(slots[i]) THEN Entered(s, slots[i].ptr, slots[i].hash) ELSE s
  IN  done[Cardinality(DOMAIN slots)]

\* A table larger than a sector is not written at once.
WriteTable(t, a, b, slots) ==
  Then(IF b > SectorBits THEN Then(t, SetHead(Now(t), a, Table(b, NoSlots(b)))) ELSE t,
       SetHead(Now(t), a, Table(b, slots)))

\* The table grows, or its tombstones are dropped.
RehashIfNeeded(t) ==
  LET f == Now(t)
      old == TableAt(f)
      n == Slots(old.bits)
      room == Alloc(t, old.bits + 1)
      moved == WriteTable(room.trace, room.ptr, old.bits + 1, Reentered(old.slots, old.bits + 1))
      clean == WriteTable(t, f.table, old.bits, Reentered(old.slots, old.bits))
  IN  IF f.entries > GrowAt[n]
      THEN Dealloc(Then(moved, [Now(moved) EXCEPT !.table = room.ptr, !.load = f.entries]),
                   f.table)
      ELSE IF f.load > CleanAt[n]
      THEN Then(clean, [Now(clean) EXCEPT !.load = f.entries])
      ELSE t

-----------------------------------------------------------------------------
(* The operations.                                                         *)

Desync(t, synced) == IF synced THEN Then(t, [Now(t) EXCEPT !.sig = "active"]) ELSE t

\* Mutant: the old object is freed before the new one is written.
InsertFreesFirst(t0, k, v) ==
  LET t == RehashIfNeeded(t0)
      f == Now(t)
      i == Locate(f, k)
      old == SlotOf(f, k)
      freed == IF IsEntry(old) THEN Dealloc(t, old.ptr)
               ELSE Then(t, [f EXCEPT !.entries = @ + 1,
                                      !.load = @ + (IF old.ptr = Nil THEN 1 ELSE 0)])
      room == Alloc(freed, Bits[v])
      written == Then(room.trace, SetHead(Now(room.trace), room.ptr, Data(k, v)))
  IN  Then(written, SetSlot(Now(written), i, [ptr |-> room.ptr, hash |-> Hash[k]]))

\* In place if it fits and is written at once; otherwise the new object is there before
\* the old one is freed, and the table is last.
Insert(t0, k, v) ==
  LET t == RehashIfNeeded(t0)
      f == Now(t)
      i == Locate(f, k)
      old == SlotOf(f, k)
      room == Alloc(t, Bits[v])
      written == Then(room.trace, SetHead(Now(room.trace), room.ptr, Data(k, v)))
      counted == IF IsEntry(old) THEN Dealloc(written, old.ptr)
                 ELSE Then(written, [Now(written) EXCEPT !.entries = @ + 1,
                                       !.load = @ + (IF old.ptr = Nil THEN 1 ELSE 0)])
  IN  IF IsEntry(old) /\ Bits[v] <= SectorBits /\ Bits[f.at[old.ptr].val] = Bits[v]
      THEN Then(t, SetHead(f, old.ptr, Data(k, v)))
      ELSE Then(counted, SetSlot(Now(counted), i, [ptr |-> room.ptr, hash |-> Hash[k]]))

\* Mutant: no tombstone is left.
RemoveLeavesHole(t, k) ==
  LET i == Locate(Now(t), k)
      old == SlotOf(Now(t), k)
      freed == Dealloc(t, old.ptr)
      cleared == Then(freed, SetSlot(Now(freed), i, [ptr |-> Nil, hash |-> 0]))
  IN  IF IsEntry(old)
      THEN Then(cleared, [Now(cleared) EXCEPT !.entries = @ - 1, !.load = @ - 1]) ELSE t

\* The hash of a tombstone stays in the file; nothing reads it.
Remove(t, k) ==
  LET i == Locate(Now(t), k)
      old == SlotOf(Now(t), k)
      freed == Dealloc(t, old.ptr)
      marked == Then(freed, SetSlot(Now(freed), i, [ptr |-> End, hash |-> 0]))
  IN  IF IsEntry(old) THEN Then(marked, [Now(marked) EXCEPT !.entries = @ - 1]) ELSE t

\* create(): the root and the table, then the size, then the free blocks' headers.
Create(t) ==
  LET root == [size |-> Max({Now(t).size, 2 * Units(RootBits)}),
               sig |-> "active", table |-> Units(RootBits), load |-> 0, entries |-> 0,
               list |-> [b \in Buckets |-> IF b <= RootBits THEN Nil
                                           ELSE IF b < FileBits THEN Units(b) ELSE End],
               at |-> [Now(t).at EXCEPT ![0] = Root,
                                        ![Units(RootBits)] = Table(RootBits, NoSlots(RootBits))]]
      made[b \in RootBits..(FileBits - 1)] ==
        IF b = RootBits THEN Then(Append(t, root), Resized(root, Units(FileBits)))
        ELSE LET u == made[b - 1] IN
             Then(u, SetHead(Now(u), Units(b), Free(b, Nil, <<"list", b>>)))
  IN  made[FileBits - 1]

\* One object of recover()'s walk.  A block without header is what the file grew by.
Visit(w) ==
  LET f == Now(w.trace)
      h == f.at[w.pos]
      b == IF h.type = "zero" THEN Max({c \in 0..MaxBits : w.pos % Units(c) = 0}) ELSE h.bits
      prev == w.list[b]
      f1 == SetPrev(f, prev, <<"next", w.pos>>)
      on == [w EXCEPT !.pos = @ + Units(b)]
      known == \E i \in DOMAIN w.slots : Holds(f, w.slots[i], h.key)
  IN  CASE h.type \in {"zero", "free"} ->
             [on EXCEPT !.list[b] = w.pos,
                        !.trace = Then(Then(@, f1),
                                       SetHead(f1, w.pos, Free(b, prev, <<"list", b>>)))]
        [] h.type = "data" /\ ~known ->
             [on EXCEPT !.slots = Entered(@, w.pos, Hash[h.key]), !.found = @ + 1]
        [] (h.type = "data" /\ known) \/ (h.type = "table" /\ w.pos # f.table) ->
             [on EXCEPT !.spare = w.pos]
        [] OTHER -> on

\* The lists above the last that is not empty are marked.
MarkEnds(list) ==
  [b \in Buckets |-> IF \A c \in Buckets : c >= b => list[c] = Nil THEN End ELSE list[b]]

Recover(t) ==
  LET f == Now(t)
      bits == TableAt(f).bits
      start == [trace |-> t, pos |-> Units(RootBits), list |-> [b \in Buckets |-> Nil],
                slots |-> NoSlots(bits), found |-> 0, spare |-> Nil]
      walk[i \in 0..f.size] ==
        IF i = 0 THEN start
        ELSE LET w == walk[i - 1] IN IF w.pos < f.size THEN Visit(w) ELSE w
      end == walk[f.size]
      counted == Then(end.trace, [Now(end.trace) EXCEPT !.load = end.found, !.entries = end.found,
                                                        !.list = MarkEnds(end.list)])
      rebuilt == WriteTable(counted, f.table, bits, end.slots)
  IN  IF end.spare = Nil THEN rebuilt ELSE Dealloc(rebuilt, end.spare)

Open(t) ==
  LET f == Now(t) IN
  IF f.size = 0 THEN Create(t)
  ELSE IF f.sig = "passive" THEN t
  ELSE IF f.size <= 2 * Units(RootBits) \/ f.entries = 0 THEN Create(t)
  ELSE Recover(t)

-----------------------------------------------------------------------------
\* get_or_empty() of every key.
Get(f, k) ==
  LET slot == SlotOf(f, k) IN
  IF ~IsEntry(slot) THEN Absent
  ELSE IF f.at[slot.ptr].type = "data" THEN f.at[slot.ptr].val ELSE "garbage"
Contents(f) == [k \in Keys |-> Get(f, k)]

\* What a program finds that opens the file as it is.
Durable(f) == Contents(Now(Open(<<f>>)))
=============================================================================
