----------------------------- MODULE StaticMap ------------------------------
(***************************************************************************)
(* staticmap: a map in a file that outlives the program, which may end at  *)
(* any time: with every write another file is left behind.  The next one   *)
(* that opens it repairs it if the signature says that it is in use.       *)
(***************************************************************************)
EXTENDS StaticMapFile

CONSTANTS
  Unmarked     \* whether the program may end while it writes to a file whose signature
               \* says that nobody does

VARIABLES
  file,      \* the file
  writes,    \* the images of it that the call in progress has yet to make
  open,      \* whether a staticmap exists
  synced,    \* its member of that name
  durable,   \* what the next program would find if this one ended here, and
  goal       \* what the map holds when the call is done: the code has neither

vars == <<file, writes, open, synced, durable, goal>>

Init ==
  /\ file = EmptyFile
  /\ writes = <<>>
  /\ open = FALSE /\ synced = FALSE
  /\ durable = [k \in Keys |-> Absent]
  /\ goal = durable

Idle == open /\ writes = <<>>

\* A call that makes the images of t, after the first, which is the file.
Runs(t) ==
  /\ Now(t).size <= Units(MaxBits)
  /\ writes' = Tail(t)
  /\ UNCHANGED <<file, durable>>

\* The constructor; synced starts as false, whatever the signature.
OpenFile ==
  /\ ~open
  /\ Runs(Open(<<file>>))
  /\ open' = TRUE /\ synced' = FALSE
  /\ UNCHANGED goal

InsertKey(k, v) ==
  /\ Idle
  /\ Runs(Insert(Desync(<<file>>, synced), k, v))
  /\ goal' = [goal EXCEPT ![k] = v]
  /\ synced' = FALSE
  /\ UNCHANGED open

RemoveKey(k) ==
  /\ Idle
  /\ Runs(Remove(Desync(<<file>>, synced), k))
  /\ goal' = [goal EXCEPT ![k] = Absent]
  /\ synced' = FALSE
  /\ UNCHANGED open

\* synced stays as it is although create() writes the signature.
Reset ==
  /\ Idle
  /\ Runs(Create(<<file, EmptyFile>>))
  /\ goal' = [k \in Keys |-> Absent]
  /\ UNCHANGED <<open, synced>>

Sync ==
  /\ Idle
  /\ ~synced
  /\ Runs(Then(<<file>>, [file EXCEPT !.sig = "passive"]))
  /\ synced' = TRUE
  /\ UNCHANGED <<open, goal>>

\* The destructor, once its sync() is done.
Close ==
  /\ Idle
  /\ synced
  /\ open' = FALSE
  /\ UNCHANGED <<file, writes, synced, durable, goal>>

\* The program may end where writes ws are left.
MayEnd(f, ws) == Unmarked \/ ws = <<>> \/ f.sig # "passive"

Write ==
  /\ writes # <<>>
  /\ file' = Head(writes)
  /\ writes' = Tail(writes)
  /\ durable' = IF MayEnd(file', writes') THEN Durable(file') ELSE durable
  /\ UNCHANGED <<open, synced, goal>>

\* recover() needs a free block: it looks for one beyond the array of lists.
HasRoom(f) == f.size < Units(FileBits) \/ \E a \in 0..(f.size - 1) : f.at[a].type = "free"

\* The program ends, or the machine.
Crash ==
  /\ open
  /\ MayEnd(file, writes)
  /\ HasRoom(file)
  /\ writes' = <<>>
  /\ open' = FALSE /\ synced' = FALSE
  /\ goal' = durable
  /\ UNCHANGED <<file, durable>>

Next ==
  \/ OpenFile \/ Reset \/ Sync \/ Close \/ Write \/ Crash
  \/ \E k \in Keys : RemoveKey(k) \/ \E v \in Values : InsertKey(k, v)

Spec == Init /\ [][Next]_vars

-----------------------------------------------------------------------------
(* fsck().                                                                 *)

\* Where the objects are that a walk through the file meets.
Objects(f) ==
  LET to[i \in 0..f.size] ==
        IF i = 0 THEN <<0>>
        ELSE LET p == to[i - 1]
                 a == p[Len(p)]
             IN  IF a >= f.size \/ f.at[a].type = "zero" THEN p
                 ELSE Append(p, a + Units(f.at[a].bits))
      all == to[f.size]
  IN  {all[i] : i \in 1..Len(all)}

\* The blocks of list b, in order.
ListOf(f, b) ==
  LET to[i \in 0..f.size] ==
        IF i = 0 THEN IF f.list[b] \in {Nil, End} THEN <<>> ELSE <<f.list[b]>>
        ELSE LET p == to[i - 1] IN
             IF p = <<>> THEN p
             ELSE LET h == f.at[p[Len(p)]] IN
                  IF h.type # "free" \/ h.next = Nil THEN p ELSE Append(p, h.next)
  IN  to[f.size]

Elements(s) == {s[i] : i \in DOMAIN s}
Entries(f) == {i \in DOMAIN TableAt(f).slots : IsEntry(TableAt(f).slots[i])}

TableIsSound(f) ==
  LET s == TableAt(f).slots IN
  /\ \A i \in Entries(f) :
       /\ f.at[s[i].ptr].type = "data"
       /\ s[i].hash = Hash[KeyAt(f, s[i].ptr)]
  /\ \A i, j \in Entries(f) : KeyAt(f, s[i].ptr) = KeyAt(f, s[j].ptr) => i = j
  /\ f.entries = Cardinality(Entries(f))
  /\ f.load = Cardinality({i \in DOMAIN s : s[i].ptr # Nil})

ListsAreSound(f) ==
  \A b \in Buckets : LET l == ListOf(f, b) IN
    \A i \in DOMAIN l :
      /\ f.at[l[i]].type = "free" /\ f.at[l[i]].bits = b
      /\ f.at[l[i]].prev = IF i = 1 THEN <<"list", b>> ELSE <<"next", l[i - 1]>>
      /\ ~BuddyIsFree(f, l[i], b)

\* Every object is the root, the table, an entry's or in a list, and only one of these.
AllIsReachable(f) ==
  LET s == TableAt(f).slots
      reached == {0, f.table} \cup {s[i].ptr : i \in Entries(f)}
                 \cup UNION {Elements(ListOf(f, b)) : b \in Buckets}
  IN  /\ Objects(f) = reached \cup {f.size}
      /\ \A a \in reached : a % Units(f.at[a].bits) = 0

Fsck(f) == TableIsSound(f) /\ ListsAreSound(f) /\ AllIsReachable(f)

-----------------------------------------------------------------------------
\* What is found in the file, by this program or by the next, is values that were put there.
TypeOK ==
  /\ file.size \in {0} \cup {Units(b) : b \in (RootBits + 1)..MaxBits}
  /\ open \in BOOLEAN /\ synced \in BOOLEAN
  /\ durable \in [Keys -> Values \cup {Absent}] /\ goal \in [Keys -> Values \cup {Absent}]

\* The loop of hashmap_locate() has no other exit than an empty slot or the key: tombstones
\* never fill the table.
SearchesEnd == Idle => \A k \in Keys : SearchEnds(file, k) # {}

\* Between two calls the file is one that fsck() does not abort on, without its check of the
\* marks of the free lists, which is EndsAreTrue.
FsckPasses == Idle => Fsck(file)

\* get_or_empty() returns what the last insert() of the key stored, if no remove() or reset()
\* came after it; and after a program that ended in the middle, what it left.
GetsWhatWasPut == Idle => Contents(file) = goal

\* After any calls, and after any repair by recover() of what a program left that ended
\* between two writes, searches end, the file passes fsck(), and the map is what it should be.
MapIsSound == TypeOK /\ SearchesEnd /\ FsckPasses /\ GetsWhatWasPut

\* alloc() says of a list that equals 1 that "every future bucket is empty", and fsck() aborts
\* when one is 0.
EndsAreTrue ==
  Idle => \A b, c \in Buckets : file.list[b] = End /\ c > b => file.list[c] = End

\* staticmap.h: "If key already exists, it will be atomically replaced."  Whenever the program
\* ends, what the next one finds is what was there before the call in progress or what is there
\* after it, and nothing else ever changes.
Promised == INSTANCE DurableMap WITH content <- durable
ImplementsDurableMap == Promised!Spec
=============================================================================
