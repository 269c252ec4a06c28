--------------------------- MODULE DiscordHistory ---------------------------
(***************************************************************************)
(* How discord.cpp fills the holes an outage leaves in its channels:       *)
(* load_chan() compares the channel's last message with the last one       *)
(* fetched and puts a "Loading scrollback..." line where the hole is;       *)
(* do_fetch_scrollback() asks for the newest page and inserts what is new   *)
(* there; messages arrive over the websocket meanwhile; the cache keeps a   *)
(* part of it over a restart.                                              *)
(*                                                                         *)
(* A message is its snowflake, a number that grows with time.  No two are   *)
(* posted within the 30 seconds by which do_fetch_scrollback() relaxes its  *)
(* comparison of times.                                                    *)
(***************************************************************************)
EXTENDS Integers, Sequences, SequencesExt

CONSTANTS
    Channels,       \* the order in which READY names them: a sequence
    Closed,         \* the channels that are muted or closed: nothing is fetched
    PageSize,       \* messages in an answer (100)
    CacheSize,      \* messages a channel keeps in the cache file (250)
    KeptSize,       \* and in memory (300) once it has had more than
    HeldSize,       \* that many (500)
    Races,          \* among "overlap", "early", "cut": see below
    MaxMsg, MaxPosts,   \* bounds: messages, those of each channel at a time,
    MaxFaults           \* and deletions, failures and outages

ASSUME SizesAssumption ==
    /\ {PageSize, CacheSize, KeptSize, HeldSize} \subseteq Nat \ {0}
    /\ PageSize <= CacheSize /\ CacheSize <= KeptSize /\ KeptSize <= HeldSize

Chan == ToSet(Channels)
Loading == 0        \* the line with id "scrollback"
Hole == -1          \* a line with id "scrollbackfail"

VARIABLES
    posts,          \* server: the messages of each channel
    newest,         \* server: last_message_id of each channel, which a deletion keeps
    wire,           \* events on their way, while the websocket is open
    open,           \* the websocket is open and has a session
    ch,             \* the channels: see Fresh
    queue,          \* m_fetch_scrollback
    fetches,        \* the running do_fetch_scrollback(), in the order of their requests
    disk,           \* the cache file
    told,           \* messages whose absence was told by a line a restart has removed
    n, faults

state == <<ch, queue, fetches>>
vars == <<posts, newest, wire, open, state, disk, told, n, faults>>

Lines(c) == ch[c].view
Shown(c) == ToSet(Lines(c)) \ {Loading, Hole}
Sorted(s) == \A i, j \in DOMAIN s : i < j => s[i] < s[j]
Messages(s) == SelectSeq(s, LAMBDA m : m > 0)
LastN(s, k) == IF Len(s) <= k THEN s ELSE SubSeq(s, Len(s) - k + 1, Len(s))

\* A channel as it comes out of the cache: its messages and the loading line.
\* Two fields only record what happened: misplaced, message_at() was told to insert at
\* an id that does not exist, or to use one again other than "scrollbackfail"; mixed, the oldest messages were dropped from a
\* record that was not in order, or it was read back that way.
Fresh(saved) ==
    [scrollback |-> saved.scrollback, last_fetched_msg |-> saved.end, last_msg |-> 0,
     view |-> Append(Messages(saved.scrollback), Loading),
     misplaced |-> FALSE, mixed |-> saved.mixed \/ ~Sorted(saved.scrollback)]
Empty == [scrollback |-> <<>>, end |-> 0, mixed |-> FALSE]

Init ==
    /\ posts = [c \in Chan |-> <<>>] /\ newest = [c \in Chan |-> 0]
    /\ wire = <<>> /\ open = FALSE
    /\ disk = [c \in Chan |-> Empty] /\ ch = [c \in Chan |-> Fresh(Empty)]
    /\ queue = <<>> /\ fetches = <<>>
    /\ told = {} /\ n = 0 /\ faults = 0

(***************************************************************************)
(* Lines of a channel and the record of its messages, as operators on the  *)
(* channel r.                                                              *)
(***************************************************************************)
Exists(r, line) == line \in ToSet(r.view)
Reused(r, lines) == r.misplaced \/ \E l \in ToSet(lines) \ {Hole} : Exists(r, l)

\* chanbase::message, at the end.
AddLine(r, line) ==
    [r EXCEPT !.view = Append(@, line), !.misplaced = Reused(r, <<line>>)]

\* Mutant: what was fetched is put at the end.
InsteadOfLoadingAtEnd(r, lines) ==
    [r EXCEPT !.view = SelectSeq(@, LAMBDA l : l # Loading) \o lines,
              !.misplaced = Reused(r, lines)]

\* chanbase::message_at("scrollback", false, ...) for each of the lines, and
\* message_delete_true("scrollback").  Only the latter may find no such line.
InsteadOfLoading(r, lines) ==
    LET At == {i \in DOMAIN r.view : r.view[i] = Loading}
    IN  IF At = {} THEN [r EXCEPT !.misplaced = @ \/ lines # <<>>]
        ELSE LET p == CHOOSE i \in At : TRUE
             IN  [r EXCEPT !.view = SubSeq(@, 1, p - 1) \o lines \o SubSeq(@, p + 1, Len(@)),
                           !.misplaced = Reused(r, lines)]

\* channel::nextmsg
NextMsg(kept, m) ==
    IF Len(kept) < HeldSize THEN Append(kept, m) ELSE LastN(Append(kept, m), KeptSize)
Cuts(kept, size) == Len(kept) > size /\ ~Sorted(kept)

\* What do_message() does to the record for new messages, live or fetched.
Record(r, ms) ==
    LET known == r.last_fetched_msg = r.last_msg
    IN  IF ms = <<>> THEN r
        ELSE [r EXCEPT !.last_msg = Last(ms),
                       !.last_fetched_msg = IF known THEN Last(ms) ELSE @,
                       !.scrollback = FoldLeft(NextMsg, @, ms),
                       !.mixed = @ \/ Cuts(r.scrollback \o ms, HeldSize)]

(***************************************************************************)
(* load_chan() and do_fetch_scrollback().                                  *)
(***************************************************************************)
\* What load_chan() compares: a channel without messages gets one that does not exist.
Named(c, last) ==
    [ch[c] EXCEPT !.last_msg = last, !.scrollback = IF @ = <<>> THEN <<0>> ELSE @]
HasHole(c, last) == ch[c].scrollback = <<>> \/ last # ch[c].last_fetched_msg
Queued(c) == \E i \in DOMAIN queue : queue[i].chan = c
Wanted(c, last) == HasHole(c, last) /\ c \notin Closed /\ ~Queued(c)

NotLoaded(r) ==
    LET t == [r EXCEPT !.last_fetched_msg = r.last_msg]
    IN  IF Exists(r, Loading) THEN InsteadOfLoading(t, <<Hole>>) ELSE AddLine(t, Hole)

\* Mutant: the loading line stays when nothing is missing.
LoadChanKeepsLine(c, last) ==
    LET r == Named(c, last)
    IN  IF ~HasHole(c, last) THEN r
        ELSE IF c \in Closed THEN NotLoaded(r)
        ELSE IF Queued(c) \/ Exists(r, Loading) THEN r ELSE AddLine(r, Loading)

LoadChan(c, last) ==
    LET r == Named(c, last)
    IN  IF ~HasHole(c, last) THEN InsteadOfLoading(r, <<>>)
        ELSE IF c \in Closed THEN NotLoaded(r)
        ELSE IF Queued(c) \/ Exists(r, Loading) THEN r ELSE AddLine(r, Loading)

\* do_fetch_scrollback() up to its HTTP call: the head of the queue is asked for.
Call(dat, coro) == [dat |-> dat, page |-> <<>>, answered |-> FALSE, coro |-> coro]
CoroWaiting == \E i \in DOMAIN fetches : fetches[i].coro      \* m_scrollback_coro.is_waiting()
Enqueue(items) ==
    LET q == queue \o items
        start == items # <<>> /\ ~CoroWaiting
    IN  /\ queue' = IF start THEN Tail(q) ELSE q
        /\ fetches' = IF start THEN Append(fetches, Call(Head(q), TRUE)) ELSE fetches

LoadChans(cs, last) ==
    LET want == SelectSeq(cs, LAMBDA c : Wanted(c, last[c]))
    IN  /\ ch' = [c \in Chan |-> IF c \in ToSet(cs) THEN LoadChan(c, last[c]) ELSE ch[c]]
        /\ Enqueue([i \in DOMAIN want |->
               [chan |-> want[i], from |-> Last(Named(want[i], 0).scrollback)]])

\* Mutant: the messages that arrived during the call are printed again.
ToPrintAgain(page, seen, from) == SelectSeq(page, LAMBDA m : m > from)

\* The messages of a page, oldest first, that are printed: those after the last one
\* seen, or, if that one is not on the page, those not older than it.
ToPrint(page, seen, from) ==
    SelectSeq(page, LAMBDA m : m \notin seen /\ m > from)

\* do_fetch_scrollback() after its HTTP call: the next one starts, and whatever the
\* answer the channel counts as fetched.
NextFetch ==
    IF queue = <<>> THEN queue' = queue /\ fetches' = Tail(fetches)
    ELSE queue' = Tail(queue) /\ fetches' = Append(Tail(fetches), Call(Head(queue), FALSE))
Ended(c) == [ch[c] EXCEPT !.last_fetched_msg = ch[c].last_msg]

FetchFailed(c) == InsteadOfLoading(Ended(c), <<Hole>>)

\* Mutant: without "[incomplete scrollback]".
FetchedSilently(c, from, page) ==
    LET new == ToPrint(page, ToSet(ch[c].scrollback), from)
    IN  InsteadOfLoading(Record(Ended(c), new), new)

\* If the message last seen is not on the page, "[incomplete scrollback]" is put above
\* what is printed, and deleted again if the page reaches an older one that was seen:
\* its id then denotes the line put last, for textview moves the mark of an id it has.
Fetched(c, from, page) ==
    LET seen == ToSet(ch[c].scrollback)
        new == ToPrint(page, seen, from)
        found == page = <<>> \/ from \in ToSet(page)
        found_old == \E m \in ToSet(page) \intersect seen : m <= from
        lines == IF found \/ found_old THEN new ELSE <<Hole>> \o new
        r == Record(Ended(c), new)
        atNothing == ~found /\ ~Exists(r, Loading)
    IN  [InsteadOfLoading(r, lines) EXCEPT !.misplaced = @ \/ atNothing]

(***************************************************************************)
(* Events from the websocket.                                              *)
(***************************************************************************)
Pending(c) ==
    {queue[i] : i \in {j \in DOMAIN queue : queue[j].chan = c}} \union
    {fetches[i].dat : i \in {j \in DOMAIN fetches : fetches[j].dat.chan = c}}
Live(m) == \E i \in DOMAIN wire : wire[i].type = "MESSAGE_CREATE" /\ wire[i].id = m

\* What the races allow.  "overlap": a channel is loaded again while a page of it is
\* on its way.  "early": a page overtakes the event of a message on it, or the
\* event of its deletion overtakes the page.  "cut": a
\* fetch is cancelled, or the connection lost, after a live message arrived behind
\* the loading line.
Loads == {"READY", "CHANNEL_CREATE"}
MayLoad(c) ==
    "overlap" \notin Races => Pending(c) = {} /\ \A i \in DOMAIN wire : wire[i].type \notin Loads
MayArrive(page) == "early" \in Races \/ \A m \in ToSet(page) : ~Live(m)
MayDelete(m) == "early" \in Races \/
    \A i \in DOMAIN fetches : m \notin ToSet(fetches[i].page)
MayCut == "cut" \in Races \/
    \A c \in Chan : Pending(c) # {} => Last(Lines(c)) = Loading

Ready(e) == LoadChans(Channels, e.last)
ChannelCreate(e) == LoadChans(<<e.chan>>, e.last)

Changed(c, r) == ch' = [ch EXCEPT ![c] = r]
MessageCreate(e) ==
    /\ Changed(e.chan, AddLine(Record(ch[e.chan], <<e.id>>), e.id))
    /\ UNCHANGED <<queue, fetches>>

\* The line stays, struck out; the record forgets the message.
MessageDelete(e) ==
    /\ ch' = [ch EXCEPT ![e.chan].scrollback = SelectSeq(@, LAMBDA m : m # e.id)]
    /\ UNCHANGED <<queue, fetches>>

Deliver ==
    /\ open /\ wire # <<>>
    /\ LET e == Head(wire)
       IN  \/ e.type = "READY" /\ Ready(e)
           \/ e.type = "CHANNEL_CREATE" /\ ChannelCreate(e)
           \/ e.type = "MESSAGE_CREATE" /\ MessageCreate(e)
           \/ e.type = "MESSAGE_DELETE" /\ MayDelete(e.id) /\ MessageDelete(e)
    /\ wire' = Tail(wire)
    /\ UNCHANGED <<posts, newest, open, disk, told, n, faults>>

(***************************************************************************)
(* HTTP calls end in the order they were made.                             *)
(***************************************************************************)
Arrive ==
    /\ fetches # <<>> /\ Head(fetches).answered
    /\ LET f == Head(fetches)
       IN  /\ MayArrive(f.page)
           /\ Changed(f.dat.chan, Fetched(f.dat.chan, f.dat.from, f.page)) /\ NextFetch
    /\ UNCHANGED <<posts, newest, wire, open, disk, told, n, faults>>

Fault == faults < MaxFaults /\ faults' = faults + 1

Fail ==
    /\ fetches # <<>> /\ Fault
    /\ LET c == Head(fetches).dat.chan IN Changed(c, FetchFailed(c)) /\ NextFetch
    /\ UNCHANGED <<posts, newest, wire, open, disk, told, n>>

(***************************************************************************)
(* /disconnect, and the end of the program with and without its destructor. *)
(***************************************************************************)
UserDisconnect ==
    /\ Fault /\ MayCut
    /\ open' = FALSE /\ wire' = <<>>
    /\ queue' = <<>> /\ fetches' = <<>>
    /\ UNCHANGED <<posts, newest, ch, disk, told, n>>

\* A line with no message of its own tells of the messages between its neighbours.
TellsOf(c, m, kinds) ==
    \E p \in DOMAIN Lines(c) :
        /\ Lines(c)[p] \in kinds
        /\ \A i \in DOMAIN Lines(c) : Lines(c)[i] > 0 =>
              (i < p => Lines(c)[i] < m) /\ (i > p => m < Lines(c)[i])

\* write_cache() and the constructor that reads it.
Saved(c) ==
    [scrollback |-> LastN(ch[c].scrollback, CacheSize), end |-> ch[c].last_fetched_msg,
     mixed |-> ch[c].mixed \/ Cuts(ch[c].scrollback, CacheSize)]

Restart ==
    /\ Fault /\ MayCut
    /\ disk' \in {disk, [c \in Chan |-> Saved(c)]}
    /\ ch' = [c \in Chan |-> Fresh(disk'[c])]
    /\ told' = told \union UNION {{m \in ToSet(posts[c]) : TellsOf(c, m, {Hole})} : c \in Chan}
    /\ open' = FALSE /\ wire' = <<>> /\ queue' = <<>> /\ fetches' = <<>>
    /\ UNCHANGED <<posts, newest, n>>

(***************************************************************************)
(* The server and the network (external).                                  *)
(***************************************************************************)
Announce(e) == wire' = IF open THEN Append(wire, e) ELSE wire

Connect ==
    /\ ~open /\ open' = TRUE /\ \A c \in Chan : MayLoad(c)
    /\ wire' = <<[type |-> "READY", last |-> newest]>>
    /\ UNCHANGED <<posts, newest, state, disk, told, n, faults>>

Outage ==
    /\ open /\ Fault /\ MayCut
    /\ open' = FALSE /\ wire' = <<>>
    /\ UNCHANGED <<posts, newest, state, disk, told, n>>

Post(c) ==
    /\ n < MaxMsg /\ Len(posts[c]) < MaxPosts[c] /\ n' = n + 1
    /\ posts' = [posts EXCEPT ![c] = Append(@, n')]
    /\ newest' = [newest EXCEPT ![c] = n']
    /\ Announce([type |-> "MESSAGE_CREATE", chan |-> c, id |-> n'])
    /\ UNCHANGED <<open, state, disk, told, faults>>

Delete(c) ==
    /\ Fault
    /\ \E m \in ToSet(posts[c]) :
        /\ posts' = [posts EXCEPT ![c] = SelectSeq(@, LAMBDA k : k # m)]
        /\ Announce([type |-> "MESSAGE_DELETE", chan |-> c, id |-> m])
    /\ UNCHANGED <<newest, open, state, disk, told, n>>

\* The server may announce a channel the client has.
AnnounceChannel(c) ==
    /\ open /\ Fault /\ MayLoad(c)
    /\ Announce([type |-> "CHANNEL_CREATE", chan |-> c, last |-> newest])
    /\ UNCHANGED <<posts, newest, open, state, disk, told, n>>

Answer ==
    /\ \E i \in DOMAIN fetches :
        /\ ~fetches[i].answered /\ \A j \in 1..(i - 1) : fetches[j].answered
        /\ fetches' = [fetches EXCEPT ![i].answered = TRUE,
                                      ![i].page = LastN(posts[fetches[i].dat.chan], PageSize)]
    /\ UNCHANGED <<posts, newest, wire, open, ch, queue, disk, told, n, faults>>

Next ==
    \/ Deliver \/ Arrive \/ Fail \/ UserDisconnect \/ Restart
    \/ Connect \/ Outage \/ Answer
    \/ \E c \in Chan : Post(c) \/ Delete(c) \/ AnnounceChannel(c)

Spec == Init /\ [][Next]_vars

\* Calls are answered, events arrive, and the gateway connects again.
Fairness ==
    /\ WF_vars(Deliver) /\ WF_vars(Arrive) /\ WF_vars(Answer) /\ WF_vars(Connect)

FairSpec == Spec /\ Fairness

(***************************************************************************)
(* Properties.                                                             *)
(***************************************************************************)
\* The line to insert at exists, and the id of a message, or of the loading line, is
\* not used again while it is there (message_at() in russian.h).
LinesArePlaced == \A c \in Chan : ~ch[c].misplaced

\* No id is used again while it is there, that of "[incomplete scrollback]" and its like
\* included, as russian.h asks.  It fails in MCDiscordHistory.cfg: a channel
\* that is told of a second hole has two lines with the id "scrollbackfail".
IdsAreUnique == \A c \in Chan : IsInjective(Lines(c))

\* The channels whose record was in order whenever its oldest messages were dropped.
InStep == {c \in Chan : ~ch[c].mixed}

\* Every channel shows its messages in the order they were posted, live and fetched
\* ones together, and each one once.
InOrder == \A c \in InStep : Sorted(Messages(Lines(c)))

\* A message that was not shown is told of: where it would be there is a line that
\* says so, or was before the program was restarted.  It holds between messages at
\* any time, and behind the last one when everything has arrived.
Idle == open /\ wire = <<>> /\ fetches = <<>> /\ queue = <<>>
ToBeSeen(c) ==
    {m \in ToSet(posts[c]) \ (Shown(c) \union told) :
        /\ Idle \/ \E k \in Shown(c) : m < k
        /\ ~(\E k \in Shown(c) : m < k) \/ \E k \in Shown(c) : k < m}
NoSilentGap ==
    \A c \in InStep : \A m \in ToBeSeen(c) : TellsOf(c, m, {Loading, Hole})

\* The record a page is compared with is the part of the view the next page could
\* repeat: a message that is shown and not deleted is in it or older than it.
RecordIsTail ==
    \A c \in InStep : \A m \in Shown(c) \intersect ToSet(posts[c]) :
        \/ m \in ToSet(ch[c].scrollback)
        \/ \A k \in ToSet(ch[c].scrollback) : m < k

TypeOK ==
    /\ \A c \in Chan : ToSet(Lines(c)) \subseteq Hole..n /\ ToSet(ch[c].scrollback) \subseteq 0..n
    /\ \A c \in Chan : {ch[c].last_fetched_msg, ch[c].last_msg, newest[c]} \subseteq 0..n
    /\ \A c \in Chan : Len(ch[c].scrollback) <= HeldSize /\ Len(disk[c].scrollback) <= CacheSize
    /\ {queue[i].chan : i \in DOMAIN queue} \subseteq Chan /\ told \subseteq 1..n

\* A missing message is told of, and what tells later is in place.
HolesAreTold == TypeOK /\ NoSilentGap /\ RecordIsTail

\* The line that says a page is loading goes away.
LoadingEnds == <>[](\A c \in Chan : Loading \notin ToSet(Lines(c)))
=============================================================================
