# A TLA+ model of russian-malware

Despite its name, russian-malware is a chat client: one GTK window that talks to
Slack, Discord, Matrix and IRC (it is also an IRC bouncer), written in C++20
coroutines on top of the author's own library, *arlib*. Everything it does, it does
on **one thread**: an event loop (`runloop2`) resumes coroutines, and what makes the
program hard is the order in which coroutines, network answers, timers, user clicks and
cancellations meet. This directory models that core, checks it with TLC and proves parts
of it with TLAPS. Paths below are relative to `src/`.

Contents: 1 the system · 2 the hard behaviours · 3 the modules · 4 the runs · 5 fairness ·
6 the proofs · 7 what the checks found · 8 what is not modelled, and the plan ·
9 how to run it.

## 1. The system

| Component (source) | State | Operations | Uses |
|---|---|---|---|
| run loop `runloop2` (`arlib/runloop2.h`, `arlib/runloop-poll.cpp`) | arrays of fd and timeout slots with freelists, queue of scheduled coroutines | `await_fd`, `await_timeout`, cancel, `schedule`, `step` | `ppoll`, GTK |
| `producer`, `waiter`, `async` (`arlib/runloop2.h`) | a pair of pointers each; coroutine frames | complete, cancel, move; `co_await` | – |
| `co_mutex` (`arlib/runloop2.h:850-903`) | locked bit and a linked list of waiters | `co_await`, unlock, cancel | run loop queue |
| `co_holder` (`arlib/runloop2.h:703-760`) | growing array of waiters | add, reset | – |
| `dns_t` (`arlib/dns.cpp`) | slots of lookups, one UDP socket, one timer | `await_lookup`, answer, timeout, cancel | run loop, UDP |
| sockets, TLS, SOCKS5, `socketbuf`, `bytepipe` (`arlib/socket*.cpp`, `arlib/socket.h`) | a connection and two buffers | connect, read, write, fail | run loop, `dns_t` |
| `http_t` (`arlib/http.cpp`, `arlib/http.h`) | one kept-alive socket, its generation, two counters, two mutexes | `request`, cancel | `co_mutex`, sockets |
| `websocket` (`arlib/websocket.cpp`) | a socket, a frame in progress | connect, send, receive, ping | sockets |
| chat base (`chatbase.h`) | per channel: messages, hole (`scrollback_partial`, `scrollback_pos`), tab; one reconnect/ping timer | append, delete, edit, page of history, click, timer | `http_t`, main window |
| Slack (`slack.cpp`) | websocket address, `m_online`, `network()` | connect, sync, events, ping, scrollback | chat base, `http_t`, `websocket` |
| Discord (`discord.cpp`) | gateway session, queue of fetches | hello, heartbeat, resume, fetch | chat base, `http_t`, `websocket` |
| Matrix (`matrix.cpp`) | sync token, `prev_batch` | long-poll sync, scrollback | chat base, `http_t` |
| IRC (`irc.cpp`) | state tracker, history, attached clients | autopilot, bouncer replay | sockets |
| `staticmap` (`arlib/staticmap.*`) | one file: objects, free lists, a hash table, a signature | open, insert, remove, reset, sync, close, repair | file system |
| main window, image cache (`main.cpp`) | windows; download queue; loaded images | – | `http_t`, `staticmap`, GTK |
| parsers, containers, formatting | – | pure functions about bytes | – |

How they interact:

- **Calls.** Completing a `producer` resumes the waiting coroutine *at once*, inside the
  caller: code that completes something must be ready for anything its waiters do, calls
  back into itself included. That is where `dns_t` and `step()` are most delicate.
- **The queue.** `co_mutex::unlock` goes through `runloop2::schedule()`, so the next owner
  runs later; between the two it may be cancelled.
- **Cancellation** is the destruction of a coroutine or waiter, from anywhere, at any
  suspension point.
- **Messages.** HTTP answers on one connection belong to requests by their order;
  websocket events and HTTP pages fill the same message array from two coroutines.
- **Timers.** One timer of the chat base serves both the ping and the reconnection.

What makes each component correct:

- *co_mutex*: exclusion, fifo order through a chain of mutexes, nobody waits for a mutex
  that no live coroutine will release, no handle of a dead coroutine is resumed.
- *http_t*: a request is answered with its own response, from its own server; only
  what is safe to repeat is repeated; locks do not leak; everybody is answered.
- *run loop*: only what is due and still registered runs; slots are neither lost nor used
  twice; what `ppoll` reported is dispatched; no timeout is starved.
- *dns_t*: the timer is always due in time; every lookup ends in time; nothing dangles.
- *history*: messages in order; a gap is always visible as a hole; nothing is lost.
- *connection*: a dead connection is noticed, a working one is left alone.
- *gateway*: a resumed session goes on at the event where it stopped; the guild list is
  true once the client has caught up; a connection that works is kept.
- *Discord's holes*: every hole is told of, every line inserted exists, pages and live
  messages end up in the order they were posted, each once.
- *bouncer*: an interface that has read everything shows the truth; no line is shown
  twice, and none is lost between two attachments.
- *staticmap*: whenever the program ends, the next one finds a map on which every operation
  has taken effect completely or not at all; no block of the file is lost or used twice.
- *websocket over socketbuf*: messages whole and in order in any pieces; bytes sent once and
  in order; nobody waits for what cannot come.

## 2. The hard behaviours

`PROJECT.json` lists them as *hazards*, each at the line where it bites, with the
properties that would catch it. In short: hand-over and cancellation (co_mutex); pipelining,
reconnection and cancellation (http); callbacks that change the array being walked (run
loop, dns); pages racing events, clicks and deletions (history, Discord); one timer for two
purposes and every way a connection can die (connection, gateway); a resumed session that
must go on where the last one stopped (gateway); restarts and what a cache keeps (Discord,
bouncer); replay to interfaces that come and go (bouncer); the end of the program between two
writes to a file (staticmap); partial reads and writes, and a
reset from outside while the coroutine waits (websocket).

## 3. The modules

Names of variables, actions and labels are those of the source where TLA+ allows it. Code
between two suspension points runs without interruption, so it is one action unless it
calls out; where it does, a variable `stack` or `running` says who runs, and the caller
continues with an action of its own. That keeps every re-entrance the code allows.

### `CoMutex`, `CoMutexRunloop`, `FifoLock`

`CoMutex` is the mutex as data: `Take`, `Enqueue`, `Unlock`, `Forget` on a record of the
locked bit and the list of waiters. `CoMutexRunloop` runs coroutines through a chain of
`Stages` mutexes, each taking the next before it leaves the last, the way `http_t::request`
takes `mut1` and `mut2`. Its actions are the coroutine's steps (`Start`, `EnterFree`,
`EnterBusy`, `Suspend`, `Wake`, `Release`), the loop's `Resume`, and destruction while
waiting (`CancelWaiting`) or holding (`CancelHolding`). `CancelScheduled` says whether a
coroutine may be destroyed after `unlock()` scheduled it. `FifoLock` is the promise: a set
of locks with an owner and an ordered queue each. A mutex handed to a scheduled coroutine
is, in the refinement (`Owner`), already owned by it.

### `HttpClient`, `HttpService`

`HttpClient` is `http_t::request` over two `CoMutex` mutexes: call, both locks, the three
ways to a socket (`Pipeline`, `ReuseSocket`, `NeedSocket` … `NewSocket`), the
checks behind `mut2` (`MayRead`), head, body, every error return and the retry; `Cancel` at
every suspension point, of a request that `unlock()` has scheduled only with `CancelScheduled`.
A send that fails closes the socket, and `socket_failed()` runs the request that reads and its
caller before the send returns: the sender is at `"sending"` until then (`Pipeline`, `ReadFails`,
`SendReturns`), and a request made meanwhile can come to `mut2` before it (`Overtaken`). The answer reaches the caller *before* the locks are released
(`Return`), as in the code, where the destructors run after `co_return` completed the
producer. A server answers each connection's requests in order and may close it at any
time. `HttpService` is the promise: every request is answered once, in the order of the
calls, with its own response or an error, unless its caller is gone; only where connections may break
(`MayBreak`) may a request come before the newest one. `http` checks that one
implements the other: a `Service` whose `cancelled` are the requests at `"gone"`. Each behaviour
has an `Origin` per request, chosen from `Origins` at the start.

### `ChatStore`, `SlackHistory`

`ChatStore` holds the pure operations of `chatbase.h` on a channel: append (with its
duplicate check), delete, and `scrollback_segment`, which inserts a page at
`scrollback_pos` and decides whether the hole is closed. Messages are their ids in the order
of the server's timestamps. `SlackHistory` runs one channel: the server posts and deletes,
the websocket queues events, `network()` connects, compares the latest message, declares a
hole, fetches a page into it, then handles the queue; a second coroutine fetches pages on
clicks of the notice; the tab may be closed and opened; the cache (`disk`) is written by
`/sync` or at the end, and the program starts again from it (`Restart`). All HTTP calls go through one
`http_t` as POSTs, one at a time, so `calls` is a queue of which the first was sent.

### `SlackConnection`

`network()`, `ping()` and the one timer `m_wait_ping`, in units of ten seconds. Faults
of every kind (call fails, websocket closes, connection goes silent, the fast-reconnect
address is stale, a name lookup blocks the event loop of `network()`) in any order, up to
`MaxFaults`.

### `Dns`

`dns_t` with its slots, freelist, socket, `recv_w` and `time_w`. `stack` holds the calls in
progress (`timeout`, `complete_recv`, a resumed caller), so a caller may look up or cancel
from inside a completion. Replies may be lost, late, repeated, and reach a later lookup with
the same transaction id. The array grows when full; growing it marks the
calls above as walking a freed array, which becomes a `fault` only if they use it.
`AgainInTimeout` says whether a caller failed by `timeout()` may look up again before it
returns.

### `Runloop`

`runloop2_poll::step()` as built for GTK (`EXTRA_POLLFDS`): the deadline, `ppoll`, GTK's
callbacks, the loop over fds, the loop over timeouts, the drain of scheduled coroutines. A
waiter that runs (`running`) may register, cancel and schedule any other. `owed` remembers
what `ppoll` reported so that `OwedIsPaid` can compare it with what was dispatched.

### `DiscordGateway`

`connect()` of `discord.cpp` as one coroutine, `m_ws_coro` naming where it waits: for the
pause, the lookup of the gateway, the connection, the HTTP upgrade, a message. One action
is what runs between two waits; `Receive` is a message with its whole handler (`Hello`,
`Ready`, `Resumed`, `InvalidSession`, `Leave`, `GuildCreate`, `GuildDelete` …). Closing
the socket from outside (`PingTimeout`, `Command`) runs the reading coroutine at
once, as `disconnect()` does; `m_ws_coro_running` is the flag by which it knows not to cancel
itself. The server keeps a numbered `log` per session
and sends a client that resumes what follows its `m_sequence`. Faults: the session
expires, the connection breaks or goes silent, the server asks for a reconnect or declares
the session invalid; guilds come and go meanwhile.

### `DiscordHistory`

What follows from READY for the channels: `LoadChans` compares the channel's last message
with the last one fetched, puts the *Loading scrollback* line and queues the fetch,
`Arrive` is one round of `do_fetch_scrollback()`, which prints what is new of the page at the
loading line (`Fetched`), `Connect`, `Outage`, `Restart` with or without saving. Two
records are kept apart as in the code: the `view`, lines a user sees, and `scrollback`, the
messages a later page is compared with, cut to `KeptSize` when it reaches `HeldSize`. A fetch is of
one channel; the others wait in `queue`, and their events go on. `Reused` watches that no id is put
a second time, but for the one of the line that tells of a hole (section 7).

### `IrcBouncer`

The process on the IRC network and the interfaces that attach to it. One `tracker` serves
both sides (`Track`), on the bouncer to know where a replay starts and in the interface to
show channels and members. `SendLine` broadcasts and appends to the history; `Configure` is
the answer to `'C'`: it drops what is older than a week from the history and sends the state
of the last detachment and the lines after it (`UpTo` and `After` are what its loops over the
history pass and leave; `rest` is what the second loop sees, since its index is not set back after
the first one's lines are dropped); `ServerEof` is a detachment. The stamp of a line is its place in
time, `n`; a client's line is recorded with a stamp in seconds, which in an empty history
is before all others (`Recorded`). The IRC network joins, parts, kicks, renames, quits; the autopilot reconnects; interfaces
start, end, time out and restart the bouncer. Sockets are queues that lose their content when closed. `owed` only
records lines that nobody showed yet.

### `BytePipe`, `Websocket`

`BytePipe` is `bytepipe` as data: two buffers with their bounds, `PushBegin`, `Push`,
`PullBegin` (which moves bytes from the second behind the first), `Pull`, `PullLine`, the
doubling of a buffer. Buffers keep the bytes they no longer own, so a wrong bound hands
out old bytes. `Websocket` puts `socketbuf` on two pipes (one pending read, one buffered
write, `SocketFailed`, `Reset`) and runs `websocket::connect()` and `msg()` on it, one action
per read; `AppSend` may come from the coroutine or from anybody while it waits; `OwnerResets`
runs the waiting coroutine inside `socket_failed()` and goes on afterwards
(`ResetGoesOn`); the network carries any number of bytes at a time. A byte is a number that
tells its item and its place in it.

### `StaticMapFile`, `StaticMap`, `DurableMap`

`StaticMapFile` is the file and every function that writes to it. The code promises something
for a program that ends between *any two writes*, so an operation is the sequence of images of the file
that its writes make, a *trace*; `Insert`, `Remove`, `Create`, `Recover` and what they call
(`Alloc`, `Split`, `Dealloc`, `RehashIfNeeded` …) each append theirs in the order of the code.
Objects are records at addresses in units of 32 bytes, `prev` the place that points to a free block, as
`off_f_prevptr` is. `StaticMap` takes an operation's trace as `writes` and makes one per `Write`; `Crash`
may come between, and `OpenFile` then repairs the file, which can be cut off as well.
`Fsck` is the code's own `fsck()`. `DurableMap` is the promise; its `content` is `durable`, what a
program that opens the file as it is would find. A write of a sector or less is atomic and writes
are ordered, as `staticmap.h:6-11` assumes; a larger table has an image of its own in which its
slots are not there yet, and a larger value is written before the header that makes it one.

Composition: `HttpClient` EXTENDS `CoMutex`, as does `CoMutexRunloop`; `SlackHistory`
EXTENDS `ChatStore`; the detailed modules INSTANCE their abstract ones. `Dns` and `Runloop`
stand alone and share their slot discipline (`allocatable_array`) by name only, since
`dns_t` embeds its own; the lemmas about freelists (`ListLemmas`) serve both. `Websocket` EXTENDS `BytePipe`. `DiscordGateway` and
`DiscordHistory` meet at READY: the first proves the events of a session complete and in
order, the second starts from READY and the events after it in order.

Each module has its `TypeOK` in one of its merged invariants, and their conjuncts
have names of their own, so that a violation says which one:

| Invariant | Parts |
|---|---|
| `QueuesAreSound` | `TypeOK`, `NoOvertaking`, `LockHasKeeper` |
| `RetryIsSafe` | `SentOnce`, `ConnectErrorIsSafe` |
| `LocksAreSound` (http) | `TypeOK`, `OneReader`, `NoLockLeaked` |
| `HoleIsTrue` | `TypeOK`, `NoSilentGap`, `NothingLost`, `HoleIsBeforePos` |
| `UpIsWatched` | `TypeOK`, `StaleOnlineIsShort`, `LiveIsWatched` |
| `SlotsAreSound` (dns) | `TypeOK`, `NoFault`, `WaitingIsWatched`, `NoSlotLost` |
| `SlotsAreSound` (run loop) | `TypeOK`, `NoFault`, `NoSlotLost`, `OwedIsPaid` |
| `GuildsAreTrue` | `TypeOK`, `AvailableIsShown`, `GoneIsHidden`, `LostIsShown` |
| `HolesAreTold` | `TypeOK`, `NoSilentGap`, `RecordIsTail` |
| `NothingLost` (bouncer) | `TypeOK`, `NoLineUnseen` |
| `SocketbufIsSound` | `TypeOK`, `BytesInOrder` |
| `MapIsSound` | `TypeOK`, `SearchesEnd`, `FsckPasses`, `GetsWhatWasPut` |

## 4. The runs

| Run | Bounds | What it shows |
|---|---|---|
| `co_mutex` | 4 coroutines, 2 mutexes (5,616 states) | exclusion, order, keeper, no dangling handle, everybody enters, refines `FifoLock` |
| `http` | GET, POST, GET to one origin, or one of them elsewhere or with an unknown scheme; any of them cancelled, but not once it is scheduled; server may close (467,000) | one reader; the check behind `mut2` never accepts a foreign response; no unsafe repetition; `e_connect` means not sent; no lock leaks; right server; whoever is not cancelled is answered with their own response; in order, but for a call inside a send that fails; refines `HttpService` |
| `history` | 7 messages, pages of 2, a cache of 5, 2 failures or restarts, 1 deletion, 2 clicks (333,000) | order, no silent gap, nothing lost, the hole is where the position says, everything shown in the end |
| `slack_connection` | 6 faults (4,618) | a stale "online" is short; a live connection is watched; a healthy one kept; online in the end |
| `dns` | 3 lookups, 2 tries, 4 ids, array of 1 slot (773,000) | no fault, the timer is due in time, no slot lost, every lookup ends in time |
| `runloop` | 2 waiters, delays to 2, chain of 2 (17,000) | no fault, no slot lost, what `ppoll` reported runs, only that runs, every timeout ends |
| `discord_gateway` | 2 guilds, 3 faults or commands, 2 guild changes (222,000) | events of a session complete and in order over resumes, guild list true, a healthy connection kept, online in the end |
| `discord_history` | two open channels and a muted one with 4, 1 and 1 messages, pages of 2, 2 faults (925,000) | lines placed where they can be, no id of a message or loading line used twice, order, holes told of, the loading line goes away |
| `irc_bouncer` | 2 interfaces, 1 channel, 2 other nicks, 2 events (631,000) | interfaces show the truth, no line twice, none lost, everybody catches up |
| `websocket` | 2 frames of 5 kinds, buffers of 2 bytes, 5 events (500,000) | messages whole and in order, bytes sent once, everything arrives |
| `staticmap` | 2 keys that collide, 3 values of 2 sizes, a file of 4 units that grows to 16, a crash between any two writes (1.4 million) | searches end, `fsck()` passes, the map holds what was put, refines `DurableMap` |
| `staticmap_huge` | a value larger than the file | **violated**: `FsckPasses` |

Further configurations instantiate the same modules at the constants under which a known
defect shows (section 7): `MCCoMutexCancel`, `MCHttpCancel`, `MCSlackHistoryClick`, `MCSlackHistoryCache`,
`MCDnsAgain`, `MCRunloopGrow`, `MCDiscordHistoryOverlap`, `MCWebsocketEmpty` and `MCStaticMapEnds`. TLC
ends each with a counterexample, within seconds. Six more need only a constant or the property of a run changed:
`Sends = {TRUE, FALSE}` in `MCDiscordGateway.cfg` with `LostIsShown` as the only property,
`Handshakes = {"open", "silent"}` there with `EventuallyOnline` and `CHECK_DEADLOCK FALSE`,
`Unmarked = TRUE` in `MCStaticMap.cfg`, `Races = {"trim"}` in `MCIrcBouncer.cfg`,
`CancelScheduled = TRUE` in `MCHttpClient.cfg` (`LocksAreSound` and `EventuallyAnswered` fail), and
`IdsAreUnique` as the only property of `MCDiscordHistory.cfg`.

Why the bounds are enough:

- *co_mutex*: three waiters behind a holder exercise the head, the middle and the tail of
  the list; two mutexes are what the only chain in the program has. Safety,
  order and the refinement are proved for any number.
- *http*: three requests give a reader, one that is pipelined behind it and one that cannot
  be, or one that fails at once or wants another server while others hold locks. Four successful
  connections are one per request and one for a retry. A cancelled request is owed nothing,
  and the others must not notice, if it was not scheduled. Safety and the refinement are proved for any requests.
- *history*: a page of two messages out of seven leaves three page borders in every history;
  `Kept = 5` is more than two pages, as 75 is more than twice 28, and less than all there is;
  `Margin = 0` because ids are spaced more widely than the 30 seconds
  `scrollback_segment` allows for clock differences. `Burst` bounds the events queued
  until `network()` handles them; `Burst = Limit` keeps them within a page (section 7).
- *slack_connection*: every pair of faults on two connections in a row fits into six.
- *dns*: an initial array of 1 instead of 8 makes every second lookup grow it. Three
  lookups let one complete, one be completed by it and one be in the array's new half. Both
  properties are proved for any number.
- *runloop*: the timeout array has room for all that is registered, since its growth is
  the question of `MCRunloopGrow`. The descriptors' array does grow in `runloop`, one slot at a
  time. The same properties also hold for 3 waiters with `TimeoutSlots = 3`,
  `MaxDelay = 1`, `MaxChain = 1` (943,000 states); that run adds nothing but minutes. Both
  properties are proved for any number.

- *discord_gateway*: three faults are a broken resume of a resumed session, the longest chain
  that `online_resume` has to carry; two guild changes are one the client sees and one it misses,
  or a guild that goes and comes back.
- *discord_history*: four messages are two pages; `CacheSize = 2` is less than what was
  shown, so that a restart forgets some of it, and `HeldSize = 4` is reached, so that the record is
  cut. Two faults let an outage meet the recovery from another one. Two open channels let one
  wait in the queue, gain and lose messages, or be dropped from it, while the other's page is on its way; the
  second needs one message for that (`MaxPosts`), and the muted one one that is not fetched.
- *irc_bouncer*: the two events are two things people on IRC, interfaces or the network do;
  everything that follows from them is not counted. Two interfaces give one that stays while
  the other comes back, and the second detachment overwrites the first's state. `ShownOnce` and
  `NothingLost` are proved for any number.
- *websocket*: `Short = 1` makes the frame *long* use the 16-bit length. Items of up to 8
  bytes against buffers of 2 make every pipe grow and every read span both buffers; a
  kernel buffer (`Capacity`) of 4 takes part of the request and of two frames. Five events are a
  handshake and two frames with a reset or two sends between.
- *staticmap*: a root and a first table of one unit, 4 slots, make the second insertion grow
  the table; the values of one and two units, a table that moves and a file that doubles give
  blocks of four sizes that are split and merged. The thresholds of the table are lower than
  a half and three quarters, which its size here does not allow. The operations are not
  counted: the run has all there are in files of up to 16 units. `Stale = FALSE` drops headers
  that lie inside other objects; with `Stale = TRUE` and two values the same holds in 6.2 million
  states.

Deadlock is checked in `co_mutex`, `slack_connection`, `dns`, `runloop` and
`discord_gateway`, which never stop. `staticmap` does not stop either. The others say `CHECK_DEADLOCK FALSE`: requests are made
once and ids, frames and events are bounded, so everything may be done.
`MCDns` uses the symmetry of lookups and ids, sound as its run checks invariants only.

Every property of a passing run has a mutant of the mapped code that breaks it
(`PROJECT.json`, `mutants`); the mutants are the definitions next to the originals:
`UnlockBarging` (hand the mutex to nobody and let them race), `MayReadUnchecked`
(skip the check of generation and counter), `SegmentEndsHole`, `ForgetEarlier`, and so on.

## 5. Fairness

- **co_mutex**: `WF` on a running coroutine's next step (it is plain code), `SF` on
  `Resume`, since the run loop drains its queue in every step however many coroutines it
  runs between, and on `Wake`, since what a coroutine waits for inside the lock is a socket
  or a timer with a timeout.
- **staticmap**: none; what it promises is about any end at any time.
- **http**: `WF` on each request's own step and on the server's sending. That is what the
  code relies on too: `http_t` has no timeout of its own, so a server that neither
  answers nor closes blocks every request behind it. Nothing makes the caller cancel,
  keep-alive expire or the server close.
- **history**: `WF` on `network()`'s own steps, on the server's answers and on the clicked
  page's. Failures are bounded by `MaxFailures`, so "in the end" means "after the last
  outage". The user need not click: `EventuallyShown` is satisfied by a visible hole.
- **slack_connection**: `WF` on the clock, the timer's callbacks, `network()`'s steps and
  on a healthy server's *hello* and *pong*. Nothing makes faults stop but their bound.
- **runloop**: `WF` on every step of `step()`, on returning from a callback and on
  `ppoll` when its timeout is 0; `SF` on `Tick`, since the clock advances whatever the
  program does. Callbacks may register and schedule for ever, except that
  `MaxChain` bounds the coroutines scheduled between two polls: an endless chain of
  them does starve timeouts in the code.
- **discord_gateway**: `WF` on the answers to the HTTP call and the handshake, on timers, and on
  what is on its way through a connection that works. Faults are bounded, nothing else
  makes them stop. `HealthyIsKept` needs no fairness: heartbeats are answered before the
  next one is due, which is what *healthy* means.
- **discord_history**: `WF` on calls being answered, events arriving, the gateway connecting
  again.
- **irc_bouncer**: `WF` on `Progress`, the disjunction of reading a socket, the autopilot's timer
  and the network's answers. Each of its steps takes something away from a finite amount, so
  none can starve another. It is spelled out as `[]<>~MayProgress \/ []<><<Progress>>_vars`, with the
  condition under which `Progress` can happen, which is cheaper than `ENABLED`; that the two are the
  same was checked as an invariant.
- **websocket**: `WF` on the coroutine's steps, the owner's reconnecting, the run loop's two
  reports, the network and the server's answer to the request. Five of these are spelled out as
  `[]<>~condition \/ []<><<A>>_vars` with the condition under which `A` can happen, which is what
  `WF_vars(A)` means and much cheaper to evaluate than `ENABLED`.
- **dns**: none; *EndsInTime* is an invariant about how long a caller has waited. Time
  cannot pass a due timer (`Tick`), which is the run loop's promise to run it, and
  dispatching takes no time.

## 6. The proofs

All are checked by TLAPS for every value of the constants.

| Module | Theorem | Statement |
|---|---|---|
| `CoMutexProofs` | `TypeCorrect` | `Safe => []TypeOK`, with or without late cancellation |
| | `Exclusion` | `~CancelScheduled /\ Safe => []MutualExclusion` |
| | `Fifo` | `~CancelScheduled /\ Safe => []QueuesAreSound` |
| | `Refinement` | `~CancelScheduled /\ Safe => Lock!Safe`: the chain implements `FifoLock` |
| `SlackConnectionProofs` | `TypeCorrect` | `Spec => []TypeOK` |
| | `StaleOnlineCorrect` | `Spec => []StaleOnlineIsShort` |
| | `WatchedCorrect` | `Spec => []LiveIsWatched` |
| | `UpWatchedCorrect` | `Spec => []UpIsWatched`, all three together |
| | `KeptCorrect` | `Spec => HealthyIsKept` (an action property) |
| `DiscordGatewayProofs` | `TypeCorrect` | `Spec => []TypeOK` |
| | `BeatsAreAnswered` | `Spec => HealthyIsKept` (an action property) |
| | `NothingIsMissed` | `Spec => []EventsInOrder` |
| | `TheListIsTrue` | `GuildRules /\ Spec => []GuildsAreTrue` |
| `HttpClientProofs` | `SocketIsGuarded` | `~CancelScheduled /\ Spec => []LocksAreSound` |
| | `NothingIsRepeated` | `~CancelScheduled /\ Spec => []RetryIsSafe` |
| | `SentToItsOrigin` | `~CancelScheduled /\ Spec => []RightOrigin` |
| | `PipelinedGetsItsOwn` | `~CancelScheduled /\ Spec => []PipelinedResponseIsOwn` |
| | `EverybodyGetsTheirOwn` | `MayCancel = {} /\ ~CancelScheduled /\ Spec => []ResponseIsOwn` |
| | `IsTheService` | `~CancelScheduled /\ Spec => Service!Safe`: the client implements `HttpService` |
| `RunloopProofs` | `SlotsAreKept` | `Spec => [](TypeOK /\ NoSlotLost)` |
| | `NobodyIsSkipped` | `Spec => [](fault = None => OwedIsPaid)` |
| | `OnlyPolled` | `Spec => OnlyPolledRun` (an action property) |
| | `LoopIsSound` | `IsFiniteSet(Waiters) /\ Cardinality(Waiters) <= TimeoutSlots /\ Spec => []SlotsAreSound` |
| `DnsProofs` | `SlotsStaySound` | `~AgainInTimeout /\ Spec => []SlotsAreSound` |
| | `LookupsEndInTime` | `~AgainInTimeout /\ Spec => []EndsInTime` |
| `IrcBouncerProofs` | `NoLineIsLost` | `"trim" \notin Races`: `Spec => []NothingLost` |
| | `NothingIsShownTwice` | `"early" \notin Races`: `Spec => []ShownOnce` |

Assumptions: `CoAssumption` (`Stages` is a positive natural, `Nil` is no coroutine),
`FaultAssumption` (`MaxFaults` is a natural), `GatewayAssumption` (the bounds are naturals,
the sets of choices are of the right kind) and `HttpAssumption` (methods, origins and bounds of the
right kind; a request is neither an error nor `None`, since it stands for its response in
`result`), `RunloopAssumption` (bounds are naturals, and `None` and `Main` are nobody's name),
`DnsAssumption` (positive naturals, `None` is no number and nobody's name, and there are more
transaction ids than lookups, which is not used), and `NicksAssumption` and `UisAssumption` (the
bouncer's nick is nobody else's, and `Nobody` is no interface). No
finiteness is assumed, but for the waiters in `LoopIsSound`. `TheListIsTrue` has a
hypothesis about constants, `GuildRules`, which those of the run `discord_gateway` satisfy: no send fails inside a
handler (with one that does the property is false, finding 9), and a server does not refuse a
session on a connection it serves (the refusal of a *resume* is not excluded). The other three
theorems about the gateway hold without it. `EverybodyGetsTheirOwn` needs `MayCancel = {}`, because a
response to a cancelled request can be taken for another's (finding 3); the other theorems about
the client hold with any cancellations but that of a request `unlock()` has scheduled: as in `CoMutexProofs`,
`~CancelScheduled` is a hypothesis of all of them, since the mutex such a request was given stays locked
for nobody (finding 2). The theorems about a chain of mutexes say nothing of handles the run loop resumes
after their coroutines are gone: only the excluded cancellation makes them. `LoopIsSound` is about programs whose waiters have room in the
first array of timeouts, as those of the run `runloop` have: with more of them the loop can walk a freed
array (finding 7). What does not depend on that is in the three theorems before it. The theorems about
`Dns` exclude a caller that looks up again while `timeout()` fails it (finding 6), as the run `dns` does;
a caller may do so while an answer completes it, and may cancel any lookup at any time.
The theorems about the bouncer each exclude the one race that breaks them: a history of which only
a part is older than a week when an interface attaches (finding 14), and a line that is broadcast to a
client before it asks for the state (section 7). Neither needs the other's hypothesis, and both hold whether or not `"seconds"` is in `Races`.
`ListLemmas` holds lemmas only: about the lists of a co_mutex from which an element is taken, about
freelists, about the least of a set of numbers, and about lists of anything that get longer, lose their
head or are joined.

**Exclusion** is not inductive. `IInv` adds what makes it so:

- `WaitersWait`: whoever is in a mutex's list is suspended at that mutex, and is in it once;
- `ScheduledOnce`: a scheduled coroutine is the *first* waiter of a mutex that is locked for
  it alone, with no holder, and no mutex has two of them;
- `HeldIsLocked`: the mutex of a coroutine that is inside is locked, so that `EnterFree`
  cannot happen beside it.

A coroutine thus gets in only where nobody is: through an unlocked mutex, or as the one
that was handed it. `Unlock` by a holder creates at most one scheduled coroutine, for a
mutex that had none since it had a holder (`UnlockStep`); `Resume` turns it into the
holder (`ResumeStep`); cancelling a waiter that is not scheduled takes it out of its list,
and the head stays the head unless it was the one (`UnlinkStep`, from `UnlinkAt`, `UnlinkAbsent`
and `UnlinkDistinct` about sequences). Destroying a *scheduled* coroutine breaks
`ScheduledOnce`; this is why `~CancelScheduled` is assumed, and `MCCoMutexCancel.cfg`
shows that it has to be.

**Order.** `OrderInv` relates the queues to `arrival`, the coroutines in the order they
started. Two of its parts carry the argument. `WaitersInOrder`: every mutex's list is in the
order of `arrival`. `ArrivalInOrder`: of two coroutines the later is at an earlier mutex,
or at the same one, and then the earlier has queued for it or taken it and the later
does not hold it. The rest says that nothing is missing: `arrival` is exact, whoever waits is listed, a list
that is not empty has a locked mutex, a locked mutex has a holder or a first waiter that is scheduled.
`UnlinkOrder` and `AppendOrder` say what the list operations do to *precedes*. With
`IInv` this is inductive, and `Simulation` needs nothing else: the owner
of an abstract lock is the holder or, when `unlock()` has scheduled it, the first waiter, and its queue is
the rest of the list. A step of the chain is a step of one lock (`OneMutex`) or a stutter.

**The connection.** `Inv` joins the properties with two facts about phases:
`QuietUntilLive` (until `network()` handles messages, nothing is online or pinged and the
timer will restart it) and `RestartMeansPinged` (while it handles them on an open websocket,
a timer that will restart it has an unanswered ping behind it). Every path through
`network()` that suspends has set the timer before; `NextInv` goes through them one action
at a time, and `KeptCorrect` follows since a restart is the timer's step.

**The gateway.** `GatewayInv` has a part for each thing that the client and the server must
agree on while messages are under way in both directions.

- `LinkInv`: without an open websocket nothing is under way.
- `BeatInv`: a heartbeat that was sent on an open connection and not answered is under way
  itself, or its answer is. `HealthyIsKept` follows.
- `AskInv`: what the client asked for (identify or resume) is asked once per connection, and the
  server serves it only after that.
- `StreamInv`: the events under way are those that follow `m_sequence` in the session's log,
  in order and without a gap, and all of them while the server serves the connection.
  `StreamGrows`, `StreamTail` and `StreamReplay` are its three moves: an event happens, one
  arrives, a session is resumed.
- `ServerInv`: what the log says last about a guild is what the server holds true.
- `GuildInv`: what the log up to `m_sequence` says last about a guild is what the client shows, or
  what `online_resume` keeps until RESUMED has arrived; no guild is shown before the session is
  the client's again, and none that the session never announced.

`GuildsAreTrue` follows when nothing is under way: then `m_sequence` is the length of the log.

Each disjunct of `Next` has a lemma per part; what ends a connection (`Lost`) and what
only adds to it (`Behind`) are treated once for all the actions that do so.

**The HTTP client.** Its invariant `Inv` has four layers.

- *Locks*. `MutexesOK(pc, held, mut, scheduled)` is the mutexes' `IInv`
  again, with `OneHolder` and `LockHasKeeper`. It is an operator on values and not on variables: `Return`
  releases two locks at once and `Cancel` releases one or leaves a queue, so their steps are compositions of
  `TakeOK`, `EnqueueOK`, `UnlockOK` and `ForgetOK`, each proved once. `StackOK` says who runs: an
  answer resumes its caller inside the code that gave it, and a send that fails resumes the reader, so every
  coroutine on the stack but the innermost is in its last step or in such a send. `HeldAt` says which locks a request can have at each label; `SocketIsGuarded`
  follows.
- *Retries.* `RetryAt`: how often a request was sent, against `can_retry`, per label. A retry clears
  the flag before it sends, and every answer `e_connect` leaves it set.
- *The wire.* `Place` is the number with which a request was sent on the present connection, from its
  `last_sock_generation` and `sock_recv_expect`. `WireOK` says of a connection with `n` requests
  sent and `k` received that what has arrived and what has not are the responses from number `k + 1`
  on, heads and bodies in turn (`Aligned`), that no two requests have one number, and that none
  has a number above `n`.
- *Own responses.* `OwnAt`: a request that may still be sent again reads only in its turn. The check
  behind `mut2` compares `sock_recv_expect` and the generation, which is exactly `Place`.

`RightOrigin` rests on the socket's origin changing only where the socket does.

**The service.** Two more invariants make the client a queue.

- `OrderInv` is about the turns. `pending` is the list of requests that were made and are not
  over, in the order of the calls but for one that was `Overtaken`; each is `Behind` no later one: it is further (`Rank`), or waits for the same mutex and is in
  front of it there; and who has `mut1` has let no later one take it. The one that has `mut2` is thus the first of
  `pending` (`FrontPrecedes`), which is what the abstract `Answer` takes.
  One that is at `"sending"` while `mut1` is free is behind a request that comes now (`Level`,
  `InTurnOrder`), and there is at most one such since without a socket nobody sends (`NestInv`).
- `TurnInv` is about responses while nobody was cancelled: every response to come is `Awaited` by a
  request that was sent and is not answered. With `PlacesInOrder` (requests are sent in the order of
  their turns; `UnsentInv`: none was sent that is behind one with `mut1`) it follows that whoever holds `mut2` reads its own response (`ReaderIsNext`), also
  where the code checks no counter: a request that reuses the socket finds no response outstanding
  (`NoGap`), since the earlier requests have all been answered. A cancellation makes this
  false, and `HttpService` then allows any response.

Every step maps: `Call` is `Request`, in either place, `Cancel` is `Cancel`, what gives an answer is `Answer`, and the
rest, the server's steps included, is a stutter.

**The run loop.** An array of slots with its freelist is `ArrayOK`: the freelist names the free
slots, each once (`FreeIs`), and nobody waits twice. `PutOK`, `AppendOK`, `ClearOK` and `GrowOK` are what
`reserve_space()`, `cancel()` and `reallocate()` do to it. `Inv` relates the arrays to the position of
the loop: `PolledInv`, what `ppoll()` reported of a slot that is not passed yet is about a waiter that
is owed its turn; `OwedInv`, everybody who is owed a turn is in a slot that is not passed yet, be
it of this loop or of the next. A new waiter can come only into a slot of which nothing is reported (it
is free, and `AwaitFd` clears `revents`), one that leaves is owed nothing, and the loop takes the least slot
that is ready (`Least`), so it passes nobody. For `NoFault`, `Room` says that the array of timeouts has no
length but its first: if it were full there would be more waiters than `TimeoutSlots` (`SlotLeft`).

**Lookups.** What makes `DnsInv` inductive is what holds in the middle of a call, where the
properties say nothing. `Owners` gives every slot the lookup it is for, also the one that
`await_lookup()` has filled and that has no waiter until `timeout()` returns. `ArrayOK` relates
owners, freelist and callers: a slot is free exactly if nobody owns it, a caller is busy exactly
if it owns a slot, and its age and what is `Left` of its time are together at most the time of all its
tries; `Tick` moves one from the second to the first and a retry nothing. `LookupsEndInTime` follows.
`StackOK` says which calls can be inside which (`Nested`), and that the loop's bound is due no later than
every slot it has passed (`InTime`), so that after the last slot it is due no later than any. `TimerOK` and
`SockOK`: a timer that runs is due in time for everybody, one that does not is about to be started by the
loop in progress; the socket is open while a slot is owned or `complete_recv()` will use it
again. The last is why the loop that runs inside `complete_recv()` must not find nothing to wait for: it was
called for a slot of its own. With `AgainInTimeout` two loops could be in progress, and both
`Nested` and the bound of the outer one fail.

**The bouncer.** `IInv` says what the two ends of a socket know of each other. A stamp in the
history or on its way is at most `n`, and the history's stamps grow (`SrvOK`, `OutOK`, `UisOK`); an
interface that is not connected has nothing on its way to it and, if the bouncer still counts it as a
client, is in `gone` (`SockOK`); a `'C'` is the first thing in a socket and only before the client is
ready (`InOK`), so nobody asks twice; a bouncer that does not run has no history and no clients (`DownOK`).

`NoLineUnseen` is not inductive: it says that an owed line is on its way or behind `last_disconnect`,
and a detachment moves that place to the end of the history. `Served` is what is missing:
while any client is ready, whatever is owed is on its way to somebody. The server reads the end of a
connection after its `'C'` (`InOK`), so the client was ready and nothing waits (`ServerEofOwed`).
`Configure` restores `Served` for a first client: it sends all that is behind `last_disconnect`, and what it
does not send is on its way already or too old to be owed; what would have gone to a client that is gone by
then counts as taken by its connection. With a part of the history trimmed it does not send all
of it, which is how the proof met finding 14.

`ShownOnce` needs to know what an interface will be sent *before* it asks: `FreshFor` says that
every line of the history behind `last_disconnect` is later than the last line it showed and than all that is on its
way to it, for as long as it is not ready. An interface that leaves sets `last_disconnect` behind what it
was sent; until it does, its end is in `gone`, and it does not connect again. Both proofs treat
`Track` and `Replay` as opaque: what a line does to a tracker does not matter to where it goes.

Out of this prover's reach, and left to TLC: liveness under fairness and `ENABLED`
(`EventuallyEnters`, `EventuallyAnswered`, `EventuallyShown`, `EventuallyOnline`,
`EveryTimeoutEnds`, `LoadingEnds`, `UiCatchesUp`, `EverythingArrives`); induction over data.
The liveness parts of `Lock!Spec` and `Service!Spec` are among it; their safety is proved.
`UiIsTrue` of `IrcBouncer` is: it is about a fold of `Track` over the history, and that a fold over two
lists joined is one after the other needs induction over lists.
Model-checked only, so far: the refinement of `DurableMap`, and all of `SlackHistory`,
`DiscordHistory`, `Websocket` and `StaticMap`. The order of `SlackHistory` is built with `SelectSeq` and
`SetToSortSeq`, of which none of the installed provers knows anything, and what they return is again induction.

## 7. What the checks found

With a run that shows it (`PROJECT.json`, `findings`):

1. **An object larger than the file** (`staticmap_huge`, `arlib/staticmap.cpp:269`). `alloc()`
   doubles the file once and takes the new half, whatever is wanted. The first image of more than 64 KiB
   in a new cache gets a block that is not aligned and ends behind the file.

With a configuration that shows it:

2. **A destroyed coroutine is resumed** (`MCCoMutexCancel`, `arlib/runloop2.h:880`).
   Nothing takes a scheduled handle back. A `co_holder` that holds an owner and a waiter
   of one mutex is enough: `reset()` destroys the owner, whose lock schedules the waiter,
   and then destroys the waiter. The mutex stays locked for nobody. The same happens to a request that
   is cancelled when it has been handed `mut1` or `mut2` and not run yet: all later ones wait
   for ever (`CancelScheduled = TRUE` in `MCHttpClient.cfg`).
3. **A response goes to the wrong request** (`MCHttpCancel`, `arlib/http.cpp:172`). A
   request that already holds `mut2` and reuses the socket does not compare `sock_sent`
   with `sock_received`, so it reads the response of a request that was sent and cancelled.
4. **A hole closes over missing messages** (`MCSlackHistoryClick`, `chatbase.h:641`). Two
   fetches of one page: the second finds the first's messages and takes them for the far side.
5. **A page is inserted behind older messages than its own** (`MCSlackHistoryCache`,
   `chatbase.h:648`). After a year of silence the cache keeps five messages; a page of 28 reaches
   over them, and what is older than the oldest is inserted where the hole was.
6. **A null socket** (`MCDnsAgain`, `arlib/dns.cpp:341` and `:326`). A caller that
   `timeout()` fails looks up again and gets the slot the loop has passed.
7. **A freed array is walked** (`MCRunloopGrow`, `arlib/runloop-poll.cpp:265`). The loop over
   timeouts is a range-for; the comment ten lines above it says why it must not be.
8. **A server that never says Hello is waited for without a limit**
   (`"silent"` in `Handshakes`, `discord.cpp:2375`). The heartbeat timer starts with Hello.
9. **A failed send leaves guilds online** (`Sends = {TRUE, FALSE}`, `discord.cpp:1086`). Inside a
   handler the socket is closed without `disconnect()`.
10. **A channel is fetched twice** (`MCDiscordHistoryOverlap`, `discord.cpp:1692`). Announced
   again while its page is on its way it is not in the queue; the second page finds the loading
   line gone and inserts at a line that does not exist.
11. **A send without bytes** (`MCWebsocketEmpty`, `arlib/socket-helpers.cpp:171`). A first
   send is taken in part and leaves a wait for the socket to become writable; a second one
   flushes everything and does not cancel that wait. `send_sync()` says it cannot send
   zero bytes; the 0 it returns is taken for the end of a healthy connection.
12. **A file that nobody marked** (`Unmarked = TRUE`, `arlib/staticmap.cpp:84`). After opening a
   cleanly closed file `synced` is false, so `desync()` does not set the signature, and a
   program that ends in its first changes leaves a half-made one that is not repaired. The
   `staticmap` run has `Unmarked = FALSE`: the program does not end there.
13. **Lists stay marked as the last** (`MCStaticMapEnds`, `arlib/staticmap.cpp:245` and `:293`).
   The loop that should clear the marks of smaller lists tests and clears the same one again, and
   `dealloc()` clears none; the next allocation doubles the file although there is room.
14. **Lines are passed over in a replay** (`Races = {"trim"}`, `irc.cpp:945`). The loop that drops
   lines older than a week from the history leaves its index where they ended, and the loops that
   track and send the rest go on from there: of a history of ten lines of which three are too old
   the interface gets neither the fourth, the fifth nor the sixth. `NothingLost` and `UiIsTrue` fail. The
   `irc_bouncer` run has histories that are dropped as a whole or kept as a whole.
15. **A call made inside a failed send overtakes the sender** (`Overtaken`, `arlib/http.cpp:129`,
   `arlib/socket-helpers.cpp:60-88` and `:167-178`). The send finds the connection closed, and
   `socket_failed()` completes the read of the request that has `mut2`; if that one is answered there, its
   caller may make a new request, which takes `mut1` and comes to `mut2` while the sender is still in
   `send_flush()`. It is answered first, where the tests "http 4" and "http 5"
   (`arlib/http.cpp:406`, `:449`) expect the order of the calls. With
   `MayBreak <- FALSE` in `HttpClient`'s `Service` TLC finds `ImplementsService` violated.
16. **An id is used twice** (`IdsAreUnique` in `MCDiscordHistory.cfg`, `discord.cpp:1145`, `:1173`, `:1723`
   and `:1728`). The line that tells of a hole always has the id *scrollbackfail* and is put for every hole of a
   channel, although "IDs may not be reused within a channel, unless message_delete_true is used"
   (`russian.h:105`). A muted channel gets it again after an outage with a new message. The run's
   `LinesArePlaced` excepts this one id.

Met while modelling, and kept out of the passing runs by a named constant or guard:

- A second outage while a hole is open forgets the first hole (`slack.cpp:407`;
  `OneHole`). With `OneHole = FALSE` `InOrder`, `NoSilentGap` and `NothingLost` fail.
- The message at `scrollback_pos` is deleted while its page is fetched: the page is
  inserted at the end (`chatbase.h:616`; the guard of `Delete`, `Overlap`).
- A page clicked for while events arrive, or while no page has arrived at all
  (`chatbase.h:633-640` has a todo for it; `Overlap`).
- A hole between two saved messages is forgotten by a restart (`slack.cpp:97`; `OneHole`).
- When a page that `network()` fetched opens the tab and closes the hole, the notice stays.
- A burst of events longer than a page (`Burst <= Limit`).
- A page may bring back a message deleted while it was on its way.
- Closing the tab during a clicked fetch leaves a null `ch.host` to be used
  (`chatbase.h:461`); in the model using it has no effect.
- A body cut short by the end of the connection is handed over as complete
  (`arlib/http.cpp:250-252`; `http.h:54` has `e_broken` for it). `LostInBody` is the step.
- A nested lookup may draw the transaction id of the lookup being started
  (`arlib/dns.cpp:219`), and the pointer `timeout()` returns may be into a freed array
  (`arlib/dns.cpp:288-289`); both need `AgainInTimeout`.
- Discord: a page that overtakes the event of a message on it, or that is overtaken by the event
  of its deletion (`"early"` in `Races`); a fetch cut off after a live message arrived behind
  the loading line (`"cut"`). `InOrder`, `NoSilentGap` and `RecordIsTail` speak of channels
  whose record was in order whenever its oldest messages were dropped (`InStep`).
- Bouncer: a line broadcast to a client that was accepted and has not asked for the state is
  replayed to it again (`"early"` in `Races`); a state left behind while IRC is down says that
  it is up (`"offline"`); an interface that attaches again after a ping timeout doubles its
  member lists (`merged`, which `UiIsTrue` excepts until the next 001).
- Bouncer: a client's line is stamped with `time(NULL)`, in seconds, where all others have
  microseconds (`irc.cpp:919`). In an empty history it is from 1970, and the next `'C'` drops it, alone, as
  older than a week (`"seconds"` in `Races`). With `"trim"` that is one more way to finding 14; without it
  no property fails.
- Discord: `fatal()` cancels `m_ws_coro` without asking `m_ws_coro_running` (`discord.cpp:571-581`), and it is
  called from inside `connect()`, through `ws_str()` and `ws_bin()` (`discord.cpp:1857`, `:2246`): the
  coroutine destroys itself while it runs. What follows is undefined; the model has no `fatal()`.
- `recover()` of a file in which no block is free looks for the last list that is not empty
  before the array (`arlib/staticmap.cpp:206`; `HasRoom`).
- `insert()` returns its slice 8 bytes too far, at `off_r_entries` instead of `off_d_keystart`
  (`arlib/staticmap.cpp:432`); nothing in the model reads it.
- Slack: `init()` calls `terminate()` on a bad configuration, and the constructor goes on to
  start the timer (`chatbase.h:251`).
- Matrix: a limited timeline replaces `scrollback_prev_batch`, and an open hole before it
  is forgotten (`matrix.cpp:412`).
- Cancelling an `await_send` cancels the wait of `send_by` too (`arlib/socket.h:332`).

Assumptions about the outside: the server answers a connection's requests in order; each
Slack call gets its own answer (what finding 3 may break; composing the two is planned);
Slack replays what was missed on a fast reconnect, so that path needs no hole.

## 8. Not modelled, and the plan

Not modelled for good: vendored code; system calls, TLS and the SOCKS5 handshake (what
their users see is a choice); parsers, formatting and containers (sequential code about
bytes with unit tests of its own); drawing and layout; the Windows run loop; the test
runner's hooks. These, with the generated OpenGL headers, are most of the repository's lines, and
the reason why the modelled share of all lines stays small: the models cover the code in
which the order of events decides.

Left out inside modelled parts: URL parsing and request formatting, a status line over 8192
bytes, log files, users and members, message edits, sending messages, the `terminate()`
path, the packet format of DNS; in Discord `fatal()` (section 7), members, roles, emojis, threads and
visibility rules, and two messages within 30 seconds; in IRC queries, topics, modes, text,
commands, nick collisions, the login, flood control and the use of freed memory when a line
is sent to a client that is gone; in `socketbuf` partial reads, TLS on top, and a cancelled
`await_send` whose connection lives on; 64-bit lengths of frames; in `staticmap` the hash function,
iteration, and values written through a writable mapping.

Not modelled yet:

| Part | What a module would be about |
|---|---|
| `matrix.cpp` | a limited timeline and an open hole (`matrix.cpp:412`); it fills holes by the same `scrollback_segment`, which `ChatStore` models |
| `imgcache_t` (`main.cpp:398`) | one fetch at a time, `todo_process` called from inside the coroutine it starts; no view shows a deleted image; what of `StaticMap` the cache keeps |
| `co_holder`, `multi_waiter` | growth under waiters |
| `run_once` | the futex protocol |
| `HttpClient` under `SlackHistory` | what a foreign response does to a channel |

Proofs planned: lemmas about `ChatStore` (append and delete keep the order; a page keeps it when
it fits) and `BytePipe` (what a push or a pull does to the content), which
`SlackHistory` and `Websocket` need; `InOrder` of `SlackHistory`, for which a page's messages
have to be defined by their places instead of `SetToSortSeq`.

## 9. How to run it

In this directory:

    tlc -workers 2 -config MCHttpClient.cfg MCHttpClient    # a run
    tlapm CoMutexProofs.tla                                 # the proofs of a module

`staticmap` and `discord_history` take two to three minutes with two workers, `http` and `dns` one or two, every other
run less. From nothing the proofs of `HttpClientProofs` take five minutes, those of
`DiscordGatewayProofs` three, those of `IrcBouncerProofs` two.
`PROJECT.json` lists the runs with their configurations, maps every definition to the lines
it models, and pairs every property with the mutant that breaks it.
