-------------------------- MODULE SlackConnection --------------------------
(***************************************************************************)
(* The connection of a Slack workspace: chatbase_impl's one timer          *)
(* (m_wait_ping, which restarts network() or sends a ping), and            *)
(* slack::network(), the coroutine it restarts.  Time is counted in units  *)
(* of ten seconds.                                                         *)
(*                                                                         *)
(* network() first tries the fast reconnect address, if it has one;        *)
(* otherwise it asks for an address unless the last one is still good,     *)
(* opens the websocket, and fetches what was missed.  Then it handles the  *)
(* websocket's messages until the websocket fails.  Nothing but the timer  *)
(* ever starts it again.                                                   *)
(***************************************************************************)
EXTENDS Naturals

CONSTANT MaxFaults   \* bound: what goes wrong

ASSUME FaultAssumption == MaxFaults \in Nat

VARIABLES
  stage,      \* where network() is; "none" when it is not running
  timer,      \* m_wait_ping: what it will call, and how soon
  ws,         \* m_ws is open
  online,     \* m_online
  fast,       \* m_ws_addr.reconnect: "no", "good", or "stale" (refused for ever)
  address,    \* m_ws_addr.primary is known and has not expired
  connect_failures,
  pinged,     \* a ping was sent on this connection and not answered
  answers,    \* the server still answers on this connection
  faults

server == <<answers, faults>>
vars == <<stage, timer, ws, online, fast, address, connect_failures, pinged, server>>

Timer(fn, in) == [fn |-> fn, left |-> in]
ReconnectIn(n) == timer' = Timer("start_network", n)
PingIn(n) == timer' = Timer("send_ping", n)

\* The first co_await of network().
FirstStage(f, a) == IF f # "no" THEN "fast" ELSE IF a THEN "ws" ELSE "address"

\* After the constructor called start_network().
Init ==
  /\ address \in BOOLEAN   \* from the cache
  /\ fast = "no"           \* not in the cache
  /\ stage = FirstStage(fast, address)
  /\ timer = Timer("start_network", 3)
  /\ ws = FALSE /\ online = FALSE /\ pinged = FALSE /\ answers = TRUE
  /\ connect_failures = 1
  /\ faults = 0

Fault ==
  /\ faults < MaxFaults
  /\ faults' = faults + 1

\* network() waits for an HTTP call or for the websocket to open.
Waiting == stage \in {"fast", "address", "ws", "sync", "lookup"}

Listening == stage = "live" /\ ws

-----------------------------------------------------------------------------
(* The timer.                                                              *)

\* Ten seconds pass; it is a fault when somebody waits for the server meanwhile.
Tick ==
  /\ timer.left > 0
  /\ timer' = [timer EXCEPT !.left = @ - 1]
  /\ IF Waiting \/ (Listening /\ pinged /\ answers) THEN Fault ELSE UNCHANGED faults
  /\ UNCHANGED <<stage, ws, online, fast, address, connect_failures, pinged, answers>>

Fires(fn) == timer = Timer(fn, 0)

\* connect_failures beyond what it is compared with is not told apart.
OneMore(n) == IF n < 3 THEN n + 1 ELSE n

\* start_network: whatever network() waits for is cancelled, and it starts over.
StartNetwork ==
  /\ Fires("start_network")
  /\ ReconnectIn(3)
  /\ online' = FALSE
  /\ ws' = FALSE /\ pinged' = FALSE /\ answers' = TRUE
  /\ connect_failures' = OneMore(connect_failures)
  /\ stage' = FirstStage(fast, address)
  /\ UNCHANGED <<fast, address, faults>>

\* Mutant of SendPing: the answer is not waited for.
SendPingOnly ==
  /\ Fires("send_ping")
  /\ IF ws THEN PingIn(1) /\ pinged' = TRUE
           ELSE ReconnectIn(0) /\ UNCHANGED pinged
  /\ UNCHANGED <<stage, ws, online, fast, address, connect_failures, server>>

\* send_ping: restart in ten seconds unless a pong comes, or at once without a socket.
SendPing ==
  /\ Fires("send_ping")
  /\ IF ws THEN ReconnectIn(1) /\ pinged' = TRUE
           ELSE ReconnectIn(0) /\ UNCHANGED pinged
  /\ UNCHANGED <<stage, ws, online, fast, address, connect_failures, server>>

-----------------------------------------------------------------------------
(* network() until it is connected.                                        *)

Proceed(to) ==
  /\ stage' = to
  /\ UNCHANGED <<online, connect_failures, pinged, server>>

\* co_return
GivesUp ==
  /\ stage' = "none"
  /\ UNCHANGED <<timer, online, address, connect_failures, pinged, answers>>

FastConnected ==
  /\ stage = "fast" /\ fast = "good"
  /\ ws' = TRUE
  /\ PingIn(1)
  /\ Proceed("live")
  /\ UNCHANGED <<fast, address>>

\* Mutant of ForgetFast: the address is kept.
ForgetFastNever == fast

\* The fast reconnect address is dropped after three attempts without a hello.
ForgetFast == IF connect_failures >= 3 THEN "no" ELSE fast

FastRefused ==
  /\ stage = "fast"
  /\ \/ fast = "good" /\ Fault
     \/ fast = "stale" /\ UNCHANGED faults
  /\ fast' = ForgetFast
  /\ GivesUp
  /\ UNCHANGED ws

GotAddress ==
  /\ stage = "address"
  /\ address' = TRUE
  /\ Proceed("ws")
  /\ UNCHANGED <<timer, ws, fast>>

Connected ==
  /\ stage = "ws"
  /\ ws' = TRUE
  /\ Proceed("sync")
  /\ UNCHANGED <<timer, fast, address>>

\* A call, or the connection to the websocket, failed.
CallFailed ==
  /\ stage \in {"address", "ws", "sync", "lookup"}
  /\ Fault
  /\ GivesUp
  /\ UNCHANGED <<ws, fast>>

Synced ==
  /\ stage = "sync"
  /\ PingIn(1)
  /\ Proceed("live")
  /\ UNCHANGED <<ws, fast, address>>

-----------------------------------------------------------------------------
(* network()'s loop.                                                       *)

Hello ==
  /\ Listening /\ answers /\ ~online
  /\ online' = TRUE
  /\ connect_failures' = 0
  /\ UNCHANGED <<stage, timer, ws, fast, address, pinged, server>>

ReconnectUrl ==
  /\ Listening /\ answers /\ fast # "good"
  /\ fast' = "good"
  /\ UNCHANGED <<stage, timer, ws, online, address, connect_failures, pinged, server>>

\* Mutant of Pong: the next ping is not scheduled.
PongIgnored ==
  /\ Listening /\ answers /\ pinged
  /\ pinged' = FALSE
  /\ UNCHANGED <<stage, timer, ws, online, fast, address, connect_failures, server>>

Pong ==
  /\ Listening /\ answers /\ pinged
  /\ pinged' = FALSE
  /\ PingIn(1)
  /\ UNCHANGED <<stage, ws, online, fast, address, connect_failures, server>>

Goodbye ==
  /\ Listening /\ answers
  /\ Fault
  /\ stage' = "none"
  /\ ReconnectIn(0)
  /\ UNCHANGED <<ws, online, fast, address, connect_failures, pinged, answers>>

\* A message in an unknown channel or of an unknown user: their names are fetched
\* before the next message, or pong, is read.
Lookup ==
  /\ Listening /\ answers /\ online
  /\ stage' = "lookup"
  /\ UNCHANGED <<timer, ws, online, fast, address, connect_failures, pinged, server>>

LookedUp ==
  /\ stage = "lookup"
  /\ Proceed("live")
  /\ UNCHANGED <<timer, ws, fast, address>>

\* msg() returns nothing.
WebsocketFailed ==
  /\ stage = "live" /\ ~ws
  /\ GivesUp
  /\ UNCHANGED <<ws, fast, faults>>

-----------------------------------------------------------------------------
(* The network and the server.                                             *)

Breaks ==
  /\ ws
  /\ Fault
  /\ ws' = FALSE
  /\ UNCHANGED <<stage, timer, online, fast, address, connect_failures, pinged, answers>>

\* The connection dies, and the client cannot tell.
Dies ==
  /\ ws /\ answers
  /\ Fault
  /\ answers' = FALSE
  /\ UNCHANGED <<stage, timer, ws, online, fast, address, connect_failures, pinged>>

GoesStale ==
  /\ fast = "good"
  /\ Fault
  /\ fast' = "stale"
  /\ UNCHANGED <<stage, timer, ws, online, address, connect_failures, pinged, answers>>

Expires ==
  /\ address /\ stage = "live"
  /\ Fault
  /\ address' = FALSE
  /\ UNCHANGED <<stage, timer, ws, online, fast, connect_failures, pinged, answers>>

-----------------------------------------------------------------------------
Progress ==
  FastConnected \/ FastRefused \/ GotAddress \/ Connected \/ Synced \/ LookedUp

Next ==
  \/ Tick \/ StartNetwork \/ SendPing
  \/ Progress \/ CallFailed
  \/ Hello \/ ReconnectUrl \/ Pong \/ Goodbye \/ Lookup \/ WebsocketFailed
  \/ Breaks \/ Dies \/ GoesStale \/ Expires

\* Time passes, the run loop calls what is due, and a server that can answers.
Fairness ==
  /\ WF_vars(Tick) /\ WF_vars(StartNetwork) /\ WF_vars(SendPing)
  /\ WF_vars(Progress) /\ WF_vars(WebsocketFailed)
  /\ WF_vars(Hello) /\ WF_vars(Pong)

Spec == Init /\ [][Next]_vars /\ Fairness

-----------------------------------------------------------------------------
Functions == {"start_network", "send_ping"}

\* Types; the timer never runs longer than it was armed for.
TypeOK ==
  /\ stage \in {"none", "fast", "address", "ws", "sync", "live", "lookup"}
  /\ timer \in [fn : Functions, left : 0 .. 3]
  /\ timer.fn = "send_ping" => timer.left <= 1
  /\ ws \in BOOLEAN /\ online \in BOOLEAN /\ address \in BOOLEAN
  /\ pinged \in BOOLEAN /\ answers \in BOOLEAN
  /\ fast \in {"no", "good", "stale"}
  /\ connect_failures \in 0 .. 3
  /\ faults \in 0 .. MaxFaults

\* A workspace shown as online whose network() has ended is at most two timers of
\* ten seconds from the restart that shows it as offline: no way out of the loop
\* leaves the long timer, and a ping into a socket nobody reads is the last one.
StaleOnlineIsShort ==
  online /\ stage \notin {"live", "lookup"} =>
    timer.left <= 1 /\ (pinged => timer.fn = "start_network")

\* Once network() handles messages, its connection is watched by a timer of ten
\* seconds, and with a ping unanswered that timer is the restart.
LiveIsWatched ==
  stage \in {"live", "lookup"} =>
    timer.left <= 1 /\ (pinged => timer.fn = "start_network")

\* A workspace that is, or looks, connected is watched by a short timer.
UpIsWatched == TypeOK /\ StaleOnlineIsShort /\ LiveIsWatched

\* A connection that is up is only restarted when a ping was not answered.
HealthyIsKept ==
  [][StartNetwork /\ Listening => pinged]_vars

\* Whatever failed, the workspace is online again, and has a network() that listens.
EventuallyOnline == []<>(online /\ Listening)
=============================================================================
