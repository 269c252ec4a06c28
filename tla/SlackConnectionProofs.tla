----------------------- MODULE SlackConnectionProofs -----------------------
(***************************************************************************)
(* Proofs about the connection, for every number of faults.                *)
(***************************************************************************)
EXTENDS SlackConnection, TLAPS

\* Until network() handles messages nothing is pinged and the timer restarts: so
\* the first ping timer is not armed with a ping outstanding.
QuietUntilLive ==
  stage \in {"fast", "address", "ws", "sync"} =>
    ~online /\ ~pinged /\ timer.fn = "start_network"

\* While network() handles messages only an unanswered ping, or a socket that is gone,
\* leads to a restart.
RestartMeansPinged ==
  stage \in {"live", "lookup"} /\ ws /\ timer.fn = "start_network" => pinged

\* The inductive invariant.
Inv ==
  /\ TypeOK
  /\ StaleOnlineIsShort
  /\ LiveIsWatched
  /\ QuietUntilLive
  /\ RestartMeansPinged

LEMMA InitInv == Init => Inv
  <1> SUFFICES ASSUME Init PROVE Inv
    OBVIOUS
  <1>1. stage \in {"address", "ws"}
    BY DEF Init, FirstStage
  <1>2. timer = [fn |-> "start_network", left |-> 3]
    BY DEF Init, Timer
  <1>3. TypeOK
    <2>1. faults \in 0 .. MaxFaults /\ connect_failures \in 0 .. 3
      BY FaultAssumption DEF Init
    <2>2. timer \in [fn : Functions, left : 0 .. 3] /\ timer.fn # "send_ping"
      BY <1>2 DEF Functions
    <2>q. QED
      BY <1>1, <2>1, <2>2 DEF Init, TypeOK
  <1>q. QED
    BY <1>1, <1>2, <1>3
    DEF Init, Inv, StaleOnlineIsShort, LiveIsWatched, QuietUntilLive, RestartMeansPinged

LEMMA NextInv == Inv /\ [Next]_vars => Inv'
  <1> SUFFICES ASSUME Inv, [Next]_vars PROVE Inv'
    OBVIOUS
  <1> DEFINE
        Booleans ==
          /\ ws \in BOOLEAN /\ online \in BOOLEAN /\ address \in BOOLEAN
          /\ pinged \in BOOLEAN /\ answers \in BOOLEAN
        Shapes ==
          /\ stage \in {"none", "fast", "address", "ws", "sync", "live", "lookup"}
          /\ timer \in [fn : Functions, left : 0 .. 3]
          /\ timer.fn = "send_ping" => timer.left <= 1
          /\ fast \in {"no", "good", "stale"}
          /\ connect_failures \in 0 .. 3
          /\ faults \in 0 .. MaxFaults
        Watched ==
          /\ StaleOnlineIsShort
          /\ LiveIsWatched
          /\ QuietUntilLive
          /\ RestartMeansPinged
  <1> USE FaultAssumption
      DEF Inv, TypeOK, StaleOnlineIsShort, LiveIsWatched, QuietUntilLive,
          RestartMeansPinged, Functions, server
  <1>1. CASE Tick
    BY <1>1 DEF Tick, Fault
  <1>2. CASE StartNetwork
    <2>1. Booleans'
      BY <1>2, Zenon DEF StartNetwork, Fires, ReconnectIn, Timer, OneMore, FirstStage
    <2>2. Shapes'
      BY <1>2 DEF StartNetwork, Fires, ReconnectIn, Timer, OneMore, FirstStage
    <2>3. Watched'
      BY <1>2 DEF StartNetwork, Fires, ReconnectIn, Timer, OneMore, FirstStage
    <2>q. QED
      BY <2>1, <2>2, <2>3, Zenon
  <1>3. CASE SendPing
    <2>1. Booleans'
      BY <1>3, Zenon DEF SendPing, Fires, ReconnectIn, PingIn, Timer
    <2>2. Shapes'
      BY <1>3 DEF SendPing, Fires, ReconnectIn, PingIn, Timer
    <2>3. Watched'
      BY <1>3 DEF SendPing, Fires, ReconnectIn, PingIn, Timer
    <2>q. QED
      BY <2>1, <2>2, <2>3, Zenon
  <1>4. CASE FastConnected
    BY <1>4 DEF FastConnected, Proceed, PingIn, Timer
  <1>5. CASE FastRefused
    BY <1>5 DEF FastRefused, GivesUp, ForgetFast, Fault
  <1>6. CASE GotAddress
    BY <1>6 DEF GotAddress, Proceed
  <1>7. CASE Connected
    BY <1>7 DEF Connected, Proceed
  <1>8. CASE Synced
    BY <1>8 DEF Synced, Proceed, PingIn, Timer
  <1>9. CASE LookedUp
    BY <1>9 DEF LookedUp, Proceed
  <1>10. CASE CallFailed
    BY <1>10 DEF CallFailed, GivesUp, Fault
  <1>11. CASE Hello
    BY <1>11 DEF Hello, Listening
  <1>12. CASE ReconnectUrl
    BY <1>12 DEF ReconnectUrl, Listening
  <1>13. CASE Pong
    <2>1. Booleans'
      BY <1>13, Zenon DEF Pong, Listening, PingIn, Timer
    <2>2. Shapes'
      BY <1>13 DEF Pong, Listening, PingIn, Timer
    <2>3. Watched'
      BY <1>13 DEF Pong, Listening, PingIn, Timer
    <2>q. QED
      BY <2>1, <2>2, <2>3, Zenon
  <1>14. CASE Goodbye
    BY <1>14 DEF Goodbye, Listening, ReconnectIn, Timer, Fault
  <1>15. CASE Lookup
    BY <1>15 DEF Lookup, Listening
  <1>16. CASE WebsocketFailed
    BY <1>16 DEF WebsocketFailed, GivesUp
  <1>17. CASE Breaks
    <2>1. Booleans'
      BY <1>17, Zenon DEF Breaks, Fault
    <2>2. Shapes'
      BY <1>17 DEF Breaks, Fault
    <2>3. Watched'
      BY <1>17 DEF Breaks, Fault
    <2>q. QED
      BY <2>1, <2>2, <2>3, Zenon
  <1>18. CASE Dies
    <2>1. Booleans'
      BY <1>18, Zenon DEF Dies, Fault
    <2>2. Shapes'
      BY <1>18 DEF Dies, Fault
    <2>3. Watched'
      BY <1>18 DEF Dies, Fault
    <2>q. QED
      BY <2>1, <2>2, <2>3, Zenon
  <1>19. CASE GoesStale
    BY <1>19 DEF GoesStale, Fault
  <1>20. CASE Expires
    <2>1. Booleans'
      BY <1>20, Zenon DEF Expires, Fault
    <2>2. Shapes'
      BY <1>20 DEF Expires, Fault
    <2>3. Watched'
      BY <1>20 DEF Expires, Fault
    <2>q. QED
      BY <2>1, <2>2, <2>3, Zenon
  <1>21. CASE UNCHANGED vars
    BY <1>21 DEF vars
  <1>q. QED
    BY <1>1, <1>2, <1>3, <1>4, <1>5, <1>6, <1>7, <1>8, <1>9, <1>10, <1>11,
      <1>12, <1>13, <1>14, <1>15, <1>16, <1>17, <1>18, <1>19, <1>20, <1>21 DEF
      Next, Progress

LEMMA Invariant == Spec => []Inv
  BY InitInv, NextInv, PTL DEF Spec

\* Every step keeps the types, and the timer's length its bound: Pong and Synced arm
\* the ping in ten seconds, never in ping_in's default thirty.
THEOREM TypeCorrect == Spec => []TypeOK
  <1>1. Inv => TypeOK
    BY DEF Inv
  <1>q. QED
    BY <1>1, Invariant, PTL

\* Whichever way network() ends after a hello, the timer is at most ten seconds.
THEOREM StaleOnlineCorrect == Spec => []StaleOnlineIsShort
  <1>1. Inv => StaleOnlineIsShort
    BY DEF Inv
  <1>q. QED
    BY <1>1, Invariant, PTL

\* A network() that handles messages is always watched.
THEOREM WatchedCorrect == Spec => []LiveIsWatched
  <1>1. Inv => LiveIsWatched
    BY DEF Inv
  <1>q. QED
    BY <1>1, Invariant, PTL

\* The three together.
THEOREM UpWatchedCorrect == Spec => []UpIsWatched
  <1>1. Inv => UpIsWatched
    BY DEF Inv, UpIsWatched
  <1>q. QED
    BY <1>1, Invariant, PTL

\* start_network() never interrupts a connection whose pings were answered.
THEOREM KeptCorrect == Spec => HealthyIsKept
  <1>1. Inv /\ [Next]_vars => [StartNetwork /\ Listening => pinged]_vars
    <2>1. Inv /\ StartNetwork /\ Listening => pinged
      BY DEF Inv, RestartMeansPinged, StartNetwork, Listening, Fires, Timer
    <2>q. QED
      BY <2>1
  <1>q. QED
    BY <1>1, Invariant, PTL DEF Spec, HealthyIsKept
=============================================================================
