------------------------ MODULE DiscordGatewayProofs ------------------------
(***************************************************************************)
(* Proofs about the gateway connection of discord.cpp, for any guilds, any *)
(* number of faults, commands and events, and any outcome of a send but    *)
(* where a theorem says otherwise: the state stays well formed, a          *)
(* connection that works is not given up for want of a heartbeat, the      *)
(* events of a session arrive complete and in order over all resumes, and  *)
(* the guild list tells the truth.                                         *)
(***************************************************************************)
EXTENDS DiscordGateway, TLAPS

\* Nothing is on its way without an open connection, and no session is attached to one
\* that was not upgraded yet.
LinkInv ==
    /\ m_ws_coro = "upgrade" => m_ws = "open" /\ up = <<>> /\ down = <<>> /\ ~attached
    /\ m_ws # "open" => up = <<>> /\ down = <<>>
    /\ m_ws = "none" => ~attached

\* The heartbeat starts anew with every connection, and one that was sent and not answered
\* is on its way there or its answer on its way back.
BeatInv ==
    /\ m_ws_coro \in {"lookup", "dial", "upgrade"} =>
         ~m_should_heartbeat /\ ~m_heartbeat_sent
    /\ m_ws = "open" /\ m_heartbeat_sent => InFlight("beat") \/ Coming("ack")

ConnInv == TypeOK /\ LinkInv /\ BeatInv

-----------------------------------------------------------------------------
(* Messages.                                                               *)

LEMMA EventType ==
    ASSUME NEW s \in Nat, NEW e \in Events
    PROVE  /\ Event(s, e) \in DownMessage /\ Event(s, e).op = "dispatch"
           /\ Event(s, e).s = s /\ Event(s, e).e = e
BY DEF Event, DownMessage

LEMMA EventsType ==
    /\ \A S \in SUBSET Guilds : <<"READY", S>> \in Events
    /\ <<"RESUMED", {}>> \in Events
    /\ \A g \in Guilds : <<"GUILD_CREATE", {g}>> \in Events /\ <<"GUILD_DELETE", {g}>> \in Events
    /\ \A e \in Events : e[2] \in SUBSET Guilds
BY DEF Events

LEMMA MessageTypes ==
    /\ [op |-> "hello"] \in DownMessage /\ [op |-> "heartbeat"] \in DownMessage
    /\ [op |-> "ack"] \in DownMessage /\ [op |-> "reconnect"] \in DownMessage
    /\ \A d \in BOOLEAN : [op |-> "invalid", d |-> d] \in DownMessage
    /\ [op |-> "identify"] \in UpMessage /\ [op |-> "beat"] \in UpMessage
    /\ \A a, b \in Nat : [op |-> "resume", session |-> a, s |-> b] \in UpMessage
BY DEF DownMessage, UpMessage

\* What the server replays: the events after the given one, with their numbers.
LEMMA NumberedIs ==
    ASSUME log \in Seq(Events), NEW from \in Nat
    PROVE  /\ Numbered(from) \in Seq(DownMessage)
           /\ from <= Len(log) =>
                /\ Len(Numbered(from)) = Len(log) - from
                /\ \A i \in 1 .. Len(log) - from :
                     Numbered(from)[i] = Event(from + i, log[from + i])
<1> DEFINE n == Len(log) - from
<1>1. \A i \in 1 .. n : Event(from + i, log[from + i]) \in DownMessage
  <2>1. ASSUME NEW i \in 1 .. n
        PROVE  from + i \in Nat /\ log[from + i] \in Events
    BY <2>1
  <2>2. QED
    BY <2>1, EventType
<1>2. CASE from <= Len(log)
  <2>1. n \in Nat
    BY <1>2
  <2>2. QED
    BY <1>1, <2>1 DEF Numbered
<1>3. CASE ~(from <= Len(log))
  <2>1. 1 .. n = {}
    BY <1>3
  <2>2. Numbered(from) = <<>>
    BY <2>1 DEF Numbered
  <2>3. QED
    BY <1>3, <2>2
<1>4. QED
  BY <1>2, <1>3

-----------------------------------------------------------------------------
(* Types.                                                                  *)

LEMMA TypeInit == Init => TypeOK
<1> SUFFICES ASSUME Init PROVE TypeOK
  OBVIOUS
<1>1. ControlOK
  BY DEF Init, ControlOK, Stages, Waits
<1>2. FlagsOK
  BY DEF Init, FlagsOK
<1>3. DataOK
  <2>1. /\ {online, online_resume, shown} \subseteq [Guilds -> BOOLEAN]
        /\ up \in Seq(UpMessage) /\ down \in Seq(DownMessage) /\ log \in Seq(Events)
    BY DEF Init, None
  <2>2. faults \in 0 .. MaxFaults /\ events \in 0 .. MaxEvents
    BY GatewayAssumption DEF Init
  <2>3. QED
    BY <2>1, <2>2 DEF Init, DataOK
<1>4. QED
  BY <1>1, <1>2, <1>3 DEF TypeOK

\* Losing the connection, in whatever way.
LEMMA ForgetType ==
    ASSUME TypeOK, NEW r \in BOOLEAN, Forget(r)
    PROVE  /\ {online', online_resume', shown'} \subseteq [Guilds -> BOOLEAN]
           /\ m_resume_token' \in Nat /\ m_resume_token_prev' \in Nat
           /\ m_ws' = "none" /\ attached' = FALSE /\ up' = <<>> /\ down' = <<>>
           /\ online' = None /\ shown' = None
           /\ \A g \in Guilds : online_resume'[g] = (r /\ (online_resume[g] \/ online[g]))
           /\ r => UNCHANGED tokens
           /\ ~r => m_resume_token' = 0 /\ m_resume_token_prev' = 0
BY DEF Forget, NoSocket, TypeOK, DataOK, None, tokens

\* connect() from its label top on.
LEMMA TopIs ==
    ASSUME TypeOK, Top
    PROVE  /\ m_ws_coro' \in {"dial", "lookup"}
           /\ m_should_heartbeat' = FALSE /\ m_heartbeat_sent' = FALSE
           /\ m_gateway_good' = m_gateway_good
BY DEF Top

\* What every loss of a connection that is read leaves behind: ReadFails, Leave, a send
\* that finds it closed, and the calls from outside.
Lost ==
    /\ \E r \in BOOLEAN : Forget(r)
    /\ m_ws_coro' \in Stages \ {"upgrade", "read"}
    /\ m_ws_coro' \in {"dial", "lookup"} =>
         \/ ~m_should_heartbeat' /\ ~m_heartbeat_sent'
         \/ m_ws_coro' = m_ws_coro /\ UNCHANGED <<m_should_heartbeat, m_heartbeat_sent>>
    /\ {m_gateway_good, m_should_heartbeat, m_heartbeat_sent}' \subseteq BOOLEAN
    /\ m_ws_coro_running' \in BOOLEAN
    /\ UNCHANGED <<m_sequence, server>>
    /\ faults' \in 0 .. MaxFaults

LEMMA FaultIs == ASSUME TypeOK, Fault PROVE faults' \in 0 .. MaxFaults
BY GatewayAssumption DEF Fault, TypeOK, DataOK

LEMMA SeenClosedLoses ==
    ASSUME TypeOK, SeenClosed, faults' \in 0 .. MaxFaults, UNCHANGED <<m_sequence, server>>
    PROVE  Lost
BY DEF TypeOK, ControlOK, FlagsOK, SeenClosed, Top, Lost, Stages, Waits, flags

LEMMA OutsideLoses ==
    ASSUME TypeOK, NEW r \in BOOLEAN, DisconnectOutside(r),
           faults' \in 0 .. MaxFaults, UNCHANGED <<m_sequence, server>>
    PROVE  Lost
BY DEF TypeOK, ControlOK, FlagsOK, DisconnectOutside, Top, Lost, Stages, Waits, flags

LEMMA LeaveLoses == ASSUME TypeOK, m_ws_coro_running' = FALSE, NEW r \in BOOLEAN, Leave(r) PROVE Lost
BY DEF TypeOK, ControlOK, FlagsOK, DataOK, Leave, Top, Lost, Stages, Waits

LEMMA LostConn == ASSUME ConnInv, Lost PROVE ConnInv'
<1>1. PICK r \in BOOLEAN : Forget(r)
  BY DEF Lost
<1>2. /\ {online', online_resume', shown'} \subseteq [Guilds -> BOOLEAN]
      /\ m_resume_token' \in Nat /\ m_resume_token_prev' \in Nat
      /\ m_ws' = "none" /\ attached' = FALSE /\ up' = <<>> /\ down' = <<>>
  BY <1>1, ForgetType DEF ConnInv
<1>3. TypeOK'
  <2>1. ControlOK'
    BY <1>2 DEF Lost, ControlOK
  <2>2. FlagsOK'
    BY <1>2 DEF Lost, FlagsOK, server, ConnInv, TypeOK
  <2>3. DataOK'
    BY <1>2 DEF Lost, DataOK, server, ConnInv, TypeOK
  <2>4. QED
    BY <2>1, <2>2, <2>3 DEF TypeOK
<1>4. LinkInv' /\ BeatInv'
  BY <1>2 DEF LinkInv, BeatInv, Lost, ConnInv
<1>5. QED
  BY <1>3, <1>4 DEF ConnInv

\* Steps between two connections, and calls that touch neither what is on its way nor the
\* guilds nor the session.
Quiet ==
    /\ UNCHANGED <<tokens, m_sequence, guilds, server, up, down, attached>>
    /\ \/ m_ws = "none"
       \/ m_ws' = m_ws /\ (m_ws_coro' = "upgrade" => m_ws_coro = "upgrade")
    /\ m_should_heartbeat' => m_should_heartbeat

LEMMA QuietSteps ==
    ASSUME ConnInv, Lookup \/ Dial \/ PauseEnds \/ Restart
    PROVE  ConnInv' /\ Quiet
<1>1. Quiet /\ faults' \in 0 .. MaxFaults
  <2>1. /\ UNCHANGED <<tokens, m_sequence, guilds, server, up, down, attached>>
        /\ faults' \in 0 .. MaxFaults
    BY FaultIs DEF Lookup, Dial, PauseEnds, Restart, link, ConnInv, TypeOK, DataOK
  <2>2. \/ m_ws = "none"
        \/ m_ws' = m_ws /\ (m_ws_coro' = "upgrade" => m_ws_coro = "upgrade")
    BY DEF Lookup, Dial, PauseEnds, Restart, Top, link, ConnInv, TypeOK, ControlOK, Waits
  <2>3. m_should_heartbeat' => m_should_heartbeat
    BY DEF Lookup, Dial, PauseEnds, Restart, Top, flags
  <2>4. QED
    BY <2>1, <2>2, <2>3 DEF Quiet
<1>2. ControlOK'
  BY DEF Lookup, Dial, PauseEnds, Restart, Top, link, ConnInv, TypeOK, ControlOK, Stages, Waits
<1>3. FlagsOK'
  BY <1>1
  DEF Lookup, Dial, PauseEnds, Restart, Top, Quiet, server, flags, ConnInv, TypeOK, FlagsOK
<1>4. DataOK'
  BY <1>1 DEF Quiet, tokens, guilds, server, ConnInv, TypeOK, DataOK
<1>5. LinkInv'
  BY <1>1
  DEF Lookup, Dial, PauseEnds, Restart, Top, Quiet, link, ConnInv, TypeOK, ControlOK, LinkInv,
      Waits
<1>6. BeatInv'
  BY <1>1
  DEF Lookup, Dial, PauseEnds, Restart, Top, Quiet, flags, link, ConnInv, TypeOK, ControlOK,
      LinkInv, BeatInv, Waits
<1>7. QED
  BY <1>1, <1>2, <1>3, <1>4, <1>5, <1>6 DEF ConnInv, TypeOK

\* The answer to the upgrade request, with Hello behind it if it is a good one.
LEMMA UpgradeStep ==
    ASSUME ConnInv, Upgrade
    PROVE  /\ ConnInv'
           /\ UNCHANGED <<tokens, m_sequence, guilds, server, up, attached>>
           /\ down' = <<>> \/ (down' = <<[op |-> "hello"]>> /\ m_ws' = "open")
<1>1. /\ UNCHANGED <<tokens, m_sequence, guilds, server, up, attached, flags>>
      /\ faults' \in 0 .. MaxFaults
      /\ up = <<>> /\ ~attached /\ m_ws_coro = "upgrade"
      /\ UNCHANGED <<m_ws_coro_running>>
  BY FaultIs DEF Upgrade, ConnInv, TypeOK, DataOK, LinkInv
<1>2. \/ m_ws_coro' = "read" /\ m_ws' = "open" /\ down' = <<[op |-> "hello"]>>
      \/ m_ws_coro' = "read" /\ m_ws' = "silent" /\ down' = <<>>
      \/ m_ws_coro' = "dial_wait" /\ m_ws' = "none" /\ down' = <<>>
  BY GatewayAssumption DEF Upgrade
<1>3. ControlOK'
  BY <1>2 DEF ControlOK, Stages, Waits
<1>4. FlagsOK'
  BY <1>1 DEF ConnInv, TypeOK, FlagsOK, flags, server
<1>5. DataOK'
  <2>1. down' \in Seq(DownMessage)
    <3>1. [op |-> "hello"] \in DownMessage
      BY MessageTypes
    <3> HIDE DEF DownMessage
    <3>2. <<[op |-> "hello"]>> \in Seq(DownMessage) /\ <<>> \in Seq(DownMessage)
      BY <3>1
    <3>3. QED
      BY <1>2, <3>2
  <2>2. QED
    BY <1>1, <2>1 DEF tokens, guilds, server, ConnInv, TypeOK, DataOK
<1>6. LinkInv' /\ BeatInv'
  BY <1>1, <1>2 DEF LinkInv, BeatInv, ConnInv, flags
<1>7. QED
  BY <1>1, <1>2, <1>3, <1>4, <1>5, <1>6 DEF ConnInv, TypeOK

\* A list of messages and what is left of it, or put behind it.
LEMMA TailAt ==
    ASSUME NEW S, NEW s \in Seq(S), s # <<>>
    PROVE  /\ Head(s) = s[1] /\ Head(s) \in S
           /\ Tail(s) \in Seq(S) /\ Len(Tail(s)) = Len(s) - 1 /\ Len(s) \in Nat
           /\ \A i \in 1 .. Len(s) - 1 : Tail(s)[i] = s[i + 1]
OBVIOUS

LEMMA AppendAt ==
    ASSUME NEW S, NEW s \in Seq(S), NEW x \in S
    PROVE  /\ Append(s, x) \in Seq(S) /\ Len(Append(s, x)) = Len(s) + 1 /\ Len(s) \in Nat
           /\ \A i \in 1 .. Len(s) : Append(s, x)[i] = s[i]
           /\ Append(s, x)[Len(s) + 1] = x
OBVIOUS

LEMMA EmptyAt == ASSUME NEW S PROVE <<>> \in Seq(S)
OBVIOUS

\* The operations on the messages that are under way.
LEMMA FlightTail ==
    ASSUME NEW S, NEW s \in Seq(S), s # <<>>, NEW o, Head(s).op # o,
           \E i \in DOMAIN s : Is(s[i], o)
    PROVE  \E i \in DOMAIN Tail(s) : Is(Tail(s)[i], o)
<1>1. PICK i \in 1 .. Len(s) : Is(s[i], o)
  OBVIOUS
<1>2. i # 1
  BY <1>1, TailAt DEF Is
<1>3. i - 1 \in 1 .. Len(s) - 1 /\ i - 1 + 1 = i
  BY <1>2
<1>4. Tail(s)[i - 1] = s[i] /\ i - 1 \in DOMAIN Tail(s)
  BY <1>3, TailAt
<1>5. QED
  BY <1>1, <1>4

LEMMA FlightAppend ==
    ASSUME NEW S, NEW s \in Seq(S), NEW x \in S, NEW o,
           (\E i \in DOMAIN s : Is(s[i], o)) \/ x.op = o
    PROVE  \E i \in DOMAIN Append(s, x) : Is(Append(s, x)[i], o)
BY AppendAt DEF Is

\* The end of a handler that lets connect() go on: its answer is sent, if it has one.
LEMMA SendConn ==
    ASSUME ConnInv, m_ws_coro = "read", m_ws = "open", down # <<>>,
           m_ws_coro_running' = FALSE,
           NEW ok \in BOOLEAN, NEW ms \in Seq(UpMessage), Send(ms, ok),
           m_resume_token' \in Nat, m_resume_token_prev' \in Nat, m_sequence' \in Nat,
           online' \in [Guilds -> BOOLEAN], online_resume' \in [Guilds -> BOOLEAN],
           shown' \in [Guilds -> BOOLEAN],
           m_should_heartbeat' \in BOOLEAN, m_heartbeat_sent' \in BOOLEAN,
           ~ok => ~m_should_heartbeat' /\ ~m_heartbeat_sent',
           m_heartbeat_sent' => m_heartbeat_sent /\ Head(down).op # "ack"
    PROVE  /\ ConnInv' /\ UNCHANGED server
           /\ \/ /\ ok /\ up' = up \o ms /\ down' = Tail(down)
                 /\ UNCHANGED <<m_ws, attached, m_ws_coro>>
              \/ /\ ~ok /\ up' = <<>> /\ down' = <<>> /\ m_ws' = "none" /\ ~attached'
                 /\ m_ws_coro' \in {"dial", "lookup"}
<1>1. /\ up \in Seq(UpMessage) /\ down \in Seq(DownMessage)
      /\ Tail(down) \in Seq(DownMessage) /\ up \o ms \in Seq(UpMessage)
  BY TailAt DEF ConnInv, TypeOK, DataOK
<1>2. /\ UNCHANGED <<server, m_gateway_good>>
      /\ \/ /\ ok /\ up' = up \o ms /\ down' = Tail(down)
            /\ UNCHANGED <<m_ws, attached, m_ws_coro>>
         \/ /\ ~ok /\ up' = <<>> /\ down' = <<>> /\ m_ws' = "none" /\ ~attached'
            /\ m_ws_coro' \in {"dial", "lookup"}
      /\ attached' \in BOOLEAN
      /\ faults' \in 0 .. MaxFaults
  BY FaultIs DEF Send, NoSocket, ConnInv, TypeOK, DataOK, FlagsOK
<1>3. ControlOK'
  BY <1>2 DEF ConnInv, TypeOK, ControlOK, Stages, Waits
<1>4. FlagsOK'
  BY <1>2 DEF ConnInv, TypeOK, FlagsOK, server
<1>5. DataOK'
  <2>1. up' \in Seq(UpMessage) /\ down' \in Seq(DownMessage)
    <3>1. CASE up' = up \o ms /\ down' = Tail(down)
      BY <1>1, <3>1
    <3>2. CASE up' = <<>> /\ down' = <<>>
      BY <3>2
    <3>3. QED
      BY <1>2, <3>1, <3>2
  <2>2. QED
    BY <1>2, <2>1 DEF ConnInv, TypeOK, DataOK, server
<1>6. LinkInv'
  BY <1>2 DEF ConnInv, LinkInv
<1>7. BeatInv'
  <2>1. CASE ok
    <3>1. m_heartbeat_sent' => InFlight("beat")' \/ Coming("ack")'
      <4> SUFFICES ASSUME m_heartbeat_sent' PROVE InFlight("beat")' \/ Coming("ack")'
        OBVIOUS
      <4>1. InFlight("beat") \/ Coming("ack")
        BY DEF ConnInv, BeatInv
      <4>2. CASE InFlight("beat")
        <5>1. PICK i \in 1 .. Len(up) : Is(up[i], "beat")
          BY <1>1, <4>2 DEF InFlight
        <5>2. i \in DOMAIN (up \o ms) /\ (up \o ms)[i] = up[i]
          BY <1>1
        <5>3. QED
          BY <1>2, <2>1, <5>1, <5>2 DEF InFlight
      <4>3. CASE Coming("ack")
        <5>1. \E i \in DOMAIN Tail(down) : Is(Tail(down)[i], "ack")
          BY <1>1, <4>3, FlightTail DEF Coming
        <5>2. QED
          BY <1>2, <2>1, <5>1 DEF Coming
      <4>4. QED
        BY <4>1, <4>2, <4>3
    <3>2. QED
      BY <1>2, <2>1, <3>1 DEF BeatInv
  <2>2. CASE ~ok
    BY <1>2, <2>2 DEF BeatInv
  <2>3. QED
    BY <2>1, <2>2
<1>8. QED
  BY <1>2, <1>3, <1>4, <1>5, <1>6, <1>7 DEF ConnInv, TypeOK

\* What is common to the messages: the handler answers with ms (and Hello and Invalid
\* Session with Identify or Resume), or the connection is left.
Answers(ok, ms) ==
    /\ ok \in BOOLEAN /\ ms \in Seq(UpMessage) /\ Send(ms, ok)
    /\ m_resume_token' \in Nat /\ m_resume_token_prev' \in Nat /\ m_sequence' \in Nat
    /\ online' \in [Guilds -> BOOLEAN] /\ online_resume' \in [Guilds -> BOOLEAN]
    /\ shown' \in [Guilds -> BOOLEAN]
    /\ m_should_heartbeat' \in BOOLEAN /\ m_heartbeat_sent' \in BOOLEAN
    /\ ~ok => ~m_should_heartbeat' /\ ~m_heartbeat_sent'
    /\ m_heartbeat_sent' => m_heartbeat_sent /\ Head(down).op # "ack"

LEMMA IdentifyAnswers ==
    ASSUME ConnInv, NEW ok \in BOOLEAN, Identify, Send(<<[op |-> "identify"]>>, ok),
           UNCHANGED guilds, m_heartbeat_sent' = (m_heartbeat_sent /\ ok),
           m_should_heartbeat' \in BOOLEAN, ~ok => ~m_should_heartbeat',
           Head(down).op # "ack"
    PROVE  Answers(ok, <<[op |-> "identify"]>>)
<1>1. <<[op |-> "identify"]>> \in Seq(UpMessage)
  <2>1. [op |-> "identify"] \in UpMessage
    BY MessageTypes
  <2> HIDE DEF UpMessage
  <2>2. QED
    BY <2>1
<1>2. m_heartbeat_sent' \in BOOLEAN
  OBVIOUS
<1>3. QED
  BY <1>1, <1>2 DEF Answers, Identify, guilds, ConnInv, TypeOK, DataOK

LEMMA HelloAnswers ==
    ASSUME ConnInv, NEW ok \in BOOLEAN, Hello(ok), Head(down).op = "hello"
    PROVE  \/ /\ Identify /\ Answers(ok, <<[op |-> "identify"]>>)
           \/ /\ m_resume_token # 0
              /\ m_resume_token_prev' = m_resume_token /\ m_resume_token' = 0
              /\ m_sequence' = m_sequence
              /\ Answers(ok, <<[op |-> "resume", session |-> m_resume_token,
                                s |-> m_sequence]>>)
<1>1. CASE m_resume_token = 0
  BY <1>1, IdentifyAnswers DEF Hello
<1>2. CASE m_resume_token # 0
  <2> DEFINE r == [op |-> "resume", session |-> m_resume_token, s |-> m_sequence]
  <2>1. r \in UpMessage
    BY MessageTypes DEF ConnInv, TypeOK, DataOK
  <2>2. <<r>> \in Seq(UpMessage)
    <3> HIDE DEF UpMessage, r
    <3>1. QED
      BY <2>1
  <2>3. /\ m_resume_token_prev' = m_resume_token /\ m_resume_token' = 0
        /\ m_sequence' = m_sequence /\ Send(<<r>>, ok)
        /\ UNCHANGED guilds
        /\ m_should_heartbeat' = ok /\ m_heartbeat_sent' = (m_heartbeat_sent /\ ok)
    BY <1>2 DEF Hello
  <2>4. m_should_heartbeat' \in BOOLEAN /\ m_heartbeat_sent' \in BOOLEAN
    BY <2>3
  <2> HIDE DEF r
  <2>5. Answers(ok, <<r>>)
    BY <2>2, <2>3, <2>4 DEF Answers, guilds, ConnInv, TypeOK, DataOK
  <2>6. QED
    BY <1>2, <2>3, <2>5 DEF r
<1>3. QED
  BY <1>1, <1>2

LEMMA DispatchAnswers ==
    ASSUME ConnInv, NEW ok \in BOOLEAN, NEW m \in DownMessage, m = Head(down),
           m.op = "dispatch", Dispatch(m, ok)
    PROVE  Answers(ok, <<>>) /\ m_sequence' = m.s
<1>1. m.s \in Nat /\ m.e \in Events
  BY DEF DownMessage
<1>2. /\ m_sequence' = m.s /\ Send(<<>>, ok)
      /\ m_heartbeat_sent' = (m_heartbeat_sent /\ ok)
      /\ m_should_heartbeat' = (m_should_heartbeat /\ ok)
  BY DEF Dispatch, Ready, Resumed, GuildCreate, GuildDelete, Beat
<1>3. /\ online' \in [Guilds -> BOOLEAN] /\ online_resume' \in [Guilds -> BOOLEAN]
      /\ shown' \in [Guilds -> BOOLEAN]
  BY DEF Dispatch, Ready, Resumed, GuildCreate, GuildDelete, None, ConnInv, TypeOK, DataOK
<1>4. m_resume_token' \in Nat /\ m_resume_token_prev' \in Nat
  BY DEF Dispatch, Ready, Resumed, GuildCreate, GuildDelete, tokens, ConnInv, TypeOK, DataOK
<1>5. m_should_heartbeat' \in BOOLEAN /\ m_heartbeat_sent' \in BOOLEAN
  BY <1>2
<1>6. QED
  BY <1>1, <1>2, <1>3, <1>4, <1>5, EmptyAt DEF Answers

\* A message is received.
LEMMA ReceiveIs ==
    ASSUME ConnInv, Receive
    PROVE  \E ok \in Sends, m \in DownMessage :
             /\ m = Head(down) /\ ok \in BOOLEAN
             /\ \/ /\ m.op = "hello" /\ UNCHANGED guilds /\ m_resume_token # 0
                   /\ m_resume_token_prev' = m_resume_token /\ m_resume_token' = 0
                   /\ m_sequence' = m_sequence
                   /\ Answers(ok, <<[op |-> "resume", session |-> m_resume_token,
                                     s |-> m_sequence]>>)
                \/ /\ m.op \in {"hello", "invalid"} /\ UNCHANGED guilds /\ Identify
                   /\ Answers(ok, <<[op |-> "identify"]>>)
                \/ /\ m.op = "dispatch" /\ Dispatch(m, ok) /\ Answers(ok, <<>>)
                \/ /\ m.op \in {"heartbeat", "ack"} /\ Answers(ok, <<>>)
                   /\ UNCHANGED <<tokens, m_sequence, guilds>>
                \/ Lost
<1>1. /\ down \in Seq(DownMessage) /\ down # <<>>
      /\ Head(down) \in DownMessage /\ m_ws_coro_running' = FALSE
      /\ m_should_heartbeat \in BOOLEAN /\ m_heartbeat_sent \in BOOLEAN
  BY TailAt DEF Receive, ConnInv, TypeOK, DataOK, FlagsOK
<1>2. PICK ok \in Sends, m \in {Head(down)} :
        \/ Is(m, "hello") /\ Hello(ok)
        \/ Is(m, "dispatch") /\ Dispatch(m, ok)
        \/ Is(m, "heartbeat") /\ HeartbeatAsked(ok)
        \/ Is(m, "ack") /\ ok /\ HeartbeatAck
        \/ Is(m, "reconnect") /\ ok /\ Leave(TRUE)
        \/ Is(m, "invalid") /\ InvalidSession(m.d, ok)
  BY DEF Receive
<1>3. m \in DownMessage /\ m = Head(down) /\ ok \in BOOLEAN
  BY <1>1, <1>2, GatewayAssumption
<1>4. CASE Is(m, "hello") /\ Hello(ok)
  <2>1. m.op = "hello" /\ UNCHANGED guilds
    BY <1>4 DEF Is, Hello
  <2>2. QED
    BY <1>3, <1>4, <2>1, HelloAnswers
<1>5. CASE Is(m, "dispatch") /\ Dispatch(m, ok)
  BY <1>3, <1>5, DispatchAnswers DEF Is
<1>6. CASE Is(m, "heartbeat") /\ HeartbeatAsked(ok)
  <2>1. /\ m.op = "heartbeat" /\ Send(<<>>, ok)
        /\ m_heartbeat_sent' = (m_heartbeat_sent /\ ok)
        /\ m_should_heartbeat' = (m_should_heartbeat /\ ok)
        /\ UNCHANGED <<tokens, m_sequence, guilds>>
    BY <1>6 DEF Is, HeartbeatAsked, Beat
  <2>2. m_should_heartbeat' \in BOOLEAN /\ m_heartbeat_sent' \in BOOLEAN
    BY <2>1
  <2>3. Answers(ok, <<>>)
    BY <1>3, <2>1, <2>2, EmptyAt DEF Answers, tokens, guilds, ConnInv, TypeOK, DataOK
  <2>4. QED
    BY <1>3, <2>1, <2>3
<1>7. CASE Is(m, "ack") /\ ok /\ HeartbeatAck
  <2>1. /\ m.op = "ack" /\ Send(<<>>, ok)
        /\ m_heartbeat_sent' = FALSE
        /\ m_should_heartbeat' = m_should_heartbeat
        /\ UNCHANGED <<tokens, m_sequence, guilds>>
    BY <1>3, <1>7 DEF Is, HeartbeatAck
  <2>2. Answers(ok, <<>>)
    BY <1>1, <1>3, <1>7, <2>1, EmptyAt DEF Answers, tokens, guilds, ConnInv, TypeOK, DataOK
  <2>3. QED
    BY <1>3, <2>1, <2>2
<1>8. CASE Is(m, "reconnect") /\ ok /\ Leave(TRUE)
  BY <1>1, <1>3, <1>8, LeaveLoses DEF ConnInv
<1>9. CASE Is(m, "invalid") /\ InvalidSession(m.d, ok)
  <2>1. m.op = "invalid" /\ m.d \in BOOLEAN
    BY <1>3, <1>9 DEF Is, DownMessage
  <2>2. CASE ok /\ Leave(m.d)
    BY <1>1, <1>3, <2>1, <2>2, LeaveLoses DEF ConnInv
  <2>3. CASE /\ Identify /\ Beat(ok) /\ UNCHANGED guilds
             /\ Send(<<[op |-> "identify"]>>, ok)
    <3>1. /\ m_heartbeat_sent' = (m_heartbeat_sent /\ ok)
          /\ m_should_heartbeat' \in BOOLEAN /\ (~ok => ~m_should_heartbeat')
      BY <2>3 DEF Beat
    <3>2. Answers(ok, <<[op |-> "identify"]>>)
      BY <1>3, <2>1, <2>3, <3>1, IdentifyAnswers
    <3>3. QED
      BY <1>3, <2>1, <2>3, <3>2
  <2>4. QED
    BY <1>9, <2>2, <2>3 DEF InvalidSession
<1>10. QED
  BY <1>2, <1>4, <1>5, <1>6, <1>7, <1>8, <1>9

LEMMA ReceiveConn == ASSUME ConnInv, Receive PROVE ConnInv'
<1>1. /\ m_ws_coro = "read" /\ m_ws = "open" /\ down # <<>> /\ m_ws_coro_running' = FALSE
  BY DEF Receive
<1>2. CASE Lost
  BY <1>2, LostConn
<1>3. CASE \E ok, ms : Answers(ok, ms)
  BY <1>1, <1>3, SendConn DEF Answers
<1>4. QED
  BY <1>2, <1>3, ReceiveIs

-----------------------------------------------------------------------------
(* Calls from outside connect(), the server and the network.               *)

\* A heartbeat is sent; into a silent connection it goes nowhere.
Beats ==
    /\ m_should_heartbeat /\ m_heartbeat_sent'
    /\ up' = IF m_ws = "open" THEN Append(up, [op |-> "beat"]) ELSE up
    /\ UNCHANGED <<tokens, m_sequence, guilds, server, m_ws, down, attached, coro, faults,
                   m_gateway_good, m_should_heartbeat>>

LEMMA CallsAre ==
    ASSUME ConnInv, ReadFails \/ SendBeat \/ PingTimeout \/ Command
    PROVE  Lost \/ Beats
<1>1. CASE ReadFails
  BY <1>1, FaultIs, SeenClosedLoses DEF ReadFails, ConnInv
<1>2. CASE PingTimeout
  <2>1. faults' \in 0 .. MaxFaults
    BY <1>2 DEF PingTimeout, ConnInv, TypeOK, DataOK
  <2>2. QED
    BY <1>2, <2>1, OutsideLoses DEF PingTimeout, ConnInv
<1>3. CASE Command
  BY <1>3, FaultIs, OutsideLoses DEF Command, ConnInv
<1>4. CASE SendBeat
  <2>1. CASE /\ m_ws_coro = "read" /\ m_ws # "none"
             /\ Fault
             /\ m_ws_coro_running' = TRUE
             /\ Forget(TRUE)
             /\ IF m_resume_token = 0
                THEN /\ m_ws_coro' = "closed_wait" /\ m_heartbeat_sent' = TRUE
                     /\ UNCHANGED <<m_should_heartbeat, m_gateway_good>>
                ELSE Top
    <3>1. faults' \in 0 .. MaxFaults /\ UNCHANGED <<m_sequence, server>>
      BY <1>4, <2>1, FaultIs DEF SendBeat, ConnInv
    <3>2. QED
      BY <2>1, <3>1
      DEF ConnInv, TypeOK, ControlOK, FlagsOK, Top, Lost, Stages, Waits
  <2>2. QED
    BY <1>4, <2>1 DEF SendBeat, Beats
<1>5. QED
  BY <1>1, <1>2, <1>3, <1>4

LEMMA BeatsConn == ASSUME ConnInv, Beats PROVE ConnInv'
<1>1. up \in Seq(UpMessage) /\ [op |-> "beat"] \in UpMessage
  BY MessageTypes DEF ConnInv, TypeOK, DataOK
<1>2. up' \in Seq(UpMessage)
  BY <1>1, AppendAt DEF Beats
<1>3. m_ws = "open" => InFlight("beat")'
  <2>1. SUFFICES ASSUME m_ws = "open" PROVE InFlight("beat")'
    OBVIOUS
  <2>2. \E i \in DOMAIN Append(up, [op |-> "beat"]) : Is(Append(up, [op |-> "beat"])[i], "beat")
    BY <1>1, FlightAppend
  <2>3. QED
    BY <2>1, <2>2 DEF Beats, InFlight
<1>4. UNCHANGED <<tokens, m_sequence, guilds, server, m_ws, down, attached, coro, faults,
                  m_gateway_good, m_should_heartbeat>> /\ m_heartbeat_sent'
  BY DEF Beats
<1>5. ControlOK'
  BY <1>4 DEF ConnInv, TypeOK, ControlOK, coro
<1>6. FlagsOK'
  <2>1. m_heartbeat_sent' \in BOOLEAN
    BY DEF Beats
  <2>2. QED
    BY <1>4, <2>1 DEF ConnInv, TypeOK, FlagsOK, coro, server
<1>7. DataOK'
  BY <1>2, <1>4 DEF ConnInv, TypeOK, DataOK, tokens, guilds, server
<1>8. m_ws_coro \notin {"lookup", "dial", "upgrade"}
  BY DEF Beats, ConnInv, BeatInv
<1>9. LinkInv' /\ BeatInv'
  BY <1>3, <1>4, <1>8 DEF Beats, ConnInv, LinkInv, BeatInv, coro
<1>10. QED
  BY <1>5, <1>6, <1>7, <1>9 DEF ConnInv, TypeOK

LEMMA NewTokenConn == ASSUME ConnInv, NewToken PROVE ConnInv'
<1>1. /\ UNCHANGED <<flags, m_sequence, guilds, server, link, coro>>
      /\ m_resume_token' = 0 /\ m_resume_token_prev' = 0 /\ faults' \in 0 .. MaxFaults
  BY FaultIs DEF NewToken, ConnInv
<1>2. ControlOK' /\ FlagsOK'
  BY <1>1 DEF ConnInv, TypeOK, ControlOK, FlagsOK, flags, coro, link, server
<1>3. DataOK'
  BY <1>1 DEF ConnInv, TypeOK, DataOK, guilds, link, server
<1>4. LinkInv' /\ BeatInv'
  BY <1>1 DEF ConnInv, LinkInv, BeatInv, InFlight, Coming, flags, link, coro
<1>5. QED
  BY <1>2, <1>3, <1>4 DEF ConnInv, TypeOK

\* What the server and the network do leaves the client alone.
LEMMA ServerConn ==
    ASSUME ConnInv, UNCHANGED client,
           m_ws' = m_ws \/ (m_ws_coro = "read" /\ m_ws' = "silent" /\ up' = <<>> /\ down' = <<>>),
           m_ws = "open" /\ m_ws_coro = "upgrade" => up' = <<>> /\ down' = <<>> /\ ~attached',
           m_ws # "open" => UNCHANGED <<up, down, attached>>,
           m_ws' = "open" /\ m_heartbeat_sent => InFlight("beat")' \/ Coming("ack")',
           alive' \in BOOLEAN, attached' \in BOOLEAN, session' \in Nat,
           log' \in Seq(Events), avail' \in SUBSET Guilds,
           up' \in Seq(UpMessage), down' \in Seq(DownMessage),
           faults' \in 0 .. MaxFaults, events' \in 0 .. MaxEvents
    PROVE  ConnInv'
<1>1. ControlOK'
  BY DEF ConnInv, TypeOK, ControlOK, client, coro
<1>2. FlagsOK'
  BY DEF ConnInv, TypeOK, FlagsOK, client, coro, flags
<1>3. DataOK'
  BY DEF ConnInv, TypeOK, DataOK, client, tokens, guilds
<1>4. LinkInv'
  BY DEF ConnInv, TypeOK, ControlOK, LinkInv, client, coro
<1>5. BeatInv'
  BY DEF ConnInv, BeatInv, client, coro, flags
<1>6. QED
  BY <1>1, <1>2, <1>3, <1>4, <1>5 DEF ConnInv, TypeOK

LEMMA ConcatAt ==
    ASSUME NEW S, NEW s \in Seq(S), NEW t \in Seq(S)
    PROVE  /\ s \o t \in Seq(S) /\ Len(s \o t) = Len(s) + Len(t)
           /\ Len(s) \in Nat /\ Len(t) \in Nat
           /\ \A i \in 1 .. Len(s) : (s \o t)[i] = s[i]
           /\ \A i \in 1 .. Len(t) : (s \o t)[Len(s) + i] = t[i]
OBVIOUS

\* A stretch of a list behind another, and one more behind that.
LEMMA ConcatLast ==
    ASSUME NEW S, NEW s \in Seq(S), NEW t \in Seq(S), NEW x \in S
    PROVE  /\ s \o t \o <<x>> \in Seq(S) /\ Len(s \o t \o <<x>>) = Len(s) + Len(t) + 1
           /\ \A i \in 1 .. Len(s) : (s \o t \o <<x>>)[i] = s[i]
           /\ \A i \in 1 .. Len(t) : (s \o t \o <<x>>)[Len(s) + i] = t[i]
           /\ (s \o t \o <<x>>)[Len(s) + Len(t) + 1] = x
<1>1. PICK u \in Seq(S) : u = s \o t
  BY ConcatAt
<1>2. /\ Len(u) = Len(s) + Len(t) /\ Len(s) \in Nat /\ Len(t) \in Nat
      /\ \A i \in 1 .. Len(s) : u[i] = s[i]
      /\ \A i \in 1 .. Len(t) : u[Len(s) + i] = t[i]
  BY <1>1, ConcatAt
<1>3. /\ u \o <<x>> \in Seq(S) /\ Len(u \o <<x>>) = Len(u) + 1
      /\ \A i \in 1 .. Len(u) : (u \o <<x>>)[i] = u[i]
      /\ (u \o <<x>>)[Len(u) + 1] = x
  OBVIOUS
<1>4. PICK v \in Seq(S) : v = u \o <<x>>
  BY <1>3
<1>5. /\ v \in Seq(S) /\ Len(v) = Len(s) + Len(t) + 1
      /\ \A i \in 1 .. Len(s) : v[i] = s[i]
      /\ \A i \in 1 .. Len(t) : v[Len(s) + i] = t[i]
      /\ v[Len(s) + Len(t) + 1] = x
  BY <1>2, <1>3, <1>4
<1>6. v = s \o t \o <<x>>
  BY <1>1, <1>4
<1>7. QED
  BY <1>5, <1>6

\* What the server answers to Resume.
LEMMA ReplayIs ==
    ASSUME down \in Seq(DownMessage), log \in Seq(Events), NEW from \in Nat,
           log' = Append(log, <<"RESUMED", {}>>),
           down' = down \o Numbered(from) \o <<Event(Len(log'), <<"RESUMED", {}>>)>>
    PROVE  /\ down' \in Seq(DownMessage) /\ log' \in Seq(Events) /\ Len(log') = Len(log) + 1
           /\ \A i \in 1 .. Len(down) : i \in DOMAIN down' /\ down'[i] = down[i]
           /\ from <= Len(log) =>
                /\ Len(down') = Len(down) + (Len(log) - from) + 1
                /\ \A i \in 1 .. Len(log) + 1 - from :
                     down'[Len(down) + i] = Event(from + i, log'[from + i])
<1>1. PICK k \in Nat, l \in Seq(Events) : k = Len(log) /\ l = log'
  BY EventsType, AppendAt
<1>2. /\ Len(l) = k + 1
      /\ \A i \in 1 .. k : l[i] = log[i]
      /\ l[k + 1] = <<"RESUMED", {}>>
  BY <1>1, EventsType, AppendAt
<1>3. PICK n \in Seq(DownMessage) : n = Numbered(from)
  BY NumberedIs
<1>4. PICK x \in DownMessage : x = Event(k + 1, <<"RESUMED", {}>>)
  <2>1. PICK e \in Events : e = <<"RESUMED", {}>>
    BY EventsType
  <2>2. k + 1 \in Nat
    OBVIOUS
  <2>3. Event(k + 1, e) \in DownMessage
    BY <2>2, EventType
  <2>4. QED
    BY <2>1, <2>3
<1>5. PICK d \in Seq(DownMessage), h \in Nat : d = down /\ h = Len(down)
  OBVIOUS
<1>6. down' = d \o n \o <<x>>
  BY <1>1, <1>2, <1>3, <1>4, <1>5
<1>7. PICK r \in Seq(DownMessage) : r = d \o n \o <<x>>
  BY ConcatLast
<1>8. /\ Len(r) = h + Len(n) + 1 /\ Len(n) \in Nat
      /\ \A i \in 1 .. h : r[i] = d[i]
      /\ \A i \in 1 .. Len(n) : r[h + i] = n[i]
      /\ r[h + Len(n) + 1] = x
  BY <1>5, <1>7, ConcatLast
<1>9. ASSUME NEW i \in 1 .. h PROVE i \in DOMAIN r /\ r[i] = d[i]
  BY <1>8
<1>10. ASSUME from <= k
       PROVE  /\ Len(r) = h + (k - from) + 1
              /\ \A i \in 1 .. k + 1 - from : r[h + i] = Event(from + i, l[from + i])
  <2>1. /\ Len(n) = k - from
        /\ \A i \in 1 .. k - from : n[i] = Event(from + i, log[from + i])
    BY <1>1, <1>3, <1>10, NumberedIs
  <2>2. ASSUME NEW i \in 1 .. k + 1 - from
        PROVE  r[h + i] = Event(from + i, l[from + i])
    <3>1. CASE i \in 1 .. k - from
      <4>1. r[h + i] = n[i]
        BY <1>8, <2>1, <3>1
      <4>2. l[from + i] = log[from + i]
        BY <1>2, <1>10, <3>1
      <4>3. QED
        BY <2>1, <3>1, <4>1, <4>2
    <3>2. CASE i = k + 1 - from
      <4>1. from + i = k + 1 /\ h + i = h + Len(n) + 1
        BY <1>8, <1>10, <2>1, <3>2
      <4>2. r[h + i] = x
        BY <1>8, <4>1
      <4>3. l[from + i] = <<"RESUMED", {}>>
        BY <1>2, <4>1
      <4>4. QED
        BY <1>4, <4>1, <4>2, <4>3
    <3>3. i \in 1 .. k - from \/ i = k + 1 - from
      BY <1>10
    <3>4. QED
      BY <3>1, <3>2, <3>3
  <2>3. QED
    BY <1>8, <1>10, <2>1, <2>2
<1>11. QED
  BY <1>1, <1>2, <1>5, <1>6, <1>7, <1>9, <1>10

\* The server takes the next message: what it says, and that it leaves the rest of the
\* queue and what is on its way to the client.
LEMMA TakesIs ==
    ASSUME ConnInv, ServerTakes
    PROVE  /\ ConnInv'
           /\ UNCHANGED <<client, m_ws, avail, events>> /\ m_ws = "open"
           /\ m_ws_coro # "upgrade"
           /\ up # <<>> /\ up' = Tail(up)
           /\ \/ /\ Head(up).op = "identify"
                 /\ session' = session + 1 /\ alive' = TRUE /\ attached' = TRUE
                 /\ log' = <<<<"READY", avail>>>>
                 /\ down' = Append(down, Event(1, <<"READY", avail>>))
              \/ /\ Head(up).op \in {"identify", "resume"}
                 /\ UNCHANGED <<session, alive, attached, log>>
                 /\ \E d \in BOOLEAN : down' = Append(down, [op |-> "invalid", d |-> d])
              \/ /\ Head(up).op = "resume"
                 /\ UNCHANGED <<session, alive>>
                 /\ alive /\ Head(up).session = session
                 /\ log' = Append(log, <<"RESUMED", {}>>) /\ attached' = TRUE
                 /\ down' = down \o Numbered(Head(up).s)
                              \o <<Event(Len(log'), <<"RESUMED", {}>>)>>
              \/ /\ Head(up).op = "beat"
                 /\ UNCHANGED <<session, alive, attached, log>>
                 /\ down' = Append(down, [op |-> "ack"])
<1>1. /\ up \in Seq(UpMessage) /\ down \in Seq(DownMessage) /\ log \in Seq(Events)
      /\ session \in Nat /\ avail \in SUBSET Guilds
      /\ alive \in BOOLEAN /\ attached \in BOOLEAN
      /\ faults \in 0 .. MaxFaults /\ events \in 0 .. MaxEvents
  BY DEF ConnInv, TypeOK, FlagsOK, DataOK
<1>2. /\ UNCHANGED <<client, m_ws, avail, events>> /\ m_ws = "open"
      /\ up # <<>> /\ up' = Tail(up)
  BY DEF ServerTakes
<1>3. m_ws_coro # "upgrade"
  BY <1>2 DEF ConnInv, LinkInv
<1>4. Head(up) \in UpMessage /\ up' \in Seq(UpMessage)
  BY <1>1, <1>2, TailAt
<1>5. \/ /\ Head(up).op = "identify"
         /\ session' = session + 1 /\ alive' = TRUE /\ attached' = TRUE
         /\ log' = <<<<"READY", avail>>>>
         /\ down' = Append(down, Event(1, <<"READY", avail>>))
         /\ UNCHANGED faults
      \/ /\ Head(up).op \in {"identify", "resume"}
         /\ UNCHANGED <<session, alive, attached, log>>
         /\ \E d \in BOOLEAN : down' = Append(down, [op |-> "invalid", d |-> d])
         /\ Fault \/ UNCHANGED faults
      \/ /\ Head(up).op = "resume"
         /\ UNCHANGED <<session, alive, faults>>
         /\ alive /\ Head(up).session = session
         /\ log' = Append(log, <<"RESUMED", {}>>) /\ attached' = TRUE
         /\ down' = down \o Numbered(Head(up).s)
                      \o <<Event(Len(log'), <<"RESUMED", {}>>)>>
      \/ /\ Head(up).op = "beat"
         /\ UNCHANGED <<session, alive, attached, log, faults>>
         /\ down' = Append(down, [op |-> "ack"])
  <2>1. TakeIdentify \/ TakeResume \/ TakeBeat
    BY DEF ServerTakes
  <2>2. CASE TakeIdentify
    <3>1. <<<<"READY", avail>>>>[1] = <<"READY", avail>>
      OBVIOUS
    <3>2. QED
      BY <2>2, <3>1 DEF TakeIdentify, Is
  <2>3. CASE TakeResume
    BY <2>3 DEF TakeResume, Is
  <2>4. CASE TakeBeat
    BY <2>4 DEF TakeBeat, Is
  <2>5. QED
    BY <2>1, <2>2, <2>3, <2>4
<1>6. /\ session' \in Nat /\ alive' \in BOOLEAN /\ attached' \in BOOLEAN
      /\ faults' \in 0 .. MaxFaults
  <2>1. Fault => faults' \in 0 .. MaxFaults
    BY FaultIs DEF ConnInv
  <2>2. session + 1 \in Nat
    BY <1>1
  <2>3. QED
    BY <1>1, <1>5, <2>1, <2>2, Zenon
<1>7. /\ log' \in Seq(Events) /\ down' \in Seq(DownMessage)
      /\ \A i \in 1 .. Len(down) : i \in DOMAIN down' /\ down'[i] = down[i]
      /\ Head(up).op = "beat" => Coming("ack")'
  <2>1. ASSUME NEW x \in DownMessage, down' = Append(down, x)
        PROVE  /\ down' \in Seq(DownMessage)
               /\ \A i \in 1 .. Len(down) : i \in DOMAIN down' /\ down'[i] = down[i]
               /\ x.op = "ack" => Coming("ack")'
    <3>1. x.op = "ack" => Coming("ack")'
      <4>1. x.op = "ack" => \E i \in DOMAIN Append(down, x) : Is(Append(down, x)[i], "ack")
        BY <1>1, FlightAppend
      <4>2. QED
        BY <2>1, <4>1 DEF Coming
    <3>2. QED
      BY <1>1, <2>1, <3>1, AppendAt
  <2>2. CASE /\ Head(up).op = "identify"
             /\ log' = <<<<"READY", avail>>>>
             /\ down' = Append(down, Event(1, <<"READY", avail>>))
    <3>1. <<"READY", avail>> \in Events
      BY <1>1, EventsType
    <3>2. Event(1, <<"READY", avail>>) \in DownMessage
      BY <3>1, EventType
    <3>3. log' \in Seq(Events)
      <4> HIDE DEF Events
      <4>1. QED
        BY <2>2, <3>1
    <3>4. QED
      BY <2>1, <2>2, <3>2, <3>3
  <2>3. CASE /\ Head(up).op \in {"identify", "resume"}
             /\ UNCHANGED log
             /\ \E d \in BOOLEAN : down' = Append(down, [op |-> "invalid", d |-> d])
    BY <1>1, <2>1, <2>3, MessageTypes
  <2>4. CASE /\ Head(up).op = "resume"
             /\ log' = Append(log, <<"RESUMED", {}>>)
             /\ down' = down \o Numbered(Head(up).s)
                          \o <<Event(Len(log'), <<"RESUMED", {}>>)>>
    <3>1. Head(up).s \in Nat
      BY <1>4, <2>4 DEF UpMessage
    <3>2. QED
      BY <1>1, <2>4, <3>1, ReplayIs
  <2>5. CASE /\ Head(up).op = "beat"
             /\ UNCHANGED log
             /\ down' = Append(down, [op |-> "ack"])
    BY <1>1, <2>1, <2>5, MessageTypes
  <2>6. QED
    BY <1>5, <2>2, <2>3, <2>4, <2>5
<1>8. m_ws' = "open" /\ m_heartbeat_sent => InFlight("beat")' \/ Coming("ack")'
  <2>1. SUFFICES ASSUME m_heartbeat_sent PROVE InFlight("beat")' \/ Coming("ack")'
    OBVIOUS
  <2>2. InFlight("beat") \/ Coming("ack")
    BY <1>2, <2>1 DEF ConnInv, BeatInv
  <2>3. CASE Coming("ack")
    <3>1. PICK i \in 1 .. Len(down) : Is(down[i], "ack")
      BY <1>1, <2>3 DEF Coming
    <3>2. i \in DOMAIN down' /\ Is(down'[i], "ack")
      BY <1>7, <3>1
    <3>3. QED
      BY <3>2 DEF Coming
  <2>4. CASE InFlight("beat")
    <3>1. CASE Head(up).op = "beat"
      BY <1>7, <3>1
    <3>2. CASE Head(up).op # "beat"
      <4>1. \E i \in DOMAIN Tail(up) : Is(Tail(up)[i], "beat")
        BY <1>1, <1>2, <2>4, <3>2, FlightTail DEF InFlight
      <4>2. QED
        BY <1>2, <4>1 DEF InFlight
    <3>3. QED
      BY <3>1, <3>2
  <2>5. QED
    BY <2>2, <2>3, <2>4
<1>9. ConnInv'
  BY <1>1, <1>2, <1>3, <1>4, <1>6, <1>7, <1>8, ServerConn
<1>10. QED
  BY <1>2, <1>3, <1>5, <1>9

\* A message of the server behind the others.
LEMMA BehindIs ==
    ASSUME ConnInv, NEW x \in DownMessage, down' = Append(down, x), UNCHANGED up
    PROVE  /\ down' \in Seq(DownMessage)
           /\ InFlight("beat") \/ Coming("ack") => InFlight("beat")' \/ Coming("ack")'
<1>1. down \in Seq(DownMessage)
  BY DEF ConnInv, TypeOK, DataOK
<1>2. Append(down, x) \in Seq(DownMessage)
  BY <1>1, AppendAt
<1>3. ASSUME Coming("ack") PROVE Coming("ack")'
  <2>1. \E i \in DOMAIN Append(down, x) : Is(Append(down, x)[i], "ack")
    BY <1>1, <1>3, FlightAppend DEF Coming
  <2>2. QED
    BY <2>1 DEF Coming
<1>4. InFlight("beat") => InFlight("beat")'
  BY DEF InFlight
<1>5. QED
  BY <1>2, <1>3, <1>4

\* The server has something to say of itself.
LEMMA SaysIs ==
    ASSUME ConnInv, ServerSays
    PROVE  /\ ConnInv'
           /\ UNCHANGED <<client, session, log, avail, events, m_ws, up>>
           /\ m_ws = "open" /\ m_ws_coro # "upgrade" /\ attached
           /\ \E x \in DownMessage :
                /\ x.op \in Words /\ down' = Append(down, x)
                /\ attached' => attached /\ x.op # "invalid"
                /\ alive' => alive
                /\ attached' => alive' = alive
<1>1. /\ UNCHANGED <<client, session, log, avail, events, m_ws, up>>
      /\ m_ws = "open" /\ attached /\ faults' \in 0 .. MaxFaults
  BY FaultIs DEF ServerSays, ConnInv
<1>2. PICK op \in Words, d \in BOOLEAN :
        /\ down' = Append(down, Word(op, d))
        /\ attached' = (op = "heartbeat")
        /\ alive' = (alive /\ (op = "invalid" => d))
  BY DEF ServerSays
<1>3. Word(op, d) \in DownMessage /\ Word(op, d).op = op
  BY GatewayAssumption DEF Word, DownMessage
<1>4. m_ws_coro # "upgrade"
  BY <1>1 DEF ConnInv, LinkInv
<1>5. /\ down' \in Seq(DownMessage)
      /\ InFlight("beat") \/ Coming("ack") => InFlight("beat")' \/ Coming("ack")'
  BY <1>1, <1>2, <1>3, BehindIs
<1>6. /\ alive' \in BOOLEAN /\ attached' \in BOOLEAN /\ session' \in Nat
      /\ log' \in Seq(Events) /\ avail' \in SUBSET Guilds
      /\ up' \in Seq(UpMessage) /\ events' \in 0 .. MaxEvents
  <2>1. /\ session' \in Nat /\ log' \in Seq(Events) /\ avail' \in SUBSET Guilds
        /\ up' \in Seq(UpMessage) /\ events' \in 0 .. MaxEvents
    BY <1>1 DEF ConnInv, TypeOK, DataOK
  <2>2. QED
    BY <1>2, <2>1
<1>7. m_ws' = "open" /\ m_heartbeat_sent => InFlight("beat")' \/ Coming("ack")'
  BY <1>1, <1>5 DEF ConnInv, BeatInv
<1>8. ConnInv'
  BY <1>1, <1>4, <1>5, <1>6, <1>7, ServerConn
<1>9. alive \in BOOLEAN
  BY DEF ConnInv, TypeOK, FlagsOK
<1>10. /\ attached' => attached /\ op # "invalid"
       /\ alive' => alive
       /\ attached' => alive' = alive
  BY <1>1, <1>2, <1>9
<1>11. QED
  BY <1>1, <1>2, <1>3, <1>4, <1>8, <1>10

\* A guild comes or goes.
LEMMA ChangeIs ==
    ASSUME ConnInv, NEW g \in Guilds, GuildChange(g)
    PROVE  /\ ConnInv'
           /\ UNCHANGED <<client, session, alive, m_ws, up, attached>>
           /\ \E e \in Events :
                /\ e = <<IF g \in avail THEN "GUILD_DELETE" ELSE "GUILD_CREATE", {g}>>
                /\ avail' = IF g \in avail THEN avail \ {g} ELSE avail \union {g}
                /\ log' = IF alive THEN Append(log, e) ELSE log
                /\ down' = IF attached /\ m_ws = "open"
                           THEN Append(down, Event(Len(log'), e)) ELSE down
<1>1. PICK e \in Events :
        e = <<IF g \in avail THEN "GUILD_DELETE" ELSE "GUILD_CREATE", {g}>>
  BY EventsType
<1>2. /\ UNCHANGED <<client, session, alive, m_ws, up, attached, faults>>
      /\ avail' = IF g \in avail THEN avail \ {g} ELSE avail \union {g}
      /\ log' = IF alive THEN Append(log, e) ELSE log
      /\ down' = IF attached /\ m_ws = "open"
                 THEN Append(down, Event(Len(log'), e)) ELSE down
      /\ events < MaxEvents /\ events' = events + 1
  BY <1>1 DEF GuildChange
<1>3. log' \in Seq(Events) /\ Len(log') \in Nat
  <2>1. log \in Seq(Events)
    BY DEF ConnInv, TypeOK, DataOK
  <2>2. Append(log, e) \in Seq(Events) /\ Len(Append(log, e)) \in Nat /\ Len(log) \in Nat
    BY <2>1, AppendAt
  <2>3. QED
    BY <1>2, <2>1, <2>2
<1>4. Event(Len(log'), e) \in DownMessage
  BY <1>3, EventType
<1>5. /\ down' \in Seq(DownMessage)
      /\ InFlight("beat") \/ Coming("ack") => InFlight("beat")' \/ Coming("ack")'
  <2>1. CASE attached /\ m_ws = "open"
    BY <1>2, <1>4, <2>1, BehindIs
  <2>2. CASE ~(attached /\ m_ws = "open")
    BY <1>2, <2>2 DEF ConnInv, TypeOK, DataOK, InFlight, Coming
  <2>3. QED
    BY <2>1, <2>2
<1>6. /\ alive' \in BOOLEAN /\ attached' \in BOOLEAN /\ session' \in Nat
      /\ avail' \in SUBSET Guilds
      /\ up' \in Seq(UpMessage) /\ events' \in 0 .. MaxEvents /\ faults' \in 0 .. MaxFaults
  <2>1. /\ alive' \in BOOLEAN /\ attached' \in BOOLEAN /\ session' \in Nat
        /\ up' \in Seq(UpMessage) /\ faults' \in 0 .. MaxFaults
    BY <1>2 DEF ConnInv, TypeOK, DataOK, FlagsOK
  <2>2. avail' \in SUBSET Guilds
    BY <1>2 DEF ConnInv, TypeOK, DataOK
  <2>3. events' \in 0 .. MaxEvents
    BY <1>2, GatewayAssumption DEF ConnInv, TypeOK, DataOK
  <2>4. QED
    BY <2>1, <2>2, <2>3
<1>7. /\ m_ws' = "open" /\ m_heartbeat_sent => InFlight("beat")' \/ Coming("ack")'
      /\ m_ws = "open" /\ m_ws_coro = "upgrade" => up' = <<>> /\ down' = <<>> /\ ~attached'
      /\ m_ws # "open" => UNCHANGED <<up, down, attached>>
  BY <1>2, <1>5 DEF ConnInv, BeatInv, LinkInv
<1>8. ConnInv'
  BY <1>2, <1>3, <1>5, <1>6, <1>7, ServerConn
<1>9. QED
  BY <1>1, <1>2, <1>8

LEMMA ExpireIs ==
    ASSUME ConnInv, Expire
    PROVE  /\ ConnInv' /\ alive' = FALSE /\ ~attached
           /\ UNCHANGED <<client, session, log, avail, events, link>>
<1>1. /\ UNCHANGED <<client, session, log, avail, events, link>>
      /\ alive' = FALSE /\ ~attached /\ faults' \in 0 .. MaxFaults
  BY FaultIs DEF Expire, ConnInv
<1>2. /\ attached' \in BOOLEAN /\ session' \in Nat
      /\ log' \in Seq(Events) /\ avail' \in SUBSET Guilds
      /\ up' \in Seq(UpMessage) /\ down' \in Seq(DownMessage) /\ events' \in 0 .. MaxEvents
  BY <1>1 DEF ConnInv, TypeOK, DataOK, FlagsOK, link
<1>3. /\ m_ws' = "open" /\ m_heartbeat_sent => InFlight("beat")' \/ Coming("ack")'
      /\ m_ws = "open" /\ m_ws_coro = "upgrade" => up' = <<>> /\ down' = <<>> /\ ~attached'
      /\ UNCHANGED <<m_ws, up, down, attached>>
  BY <1>1 DEF ConnInv, BeatInv, LinkInv, link, InFlight, Coming
<1>4. ConnInv'
  BY <1>1, <1>2, <1>3, ServerConn
<1>5. QED
  BY <1>1, <1>4

LEMMA SilentIs ==
    ASSUME ConnInv, GoSilent
    PROVE  /\ ConnInv' /\ m_ws = "open" /\ m_ws' = "silent" /\ up' = <<>> /\ down' = <<>>
           /\ UNCHANGED <<client, server, attached>>
<1>1. /\ m_ws = "open" /\ m_ws' = "silent" /\ up' = <<>> /\ down' = <<>>
      /\ m_ws_coro = "read"
      /\ UNCHANGED <<client, server, attached>> /\ faults' \in 0 .. MaxFaults
  BY FaultIs DEF GoSilent, ConnInv
<1>2. /\ alive' \in BOOLEAN /\ attached' \in BOOLEAN /\ session' \in Nat
      /\ log' \in Seq(Events) /\ avail' \in SUBSET Guilds
      /\ events' \in 0 .. MaxEvents
  BY <1>1 DEF ConnInv, TypeOK, DataOK, FlagsOK, server
<1>3. up' \in Seq(UpMessage) /\ down' \in Seq(DownMessage)
  BY <1>1, EmptyAt
<1>4. ConnInv'
  BY <1>1, <1>2, <1>3, ServerConn
<1>5. QED
  BY <1>1, <1>4

-----------------------------------------------------------------------------
(* The connection, in every reachable state.                               *)

LEMMA ConnInit == Init => ConnInv
<1>1. Init => LinkInv /\ BeatInv
  BY DEF Init, LinkInv, BeatInv
<1>2. QED
  BY <1>1, TypeInit DEF ConnInv

LEMMA ConnStays == ASSUME ConnInv, UNCHANGED vars PROVE ConnInv'
<1>1. UNCHANGED <<flags, tokens, m_sequence, guilds, server, link, coro, faults>>
  BY DEF vars
<1>2. ControlOK' /\ FlagsOK'
  BY <1>1 DEF ConnInv, TypeOK, ControlOK, FlagsOK, flags, coro, link, server
<1>3. DataOK'
  BY <1>1 DEF ConnInv, TypeOK, DataOK, tokens, guilds, link, server
<1>4. LinkInv' /\ BeatInv'
  BY <1>1 DEF ConnInv, LinkInv, BeatInv, InFlight, Coming, flags, link, coro
<1>5. QED
  BY <1>2, <1>3, <1>4 DEF ConnInv, TypeOK

\* The steps there are, as the invariants see them.
LEMMA Steps ==
    ASSUME ConnInv, [Next]_vars
    PROVE  /\ ConnInv'
           /\ \/ Lost \/ Beats \/ Receive \/ NewToken \/ Upgrade
              \/ ServerTakes \/ ServerSays \/ Expire \/ GoSilent
              \/ Quiet
              \/ \E g \in Guilds : GuildChange(g)
<1>1. CASE Lookup \/ Dial \/ PauseEnds \/ Restart
  BY <1>1, QuietSteps
<1>2. CASE ReadFails \/ SendBeat \/ PingTimeout \/ Command
  BY <1>2, CallsAre, BeatsConn, LostConn
<1>3. CASE Receive
  BY <1>3, ReceiveConn
<1>4. CASE NewToken
  BY <1>4, NewTokenConn
<1>5. CASE Upgrade
  BY <1>5, UpgradeStep
<1>6. CASE ServerTakes
  BY <1>6, TakesIs
<1>7. CASE ServerSays
  BY <1>7, SaysIs
<1>8. CASE Expire
  BY <1>8, ExpireIs
<1>9. CASE GoSilent
  BY <1>9, SilentIs
<1>10. CASE \E g \in Guilds : GuildChange(g)
  BY <1>10, ChangeIs
<1>11. CASE UNCHANGED vars
  BY <1>11, ConnStays DEF vars, Quiet, link, coro, flags
<1>12. QED
  BY <1>1, <1>2, <1>3, <1>4, <1>5, <1>6, <1>7, <1>8, <1>9, <1>10, <1>11 DEF Next

LEMMA ConnInvariance == Spec => []ConnInv
<1>1. ConnInv /\ [Next]_vars => ConnInv'
  BY Steps
<1>2. QED
  BY ConnInit, <1>1, PTL DEF Spec

\* The variables of connect(), the handlers and the server stay what they are declared to be:
\* there is a socket exactly while connect() reads from it or upgrades it.
THEOREM TypeCorrect == Spec => []TypeOK
<1>1. ConnInv => TypeOK
  BY DEF ConnInv
<1>2. QED
  BY ConnInvariance, <1>1, PTL

\* A connection the server serves is never given up for want of a heartbeat: on one that
\* works a heartbeat that was sent is on its way or its answer is, and the answer is
\* received before the next heartbeat is due.
THEOREM BeatsAreAnswered == Spec => HealthyIsKept
<1>1. ASSUME ConnInv, PingTimeout PROVE m_ws # "open"
  BY <1>1 DEF PingTimeout, ConnInv, BeatInv, Answered
<1>2. ConnInv /\ [Next]_vars => [PingTimeout => m_ws # "open"]_vars
  BY <1>1
<1>3. QED
  BY ConnInvariance, <1>2, PTL DEF Spec, HealthyIsKept

-----------------------------------------------------------------------------
(* What is on its way, and the stream of events in it.                     *)

Has(q, o) == \E i \in DOMAIN q : q[i].op = o
Asked(u) == Has(u, "identify") \/ Has(u, "resume")
Resuming(u, s) == \E i \in DOMAIN u : u[i].op = "resume" /\ u[i].session = s

\* The client asks for a session once on a connection, after Hello and before any event or
\* after the refusal of what it asked for before; Invalid Session is the last word on it.
OneAsk(u) == \A i, j \in DOMAIN u : u[i].op # "beat" /\ u[j].op # "beat" => i = j
LastWord(d) ==
    \A i, j \in DOMAIN d : d[i].op = "invalid" =>
        /\ d[j].op = "invalid" => j = i
        /\ d[j].op = "dispatch" => j < i

AskInv ==
    /\ Asked(up) => /\ ~attached /\ ~Has(down, "dispatch")
                    /\ ~Has(down, "hello") /\ ~Has(down, "invalid")
    /\ OneAsk(up)
    /\ Has(up, "identify") => m_sequence = 0
    /\ \A i \in DOMAIN up : up[i].op = "resume" => up[i].s = m_sequence
    /\ Has(down, "hello") => up = <<>> /\ Len(down) = 1 /\ ~attached /\ ~m_should_heartbeat
    /\ Has(down, "invalid") => ~attached /\ ~Asked(up)
    /\ LastWord(down)

\* The events in d are those of the log l that follow the n-th, without a gap and in order,
\* and all of them if nothing was lost.
Stream(d, n, l) ==
    /\ \A i \in DOMAIN d : d[i].op = "dispatch" =>
         /\ d[i].s \in 1 .. Len(l) /\ d[i].e = l[d[i].s] /\ n < d[i].s
         /\ \A k \in n + 1 .. d[i].s : \E j \in DOMAIN d : d[j].op = "dispatch" /\ d[j].s = k
    /\ \A i, j \in DOMAIN d :
         d[i].op = "dispatch" /\ d[j].op = "dispatch" /\ i < j => d[i].s < d[j].s
Full(d, n, l) ==
    \A k \in n + 1 .. Len(l) : \E j \in DOMAIN d : d[j].op = "dispatch" /\ d[j].s = k

\* m_sequence counts the events of the server's session, not of one before it.
Following ==
    m_resume_token = session \/ Resuming(up, session) \/ attached \/ Has(down, "dispatch")

StreamInv ==
    /\ Stream(down, m_sequence, log)
    /\ attached /\ m_ws = "open" => Full(down, m_sequence, log)
    /\ Following => m_sequence <= Len(log)
    /\ session = 0 => Len(log) = 0 /\ m_sequence = 0
    /\ attached => alive
    /\ alive => session # 0

FlowInv == ConnInv /\ AskInv /\ StreamInv

-----------------------------------------------------------------------------
(* The guild list.                                                         *)

\* The n-th event of l says whether guild g is there, and what it says.
About(l, n, g) ==
    \/ l[n][1] = "READY"
    \/ l[n][1] \in {"GUILD_CREATE", "GUILD_DELETE"} /\ l[n][2] = {g}
IsUp(l, n, g) == l[n][1] \in {"READY", "GUILD_CREATE"} /\ g \in l[n][2]
\* It is the last of the first k events to do so.
LastAbout(l, n, g, k) == About(l, n, g) /\ \A m \in n + 1 .. k : ~About(l, m, g)
UpAt(l, k, g) == \E n \in 1 .. k : LastAbout(l, n, g, k) /\ IsUp(l, n, g)
NeverUp(l, k, g) == \A n \in 1 .. k : ~IsUp(l, n, g)

\* READY opens the log of a session, and the log tells which guilds are there.
ServerInv ==
    /\ \A n \in 1 .. Len(log) : log[n][1] = "READY" <=> n = 1
    /\ alive => Len(log) > 0
    /\ alive => \A g \in Guilds : \E n \in 1 .. Len(log) :
                  LastAbout(log, n, g, Len(log)) /\ (g \in avail <=> IsUp(log, n, g))

\* No guild is shown before the session is the client's; then those are that the events up
\* to m_sequence leave there, or they are kept for RESUMED.
Unserved ==
    \/ m_ws = "none" \/ m_ws_coro = "upgrade"
    \/ Has(down, "hello") \/ Asked(up) \/ Has(down, "invalid")
    \/ (attached \/ Has(down, "dispatch")) /\ m_sequence = 0
ResumedIn(d) == \E i \in DOMAIN d : d[i].op = "dispatch" /\ d[i].e[1] = "RESUMED"

GuildInv ==
    /\ Unserved => online = None /\ shown = None
    /\ Has(down, "invalid") => ~Has(down, "dispatch")
    /\ Following => \A g \in Guilds :
         UpAt(log, m_sequence, g) => online[g] \/ online_resume[g]
    /\ m_ws = "open" /\ (attached \/ Has(down, "dispatch")) /\ ~ResumedIn(down) =>
         \A g \in Guilds : UpAt(log, m_sequence, g) => online[g] /\ shown[g]
    /\ Following /\ m_sequence > 0 => \A g \in Guilds :
         NeverUp(log, m_sequence, g) => ~online[g] /\ ~shown[g] /\ ~online_resume[g]

-----------------------------------------------------------------------------
(* Lists of messages: what they hold.                                      *)

LEMMA HasEmpty == ASSUME NEW o PROVE ~Has(<<>>, o)
BY DEF Has

LEMMA HasTail ==
    ASSUME NEW S, NEW q \in Seq(S), q # <<>>, NEW o
    PROVE  /\ Has(Tail(q), o) => Has(q, o)
           /\ Has(q, o) /\ Head(q).op # o => Has(Tail(q), o)
           /\ Head(q).op = o => Has(q, o)
<1>1. /\ Head(q) = q[1] /\ Len(Tail(q)) = Len(q) - 1 /\ Len(q) \in Nat /\ Len(q) > 0
      /\ \A i \in 1 .. Len(q) - 1 : Tail(q)[i] = q[i + 1]
      /\ DOMAIN q = 1 .. Len(q) /\ DOMAIN Tail(q) = 1 .. Len(q) - 1
  BY TailAt
<1>2. ASSUME Has(Tail(q), o) PROVE Has(q, o)
  <2>1. PICK i \in 1 .. Len(q) - 1 : Tail(q)[i].op = o
    BY <1>1, <1>2 DEF Has
  <2>2. i + 1 \in 1 .. Len(q) /\ q[i + 1].op = o
    BY <1>1, <2>1
  <2>3. QED
    BY <1>1, <2>2 DEF Has
<1>3. ASSUME Has(q, o), Head(q).op # o PROVE Has(Tail(q), o)
  <2>1. PICK i \in 1 .. Len(q) : q[i].op = o
    BY <1>1, <1>3 DEF Has
  <2>2. i # 1
    BY <1>1, <1>3, <2>1
  <2>3. i - 1 \in 1 .. Len(q) - 1 /\ i - 1 + 1 = i
    BY <1>1, <2>2
  <2>4. Tail(q)[i - 1] = q[i]
    BY <1>1, <2>3
  <2>5. QED
    BY <1>1, <2>1, <2>3, <2>4 DEF Has
<1>4. Head(q).op = o => Has(q, o)
  BY <1>1 DEF Has
<1>5. QED
  BY <1>2, <1>3, <1>4

LEMMA HasAppend ==
    ASSUME NEW S, NEW q \in Seq(S), NEW x \in S, NEW o
    PROVE  Has(Append(q, x), o) <=> Has(q, o) \/ x.op = o
<1>1. /\ Len(Append(q, x)) = Len(q) + 1 /\ Len(q) \in Nat
      /\ \A i \in 1 .. Len(q) : Append(q, x)[i] = q[i]
      /\ Append(q, x)[Len(q) + 1] = x
      /\ DOMAIN q = 1 .. Len(q) /\ DOMAIN Append(q, x) = 1 .. Len(q) + 1
  BY AppendAt
<1>2. ASSUME NEW i \in 1 .. Len(q) + 1 PROVE i \in 1 .. Len(q) \/ i = Len(q) + 1
  BY <1>1
<1>3. QED
  BY <1>1, <1>2 DEF Has

\* At most one message of u is not a heartbeat; none is left when it is taken.
LEMMA OneAskTail ==
    ASSUME NEW u \in Seq(UpMessage), u # <<>>, OneAsk(u)
    PROVE  /\ OneAsk(Tail(u))
           /\ Head(u).op # "beat" => ~Asked(Tail(u))
<1>1. /\ Head(u) = u[1] /\ Len(Tail(u)) = Len(u) - 1 /\ Len(u) \in Nat /\ Len(u) > 0
      /\ \A i \in 1 .. Len(u) - 1 : Tail(u)[i] = u[i + 1]
      /\ DOMAIN u = 1 .. Len(u) /\ DOMAIN Tail(u) = 1 .. Len(u) - 1
  BY TailAt
<1>2. ASSUME NEW i \in 1 .. Len(u) - 1 PROVE i + 1 \in 1 .. Len(u) /\ i + 1 # 1
  BY <1>1
<1>3. OneAsk(Tail(u))
  <2>1. SUFFICES ASSUME NEW i \in 1 .. Len(u) - 1, NEW j \in 1 .. Len(u) - 1,
                        Tail(u)[i].op # "beat", Tail(u)[j].op # "beat"
                 PROVE  i = j
    BY <1>1 DEF OneAsk
  <2>2. i + 1 = j + 1
    BY <1>1, <1>2, <2>1 DEF OneAsk
  <2>3. QED
    BY <2>2
<1>4. ASSUME Head(u).op # "beat", NEW i \in 1 .. Len(u) - 1
      PROVE  Tail(u)[i].op = "beat"
  BY <1>1, <1>2, <1>4 DEF OneAsk
<1>5. QED
  BY <1>1, <1>3, <1>4 DEF Asked, Has

LEMMA OneAskAppend ==
    ASSUME NEW u \in Seq(UpMessage), NEW x \in UpMessage, OneAsk(u),
           x.op = "beat" \/ ~Asked(u)
    PROVE  OneAsk(Append(u, x))
<1>1. /\ Len(Append(u, x)) = Len(u) + 1 /\ Len(u) \in Nat
      /\ \A i \in 1 .. Len(u) : Append(u, x)[i] = u[i]
      /\ Append(u, x)[Len(u) + 1] = x
      /\ DOMAIN u = 1 .. Len(u) /\ DOMAIN Append(u, x) = 1 .. Len(u) + 1
  BY AppendAt
<1>2. ASSUME NEW i \in 1 .. Len(u) + 1 PROVE i \in 1 .. Len(u) \/ i = Len(u) + 1
  BY <1>1
<1>3. ASSUME ~Asked(u), NEW i \in 1 .. Len(u) PROVE u[i].op = "beat"
  <2>1. u[i] \in UpMessage
    OBVIOUS
  <2>2. u[i].op \in {"beat", "identify", "resume"}
    BY <2>1 DEF UpMessage
  <2>3. QED
    BY <1>1, <1>3, <2>2 DEF Asked, Has
<1>4. QED
  BY <1>1, <1>2, <1>3 DEF OneAsk

\* The last word stays the last one: nothing follows it but what is neither another one
\* nor an event.
LEMMA LastWordTail ==
    ASSUME NEW d \in Seq(DownMessage), d # <<>>, LastWord(d)
    PROVE  /\ LastWord(Tail(d))
           /\ Head(d).op = "invalid" => ~Has(Tail(d), "invalid") /\ ~Has(Tail(d), "dispatch")
<1>1. /\ Head(d) = d[1] /\ Len(Tail(d)) = Len(d) - 1 /\ Len(d) \in Nat /\ Len(d) > 0
      /\ \A i \in 1 .. Len(d) - 1 : Tail(d)[i] = d[i + 1]
      /\ DOMAIN d = 1 .. Len(d) /\ DOMAIN Tail(d) = 1 .. Len(d) - 1
  BY TailAt
<1>2. ASSUME NEW i \in 1 .. Len(d) - 1 PROVE i + 1 \in 1 .. Len(d) /\ 1 < i + 1
  BY <1>1
<1>3. ASSUME NEW i \in 1 .. Len(d) - 1, NEW j \in 1 .. Len(d) - 1,
             Tail(d)[i].op = "invalid"
      PROVE  /\ Tail(d)[j].op = "invalid" => j = i
             /\ Tail(d)[j].op = "dispatch" => j < i
  <2>1. /\ d[i + 1].op = "invalid" /\ d[j + 1] = Tail(d)[j]
        /\ i + 1 \in 1 .. Len(d) /\ j + 1 \in 1 .. Len(d)
    BY <1>1, <1>2, <1>3
  <2>2. /\ d[j + 1].op = "invalid" => j + 1 = i + 1
        /\ d[j + 1].op = "dispatch" => j + 1 < i + 1
    BY <1>1, <2>1 DEF LastWord
  <2>3. QED
    BY <2>1, <2>2
<1>4. ASSUME Head(d).op = "invalid", NEW i \in 1 .. Len(d) - 1
      PROVE  Tail(d)[i].op # "invalid" /\ Tail(d)[i].op # "dispatch"
  <2>1. d[1].op = "invalid" /\ 1 \in 1 .. Len(d) /\ d[i + 1] = Tail(d)[i]
    BY <1>1, <1>4
  <2>2. i + 1 \in 1 .. Len(d) /\ ~(i + 1 < 1) /\ i + 1 # 1
    BY <1>2
  <2>3. QED
    BY <1>1, <2>1, <2>2 DEF LastWord
<1>5. QED
  BY <1>1, <1>3, <1>4 DEF LastWord, Has

LEMMA LastWordAppend ==
    ASSUME NEW d \in Seq(DownMessage), NEW x \in DownMessage, LastWord(d),
           x.op \in {"invalid", "dispatch"} => ~Has(d, "invalid")
    PROVE  LastWord(Append(d, x))
<1>1. /\ Len(Append(d, x)) = Len(d) + 1 /\ Len(d) \in Nat
      /\ \A i \in 1 .. Len(d) : Append(d, x)[i] = d[i]
      /\ Append(d, x)[Len(d) + 1] = x
      /\ DOMAIN d = 1 .. Len(d) /\ DOMAIN Append(d, x) = 1 .. Len(d) + 1
  BY AppendAt
<1>2. ASSUME NEW i \in 1 .. Len(d) + 1
      PROVE  (i \in 1 .. Len(d) /\ i < Len(d) + 1) \/ i = Len(d) + 1
  BY <1>1
<1>3. x.op \in {"invalid", "dispatch"} => \A i \in 1 .. Len(d) : d[i].op # "invalid"
  BY <1>1 DEF Has
<1>4. QED
  BY <1>1, <1>2, <1>3 DEF LastWord

-----------------------------------------------------------------------------
(* The stream of events.                                                   *)

LEMMA StreamNone ==
    ASSUME NEW d, ~Has(d, "dispatch"), NEW n, NEW l
    PROVE  Stream(d, n, l)
BY DEF Stream, Has

\* A message that is no event changes nothing.
LEMMA StreamOther ==
    ASSUME NEW d \in Seq(DownMessage), NEW x \in DownMessage, x.op # "dispatch",
           NEW n \in Nat, NEW l \in Seq(Events), Stream(d, n, l)
    PROVE  /\ Stream(Append(d, x), n, l)
           /\ Full(d, n, l) => Full(Append(d, x), n, l)
<1>1. PICK h \in Nat, a \in Seq(DownMessage) : a = Append(d, x) /\ h = Len(d)
  BY AppendAt
<1>2. /\ DOMAIN d = 1 .. h /\ DOMAIN a = 1 .. h + 1
      /\ \A i \in 1 .. h : a[i] = d[i]
      /\ a[h + 1] = x
  BY <1>1, AppendAt
<1>3. ASSUME NEW i \in 1 .. h + 1, a[i].op = "dispatch" PROVE i \in 1 .. h
  BY <1>2, <1>3
<1>4. \A i \in 1 .. h : i \in 1 .. h + 1
  OBVIOUS
<1>5. Stream(a, n, l)
  <2>1. ASSUME NEW i \in DOMAIN a, a[i].op = "dispatch"
        PROVE  /\ a[i].s \in 1 .. Len(l) /\ a[i].e = l[a[i].s] /\ n < a[i].s
               /\ \A k \in n + 1 .. a[i].s :
                    \E j \in DOMAIN a : a[j].op = "dispatch" /\ a[j].s = k
    <3>1. i \in 1 .. h /\ d[i] = a[i]
      BY <1>2, <1>3, <2>1
    <3>2. /\ d[i].s \in 1 .. Len(l) /\ d[i].e = l[d[i].s] /\ n < d[i].s
          /\ \A k \in n + 1 .. d[i].s :
               \E j \in DOMAIN d : d[j].op = "dispatch" /\ d[j].s = k
      BY <1>2, <2>1, <3>1 DEF Stream
    <3>3. QED
      BY <1>2, <1>4, <3>1, <3>2
  <2>2. ASSUME NEW i \in DOMAIN a, NEW j \in DOMAIN a,
               a[i].op = "dispatch", a[j].op = "dispatch", i < j
        PROVE  a[i].s < a[j].s
    BY <1>2, <1>3, <2>2 DEF Stream
  <2>3. QED
    BY <2>1, <2>2 DEF Stream
<1>6. Full(d, n, l) => Full(a, n, l)
  BY <1>2, <1>4 DEF Full
<1>7. QED
  BY <1>1, <1>5, <1>6

\* An event the client is not sent.
LEMMA StreamGrows ==
    ASSUME NEW d \in Seq(DownMessage), NEW n \in Nat, NEW l \in Seq(Events), NEW e \in Events,
           Stream(d, n, l)
    PROVE  Stream(d, n, Append(l, e))
<1>1. PICK h \in Nat, m \in Seq(Events) : m = Append(l, e) /\ h = Len(l)
  BY AppendAt
<1>2. /\ Len(m) = h + 1 /\ \A i \in 1 .. h : m[i] = l[i] /\ i \in 1 .. h + 1
  BY <1>1, AppendAt
<1>3. Stream(d, n, m)
  BY <1>1, <1>2 DEF Stream
<1>4. QED
  BY <1>1, <1>3

\* An event the client is sent.
LEMMA StreamNext ==
    ASSUME NEW d \in Seq(DownMessage), NEW n \in Nat, NEW l \in Seq(Events), NEW e \in Events,
           Stream(d, n, l), Full(d, n, l), n <= Len(l)
    PROVE  /\ Stream(Append(d, Event(Len(l) + 1, e)), n, Append(l, e))
           /\ Full(Append(d, Event(Len(l) + 1, e)), n, Append(l, e))
<1>1. PICK h \in Nat, m \in Seq(Events), x \in DownMessage :
        m = Append(l, e) /\ h = Len(l) /\ x = Event(Len(l) + 1, e)
  <2>1. Len(l) + 1 \in Nat /\ Len(l) \in Nat
    OBVIOUS
  <2>2. Event(Len(l) + 1, e) \in DownMessage /\ Append(l, e) \in Seq(Events)
    BY <2>1, EventType, AppendAt
  <2>3. QED
    BY <2>1, <2>2
<1>2. /\ x.op = "dispatch" /\ x.s = h + 1 /\ x.e = e
  <2>1. h + 1 \in Nat
    OBVIOUS
  <2>2. QED
    BY <1>1, <2>1, EventType
<1>3. PICK c \in Nat, a \in Seq(DownMessage) : a = Append(d, x) /\ c = Len(d)
  BY AppendAt
<1>4. /\ Len(m) = h + 1 /\ m[h + 1] = e
      /\ \A i \in 1 .. h : m[i] = l[i] /\ i \in 1 .. h + 1
  BY <1>1, AppendAt
<1>5. /\ DOMAIN d = 1 .. c /\ DOMAIN a = 1 .. c + 1
      /\ \A i \in 1 .. c : a[i] = d[i] /\ i \in 1 .. c + 1
      /\ a[c + 1] = x
  BY <1>3, AppendAt
<1>6. ASSUME NEW i \in 1 .. c + 1 PROVE (i \in 1 .. c /\ i < c + 1) \/ i = c + 1
  OBVIOUS
<1>7. ASSUME NEW k \in n + 1 .. h + 1
      PROVE  \E j \in DOMAIN a : a[j].op = "dispatch" /\ a[j].s = k
  <2>1. CASE k = h + 1
    BY <1>2, <1>5, <2>1
  <2>2. CASE k # h + 1
    <3>1. k \in n + 1 .. h
      BY <2>2
    <3>2. PICK j \in 1 .. c : d[j].op = "dispatch" /\ d[j].s = k
      BY <1>1, <1>5, <3>1 DEF Full
    <3>3. QED
      BY <1>5, <3>2
  <2>3. QED
    BY <2>1, <2>2
<1>8. ASSUME NEW i \in DOMAIN a, a[i].op = "dispatch"
      PROVE  /\ a[i].s \in 1 .. Len(m) /\ a[i].e = m[a[i].s] /\ n < a[i].s
             /\ \A k \in n + 1 .. a[i].s :
                  \E j \in DOMAIN a : a[j].op = "dispatch" /\ a[j].s = k
  <2>1. CASE i = c + 1
    <3>1. a[i].s = h + 1 /\ a[i].e = e
      BY <1>2, <1>5, <2>1
    <3>2. n < h + 1
      BY <1>1
    <3>3. QED
      BY <1>4, <1>7, <3>1, <3>2
  <2>2. CASE i \in 1 .. c
    <3>1. d[i] = a[i] /\ i \in DOMAIN d
      BY <1>5, <2>2
    <3>2. /\ d[i].s \in 1 .. h /\ d[i].e = l[d[i].s] /\ n < d[i].s
          /\ \A k \in n + 1 .. d[i].s :
               \E j \in DOMAIN d : d[j].op = "dispatch" /\ d[j].s = k
      BY <1>1, <1>8, <3>1 DEF Stream
    <3>3. QED
      BY <1>4, <1>5, <3>1, <3>2
  <2>3. QED
    BY <1>5, <1>6, <2>1, <2>2
<1>9. ASSUME NEW i \in DOMAIN a, NEW j \in DOMAIN a,
             a[i].op = "dispatch", a[j].op = "dispatch", i < j
      PROVE  a[i].s < a[j].s
  <2>1. i \in 1 .. c
    BY <1>5, <1>9
  <2>2. d[i] = a[i] /\ i \in DOMAIN d
    BY <1>5, <2>1
  <2>3. CASE j = c + 1
    <3>1. a[j].s = h + 1 /\ d[i].s \in 1 .. h
      BY <1>1, <1>2, <1>5, <1>9, <2>2, <2>3 DEF Stream
    <3>2. QED
      BY <2>2, <3>1
  <2>4. CASE j \in 1 .. c
    BY <1>5, <1>9, <2>2, <2>4 DEF Stream
  <2>5. QED
    BY <1>5, <1>6, <2>3, <2>4
<1>10. Stream(a, n, m)
  BY <1>8, <1>9 DEF Stream
<1>11. Full(a, n, m)
  BY <1>4, <1>7 DEF Full
<1>12. QED
  BY <1>1, <1>3, <1>10, <1>11

\* The head of a stream is the event the client waits for, and the rest is the stream after
\* it.
LEMMA StreamTail ==
    ASSUME NEW d \in Seq(DownMessage), d # <<>>, NEW n \in Nat, NEW l \in Seq(Events),
           Stream(d, n, l)
    PROVE  /\ Head(d).op # "dispatch" =>
                /\ Stream(Tail(d), n, l)
                /\ Full(d, n, l) => Full(Tail(d), n, l)
           /\ Head(d).op = "dispatch" =>
                /\ Head(d).s = n + 1 /\ n + 1 \in 1 .. Len(l) /\ Head(d).e = l[n + 1]
                /\ Stream(Tail(d), n + 1, l)
                /\ Full(d, n, l) => Full(Tail(d), n + 1, l)
<1>1. PICK c \in Nat, t \in Seq(DownMessage) : t = Tail(d) /\ c = Len(d)
  BY TailAt
<1>2. /\ Head(d) = d[1] /\ Len(t) = c - 1 /\ c > 0
      /\ \A i \in 1 .. c - 1 : t[i] = d[i + 1]
      /\ DOMAIN d = 1 .. c /\ DOMAIN t = 1 .. c - 1
  BY <1>1, TailAt
<1>3. ASSUME NEW i \in 1 .. c - 1 PROVE i + 1 \in 1 .. c /\ 1 < i + 1
  OBVIOUS
<1>4. ASSUME NEW j \in 1 .. c, j # 1 PROVE j - 1 \in 1 .. c - 1 /\ t[j - 1] = d[j]
  <2>1. j - 1 \in 1 .. c - 1 /\ j - 1 + 1 = j
    BY <1>4
  <2>2. QED
    BY <1>2, <2>1
<1>5. ASSUME NEW i \in 1 .. c - 1, t[i].op = "dispatch"
      PROVE  /\ t[i].s \in 1 .. Len(l) /\ t[i].e = l[t[i].s] /\ n < t[i].s
             /\ \A k \in n + 1 .. t[i].s :
                  \E j \in 1 .. c : d[j].op = "dispatch" /\ d[j].s = k
             /\ d[1].op = "dispatch" => d[1].s < t[i].s
  <2>1. PICK m \in 1 .. c : m = i + 1 /\ 1 < m /\ t[i] = d[m]
    BY <1>2, <1>3
  <2>2. 1 \in 1 .. c
    BY <1>2
  <2>3. /\ d[m].s \in 1 .. Len(l) /\ d[m].e = l[d[m].s] /\ n < d[m].s
        /\ \A k \in n + 1 .. d[m].s :
             \E j \in 1 .. c : d[j].op = "dispatch" /\ d[j].s = k
    BY <1>2, <1>5, <2>1 DEF Stream
  <2>4. d[1].op = "dispatch" => d[1].s < d[m].s
    BY <1>2, <1>5, <2>1, <2>2 DEF Stream
  <2>5. QED
    BY <2>1, <2>3, <2>4
<1>6. ASSUME NEW i \in 1 .. c - 1, NEW j \in 1 .. c - 1,
             t[i].op = "dispatch", t[j].op = "dispatch", i < j
      PROVE  t[i].s < t[j].s
  <2>1. /\ t[i] = d[i + 1] /\ i + 1 \in DOMAIN d
        /\ t[j] = d[j + 1] /\ j + 1 \in DOMAIN d /\ i + 1 < j + 1
    BY <1>2, <1>3, <1>6
  <2>2. QED
    BY <1>6, <2>1 DEF Stream
<1>7. CASE d[1].op # "dispatch"
  <2>1. ASSUME NEW k, \E j \in 1 .. c : d[j].op = "dispatch" /\ d[j].s = k
        PROVE  \E j \in 1 .. c - 1 : t[j].op = "dispatch" /\ t[j].s = k
    <3>1. PICK j \in 1 .. c : d[j].op = "dispatch" /\ d[j].s = k
      BY <2>1
    <3>2. j # 1
      BY <1>7, <3>1
    <3>3. QED
      BY <1>4, <3>1, <3>2
  <2>2. Stream(t, n, l)
    BY <1>2, <1>5, <1>6, <2>1 DEF Stream
  <2>3. Full(d, n, l) => Full(t, n, l)
    BY <1>2, <2>1 DEF Full
  <2>4. QED
    BY <1>1, <1>2, <1>7, <2>2, <2>3
<1>8. CASE d[1].op = "dispatch"
  <2>1. /\ d[1].s \in 1 .. Len(l) /\ d[1].e = l[d[1].s] /\ n < d[1].s
        /\ \A k \in n + 1 .. d[1].s :
             \E j \in DOMAIN d : d[j].op = "dispatch" /\ d[j].s = k
    BY <1>2, <1>8 DEF Stream
  <2>2. d[1].s = n + 1
    <3>1. n + 1 \in n + 1 .. d[1].s
      BY <2>1
    <3>2. PICK j \in 1 .. c : d[j].op = "dispatch" /\ d[j].s = n + 1
      BY <1>2, <2>1, <3>1
    <3>3. CASE j = 1
      BY <3>2, <3>3
    <3>4. CASE j # 1
      <4>1. 1 < j /\ 1 \in 1 .. c
        BY <3>4
      <4>2. d[1].s < d[j].s
        BY <1>2, <1>8, <3>2, <4>1 DEF Stream
      <4>3. QED
        BY <2>1, <3>2, <4>2
    <3>5. QED
      BY <3>3, <3>4
  <2>3. ASSUME NEW k, k # n + 1,
               \E j \in 1 .. c : d[j].op = "dispatch" /\ d[j].s = k
        PROVE  \E j \in 1 .. c - 1 : t[j].op = "dispatch" /\ t[j].s = k
    <3>1. PICK j \in 1 .. c : d[j].op = "dispatch" /\ d[j].s = k
      BY <2>3
    <3>2. j # 1
      BY <2>2, <2>3, <3>1
    <3>3. QED
      BY <1>4, <3>1, <3>2
  <2>4. ASSUME NEW k \in Nat, NEW b \in Nat, k \in n + 1 + 1 .. b
        PROVE  k \in n + 1 .. b /\ k # n + 1
    BY <2>4
  <2>5. ASSUME NEW i \in 1 .. c - 1, t[i].op = "dispatch"
        PROVE  /\ t[i].s \in 1 .. Len(l) /\ t[i].e = l[t[i].s] /\ n + 1 < t[i].s
               /\ \A k \in n + 1 + 1 .. t[i].s :
                    \E j \in 1 .. c - 1 : t[j].op = "dispatch" /\ t[j].s = k
    <3>1. /\ t[i].s \in 1 .. Len(l) /\ t[i].e = l[t[i].s] /\ n + 1 < t[i].s
          /\ \A k \in n + 1 .. t[i].s :
               \E j \in 1 .. c : d[j].op = "dispatch" /\ d[j].s = k
      BY <1>5, <1>8, <2>2, <2>5
    <3>2. ASSUME NEW k \in n + 1 + 1 .. t[i].s
          PROVE  \E j \in 1 .. c - 1 : t[j].op = "dispatch" /\ t[j].s = k
      <4>1. k \in Nat /\ t[i].s \in Nat
        BY <3>1
      <4>2. k \in n + 1 .. t[i].s /\ k # n + 1
        BY <2>4, <4>1
      <4>3. QED
        BY <2>3, <3>1, <4>2
    <3>3. QED
      BY <3>1, <3>2
  <2>6. Stream(t, n + 1, l)
    BY <1>2, <1>6, <2>5 DEF Stream
  <2>7. Full(d, n, l) => Full(t, n + 1, l)
    <3>1. SUFFICES ASSUME Full(d, n, l), NEW k \in n + 1 + 1 .. Len(l)
                   PROVE  \E j \in 1 .. c - 1 : t[j].op = "dispatch" /\ t[j].s = k
      BY <1>2 DEF Full
    <3>2. k \in Nat /\ Len(l) \in Nat
      OBVIOUS
    <3>3. k \in n + 1 .. Len(l) /\ k # n + 1
      BY <2>4, <3>2
    <3>4. QED
      BY <1>2, <2>3, <3>1, <3>3 DEF Full
  <2>8. QED
    BY <1>1, <1>2, <1>8, <2>1, <2>2, <2>6, <2>7
<1>9. QED
  BY <1>2, <1>7, <1>8

\* A replay behind no event: all that follow the n-th, and no other message.
LEMMA StreamReplay ==
    ASSUME NEW d \in Seq(DownMessage), ~Has(d, "dispatch"), NEW n \in Nat,
           NEW l \in Seq(Events), n < Len(l), NEW r \in Seq(DownMessage),
           \A i \in 1 .. Len(d) : r[i] = d[i],
           Len(r) = Len(d) + (Len(l) - n),
           \A i \in 1 .. Len(l) - n : r[Len(d) + i] = Event(n + i, l[n + i])
    PROVE  /\ Stream(r, n, l) /\ Full(r, n, l)
           /\ \A o : o # "dispatch" => (Has(r, o) <=> Has(d, o))
           /\ Has(r, "dispatch")
           /\ LastWord(d) /\ ~Has(d, "invalid") => LastWord(r)
<1>1. PICK c \in Nat, h \in Nat : c = Len(d) /\ h = Len(l)
  OBVIOUS
<1>2. /\ n < h /\ Len(r) = c + (h - n)
      /\ DOMAIN r = 1 .. c + (h - n) /\ DOMAIN d = 1 .. c
      /\ \A i \in 1 .. c : r[i] = d[i] /\ d[i].op # "dispatch"
  BY <1>1 DEF Has
<1>3. ASSUME NEW i \in 1 .. h - n
      PROVE  /\ r[c + i].op = "dispatch" /\ r[c + i].s = n + i /\ r[c + i].e = l[n + i]
             /\ c + i \in 1 .. c + (h - n) /\ n + i \in 1 .. h
  <2>1. n + i \in Nat /\ n + i \in 1 .. h /\ c + i \in 1 .. c + (h - n)
    BY <1>2
  <2>2. l[n + i] \in Events
    BY <1>1, <2>1
  <2>3. QED
    BY <1>1, <2>1, <2>2, EventType
<1>4. ASSUME NEW i \in 1 .. c + (h - n)
      PROVE  i \in 1 .. c \/ \E m \in 1 .. h - n : i = c + m
  <2>1. i \notin 1 .. c => i - c \in 1 .. h - n /\ i = c + (i - c)
    BY <1>2
  <2>2. QED
    BY <2>1
<1>5. ASSUME NEW k \in n + 1 .. h
      PROVE  \E j \in DOMAIN r : r[j].op = "dispatch" /\ r[j].s = k
  <2>1. k - n \in 1 .. h - n /\ n + (k - n) = k
    BY <1>2
  <2>2. QED
    BY <1>2, <1>3, <2>1
<1>6. ASSUME NEW i \in DOMAIN r, r[i].op = "dispatch"
      PROVE  /\ r[i].s \in 1 .. h /\ r[i].e = l[r[i].s] /\ n < r[i].s
             /\ \A k \in n + 1 .. r[i].s : \E j \in DOMAIN r : r[j].op = "dispatch" /\ r[j].s = k
  <2>1. PICK m \in 1 .. h - n : i = c + m
    BY <1>2, <1>4, <1>6
  <2>2. r[i].s = n + m /\ r[i].e = l[n + m] /\ n + m \in 1 .. h
    BY <1>3, <2>1
  <2>3. \A k \in n + 1 .. n + m : k \in n + 1 .. h
    BY <1>2
  <2>4. n < n + m
    OBVIOUS
  <2>5. \A k \in n + 1 .. n + m : \E j \in DOMAIN r : r[j].op = "dispatch" /\ r[j].s = k
    BY <1>5, <2>3
  <2>6. QED
    BY <2>2, <2>4, <2>5, Zenon
<1>7. ASSUME NEW i \in DOMAIN r, NEW j \in DOMAIN r,
             r[i].op = "dispatch", r[j].op = "dispatch", i < j
      PROVE  r[i].s < r[j].s
  <2>1. PICK a \in 1 .. h - n : i = c + a
    BY <1>2, <1>4, <1>7
  <2>2. PICK b \in 1 .. h - n : j = c + b
    BY <1>2, <1>4, <1>7
  <2>3. r[i].s = n + a /\ r[j].s = n + b
    BY <1>3, <2>1, <2>2
  <2>4. a < b
    BY <1>7, <2>1, <2>2
  <2>5. QED
    BY <2>3, <2>4
<1>8. Stream(r, n, l)
  BY <1>1, <1>6, <1>7 DEF Stream
<1>9. Full(r, n, l)
  BY <1>1, <1>5 DEF Full
<1>10. ASSUME NEW o, o # "dispatch" PROVE Has(r, o) <=> Has(d, o)
  <2>1. \A i \in 1 .. c : i \in 1 .. c + (h - n)
    BY <1>2
  <2>2. ASSUME NEW i \in DOMAIN r, r[i].op = o PROVE i \in 1 .. c
    <3>1. ASSUME NEW m \in 1 .. h - n PROVE r[c + m].op # o
      BY <1>3, <1>10
    <3>2. i \in 1 .. c + (h - n)
      BY <1>2
    <3>3. QED
      BY <1>4, <2>2, <3>1, <3>2
  <2>3. QED
    BY <1>2, <2>1, <2>2 DEF Has
<1>11. Has(r, "dispatch")
  <2>1. 1 \in 1 .. h - n
    BY <1>2
  <2>2. QED
    BY <1>2, <1>3, <2>1 DEF Has
<1>12. ~Has(d, "invalid") => LastWord(r)
  BY <1>10 DEF LastWord, Has
<1>13. QED
  BY <1>8, <1>9, <1>10, <1>11, <1>12

-----------------------------------------------------------------------------
(* Every step keeps the order of what is asked and of what is answered.    *)

LEMMA Nothing ==
    /\ \A o : ~Has(<<>>, o)
    /\ ~Asked(<<>>) /\ OneAsk(<<>>) /\ LastWord(<<>>)
    /\ \A s : ~Resuming(<<>>, s)
    /\ \A n, l : Stream(<<>>, n, l)
BY DEF Has, Asked, OneAsk, LastWord, Resuming, Stream

\* Steps that end with nothing on its way and no session attached.
LEMMA FlowEmpty ==
    ASSUME FlowInv, up' = <<>>, down' = <<>>, ~attached', UNCHANGED server,
           Following' => m_sequence' <= Len(log),
           session = 0 => m_sequence' = 0
    PROVE  AskInv' /\ StreamInv'
<1>1. AskInv'
  <2>1. /\ Asked(up') => /\ ~attached' /\ ~Has(down', "dispatch")
                         /\ ~Has(down', "hello") /\ ~Has(down', "invalid")
        /\ OneAsk(up')
        /\ Has(up', "identify") => m_sequence' = 0
        /\ \A i \in DOMAIN up' : up'[i].op = "resume" => up'[i].s = m_sequence'
        /\ Has(down', "hello") => /\ up' = <<>> /\ Len(down') = 1 /\ ~attached'
                                  /\ ~m_should_heartbeat'
        /\ Has(down', "invalid") => ~attached' /\ ~Asked(up')
        /\ LastWord(down')
    BY Nothing
  <2>2. QED
    BY <2>1 DEF AskInv
<1>2. StreamInv'
  <2>1. Stream(down', m_sequence', log')
    BY Nothing
  <2>2. QED
    BY <2>1 DEF StreamInv, FlowInv, server
<1>3. QED
  BY <1>1, <1>2

LEMMA LostFlow == ASSUME FlowInv, Lost PROVE AskInv' /\ StreamInv'
<1>1. PICK r \in BOOLEAN : Forget(r)
  BY DEF Lost
<1>2. /\ up' = <<>> /\ down' = <<>> /\ ~attached'
      /\ r => UNCHANGED tokens
      /\ ~r => m_resume_token' = 0
      /\ UNCHANGED <<m_sequence, server>>
  BY <1>1, ForgetType DEF Lost, FlowInv, ConnInv
<1>3. Following' => m_resume_token' = session
  BY <1>2, Nothing DEF Following, server
<1>4. Following' => m_sequence' <= Len(log)
  <2>1. Following' => Following \/ session = 0
    BY <1>2, <1>3 DEF Following, tokens
  <2>2. session = 0 => m_sequence <= Len(log)
    BY DEF FlowInv, StreamInv
  <2>3. QED
    BY <1>2, <2>1, <2>2 DEF FlowInv, StreamInv
<1>5. QED
  BY <1>2, <1>4, FlowEmpty DEF FlowInv, StreamInv

\* Steps that leave alone what is on its way.
LEMMA FlowSame ==
    ASSUME FlowInv, UNCHANGED <<up, down, attached, m_sequence, session, log>>,
           m_resume_token' = m_resume_token \/ m_resume_token' = 0,
           attached /\ m_ws' = "open" => m_ws = "open",
           alive' => alive, attached => alive', m_should_heartbeat' => m_should_heartbeat
    PROVE  AskInv' /\ StreamInv'
<1>1. AskInv'
  BY DEF FlowInv, AskInv
<1>2. Following' => Following \/ session = 0
  BY DEF Following
<1>3. session = 0 => m_sequence <= Len(log)
  BY DEF FlowInv, StreamInv
<1>4. StreamInv'
  BY <1>2, <1>3 DEF FlowInv, StreamInv
<1>5. QED
  BY <1>1, <1>4

LEMMA ResumingIs ==
    ASSUME NEW u \in Seq(UpMessage), NEW x \in UpMessage, NEW s
    PROVE  /\ Resuming(Append(u, x), s)
                => Resuming(u, s) \/ (x.op = "resume" /\ x.session = s)
           /\ x.op # "resume" \/ x.session # s => (Resuming(Append(u, x), s) => Resuming(u, s))
           /\ u # <<>> => (Resuming(Tail(u), s) => Resuming(u, s))
<1>1. Resuming(Append(u, x), s) => Resuming(u, s) \/ (x.op = "resume" /\ x.session = s)
  <2>1. /\ DOMAIN Append(u, x) = 1 .. Len(u) + 1 /\ DOMAIN u = 1 .. Len(u) /\ Len(u) \in Nat
        /\ \A i \in 1 .. Len(u) : Append(u, x)[i] = u[i]
        /\ Append(u, x)[Len(u) + 1] = x
    BY AppendAt
  <2>2. ASSUME NEW i \in 1 .. Len(u) + 1 PROVE i \in 1 .. Len(u) \/ i = Len(u) + 1
    BY <2>1
  <2>3. QED
    BY <2>1, <2>2 DEF Resuming
<1>2. ASSUME u # <<>>, Resuming(Tail(u), s) PROVE Resuming(u, s)
  <2>1. /\ DOMAIN u = 1 .. Len(u) /\ DOMAIN Tail(u) = 1 .. Len(u) - 1 /\ Len(u) \in Nat
        /\ \A i \in 1 .. Len(u) - 1 : Tail(u)[i] = u[i + 1]
    BY <1>2, TailAt
  <2>2. ASSUME NEW i \in 1 .. Len(u) - 1 PROVE i + 1 \in 1 .. Len(u)
    BY <2>1
  <2>3. QED
    BY <1>2, <2>1, <2>2 DEF Resuming
<1>3. QED
  BY <1>1, <1>2

\* What the client puts on its way: a heartbeat at any time, a request when none is out.
ResumeAt(u, n) == \A i \in DOMAIN u : u[i].op = "resume" => u[i].s = n
LEMMA ResumeAtIs ==
    ASSUME NEW u \in Seq(UpMessage), NEW x \in UpMessage, NEW n
    PROVE  /\ ResumeAt(u, n) /\ (x.op = "resume" => x.s = n) => ResumeAt(Append(u, x), n)
           /\ u # <<>> /\ ResumeAt(u, n) => ResumeAt(Tail(u), n)
           /\ u # <<>> /\ ResumeAt(u, n) /\ Head(u).op = "resume" => Head(u).s = n
           /\ ~Asked(u) => ResumeAt(u, n)
<1>1. ResumeAt(u, n) /\ (x.op = "resume" => x.s = n) => ResumeAt(Append(u, x), n)
  <2>1. /\ DOMAIN Append(u, x) = 1 .. Len(u) + 1 /\ DOMAIN u = 1 .. Len(u) /\ Len(u) \in Nat
        /\ \A i \in 1 .. Len(u) : Append(u, x)[i] = u[i]
        /\ Append(u, x)[Len(u) + 1] = x
    BY AppendAt
  <2>2. ASSUME NEW i \in 1 .. Len(u) + 1 PROVE i \in 1 .. Len(u) \/ i = Len(u) + 1
    BY <2>1
  <2>3. QED
    BY <2>1, <2>2 DEF ResumeAt
<1>2. ASSUME u # <<>>, ResumeAt(u, n)
      PROVE  ResumeAt(Tail(u), n) /\ (Head(u).op = "resume" => Head(u).s = n)
  <2>1. /\ DOMAIN u = 1 .. Len(u) /\ DOMAIN Tail(u) = 1 .. Len(u) - 1 /\ Len(u) \in Nat
        /\ \A i \in 1 .. Len(u) - 1 : Tail(u)[i] = u[i + 1]
        /\ Head(u) = u[1] /\ Len(u) > 0
    BY <1>2, TailAt
  <2>2. ASSUME NEW i \in 1 .. Len(u) - 1 PROVE i + 1 \in 1 .. Len(u)
    BY <2>1
  <2>3. QED
    BY <1>2, <2>1, <2>2 DEF ResumeAt
<1>3. ~Asked(u) => ResumeAt(u, n)
  BY DEF Asked, Has, ResumeAt
<1>4. QED
  BY <1>1, <1>2, <1>3

LEMMA BeatsFlow == ASSUME FlowInv, Beats PROVE AskInv' /\ StreamInv'
<1>1. PICK x \in UpMessage : x = [op |-> "beat"]
  BY MessageTypes
<1>2. /\ UNCHANGED <<tokens, m_sequence, server, m_ws, down, attached, m_should_heartbeat>>
      /\ up \in Seq(UpMessage) /\ x.op = "beat"
      /\ m_ws # "open" => up' = up
      /\ m_ws = "open" => up' = Append(up, x)
  BY <1>1 DEF Beats, FlowInv, ConnInv, TypeOK, DataOK
<1>3. CASE m_ws # "open"
  BY <1>2, <1>3, FlowSame DEF server, tokens, FlowInv, StreamInv
<1>4. CASE m_ws = "open"
  <2>1. up' = Append(up, x)
    BY <1>2, <1>4
  <2>2. \A o : Has(up', o) <=> Has(up, o) \/ o = "beat"
    BY <1>2, <2>1, HasAppend
  <2>3. Asked(up') <=> Asked(up)
    BY <2>2 DEF Asked
  <2>4. OneAsk(up')
    BY <1>2, <2>1, OneAskAppend DEF FlowInv, AskInv
  <2>5. ResumeAt(up', m_sequence)
    <3>1. ResumeAt(up, m_sequence)
      BY DEF FlowInv, AskInv, ResumeAt
    <3>2. QED
      BY <1>2, <2>1, <3>1, ResumeAtIs
  <2>6. ~Has(down, "hello")
    BY DEF Beats, FlowInv, AskInv
  <2>7. AskInv'
    BY <1>2, <2>2, <2>3, <2>4, <2>5, <2>6 DEF FlowInv, AskInv, ResumeAt
  <2>8. Following' => Following
    <3>1. Resuming(up', session) => Resuming(up, session)
      BY <1>2, <2>1, ResumingIs
    <3>2. QED
      BY <1>2, <3>1 DEF Following, tokens, server
  <2>9. StreamInv'
    BY <1>2, <2>8 DEF FlowInv, StreamInv, server
  <2>10. QED
    BY <2>7, <2>9
<1>5. QED
  BY <1>2, <1>3, <1>4 DEF Beats

LEMMA UpgradeFlow == ASSUME FlowInv, Upgrade PROVE AskInv' /\ StreamInv'
<1>1. /\ UNCHANGED <<tokens, m_sequence, server, up, attached>>
      /\ down' = <<>> \/ (down' = <<[op |-> "hello"]>> /\ m_ws' = "open")
      /\ m_ws_coro = "upgrade" /\ UNCHANGED m_should_heartbeat
  BY UpgradeStep DEF FlowInv, Upgrade, flags
<1>2. up = <<>> /\ down = <<>> /\ ~attached /\ ~m_should_heartbeat
  BY <1>1 DEF FlowInv, ConnInv, LinkInv, BeatInv
<1>3. Following' => Following
  <2>1. ~Has(down', "dispatch")
    BY <1>1, Nothing DEF Has
  <2>2. QED
    BY <1>1, <1>2, <2>1 DEF Following, tokens, server
<1>4. CASE down' = <<>>
  BY <1>1, <1>2, <1>3, <1>4, FlowEmpty DEF FlowInv, StreamInv, server
<1>5. CASE down' = <<[op |-> "hello"]>>
  <2>1. /\ ~Has(down', "dispatch") /\ ~Has(down', "invalid") /\ Len(down') = 1
        /\ LastWord(down')
    BY <1>5 DEF Has, LastWord
  <2>2. Stream(down', m_sequence', log')
    BY <2>1, StreamNone
  <2>3. AskInv'
    <3>1. /\ Asked(up') => /\ ~attached' /\ ~Has(down', "dispatch")
                           /\ ~Has(down', "hello") /\ ~Has(down', "invalid")
          /\ OneAsk(up')
          /\ Has(up', "identify") => m_sequence' = 0
          /\ \A i \in DOMAIN up' : up'[i].op = "resume" => up'[i].s = m_sequence'
          /\ Has(down', "hello") => /\ up' = <<>> /\ Len(down') = 1 /\ ~attached'
                                    /\ ~m_should_heartbeat'
          /\ Has(down', "invalid") => ~attached' /\ ~Asked(up')
          /\ LastWord(down')
      BY <1>1, <1>2, <2>1, Nothing
    <3>2. QED
      BY <3>1 DEF AskInv
  <2>4. StreamInv'
    BY <1>1, <1>2, <1>3, <2>2 DEF FlowInv, StreamInv, server
  <2>5. QED
    BY <2>3, <2>4
<1>6. QED
  BY <1>1, <1>4, <1>5

\* How a handler that lets connect() go on ends: its answer is behind the messages to the
\* server, or the send failed and the connection is gone.
Sent(ok, ms) ==
    \/ /\ ok /\ up' = up \o ms /\ down' = Tail(down)
       /\ UNCHANGED <<m_ws, attached, m_ws_coro>>
    \/ /\ ~ok /\ up' = <<>> /\ down' = <<>> /\ m_ws' = "none" /\ ~attached'
       /\ m_ws_coro' \in {"dial", "lookup"}

LEMMA AnswerSent ==
    ASSUME ConnInv, Receive, NEW ok \in BOOLEAN, NEW ms, Answers(ok, ms)
    PROVE  Sent(ok, ms) /\ UNCHANGED server /\ ms \in Seq(UpMessage)
<1>1. m_ws_coro = "read" /\ m_ws = "open" /\ down # <<>> /\ m_ws_coro_running' = FALSE
  BY DEF Receive
<1>2. QED
  BY <1>1, SendConn DEF Answers, Sent

LEMMA BehindAt ==
    ASSUME NEW S, NEW u \in Seq(S), NEW x \in S
    PROVE  u \o <<x>> = Append(u, x) /\ u \o <<>> = u
OBVIOUS

\* The first message on a new connection.
LEMMA HeadHello ==
    ASSUME FlowInv, down # <<>>, Head(down).op = "hello"
    PROVE  up = <<>> /\ Tail(down) = <<>> /\ ~attached
<1>1. down \in Seq(DownMessage)
  BY DEF FlowInv, ConnInv, TypeOK, DataOK
<1>2. Has(down, "hello")
  BY <1>1, HasTail
<1>3. up = <<>> /\ Len(down) = 1 /\ ~attached
  BY <1>2 DEF FlowInv, AskInv
<1>4. Tail(down) \in Seq(DownMessage) /\ Len(Tail(down)) = 0
  BY <1>1, <1>3, TailAt
<1>5. ASSUME NEW t \in Seq(DownMessage), Len(t) = 0 PROVE t = <<>>
  BY <1>5
<1>6. Tail(down) = <<>>
  BY <1>4, <1>5
<1>7. QED
  BY <1>3, <1>6

LEMMA HelloFirst ==
    ASSUME FlowInv, down # <<>>, Head(down).op # "hello"
    PROVE  ~Has(down, "hello") /\ ~Has(Tail(down), "hello")
<1>1. down \in Seq(DownMessage)
  BY DEF FlowInv, ConnInv, TypeOK, DataOK
<1>2. ASSUME Has(down, "hello") PROVE FALSE
  <2>1. Len(down) = 1
    BY <1>2 DEF FlowInv, AskInv
  <2>2. PICK i \in 1 .. 1 : down[i].op = "hello"
    BY <1>1, <1>2, <2>1 DEF Has
  <2>3. QED
    BY <1>1, <2>2, TailAt
<1>3. QED
  BY <1>1, <1>2, HasTail

\* Hello asks to resume the session the client knows.
LEMMA ResumeFlow ==
    ASSUME FlowInv, down # <<>>, Head(down).op = "hello", NEW ok \in BOOLEAN,
           m_resume_token' = 0, m_sequence' = m_sequence, UNCHANGED server,
           Sent(ok, <<[op |-> "resume", session |-> m_resume_token, s |-> m_sequence]>>)
    PROVE  AskInv' /\ StreamInv'
<1>1. PICK t \in Nat, n \in Nat : t = m_resume_token /\ n = m_sequence
  BY DEF FlowInv, ConnInv, TypeOK, DataOK
<1>2. PICK x \in UpMessage : x = [op |-> "resume", session |-> t, s |-> n]
  BY MessageTypes
<1>3. x.op = "resume" /\ x.session = t /\ x.s = n
  BY <1>2
<1>4. up = <<>> /\ Tail(down) = <<>> /\ ~attached
  BY HeadHello
<1>5. session = 0 => m_sequence = 0 /\ Len(log) = 0
  BY DEF FlowInv, StreamInv
<1>6. CASE ok
  <2>1. up' = <<x>> /\ down' = <<>> /\ ~attached' /\ m_ws' = m_ws
    <3>1. <<[op |-> "resume", session |-> m_resume_token, s |-> m_sequence]>> = <<x>>
      BY <1>1, <1>2
    <3>2. up' = up \o <<x>> /\ down' = Tail(down) /\ attached' = attached /\ m_ws' = m_ws
      BY <1>6, <3>1 DEF Sent
    <3>3. <<>> \o <<x>> = <<x>>
      OBVIOUS
    <3>4. QED
      BY <1>4, <3>2, <3>3
  <2>2. /\ OneAsk(up') /\ ~Has(up', "identify")
        /\ \A i \in DOMAIN up' : up'[i].op = "resume" => up'[i].s = n
        /\ \A r : Resuming(up', r) => r = t
    BY <1>3, <2>1 DEF OneAsk, Has, Resuming
  <2>3. AskInv'
    <3>1. /\ Asked(up') => /\ ~attached' /\ ~Has(down', "dispatch")
                           /\ ~Has(down', "hello") /\ ~Has(down', "invalid")
          /\ OneAsk(up')
          /\ Has(up', "identify") => m_sequence' = 0
          /\ \A i \in DOMAIN up' : up'[i].op = "resume" => up'[i].s = m_sequence'
          /\ Has(down', "hello") => /\ up' = <<>> /\ Len(down') = 1 /\ ~attached'
                                    /\ ~m_should_heartbeat'
          /\ Has(down', "invalid") => ~attached' /\ ~Asked(up')
          /\ LastWord(down')
      BY <1>1, <2>1, <2>2, Nothing
    <3>2. QED
      BY <3>1 DEF AskInv
  <2>4. Following' => Following \/ session = 0
    BY <1>1, <2>1, <2>2, Nothing DEF Following, server
  <2>5. Stream(down', m_sequence', log')
    BY <2>1, Nothing
  <2>6. StreamInv'
    <3>1. Following' => m_sequence <= Len(log)
      BY <1>5, <2>4 DEF FlowInv, StreamInv
    <3>2. QED
      BY <2>1, <2>5, <3>1 DEF FlowInv, StreamInv, server
  <2>7. QED
    BY <2>3, <2>6
<1>7. CASE ~ok
  <2>1. up' = <<>> /\ down' = <<>> /\ ~attached'
    BY <1>7 DEF Sent
  <2>2. Following' => session = 0
    BY <2>1, Nothing DEF Following, server
  <2>3. QED
    BY <1>5, <2>1, <2>2, FlowEmpty
<1>8. QED
  BY <1>6, <1>7

\* Hello, or the refusal of what was asked for, asks for a new session.
LEMMA IdentifyFlow ==
    ASSUME FlowInv, down # <<>>, Head(down).op \in {"hello", "invalid"}, NEW ok \in BOOLEAN,
           m_sequence' = 0, UNCHANGED server, m_resume_token' = 0,
           Sent(ok, <<[op |-> "identify"]>>)
    PROVE  AskInv' /\ StreamInv'
<1>1. PICK x \in UpMessage : x = [op |-> "identify"]
  BY MessageTypes
<1>2. /\ up \in Seq(UpMessage) /\ down \in Seq(DownMessage) /\ log \in Seq(Events)
  BY DEF FlowInv, ConnInv, TypeOK, DataOK
<1>3. /\ ~attached /\ ~Asked(up)
      /\ ~Has(Tail(down), "dispatch") /\ ~Has(Tail(down), "hello")
      /\ ~Has(Tail(down), "invalid") /\ LastWord(Tail(down))
  <2>1. CASE Head(down).op = "hello"
    BY <2>1, HeadHello, Nothing
  <2>2. CASE Head(down).op = "invalid"
    <3>1. Has(down, "invalid")
      BY <1>2, <2>2, HasTail
    <3>2. ~attached /\ ~Asked(up)
      BY <3>1 DEF FlowInv, AskInv
    <3>3. /\ ~Has(Tail(down), "dispatch") /\ ~Has(Tail(down), "invalid")
          /\ LastWord(Tail(down))
      BY <1>2, <2>2, LastWordTail DEF FlowInv, AskInv
    <3>4. ~Has(Tail(down), "hello")
      BY <2>2, HelloFirst
    <3>5. QED
      BY <3>2, <3>3, <3>4
  <2>3. QED
    BY <2>1, <2>2
<1>4. session = 0 => Len(log) = 0
  BY DEF FlowInv, StreamInv
<1>5. Len(log) \in Nat
  BY <1>2
<1>6. CASE ok
  <2>1. up' = Append(up, x) /\ down' = Tail(down) /\ ~attached'
    BY <1>1, <1>2, <1>3, <1>6, BehindAt DEF Sent
  <2>2. OneAsk(up')
    BY <1>2, <1>3, <2>1, OneAskAppend DEF FlowInv, AskInv
  <2>3. \A i \in DOMAIN up' : up'[i].op = "resume" => up'[i].s = 0
    <3>1. ResumeAt(up', 0)
      BY <1>1, <1>2, <1>3, <2>1, ResumeAtIs
    <3>2. QED
      BY <3>1 DEF ResumeAt
  <2>4. AskInv'
    <3>1. /\ Asked(up') => /\ ~attached' /\ ~Has(down', "dispatch")
                           /\ ~Has(down', "hello") /\ ~Has(down', "invalid")
          /\ OneAsk(up')
          /\ Has(up', "identify") => m_sequence' = 0
          /\ \A i \in DOMAIN up' : up'[i].op = "resume" => up'[i].s = m_sequence'
          /\ Has(down', "hello") => /\ up' = <<>> /\ Len(down') = 1 /\ ~attached'
                                    /\ ~m_should_heartbeat'
          /\ Has(down', "invalid") => ~attached' /\ ~Asked(up')
          /\ LastWord(down')
      BY <1>3, <2>1, <2>2, <2>3
    <3>2. QED
      BY <3>1 DEF AskInv
  <2>5. Stream(down', m_sequence', log')
    BY <1>3, <2>1, StreamNone
  <2>6. StreamInv'
    BY <1>4, <1>5, <2>1, <2>5 DEF FlowInv, StreamInv, server
  <2>7. QED
    BY <2>4, <2>6
<1>7. CASE ~ok
  BY <1>5, <1>7, FlowEmpty DEF Sent
<1>8. QED
  BY <1>6, <1>7

\* A handler that sends nothing: the event it counted, if it was one, is off the stream.
LEMMA SilentFlow ==
    ASSUME FlowInv, down # <<>>, Head(down).op \in {"dispatch", "heartbeat", "ack"},
           NEW ok \in BOOLEAN, UNCHANGED server, Sent(ok, <<>>),
           Head(down).op = "dispatch" => m_sequence' = Head(down).s,
           Head(down).op # "dispatch" => m_sequence' = m_sequence /\ UNCHANGED tokens
    PROVE  AskInv' /\ StreamInv'
<1>1. /\ up \in Seq(UpMessage) /\ down \in Seq(DownMessage) /\ log \in Seq(Events)
      /\ m_sequence \in Nat /\ Len(log) \in Nat
  BY DEF FlowInv, ConnInv, TypeOK, DataOK
<1>2. /\ \A o : Has(Tail(down), o) => Has(down, o)
      /\ \A o : Head(down).op = o => Has(down, o)
      /\ LastWord(Tail(down))
  BY <1>1, HasTail, LastWordTail DEF FlowInv, AskInv
<1>3. ~Has(Tail(down), "hello")
  BY HelloFirst
<1>4. /\ Stream(Tail(down), m_sequence', log)
      /\ Full(down, m_sequence, log) => Full(Tail(down), m_sequence', log)
      /\ Head(down).op = "dispatch" => /\ m_sequence' <= Len(log) /\ 0 < Len(log)
                                       /\ ~Asked(up)
  <2>1. CASE Head(down).op = "dispatch"
    <3>1. /\ Head(down).s = m_sequence + 1 /\ m_sequence + 1 \in 1 .. Len(log)
          /\ Stream(Tail(down), m_sequence + 1, log)
          /\ Full(down, m_sequence, log) => Full(Tail(down), m_sequence + 1, log)
      BY <1>1, <2>1, StreamTail DEF FlowInv, StreamInv
    <3>2. ~Asked(up)
      BY <1>2, <2>1 DEF FlowInv, AskInv
    <3>3. QED
      BY <1>1, <2>1, <3>1, <3>2
  <2>2. CASE Head(down).op # "dispatch"
    BY <1>1, <2>2, StreamTail DEF FlowInv, StreamInv
  <2>3. QED
    BY <2>1, <2>2
<1>5. session = 0 => m_sequence' = 0
  BY <1>4 DEF FlowInv, StreamInv
<1>6. CASE ok
  <2>1. up' = up /\ down' = Tail(down) /\ m_ws' = m_ws /\ attached' = attached
    BY <1>1, <1>6, BehindAt DEF Sent
  <2>2. /\ Asked(up) => m_sequence' = m_sequence
        /\ Has(up, "identify") \/ Has(up, "resume") => Asked(up)
    BY <1>4 DEF Asked
  <2>3. AskInv'
    <3>1. /\ Asked(up) => /\ ~attached /\ ~Has(Tail(down), "dispatch")
                          /\ ~Has(Tail(down), "hello") /\ ~Has(Tail(down), "invalid")
          /\ OneAsk(up)
          /\ Has(up, "identify") => m_sequence' = 0
          /\ Has(Tail(down), "invalid") => ~attached /\ ~Asked(up)
          /\ LastWord(Tail(down))
      BY <1>2, <2>2 DEF FlowInv, AskInv
    <3>2. \A i \in DOMAIN up : up[i].op = "resume" => up[i].s = m_sequence'
      BY <2>2 DEF FlowInv, AskInv, Has
    <3>3. QED
      BY <1>3, <2>1, <3>1, <3>2 DEF AskInv
  <2>4. Following' => m_sequence' <= Len(log)
    <3>1. CASE Head(down).op = "dispatch"
      BY <1>4, <3>1
    <3>2. CASE Head(down).op # "dispatch"
      <4>1. Following' => Following
        BY <1>2, <2>1, <3>2 DEF Following, tokens, server
      <4>2. QED
        BY <3>2, <4>1 DEF FlowInv, StreamInv
    <3>3. QED
      BY <3>1, <3>2
  <2>5. StreamInv'
    BY <1>4, <1>5, <2>1, <2>4 DEF FlowInv, StreamInv, server
  <2>6. QED
    BY <2>3, <2>5
<1>7. CASE ~ok
  <2>1. up' = <<>> /\ down' = <<>> /\ ~attached'
    BY <1>7 DEF Sent
  <2>2. Following' => m_sequence' <= Len(log)
    <3>1. CASE Head(down).op = "dispatch"
      BY <1>4, <3>1
    <3>2. CASE Head(down).op # "dispatch"
      <4>1. Following' => Following
        BY <2>1, <3>2, Nothing DEF Following, tokens, server
      <4>2. QED
        BY <3>2, <4>1 DEF FlowInv, StreamInv
    <3>3. QED
      BY <3>1, <3>2
  <2>3. QED
    BY <1>5, <2>1, <2>2, FlowEmpty
<1>8. QED
  BY <1>6, <1>7

LEMMA ReceiveFlow == ASSUME FlowInv, Receive PROVE AskInv' /\ StreamInv'
<1>1. PICK ok \in Sends, m \in DownMessage :
             /\ m = Head(down) /\ ok \in BOOLEAN
             /\ \/ /\ m.op = "hello" /\ UNCHANGED guilds /\ m_resume_token # 0
                   /\ m_resume_token_prev' = m_resume_token /\ m_resume_token' = 0
                   /\ m_sequence' = m_sequence
                   /\ Answers(ok, <<[op |-> "resume", session |-> m_resume_token,
                                     s |-> m_sequence]>>)
                \/ /\ m.op \in {"hello", "invalid"} /\ UNCHANGED guilds /\ Identify
                   /\ Answers(ok, <<[op |-> "identify"]>>)
                \/ /\ m.op = "dispatch" /\ Dispatch(m, ok) /\ Answers(ok, <<>>)
                \/ /\ m.op \in {"heartbeat", "ack"} /\ Answers(ok, <<>>)
                   /\ UNCHANGED <<tokens, m_sequence, guilds>>
                \/ Lost
  BY ReceiveIs DEF FlowInv
<1>2. down # <<>> /\ ConnInv
  BY DEF Receive, FlowInv
<1>3. CASE /\ m.op = "hello" /\ m_resume_token' = 0 /\ m_sequence' = m_sequence
           /\ Answers(ok, <<[op |-> "resume", session |-> m_resume_token,
                             s |-> m_sequence]>>)
  BY <1>1, <1>2, <1>3, AnswerSent, ResumeFlow
<1>4. CASE /\ m.op \in {"hello", "invalid"} /\ Identify
           /\ Answers(ok, <<[op |-> "identify"]>>)
  BY <1>1, <1>2, <1>4, AnswerSent, IdentifyFlow DEF Identify
<1>5. CASE /\ m.op = "dispatch" /\ Dispatch(m, ok) /\ Answers(ok, <<>>)
  <2>1. m_sequence' = m.s
    BY <1>5 DEF Dispatch
  <2>2. Sent(ok, <<>>) /\ UNCHANGED server
    BY <1>1, <1>2, <1>5, AnswerSent
  <2>3. QED
    BY <1>1, <1>2, <1>5, <2>1, <2>2, SilentFlow
<1>6. CASE /\ m.op \in {"heartbeat", "ack"} /\ Answers(ok, <<>>)
           /\ UNCHANGED <<tokens, m_sequence>>
  <2>1. Sent(ok, <<>>) /\ UNCHANGED server
    BY <1>1, <1>2, <1>6, AnswerSent
  <2>2. QED
    BY <1>1, <1>2, <1>6, <2>1, SilentFlow
<1>7. CASE Lost
  BY <1>7, LostFlow
<1>8. QED
  BY <1>1, <1>3, <1>4, <1>5, <1>6, <1>7

\* The queue to the server without its first message.
LEMMA TakenAsk ==
    ASSUME FlowInv, up # <<>>
    PROVE  /\ Tail(up) \in Seq(UpMessage) /\ OneAsk(Tail(up))
           /\ \A o : Has(Tail(up), o) => Has(up, o)
           /\ Asked(Tail(up)) => Asked(up)
           /\ \A r : Resuming(Tail(up), r) => Resuming(up, r)
           /\ ResumeAt(Tail(up), m_sequence)
           /\ Head(up).op # "beat" => Asked(up) /\ ~Asked(Tail(up))
           /\ Head(up).op = "identify" => m_sequence = 0
           /\ Head(up).op = "resume" => Head(up).s = m_sequence /\ Resuming(up, Head(up).session)
           /\ ~Has(down, "hello")
<1>1. up \in Seq(UpMessage) /\ OneAsk(up) /\ ResumeAt(up, m_sequence)
  BY DEF FlowInv, ConnInv, TypeOK, DataOK, AskInv, ResumeAt
<1>2. Tail(up) \in Seq(UpMessage) /\ Head(up) \in UpMessage
  BY <1>1, TailAt
<1>3. \A o : Has(Tail(up), o) => Has(up, o)
  BY <1>1, HasTail
<1>4. Head(up).op # "beat" => Asked(up)
  <2>1. Head(up).op \in {"identify", "resume", "beat"}
    BY <1>2 DEF UpMessage
  <2>2. QED
    BY <1>1, <2>1, HasTail DEF Asked
<1>5. Head(up).op = "identify" => m_sequence = 0
  BY <1>1, HasTail DEF FlowInv, AskInv
<1>6. Head(up).op = "resume" => Resuming(up, Head(up).session)
  <2>1. Head(up) = up[1] /\ 1 \in DOMAIN up
    BY <1>1, TailAt
  <2>2. QED
    BY <2>1 DEF Resuming
<1>7. \A r : Resuming(Tail(up), r) => Resuming(up, r)
  BY <1>1, <1>2, ResumingIs
<1>8. ResumeAt(Tail(up), m_sequence) /\ (Head(up).op = "resume" => Head(up).s = m_sequence)
  BY <1>1, <1>2, ResumeAtIs
<1>9. OneAsk(Tail(up)) /\ (Head(up).op # "beat" => ~Asked(Tail(up)))
  BY <1>1, OneAskTail
<1>10. ~Has(down, "hello")
  BY DEF FlowInv, AskInv
<1>11. Asked(Tail(up)) => Asked(up)
  BY <1>3 DEF Asked
<1>12. QED
  BY <1>2, <1>3, <1>4, <1>5, <1>6, <1>7, <1>8, <1>9, <1>10, <1>11

LEMMA TakesFlow == ASSUME FlowInv, ServerTakes PROVE AskInv' /\ StreamInv'
<1>1. /\ UNCHANGED <<client, m_ws, avail, events>> /\ m_ws = "open" /\ m_ws_coro # "upgrade"
      /\ up # <<>> /\ up' = Tail(up)
      /\ UNCHANGED <<m_sequence, m_resume_token, m_should_heartbeat>>
  BY TakesIs DEF FlowInv, client, tokens, flags
<1>2. /\ \/ /\ Head(up).op = "identify"
            /\ session' = session + 1 /\ alive' = TRUE /\ attached' = TRUE
            /\ log' = <<<<"READY", avail>>>>
            /\ down' = Append(down, Event(1, <<"READY", avail>>))
         \/ /\ Head(up).op \in {"identify", "resume"}
            /\ UNCHANGED <<session, alive, attached, log>>
            /\ \E d \in BOOLEAN : down' = Append(down, [op |-> "invalid", d |-> d])
         \/ /\ Head(up).op = "resume"
            /\ UNCHANGED <<session, alive>>
            /\ alive /\ Head(up).session = session
            /\ log' = Append(log, <<"RESUMED", {}>>) /\ attached' = TRUE
            /\ down' = down \o Numbered(Head(up).s)
                         \o <<Event(Len(log'), <<"RESUMED", {}>>)>>
         \/ /\ Head(up).op = "beat"
            /\ UNCHANGED <<session, alive, attached, log>>
            /\ down' = Append(down, [op |-> "ack"])
  BY TakesIs DEF FlowInv
<1>3. /\ down \in Seq(DownMessage) /\ log \in Seq(Events) /\ avail \in SUBSET Guilds
      /\ m_sequence \in Nat /\ session \in Nat /\ Len(log) \in Nat
  BY DEF FlowInv, ConnInv, TypeOK, DataOK
<1>4. /\ Tail(up) \in Seq(UpMessage) /\ OneAsk(Tail(up))
      /\ \A o : Has(Tail(up), o) => Has(up, o)
      /\ Asked(Tail(up)) => Asked(up)
      /\ \A r : Resuming(Tail(up), r) => Resuming(up, r)
      /\ ResumeAt(Tail(up), m_sequence)
      /\ Head(up).op # "beat" => Asked(up) /\ ~Asked(Tail(up))
      /\ Head(up).op = "identify" => m_sequence = 0
      /\ Head(up).op = "resume" => Head(up).s = m_sequence /\ Resuming(up, Head(up).session)
      /\ ~Has(down, "hello")
  BY <1>1, TakenAsk
<1>5. Asked(up) => ~attached /\ ~Has(down, "dispatch") /\ ~Has(down, "invalid")
  BY DEF FlowInv, AskInv
<1>6. LastWord(down) /\ Stream(down, m_sequence, log)
  BY DEF FlowInv, AskInv, StreamInv
<1>7. Has(Tail(up), "identify") => m_sequence = 0
  BY <1>4 DEF FlowInv, AskInv
<1>8. \A i \in DOMAIN Tail(up) : Tail(up)[i].op = "resume" => Tail(up)[i].s = m_sequence
  BY <1>4 DEF ResumeAt
<1>9. CASE /\ Head(up).op = "identify"
           /\ session' = session + 1 /\ alive' = TRUE /\ attached' = TRUE
           /\ log' = <<<<"READY", avail>>>>
           /\ down' = Append(down, Event(1, <<"READY", avail>>))
  <2>1. PICK e \in Events : e = <<"READY", avail>>
    BY <1>3, EventsType
  <2>2. PICK x \in DownMessage : x = Event(1, e) /\ x.op = "dispatch"
    BY EventType
  <2>3. <<>> \in Seq(Events) /\ Len(<<>>) = 0 /\ Append(<<>>, e) = <<e>> /\ Len(<<e>>) = 1
    OBVIOUS
  <2>4. Stream(down, 0, <<>>) /\ Full(down, 0, <<>>)
    BY <1>4, <1>5, <1>9, <2>3, StreamNone DEF Full
  <2>5. Stream(Append(down, x), 0, <<e>>) /\ Full(Append(down, x), 0, <<e>>)
    <3>1. PICK l \in Seq(Events) : l = <<>>
      BY <2>3
    <3>2. Len(l) = 0 /\ 0 <= Len(l) /\ Len(l) + 1 = 1 /\ Append(l, e) = <<e>>
      BY <2>3, <3>1
    <3>3. PICK n \in Nat, d \in Seq(DownMessage) : n = 0 /\ d = down
      BY <1>3
    <3>4. Stream(d, n, l) /\ Full(d, n, l) /\ n <= Len(l)
      BY <2>4, <3>1, <3>2, <3>3
    <3>5. /\ Stream(Append(d, Event(Len(l) + 1, e)), n, Append(l, e))
          /\ Full(Append(d, Event(Len(l) + 1, e)), n, Append(l, e))
      BY <3>4, StreamNext
    <3>6. QED
      BY <2>2, <3>2, <3>3, <3>5
  <2>6. log' = <<e>> /\ down' = Append(down, x)
    BY <1>9, <2>1, <2>2
  <2>7. /\ ~Has(down', "hello") /\ ~Has(down', "invalid") /\ LastWord(down')
    BY <1>3, <1>4, <1>5, <1>6, <1>9, <2>2, <2>6, HasAppend, LastWordAppend
  <2>8. AskInv'
    BY <1>1, <1>4, <1>7, <1>8, <1>9, <2>7 DEF AskInv
  <2>9. m_sequence = 0
    BY <1>4, <1>9
  <2>10. StreamInv'
    <3>1. Stream(down', m_sequence', log') /\ Full(down', m_sequence', log')
      BY <1>1, <2>5, <2>6, <2>9
    <3>2. session' # 0 /\ m_sequence' <= Len(log')
      BY <1>1, <1>3, <1>9, <2>3, <2>6, <2>9
    <3>3. QED
      BY <1>9, <3>1, <3>2 DEF StreamInv
  <2>11. QED
    BY <2>8, <2>10
<1>10. CASE /\ Head(up).op \in {"identify", "resume"}
            /\ UNCHANGED <<session, alive, attached, log>>
            /\ \E d \in BOOLEAN : down' = Append(down, [op |-> "invalid", d |-> d])
  <2>1. PICK x \in DownMessage : x.op = "invalid" /\ down' = Append(down, x)
    BY <1>10, MessageTypes
  <2>2. /\ ~Has(down', "hello") /\ ~Has(down', "dispatch") /\ LastWord(down')
    BY <1>3, <1>4, <1>5, <1>6, <1>10, <2>1, HasAppend, LastWordAppend
  <2>3. AskInv'
    BY <1>1, <1>4, <1>5, <1>7, <1>8, <1>10, <2>2 DEF AskInv
  <2>4. Following' => Following
    BY <1>1, <1>4, <1>10, <2>2 DEF Following
  <2>5. Stream(down', m_sequence', log')
    BY <2>2, StreamNone
  <2>6. StreamInv'
    BY <1>1, <1>4, <1>5, <1>10, <2>4, <2>5 DEF FlowInv, StreamInv
  <2>7. QED
    BY <2>3, <2>6
<1>11. CASE /\ Head(up).op = "resume"
            /\ UNCHANGED <<session, alive>>
            /\ alive /\ Head(up).session = session
            /\ log' = Append(log, <<"RESUMED", {}>>) /\ attached' = TRUE
            /\ down' = down \o Numbered(Head(up).s)
                         \o <<Event(Len(log'), <<"RESUMED", {}>>)>>
  <2>1. Head(up).s = m_sequence /\ Following
    BY <1>4, <1>11 DEF Following
  <2>2. m_sequence <= Len(log)
    BY <2>1 DEF FlowInv, StreamInv
  <2>3. /\ down' \in Seq(DownMessage) /\ log' \in Seq(Events) /\ Len(log') = Len(log) + 1
        /\ \A i \in 1 .. Len(down) : i \in DOMAIN down' /\ down'[i] = down[i]
        /\ Len(down') = Len(down) + (Len(log) - m_sequence) + 1
        /\ \A i \in 1 .. Len(log) + 1 - m_sequence :
             down'[Len(down) + i] = Event(m_sequence + i, log'[m_sequence + i])
    <3>1. down' = down \o Numbered(m_sequence) \o <<Event(Len(log'), <<"RESUMED", {}>>)>>
      BY <1>11, <2>1
    <3>2. QED
      BY <1>3, <1>11, <2>2, <3>1, ReplayIs
  <2>4. PICK d \in Seq(DownMessage), n \in Nat, l \in Seq(Events), r \in Seq(DownMessage) :
          d = down /\ n = m_sequence /\ l = log' /\ r = down'
    BY <1>3, <2>3
  <2>5. /\ n < Len(l) /\ Len(r) = Len(d) + (Len(l) - n)
        /\ \A i \in 1 .. Len(d) : r[i] = d[i]
        /\ \A i \in 1 .. Len(l) - n : r[Len(d) + i] = Event(n + i, l[n + i])
    <3>1. PICK k \in Nat : k = Len(log)
      BY <1>3
    <3>2. Len(l) = k + 1 /\ n <= k /\ Len(d) \in Nat /\ Len(r) = Len(d) + (k - n) + 1
      BY <1>3, <2>2, <2>3, <2>4, <3>1
    <3>3. n < Len(l) /\ Len(r) = Len(d) + (Len(l) - n) /\ Len(l) - n = k + 1 - n
      BY <3>2
    <3>4. /\ \A i \in 1 .. Len(d) : r[i] = d[i]
          /\ \A i \in 1 .. k + 1 - n : r[Len(d) + i] = Event(n + i, l[n + i])
      BY <2>3, <2>4, <3>1
    <3>5. QED
      BY <3>3, <3>4
  <2>6. ~Has(d, "dispatch") /\ ~Has(d, "invalid") /\ ~Has(d, "hello") /\ LastWord(d)
    BY <1>4, <1>5, <1>6, <1>11, <2>4
  <2>7. /\ Stream(r, n, l) /\ Full(r, n, l)
        /\ ~Has(r, "invalid") /\ ~Has(r, "hello") /\ LastWord(r)
    BY <2>5, <2>6, StreamReplay
  <2>8. /\ Stream(down', m_sequence', log') /\ Full(down', m_sequence', log')
        /\ ~Has(down', "invalid") /\ ~Has(down', "hello") /\ LastWord(down')
    BY <1>1, <2>4, <2>7
  <2>9. AskInv'
    BY <1>1, <1>4, <1>7, <1>8, <1>11, <2>8 DEF AskInv
  <2>10. StreamInv'
    BY <1>1, <1>3, <1>11, <2>2, <2>3, <2>8 DEF FlowInv, StreamInv
  <2>11. QED
    BY <2>9, <2>10
<1>12. CASE /\ Head(up).op = "beat"
            /\ UNCHANGED <<session, alive, attached, log>>
            /\ down' = Append(down, [op |-> "ack"])
  <2>1. PICK x \in DownMessage : x.op = "ack" /\ down' = Append(down, x)
    BY <1>12, MessageTypes
  <2>2. /\ \A o : o # "ack" => (Has(down', o) <=> Has(down, o))
        /\ LastWord(down')
        /\ Stream(down', m_sequence, log)
        /\ Full(down, m_sequence, log) => Full(down', m_sequence, log)
    BY <1>3, <1>6, <2>1, HasAppend, LastWordAppend, StreamOther
  <2>3. AskInv'
    BY <1>1, <1>4, <1>7, <1>8, <1>12, <2>2 DEF FlowInv, AskInv
  <2>4. Following' => Following
    BY <1>1, <1>4, <1>12, <2>2 DEF Following
  <2>5. StreamInv'
    BY <1>1, <1>12, <2>2, <2>4 DEF FlowInv, StreamInv
  <2>6. QED
    BY <2>3, <2>5
<1>13. QED
  BY <1>2, <1>9, <1>10, <1>11, <1>12

LEMMA SaysFlow == ASSUME FlowInv, ServerSays PROVE AskInv' /\ StreamInv'
<1>1. /\ UNCHANGED <<client, session, log, avail, events, m_ws, up>>
      /\ m_ws = "open" /\ attached
      /\ UNCHANGED <<m_sequence, m_resume_token, m_should_heartbeat>>
  BY SaysIs DEF FlowInv, client, tokens, flags
<1>2. PICK x \in DownMessage :
        /\ x.op \in Words /\ down' = Append(down, x)
        /\ attached' => attached /\ x.op # "invalid"
        /\ alive' => alive
        /\ attached' => alive' = alive
  BY SaysIs DEF FlowInv
<1>3. x.op \notin {"dispatch", "hello"}
  BY <1>2, GatewayAssumption
<1>4. /\ down \in Seq(DownMessage) /\ log \in Seq(Events) /\ m_sequence \in Nat
  BY DEF FlowInv, ConnInv, TypeOK, DataOK
<1>5. ~Asked(up) /\ ~Has(down, "hello") /\ ~Has(down, "invalid")
  BY <1>1 DEF FlowInv, AskInv
<1>6. /\ LastWord(down')
      /\ Stream(down', m_sequence, log)
      /\ Full(down, m_sequence, log) => Full(down', m_sequence, log)
      /\ \A o : Has(down', o) <=> Has(down, o) \/ x.op = o
  BY <1>2, <1>3, <1>4, <1>5, HasAppend, LastWordAppend, StreamOther
  DEF FlowInv, AskInv, StreamInv
<1>7. AskInv'
  BY <1>1, <1>2, <1>3, <1>5, <1>6 DEF FlowInv, AskInv
<1>8. StreamInv'
  BY <1>1, <1>2, <1>6 DEF FlowInv, StreamInv, Following
<1>9. QED
  BY <1>7, <1>8

LEMMA ChangeFlow ==
    ASSUME FlowInv, NEW g \in Guilds, GuildChange(g) PROVE AskInv' /\ StreamInv'
<1>1. /\ UNCHANGED <<client, session, alive, m_ws, up, attached>>
      /\ UNCHANGED <<m_sequence, m_resume_token, m_should_heartbeat>>
  BY ChangeIs DEF FlowInv, client, tokens, flags
<1>2. PICK e \in Events :
        /\ log' = IF alive THEN Append(log, e) ELSE log
        /\ down' = IF attached /\ m_ws = "open"
                   THEN Append(down, Event(Len(log'), e)) ELSE down
  BY ChangeIs DEF FlowInv
<1>3. /\ down \in Seq(DownMessage) /\ log \in Seq(Events) /\ m_sequence \in Nat
      /\ Len(log) \in Nat
  BY DEF FlowInv, ConnInv, TypeOK, DataOK
<1>4. attached => alive /\ ~Asked(up) /\ ~Has(down, "hello") /\ ~Has(down, "invalid")
  BY DEF FlowInv, AskInv, StreamInv
<1>5. alive => /\ Len(log') = Len(log) + 1 /\ log' = Append(log, e)
  BY <1>2, <1>3, AppendAt
<1>6. Following => m_sequence <= Len(log')
  BY <1>2, <1>3, <1>5 DEF FlowInv, StreamInv
<1>7. session = 0 => Len(log') = 0 /\ m_sequence = 0
  BY <1>2 DEF FlowInv, StreamInv
<1>8. CASE attached /\ m_ws = "open"
  <2>1. PICK x \in DownMessage : x = Event(Len(log) + 1, e) /\ x.op = "dispatch"
    <3>1. Len(log) + 1 \in Nat
      BY <1>3
    <3>2. QED
      BY <3>1, EventType
  <2>2. down' = Append(down, x) /\ log' = Append(log, e)
    BY <1>2, <1>4, <1>5, <1>8, <2>1
  <2>3. /\ Stream(Append(down, x), m_sequence, Append(log, e))
        /\ Full(Append(down, x), m_sequence, Append(log, e))
    <3>1. /\ Stream(down, m_sequence, log) /\ Full(down, m_sequence, log)
          /\ m_sequence <= Len(log)
      BY <1>8 DEF FlowInv, StreamInv, Following
    <3>2. QED
      BY <1>3, <2>1, <3>1, StreamNext
  <2>4. /\ LastWord(down')
        /\ \A o : Has(down', o) <=> Has(down, o) \/ x.op = o
    BY <1>3, <1>4, <1>8, <2>2, HasAppend, LastWordAppend DEF FlowInv, AskInv
  <2>5. AskInv'
    BY <1>1, <1>4, <1>8, <2>1, <2>4 DEF FlowInv, AskInv
  <2>6. Stream(down', m_sequence', log') /\ Full(down', m_sequence', log')
    BY <1>1, <2>2, <2>3
  <2>7. StreamInv'
    BY <1>1, <1>6, <1>7, <1>8, <2>6 DEF FlowInv, StreamInv, Following
  <2>8. QED
    BY <2>5, <2>7
<1>9. CASE ~(attached /\ m_ws = "open")
  <2>1. down' = down
    BY <1>2, <1>9
  <2>2. AskInv'
    BY <1>1, <2>1 DEF FlowInv, AskInv
  <2>3. Stream(down', m_sequence', log')
    <3>1. Stream(down, m_sequence, log)
      BY DEF FlowInv, StreamInv
    <3>2. Stream(down, m_sequence, Append(log, e))
      BY <1>3, <3>1, StreamGrows
    <3>3. QED
      BY <1>1, <1>2, <2>1, <3>1, <3>2
  <2>4. Following' => Following
    BY <1>1, <2>1 DEF Following
  <2>5. StreamInv'
    BY <1>1, <1>6, <1>7, <1>9, <2>3, <2>4 DEF FlowInv, StreamInv
  <2>6. QED
    BY <2>2, <2>5
<1>10. QED
  BY <1>8, <1>9

LEMMA HangFlow == ASSUME FlowInv, GoSilent PROVE AskInv' /\ StreamInv'
<1>1. /\ m_ws' = "silent" /\ up' = <<>> /\ down' = <<>>
      /\ UNCHANGED <<server, attached, m_sequence, m_resume_token>>
  BY SilentIs DEF FlowInv, client, tokens
<1>2. AskInv'
  <2>1. /\ Asked(up') => /\ ~attached' /\ ~Has(down', "dispatch")
                         /\ ~Has(down', "hello") /\ ~Has(down', "invalid")
        /\ OneAsk(up')
        /\ Has(up', "identify") => m_sequence' = 0
        /\ \A i \in DOMAIN up' : up'[i].op = "resume" => up'[i].s = m_sequence'
        /\ Has(down', "hello") => /\ up' = <<>> /\ Len(down') = 1 /\ ~attached'
                                  /\ ~m_should_heartbeat'
        /\ Has(down', "invalid") => ~attached' /\ ~Asked(up')
        /\ LastWord(down')
    BY <1>1, Nothing
  <2>2. QED
    BY <2>1 DEF AskInv
<1>3. Following' => Following
  BY <1>1, Nothing DEF Following, server
<1>4. Stream(down', m_sequence', log')
  BY <1>1, Nothing
<1>5. StreamInv'
  BY <1>1, <1>3, <1>4 DEF FlowInv, StreamInv, server
<1>6. QED
  BY <1>2, <1>5

LEMMA FlowInit == Init => FlowInv
<1> SUFFICES ASSUME Init PROVE FlowInv
  OBVIOUS
<1>1. /\ up = <<>> /\ down = <<>> /\ ~attached /\ m_sequence = 0 /\ session = 0 /\ ~alive
      /\ log = <<>> /\ Len(log) = 0
  BY DEF Init
<1>2. AskInv
  BY <1>1, Nothing DEF AskInv
<1>3. StreamInv
  BY <1>1, Nothing DEF StreamInv
<1>4. QED
  BY <1>2, <1>3, ConnInit DEF FlowInv

LEMMA FlowNext == ASSUME FlowInv, [Next]_vars PROVE FlowInv'
<1>1. ConnInv'
  BY Steps DEF FlowInv
<1>2. CASE Quiet
  <2>1. /\ UNCHANGED <<up, down, attached, m_sequence, session, log, alive>>
        /\ m_resume_token' = m_resume_token
        /\ m_should_heartbeat' => m_should_heartbeat
    BY <1>2 DEF Quiet, tokens, server
  <2>2. attached /\ m_ws' = "open" => m_ws = "open"
    BY <1>2 DEF Quiet, FlowInv, ConnInv, LinkInv
  <2>3. attached => alive'
    BY <2>1 DEF FlowInv, StreamInv
  <2>4. QED
    BY <1>1, <2>1, <2>2, <2>3, FlowSame DEF FlowInv
<1>3. CASE NewToken
  <2>1. /\ UNCHANGED <<up, down, attached, m_sequence, session, log, alive, m_ws>>
        /\ m_resume_token' = 0 /\ UNCHANGED m_should_heartbeat
    BY <1>3 DEF NewToken, link, server, flags
  <2>2. attached => alive'
    BY <2>1 DEF FlowInv, StreamInv
  <2>3. QED
    BY <1>1, <2>1, <2>2, FlowSame DEF FlowInv
<1>4. CASE Expire
  <2>1. /\ UNCHANGED <<up, down, attached, m_sequence, session, log, m_ws>>
        /\ m_resume_token' = m_resume_token /\ UNCHANGED m_should_heartbeat
        /\ alive' = FALSE /\ ~attached
    BY <1>4, ExpireIs DEF FlowInv, link, client, tokens, flags
  <2>2. QED
    BY <1>1, <2>1, FlowSame DEF FlowInv
<1>5. QED
  BY <1>1, <1>2, <1>3, <1>4, Steps, LostFlow, BeatsFlow, ReceiveFlow, UpgradeFlow, TakesFlow,
     SaysFlow, HangFlow, ChangeFlow DEF FlowInv

LEMMA FlowInvariance == Spec => []FlowInv
BY FlowInit, FlowNext, PTL DEF Spec

\* The events on their way on a connection the server serves are those after m_sequence, all
\* of them and in order, over any outages, resumes, refusals and new sessions.
THEOREM NothingIsMissed == Spec => []EventsInOrder
<1>1. ASSUME FlowInv PROVE EventsInOrder
  <2>1. SUFFICES ASSUME attached, m_ws = "open"
                 PROVE  /\ {down[i].s : i \in Pending} = m_sequence + 1 .. Len(log)
                        /\ \A i, j \in Pending : i < j => down[i].s < down[j].s
    BY DEF EventsInOrder
  <2>2. Stream(down, m_sequence, log) /\ Full(down, m_sequence, log)
    BY <1>1, <2>1 DEF FlowInv, StreamInv
  <2>3. m_sequence \in Nat /\ Len(log) \in Nat
    BY <1>1 DEF FlowInv, ConnInv, TypeOK, DataOK
  <2>4. ASSUME NEW i \in Pending PROVE down[i].s \in m_sequence + 1 .. Len(log)
    <3>1. down[i].s \in 1 .. Len(log) /\ m_sequence < down[i].s
      BY <2>2, <2>4 DEF Stream, Pending, Is
    <3>2. QED
      BY <2>3, <3>1
  <2>5. ASSUME NEW k \in m_sequence + 1 .. Len(log) PROVE \E i \in Pending : down[i].s = k
    BY <2>2, <2>5 DEF Full, Pending, Is
  <2>6. {down[i].s : i \in Pending} = m_sequence + 1 .. Len(log)
    BY <2>4, <2>5
  <2>7. \A i, j \in Pending : i < j => down[i].s < down[j].s
    BY <2>2 DEF Stream, Pending, Is
  <2>8. QED
    BY <2>6, <2>7
<1>2. QED
  BY FlowInvariance, <1>1, PTL

-----------------------------------------------------------------------------
(* What a log says of a guild.                                             *)

\* An event behind the others says nothing of the state before it.
LEMMA GrownLog ==
    ASSUME NEW l \in Seq(Events), NEW e \in Events, NEW k \in Nat, k <= Len(l), NEW g
    PROVE  /\ UpAt(Append(l, e), k, g) <=> UpAt(l, k, g)
           /\ NeverUp(Append(l, e), k, g) <=> NeverUp(l, k, g)
<1>1. PICK a \in Seq(Events) : a = Append(l, e)
  BY AppendAt
<1>2. ASSUME NEW n \in 1 .. k PROVE a[n] = l[n]
  BY <1>1, AppendAt
<1>3. ASSUME NEW n \in 1 .. k
      PROVE  (IsUp(a, n, g) <=> IsUp(l, n, g)) /\ (About(a, n, g) <=> About(l, n, g))
  BY <1>2 DEF IsUp, About
<1>4. ASSUME NEW n \in 1 .. k PROVE LastAbout(a, n, g, k) <=> LastAbout(l, n, g, k)
  <2>1. \A m \in n + 1 .. k : m \in 1 .. k
    OBVIOUS
  <2>2. QED
    BY <1>3, <2>1 DEF LastAbout
<1>5. QED
  BY <1>1, <1>3, <1>4 DEF UpAt, NeverUp

\* One event more.
LEMMA NextEvent ==
    ASSUME NEW l \in Seq(Events), NEW k \in Nat, k + 1 <= Len(l), NEW g
    PROVE  /\ UpAt(l, k + 1, g) => IF About(l, k + 1, g) THEN IsUp(l, k + 1, g)
                                                         ELSE UpAt(l, k, g)
           /\ NeverUp(l, k + 1, g) => NeverUp(l, k, g) /\ ~IsUp(l, k + 1, g)
<1>1. ASSUME UpAt(l, k + 1, g), About(l, k + 1, g) PROVE IsUp(l, k + 1, g)
  <2>1. PICK n \in 1 .. k + 1 : LastAbout(l, n, g, k + 1) /\ IsUp(l, n, g)
    BY <1>1 DEF UpAt
  <2>2. n = k + 1
    <3>1. SUFFICES ASSUME n # k + 1 PROVE FALSE
      OBVIOUS
    <3>2. k + 1 \in n + 1 .. k + 1
      BY <3>1
    <3>3. QED
      BY <1>1, <2>1, <3>2 DEF LastAbout
  <2>3. QED
    BY <2>1, <2>2
<1>2. ASSUME UpAt(l, k + 1, g), ~About(l, k + 1, g) PROVE UpAt(l, k, g)
  <2>1. PICK n \in 1 .. k + 1 : LastAbout(l, n, g, k + 1) /\ IsUp(l, n, g)
    BY <1>2 DEF UpAt
  <2>2. n # k + 1
    BY <1>2, <2>1 DEF LastAbout
  <2>3. n \in 1 .. k /\ \A m \in n + 1 .. k : m \in n + 1 .. k + 1
    BY <2>2
  <2>4. QED
    BY <2>1, <2>3 DEF LastAbout, UpAt
<1>3. ASSUME NeverUp(l, k + 1, g) PROVE NeverUp(l, k, g) /\ ~IsUp(l, k + 1, g)
  <2>1. k + 1 \in 1 .. k + 1 /\ \A n \in 1 .. k : n \in 1 .. k + 1
    OBVIOUS
  <2>2. QED
    BY <1>3, <2>1 DEF NeverUp
<1>4. QED
  BY <1>1, <1>2, <1>3

LEMMA NoEvent == \A l, g : ~UpAt(l, 0, g)
BY DEF UpAt

LEMMA ResumedAt ==
    ASSUME NEW d \in Seq(DownMessage), NEW x \in DownMessage
    PROVE  /\ ResumedIn(d) => ResumedIn(Append(d, x))
           /\ d # <<>> /\ ~(Head(d).op = "dispatch" /\ Head(d).e[1] = "RESUMED")
                => (ResumedIn(d) => ResumedIn(Tail(d)))
<1>1. ASSUME ResumedIn(d) PROVE ResumedIn(Append(d, x))
  <2>1. PICK i \in 1 .. Len(d) : d[i].op = "dispatch" /\ d[i].e[1] = "RESUMED"
    BY <1>1 DEF ResumedIn
  <2>2. i \in DOMAIN Append(d, x) /\ Append(d, x)[i] = d[i]
    BY AppendAt
  <2>3. QED
    BY <2>1, <2>2 DEF ResumedIn
<1>2. ASSUME d # <<>>, ~(Head(d).op = "dispatch" /\ Head(d).e[1] = "RESUMED"), ResumedIn(d)
      PROVE  ResumedIn(Tail(d))
  <2>1. PICK i \in 1 .. Len(d) : d[i].op = "dispatch" /\ d[i].e[1] = "RESUMED"
    BY <1>2 DEF ResumedIn
  <2>2. i # 1
    BY <1>2, <2>1, TailAt
  <2>3. i - 1 \in 1 .. Len(d) - 1 /\ i - 1 + 1 = i
    BY <2>2
  <2>4. Tail(d)[i - 1] = d[i] /\ i - 1 \in DOMAIN Tail(d)
    BY <1>2, <2>3, TailAt
  <2>5. QED
    BY <2>1, <2>4 DEF ResumedIn
<1>3. QED
  BY <1>1, <1>2

-----------------------------------------------------------------------------
(* The server's log.                                                       *)

\* The log with one more event.
LEMMA LogGrows ==
    ASSUME NEW l \in Seq(Events), NEW a \in Seq(Events),
           Len(a) = Len(l) + 1, \A n \in 1 .. Len(l) : a[n] = l[n],
           NEW A, NEW B, NEW g,
           \E n \in 1 .. Len(l) : LastAbout(l, n, g, Len(l)) /\ (g \in A <=> IsUp(l, n, g)),
           IF About(a, Len(a), g) THEN g \in B <=> IsUp(a, Len(a), g) ELSE g \in B <=> g \in A
    PROVE  \E n \in 1 .. Len(a) : LastAbout(a, n, g, Len(a)) /\ (g \in B <=> IsUp(a, n, g))
<1>1. PICK h \in Nat : h = Len(l)
  OBVIOUS
<1>2. Len(a) = h + 1 /\ \A n \in 1 .. h : a[n] = l[n]
  BY <1>1
<1>3. CASE About(a, h + 1, g)
  <2>1. LastAbout(a, h + 1, g, h + 1) /\ h + 1 \in 1 .. h + 1
    BY <1>3 DEF LastAbout
  <2>2. g \in B <=> IsUp(a, h + 1, g)
    BY <1>1, <1>3
  <2>3. QED
    BY <1>1, <2>1, <2>2
<1>4. CASE ~About(a, h + 1, g)
  <2>1. PICK n \in 1 .. h : LastAbout(l, n, g, h) /\ (g \in A <=> IsUp(l, n, g))
    BY <1>1
  <2>2. ASSUME NEW m \in 1 .. h
        PROVE  (IsUp(a, m, g) <=> IsUp(l, m, g)) /\ (About(a, m, g) <=> About(l, m, g))
    BY <1>2 DEF IsUp, About
  <2>3. ASSUME NEW m \in n + 1 .. h + 1 PROVE ~About(a, m, g)
    <3>1. CASE m = h + 1
      BY <1>4, <3>1
    <3>2. CASE m # h + 1
      <4>1. m \in n + 1 .. h /\ m \in 1 .. h
        BY <3>2
      <4>2. QED
        BY <2>1, <2>2, <4>1 DEF LastAbout
    <3>3. QED
      BY <3>1, <3>2
  <2>4. LastAbout(a, n, g, h + 1)
    BY <2>1, <2>2, <2>3 DEF LastAbout
  <2>5. g \in B <=> IsUp(a, n, g)
    BY <1>1, <1>4, <2>1, <2>2
  <2>6. n \in 1 .. h + 1
    OBVIOUS
  <2>7. QED
    BY <1>1, <2>4, <2>5, <2>6
<1>5. QED
  BY <1>3, <1>4

LEMMA ServerKeeps ==
    ASSUME ServerInv, UNCHANGED <<log, avail>>, alive' => alive PROVE ServerInv'
BY DEF ServerInv

LEMMA TakesServer == ASSUME FlowInv, ServerInv, ServerTakes PROVE ServerInv'
<1>1. /\ UNCHANGED avail
      /\ \/ /\ log' = <<<<"READY", avail>>>>
         \/ UNCHANGED <<log, alive>>
         \/ /\ UNCHANGED alive
            /\ alive /\ log' = Append(log, <<"RESUMED", {}>>)
  BY TakesIs DEF FlowInv
<1>2. /\ log \in Seq(Events) /\ avail \in SUBSET Guilds /\ Len(log) \in Nat
  BY DEF FlowInv, ConnInv, TypeOK, DataOK
<1>3. CASE log' = <<<<"READY", avail>>>>
  <2>1. /\ Len(log') = 1 /\ log'[1] = <<"READY", avail>>
        /\ log'[1][1] = "READY" /\ log'[1][2] = avail
    BY <1>3
  <2>2. ASSUME NEW g \in Guilds
        PROVE  LastAbout(log', 1, g, 1) /\ (g \in avail <=> IsUp(log', 1, g))
    BY <2>1 DEF LastAbout, About, IsUp
  <2>3. QED
    BY <1>1, <2>1, <2>2 DEF ServerInv
<1>4. CASE UNCHANGED <<log, alive>>
  BY <1>1, <1>4, ServerKeeps
<1>5. CASE /\ UNCHANGED alive
           /\ alive /\ log' = Append(log, <<"RESUMED", {}>>)
  <2>1. PICK e \in Events : e = <<"RESUMED", {}>>
    BY EventsType
  <2>2. PICK l \in Seq(Events), a \in Seq(Events), A \in SUBSET Guilds :
          l = log /\ a = log' /\ a = Append(l, e) /\ A = avail
    BY <1>2, <1>5, <2>1, AppendAt
  <2>3. /\ Len(a) = Len(l) + 1 /\ a[Len(l) + 1] = e /\ e[1] = "RESUMED"
        /\ \A n \in 1 .. Len(l) : a[n] = l[n]
    BY <2>1, <2>2, AppendAt
  <2>4. /\ \A n \in 1 .. Len(l) : l[n][1] = "READY" <=> n = 1
        /\ Len(l) > 0
        /\ \A g \in Guilds : \E n \in 1 .. Len(l) :
             LastAbout(l, n, g, Len(l)) /\ (g \in A <=> IsUp(l, n, g))
    BY <1>5, <2>2 DEF ServerInv
  <2>5. \A g : ~About(a, Len(l) + 1, g)
    BY <2>3 DEF About
  <2>6. ASSUME NEW g \in Guilds
        PROVE  \E n \in 1 .. Len(a) :
                 LastAbout(a, n, g, Len(a)) /\ (g \in A <=> IsUp(a, n, g))
    <3>1. \E n \in 1 .. Len(l) : LastAbout(l, n, g, Len(l)) /\ (g \in A <=> IsUp(l, n, g))
      BY <2>4
    <3>2. ~About(a, Len(a), g)
      BY <2>3, <2>5
    <3>3. QED
      BY <2>3, <3>1, <3>2, LogGrows
  <2>7. \A n \in 1 .. Len(l) + 1 : a[n][1] = "READY" <=> n = 1
    <3>1. ASSUME NEW n \in 1 .. Len(l) + 1, n # Len(l) + 1
          PROVE  n \in 1 .. Len(l) /\ a[n] = l[n]
      BY <2>2, <3>1, AppendAt
    <3>2. Len(l) + 1 # 1 /\ e[1] # "READY"
      BY <2>1, <2>4
    <3>3. QED
      BY <2>3, <2>4, <3>1, <3>2
  <2>8. Len(a) > 0 /\ Len(a) = Len(l) + 1
    BY <2>3, <2>4
  <2>9. \A n \in 1 .. Len(a) : a[n][1] = "READY" <=> n = 1
    BY <2>7, <2>8
  <2>10. log' = a /\ avail' = A
    BY <1>1, <2>2
  <2>11. QED
    BY <2>6, <2>8, <2>9, <2>10 DEF ServerInv
<1>6. QED
  BY <1>1, <1>3, <1>4, <1>5

LEMMA ChangeServer ==
    ASSUME FlowInv, ServerInv, NEW h \in Guilds, GuildChange(h) PROVE ServerInv'
<1>1. UNCHANGED alive
  BY ChangeIs DEF FlowInv
<1>2. PICK e \in Events :
        /\ e = <<IF h \in avail THEN "GUILD_DELETE" ELSE "GUILD_CREATE", {h}>>
        /\ avail' = IF h \in avail THEN avail \ {h} ELSE avail \union {h}
        /\ log' = IF alive THEN Append(log, e) ELSE log
  BY ChangeIs DEF FlowInv
<1>3. /\ log \in Seq(Events) /\ Len(log) \in Nat
  BY DEF FlowInv, ConnInv, TypeOK, DataOK
<1>4. CASE ~alive
  BY <1>1, <1>2, <1>4 DEF ServerInv
<1>5. CASE alive
  <2>1. PICK l \in Seq(Events), a \in Seq(Events) : l = log /\ a = log' /\ a = Append(l, e)
    BY <1>2, <1>3, <1>5, AppendAt
  <2>2. /\ Len(a) = Len(l) + 1 /\ a[Len(l) + 1] = e /\ Len(l) \in Nat
        /\ \A n \in 1 .. Len(l) : a[n] = l[n]
    BY <2>1, AppendAt
  <2>3. /\ e[1] = (IF h \in avail THEN "GUILD_DELETE" ELSE "GUILD_CREATE") /\ e[2] = {h}
        /\ e[1] # "READY"
    BY <1>2
  <2>4. /\ \A n \in 1 .. Len(l) : l[n][1] = "READY" <=> n = 1
        /\ Len(l) > 0
        /\ \A g \in Guilds : \E n \in 1 .. Len(l) :
             LastAbout(l, n, g, Len(l)) /\ (g \in avail <=> IsUp(l, n, g))
    BY <1>5, <2>1 DEF ServerInv
  <2>5. ASSUME NEW g \in Guilds
        PROVE  IF About(a, Len(l) + 1, g) THEN g \in avail' <=> IsUp(a, Len(l) + 1, g)
                                          ELSE g \in avail' <=> g \in avail
    <3>1. About(a, Len(l) + 1, g) <=> g = h
      BY <2>2, <2>3 DEF About
    <3>2. IsUp(a, Len(l) + 1, h) <=> h \notin avail
      BY <2>2, <2>3 DEF IsUp
    <3>3. h \in avail' <=> h \notin avail
      BY <1>2
    <3>4. g # h => (g \in avail' <=> g \in avail)
      BY <1>2
    <3>5. QED
      BY <3>1, <3>2, <3>3, <3>4
  <2>6. PICK A, B : A = avail /\ B = avail'
    OBVIOUS
  <2>7. ASSUME NEW g \in Guilds
        PROVE  \E n \in 1 .. Len(a) :
                 LastAbout(a, n, g, Len(a)) /\ (g \in B <=> IsUp(a, n, g))
    <3>1. \E n \in 1 .. Len(l) : LastAbout(l, n, g, Len(l)) /\ (g \in A <=> IsUp(l, n, g))
      BY <2>4, <2>6
    <3>2. IF About(a, Len(a), g) THEN g \in B <=> IsUp(a, Len(a), g) ELSE g \in B <=> g \in A
      BY <2>2, <2>5, <2>6
    <3>3. QED
      BY <2>2, <3>1, <3>2, LogGrows
  <2>8. \A n \in 1 .. Len(l) + 1 : a[n][1] = "READY" <=> n = 1
    <3>1. ASSUME NEW n \in 1 .. Len(l) + 1, n # Len(l) + 1
          PROVE  n \in 1 .. Len(l) /\ a[n] = l[n]
      BY <2>2, <3>1
    <3>2. Len(l) + 1 # 1
      BY <2>4
    <3>3. QED
      BY <2>2, <2>3, <2>4, <3>1, <3>2
  <2>9. Len(a) > 0
    BY <2>2
  <2>10. \A n \in 1 .. Len(a) : a[n][1] = "READY" <=> n = 1
    BY <2>2, <2>8
  <2>11. QED
    BY <2>1, <2>6, <2>7, <2>9, <2>10 DEF ServerInv
<1>6. QED
  BY <1>4, <1>5

LEMMA ServerNext == ASSUME FlowInv, ServerInv, [Next]_vars PROVE ServerInv'
<1>1. CASE Lost \/ Beats \/ Quiet \/ NewToken \/ Upgrade \/ GoSilent
  <2>1. UNCHANGED server
    BY <1>1, UpgradeStep, SilentIs DEF Lost, Beats, Quiet, NewToken, FlowInv
  <2>2. QED
    BY <2>1, ServerKeeps DEF server
<1>2. CASE Receive
  <2>1. UNCHANGED server
    BY <1>2, ReceiveIs, AnswerSent DEF FlowInv, Lost
  <2>2. QED
    BY <2>1, ServerKeeps DEF server
<1>3. CASE ServerSays
  BY <1>3, SaysIs, ServerKeeps DEF FlowInv
<1>4. CASE Expire
  BY <1>4, ExpireIs, ServerKeeps DEF FlowInv
<1>5. QED
  BY <1>1, <1>2, <1>3, <1>4, Steps, TakesServer, ChangeServer DEF FlowInv

-----------------------------------------------------------------------------
(* Every step keeps the guild list true.                                   *)

\* The outcomes of a send and the words of the server under which the list is true.
GuildRules == Sends = {TRUE} /\ "invalid" \notin Words

GatewayInv == FlowInv /\ ServerInv /\ GuildInv

\* Steps that leave the list and the place in the log alone.
LEMMA GuildSame ==
    ASSUME GatewayInv, UNCHANGED <<guilds, m_sequence, log>>,
           Unserved' => Unserved,
           Following' => Following \/ session = 0,
           Has(down', "invalid") => ~Has(down', "dispatch"),
           m_ws' = "open" /\ (attached' \/ Has(down', "dispatch")) /\ ~ResumedIn(down') =>
             m_ws = "open" /\ (attached \/ Has(down, "dispatch")) /\ ~ResumedIn(down)
    PROVE  GuildInv'
<1>1. session = 0 => m_sequence = 0
  BY DEF GatewayInv, FlowInv, StreamInv
<1>2. UNCHANGED <<online, online_resume, shown>>
  BY DEF guilds
<1>3. Following' => \A g \in Guilds : UpAt(log, m_sequence, g) => online[g] \/ online_resume[g]
  BY <1>1, NoEvent DEF GatewayInv, GuildInv
<1>4. Following' /\ m_sequence > 0 => \A g \in Guilds :
        NeverUp(log, m_sequence, g) => ~online[g] /\ ~shown[g] /\ ~online_resume[g]
  BY <1>1 DEF GatewayInv, GuildInv
<1>5. m_ws' = "open" /\ (attached' \/ Has(down', "dispatch")) /\ ~ResumedIn(down') =>
        \A g \in Guilds : UpAt(log, m_sequence, g) => online[g] /\ shown[g]
  BY DEF GatewayInv, GuildInv
<1>6. Unserved' => online = None /\ shown = None
  BY DEF GatewayInv, GuildInv
<1>7. QED
  BY <1>2, <1>3, <1>4, <1>5, <1>6 DEF GuildInv

\* Steps after which no event of a session counts and no guild is shown.
LEMMA GuildZero ==
    ASSUME GatewayInv, m_sequence' = 0, online' = None, shown' = None,
           Has(down', "invalid") => ~Has(down', "dispatch")
    PROVE  GuildInv'
<1>1. \A g : ~UpAt(log', m_sequence', g)
  BY NoEvent
<1>2. ~(m_sequence' > 0)
  OBVIOUS
<1>3. QED
  BY <1>1, <1>2 DEF GuildInv

LEMMA LostGuilds == ASSUME GatewayInv, Lost PROVE GuildInv'
<1>1. PICK r \in BOOLEAN : Forget(r)
  BY DEF Lost
<1>2. /\ m_ws' = "none" /\ attached' = FALSE /\ up' = <<>> /\ down' = <<>>
      /\ online' = None /\ shown' = None
      /\ \A g \in Guilds : online_resume'[g] = (r /\ (online_resume[g] \/ online[g]))
      /\ r => UNCHANGED tokens
      /\ ~r => m_resume_token' = 0 /\ m_resume_token_prev' = 0
  BY <1>1, ForgetType DEF GatewayInv, FlowInv, ConnInv
<1>3. UNCHANGED <<m_sequence, session, log>>
  BY DEF Lost, server
<1>4. Following' => (r /\ Following) \/ session = 0
  BY <1>2, <1>3, Nothing DEF Following, tokens
<1>5. session = 0 => m_sequence = 0
  BY DEF GatewayInv, FlowInv, StreamInv
<1>6. Following' => \A g \in Guilds :
        UpAt(log', m_sequence', g) => online'[g] \/ online_resume'[g]
  <2>1. SUFFICES ASSUME Following', NEW g \in Guilds, UpAt(log', m_sequence', g)
                 PROVE  online_resume'[g]
    OBVIOUS
  <2>2. UpAt(log, m_sequence, g)
    BY <1>3, <2>1
  <2>3. m_sequence # 0
    BY <2>2, NoEvent
  <2>4. r /\ Following
    BY <1>4, <1>5, <2>1, <2>3
  <2>5. online[g] \/ online_resume[g]
    BY <2>2, <2>4 DEF GatewayInv, GuildInv
  <2>6. QED
    BY <1>2, <2>4, <2>5
<1>7. Following' /\ m_sequence' > 0 => \A g \in Guilds :
        NeverUp(log', m_sequence', g) => ~online'[g] /\ ~shown'[g] /\ ~online_resume'[g]
  <2>1. SUFFICES ASSUME Following', m_sequence > 0, NEW g \in Guilds,
                        NeverUp(log, m_sequence, g)
                 PROVE  ~online'[g] /\ ~shown'[g] /\ ~online_resume'[g]
    BY <1>3
  <2>2. r /\ Following
    BY <1>4, <1>5, <2>1
  <2>3. ~online[g] /\ ~online_resume[g]
    BY <2>1, <2>2 DEF GatewayInv, GuildInv
  <2>4. ~online'[g] /\ ~shown'[g]
    BY <1>2 DEF None
  <2>5. QED
    BY <1>2, <2>3, <2>4
<1>8. ~Has(down', "invalid")
  BY <1>2, Nothing
<1>9. QED
  BY <1>2, <1>6, <1>7, <1>8 DEF GuildInv

\* A guild that comes or goes while the client looks, and one that does so when it does not.
LEMMA ChangeGuilds ==
    ASSUME GatewayInv, NEW h \in Guilds, GuildChange(h) PROVE GuildInv'
<1>1. /\ UNCHANGED <<client, session, m_ws, up, attached>>
      /\ UNCHANGED <<m_sequence, m_resume_token, guilds, online, online_resume, shown, m_ws_coro>>
  BY ChangeIs DEF GatewayInv, FlowInv, client, tokens, guilds, coro
<1>2. PICK e \in Events :
        /\ log' = IF alive THEN Append(log, e) ELSE log
        /\ down' = IF attached /\ m_ws = "open"
                   THEN Append(down, Event(Len(log'), e)) ELSE down
  BY ChangeIs DEF GatewayInv, FlowInv
<1>3. /\ down \in Seq(DownMessage) /\ log \in Seq(Events) /\ m_sequence \in Nat
      /\ Len(log) \in Nat
  BY DEF GatewayInv, FlowInv, ConnInv, TypeOK, DataOK
<1>4. /\ Has(down', "dispatch") => attached \/ Has(down, "dispatch")
      /\ Has(down', "invalid") => Has(down, "invalid") /\ down' = down
      /\ Has(down', "hello") => Has(down, "hello")
      /\ ResumedIn(down) => ResumedIn(down')
  <2>1. CASE attached /\ m_ws = "open"
    <3>1. ~Has(down, "invalid")
      BY <2>1 DEF GatewayInv, FlowInv, AskInv
    <3>2. Len(log') \in Nat
      BY <1>2, <1>3, AppendAt
    <3>3. PICK x \in DownMessage : x = Event(Len(log'), e) /\ x.op = "dispatch"
      BY <3>2, EventType
    <3>4. down' = Append(down, x)
      BY <1>2, <2>1, <3>3
    <3>5. /\ \A o : Has(down', o) <=> Has(down, o) \/ o = "dispatch"
          /\ ResumedIn(down) => ResumedIn(down')
      BY <1>3, <3>3, <3>4, HasAppend, ResumedAt
    <3>6. QED
      BY <2>1, <3>1, <3>5
  <2>2. CASE ~(attached /\ m_ws = "open")
    BY <1>2, <2>2
  <2>3. QED
    BY <2>1, <2>2
<1>5. Unserved' => Unserved
  BY <1>1, <1>4 DEF Unserved
<1>6. Following' => Following
  BY <1>1, <1>4 DEF Following
<1>7. Following => \A g : /\ UpAt(log', m_sequence, g) => UpAt(log, m_sequence, g)
                          /\ NeverUp(log', m_sequence, g) => NeverUp(log, m_sequence, g)
  <2>1. CASE ~alive
    BY <1>2, <2>1
  <2>2. CASE alive
    <3>1. log' = Append(log, e)
      BY <1>2, <2>2
    <3>2. Following => m_sequence <= Len(log)
      BY DEF GatewayInv, FlowInv, StreamInv
    <3>3. QED
      BY <1>3, <3>1, <3>2, GrownLog
  <2>3. QED
    BY <2>1, <2>2
<1>8. attached \/ Has(down, "dispatch") => Following
  BY DEF Following
<1>9. Has(down', "invalid") => ~Has(down', "dispatch")
  BY <1>4 DEF GatewayInv, GuildInv
<1>10. /\ Unserved' => online = None /\ shown = None
       /\ Following' => \A g \in Guilds :
            UpAt(log', m_sequence, g) => online[g] \/ online_resume[g]
       /\ m_ws = "open" /\ (attached \/ Has(down', "dispatch")) /\ ~ResumedIn(down') =>
            \A g \in Guilds : UpAt(log', m_sequence, g) => online[g] /\ shown[g]
       /\ Following' /\ m_sequence > 0 => \A g \in Guilds :
            NeverUp(log', m_sequence, g) => ~online[g] /\ ~shown[g] /\ ~online_resume[g]
  BY <1>4, <1>5, <1>6, <1>7, <1>8 DEF GatewayInv, GuildInv
<1>11. QED
  BY <1>1, <1>9, <1>10 DEF GuildInv

\* Steps on the client's side that are no answer to a message.
LEMMA CallGuilds ==
    ASSUME GatewayInv, Quiet \/ Beats \/ NewToken \/ Upgrade PROVE GuildInv'
<1>1. CASE Quiet
  <2>1. /\ UNCHANGED <<up, down, attached, m_sequence, session, log, guilds, m_resume_token>>
        /\ \/ m_ws = "none"
           \/ m_ws' = m_ws /\ (m_ws_coro' = "upgrade" => m_ws_coro = "upgrade")
    BY <1>1 DEF Quiet, tokens, server
  <2>2. m_ws = "none" => ~attached /\ down = <<>>
    BY DEF GatewayInv, FlowInv, ConnInv, LinkInv
  <2>3. Unserved' => Unserved
    BY <2>1 DEF Unserved
  <2>4. Following' => Following
    BY <2>1 DEF Following
  <2>5. m_ws' = "open" /\ (attached \/ Has(down, "dispatch")) => m_ws = "open"
    BY <2>1, <2>2, Nothing
  <2>6. Has(down, "invalid") => ~Has(down, "dispatch")
    BY DEF GatewayInv, GuildInv
  <2>7. QED
    BY <2>1, <2>3, <2>4, <2>5, <2>6, GuildSame
<1>2. CASE Beats
  <2>1. PICK x \in UpMessage : x = [op |-> "beat"]
    BY MessageTypes
  <2>2. /\ UNCHANGED <<down, attached, m_sequence, session, log, guilds, m_resume_token,
                       m_ws, m_ws_coro>>
        /\ up \in Seq(UpMessage) /\ x.op = "beat"
        /\ up' = up \/ up' = Append(up, x)
    BY <1>2, <2>1
    DEF Beats, tokens, server, coro, GatewayInv, FlowInv, ConnInv, TypeOK, DataOK
  <2>3. Asked(up') => Asked(up)
    BY <2>2, HasAppend DEF Asked
  <2>4. Resuming(up', session) => Resuming(up, session)
    <3>1. Resuming(Append(up, x), session) => Resuming(up, session)
      BY <2>2, ResumingIs
    <3>2. QED
      BY <2>2, <3>1
  <2>5. Unserved' => Unserved
    BY <2>2, <2>3 DEF Unserved
  <2>6. Following' => Following
    BY <2>2, <2>4 DEF Following
  <2>7. Has(down, "invalid") => ~Has(down, "dispatch")
    BY DEF GatewayInv, GuildInv
  <2>8. QED
    BY <2>2, <2>5, <2>6, <2>7, GuildSame
<1>3. CASE NewToken
  <2>1. /\ UNCHANGED <<up, down, attached, m_sequence, session, log, guilds, m_ws, m_ws_coro>>
        /\ m_resume_token' = 0
    BY <1>3 DEF NewToken, server, link, coro
  <2>2. Unserved' => Unserved
    BY <2>1 DEF Unserved
  <2>3. Following' => Following \/ session = 0
    BY <2>1 DEF Following
  <2>4. Has(down, "invalid") => ~Has(down, "dispatch")
    BY DEF GatewayInv, GuildInv
  <2>5. QED
    BY <2>1, <2>2, <2>3, <2>4, GuildSame
<1>4. CASE Upgrade
  <2>1. /\ UNCHANGED <<up, attached, m_sequence, session, log, guilds, m_resume_token>>
        /\ down' = <<>> \/ down' = <<[op |-> "hello"]>>
        /\ m_ws_coro = "upgrade" /\ ~attached
    BY <1>4, UpgradeStep
    DEF GatewayInv, FlowInv, ConnInv, LinkInv, Upgrade, tokens, server
  <2>2. ~Has(down', "dispatch")
    BY <2>1, Nothing DEF Has
  <2>3. Unserved
    BY <2>1 DEF Unserved
  <2>4. Following' => Following
    BY <2>1, <2>2 DEF Following
  <2>5. QED
    BY <2>1, <2>2, <2>3, <2>4, GuildSame
<1>5. QED
  BY <1>1, <1>2, <1>3, <1>4

\* Steps of the network, and what the server says of itself without dropping the session.
LEMMA NetGuilds ==
    ASSUME GatewayInv, GuildRules, Expire \/ GoSilent \/ ServerSays PROVE GuildInv'
<1>1. Has(down, "invalid") => ~Has(down, "dispatch")
  BY DEF GatewayInv, GuildInv
<1>2. CASE Expire
  <2>1. UNCHANGED <<up, down, attached, m_sequence, session, log, guilds, m_resume_token, m_ws,
                    m_ws_coro>>
    BY <1>2, ExpireIs DEF GatewayInv, FlowInv, client, link, tokens, coro
  <2>2. (Unserved' => Unserved) /\ (Following' => Following)
    BY <2>1 DEF Unserved, Following
  <2>3. QED
    BY <1>1, <2>1, <2>2, GuildSame
<1>3. CASE GoSilent
  <2>1. /\ UNCHANGED <<attached, m_sequence, session, log, guilds, m_resume_token, m_ws_coro>>
        /\ m_ws' = "silent" /\ up' = <<>> /\ down' = <<>>
    BY <1>3, SilentIs DEF GatewayInv, FlowInv, client, server, tokens, coro
  <2>2. (Unserved' => Unserved) /\ (Following' => Following)
    BY <2>1, Nothing DEF Unserved, Following
  <2>3. QED
    BY <2>1, <2>2, Nothing, GuildSame
<1>4. CASE ServerSays
  <2>1. /\ UNCHANGED <<up, m_sequence, session, log, guilds, m_resume_token, m_ws, m_ws_coro>>
        /\ m_ws = "open" /\ attached
    BY <1>4, SaysIs DEF GatewayInv, FlowInv, client, tokens, coro
  <2>2. PICK x \in DownMessage : x.op \in Words /\ down' = Append(down, x)
    BY <1>4, SaysIs DEF GatewayInv, FlowInv
  <2>3. x.op \in {"heartbeat", "reconnect"}
    BY <2>2, GatewayAssumption DEF GuildRules
  <2>4. down \in Seq(DownMessage)
    BY DEF GatewayInv, FlowInv, ConnInv, TypeOK, DataOK
  <2>5. /\ \A o : o \notin {"heartbeat", "reconnect"} => (Has(down', o) <=> Has(down, o))
        /\ ResumedIn(down) => ResumedIn(down')
    BY <2>2, <2>3, <2>4, HasAppend, ResumedAt
  <2>6. Unserved' => Unserved
    BY <2>1, <2>5 DEF Unserved
  <2>7. Following' => Following
    BY <2>1 DEF Following
  <2>8. QED
    BY <1>1, <2>1, <2>5, <2>6, <2>7, GuildSame
<1>5. QED
  BY <1>2, <1>3, <1>4

\* The server takes a request: a new session begins with no guild shown, a resumed one has
\* its RESUMED on the way.
LEMMA TakesGuilds == ASSUME GatewayInv, ServerTakes PROVE GuildInv'
<1>1. /\ UNCHANGED <<guilds, online, online_resume, shown, m_sequence, m_resume_token, m_ws,
                     m_ws_coro>>
      /\ m_ws = "open" /\ m_ws_coro # "upgrade" /\ up # <<>> /\ up' = Tail(up)
  BY TakesIs DEF GatewayInv, FlowInv, client, guilds, tokens, coro
<1>2. /\ \/ /\ Head(up).op = "identify"
            /\ session' = session + 1 /\ alive' = TRUE /\ attached' = TRUE
            /\ log' = <<<<"READY", avail>>>>
            /\ down' = Append(down, Event(1, <<"READY", avail>>))
         \/ /\ Head(up).op \in {"identify", "resume"}
            /\ UNCHANGED <<session, alive, attached, log>>
            /\ \E d \in BOOLEAN : down' = Append(down, [op |-> "invalid", d |-> d])
         \/ /\ Head(up).op = "resume"
            /\ UNCHANGED <<session, alive>>
            /\ alive /\ Head(up).session = session
            /\ log' = Append(log, <<"RESUMED", {}>>) /\ attached' = TRUE
            /\ down' = down \o Numbered(Head(up).s)
                         \o <<Event(Len(log'), <<"RESUMED", {}>>)>>
         \/ /\ Head(up).op = "beat"
            /\ UNCHANGED <<session, alive, attached, log>>
            /\ down' = Append(down, [op |-> "ack"])
  BY TakesIs DEF GatewayInv, FlowInv
<1>3. /\ down \in Seq(DownMessage) /\ log \in Seq(Events) /\ avail \in SUBSET Guilds
      /\ m_sequence \in Nat /\ Len(log) \in Nat /\ Len(down) \in Nat
  BY DEF GatewayInv, FlowInv, ConnInv, TypeOK, DataOK
<1>4. /\ Asked(Tail(up)) => Asked(up)
      /\ \A r : Resuming(Tail(up), r) => Resuming(up, r)
      /\ Head(up).op # "beat" => Asked(up) /\ ~Asked(Tail(up))
      /\ Head(up).op = "identify" => m_sequence = 0
      /\ Head(up).op = "resume" => Head(up).s = m_sequence /\ Resuming(up, Head(up).session)
      /\ ~Has(down, "hello")
  BY <1>1, TakenAsk DEF GatewayInv, FlowInv
<1>5. /\ Asked(up) => ~attached /\ ~Has(down, "dispatch") /\ ~Has(down, "invalid")
      /\ Asked(up) => Unserved
  BY DEF GatewayInv, FlowInv, AskInv, Unserved
<1>6. Asked(up) => online = None /\ shown = None
  BY <1>5 DEF GatewayInv, GuildInv
<1>7. CASE /\ Head(up).op = "identify"
           /\ down' = Append(down, Event(1, <<"READY", avail>>))
  <2>1. PICK x \in DownMessage : x = Event(1, <<"READY", avail>>) /\ x.op = "dispatch"
    BY <1>3, EventsType, EventType
  <2>2. ~Has(down', "invalid")
    BY <1>3, <1>4, <1>5, <1>7, <2>1, HasAppend
  <2>3. QED
    BY <1>1, <1>4, <1>6, <1>7, <2>2, GuildZero
<1>8. CASE /\ Head(up).op \in {"identify", "resume"}
           /\ UNCHANGED <<session, alive, attached, log>>
           /\ \E d \in BOOLEAN : down' = Append(down, [op |-> "invalid", d |-> d])
  <2>1. PICK x \in DownMessage : x.op = "invalid" /\ down' = Append(down, x)
    BY <1>8, MessageTypes
  <2>2. ~Has(down', "dispatch") /\ ~attached'
    BY <1>3, <1>4, <1>5, <1>8, <2>1, HasAppend
  <2>3. Unserved
    BY <1>4, <1>5, <1>8
  <2>4. Following' => Following
    BY <1>1, <1>4, <1>8, <2>2 DEF Following
  <2>5. QED
    BY <1>1, <1>8, <2>2, <2>3, <2>4, GuildSame
<1>9. CASE /\ Head(up).op = "resume"
           /\ UNCHANGED <<session, alive>>
           /\ alive /\ Head(up).session = session
           /\ log' = Append(log, <<"RESUMED", {}>>) /\ attached' = TRUE
           /\ down' = down \o Numbered(Head(up).s)
                        \o <<Event(Len(log'), <<"RESUMED", {}>>)>>
  <2>1. Head(up).s = m_sequence /\ Following
    BY <1>4, <1>9 DEF Following
  <2>2. m_sequence <= Len(log)
    BY <2>1 DEF GatewayInv, FlowInv, StreamInv
  <2>3. PICK e \in Events : e = <<"RESUMED", {}>>
    BY EventsType
  <2>4. PICK n \in Seq(DownMessage), x \in DownMessage :
          n = Numbered(m_sequence) /\ x = Event(Len(log) + 1, e) /\ x.op = "dispatch" /\ x.e = e
    <3>1. Numbered(m_sequence) \in Seq(DownMessage)
      BY <1>3, NumberedIs
    <3>2. /\ Event(Len(log) + 1, e) \in DownMessage
          /\ Event(Len(log) + 1, e).op = "dispatch" /\ Event(Len(log) + 1, e).e = e
      <4>1. Len(log) + 1 \in Nat
        BY <1>3
      <4>2. QED
        BY <4>1, EventType
    <3>3. QED
      BY <3>1, <3>2
  <2>5. Len(log') = Len(log) + 1
    BY <1>3, <1>9, EventsType, AppendAt
  <2>6. down' = down \o n \o <<x>>
    BY <1>9, <2>1, <2>3, <2>4, <2>5
  <2>7. ResumedIn(down')
    <3>1. PICK i \in Nat : i = Len(down) + Len(n) + 1 /\ i > 0
      BY <1>3
    <3>2. down' \in Seq(DownMessage) /\ Len(down') = i /\ down'[i] = x
      BY <1>3, <2>6, <3>1, ConcatLast
    <3>3. i \in DOMAIN down'
      BY <3>1, <3>2
    <3>4. QED
      BY <2>3, <2>4, <3>2, <3>3 DEF ResumedIn
  <2>8. ~Has(down', "invalid")
    <3>1. SUFFICES ASSUME NEW i \in DOMAIN down', down'[i].op = "invalid" PROVE FALSE
      BY DEF Has
    <3>2. PICK c \in Nat, k \in Nat : c = Len(down) /\ k = Len(log) - m_sequence
      <4>1. Len(log) - m_sequence \in Nat
        BY <1>3, <2>2
      <4>2. QED
        BY <1>3, <4>1
    <3>3. /\ down' \in Seq(DownMessage) /\ Len(down') = c + k + 1
          /\ \A j \in 1 .. c : down'[j] = down[j]
          /\ \A j \in 1 .. k + 1 : down'[c + j] = Event(m_sequence + j, log'[m_sequence + j])
      <4>1. down' = down \o Numbered(m_sequence) \o <<Event(Len(log'), <<"RESUMED", {}>>)>>
        BY <1>9, <2>1
      <4>2. Len(log) + 1 - m_sequence = k + 1
        BY <1>3, <3>2
      <4>3. QED
        BY <1>3, <1>9, <2>2, <3>2, <4>1, <4>2, ReplayIs
    <3>4. i \in 1 .. c + k + 1
      BY <3>1, <3>3
    <3>5. CASE i \in 1 .. c
      BY <1>3, <1>4, <1>5, <1>9, <3>1, <3>2, <3>3, <3>5 DEF Has
    <3>6. CASE i \notin 1 .. c
      <4>1. i - c \in 1 .. k + 1 /\ c + (i - c) = i
        BY <3>4, <3>6
      <4>2. down'[i] = Event(m_sequence + (i - c), log'[m_sequence + (i - c)])
        BY <3>3, <4>1
      <4>3. QED
        BY <3>1, <4>2 DEF Event
    <3>7. QED
      BY <3>5, <3>6
  <2>9. \A g : /\ UpAt(log', m_sequence, g) => UpAt(log, m_sequence, g)
               /\ NeverUp(log', m_sequence, g) => NeverUp(log, m_sequence, g)
    BY <1>3, <1>9, <2>2, <2>3, GrownLog
  <2>10. online = None /\ shown = None
    BY <1>4, <1>6, <1>9
  <2>11. \A g \in Guilds : UpAt(log', m_sequence, g) => online[g] \/ online_resume[g]
    BY <2>1, <2>9 DEF GatewayInv, GuildInv
  <2>12. m_sequence > 0 => \A g \in Guilds :
           NeverUp(log', m_sequence, g) => ~online[g] /\ ~shown[g] /\ ~online_resume[g]
    BY <2>1, <2>9 DEF GatewayInv, GuildInv
  <2>13. QED
    BY <1>1, <2>7, <2>8, <2>10, <2>11, <2>12 DEF GuildInv
<1>10. CASE /\ Head(up).op = "beat"
            /\ UNCHANGED <<session, alive, attached, log>>
            /\ down' = Append(down, [op |-> "ack"])
  <2>1. PICK x \in DownMessage : x.op = "ack" /\ down' = Append(down, x)
    BY <1>10, MessageTypes
  <2>2. /\ \A o : o # "ack" => (Has(down', o) <=> Has(down, o))
        /\ ResumedIn(down) => ResumedIn(down')
    BY <1>3, <2>1, HasAppend, ResumedAt
  <2>3. Unserved' => Unserved
    BY <1>1, <1>4, <1>10, <2>2 DEF Unserved
  <2>4. Following' => Following
    BY <1>1, <1>4, <1>10, <2>2 DEF Following
  <2>5. Has(down', "invalid") => ~Has(down', "dispatch")
    BY <2>2 DEF GatewayInv, GuildInv
  <2>6. QED
    BY <1>1, <1>10, <2>2, <2>3, <2>4, <2>5, GuildSame
<1>11. QED
  BY <1>2, <1>7, <1>8, <1>9, <1>10

\* Hello, answered with Resume, and a message that is neither an event nor an end.
LEMMA KeptGuilds ==
    ASSUME GatewayInv, down # <<>>, UNCHANGED <<server, guilds, m_sequence>>,
           \/ /\ Head(down).op = "hello" /\ m_resume_token' = 0
              /\ Sent(TRUE, <<[op |-> "resume", session |-> m_resume_token, s |-> m_sequence]>>)
           \/ /\ Head(down).op \in {"heartbeat", "ack"} /\ UNCHANGED tokens
              /\ Sent(TRUE, <<>>)
    PROVE  GuildInv'
<1>1. /\ up \in Seq(UpMessage) /\ down \in Seq(DownMessage)
      /\ m_resume_token \in Nat /\ m_sequence \in Nat
  BY DEF GatewayInv, FlowInv, ConnInv, TypeOK, DataOK
<1>2. UNCHANGED <<session, log>>
  BY DEF server
<1>3. CASE /\ Head(down).op = "hello" /\ m_resume_token' = 0
           /\ Sent(TRUE, <<[op |-> "resume", session |-> m_resume_token, s |-> m_sequence]>>)
  <2>1. PICK x \in UpMessage :
          x = [op |-> "resume", session |-> m_resume_token, s |-> m_sequence]
    BY <1>1, MessageTypes
  <2>2. up = <<>> /\ Tail(down) = <<>> /\ ~attached
    BY <1>3, HeadHello DEF GatewayInv
  <2>3. up' = <<x>> /\ down' = <<>> /\ ~attached'
    <3>1. <<[op |-> "resume", session |-> m_resume_token, s |-> m_sequence]>> = <<x>>
      BY <2>1
    <3>2. up' = up \o <<x>> /\ down' = Tail(down) /\ attached' = attached
      BY <1>3, <3>1 DEF Sent
    <3>3. <<>> \o <<x>> = <<x>>
      OBVIOUS
    <3>4. QED
      BY <2>2, <3>2, <3>3
  <2>4. Resuming(up', session) => m_resume_token = session
    BY <2>1, <2>3 DEF Resuming
  <2>5. Following' => Following \/ session = 0
    BY <1>2, <1>3, <2>3, <2>4, Nothing DEF Following
  <2>6. Unserved
    BY <1>1, <1>3, HasTail DEF Unserved
  <2>7. QED
    BY <1>2, <2>3, <2>5, <2>6, Nothing, GuildSame
<1>4. CASE /\ Head(down).op \in {"heartbeat", "ack"} /\ UNCHANGED tokens
           /\ Sent(TRUE, <<>>)
  <2>1. /\ up' = up /\ down' = Tail(down)
        /\ UNCHANGED <<m_ws, attached, m_ws_coro, m_resume_token>>
    BY <1>1, <1>4, BehindAt DEF Sent, tokens
  <2>2. \A o : Has(Tail(down), o) => Has(down, o)
    BY <1>1, HasTail
  <2>3. ResumedIn(down) => ResumedIn(Tail(down))
    <3>1. [op |-> "ack"] \in DownMessage
      BY MessageTypes
    <3>2. QED
      BY <1>1, <1>4, <3>1, ResumedAt
  <2>4. Unserved' => Unserved
    BY <2>1, <2>2 DEF Unserved
  <2>5. Following' => Following
    BY <1>2, <2>1, <2>2 DEF Following
  <2>6. Has(down', "invalid") => ~Has(down', "dispatch")
    BY <2>1, <2>2 DEF GatewayInv, GuildInv
  <2>7. QED
    BY <1>2, <2>1, <2>2, <2>3, <2>4, <2>5, <2>6, GuildSame
<1>5. QED
  BY <1>3, <1>4

\* Hello or Invalid Session, answered with Identify.
LEMMA NewGuilds ==
    ASSUME GatewayInv, down # <<>>, UNCHANGED guilds, m_sequence' = 0,
           Head(down).op \in {"hello", "invalid"}, Sent(TRUE, <<[op |-> "identify"]>>)
    PROVE  GuildInv'
<1>1. down \in Seq(DownMessage)
  BY DEF GatewayInv, FlowInv, ConnInv, TypeOK, DataOK
<1>2. Unserved
  BY <1>1, HasTail DEF Unserved
<1>3. online' = None /\ shown' = None
  BY <1>2 DEF GatewayInv, GuildInv, guilds
<1>4. down' = Tail(down) /\ \A o : Has(Tail(down), o) => Has(down, o)
  BY <1>1, HasTail DEF Sent
<1>5. Has(down', "invalid") => ~Has(down', "dispatch")
  BY <1>4 DEF GatewayInv, GuildInv
<1>6. QED
  BY <1>3, <1>5, GuildZero

\* An event is received, the one behind the last.
LEMMA EventGuilds ==
    ASSUME GatewayInv, m_ws_coro = "read", m_ws = "open", down # <<>>, UNCHANGED server,
           NEW m \in DownMessage, m = Head(down), m.op = "dispatch", Dispatch(m, TRUE),
           Sent(TRUE, <<>>)
    PROVE  GuildInv'
<1>1. /\ up \in Seq(UpMessage) /\ down \in Seq(DownMessage)
      /\ online \in [Guilds -> BOOLEAN] /\ online_resume \in [Guilds -> BOOLEAN]
      /\ shown \in [Guilds -> BOOLEAN]
  BY DEF GatewayInv, FlowInv, ConnInv, TypeOK, DataOK
<1>2. PICK k \in Nat, l \in Seq(Events) : k = m_sequence /\ l = log
  BY DEF GatewayInv, FlowInv, ConnInv, TypeOK, DataOK
<1>3. m.s = k + 1 /\ k + 1 \in 1 .. Len(l) /\ m.e = l[k + 1]
  BY <1>1, <1>2, StreamTail DEF GatewayInv, FlowInv, StreamInv
<1>4. m_sequence' = k + 1 /\ log' = l
  BY <1>2, <1>3 DEF Dispatch, server
<1>5. /\ up' = up /\ down' = Tail(down)
      /\ UNCHANGED <<m_ws, attached, m_ws_coro>>
  BY <1>1, BehindAt DEF Sent
<1>6. /\ Has(down, "dispatch") /\ ~Asked(up) /\ ~Has(down, "invalid")
      /\ ~Has(Tail(down), "hello") /\ ~Has(Tail(down), "invalid")
  <2>1. Has(down, "dispatch")
    BY <1>1, HasTail
  <2>2. ~Asked(up) /\ ~Has(down, "invalid")
    BY <2>1 DEF GatewayInv, FlowInv, AskInv, GuildInv
  <2>3. ~Has(Tail(down), "hello")
    BY HelloFirst DEF GatewayInv
  <2>4. QED
    BY <1>1, <2>1, <2>2, <2>3, HasTail
<1>7. ~Unserved'
  BY <1>4, <1>5, <1>6 DEF Unserved
<1>8. /\ \A g \in Guilds : UpAt(l, k, g) => online[g] \/ online_resume[g]
      /\ ~ResumedIn(down) => \A g \in Guilds : UpAt(l, k, g) => online[g] /\ shown[g]
      /\ k > 0 => \A g \in Guilds :
           NeverUp(l, k, g) => ~online[g] /\ ~shown[g] /\ ~online_resume[g]
      /\ k = 0 => online = None /\ shown = None
  <2>1. Following
    BY <1>6 DEF Following
  <2>2. k = 0 => Unserved
    BY <1>2, <1>6 DEF Unserved
  <2>3. QED
    BY <1>2, <1>6, <2>1, <2>2 DEF GatewayInv, GuildInv
<1>9. /\ l[1][1] = "READY"
      /\ l[k + 1][1] = "READY" => k = 0
      /\ l[k + 1][1] # "READY" => k > 0
  BY <1>2, <1>3 DEF GatewayInv, ServerInv
<1>10. ASSUME NEW g
       PROVE  /\ UpAt(l, k + 1, g) => IF About(l, k + 1, g) THEN IsUp(l, k + 1, g)
                                                            ELSE UpAt(l, k, g)
              /\ NeverUp(l, k + 1, g) => NeverUp(l, k, g) /\ ~IsUp(l, k + 1, g)
  BY <1>3, NextEvent
<1>11. m.e[1] # "RESUMED" => (ResumedIn(down) => ResumedIn(Tail(down)))
  BY <1>1, ResumedAt
<1>12. ASSUME \A g \in Guilds :
                /\ UpAt(l, k + 1, g) => online'[g] \/ online_resume'[g]
                /\ ~ResumedIn(Tail(down)) => (UpAt(l, k + 1, g) => online'[g] /\ shown'[g])
                /\ NeverUp(l, k + 1, g) => ~online'[g] /\ ~shown'[g] /\ ~online_resume'[g]
       PROVE  GuildInv'
  BY <1>4, <1>5, <1>6, <1>7, <1>12 DEF GuildInv
<1>13. CASE Ready(m.e, TRUE)
  <2>1. /\ l[k + 1][1] = "READY" /\ k = 0
        /\ \A g \in Guilds : /\ online'[g] = (online[g] \/ g \in l[k + 1][2])
                             /\ shown'[g] = (shown[g] \/ g \in l[k + 1][2])
                             /\ online_resume'[g] = FALSE
    BY <1>3, <1>9, <1>13 DEF Ready, None
  <2>2. \A g \in Guilds : online[g] = FALSE /\ shown[g] = FALSE
    BY <1>8, <2>1 DEF None
  <2>3. \A g : About(l, k + 1, g) /\ (IsUp(l, k + 1, g) <=> g \in l[k + 1][2])
    BY <2>1 DEF About, IsUp
  <2>4. QED
    BY <1>10, <1>12, <2>1, <2>2, <2>3
<1>14. CASE Resumed(m.e, TRUE)
  <2>1. /\ l[k + 1][1] = "RESUMED" /\ k > 0
        /\ \A g \in Guilds : /\ online'[g] = (online[g] \/ online_resume[g])
                             /\ shown'[g] = online'[g]
                             /\ online_resume'[g] = FALSE
    BY <1>3, <1>9, <1>14 DEF Resumed, None
  <2>2. \A g : ~About(l, k + 1, g)
    BY <2>1 DEF About
  <2>3. QED
    BY <1>8, <1>10, <1>12, <2>1, <2>2
<1>15. ASSUME GuildCreate(m.e) \/ GuildDelete(m.e)
       PROVE  /\ m.e[1] # "RESUMED" /\ k > 0
              /\ \E h \in Guilds : /\ \A g : g \in m.e[2] <=> g = h
                                   /\ \A g : About(l, k + 1, g) <=> g = h
  <2>1. m.e[1] \in {"GUILD_CREATE", "GUILD_DELETE"}
    BY <1>15 DEF GuildCreate, GuildDelete
  <2>2. m.e \in Events
    BY DEF DownMessage
  <2>3. PICK h \in Guilds : m.e[2] = {h}
    BY <2>1, <2>2 DEF Events
  <2>4. k > 0 /\ m.e[1] # "RESUMED"
    BY <1>3, <1>9, <2>1
  <2>5. \A g : About(l, k + 1, g) <=> g = h
    BY <1>3, <2>1, <2>3 DEF About
  <2>6. QED
    BY <2>3, <2>4, <2>5
<1>16. CASE GuildCreate(m.e)
  <2>1. PICK h \in Guilds : /\ \A g : g \in m.e[2] <=> g = h
                            /\ \A g : About(l, k + 1, g) <=> g = h
    BY <1>15, <1>16
  <2>2. /\ \A g \in Guilds : /\ online'[g] = (online[g] \/ g = h)
                             /\ shown'[g] = (shown[g] \/ g = h)
                             /\ online_resume'[g] = online_resume[g]
        /\ m.e[1] = "GUILD_CREATE"
    BY <1>16, <2>1 DEF GuildCreate
  <2>3. IsUp(l, k + 1, h)
    BY <1>3, <2>1, <2>2 DEF IsUp
  <2>4. k > 0 /\ (~ResumedIn(Tail(down)) => ~ResumedIn(down))
    BY <1>11, <1>15, <1>16
  <2>5. QED
    BY <1>1, <1>8, <1>10, <1>12, <2>1, <2>2, <2>3, <2>4
<1>17. CASE GuildDelete(m.e)
  <2>1. PICK h \in Guilds : /\ \A g : g \in m.e[2] <=> g = h
                            /\ \A g : About(l, k + 1, g) <=> g = h
    BY <1>15, <1>17
  <2>2. /\ \A g \in Guilds : /\ online'[g] = online[g]
                             /\ shown'[g] = (shown[g] /\ g # h)
                             /\ online_resume'[g] = online_resume[g]
        /\ m.e[1] = "GUILD_DELETE"
    BY <1>17, <2>1 DEF GuildDelete
  <2>3. ~IsUp(l, k + 1, h)
    BY <1>3, <2>2 DEF IsUp
  <2>4. k > 0 /\ (~ResumedIn(Tail(down)) => ~ResumedIn(down))
    BY <1>11, <1>15, <1>17
  <2>5. QED
    BY <1>1, <1>8, <1>10, <1>12, <2>1, <2>2, <2>3, <2>4
<1>18. QED
  BY <1>13, <1>14, <1>16, <1>17 DEF Dispatch

LEMMA ReceiveGuilds == ASSUME GatewayInv, GuildRules, Receive PROVE GuildInv'
<1>1. PICK ok \in Sends, m \in DownMessage :
             /\ m = Head(down) /\ ok \in BOOLEAN
             /\ \/ /\ m.op = "hello" /\ UNCHANGED guilds /\ m_resume_token # 0
                   /\ m_resume_token_prev' = m_resume_token /\ m_resume_token' = 0
                   /\ m_sequence' = m_sequence
                   /\ Answers(ok, <<[op |-> "resume", session |-> m_resume_token,
                                     s |-> m_sequence]>>)
                \/ /\ m.op \in {"hello", "invalid"} /\ UNCHANGED guilds /\ Identify
                   /\ Answers(ok, <<[op |-> "identify"]>>)
                \/ /\ m.op = "dispatch" /\ Dispatch(m, ok) /\ Answers(ok, <<>>)
                \/ /\ m.op \in {"heartbeat", "ack"} /\ Answers(ok, <<>>)
                   /\ UNCHANGED <<tokens, m_sequence, guilds>>
                \/ Lost
  BY ReceiveIs DEF GatewayInv, FlowInv
<1>2. /\ m_ws_coro = "read" /\ m_ws = "open" /\ down # <<>> /\ ConnInv /\ ok = TRUE
  BY <1>1 DEF Receive, GatewayInv, FlowInv, GuildRules
<1>3. CASE /\ m.op = "hello" /\ m_resume_token' = 0 /\ m_sequence' = m_sequence
           /\ UNCHANGED guilds
           /\ Answers(ok, <<[op |-> "resume", session |-> m_resume_token,
                             s |-> m_sequence]>>)
  BY <1>1, <1>2, <1>3, AnswerSent, KeptGuilds
<1>4. CASE /\ m.op \in {"hello", "invalid"} /\ Identify /\ UNCHANGED guilds
           /\ Answers(ok, <<[op |-> "identify"]>>)
  BY <1>1, <1>2, <1>4, AnswerSent, NewGuilds DEF Identify
<1>5. CASE /\ m.op = "dispatch" /\ Dispatch(m, ok) /\ Answers(ok, <<>>)
  <2>1. Sent(ok, <<>>) /\ UNCHANGED server
    BY <1>1, <1>2, <1>5, AnswerSent
  <2>2. QED
    BY <1>1, <1>2, <1>5, <2>1, EventGuilds
<1>6. CASE /\ m.op \in {"heartbeat", "ack"} /\ Answers(ok, <<>>)
           /\ UNCHANGED <<tokens, m_sequence, guilds>>
  <2>1. Sent(ok, <<>>) /\ UNCHANGED server
    BY <1>1, <1>2, <1>6, AnswerSent
  <2>2. QED
    BY <1>1, <1>2, <1>6, <2>1, KeptGuilds
<1>7. CASE Lost
  BY <1>7, LostGuilds
<1>8. QED
  BY <1>1, <1>3, <1>4, <1>5, <1>6, <1>7

LEMMA GatewayInit == Init => GatewayInv
<1> SUFFICES ASSUME Init PROVE GatewayInv
  OBVIOUS
<1>1. /\ down = <<>> /\ m_sequence = 0 /\ log = <<>> /\ Len(log) = 0 /\ ~alive /\ ~attached
      /\ online = None /\ shown = None
  BY DEF Init
<1>2. ServerInv
  BY <1>1 DEF ServerInv
<1>3. GuildInv
  BY <1>1, Nothing, NoEvent DEF GuildInv
<1>4. QED
  BY <1>2, <1>3, FlowInit DEF GatewayInv

LEMMA GatewayNext == ASSUME GatewayInv, GuildRules, [Next]_vars PROVE GatewayInv'
<1>1. FlowInv' /\ ServerInv'
  BY FlowNext, ServerNext DEF GatewayInv
<1>2. GuildInv'
  BY Steps, LostGuilds, CallGuilds, NetGuilds, TakesGuilds, ReceiveGuilds, ChangeGuilds
  DEF GatewayInv, FlowInv
<1>3. QED
  BY <1>1, <1>2 DEF GatewayInv

\* What the invariant says once all events are received.
LEMMA CaughtUpIs ==
    ASSUME GatewayInv, CaughtUp
    PROVE  /\ m_sequence = Len(log) /\ m_sequence > 0 /\ alive /\ Following
           /\ ~ResumedIn(down) /\ m_ws = "open" /\ attached
<1>1. m_ws = "open" /\ attached /\ \A i \in DOMAIN down : down[i].op # "dispatch"
  BY DEF CaughtUp, Pending, Is
<1>2. Following /\ ~ResumedIn(down)
  BY <1>1 DEF Following, ResumedIn
<1>3. alive /\ m_sequence <= Len(log) /\ Full(down, m_sequence, log)
  BY <1>1, <1>2 DEF GatewayInv, FlowInv, StreamInv
<1>4. Len(log) > 0
  BY <1>3 DEF GatewayInv, ServerInv
<1>5. m_sequence \in Nat /\ Len(log) \in Nat
  BY DEF GatewayInv, FlowInv, ConnInv, TypeOK, DataOK
<1>6. ~(m_sequence < Len(log))
  <2>1. SUFFICES ASSUME m_sequence < Len(log) PROVE FALSE
    OBVIOUS
  <2>2. Len(log) \in m_sequence + 1 .. Len(log)
    BY <1>5, <2>1
  <2>3. QED
    BY <1>1, <1>3, <2>2 DEF Full
<1>7. QED
  BY <1>1, <1>2, <1>3, <1>4, <1>5, <1>6

LEMMA TrueList == ASSUME GatewayInv PROVE GuildsAreTrue
<1>1. LostIsShown
  BY DEF LostIsShown, GatewayInv, GuildInv, Unserved
<1>2. ASSUME CaughtUp, NEW g \in avail PROVE online[g] /\ shown[g]
  <2>1. g \in Guilds
    BY DEF GatewayInv, FlowInv, ConnInv, TypeOK, DataOK
  <2>2. PICK n \in 1 .. Len(log) : LastAbout(log, n, g, Len(log)) /\ IsUp(log, n, g)
    BY <1>2, <2>1, CaughtUpIs DEF GatewayInv, ServerInv
  <2>3. UpAt(log, m_sequence, g)
    BY <1>2, <2>2, CaughtUpIs DEF UpAt
  <2>4. QED
    BY <1>2, <2>1, <2>3, CaughtUpIs DEF GatewayInv, GuildInv
<1>3. ASSUME CaughtUp, NEW g \in Guilds \ avail, ~DeletedHere(g) PROVE ~(online[g] \/ shown[g])
  <2>1. PICK n \in 1 .. Len(log) : LastAbout(log, n, g, Len(log)) /\ ~IsUp(log, n, g)
    BY <1>3, CaughtUpIs DEF GatewayInv, ServerInv
  <2>2. log \in Seq(Events)
    BY DEF GatewayInv, FlowInv, ConnInv, TypeOK, DataOK
  <2>3. ASSUME NEW i \in 1 .. Len(log), log[i][1] \in {"GUILD_CREATE", "GUILD_DELETE"}
        PROVE  \E h \in Guilds : log[i][2] = {h} /\ log[i] = <<log[i][1], {h}>>
    <3>1. log[i] \in Events
      BY <2>2
    <3>2. QED
      BY <2>3, <3>1 DEF Events
  <2>4. n = 1
    <3>1. log[n][1] # "GUILD_DELETE" \/ log[n][2] # {g}
      BY <1>3, <2>2, <2>3 DEF DeletedHere
    <3>2. log[n][1] = "READY"
      BY <2>1, <3>1 DEF LastAbout, About, IsUp
    <3>3. QED
      BY <3>2 DEF GatewayInv, ServerInv
  <2>5. ASSUME NEW i \in 1 .. Len(log) PROVE ~IsUp(log, i, g)
    <3>1. CASE i = 1
      BY <2>1, <2>4, <3>1
    <3>2. CASE i # 1
      <4>1. i \in n + 1 .. Len(log)
        BY <2>2, <2>4, <3>2
      <4>2. ~About(log, i, g)
        BY <2>1, <4>1 DEF LastAbout
      <4>3. QED
        BY <2>3, <4>2 DEF About, IsUp
    <3>3. QED
      BY <3>1, <3>2
  <2>6. NeverUp(log, m_sequence, g)
    BY <1>3, <2>5, CaughtUpIs DEF NeverUp
  <2>7. QED
    BY <1>3, <2>6, CaughtUpIs DEF GatewayInv, GuildInv
<1>4. AvailableIsShown /\ GoneIsHidden
  BY <1>2, <1>3 DEF AvailableIsShown, GoneIsHidden
<1>5. QED
  BY <1>1, <1>4 DEF GuildsAreTrue, GatewayInv, FlowInv, ConnInv

\* The guild list tells the truth, over any ways to lose and resume a session, if the handlers'
\* sends do not fail and the server does not drop the session of a connection it still serves
\* (it may refuse to resume one): a guild that is there is shown as there once the client has
\* caught up, one that went away unseen is struck out, and none is shown without a connection.
THEOREM TheListIsTrue == GuildRules /\ Spec => []GuildsAreTrue
<1>1. GuildRules /\ GatewayInv /\ [Next]_vars => GatewayInv'
  BY GatewayNext
<1>2. GatewayInv => GuildsAreTrue
  BY TrueList
<1>3. CASE GuildRules
  <2>1. GatewayInv /\ [Next]_vars => GatewayInv'
    BY <1>1, <1>3
  <2>2. Spec => []GuildsAreTrue
    BY GatewayInit, <2>1, <1>2, PTL DEF Spec
  <2>3. QED
    BY <2>2
<1>4. QED
  BY <1>3

=============================================================================
