--------------------------- MODULE DiscordGateway ---------------------------
(***************************************************************************)
(* The gateway connection of discord.cpp: connect(), disconnect(), the     *)
(* heartbeat, the Hello / Identify / Resume handshake and the guild flags   *)
(* that follow from it, against a server that keeps a numbered event log    *)
(* per session and replays its tail to a client that resumes.              *)
(*                                                                         *)
(* connect() is one coroutine; m_ws_coro names where it waits.  Everything  *)
(* it does between two waits is one step, and so is every call that comes   *)
(* from outside it (heartbeat_cb, the user's commands), including the part  *)
(* of connect() such a call runs by closing the socket it reads from.      *)
(***************************************************************************)
EXTENDS Naturals, Sequences, SequencesExt

CONSTANTS
    Guilds,         \* the user's guilds, the one of direct messages included
    Sends,          \* outcomes of a send from a message handler, TRUE among them
    Handshakes,     \* how a new connection may start: "open", "silent"
    Words,          \* what the server may say of itself on a served connection
    MaxFaults,      \* bound: faults and user commands together
    MaxEvents       \* bound: guild changes

ASSUME GatewayAssumption ==
    /\ Sends \subseteq BOOLEAN
    /\ Handshakes \subseteq {"open", "silent"}
    /\ Words \subseteq {"heartbeat", "reconnect", "invalid"}
    /\ MaxFaults \in Nat /\ MaxEvents \in Nat

VARIABLES
    m_ws_coro,      \* where connect() waits, "none" when it does not run
    m_ws,           \* the socket: "none", "open", or "silent" (nothing arrives)
    m_ws_coro_running, m_gateway_good, m_should_heartbeat, m_heartbeat_sent,
    m_resume_token, m_resume_token_prev,    \* a session, 0 for the empty string
    m_sequence,
    online, online_resume,                  \* guild::online, ::online_resume
    shown,          \* the guild's channels are not struck out in the list
    up, down,       \* what is on its way to the server and to the client
    session,        \* the last session the server opened, 0 before the first
    log,            \* its events; the n-th has sequence number n
    alive,          \* it can still be resumed
    attached,       \* the server sends its events to the current connection
    avail,          \* the guilds that are there, as the server knows
    faults, events

flags == <<m_gateway_good, m_should_heartbeat, m_heartbeat_sent>>
tokens == <<m_resume_token, m_resume_token_prev>>
guilds == <<online, online_resume, shown>>
server == <<session, log, alive, avail, events>>
link == <<m_ws, up, down, attached>>
coro == <<m_ws_coro, m_ws_coro_running>>
vars == <<flags, tokens, m_sequence, guilds, server, link, coro, faults>>

Waits == {"lookup_wait", "dial_wait", "closed_wait"}     \* the 30 second pauses
Stages == Waits \union {"none", "lookup", "dial", "upgrade", "read"}
Is(m, op) == m.op = op
Event(s, e) == [op |-> "dispatch", s |-> s, e |-> e]
Events == {<<"READY", S>> : S \in SUBSET Guilds} \union {<<"RESUMED", {}>>}
          \union {<<t, {g}>> : t \in {"GUILD_CREATE", "GUILD_DELETE"}, g \in Guilds}
None == [g \in Guilds |-> FALSE]

Init ==
    /\ m_ws_coro = "lookup" /\ m_ws_coro_running = FALSE
    /\ m_gateway_good = FALSE /\ m_should_heartbeat = FALSE /\ m_heartbeat_sent = FALSE
    /\ m_resume_token = 0 /\ m_resume_token_prev = 0 /\ m_sequence = 0
    /\ online = None /\ online_resume = None /\ shown = None
    /\ m_ws = "none" /\ up = <<>> /\ down = <<>> /\ attached = FALSE
    /\ session = 0 /\ log = <<>> /\ alive = FALSE /\ avail \in SUBSET Guilds
    /\ faults = 0 /\ events = 0

(***************************************************************************)
(* Parts of the client.                                                    *)
(***************************************************************************)
\* Mutant of Top: the heartbeat of the old connection stays unanswered.
TopKeepsBeat ==
    /\ m_should_heartbeat' = FALSE
    /\ m_ws_coro' = IF m_gateway_good THEN "dial" ELSE "lookup"
    /\ UNCHANGED <<m_gateway_good, m_heartbeat_sent>>

\* connect() from its label top on.
Top ==
    /\ m_heartbeat_sent' = FALSE
    /\ m_should_heartbeat' = FALSE
    /\ m_ws_coro' = IF m_gateway_good THEN "dial" ELSE "lookup"
    /\ UNCHANGED m_gateway_good

\* The socket is gone, and with it what was on its way.
NoSocket == m_ws' = "none" /\ up' = <<>> /\ down' = <<>> /\ attached' = FALSE

\* Mutant of Forget: a second outage forgets what the first one kept.
ForgetEarlier(resumable) ==
    /\ online_resume' = [g \in Guilds |-> resumable /\ online[g]]
    /\ online' = None
    /\ shown' = None
    /\ IF resumable THEN UNCHANGED tokens
       ELSE m_resume_token' = 0 /\ m_resume_token_prev' = 0
    /\ NoSocket

\* disconnect() but for the coroutine: the guilds and the session to resume.
Forget(resumable) ==
    /\ online_resume' = [g \in Guilds |-> resumable /\ (online_resume[g] \/ online[g])]
    /\ online' = None
    /\ shown' = None
    /\ IF resumable THEN UNCHANGED tokens
       ELSE m_resume_token' = 0 /\ m_resume_token_prev' = 0
    /\ NoSocket

\* connect() finds the socket closed when it waits for a message: disconnect(), which
\* by the flag knows not to cancel m_ws_coro.
SeenClosed ==
    /\ m_ws_coro_running' = TRUE
    /\ Forget(TRUE)
    /\ IF m_resume_token = 0 THEN m_ws_coro' = "closed_wait" /\ UNCHANGED flags ELSE Top

\* disconnect() called from elsewhere.  Without the flag connect() is cancelled
\* and the heartbeat starts another; with it, m_ws.reset() wakes connect() if it
\* waits for the socket.
DisconnectOutside(resumable) ==
    /\ Forget(resumable)
    /\ UNCHANGED m_ws_coro_running
    /\ \/ ~m_ws_coro_running /\ m_ws_coro' = "none" /\ UNCHANGED flags
       \/ /\ m_ws_coro_running /\ m_ws_coro = "read"
          /\ IF m_resume_token = 0 THEN m_ws_coro' = "closed_wait" /\ UNCHANGED flags ELSE Top
       \/ /\ m_ws_coro_running /\ m_ws_coro = "upgrade"
          /\ m_ws_coro' = "dial_wait" /\ UNCHANGED flags
       \/ /\ m_ws_coro_running /\ m_ws_coro \notin {"read", "upgrade"}
          /\ UNCHANGED <<m_ws_coro, flags>>

(***************************************************************************)
(* connect().                                                              *)
(***************************************************************************)
Fault == faults < MaxFaults /\ faults' = faults + 1

Lookup ==
    /\ m_ws_coro = "lookup"
    /\ \/ m_ws_coro' = "dial" /\ m_gateway_good' = TRUE /\ UNCHANGED faults
       \/ m_ws_coro' = "lookup_wait" /\ Fault /\ UNCHANGED m_gateway_good
    /\ UNCHANGED <<m_should_heartbeat, m_heartbeat_sent, tokens, m_sequence, guilds, server,
                   link, m_ws_coro_running>>

\* websocket::connect up to the point where it has a socket.
Dial ==
    /\ m_ws_coro = "dial"
    /\ \/ m_ws_coro' = "upgrade" /\ m_ws' = "open" /\ UNCHANGED faults
       \/ m_ws_coro' = "dial_wait" /\ m_ws' = "none" /\ Fault
    /\ UNCHANGED <<flags, tokens, m_sequence, guilds, server, up, down, attached,
                   m_ws_coro_running>>

\* The answer to the upgrade request; the server's first message is Hello.
Upgrade ==
    /\ m_ws_coro = "upgrade"
    /\ \/ /\ m_ws_coro' = "read" /\ m_ws' \in Handshakes
          /\ down' = IF m_ws' = "open" THEN <<[op |-> "hello"]>> ELSE <<>>
          /\ IF m_ws' = "open" THEN UNCHANGED faults ELSE Fault
       \/ m_ws_coro' = "dial_wait" /\ m_ws' = "none" /\ down' = <<>> /\ Fault
    /\ UNCHANGED <<flags, tokens, m_sequence, guilds, server, up, attached,
                   m_ws_coro_running>>

\* The end of a 30 second pause.
PauseEnds ==
    /\ m_ws_coro \in Waits
    /\ m_heartbeat_sent' = FALSE /\ m_should_heartbeat' = FALSE
    /\ m_gateway_good' = (m_gateway_good /\ m_ws_coro # "dial_wait")
    /\ m_ws_coro' = IF m_gateway_good' THEN "dial" ELSE "lookup"
    /\ UNCHANGED <<tokens, m_sequence, guilds, server, link, m_ws_coro_running,
                   faults>>

ReadFails ==
    /\ m_ws_coro = "read" /\ m_ws # "none"
    /\ Fault
    /\ SeenClosed
    /\ UNCHANGED <<m_sequence, server>>

(***************************************************************************)
(* ws_str(), one disjunct per message, and the code around its call.       *)
(***************************************************************************)
\* A send from a handler.  If it fails the socket is closed under connect(),
\* which starts over without disconnect().
Send(ms, ok) ==
    /\ UNCHANGED server
    /\ IF ok
       THEN /\ up' = up \o ms /\ down' = Tail(down)
            /\ UNCHANGED <<m_ws, attached, m_ws_coro, m_gateway_good, faults>>
       ELSE /\ NoSocket /\ Fault
            /\ m_ws_coro' = IF m_gateway_good THEN "dial" ELSE "lookup"
            /\ UNCHANGED m_gateway_good

Identify ==
    /\ m_resume_token' = 0 /\ m_resume_token_prev' = 0
    /\ m_sequence' = 0

Hello(ok) ==
    /\ m_should_heartbeat' = ok
    /\ m_heartbeat_sent' = (m_heartbeat_sent /\ ok)
    /\ UNCHANGED guilds
    /\ \/ /\ m_resume_token # 0
          /\ m_resume_token_prev' = m_resume_token
          /\ m_resume_token' = 0
          /\ UNCHANGED m_sequence
          /\ Send(<<[op |-> "resume", session |-> m_resume_token, s |-> m_sequence]>>, ok)
       \/ /\ m_resume_token = 0
          /\ Identify
          /\ Send(<<[op |-> "identify"]>>, ok)

\* What a handler leaves of the two heartbeat flags: connect() clears them if the
\* send failed.
Beat(ok) ==
    /\ m_should_heartbeat' = (m_should_heartbeat /\ ok)
    /\ m_heartbeat_sent' = (m_heartbeat_sent /\ ok)

Ready(e, ok) ==
    /\ e[1] = "READY"
    /\ m_resume_token' = session /\ UNCHANGED m_resume_token_prev
    /\ online' = [g \in Guilds |-> online[g] \/ g \in e[2]]
    /\ online_resume' = None
    /\ shown' = [g \in Guilds |-> shown[g] \/ g \in e[2]]
    /\ Beat(ok) /\ Send(<<>>, ok)

Resumed(e, ok) ==
    /\ e[1] = "RESUMED"
    /\ m_resume_token' = m_resume_token_prev /\ UNCHANGED m_resume_token_prev
    /\ online' = [g \in Guilds |-> online[g] \/ online_resume[g]]
    /\ online_resume' = None
    /\ shown' = online'
    /\ Beat(ok) /\ Send(<<>>, ok)

GuildCreate(e) ==
    /\ e[1] = "GUILD_CREATE"
    /\ online' = [g \in Guilds |-> online[g] \/ g \in e[2]]
    /\ shown' = [g \in Guilds |-> shown[g] \/ g \in e[2]]
    /\ UNCHANGED <<online_resume, tokens>>
    /\ Beat(TRUE) /\ Send(<<>>, TRUE)

\* GUILD_DELETE strikes the channels out and leaves guild::online as it is.
GuildDelete(e) ==
    /\ e[1] = "GUILD_DELETE"
    /\ shown' = [g \in Guilds |-> shown[g] /\ g \notin e[2]]
    /\ UNCHANGED <<online, online_resume, tokens>>
    /\ Beat(TRUE) /\ Send(<<>>, TRUE)

\* Mutant of Dispatch: only READY and RESUMED number themselves.
DispatchUncounted(m, ok) ==
    \/ m_sequence' = m.s /\ (Ready(m.e, ok) \/ Resumed(m.e, ok))
    \/ UNCHANGED m_sequence /\ ok /\ (GuildCreate(m.e) \/ GuildDelete(m.e))

Dispatch(m, ok) ==
    /\ m_sequence' = m.s
    /\ \/ Ready(m.e, ok) \/ Resumed(m.e, ok)
       \/ ok /\ (GuildCreate(m.e) \/ GuildDelete(m.e))

HeartbeatAsked(ok) ==
    /\ UNCHANGED <<tokens, m_sequence, guilds>>
    /\ Beat(ok) /\ Send(<<>>, ok)

HeartbeatAck ==
    /\ m_heartbeat_sent' = FALSE
    /\ UNCHANGED <<tokens, m_sequence, guilds, m_should_heartbeat>>
    /\ Send(<<>>, TRUE)

\* A handler that calls disconnect(); connect() then finds no socket.
Leave(resumable) ==
    /\ Forget(resumable)
    /\ Top
    /\ UNCHANGED <<m_sequence, server, faults>>

InvalidSession(d, ok) ==
    \/ /\ m_resume_token_prev # 0
       /\ Identify /\ Beat(ok) /\ UNCHANGED guilds
       /\ Send(<<[op |-> "identify"]>>, ok)
    \/ m_resume_token_prev = 0 /\ ok /\ Leave(d)

Receive ==
    /\ m_ws_coro = "read" /\ m_ws = "open" /\ down # <<>>
    /\ m_ws_coro_running' = FALSE
    /\ \E ok \in Sends, m \in {Head(down)}:
        \/ Is(m, "hello") /\ Hello(ok)
        \/ Is(m, "dispatch") /\ Dispatch(m, ok)
        \/ Is(m, "heartbeat") /\ HeartbeatAsked(ok)
        \/ Is(m, "ack") /\ ok /\ HeartbeatAck
        \/ Is(m, "reconnect") /\ ok /\ Leave(TRUE)
        \/ Is(m, "invalid") /\ InvalidSession(m.d, ok)

(***************************************************************************)
(* Calls from outside connect().                                           *)
(***************************************************************************)
\* heartbeat_cb().  The interval is longer than a round trip: on a connection
\* that works the previous heartbeat has been answered.
InFlight(op) == \E i \in DOMAIN up : Is(up[i], op)
Coming(op) == \E i \in DOMAIN down : Is(down[i], op)
Answered == ~InFlight("beat") /\ ~Coming("ack")

Restart ==
    /\ m_ws_coro = "none"
    /\ Top
    /\ UNCHANGED <<tokens, m_sequence, guilds, server, link, m_ws_coro_running, faults>>

\* Mutant of SendBeat: nothing notes that an answer is due.
SendBeatUncounted ==
    /\ m_ws_coro # "none" /\ m_should_heartbeat /\ ~m_heartbeat_sent /\ Answered
    /\ up' = IF m_ws = "open" THEN Append(up, [op |-> "beat"]) ELSE up
    /\ UNCHANGED <<m_sequence, server, flags, tokens, guilds, m_ws, down, attached, coro, faults>>

SendBeat ==
    /\ m_ws_coro # "none" /\ m_should_heartbeat /\ ~m_heartbeat_sent /\ Answered
    /\ UNCHANGED <<m_sequence, server>>
    /\ \/ /\ m_heartbeat_sent' = TRUE
          /\ up' = IF m_ws = "open" THEN Append(up, [op |-> "beat"]) ELSE up
          /\ UNCHANGED <<m_should_heartbeat, m_gateway_good, tokens, guilds, m_ws, down,
                         attached, coro, faults>>
       \/ /\ m_ws_coro = "read" /\ m_ws # "none"      \* the send finds the socket closed
          /\ Fault
          /\ m_ws_coro_running' = TRUE
          /\ Forget(TRUE)
          /\ IF m_resume_token = 0
             THEN /\ m_ws_coro' = "closed_wait" /\ m_heartbeat_sent' = TRUE
                  /\ UNCHANGED <<m_should_heartbeat, m_gateway_good>>
             ELSE Top

PingTimeout ==
    /\ m_ws_coro # "none" /\ m_should_heartbeat /\ m_heartbeat_sent /\ Answered
    /\ DisconnectOutside(TRUE)
    /\ UNCHANGED <<m_sequence, server, faults>>

\* /resume and /disconnect.
Command ==
    /\ Fault
    /\ \E resumable \in BOOLEAN : DisconnectOutside(resumable)
    /\ UNCHANGED <<m_sequence, server>>

NewToken ==
    /\ Fault
    /\ m_resume_token' = 0 /\ m_resume_token_prev' = 0
    /\ UNCHANGED <<flags, m_sequence, guilds, server, link, coro>>

(***************************************************************************)
(* The server and the network (external).                                  *)
(***************************************************************************)
client == <<flags, tokens, m_sequence, guilds, coro>>
Numbered(from) == [i \in 1..(Len(log) - from) |-> Event(from + i, log[from + i])]

TakeIdentify ==
    /\ Is(Head(up), "identify")
    /\ \/ /\ session' = session + 1 /\ alive' = TRUE /\ attached' = TRUE
          /\ log' = <<<<"READY", avail>>>>
          /\ down' = Append(down, Event(1, log'[1]))
          /\ UNCHANGED faults
       \/ /\ Fault
          /\ \E d \in BOOLEAN : down' = Append(down, [op |-> "invalid", d |-> d])
          /\ UNCHANGED <<session, alive, attached, log>>

TakeResume ==
    /\ Is(Head(up), "resume")
    /\ UNCHANGED <<session, alive, faults>>
    /\ IF alive /\ Head(up).session = session
       THEN /\ log' = Append(log, <<"RESUMED", {}>>) /\ attached' = TRUE
            /\ down' = down \o Numbered(Head(up).s)
                        \o <<Event(Len(log'), <<"RESUMED", {}>>)>>
       ELSE /\ down' = Append(down, [op |-> "invalid", d |-> FALSE])
            /\ UNCHANGED <<log, attached>>

TakeBeat ==
    /\ Is(Head(up), "beat")
    /\ down' = Append(down, [op |-> "ack"])
    /\ UNCHANGED <<session, alive, attached, log, faults>>

ServerTakes ==
    /\ m_ws = "open" /\ up # <<>>
    /\ up' = Tail(up)
    /\ TakeIdentify \/ TakeResume \/ TakeBeat
    /\ UNCHANGED <<client, m_ws, avail, events>>

\* A guild comes or goes.
GuildChange(g) ==
    /\ events < MaxEvents /\ events' = events + 1
    /\ avail' = IF g \in avail THEN avail \ {g} ELSE avail \union {g}
    /\ LET e == <<IF g \in avail THEN "GUILD_DELETE" ELSE "GUILD_CREATE", {g}>>
       IN  /\ log' = IF alive THEN Append(log, e) ELSE log
           /\ down' = IF attached /\ m_ws = "open" THEN Append(down, Event(Len(log'), e)) ELSE down
    /\ UNCHANGED <<client, session, alive, m_ws, up, attached, faults>>

\* The server asks for a heartbeat or a reconnect, or drops the session.
Word(op, d) == IF op = "invalid" THEN [op |-> op, d |-> d] ELSE [op |-> op]
ServerSays ==
    /\ m_ws = "open" /\ attached
    /\ Fault
    /\ \E op \in Words, d \in BOOLEAN :
        /\ down' = Append(down, Word(op, d))
        /\ attached' = (op = "heartbeat")
        /\ alive' = (alive /\ (op = "invalid" => d))
    /\ UNCHANGED <<client, session, log, avail, events, m_ws, up>>

Expire ==
    /\ alive /\ ~attached
    /\ Fault
    /\ alive' = FALSE
    /\ UNCHANGED <<client, session, log, avail, events, link>>

GoSilent ==
    /\ m_ws = "open" /\ m_ws_coro = "read"
    /\ m_should_heartbeat \/ "silent" \in Handshakes
    /\ Fault
    /\ m_ws' = "silent" /\ up' = <<>> /\ down' = <<>>
    /\ UNCHANGED <<client, server, attached>>

Next ==
    \/ Lookup \/ Dial \/ Upgrade \/ PauseEnds \/ ReadFails \/ Receive
    \/ Restart \/ SendBeat \/ PingTimeout \/ Command \/ NewToken
    \/ ServerTakes \/ ServerSays \/ Expire \/ GoSilent
    \/ \E g \in Guilds : GuildChange(g)

Spec == Init /\ [][Next]_vars

\* Every wait ends: the HTTP call and the handshake are answered, timers fire,
\* and what is on its way arrives while the connection works.
Fairness ==
    /\ WF_vars(Lookup) /\ WF_vars(Dial) /\ WF_vars(Upgrade) /\ WF_vars(PauseEnds)
    /\ WF_vars(Receive) /\ WF_vars(ServerTakes)
    /\ WF_vars(Restart) /\ WF_vars(SendBeat) /\ WF_vars(PingTimeout)

FairSpec == Spec /\ Fairness

(***************************************************************************)
(* Properties.                                                             *)
(***************************************************************************)
UpMessage == [op : {"identify", "beat"}] \union [op : {"resume"}, session : Nat, s : Nat]
DownMessage == [op : {"hello", "heartbeat", "ack", "reconnect"}]
               \union [op : {"dispatch"}, s : Nat, e : Events]
               \union [op : {"invalid"}, d : BOOLEAN]

ControlOK ==
    /\ m_ws_coro \in Stages /\ m_ws \in {"none", "open", "silent"}
    /\ m_ws = "none" <=> m_ws_coro \notin {"upgrade", "read"}

FlagsOK ==
    /\ {m_ws_coro_running, attached, alive} \subseteq BOOLEAN
    /\ {m_gateway_good, m_should_heartbeat, m_heartbeat_sent} \subseteq BOOLEAN

DataOK ==
    /\ {m_resume_token, m_resume_token_prev, session, m_sequence} \subseteq Nat
    /\ {online, online_resume, shown} \subseteq [Guilds -> BOOLEAN]
    /\ log \in Seq(Events) /\ avail \in SUBSET Guilds
    /\ up \in Seq(UpMessage) /\ down \in Seq(DownMessage)
    /\ faults \in 0 .. MaxFaults /\ events \in 0 .. MaxEvents

TypeOK == ControlOK /\ FlagsOK /\ DataOK

\* The events on their way are those after m_sequence, all of them and in order,
\* whatever connections were lost between: READY opens a session with event 1, and
\* a resumed session goes on where the client stopped.
Pending == {i \in DOMAIN down : Is(down[i], "dispatch")}
EventsInOrder ==
    attached /\ m_ws = "open" =>
        /\ {down[i].s : i \in Pending} = m_sequence + 1 .. Len(log)
        /\ \A i, j \in Pending : i < j => down[i].s < down[j].s

\* The client has all events of a session the server sends it.
CaughtUp == m_ws = "open" /\ attached /\ Pending = {}

\* A guild that is there is shown as there once the client has caught up, by
\* READY, by RESUMED or by GUILD_CREATE, whichever way it came back;
AvailableIsShown == CaughtUp => \A g \in avail : online[g] /\ shown[g]

\* a guild that went away while the client was not looking is struck out once
\* the client has caught up (a GUILD_DELETE of the session itself is another
\* matter: see GuildDelete);
DeletedHere(g) == \E i \in DOMAIN log : log[i] = <<"GUILD_DELETE", {g}>>
GoneIsHidden ==
    CaughtUp => \A g \in Guilds \ avail : DeletedHere(g) \/ ~(online[g] \/ shown[g])

\* and no guild is shown as there while there is no connection.
LostIsShown == m_ws = "none" => shown = None /\ online = None

\* The guild list tells the truth, over all ways to lose and resume a session.
GuildsAreTrue == TypeOK /\ AvailableIsShown /\ GoneIsHidden /\ LostIsShown

\* A connection the server serves is never given up for want of a heartbeat.
HealthyIsKept == [][PingTimeout => m_ws # "open"]_vars

\* Whatever fails, the client is in the end connected, and has caught up for good.
EventuallyOnline == <>[]CaughtUp
=============================================================================
