----------------------------- MODULE IrcBouncer -----------------------------
(***************************************************************************)
(* The IRC bouncer of irc.cpp: a process that stays on the IRC network      *)
(* while user interfaces come and go.  It keeps a history of lines and the  *)
(* state they start from (bouncer_server), an interface that attaches gets  *)
(* the state of the last detachment and the lines after it                  *)
(* (bouncer_client, ui), and both turn lines into channels and members with *)
(* the same tracker.  autopilot owns the connection to the network.         *)
(*                                                                         *)
(* A line is identified by its place in time, the counter n: send_line()    *)
(* makes the stamps of the history grow.  Queries, modes, topics and text   *)
(* are left out: they change neither a member list nor what is replayed.    *)
(***************************************************************************)
EXTENDS Integers, Sequences, FiniteSets, SequencesExt

CONSTANTS
    Uis,            \* user interfaces, each a process
    Chans,          \* the channels to join automatically
    Me, Others,     \* nicks
    Present,        \* those who are in the channels when the bouncer starts
    Races,          \* among "early", "offline", "trim", "seconds": see below
    MaxEvents       \* bound: on what people do on IRC and what goes wrong, together

ASSUME NicksAssumption == Me \notin Others /\ Present \subseteq Others

VARIABLES
    room,           \* IRC network: who is in each channel
    asked,          \* and the JOINs of the bouncer it has not answered
    inbox,          \* lines on their way from it
    link,           \* the autopilot: "off", "down" until its timer, "open", "in" after 001
    srv,            \* bouncer_server, if the process runs: track, history, last_disconnect
    conn,           \* each interface in clients: "none", "backlog", "accepted", "ready"
    gone,           \* clients whose interface has closed the socket
    toSrv, toUi,    \* what is in the sockets between them
    ui,             \* the interfaces: up, sock, track and the last line shown
    n, events,
    owed            \* only records: lines no interface showed and no cut connection took

net == <<room, asked, inbox, link>>
sockets == <<conn, gone, toSrv, toUi>>
vars == <<net, srv, sockets, ui, n, events, owed>>

(***************************************************************************)
(* The tracker, on t: connected, mynick and the channels, each with its     *)
(* members and with the tab that shows them (tracker's calls to its parent; *)
(* those of the bouncer do nothing and its tabs mean nothing).              *)
(***************************************************************************)
NoChannel == [joined |-> FALSE, members |-> <<>>, avail |-> FALSE, users |-> {}]
FreshTracker == [connected |-> FALSE, nick |-> "", merged |-> FALSE, chans |-> [c \in Chans |-> NoChannel]]

\* channel_set_joined, the tracker's and its parent's.
ShowChannel(r) == [r EXCEPT !.avail = r.joined, !.users = IF r.joined THEN ToSet(r.members) ELSE {}]
SetJoined(r, joined) ==
    IF r.joined = joined THEN r
    ELSE ShowChannel([r EXCEPT !.joined = joined, !.members = IF joined THEN @ ELSE <<>>])

UserJoin(r, who) == [r EXCEPT !.members = Append(@, who), !.users = @ \union {who}]
UserLeave(r, who) == [r EXCEPT !.members = Remove(@, who), !.users = @ \ {who}]

OnChannel(t, c, r) == [t EXCEPT !.chans[c] = r]
\* Every channel that has the member, as in NICK and QUIT.
Wherever(t, who, changed) ==
    [t EXCEPT !.chans = [c \in Chans |->
        IF Contains(t.chans[c].members, who) THEN changed[c] ELSE t.chans[c]]]

\* tracker::ircline for each kind of line.
Welcomed(t, l) ==
    [connected |-> TRUE, nick |-> l.who, merged |-> FALSE,
     chans |-> [c \in Chans |-> [t.chans[c] EXCEPT !.joined = FALSE, !.members = <<>>]]]
Joined(t, l) ==
    LET r == t.chans[l.chan]
    IN  OnChannel(t, l.chan, UserJoin(IF l.who = t.nick THEN SetJoined(r, TRUE) ELSE r, l.who))
Left(t, l) ==       \* PART and KICK
    LET r == UserLeave(t.chans[l.chan], l.who)
    IN  OnChannel(t, l.chan, IF l.who = t.nick THEN SetJoined(r, FALSE) ELSE r)
HasQuit(t, l) == Wherever(t, l.who, [c \in Chans |-> UserLeave(t.chans[c], l.who)])
Renamed(t, l) ==
    [Wherever(t, l.who, [c \in Chans |-> UserJoin(UserLeave(t.chans[c], l.who), l.new)])
        EXCEPT !.nick = IF @ = l.who THEN l.new ELSE @]

\* Mutant: the list of names is appended as it is.
NamesAppended(t, l) == OnChannel(t, l.chan, FoldLeft(UserJoin, t.chans[l.chan], l.users))

Names(t, l) ==
    LET Add(r, who) == IF Contains(r.members, who) THEN r ELSE UserJoin(r, who)
    IN  OnChannel(t, l.chan, FoldLeft(Add, t.chans[l.chan], l.users))

Track(t, l) ==
    CASE l.cmd = "001" -> Welcomed(t, l)
      [] l.cmd = "JOIN" -> Joined(t, l)
      [] l.cmd = "PART" -> Left(t, l)
      [] l.cmd = "QUIT" -> HasQuit(t, l)
      [] l.cmd = "NICK" -> Renamed(t, l)
      [] l.cmd = "353" -> Names(t, l)
      [] l.cmd = "PRIVMSG" -> t

\* ui::connect_status and tracker::disconnected.
Disconnected(t) ==
    [t EXCEPT !.connected = FALSE,
              !.chans = [c \in Chans |-> [SetJoined(@[c], FALSE) EXCEPT !.avail = FALSE, !.users = {}]]]

\* ui::load_state: what was sent is merged into the tracker; only joined channels are
\* shown.
LoadState(t, s) ==
    LET Merge(r, saved) ==
            [r EXCEPT !.joined = saved.joined, !.members = @ \o saved.members]
        Loaded(r) == IF r.joined THEN ShowChannel(r) ELSE r
    IN  [connected |-> s.connected, nick |-> s.nick,
         merged |-> t.merged,
         chans |-> [c \in Chans |-> Loaded(Merge(t.chans[c], s.chans[c]))]]

(***************************************************************************)
(* bouncer_server.                                                         *)
(***************************************************************************)
NoServer == [up |-> FALSE, track |-> FreshTracker, history |-> <<>>, last_disconnect |-> 0]
Clients == {u \in Uis : conn[u] \in {"accepted", "ready"}}

Init ==
    /\ room = [c \in Chans |-> Present] /\ asked = {} /\ inbox = <<>> /\ link = "off"
    /\ srv = NoServer
    /\ conn = [u \in Uis |-> "none"] /\ gone = {}
    /\ toSrv = [u \in Uis |-> <<>>] /\ toUi = [u \in Uis |-> <<>>]
    /\ ui = [u \in Uis |-> [up |-> FALSE, sock |-> FALSE,
                            track |-> FreshTracker, last |-> 0]]
    /\ n = 0 /\ events = 0 /\ owed = {}

Spend == events < MaxEvents /\ events' = events + 1

\* What the races allow.  "early": a line is sent to a client that was accepted and
\* has not asked for the state.  A line sent to a client that is gone fails inside
\* send_line(), which then uses freed memory: not modelled.
MayBroadcast(except) ==
    /\ gone \subseteq {except}
    /\ "early" \in Races \/ \A u \in Uis : conn[u] # "accepted"

Stamp(type, l) == [type |-> type, at |-> n + 1, line |-> l]

\* In the history a client's line, stamped in seconds where all others have microseconds,
\* is from 1970, unless there is a later one, whose stamp it then follows.
Recorded(m) == IF m.type = "<" /\ srv.history = <<>> THEN [m EXCEPT !.at = 0] ELSE m

\* send_line: to all clients but one, and into the history.
SendLine(type, l, except) ==
    /\ MayBroadcast(except) /\ n' = n + 1
    /\ toUi' = [u \in Uis |->
           IF u \in Clients \ {except} THEN Append(toUi[u], Stamp(type, l)) ELSE toUi[u]]
    /\ srv' = [srv EXCEPT !.history = Append(@, Recorded(Stamp(type, l)))]
    /\ owed' = IF type = ">" THEN owed \union {n'} ELSE owed
    /\ UNCHANGED <<conn, gone>>

Status == [cmd |-> "status"]
Nobody == "nobody"
ASSUME UisAssumption == Nobody \notin Uis

\* uiconnect_ready
Accept(u) ==
    /\ srv.up /\ conn[u] = "backlog"
    /\ conn' = [conn EXCEPT ![u] = "accepted"]
    /\ UNCHANGED <<net, srv, gone, toSrv, toUi, ui, n, events, owed>>

Replay(t, lines) ==
    FoldLeft(LAMBDA s, h : IF h.type = ">" THEN Track(s, h.line) ELSE s, t, lines)

\* The connection to IRC was up where the lines end, as far as they say.
Online(lines) ==
    LET says == SelectSeq(lines, LAMBDA h : h.type = "c" \/ h.line.cmd = "001")
    IN  says # <<>> => Last(says).type # "c"
\* "trim": only a part of the history is older than a week.
MayTrim(old, kept) ==
    /\ "offline" \notin Races => Online(old)
    /\ "trim" \notin Races => old = <<>> \/ kept = <<>>

\* Nothing can be sent to an interface that is gone.
Send(u, lines) == toUi' = [toUi EXCEPT ![u] = IF u \in gone THEN @ ELSE @ \o lines]

\* Where the loop over the history ends that passes what is not later than at.
Passed(lines, at) ==
    CHOOSE k \in 0..Len(lines) :
        /\ \A i \in 1..k : lines[i].at <= at
        /\ k < Len(lines) => at < lines[k + 1].at

\* Mutant: the last line before the detachment is sent again.
AfterAgain(lines, at) == SubSeq(lines, Passed(lines, at - 1) + 1, Len(lines))

After(lines, at) == SubSeq(lines, Passed(lines, at) + 1, Len(lines))
UpTo(lines, at) == SubSeq(lines, 1, Passed(lines, at))

\* A client's 'C': lines older than a week leave the history, then the client gets
\* the state of the last detachment and every line after it.  The index n is not set
\* back between the two: as many lines of those left are passed over as were dropped.
Configure(u) ==
    \E week \in 0..(IF events < MaxEvents THEN n ELSE 0) :
        LET old == UpTo(srv.history, week)
            kept == After(srv.history, week)
            rest == SubSeq(kept, Len(old) + 1, Len(kept))
            track == Replay(srv.track, old)
            stop == srv.last_disconnect
            local == Replay(track, UpTo(rest, stop))
            cut == IF stop > 0 /\ stop <= week THEN <<[type |-> "c", at |-> 0, line |-> Status]>> ELSE <<>>
            state == [type |-> "S", at |-> 0, line |-> local]
        IN  /\ week > 0 => srv.history # <<>> /\ week >= Head(srv.history).at
            /\ MayTrim(old, kept)
            /\ events' = IF week > 0 THEN events + 1 ELSE events
            /\ srv' = [srv EXCEPT !.track = track, !.history = kept]
            /\ Send(u, cut \o <<state>> \o After(rest, stop))
            /\ conn' = [conn EXCEPT ![u] = "ready"]
            /\ link' = IF link = "off" THEN "down" ELSE link     \* pilot.activate()
            /\ owed' = {m \in owed : m > week /\ (u \in gone => m <= stop)}
            /\ UNCHANGED <<room, asked, inbox, gone, n>>

\* "seconds": a client's line comes into an empty history.  The next 'C' drops it as
\* older than a week, and it alone.
MayRelay == "seconds" \in Races \/ srv.history # <<>>

\* A client's '<': the line goes to IRC, to the other clients and into the history.
Relay(u, l) ==
    /\ MayRelay /\ SendLine("<", l, u)
    /\ asked' = IF link = "in" /\ l.cmd = "JOIN" /\ Me \notin room[l.chan]
                THEN asked \union {l.chan} ELSE asked
    /\ UNCHANGED <<room, inbox, link, events>>

\* Lines in the sockets of interfaces.
InFlight == UNION {{toUi[u][i].at : i \in DOMAIN toUi[u]} : u \in Uis}

\* A client's 'X': _exit().  What is in the sockets can still be read.
Exit ==
    /\ srv' = NoServer /\ link' = "off" /\ asked' = {} /\ inbox' = <<>>
    /\ room' = [c \in Chans |-> room[c] \ {Me}]
    /\ conn' = [v \in Uis |-> "none"] /\ gone' = {}
    /\ toUi' = [v \in Uis |->
           IF conn[v] # "none" /\ v \notin gone
           THEN Append(toUi[v], [type |-> "end", at |-> 0, line |-> Status]) ELSE toUi[v]]
    /\ owed' = owed \intersect InFlight
    /\ UNCHANGED <<n, events>>

ServerReads(u) ==
    /\ u \in Clients /\ toSrv[u] # <<>>
    /\ LET m == Head(toSrv[u])
       IN  /\ \/ m.type = "C" /\ Configure(u)
              \/ m.type = "<" /\ Relay(u, m.line)
              \/ m.type = "X" /\ Exit
           /\ toSrv' = IF m.type = "X" THEN [v \in Uis |-> <<>>] ELSE [toSrv EXCEPT ![u] = Tail(@)]
    /\ UNCHANGED ui

\* Mutant: the place is that of the next line.
ServerEofLate(u) ==
    /\ u \in Clients \intersect gone /\ toSrv[u] = <<>>
    /\ conn' = [conn EXCEPT ![u] = "none"] /\ gone' = gone \ {u}
    /\ srv' = [srv EXCEPT !.last_disconnect = n + 1]
    /\ UNCHANGED <<net, toSrv, toUi, ui, n, events, owed>>

\* sock_line with no line: the client is removed.
ServerEof(u) ==
    /\ u \in Clients \intersect gone /\ toSrv[u] = <<>>
    /\ conn' = [conn EXCEPT ![u] = "none"] /\ gone' = gone \ {u}
    /\ srv' = [srv EXCEPT !.last_disconnect =
                  IF srv.history = <<>> THEN 0 ELSE Last(srv.history).at]
    /\ UNCHANGED <<net, toSrv, toUi, ui, n, events, owed>>

(***************************************************************************)
(* autopilot.  "Connecting" and "Connected" are one step and one status.    *)
(***************************************************************************)
PilotConnects ==
    /\ srv.up /\ link = "down" /\ link' = "open"
    /\ SendLine("c", Status, Nobody)
    /\ UNCHANGED <<room, asked, inbox, toSrv, ui, events>>

PilotBreaks ==
    /\ srv.up /\ link \in {"open", "in"} /\ Spend
    /\ link' = "down" /\ inbox' = <<>> /\ asked' = {}
    /\ room' = [c \in Chans |-> room[c] \ {Me}]
    /\ SendLine("c", Status, Nobody)
    /\ UNCHANGED <<toSrv, ui>>

\* A line from IRC; 001 is answered by joining the channels.
IrcLine ==
    /\ inbox # <<>> /\ inbox' = Tail(inbox)
    /\ LET l == Head(inbox)
       IN  /\ SendLine(">", l, Nobody)
           /\ link' = IF l.cmd = "001" THEN "in" ELSE link
           /\ asked' = IF l.cmd = "001" THEN Chans ELSE asked
    /\ UNCHANGED <<room, toSrv, ui, events>>

(***************************************************************************)
(* bouncer_client and ui.                                                  *)
(***************************************************************************)
Put(u, v) == ui' = [ui EXCEPT ![u] = v]

\* main_recv up to its loop.  The bouncer is started if nobody answers.  The server
\* sees the end of an interface's last connection before it accepts its next one.
Connects(u, v) ==
    /\ conn[u] = "none"
    /\ Put(u, [v EXCEPT !.up = TRUE, !.sock = TRUE])
    /\ srv' = IF srv.up THEN srv ELSE [NoServer EXCEPT !.up = TRUE]
    /\ conn' = [conn EXCEPT ![u] = "backlog"]
    /\ toSrv' = [toSrv EXCEPT ![u] = <<[type |-> "C", line |-> Status]>>]
    /\ toUi' = [toUi EXCEPT ![u] = <<>>]
    /\ UNCHANGED <<net, gone, n, events, owed>>

UiStarts(u) == ~ui[u].up /\ Connects(u, ui[u])
UiConnects(u) == ui[u].up /\ ~ui[u].sock /\ Connects(u, ui[u])

Shows(v, m) == [v EXCEPT !.last = m.at]
\* Mutant: the end of the connection is told and not acted on.
UiLineStays(v, m) ==
    CASE m.type = ">" -> Shows([v EXCEPT !.track = Track(@, m.line)], m)
      [] m.type = "<" -> Shows(v, m)
      [] m.type = "c" -> [v EXCEPT !.track = Disconnected(@)]
      [] m.type = "S" -> [v EXCEPT !.track = LoadState(@, m.line)]
      [] m.type = "end" -> [v EXCEPT !.track = Disconnected(@)]

UiLine(v, m) ==
    CASE m.type = ">" -> Shows([v EXCEPT !.track = Track(@, m.line)], m)
      [] m.type = "<" -> Shows(v, m)
      [] m.type = "c" -> [v EXCEPT !.track = Disconnected(@)]
      [] m.type = "S" -> [v EXCEPT !.track = LoadState(@, m.line)]
      [] m.type = "end" -> [v EXCEPT !.track = Disconnected(@), !.sock = FALSE]

UiReads(u) ==
    /\ ui[u].up /\ toUi[u] # <<>>
    /\ LET m == Head(toUi[u])
       IN  Put(u, UiLine(ui[u], m)) /\ owed' = owed \ {m.at}
    /\ toUi' = [toUi EXCEPT ![u] = Tail(@)]
    /\ UNCHANGED <<net, srv, conn, gone, toSrv, n, events>>

\* "offline": an interface detaches while the bouncer is not on IRC; the state it
\* leaves behind says that the bouncer is.
MayDetach == "offline" \in Races \/ link = "in" \/ Replay(srv.track, srv.history) = FreshTracker

\* The interface closes its socket, one at a time; lines in it are lost.
Closes(u, v) ==
    /\ MayDetach /\ gone = {} /\ Put(u, v)
    /\ owed' = owed \ {toUi[u][i].at : i \in DOMAIN toUi[u]}
    /\ toUi' = [toUi EXCEPT ![u] = <<>>]

\* The process ends: its socket is closed.
UiExits(u) ==
    /\ ui[u].up /\ Spend
    /\ Closes(u, [ui[u] EXCEPT !.up = FALSE, !.sock = FALSE, !.track = FreshTracker, !.last = 0])
    /\ gone' = IF conn[u] # "none" THEN gone \union {u} ELSE gone
    /\ UNCHANGED <<net, srv, conn, toSrv, n>>

\* time_ping: a ping that is not answered in time.  The interface connects again and
\* keeps its tracker: merged only records that its members will be in it twice.
UiPingTimeout(u) ==
    /\ ui[u].sock /\ Spend
    /\ Closes(u, [ui[u] EXCEPT !.sock = FALSE,
                               !.track.merged = @ \/ \E c \in Chans : ui[u].track.chans[c].members # <<>>])
    /\ gone' = IF conn[u] # "none" THEN gone \union {u} ELSE gone
    /\ UNCHANGED <<net, srv, conn, toSrv, n>>

\* /newbouncer: 'X' and the end of the connection, which the interface notices itself.
UiRestartsServer(u) ==
    /\ ui[u].sock /\ conn[u] # "none" /\ Spend
    /\ Closes(u, [ui[u] EXCEPT !.track = Disconnected(@), !.sock = FALSE])
    /\ toSrv' = [toSrv EXCEPT ![u] = Append(@, [type |-> "X", line |-> Status])]
    /\ gone' = gone \union {u}
    /\ UNCHANGED <<net, srv, conn, n>>

\* A command of the user: a message, or joining a channel.
UiSends(u, c) ==
    /\ Spend
    /\ ui[u].sock /\ conn[u] # "none" /\ ui[u].track.connected
    /\ LET cmd == IF ui[u].track.chans[c].joined THEN "PRIVMSG" ELSE "JOIN"
       IN  toSrv' = [toSrv EXCEPT ![u] = Append(@, [type |-> "<",
                         line |-> [cmd |-> cmd, who |-> ui[u].track.nick, chan |-> c]])]
    /\ UNCHANGED <<net, srv, conn, gone, toUi, ui, n, owed>>

(***************************************************************************)
(* The IRC network (external).                                             *)
(***************************************************************************)
\* Lines about a channel reach the bouncer while it is in it, and before anything
\* else happens there.
Tell(lines, told) == inbox = <<>> /\ inbox' = IF told THEN lines ELSE <<>>
Quiet == UNCHANGED <<srv, sockets, ui, n, owed>>
Event == link # "off" /\ Spend

Welcome ==
    /\ link = "open" /\ inbox = <<>>
    /\ inbox' = <<[cmd |-> "001", who |-> Me]>>
    /\ Quiet /\ UNCHANGED <<room, asked, link, events>>

LetIn(c) ==
    /\ c \in asked /\ asked' = asked \ {c}
    /\ room' = [room EXCEPT ![c] = @ \union {Me}]
    /\ Tell(<<[cmd |-> "JOIN", who |-> Me, chan |-> c],
              [cmd |-> "353", chan |-> c, users |-> SetToSeq(room'[c])]>>, TRUE)
    /\ Quiet /\ UNCHANGED <<link, events>>

OtherJoins(c, who) ==
    /\ Event /\ \A d \in Chans : who \notin room[d]
    /\ room' = [room EXCEPT ![c] = @ \union {who}]
    /\ Tell(<<[cmd |-> "JOIN", who |-> who, chan |-> c]>>, Me \in room[c])
    /\ Quiet /\ UNCHANGED <<asked, link>>

OtherQuits(c, who) ==
    /\ Event /\ who \in room[c]
    /\ room' = [d \in Chans |-> room[d] \ {who}]
    /\ Tell(<<[cmd |-> "QUIT", who |-> who]>>, Me \in room[c])
    /\ Quiet /\ UNCHANGED <<asked, link>>

OtherRenames(c, who, new) ==
    /\ Event /\ who \in room[c] /\ \A d \in Chans : new \notin room[d]
    /\ room' = [room EXCEPT ![c] = (@ \ {who}) \union {new}]
    /\ Tell(<<[cmd |-> "NICK", who |-> who, new |-> new]>>, Me \in room[c])
    /\ Quiet /\ UNCHANGED <<asked, link>>

OtherTalks(c, who) ==
    /\ Event /\ {who, Me} \subseteq room[c]
    /\ Tell(<<[cmd |-> "PRIVMSG", who |-> who, chan |-> c]>>, TRUE)
    /\ Quiet /\ UNCHANGED <<room, asked, link>>

Kicks(c) ==
    /\ Event /\ Me \in room[c]
    /\ room' = [room EXCEPT ![c] = @ \ {Me}]
    /\ Tell(<<[cmd |-> "PART", who |-> Me, chan |-> c]>>, TRUE)
    /\ Quiet /\ UNCHANGED <<asked, link>>

Next ==
    \/ PilotConnects \/ PilotBreaks \/ IrcLine \/ Welcome
    \/ \E u \in Uis :
        \/ Accept(u) \/ ServerReads(u) \/ ServerEof(u)
        \/ UiStarts(u) \/ UiConnects(u) \/ UiReads(u) \/ UiExits(u)
        \/ UiPingTimeout(u) \/ UiRestartsServer(u)
        \/ \E c \in Chans : UiSends(u, c)
    \/ \E c \in Chans :
        \/ LetIn(c) \/ Kicks(c)
        \/ \E who \in Others :
            \/ OtherJoins(c, who) \/ OtherQuits(c, who) \/ OtherTalks(c, who)
            \/ \E new \in Others : OtherRenames(c, who, new)

Spec == Init /\ [][Next]_vars

\* Sockets are read, the autopilot's timer fires, the IRC network answers: while one of
\* these is possible, one of them happens.
Progress ==
    \/ PilotConnects \/ IrcLine \/ Welcome \/ \E c \in Chans : LetIn(c)
    \/ \E u \in Uis : Accept(u) \/ ServerReads(u) \/ ServerEof(u) \/ UiConnects(u) \/ UiReads(u)

\* When one is.
Runnable(u) ==
    \/ srv.up /\ conn[u] = "backlog"
    \/ u \in Clients /\ toSrv[u] # <<>> /\ (Head(toSrv[u]).type = "<" => MayRelay /\ MayBroadcast(u))
    \/ u \in Clients \intersect gone /\ toSrv[u] = <<>>
    \/ ui[u].up /\ ~ui[u].sock /\ conn[u] = "none"
    \/ ui[u].up /\ toUi[u] # <<>>
MayProgress ==
    \/ (link = "down" \/ inbox # <<>>) /\ srv.up /\ MayBroadcast(Nobody)
    \/ (link = "open" \/ asked # {}) /\ inbox = <<>>
    \/ \E u \in Uis : Runnable(u)

\* Weak fairness of Progress, with its condition spelled out.
FairSpec == Spec /\ ([]<>~MayProgress \/ []<><<Progress>>_vars)

(***************************************************************************)
(* Properties.                                                             *)
(***************************************************************************)
\* An interface that has read all there is.
CaughtUp(u) ==
    /\ ui[u].sock /\ conn[u] = "ready" /\ toUi[u] = <<>> /\ inbox = <<>>

True(t) ==
    /\ t.connected = (link = "in")
    /\ \A c \in Chans :
        LET r == t.chans[c]
        IN  IF Me \in room[c] /\ link = "in"
            THEN r.joined /\ r.avail /\ r.users = room[c]
                 /\ ToSet(r.members) = room[c] /\ Len(r.members) = Cardinality(room[c])
            ELSE ~r.joined /\ ~r.avail /\ r.users = {} /\ r.members = <<>>

\* An interface that has read all there is shows the bouncer's connection, the channels
\* it is in and exactly their members, whenever it attached (sock_line 'C', load_state).
\* One that attached again without forgetting what it knew is excepted.
UiIsTrue == \A u \in Uis : CaughtUp(u) => ui[u].track.merged \/ True(ui[u].track)

\* An interface shows no line twice and none after a later one, over all its connections
\* to the bouncer: last_disconnect is where the last one ended.
ToShow(m) == m.type \in {">", "<"}
ShownOnce ==
    \A u \in Uis : \A i \in DOMAIN toUi[u] : ToShow(toUi[u][i]) =>
        /\ ui[u].last < toUi[u][i].at
        /\ \A j \in 1..(i - 1) : ToShow(toUi[u][j]) => toUi[u][j].at < toUi[u][i].at

\* A line of IRC that no interface has shown is on its way to one, or is what the next
\* one to attach gets, unless it was in the socket of one that closed.
NoLineUnseen ==
    \A m \in owed :
        \/ m \in InFlight
        \/ m > srv.last_disconnect /\ \E i \in DOMAIN srv.history : srv.history[i].at = m

TypeOK ==
    /\ \A c \in Chans : room[c] \subseteq Others \union {Me}
    /\ asked \subseteq Chans /\ link \in {"off", "down", "open", "in"}
    /\ srv.up \in BOOLEAN /\ srv.last_disconnect \in 0..n /\ owed \subseteq 1..n
    /\ \A i \in DOMAIN srv.history : srv.history[i].at \in 0..n
    /\ \A i, j \in DOMAIN srv.history : i < j => srv.history[i].at < srv.history[j].at
    /\ conn \in [Uis -> {"none", "backlog", "accepted", "ready"}]
    /\ \A u \in gone : conn[u] # "none" /\ ~ui[u].sock

\* The history and what is on its way are all that the bouncer owes its interfaces.
NothingLost == TypeOK /\ NoLineUnseen

\* Whatever happens, an interface that stays up ends up attached and true.
UiCatchesUp == <>[](\A u \in Uis : ui[u].up => CaughtUp(u) /\ (ui[u].track.merged \/ True(ui[u].track)))
=============================================================================
