---------------------------- MODULE SlackHistory ----------------------------
(***************************************************************************)
(* One channel of a Slack workspace (slack.cpp over chatbase.h): what the  *)
(* client shows of the channel's history.                                  *)
(*                                                                         *)
(* After an outage network() opens the websocket, asks for the channel's   *)
(* latest message (client.counts), and when that is news declares a hole   *)
(* at the end (scrollback_partial) and fetches the newest page into it;    *)
(* only then it handles the messages the websocket had queued.  Older      *)
(* pages are fetched when the user clicks the notice in the hole, by a     *)
(* coroutine of its own.  All calls go through one http_t as POSTs, so     *)
(* they are made and answered one by one.                                  *)
(*                                                                         *)
(* The cache keeps the end of the message list over a restart, but neither *)
(* scrollback_partial nor scrollback_pos.                                  *)
(***************************************************************************)
EXTENDS ChatStore, FiniteSets

CONSTANTS
  Limit,        \* messages in a page of history (28)
  Cached,       \* messages in the cache at program start
  Kept,         \* messages written to the cache (5, 75 or 200)
  MaxId,        \* bound: messages ever posted
  Burst,        \* bound: websocket events until network() handles them
  MaxFailures,  \* bound: connections and calls that fail, and restarts
  OneHole,      \* no hole is forgotten: nothing is missed while one is open, and it is not
                \* between the messages that are written to the cache
  Overlap,      \* whether a page is clicked for, or a message deleted, while another
                \* page is fetched or an event could disturb the place it belongs to
  MaxDeletes,   \* bound: messages deleted
  MaxClicks     \* bound: clicked pages fetched at a time; 0 for no user at all

ASSUME HistoryAssumption ==
  /\ {Limit, Kept} \subseteq Nat \ {0} /\ Margin \in Nat /\ Burst \in Nat
  /\ Cached \in 1 .. MaxId /\ MaxFailures \in Nat
  /\ OneHole \in BOOLEAN /\ Overlap \in BOOLEAN /\ MaxDeletes \in Nat /\ MaxClicks \in Nat

VARIABLES
  posted, deleted,  \* the server's messages: 1 .. posted but for the deleted ones
  ch,               \* the channel
  disk,             \* its messages in the cache
  stage,            \* where network() is
  queue,            \* websocket events that were not handled yet
  calls,            \* HTTP calls, the oldest first; only the oldest was sent
  notice,           \* the notice in the hole, or "closed" without a tab
  failures

server == <<posted, deleted>>
net == <<stage, queue>>
vars == <<server, ch, disk, net, calls, notice, failures>>

History == (1 .. posted) \ deleted

\* A channel that was read from the cache.
Loaded(messages) == [messages |-> messages, partial |-> FALSE, pos |-> NoId]

Init ==
  /\ posted \in Cached .. MaxId
  /\ deleted = {}
  /\ disk = [i \in 1 .. Cached |-> i]
  /\ ch = Loaded(disk)
  /\ stage = "down" /\ queue = <<>> /\ calls = <<>>
  /\ notice \in {"closed", "none"}
  /\ failures = 0

-----------------------------------------------------------------------------
(* The server.                                                             *)

\* No page is being fetched, nor about to be.
Settled == stage \in {"down", "live"} /\ calls = <<>>

HoleOpen == ch.partial /\ ch.pos # NoId

Announce(event) == queue' = IF stage = "down" THEN queue ELSE Append(queue, event)

Post ==
  /\ posted < MaxId
  /\ OneHole /\ HoleOpen => stage = "live"
  /\ Len(queue) < Burst
  /\ posted' = posted + 1
  /\ Announce([type |-> "message", id |-> posted + 1])
  /\ UNCHANGED <<disk, deleted, ch, stage, calls, notice, failures>>

Delete(id) ==
  /\ Cardinality(deleted) < MaxDeletes
  /\ Overlap \/ (Settled /\ ~ch.partial)
  /\ id \in History
  /\ Len(queue) < Burst
  /\ deleted' = deleted \cup {id}
  /\ Announce([type |-> "message_deleted", id |-> id])
  /\ UNCHANGED <<disk, posted, ch, stage, calls, notice, failures>>

\* The newest n messages of a set, oldest first.
Newest(S, n) ==
  SetToSortSeq({m \in S : Cardinality({x \in S : x >= m}) <= n}, <)

\* client.counts answers with the latest message, conversations.history with the
\* page before the time asked for.
Reply(call) ==
  IF call.ask = "counts" THEN Newest(History, 1)
  ELSE Newest({m \in History : call.before # NoId => m < call.before}, Limit)

Answer ==
  /\ calls # <<>> /\ calls[1].state = "asked"
  /\ calls' = [calls EXCEPT ![1] = [@ EXCEPT !.state = "ok", !.ids = Reply(calls[1])]]
  /\ UNCHANGED <<disk, server, ch, net, notice, failures>>

CallFails ==
  /\ calls # <<>> /\ calls[1].state = "asked"
  /\ failures < MaxFailures
  /\ failures' = failures + 1
  /\ calls' = [calls EXCEPT ![1].state = "failed"]
  /\ UNCHANGED <<disk, server, ch, net, notice>>

-----------------------------------------------------------------------------
(* network().                                                              *)

Ask(who, what) ==
  calls' = Append(calls, [by |-> who, ask |-> what, before |-> ch.pos,
                          state |-> "asked", ids |-> <<>>])

Returned(who, what) ==
  /\ calls # <<>>
  /\ calls[1].by = who /\ calls[1].ask = what /\ calls[1].state # "asked"
  /\ calls' = Tail(calls)

Connect ==
  /\ stage = "down"
  /\ stage' = "counts"
  /\ Ask("network", "counts")
  /\ UNCHANGED <<disk, server, ch, queue, notice, failures>>

DeclareHole(c) == [c EXCEPT !.partial = TRUE, !.pos = NoId]

\* Mutant of Outdated: what was missed is not noticed.
OutdatedNever(c, latest) == FALSE

\* client.counts knows a message later than the channel's last one.
Outdated(c, latest) == latest # <<>> /\ latest[1] > LastMsgAt(c)

CountsArrive ==
  /\ stage = "counts"
  /\ Returned("network", "counts")
  /\ IF calls[1].state = "ok"
     THEN /\ stage' = "fetch"
          /\ ch' = IF Outdated(ch, calls[1].ids)
                   THEN DeclareHole(ch) ELSE ch
          /\ UNCHANGED queue
     ELSE stage' = "down" /\ queue' = <<>> /\ UNCHANGED ch
  /\ UNCHANGED <<disk, server, notice, failures>>

Fetch ==
  /\ stage = "fetch"
  /\ ch.partial
  /\ stage' = "fetching"
  /\ Ask("network", "history")
  /\ UNCHANGED <<disk, server, ch, queue, notice, failures>>

NothingToFetch ==
  /\ stage = "fetch"
  /\ ~ch.partial
  /\ stage' = "live"
  /\ UNCHANGED <<disk, server, ch, queue, calls, notice, failures>>

\* show_channel: when a message is important enough and there is no tab, one opens,
\* with a notice if the channel has a hole.
MayShow(partial) ==
  \/ UNCHANGED notice
  \/ notice = "closed" /\ notice' = IF partial THEN "load" ELSE "none"

\* request_scrollback, after its call.
PageArrives ==
  LET page == IF calls[1].state = "ok" THEN calls[1].ids ELSE <<>> IN
  ch' = Page(ch, page)

HistoryArrive ==
  /\ stage = "fetching"
  /\ Returned("network", "history")
  /\ PageArrives
  /\ IF ch' = ch THEN UNCHANGED notice
     ELSE \E partial \in {ch.partial, ch'.partial} : MayShow(partial)
  /\ stage' = "live"
  /\ UNCHANGED <<disk, server, queue, failures>>

\* A message event of the websocket.
Event ==
  /\ stage = "live" /\ queue # <<>>
  /\ queue' = Tail(queue)
  /\ \/ /\ queue[1].type = "message"
        /\ ch' = AppendMessage(ch, queue[1].id)
        /\ IF ch' = ch THEN UNCHANGED notice ELSE MayShow(ch.partial)
     \/ /\ queue[1].type = "message_deleted"
        /\ ch' = DeleteMessage(ch, queue[1].id)
        /\ UNCHANGED notice
  /\ UNCHANGED <<disk, server, stage, calls, failures>>

CancelNetwork(cs) == SelectSeq(cs, LAMBDA c : c.by # "network")

\* The connection is lost, or start_network cancels a network() that took too long:
\* its call and the queued events are dropped.
Outage ==
  /\ stage # "down"
  /\ failures < MaxFailures
  /\ OneHole /\ HoleOpen => stage = "live" /\ queue = <<>>
  /\ failures' = failures + 1
  /\ stage' = "down" /\ queue' = <<>>
  /\ calls' = CancelNetwork(calls)
  /\ UNCHANGED <<disk, server, ch, notice>>

-----------------------------------------------------------------------------
(* The user.                                                               *)

\* ilink: the notice changes and a coroutine fetches the page before the hole.
Click ==
  /\ notice \in {"load", "retry"}
  /\ Overlap \/ (Settled /\ queue = <<>> /\ ch.pos # NoId)
  /\ Cardinality({i \in DOMAIN calls : calls[i].by = "user"}) < MaxClicks
  /\ notice' = "loading"
  /\ Ask("user", "history")
  /\ UNCHANGED <<disk, server, ch, net, failures>>

\* ... and the notice follows the result.  When the tab was closed meanwhile and no
\* message of the page opened one, set_scrollback_notice uses a null ch.host, which
\* is undefined; here it has no effect.
ClickedArrive ==
  /\ Returned("user", "history")
  /\ PageArrives
  /\ \E opened \in BOOLEAN :
       LET there == notice # "closed" \/ (opened /\ ch' # ch) IN
       notice' = IF ~there THEN "closed"
                    ELSE IF ~ch'.partial THEN "none"
                    ELSE IF ch'.pos = calls[1].before THEN "retry" ELSE "load"
  /\ UNCHANGED <<disk, server, net, failures>>

CloseTab ==
  /\ MaxClicks > 0
  /\ notice # "closed"
  /\ notice' = "closed"
  /\ UNCHANGED <<disk, server, ch, net, calls, failures>>

\* /join, or a click on the channel.
OpenTab ==
  /\ MaxClicks > 0
  /\ notice = "closed"
  /\ notice' = IF ch.partial THEN "load" ELSE "none"
  /\ UNCHANGED <<disk, server, ch, net, calls, failures>>

-----------------------------------------------------------------------------
(* The cache.                                                              *)

\* ser_messages: the last of them.
Saved == SubSeq(ch.messages, Max({1, Len(ch.messages) - Kept + 1}), Len(ch.messages))

\* The hole is between two messages of the cache.
HoleIsSaved == HoleOpen /\ Saved # <<>> /\ Saved[1] < ch.pos

\* /sync
Sync ==
  /\ OneHole => ~HoleIsSaved
  /\ disk' = Saved
  /\ UNCHANGED <<server, ch, net, calls, notice, failures>>

\* The program ends, with deinit() or without, and starts again: show_channel_initial()
\* opens a tab or does not.
Restart ==
  /\ failures < MaxFailures
  /\ failures' = failures + 1
  /\ \/ UNCHANGED disk
     \/ (OneHole => ~HoleIsSaved) /\ disk' = Saved
  /\ ch' = Loaded(disk')
  /\ stage' = "down" /\ queue' = <<>> /\ calls' = <<>>
  /\ notice' \in {"closed", "none"}
  /\ UNCHANGED server

-----------------------------------------------------------------------------
Network == Connect \/ CountsArrive \/ Fetch \/ NothingToFetch \/ HistoryArrive \/ Event

Next ==
  \/ Post \/ (\E id \in 1 .. MaxId : Delete(id)) \/ Answer \/ CallFails
  \/ Network \/ Outage
  \/ Click \/ ClickedArrive \/ CloseTab \/ OpenTab
  \/ Sync \/ Restart

\* The run loop dispatches what is ready, the server answers calls, and the
\* reconnect timer restarts network() (its own model is SlackConnection).
Fairness == WF_vars(Network) /\ WF_vars(Answer) /\ WF_vars(ClickedArrive)

Safe == Init /\ [][Next]_vars

Spec == Safe /\ Fairness

-----------------------------------------------------------------------------
Ids == 1 .. MaxId

\* Types; network() waits for at most one call.
TypeOK ==
  /\ posted \in 1 .. MaxId
  /\ deleted \subseteq 1 .. posted
  /\ ch \in [messages : Seq(1 .. posted), partial : BOOLEAN, pos : 0 .. posted]
  /\ disk \in Seq(1 .. posted)
  /\ stage \in {"down", "counts", "fetch", "fetching", "live"}
  /\ queue \in Seq([type : {"message", "message_deleted"}, id : Ids])
  /\ calls \in Seq([by : {"network", "user"}, ask : {"counts", "history"},
                    before : {NoId} \cup Ids, state : {"asked", "ok", "failed"},
                    ids : Seq(Ids)])
  /\ Len(SelectSeq(calls, LAMBDA c : c.by = "network")) <=
       IF stage \in {"counts", "fetching"} THEN 1 ELSE 0
  /\ notice \in {"closed", "none", "load", "loading", "retry"}
  /\ failures \in 0 .. MaxFailures

\* The messages are shown in the order they were posted, each once, whatever came
\* by the websocket, by a page of history or by both.
InOrder ==
  \A i, j \in DOMAIN ch.messages : i < j => ch.messages[i] < ch.messages[j]

\* scrollback_partial, "if false, the below member is empty": without a declared
\* hole nothing is missing between the first and the last message shown.
NoSilentGap ==
  ~ch.partial =>
    \A id \in History :
      ch.messages # <<>> /\ ch.messages[1] < id /\ id < Last(ch.messages) => id \in Held(ch)

\* When the connection is up and the queue is handled, a message posted since the
\* oldest one shown is shown, or in the declared hole.
NothingLost ==
  stage = "live" /\ queue = <<>> /\ ch.messages # <<>> =>
    \A id \in History :
      ch.messages[1] < id => id \in Held(ch) \/ (ch.partial /\ (ch.pos = NoId \/ id < ch.pos))

\* From scrollback_pos on everything is there: the hole is right before it, not
\* somewhere after it, so a fetch that asks for what is before it can close it.
HoleIsBeforePos ==
  HoleOpen =>
    \A id \in History : ch.pos <= id /\ id < LastMsgAt(ch) => id \in Held(ch)

\* The hole the user sees is the only one, and a fetch can close it.
HoleIsTrue == TypeOK /\ NoSilentGap /\ NothingLost /\ HoleIsBeforePos

\* Every message is in the end shown, or in the declared hole, or was deleted, or is
\* older than what the cache kept, when the failures end.
EventuallyShown ==
  \A id \in Ids :
    posted >= id ~> \/ id \in Held(ch) \/ id \in deleted
                    \/ ch.partial /\ (ch.pos = NoId \/ id < ch.pos)
                    \/ ch.messages # <<>> /\ id < ch.messages[1]
=============================================================================
