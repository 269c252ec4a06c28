----------------------------- MODULE ChatStore -----------------------------
(***************************************************************************)
(* The messages chatbase_impl keeps of a channel (chatbase.h), as          *)
(* operators on a record                                                   *)
(*   messages   message ids, in the order they are shown                   *)
(*   partial    scrollback_partial: a hole is known, right before ...      *)
(*   pos        scrollback_pos: this id, or NoId for the end               *)
(* A message is its id, which like Slack's is the time it was posted.      *)
(***************************************************************************)
EXTENDS Naturals, SequencesExt

CONSTANT Margin   \* the 30 seconds of scrollback_segment, in units of ids

NoId == 0

Held(ch) == Range(ch.messages)

LastMsgAt(ch) == IF ch.messages = <<>> THEN NoId ELSE Last(ch.messages)

\* Mutant of AppendMessage: the dedup against scrollback is left out.
AppendMessageAlways(ch, m) ==
  [ch EXCEPT !.messages = Append(@, m),
             !.pos = IF ch.partial /\ @ = NoId THEN m ELSE @]

\* append_message: a message that is already there is edited in place.
AppendMessage(ch, m) ==
  IF m \in Held(ch) THEN ch
  ELSE [ch EXCEPT !.messages = Append(@, m),
                  !.pos = IF ch.partial /\ @ = NoId THEN m ELSE @]

DeleteMessage(ch, m) == [ch EXCEPT !.messages = SelectSeq(@, LAMBDA x : x # m)]

\* insert_at_idx: how many messages are before the hole (all if there is none).
BeforeHole(ch) ==
  IF ch.pos \in Held(ch)
  THEN (CHOOSE i \in DOMAIN ch.messages : ch.messages[i] = ch.pos) - 1
  ELSE Len(ch.messages)

\* The first of ms is well before the last message before the hole.
ReachesOver(ch, ms) ==
  LET i == BeforeHole(ch) IN i > 0 /\ ms[1] + Margin < ch.messages[i]

\* Mutant of Segment: any page ends the hole.
SegmentEndsHole(ch, ms) ==
  LET i == BeforeHole(ch)
      new == SelectSeq(ms, LAMBDA m : m \notin Held(ch)) IN
  [messages |-> SubSeq(ch.messages, 1, i) \o new
                  \o SubSeq(ch.messages, i + 1, Len(ch.messages)),
   partial |-> FALSE,
   pos |-> ms[1]]

\* scrollback_segment: what is new of ms goes into the hole; what is not shows that
\* the hole ends here.
Segment(ch, ms) ==
  LET i == BeforeHole(ch)
      new == SelectSeq(ms, LAMBDA m : m \notin Held(ch)) IN
  [messages |-> SubSeq(ch.messages, 1, i) \o new
                  \o SubSeq(ch.messages, i + 1, Len(ch.messages)),
   partial |-> ch.partial /\ ~ReachesOver(ch, ms) /\ Range(ms) \cap Held(ch) = {},
   pos |-> ms[1]]

\* The caller ignores an empty page.
Page(ch, ms) == IF ms = <<>> THEN ch ELSE Segment(ch, ms)
=============================================================================
