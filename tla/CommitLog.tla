------------------------------ MODULE CommitLog ------------------------------
(***************************************************************************)
(* The commit log of the MQTT broker (protocol/mqtt/server/log.rs): the    *)
(* messages of one subscription filter in segments that follow each other. *)
(* A position is <<segment, offset>>; offsets run on over segments, and a  *)
(* full log drops its oldest segment, so a position may be gone when it is *)
(* read. Every message counts one towards the size of its segment.         *)
(***************************************************************************)
EXTENDS Integers, SequencesExt

CONSTANTS
    SegmentSize,    \* max_segment_size, in messages
    SegmentCount    \* max_segment_count

ASSUME CommitLogAssumption ==
    /\ SegmentSize \in Nat \ {0}
    /\ SegmentCount \in Nat \ {0}

-----------------------------------------------------------------------------
(* Segment *)

WithOffset(n) == [abs |-> n, data |-> <<>>]
SegNext(s) == s.abs + Len(s.data)

\* Segment::readv: at most n messages of s from offset o on, s being the
\* segment with index i; done says whether the end of s was reached.
SegRead(s, i, o, n) ==
    LET from == o - s.abs
        done == from + n >= Len(s.data)
        to   == IF done THEN Len(s.data) ELSE from + n
    IN  [done |-> done,
         next |-> s.abs + (IF done THEN Len(s.data) ELSE to),
         out  |-> [j \in 1 .. (to - from) |-> [m  |-> s.data[from + j],
                                               at |-> <<i, o + j - 1>>]]]

-----------------------------------------------------------------------------
(* CommitLog *)

EmptyLog == [head |-> 0, tail |-> 0, segs |-> <<WithOffset(0)>>]

ActiveSegment(log) == Last(log.segs)
NextOffset(log) == <<log.tail, SegNext(ActiveSegment(log))>>

\* apply_retention: a full active segment is closed, and the oldest segment
\* goes if there are SegmentCount of them.
ApplyRetention(log) ==
    IF Len(ActiveSegment(log).data) < SegmentSize THEN log
    ELSE LET full == Len(log.segs) >= SegmentCount
             kept == IF full THEN Tail(log.segs) ELSE log.segs
         IN  [head |-> log.head + (IF full THEN 1 ELSE 0),
              tail |-> log.tail + 1,
              segs |-> Append(kept, WithOffset(SegNext(ActiveSegment(log))))]

LogAppend(log, m) ==
    LET kept == ApplyRetention(log)
    IN  [kept EXCEPT !.segs[Len(kept.segs)].data = Append(@, m)]

\* The segment a position is in, once the position has been moved to the
\* oldest message that is left.
Reached(log, pos) ==
    LET front == IF pos[1] < log.head THEN <<log.head, Head(log.segs).abs>> ELSE pos
        abs   == log.segs[front[1] - log.head + 1].abs
    IN  IF abs > front[2] THEN <<front[1], abs>> ELSE front

\* One closed segment of the loop of readv: st holds the position, the
\* messages still wanted and those read, and whether the loop has returned.
ReadClosed(st, seg) ==
    IF st.full THEN st
    ELSE LET r == IF st.pos[2] - seg.abs >= Len(seg.data)
                  THEN [done |-> TRUE, next |-> SegNext(seg), out |-> <<>>]
                  ELSE SegRead(seg, st.pos[1], st.pos[2], st.left)
             left == st.left - Len(r.out)
         IN  [pos  |-> IF r.done THEN <<st.pos[1] + 1, r.next>> ELSE <<st.pos[1], r.next>>,
              left |-> left,
              out  |-> st.out \o r.out,
              full |-> ~r.done \/ left = 0]

\* readv: the messages from pos on, n at most; where reading started and
\* where it goes on; done: there is nothing after them.
ReadV(log, pos, n) ==
    IF pos[1] > log.tail THEN [start |-> pos, end |-> pos, done |-> TRUE, out |-> <<>>]
    ELSE LET start  == Reached(log, pos)
             closed == SubSeq(log.segs, start[1] - log.head + 1, Len(log.segs) - 1)
             loop[i \in 0 .. Len(closed)] ==
                IF i = 0 THEN [pos |-> start, left |-> n, out |-> <<>>, full |-> FALSE]
                ELSE ReadClosed(loop[i - 1], closed[i])
             st     == loop[Len(closed)]
             active == ActiveSegment(log)
             r      == SegRead(active, st.pos[1], st.pos[2], st.left)
         IN  IF st.full
             THEN [start |-> start, end |-> st.pos, done |-> FALSE, out |-> st.out]
             ELSE IF SegNext(active) <= st.pos[2]
             THEN [start |-> start, end |-> st.pos, done |-> TRUE, out |-> st.out]
             ELSE [start |-> start, end |-> <<st.pos[1], r.next>>, done |-> r.done,
                   out |-> st.out \o r.out]

-----------------------------------------------------------------------------
(* What a log stands for: the offset of its oldest message and the messages *)
(* from there on.                                                           *)

LogBase(log) == Head(log.segs).abs
LogMessages(log) == FlattenSeq([i \in 1 .. Len(log.segs) |-> log.segs[i].data])

=============================================================================
