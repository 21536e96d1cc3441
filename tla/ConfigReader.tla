---------------------------- MODULE ConfigReader ---------------------------
(***************************************************************************)
(* crates/pci/src/config.rs: ConfigSpaceReader and ConfigSpaceSnapshot.    *)
(*                                                                         *)
(* A reader belongs to one device.  It keeps the bytes it has read as a    *)
(* sorted sequence of segments and the ranges it could not read as a list  *)
(* of failures.  fetch walks a cursor over the requested range, skips what *)
(* a segment covers and reads each gap; a block the device refuses is      *)
(* halved until it is no longer than MinReadBlock.                         *)
(*                                                                         *)
(* One step is one call of pci_read_block, so that the device may change   *)
(* (its bytes, or what it is willing to answer) between two blocks.  The   *)
(* recursion of read_range is the work stack.                              *)
(***************************************************************************)
EXTENDS Integers, SequencesExt

CONSTANTS
  U32Max,        \* the largest u32: offset + length must not pass it
  CIntMax,       \* the largest c_int libpci can be handed
  MinReadBlock,  \* MIN_READ_BLOCK: a block this short is not split
  RowLength,     \* the bytes in a row of the hex dump
  Requests,      \* the <<offset, length>> pairs the callers ask for
  MaxGen,        \* bound: how often the device changes its bytes
  MaxCalls,      \* bound: how many calls a reader serves
  Missing        \* as in ConfigCache

ASSUME WidthAssumption ==
  /\ U32Max \in Nat /\ CIntMax \in 0..U32Max /\ MinReadBlock \in Nat \ {0}
  /\ RowLength \in Nat \ {0}
  /\ Requests \subseteq (0..U32Max) \X (0..U32Max)
  /\ MaxGen \in Nat /\ MaxCalls \in Nat

VARIABLES
  segments,      \* snapshot.segments: Seq of [offset, bytes]
  failures,      \* snapshot.failures: Seq of [offset, length]
  call,          \* the call being served: [op, offset, length]
  pc,            \* "idle", "loop" (fetch), "range" (read_range)
  cursor,        \* fetch's cursor
  gapEnd,        \* fetch's gap_end, while pc = "range"
  work,          \* blocks read_range has still to try, first one on top
  failedYet,     \* first_failure is set
  reply,         \* what the last call returned: [verdict, bytes]
  calls,         \* number of calls so far
  gen            \* external: the state the device's bytes are in

snapshot == <<segments, failures>>
frame    == <<call, cursor, gapEnd, work, failedYet>>
vars     == <<snapshot, frame, pc, reply, calls, gen>>

Offset == 0..(U32Max - 1)
Byte   == Offset \X (0..MaxGen)

ASSUME MissingAssumption == Missing \notin Byte

Ranges == [offset: 0..U32Max, length: 0..U32Max]
None   == [op |-> "none", offset |-> 0, length |-> 0]
Reply(verdict, bytes) == [verdict |-> verdict, bytes |-> bytes]
Span(r) == r.offset .. (r.offset + r.length - 1)

(* The bytes of a block: which offset each shows, and since when. *)
Block(r) == [i \in 1..r.length |-> <<r.offset + i - 1, gen>>]

-----------------------------------------------------------------------------
(* Segments *)

SegmentEnd(s) == s.offset + Len(s.bytes)

Covers(s, o) == s.offset <= o /\ o < SegmentEnd(s)

(* The index of the segment covering o, 0 if there is none. *)
SegmentCovering(o) == SelectInSeq(segments, LAMBDA s : Covers(s, o))

(* The start of the first segment past o, as a set: empty if there is none. *)
NextSegmentStart(o) ==
  LET i == SelectInSeq(segments, LAMBDA s : s.offset > o)
  IN IF i = 0 THEN {} ELSE {segments[i].offset}

(* Mutant: segments that touch are not joined. *)
Mut_MergeOverlaps(merged, s) ==
  IF merged = << >> \/ s.offset >= SegmentEnd(Last(merged)) THEN Append(merged, s)
  ELSE [merged EXCEPT ![Len(merged)].bytes =
          @ \o SubSeq(s.bytes, SegmentEnd(Last(merged)) - s.offset + 1, Len(s.bytes))]

(* One turn of the merge loop: s touches the last segment and extends it   *)
(* by the bytes past its end, or is appended.                              *)
MergeSegment(merged, s) ==
  IF merged = << >> \/ s.offset > SegmentEnd(Last(merged))
  THEN Append(merged, s)
  ELSE [merged EXCEPT ![Len(merged)].bytes =
          @ \o SubSeq(s.bytes, SegmentEnd(Last(merged)) - s.offset + 1,
                      Len(s.bytes))]

(* The merge loop over the segments s. *)
Merge(s) ==
  LET merged[n \in 0..Len(s)] ==
        IF n = 0 THEN << >> ELSE MergeSegment(merged[n - 1], s[n])
  IN merged[Len(s)]

(* sort_by_key(offset), which is stable: segment i of the result is s[p[i]]. *)
SortOrder(s) ==
  CHOOSE p \in [DOMAIN s -> DOMAIN s] :
    /\ Range(p) = DOMAIN s
    /\ \A i, j \in DOMAIN s : i < j =>
         \/ s[p[i]].offset < s[p[j]].offset
         \/ s[p[i]].offset = s[p[j]].offset /\ p[i] < p[j]

SortByOffset(s) == LET p == SortOrder(s) IN [i \in DOMAIN s |-> s[p[i]]]

(* Mutant: the segments are not sorted before they are merged. *)
Mut_InsertUnsorted(segs, new) == Merge(Append(segs, new))

InsertSegment(segs, new) == Merge(SortByOffset(Append(segs, new)))

(* Mutant: bytes are taken from the start of the segment. *)
Mut_SnapshotHead(o, n) ==
  LET i == SegmentCovering(o)
  IN IF n = 0 \/ o + n > U32Max \/ i = 0 THEN << >>
     ELSE SubSeq(segments[i].bytes, 1, Min({n, Len(segments[i].bytes)}))

(* ConfigSpaceSnapshot::read: the bytes of the range, collected segment by *)
(* segment, or the empty sequence for its Err.                             *)
SnapshotRead(o, n) ==
  LET end == o + n
      take[c \in o..end] ==
        LET s == segments[SegmentCovering(c)]
            stop == Min({SegmentEnd(s), end})
        IN IF c = end THEN << >>
           ELSE SubSeq(s.bytes, c - s.offset + 1, stop - s.offset) \o take[stop]
  IN IF n = 0 \/ end > U32Max \/ \E c \in o..(end - 1) : SegmentCovering(c) = 0
     THEN << >>
     ELSE take[o]

(* Mutant: the rows of each segment are counted from zero. *)
Mut_RowOffset(s, row) == row * RowLength

RowOffset(s, row) == s.offset + row * RowLength

(* render_config_space_text: each segment in rows of its own, the last one  *)
(* with what is left.                                                       *)
DumpSegment(s) ==
  [i \in 1..((Len(s.bytes) + RowLength - 1) \div RowLength) |->
     [offset |-> RowOffset(s, i - 1),
      bytes  |-> SubSeq(s.bytes, (i - 1) * RowLength + 1,
                        Min({i * RowLength, Len(s.bytes)}))]]

Dump == FlattenSeq([i \in DOMAIN segments |-> DumpSegment(segments[i])])

-----------------------------------------------------------------------------
(* fetch and read *)

Init ==
  /\ segments = << >> /\ failures = << >>
  /\ call = None /\ pc = "idle"
  /\ cursor = 0 /\ gapEnd = 0 /\ work = << >> /\ failedYet = FALSE
  /\ reply = Reply("none", << >>) /\ calls = 0 /\ gen = 0

RecordFailure(r) == failures' = Append(failures, r)

(* fetch and read on an empty range, or one whose end overflows a u32. *)
RefuseCall(op, o, n) ==
  /\ pc = "idle" /\ calls < MaxCalls
  /\ n = 0 \/ o + n > U32Max
  /\ RecordFailure([offset |-> o, length |-> n])
  /\ call' = [op |-> op, offset |-> o, length |-> n]
  /\ calls' = calls + 1
  /\ reply' = Reply("err", << >>)
  /\ UNCHANGED <<segments, pc, cursor, gapEnd, work, failedYet, gen>>

(* Mutant: offset + length is not checked for overflow. *)
Mut_StartUnchecked(op, o, n) ==
  /\ pc = "idle" /\ calls < MaxCalls
  /\ n # 0
  /\ call' = [op |-> op, offset |-> o, length |-> n]
  /\ calls' = calls + 1 /\ cursor' = o /\ failedYet' = FALSE
  /\ pc' = "loop" /\ reply' = Reply("none", << >>)
  /\ UNCHANGED <<snapshot, gapEnd, work, gen>>

StartCall(op, o, n) ==
  /\ pc = "idle" /\ calls < MaxCalls
  /\ n # 0 /\ o + n <= U32Max
  /\ call' = [op |-> op, offset |-> o, length |-> n]
  /\ calls' = calls + 1
  /\ cursor' = o
  /\ failedYet' = FALSE
  /\ pc' = "loop"
  /\ reply' = Reply("none", << >>)
  /\ UNCHANGED <<snapshot, gapEnd, work, gen>>

End == call.offset + call.length

(* Mutant: the cursor goes to the start of the segment. *)
Mut_SkipBack ==
  /\ pc = "loop" /\ cursor < End
  /\ SegmentCovering(cursor) # 0
  /\ cursor' = segments[SegmentCovering(cursor)].offset
  /\ UNCHANGED <<snapshot, call, gapEnd, work, failedYet, pc, reply, calls, gen>>

(* The cursor stands on a cached byte: jump to the end of its segment. *)
SkipCovered ==
  /\ pc = "loop" /\ cursor < End
  /\ SegmentCovering(cursor) # 0
  /\ cursor' = Min({SegmentEnd(segments[SegmentCovering(cursor)]), End})
  /\ UNCHANGED <<snapshot, call, gapEnd, work, failedYet, pc, reply, calls, gen>>

(* It stands on a gap: read up to the next segment or the end. *)
OpenGap ==
  /\ pc = "loop" /\ cursor < End
  /\ SegmentCovering(cursor) = 0
  /\ gapEnd' = Min(NextSegmentStart(cursor) \cup {End})
  /\ work' = <<[offset |-> cursor, length |-> gapEnd' - cursor]>>
  /\ pc' = "range"
  /\ UNCHANGED <<snapshot, call, cursor, failedYet, reply, calls, gen>>

(* try_read_block: pci_read_block returns 1. *)
ReadBlock ==
  /\ pc = "range" /\ work # << >>
  /\ Head(work).offset <= CIntMax /\ Head(work).length <= CIntMax
  /\ segments' = InsertSegment(segments, [offset |-> Head(work).offset,
                                          bytes  |-> Block(Head(work))])
  /\ work' = Tail(work)
  /\ UNCHANGED <<failures, call, cursor, gapEnd, failedYet, pc, reply, calls, gen>>

(* Mutant: both halves get half the length, rounded down. *)
Mut_SplitEvenly ==
  /\ pc = "range" /\ work # << >>
  /\ Head(work).length > MinReadBlock
  /\ LET o == Head(work).offset
         left == Head(work).length \div 2
     IN work' = <<[offset |-> o, length |-> left],
                  [offset |-> o + left, length |-> left]>> \o Tail(work)
  /\ UNCHANGED <<snapshot, call, cursor, gapEnd, failedYet, pc, reply, calls, gen>>

(* It does not, or the range does not fit a c_int: try the two halves. *)
SplitBlock ==
  /\ pc = "range" /\ work # << >>
  /\ Head(work).length > MinReadBlock
  /\ LET o == Head(work).offset
         n == Head(work).length
         left == n \div 2
     IN work' = <<[offset |-> o, length |-> left],
                  [offset |-> o + left, length |-> n - left]>> \o Tail(work)
  /\ UNCHANGED <<snapshot, call, cursor, gapEnd, failedYet, pc, reply, calls, gen>>

(* Mutant: a refused block is given up without splitting it. *)
Mut_GiveUpAnyBlock ==
  /\ pc = "range" /\ work # << >>
  /\ RecordFailure(Head(work)) /\ failedYet' = TRUE /\ work' = Tail(work)
  /\ UNCHANGED <<segments, call, cursor, gapEnd, pc, reply, calls, gen>>

(* A block too short to split is given up. *)
GiveUpBlock ==
  /\ pc = "range" /\ work # << >>
  /\ Head(work).length <= MinReadBlock
  /\ RecordFailure(Head(work))
  /\ failedYet' = TRUE
  /\ work' = Tail(work)
  /\ UNCHANGED <<segments, call, cursor, gapEnd, pc, reply, calls, gen>>

CloseGap ==
  /\ pc = "range" /\ work = << >>
  /\ cursor' = gapEnd
  /\ pc' = "loop"
  /\ UNCHANGED <<snapshot, call, gapEnd, work, failedYet, reply, calls, gen>>

(* The loop is over.  read propagates fetch's error, or asks the snapshot. *)
Return ==
  /\ pc = "loop" /\ cursor = End
  /\ LET bytes == SnapshotRead(call.offset, call.length)
     IN reply' = IF failedYet \/ (call.op = "read" /\ bytes = << >>)
                 THEN Reply("err", << >>)
                 ELSE Reply("ok", IF call.op = "read" THEN bytes ELSE << >>)
  /\ pc' = "idle"
  /\ UNCHANGED <<snapshot, frame, calls, gen>>

(* External: the device's bytes change under the reader. *)
DeviceChanges ==
  /\ gen < MaxGen
  /\ gen' = gen + 1
  /\ UNCHANGED <<snapshot, frame, pc, reply, calls>>

ReaderStep ==
  \/ SkipCovered \/ OpenGap
  \/ ReadBlock \/ SplitBlock \/ GiveUpBlock
  \/ CloseGap \/ Return

Next ==
  \/ \E op \in {"fetch", "read"}, r \in Requests :
       RefuseCall(op, r[1], r[2]) \/ StartCall(op, r[1], r[2])
  \/ ReaderStep
  \/ DeviceChanges

(* A call runs to its end: the code does not block or yield between blocks. *)
Spec == Init /\ [][Next]_vars /\ WF_vars(ReaderStep)

-----------------------------------------------------------------------------
(* What the cache holds, seen through the segments *)

Refused(c) == c.length = 0 \/ c.offset + c.length > U32Max

CacheView ==
  [o \in Offset |->
     LET i == SegmentCovering(o)
     IN IF i = 0 THEN Missing ELSE segments[i].bytes[o - segments[i].offset + 1]]

(* The offsets the current fetch has still to visit. *)
Remaining ==
  CASE pc = "idle"  -> {}
    [] pc = "loop"  -> cursor..(End - 1)
    [] pc = "range" -> (UNION {Span(work[i]) : i \in DOMAIN work})
                         \cup (gapEnd..(End - 1))

(* Offsets covered by the failures of well-formed ranges. *)
Lost == UNION {Span(f) : f \in {g \in Range(failures) : ~Refused(g)}}

Cache == INSTANCE ConfigCache WITH
  Offset   <- Offset,
  Byte     <- Byte,
  Contents <- [o \in Offset |-> {o} \X (0..MaxGen)],
  cache    <- CacheView,
  failed   <- Lost,
  wanted   <- IF Refused(call) THEN {} ELSE Span(call),
  pending  <- {o \in Remaining : CacheView[o] = Missing},
  status   <- CASE calls = 0   -> "idle"
                [] pc # "idle" -> "busy"
                [] OTHER       -> reply.verdict

(* The reader keeps ConfigCache's promise: segments, cursor and splitting   *)
(* settle each byte of a fetch exactly once, in place, and the Result that  *)
(* fetch and read return is the verdict on those bytes.                     *)
RefinesCache == Cache!Init /\ [][Cache!Next]_(Cache!vars)

-----------------------------------------------------------------------------

Segment == [offset: 0..U32Max, bytes: Seq(Byte)]

(* The variables have the types their comments give them.                   *)
TypeOK ==
  /\ segments \in Seq(Segment)
  /\ failures \in Seq(Ranges)
  /\ call \in [op: {"none", "fetch", "read"}, offset: 0..U32Max, length: 0..U32Max]
  /\ pc \in {"idle", "loop", "range"}
  /\ cursor \in 0..U32Max /\ gapEnd \in 0..U32Max
  /\ work \in Seq(Ranges)
  /\ failedYet \in BOOLEAN
  /\ reply \in [verdict: {"none", "ok", "err"}, bytes: Seq(Byte)]
  /\ calls \in 0..MaxCalls /\ gen \in 0..MaxGen

(* insert_segment keeps the segments sorted, non-empty and with a gap       *)
(* between any two, and none passes the end of a u32 (segment_end's         *)
(* expect): segment_covering and next_segment_start take the first match    *)
(* and rely on it.                                                          *)
SegmentsCanonical ==
  /\ \A i \in DOMAIN segments :
       segments[i].bytes # << >> /\ SegmentEnd(segments[i]) <= U32Max
  /\ \A i, j \in DOMAIN segments :
       i < j => SegmentEnd(segments[i]) < segments[j].offset

(* The blocks read_range has still to try lie one behind the other, end     *)
(* where the gap ends and touch no cached byte: no byte is read from the    *)
(* device twice and none of the gap is forgotten by a split.                *)
WorkTilesGap ==
  pc = "range" =>
    /\ \A i \in 1..(Len(work) - 1) :
         work[i].offset + work[i].length = work[i + 1].offset
    /\ work # << >> => Last(work).offset + Last(work).length = gapEnd
    /\ \A i \in DOMAIN work :
         work[i].length # 0 /\ \A o \in Span(work[i]) : SegmentCovering(o) = 0

(* read after a successful fetch never misses (its second ? is dead code)   *)
(* and returns the cached bytes in the order of their offsets.              *)
ReadReturnsCache ==
  pc = "idle" /\ call.op = "read" /\ ~Refused(call) =>
    /\ reply.verdict = "err" <=> failedYet
    /\ reply.verdict = "ok" =>
         reply.bytes = [i \in 1..call.length |-> CacheView[call.offset + i - 1]]

(* Session::read_config serves one fetch and hands the snapshot out, its    *)
(* Result ignored: the segments and the failures must then share out the    *)
(* requested range without an overlap, and a refused block may cost its     *)
(* neighbours no more than MinReadBlock bytes.                              *)
FirstFetchPartitions ==
  pc = "idle" /\ calls = 1 /\ ~Refused(call) =>
    /\ \A o \in Span(call) : CacheView[o] # Missing <=> o \notin Lost
    /\ \A o \in Offset \ Span(call) : CacheView[o] = Missing /\ o \notin Lost
    /\ \A i, j \in DOMAIN failures :
         i # j => Span(failures[i]) \cap Span(failures[j]) = {}
    /\ \A i \in DOMAIN failures : failures[i].length <= MinReadBlock

(* The hex dump of the snapshot has each cached byte once, in the row and    *)
(* the column of its offset, and no other, and its rows are in order,       *)
(* wherever the blocks the device has refused cut the segments.             *)
DumpShowsCache ==
  pc = "idle" =>
    /\ \A i, j \in DOMAIN Dump : i < j =>
         Dump[i].offset + Len(Dump[i].bytes) <= Dump[j].offset
    /\ \A i \in DOMAIN Dump : \A column \in DOMAIN Dump[i].bytes :
         Dump[i].bytes[column] = CacheView[Dump[i].offset + column - 1]
    /\ {o \in Offset : CacheView[o] # Missing} =
         UNION {Dump[i].offset..(Dump[i].offset + Len(Dump[i].bytes) - 1) :
                  i \in DOMAIN Dump}

(* Every fetch comes to an end: the cursor gets past every segment and      *)
(* every gap, and the splitting stops, whatever the device refuses.         *)
EveryCallReturns == pc # "idle" ~> pc = "idle"
=============================================================================
