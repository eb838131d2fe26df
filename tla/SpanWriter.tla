------------------------------ MODULE SpanWriter ------------------------------
(***************************************************************************)
(* The streaming loop of write_to_shifted (src/serialize.rs): the changed  *)
(* spans in the order of their offsets, the gaps between them filled from  *)
(* the shifted input, front to back and without seeking.  Module Serialize *)
(* states the file this must produce.                                      *)
(***************************************************************************)
EXTENDS Serialize

CONSTANTS
  Cell,       \* the cells a file may hold
  Original,   \* the input file
  Shift,      \* how far up the input's cells move
  Size,       \* the length of the output (total)
  SpanLists   \* what owned_spans may return, sorted by offset (sort_by_key)

Sorted(list) ==
  \A i, j \in DOMAIN list : i < j => list[i].at <= list[j].at

ASSUME SpanWriterAssumption ==
  /\ Zero \in Cell
  /\ Original \in Seq(Cell)
  /\ Shift \in Nat /\ Size \in Nat
  /\ \A list \in SpanLists :
       /\ list \in Seq([at : Nat, cells : Seq(Cell)])
       /\ \A i \in DOMAIN list : Len(list[i].cells) > 0
       /\ Sorted(list)

VARIABLES
  spans,     \* the spans of this file
  next,      \* the index of the span to write next
  cur,       \* the offset reached
  out,       \* what has been written
  status     \* "writing", "done" or the error

wvars == <<spans, next, cur, out, status>>

-----------------------------------------------------------------------------
Zeros(n) == [i \in 1..n |-> Zero]
Least(a, b) == IF a <= b THEN a ELSE b
Monus(a, b) == IF a >= b THEN a - b ELSE 0     \* saturating_sub

(* fill: [at, at + len) of the shifted input.                              *)
Lead(at, len) == Least(Monus(Shift, at), len)
(* Mutant: the input is read where the output is written.                  *)
StartUnmoved(at, len) == Least(at + Lead(at, len), Len(Original))

Start(at, len) == Least(Monus(at + Lead(at, len), Shift), Len(Original))
Avail(at, len) == Least(Len(Original) - Start(at, len), len - Lead(at, len))
Fill(at, len) ==
  Zeros(Lead(at, len))
    \o SubSeq(Original, Start(at, len) + 1, Start(at, len) + Avail(at, len))
    \o Zeros(len - Lead(at, len) - Avail(at, len))

SpanEnd(s) == s.at + Len(s.cells)

-----------------------------------------------------------------------------
Init ==
  /\ spans \in SpanLists
  /\ next = 1 /\ cur = 0 /\ out = <<>> /\ status = "writing"

Writing == status = "writing" /\ next <= Len(spans)

(* Mutant: the end of the output is not checked.                           *)
PutSpanPastEnd ==
  /\ Writing /\ spans[next].at >= cur
  /\ out' = (out \o Fill(cur, spans[next].at - cur)) \o spans[next].cells
  /\ cur' = SpanEnd(spans[next])
  /\ next' = next + 1
  /\ UNCHANGED <<spans, status>>

PutSpan ==
  /\ Writing /\ spans[next].at >= cur /\ SpanEnd(spans[next]) <= Size
  /\ out' = (out \o Fill(cur, spans[next].at - cur)) \o spans[next].cells
  /\ cur' = SpanEnd(spans[next])
  /\ next' = next + 1
  /\ UNCHANGED <<spans, status>>

(* Mutant: a span that starts where the last one ends is an overlap.       *)
RejectSpanTouching ==
  /\ Writing
  /\ status' = IF spans[next].at <= cur THEN "overlap" ELSE "past_end"
  /\ spans[next].at <= cur \/ SpanEnd(spans[next]) > Size
  /\ UNCHANGED <<spans, next, cur, out>>

RejectSpan ==
  /\ Writing
  /\ status' = IF spans[next].at < cur THEN "overlap" ELSE "past_end"
  /\ spans[next].at < cur \/ SpanEnd(spans[next]) > Size
  /\ UNCHANGED <<spans, next, cur, out>>

PutTail ==
  /\ status = "writing" /\ next > Len(spans)
  /\ out' = IF Size > cur THEN out \o Fill(cur, Size - cur) ELSE out
  /\ status' = "done"
  /\ UNCHANGED <<spans, next, cur>>

(* write_all fails: the disk is full.                                      *)
IoError ==
  /\ status = "writing"
  /\ status' = "io"
  /\ UNCHANGED <<spans, next, cur, out>>

Next == PutSpan \/ RejectSpan \/ PutTail \/ IoError

Spec == Init /\ [][Next]_wvars

-----------------------------------------------------------------------------
TypeOK ==
  /\ spans \in SpanLists
  /\ next \in 1 .. Len(spans) + 1
  /\ cur \in 0..Size
  /\ out \in Seq(Cell)
  /\ status \in {"writing", "done", "overlap", "past_end", "io"}

(* The single pass writes every cell of the file it was asked for: changed *)
(* spans where the layout put them, and around them the input, moved up,   *)
(* with zeros where it has nothing (write_to_shifted).                     *)
Faithful ==
  status = "done" =>
    /\ Len(out) = Size
    /\ \A o \in 0 .. Size - 1 : out[o + 1] = CellAt(spans, Original, Shift, o)

(* "Overlapping spans signal an inconsistent layout and are rejected"      *)
(* (module doc of serialize.rs): comparing each span with the end of the   *)
(* one before finds every overlap, and nothing else is called one.         *)
OverlapDetected ==
  /\ status = "done" => ~Overlap(spans) /\ ~PastEnd(spans, Size)
  /\ status = "overlap" => Overlap(spans)
  /\ status = "past_end" => PastEnd(spans, Size)
=============================================================================
