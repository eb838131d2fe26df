------------------------------- MODULE Serialize -------------------------------
(***************************************************************************)
(* src/serialize.rs: the output file as the input's cells, moved up by     *)
(* shift, with the spans that differ from them laid on top.  The streaming *)
(* loop of write_to_shifted is module SpanWriter; here is its result.      *)
(***************************************************************************)
EXTENDS ElfImage

(* What the gap copy writes at offset o: the shifted input, zero below     *)
(* shift and past the input's end.                                         *)
GapCell(original, shift, o) ==
  IF o >= shift /\ o - shift < Len(original) THEN original[o - shift + 1] ELSE Zero

(* Mutant: the counts in the header are the input's.                       *)
AllSpansStale(img) ==
  << [at |-> 0, cells |-> <<img.ehdr>>],
     [at |-> img.ehdr.phoff, cells |-> img.phdrs],
     [at |-> img.ehdr.shoff, cells |-> img.shdrs] >>
    \o [i \in DOMAIN img.shdrs |-> [at |-> img.shdrs[i].offset, cells |-> img.data[i]]]

(* The tables and sections in the order owned_spans pushes them.           *)
AllSpans(img) ==
  LET ehdr == [img.ehdr EXCEPT !.phnum = Len(img.phdrs), !.shnum = Len(img.shdrs)]
      Cells(i) == IF img.shdrs[i].type = "NOBITS" THEN <<>> ELSE img.data[i]
      sections == Tuple([i \in DOMAIN img.shdrs |->
                           [at |-> img.shdrs[i].offset, cells |-> Cells(i)]])
  IN << [at |-> 0, cells |-> <<ehdr>>],
        [at |-> img.ehdr.phoff, cells |-> img.phdrs],
        [at |-> img.ehdr.shoff, cells |-> img.shdrs] >> \o sections

(* owned_spans: empty spans and those the gap copy reproduces are dropped; *)
(* the others keep their position among all spans as their index.          *)
Unchanged(span, original, shift) ==
  /\ span.at >= shift
  /\ span.at - shift + Len(span.cells) <= Len(original)
  /\ Slice(original, span.at - shift, Len(span.cells)) = span.cells

Owned(all, original, shift) ==
  LET owned == {i \in DOMAIN all : all[i].cells # <<>> /\ ~Unchanged(all[i], original, shift)}
  IN [i \in owned |-> all[i]]
OwnedSpans(img, original, shift) == Owned(AllSpans(img), original, shift)

SizesSynced(img) ==
  \A i \in DOMAIN img.shdrs :
    img.shdrs[i].type # "NOBITS" => Len(img.data[i]) = img.shdrs[i].size

Overlap(spans) ==
  \E i, j \in DOMAIN spans :
    /\ i # j
    /\ spans[i].at <= spans[j].at
    /\ spans[j].at < spans[i].at + Len(spans[i].cells)

PastEnd(spans, total) == \E i \in DOMAIN spans : spans[i].at + Len(spans[i].cells) > total

(* The cell at offset o of a file without overlapping spans.               *)
SpansAt(spans, o) ==
  {i \in DOMAIN spans : spans[i].at <= o /\ o < spans[i].at + Len(spans[i].cells)}
CellAt(spans, original, shift, o) ==
  IF SpansAt(spans, o) = {} THEN GapCell(original, shift, o)
  ELSE LET s == spans[CHOOSE i \in SpansAt(spans, o) : TRUE]
       IN s.cells[o - s.at + 1]

(* write_to_shifted; write_to is the case shift = 0.                       *)
WriteShifted(img, original, shift, total) ==
  LET spans == OwnedSpans(img, original, shift)
  IN IF ~SizesSynced(img) THEN [err |-> "size", file |-> <<>>]
     ELSE IF Overlap(spans) THEN [err |-> "overlap", file |-> <<>>]
     ELSE IF PastEnd(spans, total) THEN [err |-> "past_end", file |-> <<>>]
     ELSE [err |-> "none",
           file |-> Tuple([p \in 1..total |-> CellAt(spans, original, shift, p - 1)])]
=============================================================================
