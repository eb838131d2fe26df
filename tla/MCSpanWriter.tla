----------------------------- MODULE MCSpanWriter -----------------------------
(***************************************************************************)
(* Small instances of SpanWriter: every sorted list of at most three spans *)
(* of one or two cells with offsets up to MaxAt.                           *)
(***************************************************************************)
EXTENDS SpanWriter

CONSTANTS MaxAt, MaxSpans

MCWidth == [s \in {"s"} |-> 1]
MCOriginal == <<Byte("in", 1), Byte("in", 2)>>
Patch(n, i) == Tuple([j \in 1..n |-> Byte("span", 10 * i + j)])
MCCell == {Zero} \cup Range(MCOriginal)
            \cup {Byte("span", 10 * i + j) : i \in 1..MaxSpans, j \in 1..2}

Shapes == UNION {[1..n -> [at : 0..MaxAt, n : 1..2]] : n \in 0..MaxSpans}
MCSpanLists ==
  {Tuple([i \in DOMAIN h |-> [at |-> h[i].at, cells |-> Patch(h[i].n, i)]]) :
     h \in {g \in Shapes : Sorted(g)}}
=============================================================================
