------------------------------- MODULE PblkRing -------------------------------
(* Index arithmetic of the write buffer (pblk-rb.c).  The buffer has            *)
(* NrEntries = 2^k entries; every pointer is kept in 0 .. NrEntries-1 and moved *)
(* by "(x + n) & (nr_entries - 1)", with n at most NrEntries.  On that range    *)
(* the mask subtracts NrEntries at most once, which is how it is written here.  *)
EXTENDS Integers

CONSTANT NrEntries

ASSUME NrEntriesAssumption == NrEntries \in Nat /\ NrEntries >= 2

Pos == 0 .. NrEntries - 1

\* Mutant of Wrap: the boundary is one too far.
WrapLate(x) == IF x > NrEntries THEN x - NrEntries ELSE x

\* pblk_rb_wrap_pos: x & (nr_entries - 1), for x below 2 * NrEntries.
Wrap(x) == IF x >= NrEntries THEN x - NrEntries ELSE x

\* pblk_rb_ring_count, that is CIRC_CNT(head, tail, size).
RingCount(head, tail) == IF head >= tail THEN head - tail
                                         ELSE head - tail + NrEntries

\* pblk_rb_ring_space, that is CIRC_SPACE(head, tail, size): one entry is never
\* used, so that a full ring and an empty one differ.
RingSpace(head, tail) == RingCount(tail, Wrap(head + 1))

\* The k entries that follow position p, p included.
Window(p, k) == {q \in Pos : RingCount(q, p) < k}
===============================================================================
