------------------------------- MODULE MCPblkGc -------------------------------
EXTENDS PblkGc, TLC

Symm == Permutations(Lbas) \cup Permutations(Lines)

\* Slots matter relative to the oldest entry of their ring only, of a read that has
\* ended only whether it was right, and nobody but reads looks at an invalid sector.
Rotated ==
  LET Rel(a) == IF InCache(a) THEN <<a[2], Index(a[2], a[3])>> ELSE a
      ToRead(l, s) == (Reading /\ rd.addr = DevAddr(l, s)) \/ (prep.line = l /\ s \in prep.left)
                              \/ \E q \in reads : q.line = l /\ s \in q.secs
      Seen(l) == [line[l] EXCEPT !.data = [s \in DOMAIN @ |->
                    IF s \in line[l].invalid /\ ~ToRead(l, s) THEN Copy(NoLba, FALSE) ELSE @[s]]]
  IN  <<[x \in Lbas |-> Rel(map[x])], [r \in Rings |-> ring[r].q], data_line,
        IF Reading THEN [rd EXCEPT !.addr = Rel(@)] ELSE ReadsRegular,
        [l \in Lines |-> Seen(l)], thr, gcvars, faults, slips>>

\* What follows one of the known races is not explored.
NoSlips == slips = {}
===============================================================================
