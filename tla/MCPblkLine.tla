------------------------------ MODULE MCPblkLine ------------------------------
EXTENDS PblkLine

\* Which line, and which metadata buffer, is which never matters: a line is known by
\* the places that refer to it, and of the others, as of the buffers (SlotsExact), it
\* matters how many there are in each state.
Roles ==
  LET refs(r) == <<data_line[r], data_next[r], prev[r],
                   IF req[r].eppa = None THEN None ELSE req[r].eppa[1]>> \o emeta_list[r]
      user == CHOOSE r \in Rings : r # GcRing
      all == refs(GcRing) \o refs(user)
      fields(l) == <<[line[l] EXCEPT !.slot = (@ # None)], l \in free_list>>
      rest == {l \in Lines : \A i \in DOMAIN all : all[i] # l}
  IN  <<[i \in DOMAIN all |->
           IF all[i] = None THEN None
           ELSE <<{j \in DOMAIN all : all[j] = all[i]}, fields(all[i])>>],
        Len(emeta_list[GcRing]),
        {<<fields(l), Cardinality({k \in rest : fields(k) = fields(l)})>> : l \in rest},
        free_blocks, puts, state, backlog, pc,
        [r \in Rings |-> [req[r] EXCEPT !.eppa = IF @ = None THEN None ELSE @[2]]]>>

\* What follows a shortage is explored as long as no line is free.
Shortage == state = "RUNNING" \/ free_list = {}
===============================================================================
