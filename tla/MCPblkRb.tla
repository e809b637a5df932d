------------------------------- MODULE MCPblkRb -------------------------------
EXTENDS PblkRb

CONSTANTS u1, u2, g

Free == [user_max |-> NrEntries, gc_max |-> 0, low |-> FALSE]
Half == [user_max |-> NrEntries \div 2, gc_max |-> NrEntries \div 2, low |-> FALSE]
Stalled == [user_max |-> 0, gc_max |-> NrEntries, low |-> TRUE]

\* Lines were taken since the rates were last computed (pblk_rl_free_lines_dec).
Lagging == [user_max |-> NrEntries, gc_max |-> 0, low |-> TRUE]

RatesFree == {Free}
RatesHalf == {Half}
RatesGc == {Free, Stalled}
RatesAll == {Free, Half, Stalled, Lagging}
===============================================================================
