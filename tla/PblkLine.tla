------------------------------- MODULE PblkLine -------------------------------
(* The life of a line: how the writer threads of the rings take lines from the  *)
(* free list, erase them, fill them, write their metadata and hand them to GC.  *)
(* Each ring has a line it fills (data_line) and the one it will fill next      *)
(* (data_next), whose blocks it erases while it writes; the rings share the free *)
(* list and the PBLK_DATA_LINES slots for metadata buffers.                     *)
EXTENDS Integers, FiniteSets, Sequences

CONSTANTS
  Rings,      \* the write buffers, each with its writer thread
  GcRing,     \* the ring GC writes to (GC_NRB)
  Lines,      \* the lines of the device
  Blks,       \* blocks in a line (blk_per_line), one per LUN
  Pages,      \* pages (min_write_pgs sectors) of a line that hold data
  MaxPages,   \* the most pages in one request
  Metas,      \* pages of emeta at the end of a line, each written by one request
  Slots,      \* PBLK_DATA_LINES
  Cap,        \* pages a ring holds
  MaxPuts,    \* bound on the threads inside pblk_line_put
  MaxBad,     \* bound on the lines that turn out to be bad
  None

\* The first page of a line is smeta; a LUN holds every Blks-th page.  Cap <= Pages:
\* the data in a ring fits into a line.
ASSUME LineAssumption ==
  /\ GcRing \in Rings /\ None \notin Lines
  /\ Blks \in Nat \ {0, 1} /\ Pages \in Nat \ {0} /\ Metas \in Nat \ {0}
  /\ MaxPages \in 1 .. Pages /\ Cap \in 0 .. Pages
  /\ IsFiniteSet(Rings) /\ IsFiniteSet(Lines)
  /\ Slots \in Nat /\ Cardinality(Rings) <= Slots /\ {MaxPuts, MaxBad} \subseteq Nat

VARIABLES
  line,        \* struct pblk_line: the fields the writers use
  data_line,   \* l_mg->data_line[nrb]
  data_next,   \* l_mg->data_next[nrb]
  free_list,   \* l_mg->free_list; which of its lines comes first is left open
  emeta_list,  \* l_mg->emeta_list[nrb]
  meta_bitmap, \* l_mg->meta_bitmap
  free_blocks, \* rl->free_blocks, in lines
  puts,        \* lines put on the free list and not yet counted in free_blocks
  state,       \* pblk->state
  backlog,     \* pages left in a ring under a space limit; -1: rb_space is not 0
  pc,          \* where the writer thread is
  prev,        \* prev_line of pblk_map_page_data
  req          \* the request the writer thread is building

lists == <<free_list, free_blocks, puts>>
writer == <<pc, prev, req>>
vars == <<line, data_line, data_next, lists, emeta_list, meta_bitmap, state, backlog,
          writer>>

B == 0 .. Blks - 1

\* The block a page of data, or of emeta, is on.
BlkOf(page) == (page + 1) % Blks
MetaBlk(l) == (Pages + line[l].mem + 1) % Blks

\* What pblk_line_prepare makes of a free line.  ebm is erase_bitmap, the blocks
\* whose erase was scheduled; left_eblks counts the others.  left_seblks counts the
\* blocks not in done.  left_msecs is still 0: fill counts up to Pages.
Prepared ==
  [state |-> "OPEN", fill |-> Pages, ebm |-> {}, done |-> {}, mem |-> 0, sync |-> 0,
   slot |-> None]

Eblks(l) == B \ line[l].ebm
Seblks(l) == B \ line[l].done

NoReq == [left |-> 0, erase |-> FALSE, eppa |-> None, blks |-> {}]

\* Erases on their way to the device; the one a request reserved is not, yet.
InFlight(l) ==
  {b \in line[l].ebm \ line[l].done : \A r \in Rings : req[r].eppa # <<l, b>>}

\* The rings after pblk_line_get_first_data, with data lines d, next lines n and the
\* slots s: the data line is erased and has its metadata, the next line is prepared.
FirstData(d, n, s) ==
  LET idle == {l \in Lines : \A r \in Rings : l # d[r] /\ l # n[r]}
  IN  /\ data_line = d /\ data_next = n
      /\ line = [l \in Lines |->
           CASE \E r \in Rings : d[r] = l ->
                  [Prepared EXCEPT !.fill = 0, !.ebm = B, !.done = B,
                                   !.slot = s[CHOOSE r \in Rings : d[r] = l]]
             [] \E r \in Rings : n[r] = l -> Prepared
             [] OTHER -> [Prepared EXCEPT !.state = "FREE"]]
      /\ free_list = idle /\ free_blocks = Cardinality(idle)
      /\ meta_bitmap = {s[r] : r \in Rings}

Init ==
  /\ \E d, n \in [Rings -> Lines], s \in [Rings -> 1 .. Cardinality(Rings)] :
       /\ \A q, r \in Rings :
            d[q] # n[r] /\ (q # r => d[q] # d[r] /\ n[q] # n[r] /\ s[q] # s[r])
       /\ FirstData(d, n, s)
  /\ puts = 0 /\ state = "RUNNING"
  /\ emeta_list = [r \in Rings |-> <<>>]
  /\ backlog = [r \in Rings |-> -1]
  /\ pc = [r \in Rings |-> "idle"]
  /\ prev = [r \in Rings |-> None]
  /\ req = [r \in Rings |-> NoReq]
-------------------------------------------------------------------------------
(* Building a request: pblk_submit_write, pblk_setup_w_rq, pblk_map_page_data.   *)
(* What a writer does to its own lines between two waits is one step.           *)

\* A ring other than GC's waits while no block is free (a line has more blocks than
\* there are writers); one under a space limit has what it held when the limit was set.
MaySubmit(r, n) ==
  /\ pc[r] = "idle"
  /\ r = GcRing \/ (free_blocks > 0 /\ (backlog[r] = -1 \/ n <= backlog[r]))
  /\ backlog' = [backlog EXCEPT ![r] = IF r # GcRing /\ @ # -1 THEN @ - n ELSE @]

NewReq(r, n) ==
  [NoReq EXCEPT !.left = n, !.erase = data_next[r] # None /\ Eblks(data_next[r]) # {}]

\* Request q after pages f .. f + k - 1 of the line are mapped to it.  The first page
\* on a LUN whose block of the next line is to be erased makes pblk_map_erase_rq
\* schedule that erase; one block per request.
Mapped(r, q, f, k) ==
  LET hits == {i \in f .. f + k - 1 : BlkOf(i) \in Eblks(data_next[r])}
      first == {i \in hits : \A j \in hits : i <= j}
      got == q.erase /\ data_next[r] # None /\ first # {}
  IN  [left  |-> q.left - k,
       erase |-> q.erase /\ data_next[r] # None /\ ~got,
       eppa  |-> IF got THEN <<data_next[r], BlkOf(CHOOSE i \in first : TRUE)>> ELSE q.eppa,
       blks  |-> q.blks \cup {BlkOf(i) : i \in f .. f + k - 1}]

\* The lines with the erase that q schedules marked in erase_bitmap.
Marked(ln, q) ==
  IF q.eppa = None THEN ln ELSE [ln EXCEPT ![q.eppa[1]].ebm = @ \cup {q.eppa[2]}]

\* Mutant of ValidMetaPpa: it also asks for the LUN of the metadata itself.
ValidMetaPpaBoth(q, l) == {MetaBlk(l), (MetaBlk(l) + Blks \div 2) % Blks} \subseteq q.blks

\* pblk_valid_meta_ppa: the request writes to the LUN half the LUNs away from the
\* one of the metadata.
ValidMetaPpa(q, l) == (MetaBlk(l) + Blks \div 2) % Blks \in q.blks

\* pblk_submit_io_set: the request is sent with the erase it scheduled, or with a page
\* of metadata of the oldest line that waits for it, or alone.
Send(r, q, ln) ==
  LET todo == emeta_list[r]
      meta == q.eppa = None /\ todo # <<>> /\ ValidMetaPpa(q, Head(todo))
  IN  /\ line' = IF meta THEN [ln EXCEPT ![Head(todo)].mem = @ + 1] ELSE Marked(ln, q)
      /\ emeta_list' = IF meta /\ line[Head(todo)].mem + 1 = Metas
                       THEN [emeta_list EXCEPT ![r] = Tail(todo)] ELSE emeta_list
      /\ req' = [req EXCEPT ![r] = NoReq]
      /\ pc' = [pc EXCEPT ![r] = "idle"]

\* The data line has room for more than n pages.
RoomFor(r, n) == data_line[r] # None /\ line[data_line[r]].fill + n < Pages

Filled(r, n) == [line EXCEPT ![data_line[r]].fill = @ + n]

\* A request of n pages that does not fill the line.
Write(r, n) ==
  /\ MaySubmit(r, n) /\ RoomFor(r, n)
  /\ Send(r, Mapped(r, NewReq(r, n), line[data_line[r]].fill, n), Filled(r, n))
  /\ UNCHANGED <<data_line, data_next, lists, meta_bitmap, state, prev>>

\* A request that fills the line: pblk_line_replace_data comes next, before the last
\* page of the line is checked for an erase.
WriteLast(r, n) ==
  /\ MaySubmit(r, n)
  /\ data_line[r] # None /\ line[data_line[r]].fill < Pages /\ ~RoomFor(r, n)
  /\ LET f == line[data_line[r]].fill
         q == Mapped(r, NewReq(r, n), f, Pages - f - 1)
     IN  /\ req' = [req EXCEPT ![r] = q]
         /\ line' = Marked(Filled(r, Pages - f), q)
  /\ prev' = [prev EXCEPT ![r] = data_line[r]]
  /\ pc' = [pc EXCEPT ![r] = "replace"]
  /\ UNCHANGED <<data_line, data_next, lists, emeta_list, meta_bitmap, state>>

\* pblk_line_replace_data and pblk_line_close_meta are done: the rest of the request
\* goes to the new line.
WriteRest(r) ==
  /\ pc[r] = "rest"
  /\ LET q == Mapped(r, req[r], Pages - 1, 1)
     IN  \/ q.left = 0 /\ Send(r, q, line)
        \/ /\ q.left > 0 /\ RoomFor(r, q.left)
           /\ Send(r, Mapped(r, q, line[data_line[r]].fill, q.left), Filled(r, q.left))
  /\ prev' = [prev EXCEPT ![r] = None]
  /\ UNCHANGED <<data_line, data_next, lists, meta_bitmap, state, backlog>>

\* The ring has a page and no line (the code follows a null pointer), or a full line
\* (the page would land on its metadata): what the ring does then is not defined.
Lost(r) == data_line[r] # None => line[data_line[r]].fill = Pages

WriteLost(r) ==
  /\ \/ (\E n \in 1 .. MaxPages : MaySubmit(r, n)) /\ Lost(r)
     \/ pc[r] = "rest" /\ req[r].left > 1 /\ Lost(r) /\ UNCHANGED backlog
  /\ pc' = [pc EXCEPT ![r] = "lost"]
  /\ UNCHANGED <<line, data_line, data_next, lists, emeta_list, meta_bitmap, state, prev, req>>

\* A chunk of users that was claimed before the limit is inserted after it: rb_space
\* becomes negative, which is no limit any more (pblk_rl_inserted).
RlInserted(r) ==
  /\ r # GcRing /\ backlog[r] > 0
  /\ backlog' = [backlog EXCEPT ![r] = -1]
  /\ UNCHANGED <<line, data_line, data_next, lists, emeta_list, meta_bitmap, state, writer>>
-------------------------------------------------------------------------------
(* Changing lines: pblk_line_replace_data.                                      *)

Goto(r, label) == pc' = [pc EXCEPT ![r] = label]

\* No next line: the ring keeps the full one.
ReplaceNone(r) ==
  /\ pc[r] = "replace" /\ data_next[r] = None
  /\ Goto(r, "close")
  /\ UNCHANGED <<line, data_line, data_next, lists, emeta_list, meta_bitmap, state,
                 backlog, prev, req>>

\* The instance is stopping: the ring loses both lines.
ReplaceStopped(r) ==
  /\ pc[r] = "replace" /\ data_next[r] # None /\ state # "RUNNING"
  /\ data_line' = [data_line EXCEPT ![r] = None]
  /\ data_next' = [data_next EXCEPT ![r] = None]
  /\ Goto(r, "close")
  /\ UNCHANGED <<line, lists, emeta_list, meta_bitmap, state, backlog, prev, req>>

ReplaceLine(r) ==
  /\ pc[r] = "replace" /\ data_next[r] # None /\ state = "RUNNING"
  /\ data_line' = [data_line EXCEPT ![r] = data_next[r]]
  /\ Goto(r, "slot")
  /\ UNCHANGED <<line, data_next, lists, emeta_list, meta_bitmap, state, backlog, prev, req>>

\* pblk_line_setup_metadata: the first free slot, once there is one.
SetupMetadata(r) ==
  /\ pc[r] = "slot"
  /\ \E s \in (1 .. Slots) \ meta_bitmap :
       /\ \A t \in (1 .. Slots) \ meta_bitmap : s <= t
       /\ meta_bitmap' = meta_bitmap \cup {s}
       /\ line' = [line EXCEPT ![data_line[r]].slot = s, ![data_line[r]].mem = 0,
                               ![data_line[r]].sync = 0]
  /\ Goto(r, "erase")
  /\ UNCHANGED <<data_line, data_next, lists, emeta_list, state, backlog, prev, req>>

\* Mutant of Erased: erases that are on their way are not waited for.
ErasedSoon(l) == TRUE

\* left_seblks is left_eblks: no erase that was scheduled is outstanding.
Erased(l) == Seblks(l) = Eblks(l)

\* pblk_line_erase erases what nobody scheduled, and left_seblks becomes 0;
\* pblk_line_init_metadata and pblk_line_init_bb prepare the line and write smeta.
InitLine(r) ==
  /\ pc[r] = "erase" /\ Erased(data_line[r])
  /\ line' = [line EXCEPT ![data_line[r]].fill = 0, ![data_line[r]].ebm = B,
                          ![data_line[r]].done = @ \cup Eblks(data_line[r])]
  /\ Goto(r, "next")
  /\ UNCHANGED <<data_line, data_next, lists, emeta_list, meta_bitmap, state, backlog,
                 prev, req>>

\* Too many blocks of the line could not be erased: it goes to the bad list.
InitBad(r) ==
  /\ pc[r] = "erase" /\ Erased(data_line[r])
  /\ Cardinality({l \in Lines : line[l].state = "BAD"}) < MaxBad
  /\ line' = [line EXCEPT ![data_line[r]].state = "BAD", ![data_line[r]].ebm = B,
                          ![data_line[r]].done = B]
  /\ Goto(r, "retry")
  /\ UNCHANGED <<data_line, data_next, lists, emeta_list, meta_bitmap, state, backlog,
                 prev, req>>

\* Mutant of GetLine: the line stays on the free list.
GetLineKept(l) ==
  /\ l \in free_list
  /\ UNCHANGED free_list

\* pblk_line_get: a line leaves the free list, and pblk_line_prepare opens it.
GetLine(l) ==
  /\ l \in free_list
  /\ free_list' = free_list \ {l}

\* pblk_line_retry: another line inherits the slot of the bad one.
RetryLine(r) ==
  /\ pc[r] = "retry"
  /\ \E l \in free_list :
       /\ GetLine(l)
       /\ line' = [line EXCEPT ![l] = [Prepared EXCEPT !.slot = line[data_line[r]].slot],
                               ![data_line[r]].slot = None]
       /\ data_line' = [data_line EXCEPT ![r] = l]
  /\ Goto(r, "dec_retry")
  /\ UNCHANGED <<data_next, free_blocks, puts, emeta_list, meta_bitmap, state, backlog,
                 prev, req>>

\* No line to retry with: the ring has no line.
RetryNone(r) ==
  /\ pc[r] = "retry" /\ free_list = {}
  /\ data_line' = [data_line EXCEPT ![r] = None]
  /\ Goto(r, "close")
  /\ UNCHANGED <<line, data_next, lists, emeta_list, meta_bitmap, state, backlog, prev, req>>

\* Mutant of RetryDec: the line is not counted.
RetryDecForgotten(r) ==
  /\ pc[r] = "dec_retry"
  /\ Goto(r, "erase")
  /\ UNCHANGED <<line, data_line, data_next, lists, emeta_list, meta_bitmap, state,
                 backlog, prev, req>>

\* pblk_rl_free_lines_dec, after the lock is released; the line is then erased.
RetryDec(r) ==
  /\ pc[r] = "dec_retry"
  /\ free_blocks' = free_blocks - 1
  /\ Goto(r, "erase")
  /\ UNCHANGED <<line, data_line, data_next, free_list, puts, emeta_list, meta_bitmap, state,
                 backlog, prev, req>>

\* The line after the new one is taken and opened.
NextLine(r) ==
  /\ pc[r] = "next"
  /\ \E l \in free_list :
       /\ GetLine(l)
       /\ line' = [line EXCEPT ![l] = Prepared]
       /\ data_next' = [data_next EXCEPT ![r] = l]
  /\ Goto(r, "dec_next")
  /\ UNCHANGED <<data_line, free_blocks, puts, emeta_list, meta_bitmap, state, backlog,
                 prev, req>>

\* pblk_stop_writes: no line is free.  This ring gets a space limit, with what it
\* holds at that time, and the instance stops.
StopWrites(r) ==
  /\ pc[r] = "next" /\ free_list = {}
  /\ \E n \in 0 .. Cap : backlog' = [backlog EXCEPT ![r] = n]
  /\ state' = "STOPPING"
  /\ data_next' = [data_next EXCEPT ![r] = None]
  /\ Goto(r, "close")
  /\ UNCHANGED <<line, data_line, lists, emeta_list, meta_bitmap, prev, req>>

RlFreeLinesDec(r) ==
  /\ pc[r] = "dec_next"
  /\ free_blocks' = free_blocks - 1
  /\ Goto(r, "close")
  /\ UNCHANGED <<line, data_line, data_next, free_list, puts, emeta_list, meta_bitmap,
                 state, backlog, prev, req>>
-------------------------------------------------------------------------------
(* The metadata of a full line.                                                 *)

\* Mutant of CloseMeta: the full line is on no list.
CloseMetaUnlisted(r) ==
  /\ pc[r] = "close"
  /\ Goto(r, IF backlog[r] = -1 THEN "rest" ELSE "sync")
  /\ UNCHANGED <<line, data_line, data_next, lists, emeta_list, meta_bitmap, state,
                 backlog, prev, req>>

\* pblk_line_close_meta: the full line waits for its metadata to be written.  Under
\* a space limit it is written at once.
CloseMeta(r) ==
  /\ pc[r] = "close"
  /\ emeta_list' = [emeta_list EXCEPT ![r] = Append(@, prev[r])]
  /\ Goto(r, IF backlog[r] = -1 THEN "rest" ELSE "sync")
  /\ UNCHANGED <<line, data_line, data_next, lists, meta_bitmap, state, backlog, prev, req>>

OnList(r) == {emeta_list[r][i] : i \in 1 .. Len(emeta_list[r])}

\* Mutant of CloseMetaSync: the lines stay on the list.
CloseMetaSyncKept(r) ==
  /\ pc[r] = "sync"
  /\ line' = [l \in Lines |-> IF l \in OnList(r) THEN [line[l] EXCEPT !.mem = Metas] ELSE line[l]]
  /\ Goto(r, "drain")
  /\ UNCHANGED <<data_line, data_next, lists, emeta_list, meta_bitmap, state, backlog,
                 prev, req>>

\* pblk_line_close_meta_sync: all metadata of the ring's lines is submitted.
CloseMetaSync(r) ==
  /\ pc[r] = "sync"
  /\ line' = [l \in Lines |-> IF l \in OnList(r) THEN [line[l] EXCEPT !.mem = Metas] ELSE line[l]]
  /\ emeta_list' = [emeta_list EXCEPT ![r] = <<>>]
  /\ Goto(r, "drain")
  /\ UNCHANGED <<data_line, data_next, lists, meta_bitmap, state, backlog, prev, req>>

\* pblk_wait_for_meta and the flush of close_wq: nothing is on its way to the device,
\* from any ring, and no line is being closed.
Drained(r) ==
  /\ pc[r] = "drain"
  /\ \A l \in Lines : InFlight(l) = {} /\ line[l].sync = line[l].mem
  /\ \A l \in Lines : ~(line[l].state = "OPEN" /\ line[l].sync = Metas)
  /\ Goto(r, "rest")
  /\ UNCHANGED <<line, data_line, data_next, lists, emeta_list, meta_bitmap, state,
                 backlog, prev, req>>
-------------------------------------------------------------------------------
(* Completions, the close worker and GC.                                        *)

\* __pblk_end_io_erase
EndIoErase(l, b) ==
  /\ b \in InFlight(l)
  /\ line' = [line EXCEPT ![l].done = @ \cup {b}]
  /\ UNCHANGED <<data_line, data_next, lists, emeta_list, meta_bitmap, state, backlog, writer>>

\* pblk_end_io_write_meta
EndIoMeta(l) ==
  /\ line[l].sync < line[l].mem
  /\ line' = [line EXCEPT ![l].sync = @ + 1]
  /\ UNCHANGED <<data_line, data_next, lists, emeta_list, meta_bitmap, state, backlog, writer>>

\* Mutant of CloseLine: the slot stays taken.
CloseLineKeepsSlot(l) ==
  /\ line[l].state = "OPEN" /\ line[l].sync = Metas
  /\ line' = [line EXCEPT ![l].state = "CLOSED", ![l].slot = None]
  /\ UNCHANGED <<data_line, data_next, lists, emeta_list, meta_bitmap, state, backlog, writer>>

\* pblk_line_close: the slot is free again, and GC may take the line.
CloseLine(l) ==
  /\ line[l].state = "OPEN" /\ line[l].sync = Metas
  /\ meta_bitmap' = meta_bitmap \ {line[l].slot}
  /\ line' = [line EXCEPT ![l].state = "CLOSED", ![l].slot = None]
  /\ UNCHANGED <<data_line, data_next, lists, emeta_list, state, backlog, writer>>

\* pblk_line_put, when GC has moved what is valid (see PblkGc).
LinePut(l) ==
  /\ line[l].state = "CLOSED" /\ puts < MaxPuts
  /\ line' = [line EXCEPT ![l] = [Prepared EXCEPT !.state = "FREE"]]
  /\ free_list' = free_list \cup {l}
  /\ puts' = puts + 1
  /\ UNCHANGED <<data_line, data_next, free_blocks, emeta_list, meta_bitmap, state,
                 backlog, writer>>

\* pblk_rl_free_lines_inc, after the lock is released.
RlFreeLinesInc ==
  /\ puts > 0
  /\ puts' = puts - 1
  /\ free_blocks' = free_blocks + 1
  /\ UNCHANGED <<line, data_line, data_next, free_list, emeta_list, meta_bitmap, state,
                 backlog, writer>>
-------------------------------------------------------------------------------
Writer(r) ==
  \/ \E n \in 1 .. MaxPages : Write(r, n) \/ WriteLast(r, n)
  \/ WriteRest(r) \/ WriteLost(r) \/ RlInserted(r)
  \/ ReplaceNone(r) \/ ReplaceStopped(r) \/ ReplaceLine(r)
  \/ SetupMetadata(r) \/ InitLine(r)
  \/ InitBad(r) \/ RetryLine(r) \/ RetryNone(r) \/ RetryDec(r)
  \/ NextLine(r) \/ StopWrites(r) \/ RlFreeLinesDec(r)
  \/ CloseMeta(r) \/ CloseMetaSync(r) \/ Drained(r)

Device ==
  \E l \in Lines :
    \/ \E b \in B : EndIoErase(l, b)
    \/ EndIoMeta(l) \/ CloseLine(l) \/ LinePut(l)

Next == (\E r \in Rings : Writer(r)) \/ Device \/ RlFreeLinesInc

Spec == Init /\ [][Next]_vars
-------------------------------------------------------------------------------
(* Properties.                                                                  *)

Labels == {"idle", "replace", "slot", "erase", "retry", "dec_retry", "next", "dec_next",
           "close", "sync", "drain", "rest", "lost"}

\* The fields of lines, rings and writers have their types.
TypeOK ==
  /\ line \in [Lines -> [state : {"FREE", "OPEN", "CLOSED", "BAD"}, fill : 0 .. Pages,
                         ebm : SUBSET B, done : SUBSET B, mem : 0 .. Metas,
                         sync : 0 .. Metas, slot : (1 .. Slots) \cup {None}]]
  /\ data_line \in [Rings -> Lines \cup {None}]
  /\ data_next \in [Rings -> Lines \cup {None}]
  /\ free_list \subseteq Lines /\ free_blocks \in Int /\ puts \in Nat
  /\ emeta_list \in [Rings -> Seq(Lines)]
  /\ meta_bitmap \subseteq 1 .. Slots
  /\ state \in {"RUNNING", "STOPPING"}
  /\ backlog \in [Rings -> -1 .. Cap]
  /\ pc \in [Rings -> Labels]
  /\ prev \in [Rings -> Lines \cup {None}]
  /\ req \in [Rings -> [left : 0 .. MaxPages, erase : BOOLEAN,
                        eppa : (Lines \X B) \cup {None}, blks : SUBSET B]]

Mine(r) == {data_line[r], data_next[r], prev[r]} \ {None}

\* However the rings race for lines, no two of them ever work on the same line, and
\* none works on a line that the free list or GC can give away.
LinesExclusive ==
  state = "RUNNING" => \A r \in Rings :
    /\ \A q \in Rings \ {r} : Mine(q) \cap Mine(r) = {}
    /\ Mine(r) \cap free_list = {}
    /\ \A l \in Mine(r) : line[l].state \in {"OPEN", "BAD"}

\* Lines are not lost: one that is not free, bad or GC's is in the hands of a ring or
\* its metadata is being written.
LinesKept ==
  state = "RUNNING" => \A l \in Lines :
    \/ l \in free_list /\ line[l].state = "FREE"
    \/ line[l].state \in {"CLOSED", "BAD"}
    \/ line[l].mem = Metas
    \/ \E r \in Rings : l \in Mine(r) \cup OnList(r)

\* The metadata buffers in use are the ones of the lines that have one, each its own.
SlotsExact ==
  /\ meta_bitmap = {line[l].slot : l \in Lines} \ {None}
  /\ \A k, l \in Lines : k # l /\ line[k].slot # None => line[k].slot # line[l].slot

\* No block is written before it is erased, or erased after it was written, although
\* most erases are sent by the writer of another line and end at any time.
ErasedBeforeWritten ==
  \A r \in Rings : data_line[r] # None /\ line[data_line[r]].fill < Pages =>
    Seblks(data_line[r]) = {}

\* The rate limiter's count is the free list, but for lines on their way in or out.
FreeExact ==
  free_blocks + puts =
    Cardinality(free_list) + Cardinality({r \in Rings : pc[r] \in {"dec_next", "dec_retry"}})

\* The two waits of pblk_line_replace_data end without another write: when all slots
\* are taken, the metadata of one of their lines is on its way to the device, and a
\* block that is still to be erased is on its way too.
WaitsEnd ==
  \A r \in Rings :
    /\ pc[r] = "slot" /\ meta_bitmap = 1 .. Slots =>
         \E l \in Lines : line[l].slot # None /\ line[l].mem = Metas
    /\ pc[r] = "erase" =>
         Seblks(data_line[r]) = Eblks(data_line[r]) \cup InFlight(data_line[r])
-------------------------------------------------------------------------------
(* What a comment says and the code does not do.                                *)

\* "If we cannot get a new line, we need to stop the pipeline.  Only allow as many
\* writes in as we can store safely and then fail gracefully"
\* (pblk_line_replace_data): no writer is left with a page and no room for it.
StoredSafely == \A r \in Rings : pc[r] # "lost"
===============================================================================
