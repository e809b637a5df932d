-------------------------------- MODULE PblkGc --------------------------------
(* Lines, the logical to physical map and the garbage collector (pblk-core.c,   *)
(* pblk-gc.c, pblk-map.c, pblk-read.c).  The write buffers, which PblkRb models *)
(* in detail, are queues here: the ring of a user stream and the ring GC_NRB    *)
(* that the GC writer fills, each filling a line of its own.                    *)
(*                                                                              *)
(* A step is one critical section of trans_lock, gc_lock or a line's lock, or   *)
(* what a thread does between two of them.  Sectors are mapped one at a time;   *)
(* a mapped sector is stored.  A copy of a block carries a history mark: whether*)
(* it is the user's latest write of that block.                                 *)
EXTENDS Naturals, Sequences, FiniteSets

CONSTANTS
  Lbas,         \* logical blocks
  Lines,        \* pblk->lines
  SecPerLine,   \* data sectors of a line, sec_in_line
  Cap,          \* entries a ring holds before a claim must update the map
  MaxWrite,     \* pblk->max_write_pgs, the sectors of a GC request
  LineQd,       \* PBLK_GC_L_QD
  Need,         \* rl->high, in lines
  Discards,     \* whether the user discards blocks
  Reads,        \* whether the user reads blocks
  Faults,       \* how many memory and read errors the GC threads may meet
  NoLba,        \* ADDR_EMPTY
  None          \* a null pointer

ASSUME GcAssumption ==
  /\ {SecPerLine, Cap, MaxWrite, LineQd} \subseteq Nat \ {0}
  /\ {Need, Faults} \subseteq Nat
  /\ {Discards, Reads} \subseteq BOOLEAN
  /\ IsFiniteSet(Lines)
  /\ NoLba \notin Lbas
  /\ None \notin Lines

VARIABLES
  map,          \* pblk->trans_map
  ring,         \* per ring: slot of the oldest entry, and the entries
  data_line,    \* per ring: l_mg->data_line, None while it waits for a line
  line,         \* struct pblk_line, per line
  rd,           \* a user's read of a block, pblk_submit_read
  thr,          \* per thread: the list move it still owes
  r_list,       \* lines for gc_reader_wq, and gc->r_list before it
  scan,         \* locals of pblk_gc_run: gc_group, 0 before the scan; prev_group
  prep,         \* locals of pblk_gc_line_prepare_ws
  reads,        \* GC requests on gc_line_reader_wq
  w_list,       \* gc->w_list, GC requests for the GC writer
  inflight_gc,  \* gc->inflight_gc
  gc_target,    \* pblk->gc_target
  faults,       \* errors met so far
  slips         \* history: which of the races in SlipKinds have happened

mapvars == <<map, ring, data_line, rd>>
gcvars == <<scan, r_list, prep, reads, w_list, inflight_gc, gc_target>>
vars == <<mapvars, line, thr, gcvars, faults, slips>>

Secs == 1 .. SecPerLine
Rings == {"user", "gc"}
Threads == Rings \cup {"bio"}   \* who updates a ring's map entries; user bios

\* Addresses of trans_map: none, an entry of a ring, a sector of a line.
Empty == <<"empty">>
CacheAddr(r, p) == <<"cache", r, p>>
DevAddr(l, s) == <<"dev", l, s>>
InCache(a) == a[1] = "cache"
OnDev(a) == a[1] = "dev"
OnLine(a, l) == OnDev(a) /\ a[2] = l

\* A GC request of one sector left valid data behind; a line was reclaimed and opened
\* again while a thread still owed a list move to its former life.
SlipKinds == {"passed_over", "late_move"}

Copy(x, n) == [lba |-> x, new |-> n]
Idle == [line |-> None, list |-> "none", locked |-> FALSE]
NoPrep == [line |-> None, left |-> {}]
NoScan == [group |-> 0, prev |-> FALSE]

\* A read: its block, the address it goes to, what it got; history: whether the block
\* was changed since it began.
NoRead == [pc |-> "idle", lba |-> NoLba, addr |-> Empty, got |-> Copy(NoLba, FALSE),
           late |-> FALSE]

\* What pblk_line_put leaves of a line: on the free list, its data to be erased.
FreeLine == [state |-> "FREE", gc_group |-> "NONE", list |-> "free",
             invalid |-> {}, ref |-> 0, data |-> <<>>]

Init ==
  /\ map = [x \in Lbas |-> Empty]
  /\ ring = [r \in Rings |-> [tail |-> 0, q |-> <<>>]]
  /\ data_line = [r \in Rings |-> None]
  /\ line = [l \in Lines |-> FreeLine]
  /\ thr = [t \in Threads |-> Idle]
  /\ rd = NoRead /\ scan = NoScan /\ prep = NoPrep
  /\ r_list = <<>> /\ reads = {} /\ w_list = <<>>
  /\ inflight_gc = 0 /\ gc_target = 0
  /\ faults = 0 /\ slips = {}
-------------------------------------------------------------------------------
(* Lines.                                                                       *)

HighThrs == SecPerLine \div 2
MidThrs == SecPerLine \div 4
Vsc(ln) == SecPerLine - Cardinality(ln.invalid)

\* pblk_line_gc_list: the group, and so the list, of a closed line.
Group(ln) ==
  CASE Vsc(ln) = 0 -> "FULL"
    [] Vsc(ln) \in 1 .. HighThrs - 1 -> "HIGH"
    [] Vsc(ln) >= HighThrs /\ Vsc(ln) \in 1 .. MidThrs - 1 -> "MID"
    [] Vsc(ln) >= HighThrs /\ Vsc(ln) >= MidThrs /\ Vsc(ln) \in 1 .. SecPerLine - 1 -> "LOW"
    [] Vsc(ln) = SecPerLine -> "EMPTY"

Regrouped(ln) == [ln EXCEPT !.gc_group = Group(ln)]

\* Mutant: only sectors of open lines are marked.
InvalidatedOpenOnly(ln, s) ==
  IF ln.state = "OPEN" THEN [ln EXCEPT !.invalid = @ \cup {s}] ELSE ln

\* __pblk_map_invalidate up to its first unlock.  The line afterwards...
Invalidated(ln, s) ==
  LET inv == [ln EXCEPT !.invalid = @ \cup {s}]
  IN  IF ln.state \in {"GC", "FREE"} \/ s \in ln.invalid THEN ln
      ELSE IF ln.state = "CLOSED" THEN Regrouped(inv) ELSE inv

\* ... and whether a list move is still to be done.
NeedsMove(ln, s) == Invalidated(ln, s).gc_group # ln.gc_group

\* kref_put(&line->ref, pblk_line_put).
KrefPut(ln) == IF ln.ref = 1 THEN FreeLine ELSE [ln EXCEPT !.ref = @ - 1]

\* Mutant: no reference is taken.
KrefGetForgotten(ln) == ln

\* kref_get(&line->ref).
KrefGet(ln) == [ln EXCEPT !.ref = @ + 1]

\* trans_lock is held across steps only by a thread that owes a list move.
TransFree == \A t \in Threads : ~thr[t].locked

\* pblk_map_invalidate(a) up to its first unlock, for a device address: the lines...
LinesAfter(a) == IF OnDev(a) THEN [line EXCEPT ![a[2]] = Invalidated(@, a[3])] ELSE line

\* ... and the list move it leaves to thread t, with or without trans_lock.
ThreadAfter(a, locked) ==
  IF OnDev(a) /\ NeedsMove(line[a[2]], a[3])
  THEN [line |-> a[2], list |-> LinesAfter(a)[a[2]].gc_group, locked |-> locked]
  ELSE Idle

\* A read is under way.
Reading == rd.pc \in {"look", "retry"}

\* pblk_line_replace_data: the ring's next line, erased.
OpenLine(r, l) ==
  /\ data_line[r] = None
  /\ line[l].state = "FREE"
  /\ data_line' = [data_line EXCEPT ![r] = l]
  /\ line' = [line EXCEPT ![l] = [FreeLine EXCEPT !.state = "OPEN", !.list = "none", !.ref = 1]]
  /\ slips' = slips \cup {k \in {"late_move"} : \E t \in Threads : thr[t].line = l}
  /\ rd' = IF Reading /\ OnLine(rd.addr, l) THEN [rd EXCEPT !.pc = "spoilt"] ELSE rd
  /\ UNCHANGED <<map, ring, thr, gcvars, faults>>

\* Mutant: the line is put on no list.
CloseLineUnlisted(l) ==
  /\ line[l].state = "OPEN" /\ Len(line[l].data) = SecPerLine
  /\ line' = [line EXCEPT ![l] = [Regrouped(@) EXCEPT !.state = "CLOSED"]]
  /\ gc_target' = gc_target + 1
  /\ UNCHANGED <<mapvars, thr, scan, r_list, prep, reads, w_list, inflight_gc, faults, slips>>

\* pblk_line_close, some time after the line was filled and its metadata stored.
CloseLine(l) ==
  /\ line[l].state = "OPEN" /\ Len(line[l].data) = SecPerLine
  /\ line' = [line EXCEPT ![l] = [Regrouped(@) EXCEPT !.state = "CLOSED", !.list = Group(line[l])]]
  /\ gc_target' = gc_target + 1
  /\ UNCHANGED <<mapvars, thr, scan, r_list, prep, reads, w_list, inflight_gc, faults, slips>>
-------------------------------------------------------------------------------
(* Rings and the map.                                                           *)

Slot(r, i) == (ring[r].tail + i - 1) % (Cap + 1)
Index(r, p) == CHOOSE i \in 1 .. Cap + 1 : Slot(r, i) = p

\* Mutant: room for one entry too many.
HasRoomOneMore(r) == Len(ring[r].q) <= Cap

\* A claim of one entry succeeds without a map update.
HasRoom(r) == Len(ring[r].q) < Cap

NextAddr(r) == CacheAddr(r, Slot(r, Len(ring[r].q) + 1))
EntryAt(a) == ring[a[2]].q[Index(a[2], a[3])]

\* pblk_get_reserved_old_addr2: an entry that has its sector stands for the sector.
Resolved(a) == IF InCache(a) /\ EntryAt(a).ppa # Empty THEN EntryAt(a).ppa ELSE a

\* History: no copy of x made so far is the latest any more.
Aged(q, x) == [i \in DOMAIN q |-> IF q[i].lba = x THEN [q[i] EXCEPT !.new = FALSE] ELSE q[i]]
AgedRings(x) == [r \in Rings |-> [ring[r] EXCEPT !.q = Aged(@, x)]]
AgedLines(lines, x) == [l \in Lines |-> [lines[l] EXCEPT !.data = Aged(@, x)]]
AgedWrites(x) == [i \in DOMAIN w_list |-> [w_list[i] EXCEPT !.copies = Aged(@, x)]]

\* A user bio changes the address of x from map[x] to a, under trans_lock.
Remap(x, a) ==
  /\ TransFree
  /\ map' = [map EXCEPT ![x] = a]
  /\ line' = AgedLines(LinesAfter(map[x]), x)
  /\ thr' = [thr EXCEPT !["bio"] = ThreadAfter(map[x], TRUE)]
  /\ w_list' = AgedWrites(x)
  /\ rd' = [rd EXCEPT !.late = @ \/ (Reading /\ rd.lba = x)]
  /\ UNCHANGED <<data_line, scan, r_list, prep, reads, inflight_gc, gc_target, faults, slips>>

\* pblk_rb_write_entry_user with pblk_update_map_cache.
UserWrite(x) ==
  /\ HasRoom("user")
  /\ ring' = [AgedRings(x) EXCEPT !["user"].q =
                Append(@, [lba |-> x, new |-> TRUE, ppa |-> Empty])]
  /\ Remap(x, NextAddr("user"))

\* pblk_invalidate_range, one block of a discard.
Discard(x) ==
  /\ Discards
  /\ ring' = AgedRings(x)
  /\ Remap(x, Empty)

\* pblk_map_page_data for the oldest entry without a sector; pblk_line_is_full.
MapPage(r) ==
  LET l == data_line[r]
      todo == {i \in DOMAIN ring[r].q : ring[r].q[i].ppa = Empty}
  IN  /\ l # None /\ todo # {}
      /\ LET i == CHOOSE i \in todo : \A j \in todo : i <= j
             e == ring[r].q[i]
             s == Len(line[l].data) + 1
         IN  /\ ring' = [ring EXCEPT ![r].q[i].ppa = DevAddr(l, s)]
             /\ line' = [line EXCEPT ![l] = [KrefGet(line[l]) EXCEPT !.data =
                                               Append(@, Copy(e.lba, e.new))]]
             /\ data_line' = [data_line EXCEPT ![r] = IF s = SecPerLine THEN None ELSE l]
      /\ UNCHANGED <<map, rd, thr, gcvars, faults, slips>>

\* Somebody has an entry to write.
Wanted(r) == r = "user" \/ w_list # <<>>

\* The end of __pblk_rb_update_l2p for the oldest entry of r: kref_put, clean_wctx.
PutEntry(r, lines) ==
  /\ line' = [lines EXCEPT ![Head(ring[r].q).ppa[2]] = KrefPut(@)]
  /\ ring' = [ring EXCEPT ![r] = [tail |-> Slot(r, 2), q |-> Tail(ring[r].q)]]

\* Mutant: the map is updated even if the block was written again meanwhile.
L2pKeptBlindly(r) == Head(ring[r].q).lba # NoLba

\* Mutant: the map is left pointing to the entry.
L2pKeptNever(r) == FALSE

\* The map still points to the oldest entry: it gets the sector's address.
L2pKept(r) ==
  LET x == Head(ring[r].q).lba
  IN  x # NoLba /\ map[x] = CacheAddr(r, Slot(r, 1))

\* __pblk_rb_update_l2p for the oldest entry, which a claim is about to overwrite:
\* pblk_update_map_dev, and the rest unless a list move comes in between.
UpdateL2p(r) ==
  LET e == Head(ring[r].q)
      pad == e.lba = NoLba
      dead == IF L2pKept(r) THEN Empty ELSE e.ppa
  IN  /\ thr[r] = Idle /\ ~HasRoom(r) /\ Wanted(r) /\ e.ppa # Empty
      /\ pad \/ TransFree
      /\ map' = IF L2pKept(r) THEN [map EXCEPT ![e.lba] = e.ppa] ELSE map
      /\ thr' = [thr EXCEPT ![r] = ThreadAfter(dead, ~pad)]
      /\ IF thr'[r] = Idle THEN PutEntry(r, LinesAfter(dead))
         ELSE line' = LinesAfter(dead) /\ UNCHANGED ring
      /\ UNCHANGED <<data_line, rd, gcvars, faults, slips>>

\* The second half of __pblk_map_invalidate, under gc_lock.
MovedLines(t) ==
  IF line[thr[t].line].state \in {"GC", "FREE"} THEN line
  ELSE [line EXCEPT ![thr[t].line].list = thr[t].list]

MoveLine(t) ==
  /\ thr[t] # Idle
  /\ thr' = [thr EXCEPT ![t] = Idle]
  /\ IF t \in Rings THEN PutEntry(t, MovedLines(t))
     ELSE line' = MovedLines(t) /\ UNCHANGED ring
  /\ UNCHANGED <<map, data_line, rd, gcvars, faults, slips>>
-------------------------------------------------------------------------------
(* User reads.                                                                  *)

otherthanrd == <<map, ring, data_line, line, thr, gcvars, faults, slips>>

\* pblk_lookup_l2p_seq.  A block without an address reads as nothing, at once.
ReadLookup(x) ==
  /\ Reads /\ ~Reading /\ TransFree /\ map[x] # Empty
  /\ rd' = [NoRead EXCEPT !.pc = "look", !.lba = x, !.addr = map[x]]
  /\ UNCHANGED otherthanrd

\* Mutant: the entry is copied wherever the map points meanwhile.
CacheHitBlindly == Index(rd.addr[2], rd.addr[3]) \in DOMAIN ring[rd.addr[2]].q

\* The check of pblk_rb_copy_to_bio: the entry is still that of the block.
CacheHit == map[rd.lba] = rd.addr /\ EntryAt(rd.addr).lba = rd.lba

\* pblk_rb_copy_to_bio, under w_lock and trans_lock.
ReadCache ==
  /\ rd.pc = "look" /\ InCache(rd.addr) /\ TransFree /\ thr[rd.addr[2]] = Idle
  /\ rd' = IF CacheHit
           THEN LET e == EntryAt(rd.addr)
                IN  [rd EXCEPT !.pc = "done", !.got = Copy(e.lba, e.new)]
           ELSE [rd EXCEPT !.pc = "retry"]
  /\ UNCHANGED otherthanrd

\* The entry has gone: look up again.
ReadRetry ==
  /\ rd.pc = "retry" /\ TransFree
  /\ rd' = IF map[rd.lba] = Empty THEN NoRead
           ELSE [rd EXCEPT !.pc = "look", !.addr = map[rd.lba]]
  /\ UNCHANGED otherthanrd

\* The device reads the sector, some time after the look-up.  No reference to the
\* line is held meanwhile: once the line is free, to be erased and written again, the
\* outcome is anybody's guess.
ReadDev ==
  /\ rd.pc = "look" /\ OnDev(rd.addr)
  /\ LET data == line[rd.addr[2]].data
     IN  rd' = IF rd.addr[3] \in DOMAIN data
               THEN [rd EXCEPT !.pc = "done", !.got = data[rd.addr[3]]]
               ELSE [rd EXCEPT !.pc = "spoilt"]
  /\ UNCHANGED otherthanrd
-------------------------------------------------------------------------------
(* The GC thread, pblk_gc_run.                                                  *)

FreeLines == Cardinality({l \in Lines : line[l].state = "FREE"})
OnList(g) == {l \in Lines : line[l].list = g}
gc_lists == <<"HIGH", "MID", "LOW">>

\* Mutant: one line more than the queue depth.
MayQueueOneMore == inflight_gc <= LineQd

\* No more lines are queued than GC can handle.
MayQueue == inflight_gc < LineQd

ShouldRun == Need > FreeLines /\ gc_target > 0    \* pblk_gc_should_run

\* A closed line is chosen: its new record.
Chosen(ln) == [ln EXCEPT !.state = "GC", !.list = "none"]

\* Mutant: gc_target is left as it is.
GcTakeFullUncounted(l) ==
  /\ scan = NoScan /\ l \in OnList("FULL")
  /\ line' = [line EXCEPT ![l] = KrefPut(Chosen(@))]
  /\ UNCHANGED <<mapvars, thr, gcvars, faults, slips>>

\* A line of gc_full_list goes straight back.
GcTakeFull(l) ==
  /\ scan = NoScan /\ l \in OnList("FULL")
  /\ line' = [line EXCEPT ![l] = KrefPut(Chosen(@))]
  /\ gc_target' = gc_target - 1
  /\ UNCHANGED <<mapvars, thr, scan, r_list, prep, reads, w_list, inflight_gc, faults, slips>>

\* Past the full lines, if lines are needed: the scan of gc_lists begins.
GcScan ==
  /\ scan = NoScan /\ OnList("FULL") = {} /\ ShouldRun /\ MayQueue
  /\ scan' = [NoScan EXCEPT !.group = 1]
  /\ UNCHANGED <<mapvars, line, thr, r_list, prep, reads, w_list, inflight_gc, gc_target, faults, slips>>

\* An empty list: on to the next one unless a line was taken; rb_state is PBLK_RL_LOW
\* whenever GC should run, so all of them are tried.
GcNextGroup ==
  /\ scan # NoScan /\ OnList(gc_lists[scan.group]) = {}
  /\ scan' = IF ~scan.prev /\ scan.group < Len(gc_lists)
             THEN [scan EXCEPT !.group = @ + 1] ELSE NoScan
  /\ UNCHANGED <<mapvars, line, thr, r_list, prep, reads, w_list, inflight_gc, gc_target, faults, slips>>

\* pblk_gc_get_victim_line: a line without valid sectors if the list has one; which
\* of the others is a matter of policy.
Victims ==
  LET g == OnList(gc_lists[scan.group])
      dead == {l \in g : Vsc(line[l]) = 0}
  IN  IF dead # {} THEN dead ELSE g

\* The scan goes on while more lines are needed and GC can handle them.
GcTakeVictim(l) ==
  /\ scan # NoScan /\ l \in Victims
  /\ line' = [line EXCEPT ![l] = Chosen(@)]
  /\ gc_target' = gc_target - 1
  /\ r_list' = Append(r_list, l)
  /\ inflight_gc' = inflight_gc + 1
  /\ scan' = IF ShouldRun' /\ MayQueue' THEN [scan EXCEPT !.prev = TRUE] ELSE NoScan
  /\ UNCHANGED <<mapvars, thr, prep, reads, w_list, faults, slips>>
-------------------------------------------------------------------------------
(* gc_reader_wq, gc_line_reader_wq and the GC writer.                           *)

\* pblk_gc_line_prepare_ws, one line at a time: the sectors not known invalid.
PrepareLine ==
  /\ prep = NoPrep /\ r_list # <<>>
  /\ prep' = [line |-> Head(r_list), left |-> Secs \ line[Head(r_list)].invalid]
  /\ r_list' = Tail(r_list)
  /\ UNCHANGED <<mapvars, line, thr, scan, reads, w_list, inflight_gc, gc_target, faults, slips>>

\* next_rq: a request for at most max_write_pgs of them, with a reference.
PrepareRq ==
  /\ prep.left # {}
  /\ LET secs == {s \in prep.left : Cardinality({t \in prep.left : t < s}) < MaxWrite}
     IN  /\ reads' = reads \cup {[line |-> prep.line, secs |-> secs]}
         /\ prep' = [prep EXCEPT !.left = @ \ secs]
  /\ line' = [line EXCEPT ![prep.line] = KrefGet(@)]
  /\ UNCHANGED <<mapvars, thr, scan, r_list, w_list, inflight_gc, gc_target, faults, slips>>

\* out: the reference of pblk_line_prepare goes.
PrepareEnd ==
  /\ prep.line # None /\ prep.left = {}
  /\ line' = [line EXCEPT ![prep.line] = KrefPut(@)]
  /\ prep' = NoPrep /\ inflight_gc' = inflight_gc - 1
  /\ UNCHANGED <<mapvars, thr, scan, r_list, reads, w_list, gc_target, faults, slips>>

\* No memory for emeta_buf: the line is dropped.
PrepareNoMem ==
  /\ prep = NoPrep /\ r_list # <<>> /\ faults < Faults
  /\ r_list' = Tail(r_list)
  /\ faults' = faults + 1
  /\ UNCHANGED <<mapvars, line, thr, scan, prep, reads, w_list, inflight_gc, gc_target, slips>>

\* pblk_put_line_back: closed again, and listed if its group is another one now.
PutBack(ln) ==
  LET cl == [Regrouped(ln) EXCEPT !.state = "CLOSED"]
  IN  IF cl.gc_group # ln.gc_group THEN [cl EXCEPT !.list = cl.gc_group] ELSE cl

\* fail_free_emeta: the metadata cannot be read, or no memory for a request.
PrepareFail ==
  /\ prep.line # None /\ (prep.left # {} \/ Vsc(line[prep.line]) = 0)
  /\ faults < Faults
  /\ line' = [line EXCEPT ![prep.line] = KrefPut(PutBack(@))]
  /\ gc_target' = gc_target + 1
  /\ prep' = NoPrep /\ inflight_gc' = inflight_gc - 1
  /\ faults' = faults + 1
  /\ UNCHANGED <<mapvars, thr, scan, r_list, reads, w_list, slips>>

\* The address a GC read finds for x: pblk_lookup_l2p_rand in a request of several
\* sectors, the plain map in read_rq_gc.
GcLookup(q, x) == IF Cardinality(q.secs) > 1 THEN Resolved(map[x]) ELSE map[x]

\* read_ppalist_rq_gc, read_rq_gc: the copies read, still on the victim line.
GcCopies(q) ==
  LET lba(s) == line[q.line].data[s].lba
      kept == {s \in q.secs : lba(s) # NoLba /\ OnLine(GcLookup(q, lba(s)), q.line)}
  IN  [i \in 1 .. Cardinality(kept) |->
         LET s == CHOOSE s \in kept : Cardinality({t \in kept : t < s}) = i - 1
         IN  line[q.line].data[GcLookup(q, lba(s))[3]]]

\* pblk_gc_move_valid_secs: on to the GC writer, or nothing to do.
ReadGc(q) ==
  LET copies == GcCopies(q)
  IN  /\ q \in reads /\ TransFree
      /\ reads' = reads \ {q}
      /\ w_list' = IF copies = <<>> THEN w_list
                   ELSE Append(w_list, [line |-> q.line, copies |-> copies])
      /\ line' = IF copies = <<>> THEN [line EXCEPT ![q.line] = KrefPut(@)] ELSE line
      /\ slips' = slips \cup {k \in {"passed_over"} :
           \E s \in q.secs : LET x == line[q.line].data[s].lba
                             IN  /\ x # NoLba
                                 /\ OnLine(Resolved(map[x]), q.line)
                                 /\ ~OnLine(GcLookup(q, x), q.line)}
      /\ UNCHANGED <<mapvars, thr, scan, r_list, prep, inflight_gc, gc_target, faults>>

\* No memory, or the read could not be submitted: the request is dropped.
ReadGcFail(q) ==
  /\ q \in reads /\ faults < Faults
  /\ reads' = reads \ {q}
  /\ line' = [line EXCEPT ![q.line] = KrefPut(@)]
  /\ faults' = faults + 1
  /\ UNCHANGED <<mapvars, thr, scan, r_list, prep, w_list, inflight_gc, gc_target, slips>>

\* Mutant: newer updates are overwritten.
GcMayMoveAlways(x, l) == TRUE

\* The check of pblk_update_map_gc: x is still on the line being reclaimed.
GcMayMove(x, l) == OnLine(Resolved(map[x]), l)

\* pblk_rb_write_entry_gc with pblk_update_map_gc: a block that has left the victim
\* line since it was read becomes padding.  After the last one, pblk_gc_write drops
\* the request's reference.
GcWriteEntry ==
  /\ w_list # <<>> /\ HasRoom("gc") /\ TransFree
  /\ LET q == Head(w_list)
         c == Head(q.copies)
         moves == GcMayMove(c.lba, q.line)
         e == IF moves THEN c ELSE Copy(NoLba, FALSE)
     IN  /\ map' = IF moves THEN [map EXCEPT ![c.lba] = NextAddr("gc")] ELSE map
         /\ ring' = [ring EXCEPT !["gc"].q =
                       Append(@, [lba |-> e.lba, new |-> e.new, ppa |-> Empty])]
         /\ IF Len(q.copies) = 1
            THEN /\ w_list' = Tail(w_list)
                 /\ line' = [line EXCEPT ![q.line] = KrefPut(@)]
            ELSE /\ w_list' = [w_list EXCEPT ![1].copies = Tail(@)]
                 /\ UNCHANGED line
  /\ UNCHANGED <<data_line, rd, thr, scan, r_list, prep, reads, inflight_gc, gc_target, faults, slips>>
-------------------------------------------------------------------------------
Next ==
  \/ \E x \in Lbas : UserWrite(x) \/ Discard(x) \/ ReadLookup(x)
  \/ ReadCache \/ ReadRetry \/ ReadDev
  \/ \E t \in Threads : MoveLine(t)
  \/ \E r \in Rings : MapPage(r) \/ UpdateL2p(r)
  \/ \E r \in Rings, l \in Lines : OpenLine(r, l)
  \/ \E l \in Lines : CloseLine(l) \/ GcTakeFull(l) \/ GcTakeVictim(l)
  \/ GcScan \/ GcNextGroup \/ PrepareLine \/ PrepareRq \/ PrepareEnd \/ PrepareNoMem \/ PrepareFail
  \/ \E q \in reads : ReadGc(q) \/ ReadGcFail(q)
  \/ GcWriteEntry

Spec == Init /\ [][Next]_vars
-------------------------------------------------------------------------------
(* Properties.                                                                  *)

CopyAt(a) == IF InCache(a) THEN EntryAt(a) ELSE line[a[2]].data[a[3]]

Addresses ==
  {Empty} \cup {CacheAddr(r, p) : r \in Rings, p \in 0 .. Cap}
          \cup {DevAddr(l, s) : l \in Lines, s \in Secs}

\* The variables have their types.
TypeOK ==
  /\ map \in [Lbas -> Addresses]
  /\ data_line \in [Rings -> Lines \cup {None}]
  /\ \A r \in Rings : ring[r].tail \in 0 .. Cap /\ Len(ring[r].q) <= Cap
  /\ \A l \in Lines :
       /\ line[l].state \in {"FREE", "OPEN", "CLOSED", "GC"}
       /\ line[l].gc_group \in {"NONE", "FULL", "HIGH", "MID", "LOW", "EMPTY"}
       /\ line[l].list \in {"none", "free", "FULL", "HIGH", "MID", "LOW", "EMPTY"}
       /\ line[l].invalid \subseteq Secs /\ line[l].ref \in Nat
       /\ Len(line[l].data) <= SecPerLine
  /\ \A t \in Threads : thr[t].line \in Lines \cup {None}
  /\ rd.pc \in {"idle", "look", "retry", "done", "spoilt"} /\ rd.lba \in Lbas \cup {NoLba}
  /\ scan \in [group : 0 .. Len(gc_lists), prev : BOOLEAN]
  /\ inflight_gc \in Nat /\ gc_target \in Nat
  /\ faults \in 0 .. Faults /\ slips \subseteq SlipKinds

\* Outside the known races, a block's address in the map leads to its latest copy: neither a
\* late map update, nor a GC move, nor the reuse of a line brings an older copy
\* back or loses the latest.
MapNewest ==
  slips = {} =>
    \A x \in Lbas : map[x] # Empty =>
      /\ OnDev(map[x]) => map[x][3] \in DOMAIN line[map[x][2]].data
      /\ InCache(map[x]) => Index(map[x][2], map[x][3]) \in DOMAIN ring[map[x][2]].q
      /\ CopyAt(map[x]).lba = x /\ CopyAt(map[x]).new

\* None of the races of SlipKinds and no failure in the GC threads has happened.
Regular == slips = {} /\ faults = 0

\* Holders of a line's reference: the line itself until GC has prepared it, ...
OwnRef(l) ==
  IF \/ line[l].state \in {"OPEN", "CLOSED"}
     \/ l = prep.line \/ \E i \in DOMAIN r_list : r_list[i] = l THEN 1 ELSE 0

\* ... ring entries that have a sector of it, and GC requests for it.
MappedTo(r, l) == {i \in DOMAIN ring[r].q : OnLine(ring[r].q[i].ppa, l)}
ReadsOf(l) == {q \in reads : q.line = l}
WritesOf(l) == {i \in DOMAIN w_list : w_list[i].line = l}
Users(l) ==
  Cardinality(MappedTo("user", l)) + Cardinality(MappedTo("gc", l))
  + Cardinality(ReadsOf(l)) + Cardinality(WritesOf(l))

\* line->ref counts exactly its holders, so pblk_line_put frees a line when the
\* last of ring entries, GC requests and GC itself is done with it, and only then.
RefsExact == Regular => \A l \in Lines : line[l].ref = OwnRef(l) + Users(l)

\* Sectors whose fate the map or a ring still decides.
Pending(r) == IF thr[r] = Idle THEN DOMAIN ring[r].q ELSE DOMAIN ring[r].q \ {1}
Live(l, s) ==
  \/ \E x \in Lbas : map[x] = DevAddr(l, s)
  \/ \E r \in Rings : \E i \in Pending(r) : ring[r].q[i].ppa = DevAddr(l, s)

\* The invalid bitmap of a line that is not being reclaimed marks exactly the
\* written sectors that nobody can refer to any more: GC moves no dead sector it
\* could know of, vsc reaches 0, and no live sector is given up.
InvalidExact ==
  slips = {} =>
    \A l \in Lines : line[l].state \in {"OPEN", "CLOSED"} =>
      line[l].invalid = {s \in DOMAIN line[l].data : ~Live(l, s)}

\* gc_target, which GC consults to know whether there is anything to reclaim, is
\* the number of closed lines.
TargetExact == Regular => gc_target = Cardinality({l \in Lines : line[l].state = "CLOSED"})

\* However GC fails, no more lines are in its hands than PBLK_GC_L_QD.
InflightBounded == inflight_gc <= LineQd /\ Len(r_list) <= inflight_gc

\* However GC fails, an address in a ring leads to an entry of that block.
CacheLive ==
  \A x \in Lbas : InCache(map[x]) =>
    /\ Index(map[x][2], map[x][3]) \in DOMAIN ring[map[x][2]].q
    /\ EntryAt(map[x]).lba = x

\* What a read returns belongs to the block: from a ring it is the latest write at the
\* time of the copy, from the device the latest at some time since the read began.
\* Only a line reused in the middle of the read can spoil it.
ReadsRegular ==
  slips = {} /\ rd.pc = "done" =>
    /\ rd.got.lba = rd.lba
    /\ rd.got.new \/ (rd.late /\ OnDev(rd.addr))

GcLists == {"FULL", "HIGH", "MID", "LOW", "EMPTY"}

\* A closed line is on one of the GC lists, so that GC can find it.
ClosedListed ==
  Regular => \A l \in Lines : line[l].state = "CLOSED" => line[l].list \in GcLists
-------------------------------------------------------------------------------
(* What comments say and the code does not do.                                  *)

\* Valid sectors of a victim are moved before the line is freed: no address in the
\* map leads to a free line ("reads valid sectors from a line and submit them to
\* the GC writer").
NoFreedData ==
  "late_move" \notin slips =>
    \A x \in Lbas : OnDev(map[x]) => line[map[x][2]].state # "FREE"

===============================================================================
