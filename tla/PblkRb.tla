-------------------------------- MODULE PblkRb --------------------------------
(* One write buffer of pblk (struct pblk_rb) with everybody who touches it:     *)
(*   - user threads inside __pblk_write_to_cache (pblk-cache.c);                *)
(*   - the GC writer thread inside pblk_write_gc_to_cache (pblk-cache.c);       *)
(*   - the ring's writer thread, pblk_write_ts / pblk_submit_write              *)
(*     (pblk-write.c);                                                          *)
(*   - the device's write completions, pblk_end_io_write (pblk-write.c);        *)
(*   - the ring's share of the rate limiter, struct pblk_rl_per_rb (pblk-rl.c). *)
(*                                                                              *)
(* A step is one critical section (w_lock, s_lock) or one shared store made     *)
(* outside any lock.  The payload of an entry (data, lba, ppa) is left out: the *)
(* ring never looks at it.  Page and block mapped streams, and with them        *)
(* reserved entries, are switched off by EXT4_TEST and PBLK_ALL_PMT (pblk.h).   *)
EXTENDS PblkRing, FiniteSets

CONSTANTS
  Users,         \* threads that write user data
  GcWriters,     \* the GC writer thread, if this ring receives GC data
  MaxReq,        \* largest chunk a user claims at once ("unit", pblk-cache.c)
  MaxGc,         \* largest number of valid sectors in a GC request
  MinWrite,      \* pblk->min_write_pgs
  Slack,         \* the 8 of "min_write_pgs + 8" in pblk_submit_write
  SecPerWrite,   \* pblk->sec_per_write
  Rates,         \* what the free block count can set: user_max, gc_max, low
  WriteErrors,   \* whether a write request can be lost on an error path
  LineShortage,  \* whether the free lines can run out
  Removal        \* whether the target can be removed

ASSUME RbAssumption ==
  /\ Users \cap GcWriters = {}
  /\ IsFiniteSet(Users) /\ IsFiniteSet(GcWriters)
  /\ {MinWrite, SecPerWrite} \subseteq Nat \ {0}
  /\ {MaxReq, MaxGc, Slack} \subseteq Nat
  /\ MaxReq < NrEntries /\ MaxGc < NrEntries
  /\ Rates \subseteq [user_max : Nat, gc_max : Nat, low : BOOLEAN]
  /\ {WriteErrors, LineShortage, Removal} \subseteq BOOLEAN

Threads == Users \cup GcWriters

VARIABLES
  mem,            \* next entry to claim
  subm,           \* next entry the writer thread takes
  sync,           \* first entry whose write has not completed
  l2p_update,     \* first entry the translation map may still point to
  nr_user,        \* entries claimed by users that are still copying
  flags,          \* entry->w_ctx.flags, per entry
  submit_flags,   \* whether w_ctx.submit_flags holds PBLK_SUBMITTED_ENTRY
  rb_user_cnt,    \* user entries the rate limiter believes are in the ring
  rb_gc_cnt,      \* GC entries the rate limiter believes are in the ring
  rb_user_active, \* set by user writes, cleared by the 5 second timer
  rb_space,       \* -1: no limit; set to 0 when the lines run out
  rate,           \* rl->rb_user_max, rl->rb_gc_max, "few free blocks left"
  pc, nr, bpos, idx,  \* per thread: step, chunk size, first entry, entries copied
  w,              \* the writer thread: step, first entry, count, entries read
  inflight,       \* requests sent to the device
  compl_list,     \* requests that completed before their turn
  s_lock,         \* whether a completion holds rb->s_lock, draining compl_list
  stopping,       \* whether pblk_stop_writes has run (PBLK_STATE_STOPPING)
  phase           \* "run", "waited" or "down": how far pblk_tear_down got

ptrs == <<mem, subm, sync, l2p_update>>
entries == <<flags, submit_flags>>
limits == <<rb_user_cnt, rb_gc_cnt, rb_user_active, rb_space, rate>>
thread == <<pc, nr, bpos, idx>>
device == <<inflight, compl_list, s_lock>>
target == <<stopping, phase>>
vars == <<ptrs, nr_user, entries, limits, thread, w, device, target>>

Idle == [pc |-> "idle", pos |-> 0, n |-> 0, i |-> 0]

-------------------------------------------------------------------------------
Init ==
  /\ mem = 0 /\ subm = 0 /\ sync = 0 /\ l2p_update = 0
  /\ nr_user = 0
  /\ flags = [p \in Pos |-> {"WRITABLE"}]
  /\ submit_flags = [p \in Pos |-> FALSE]
  /\ rb_user_cnt = 0 /\ rb_gc_cnt = 0
  /\ rb_user_active = FALSE
  /\ rb_space = -1
  /\ rate \in Rates
  /\ pc = [t \in Threads |-> "idle"]
  /\ nr = [t \in Threads |-> 0]
  /\ bpos = [t \in Threads |-> 0]
  /\ idx = [t \in Threads |-> 0]
  /\ w = Idle
  /\ inflight = {} /\ compl_list = {}
  /\ s_lock = FALSE
  /\ stopping = FALSE
  /\ phase = "run"
-------------------------------------------------------------------------------
(* Claiming entries: __pblk_rb_may_write and the L2P update it triggers.        *)

\* Mutant of MayWrite: one entry too many.
MayWriteOneMore(n) == RingSpace(mem, sync) + 1 >= n

\* There is room for n entries up to the oldest one not yet written to media.
MayWrite(n) == RingSpace(mem, sync) >= n

\* Mutant of L2pCount: one entry too few when room has to be made.
L2pCountOneLess(n) ==
  LET space == RingSpace(mem, l2p_update)
  IN  IF space + 1 > n THEN 0 ELSE n - space - 1

\* How many old entries the translation map must let go of before n are claimed.
L2pCount(n) ==
  LET space == RingSpace(mem, l2p_update)
  IN  IF space > n THEN 0 ELSE n - space

\* Entries among ps that carry the given I/O type.
OfType(ps, type) == {p \in ps : type \in flags[p]}

\* __pblk_rb_update_l2p: the oldest k entries leave the map, become writable and
\* no longer count; clean_wctx spins until each has submit_flags set.  gcIn is what
\* the same critical section adds to the GC count (pblk_rl_gc_in).
UpdateL2p(k, gcIn) ==
  LET done == Window(l2p_update, k)
  IN  /\ \A p \in done : submit_flags[p]
      /\ flags' = [p \in Pos |-> IF p \in done THEN {"WRITABLE"} ELSE flags[p]]
      /\ submit_flags' = [p \in Pos |-> p \notin done /\ submit_flags[p]]
      /\ l2p_update' = Wrap(l2p_update + k)
      /\ rb_user_cnt' = rb_user_cnt - Cardinality(OfType(done, "USER"))
      /\ rb_gc_cnt' = rb_gc_cnt - Cardinality(OfType(done, "GC")) + gcIn

\* pblk_rb_may_write: thread t gets the nr[t] entries from mem on.
Claim(t, gcIn) ==
  /\ MayWrite(nr[t])
  /\ UpdateL2p(L2pCount(nr[t]), gcIn)
  /\ mem' = Wrap(mem + nr[t])
  /\ bpos' = [bpos EXCEPT ![t] = mem]

\* pblk_rl_user_may_insert, in the order it tests.
UserMayInsert(n) ==
  IF rb_space >= 0 /\ rb_space - n < 0 THEN "ERR"
  ELSE IF rb_user_cnt >= rate.user_max THEN "REQUEUE"
  ELSE "OK"

\* pblk_rl_gc_may_insert.
GcMayInsert == ~(rb_gc_cnt >= rate.gc_max /\ rb_user_active)

\* The largest chunk of a thread.
MaxChunk(t) == IF t \in Users THEN MaxReq ELSE MaxGc

\* A thread starts a chunk: a user one of a bio's chunks (0: a bio without data),
\* the GC writer the valid sectors of a GC request.
Begin(t) ==
  /\ phase = "run"
  /\ pc[t] = "idle"
  /\ \E n \in 0 .. MaxChunk(t) : nr' = [nr EXCEPT ![t] = n]
  /\ pc' = [pc EXCEPT ![t] = "may_write"]
  /\ UNCHANGED <<ptrs, nr_user, entries, limits, bpos, idx, w, device, target>>

\* pblk_rb_may_write_user: budget and room are there, the entries are claimed.
\* When either is missing the thread schedules out and retries.
MayWriteUser(t) ==
  /\ t \in Users /\ pc[t] = "may_write"
  /\ UserMayInsert(nr[t]) = "OK"
  /\ Claim(t, 0)
  /\ nr_user' = nr_user + nr[t]
  /\ pc' = [pc EXCEPT ![t] = "user_in"]
  /\ UNCHANGED <<subm, sync, rb_user_active, rb_space, rate, nr, idx, w, device, target>>

\* Mutant of MayWriteUserErr: nr_entries_padding keeps its value.
MayWriteUserErrKeepsPadding(t) ==
  /\ t \in Users /\ pc[t] = "may_write"
  /\ UserMayInsert(nr[t]) = "ERR"
  /\ pc' = [pc EXCEPT ![t] = "release"]
  /\ UNCHANGED <<ptrs, nr_user, entries, limits, nr, bpos, idx, w, device, target>>

\* The line shortage refuses the chunk: the pipeline is stopped and the thread
\* leaves with nr_entries_padding = 0.
MayWriteUserErr(t) ==
  /\ t \in Users /\ pc[t] = "may_write"
  /\ UserMayInsert(nr[t]) = "ERR"
  /\ nr' = [nr EXCEPT ![t] = 0]
  /\ pc' = [pc EXCEPT ![t] = "release"]
  /\ UNCHANGED <<ptrs, nr_user, entries, limits, bpos, idx, w, device, target>>

\* pblk_rl_user_in, in a critical section of its own.
UserIn(t) ==
  /\ pc[t] = "user_in"
  /\ rb_user_cnt' = rb_user_cnt + nr[t]
  /\ rb_user_active' = TRUE
  /\ pc' = [pc EXCEPT ![t] = IF nr[t] = 0 THEN "release" ELSE "copy"]
  /\ UNCHANGED <<ptrs, nr_user, entries, rb_gc_cnt, rb_space, rate, nr, bpos, idx,
                 w, device, target>>

\* pblk_rb_may_write_gc: the claim and the accounting are one critical section.
MayWriteGc(t) ==
  /\ t \in GcWriters /\ pc[t] = "may_write"
  /\ GcMayInsert
  /\ Claim(t, nr[t])
  /\ pc' = [pc EXCEPT ![t] = IF nr[t] = 0 THEN "kick" ELSE "copy"]
  /\ UNCHANGED <<subm, sync, nr_user, rb_user_active, rb_space, rate, nr, idx, w,
                 device, target>>
-------------------------------------------------------------------------------
(* Filling the claimed entries.                                                 *)

\* Mutant of IoType: every entry carries the user type.
IoTypeUser(t) == "USER"

IoType(t) == IF t \in Users THEN "USER" ELSE "GC"

\* pblk_rb_write_entry_user, pblk_rb_write_entry_gc: one entry of the loop.
WriteEntry(t) ==
  /\ pc[t] = "copy"
  /\ flags' = [flags EXCEPT ![Wrap(bpos[t] + idx[t])] = {IoType(t), "WRITTEN"}]
  /\ idx' = [idx EXCEPT ![t] = @ + 1]
  /\ pc' = [pc EXCEPT ![t] = IF idx[t] + 1 < nr[t] THEN "copy"
                             ELSE IF t \in Users THEN "inserted" ELSE "kick"]
  /\ UNCHANGED <<ptrs, nr_user, submit_flags, limits, nr, bpos, w, device, target>>

\* pblk_rl_inserted.
Inserted(t) ==
  /\ pc[t] = "inserted"
  /\ rb_space' = IF rb_space >= 0 THEN rb_space - nr[t] ELSE rb_space
  /\ pc' = [pc EXCEPT ![t] = "release"]
  /\ UNCHANGED <<ptrs, nr_user, entries, rb_user_cnt, rb_gc_cnt, rb_user_active,
                 rate, nr, bpos, idx, w, device, target>>

\* The thread returns; its local variables are dead.
Leave(t) ==
  /\ pc' = [pc EXCEPT ![t] = "idle"]
  /\ nr' = [nr EXCEPT ![t] = 0]
  /\ bpos' = [bpos EXCEPT ![t] = 0]
  /\ idx' = [idx EXCEPT ![t] = 0]

\* Mutant of Release: the chunk counts as being copied for ever.
ReleaseForgotten(t) ==
  /\ pc[t] = "release"
  /\ Leave(t)
  /\ UNCHANGED <<ptrs, nr_user, entries, limits, w, device, target>>

\* The "out:" label: the chunk no longer counts as being copied.
Release(t) ==
  /\ pc[t] = "release"
  /\ nr_user' = nr_user - nr[t]
  /\ Leave(t)
  /\ UNCHANGED <<ptrs, entries, limits, w, device, target>>

\* The GC writer kicks the writer thread and returns.
GcKick(t) ==
  /\ pc[t] = "kick"
  /\ Leave(t)
  /\ UNCHANGED <<ptrs, nr_user, entries, limits, w, device, target>>
-------------------------------------------------------------------------------
(* The writer thread: pblk_submit_write.                                        *)

\* pblk_calc_secs with no flush pending (nothing sets rb->sync_point here).
CalcSecs(avail) ==
  IF avail >= SecPerWrite THEN SecPerWrite
  ELSE IF avail >= MinWrite THEN MinWrite * (avail \div MinWrite)
  ELSE 0

\* Entries the writer counts as complete, given the count it read before nr_user.
SecsAvail(count) == IF count > nr_user THEN count - nr_user ELSE 0

\* pblk_rb_read_count; nothing to do when the ring holds no unsent entry.
WriterCount ==
  /\ phase # "down"
  /\ w.pc = "idle" /\ mem # subm
  /\ w' = [Idle EXCEPT !.pc = "commit", !.n = RingCount(mem, subm)]
  /\ UNCHANGED <<ptrs, nr_user, entries, limits, thread, device, target>>

\* Whether pblk_submit_write goes on after the two early returns; the GC ring may
\* write however few blocks are free.
MayCommit(avail) ==
  avail >= MinWrite + Slack /\ (GcWriters # {} \/ ~rate.low)

\* The submission pointer moves over the entries of the new request.
WriterCommit ==
  /\ w.pc = "commit"
  /\ LET avail == SecsAvail(w.n)
         n == CalcSecs(avail)
     IN  /\ MayCommit(avail)
         /\ w' = [pc |-> "read", pos |-> subm, n |-> n, i |-> 0]
         /\ subm' = Wrap(subm + n)
  /\ UNCHANGED <<mem, sync, l2p_update, nr_user, entries, limits, thread, device, target>>

\* An early return, or no memory for the request: the thread sleeps until it is
\* kicked again.
WriterSleep ==
  /\ w.pc = "commit"
  /\ WriteErrors \/ ~MayCommit(SecsAvail(w.n))
  /\ w' = Idle
  /\ UNCHANGED <<ptrs, nr_user, entries, limits, thread, device, target>>

\* Mutant of ReadToBio: no wait for the copy.
ReadToBioNoWait ==
  /\ w.pc = "read" /\ w.i < w.n
  /\ LET p == Wrap(w.pos + w.i)
     IN  /\ flags' = [flags EXCEPT ![p] = (@ \ {"WRITTEN"}) \cup {"SUBMITTED"}]
         /\ submit_flags' = [submit_flags EXCEPT ![p] = TRUE]
  /\ w' = [w EXCEPT !.i = @ + 1]
  /\ UNCHANGED <<ptrs, nr_user, limits, thread, device, target>>

\* Mutant of ReadToBio: submit_flags is forgotten.
ReadToBioNoSubmitFlag ==
  /\ w.pc = "read" /\ w.i < w.n
  /\ LET p == Wrap(w.pos + w.i)
     IN  /\ "WRITTEN" \in flags[p]
         /\ flags' = [flags EXCEPT ![p] = (@ \ {"WRITTEN"}) \cup {"SUBMITTED"}]
  /\ w' = [w EXCEPT !.i = @ + 1]
  /\ UNCHANGED <<ptrs, nr_user, submit_flags, limits, thread, device, target>>

\* Mutant of ReadToBio: the flags are read once, before the wait for the copy; the
\* thread then waits for ever.
ReadToBioStale ==
  /\ w.pc = "read" /\ w.i < w.n
  /\ LET p == Wrap(w.pos + w.i)
     IN  IF w.i >= 0 /\ "WRITTEN" \in flags[p]
         THEN /\ flags' = [flags EXCEPT ![p] = (@ \ {"WRITTEN"}) \cup {"SUBMITTED"}]
              /\ submit_flags' = [submit_flags EXCEPT ![p] = TRUE]
              /\ w' = [w EXCEPT !.i = @ + 1]
         ELSE /\ w' = [w EXCEPT !.i = -1]
              /\ UNCHANGED entries
  /\ UNCHANGED <<ptrs, nr_user, limits, thread, device, target>>

\* pblk_rb_read_to_bio, one entry: busy wait for the copy, then mark it sent.
ReadToBio ==
  /\ w.pc = "read" /\ w.i < w.n
  /\ LET p == Wrap(w.pos + w.i)
     IN  /\ "WRITTEN" \in flags[p]
         /\ flags' = [flags EXCEPT ![p] = (@ \ {"WRITTEN"}) \cup {"SUBMITTED"}]
         /\ submit_flags' = [submit_flags EXCEPT ![p] = TRUE]
  /\ w' = [w EXCEPT !.i = @ + 1]
  /\ UNCHANGED <<ptrs, nr_user, limits, thread, device, target>>

\* pblk_rb_read_to_bio fails on an entry: the entry is marked sent, submit_flags
\* is not, and the request is dropped although subm has moved.
ReadToBioErr ==
  /\ WriteErrors
  /\ w.pc = "read" /\ w.i < w.n
  /\ LET p == Wrap(w.pos + w.i)
     IN  /\ "WRITTEN" \in flags[p]
         /\ flags' = [flags EXCEPT ![p] = (@ \ {"WRITTEN"}) \cup {"SUBMITTED"}]
  /\ w' = Idle
  /\ UNCHANGED <<ptrs, nr_user, submit_flags, limits, thread, device, target>>

\* pblk_submit_io_set: the request goes to the device.
SubmitIo ==
  /\ w.pc = "read" /\ w.i = w.n
  /\ inflight' = inflight \cup {[sentry |-> w.pos, nr |-> w.n]}
  /\ w' = Idle
  /\ UNCHANGED <<ptrs, nr_user, entries, limits, thread, compl_list, s_lock, target>>

\* pblk_submit_io_set fails: the request is dropped.
SubmitIoErr ==
  /\ WriteErrors
  /\ w.pc = "read" /\ w.i = w.n
  /\ w' = Idle
  /\ UNCHANGED <<ptrs, nr_user, entries, limits, thread, device, target>>
-------------------------------------------------------------------------------
(* Completions, in any order: pblk_end_io_write, pblk_complete_write.  A failed *)
(* write takes the same path, because pblk_rb_sync_scan_entry finds no entry to *)
(* resubmit (pblk_end_w_fail).                                                  *)

\* pblk_end_w_bio: the sync pointer moves over one request.
SyncAdvance(r) == sync' = Wrap(sync + r.nr)

\* Mutant of CompleteInOrder: whatever completes moves the sync pointer.
CompleteAnyOrder(r) ==
  /\ ~s_lock
  /\ SyncAdvance(r)
  /\ s_lock' = TRUE
  /\ inflight' = inflight \ {r}
  /\ UNCHANGED <<mem, subm, l2p_update, nr_user, entries, limits, thread, w,
                 compl_list, target>>

\* A request whose turn it is; the completion keeps s_lock to drain compl_list.
CompleteInOrder(r) ==
  /\ ~s_lock
  /\ r.sentry = sync
  /\ SyncAdvance(r)
  /\ s_lock' = TRUE
  /\ inflight' = inflight \ {r}
  /\ UNCHANGED <<mem, subm, l2p_update, nr_user, entries, limits, thread, w,
                 compl_list, target>>

\* A request that overtook an older one waits in compl_list.
CompleteEarly(r) ==
  /\ ~s_lock
  /\ r.sentry # sync
  /\ compl_list' = compl_list \cup {r}
  /\ inflight' = inflight \ {r}
  /\ UNCHANGED <<ptrs, nr_user, entries, limits, thread, w, s_lock, target>>

\* One round of the retry loop over compl_list.
DrainOne ==
  /\ s_lock
  /\ \E c \in compl_list :
        /\ c.sentry = sync
        /\ SyncAdvance(c)
        /\ compl_list' = compl_list \ {c}
  /\ UNCHANGED <<mem, subm, l2p_update, nr_user, entries, limits, thread, w,
                 inflight, s_lock, target>>

\* Mutant of DrainEnd: the loop may stop with the next request in the list.
DrainEndTooSoon ==
  /\ s_lock
  /\ s_lock' = FALSE
  /\ UNCHANGED <<ptrs, nr_user, entries, limits, thread, w, inflight, compl_list, target>>

\* Nothing in compl_list is next: pblk_rb_sync_end.
DrainEnd ==
  /\ s_lock
  /\ \A c \in compl_list : c.sentry # sync
  /\ s_lock' = FALSE
  /\ UNCHANGED <<ptrs, nr_user, entries, limits, thread, w, inflight, compl_list, target>>

\* pblk_end_w_fail without memory for a recovery context: nothing completes.
CompleteLost(r) ==
  /\ WriteErrors
  /\ inflight' = inflight \ {r}
  /\ UNCHANGED <<ptrs, nr_user, entries, limits, thread, w, compl_list, s_lock, target>>
-------------------------------------------------------------------------------
(* The surroundings of the ring.                                                *)

\* pblk_rl_u_timer.
UserTimer ==
  /\ rb_user_active
  /\ rb_user_active' = FALSE
  /\ UNCHANGED <<ptrs, nr_user, entries, rb_user_cnt, rb_gc_cnt, rb_space, rate,
                 thread, w, device, target>>

\* pblk_rl_update_rates, when a line is freed, and the free block count, which
\* also falls when a line is taken and the rates stay.
UpdateRates ==
  /\ rate' \in Rates \ {rate}
  /\ UNCHANGED <<ptrs, nr_user, entries, rb_user_cnt, rb_gc_cnt, rb_user_active,
                 rb_space, thread, w, device, target>>

\* pblk_stop_writes, called once per ring when its writer gets no next line.
StopWrites ==
  /\ LineShortage /\ ~stopping
  /\ rb_space' = 0
  /\ stopping' = TRUE
  /\ UNCHANGED <<ptrs, nr_user, entries, rb_user_cnt, rb_gc_cnt, rb_user_active,
                 rate, thread, w, device, phase>>

\* pblk_tear_down, part one: no more bios and GC requests arrive, and
\* pblk_wait_for_meta has seen no request in flight.
TearDownWait ==
  /\ Removal /\ phase = "run"
  /\ \A t \in Threads : pc[t] = "idle"
  /\ inflight = {} /\ ~s_lock
  /\ phase' = "waited"
  /\ UNCHANGED <<ptrs, nr_user, entries, limits, thread, w, device, stopping>>

\* Part two: the writer thread is stopped, then pblk_rb_sync_l2p.
TearDownSync ==
  /\ phase = "waited" /\ w.pc = "idle"
  /\ UpdateL2p(RingCount(sync, l2p_update), 0)
  /\ phase' = "down"
  /\ UNCHANGED <<mem, subm, sync, nr_user, rb_user_active, rb_space, rate, thread, w,
                 device, stopping>>
-------------------------------------------------------------------------------
Thread(t) ==
  \/ MayWriteUser(t) \/ MayWriteUserErr(t) \/ UserIn(t) \/ MayWriteGc(t)
  \/ WriteEntry(t) \/ Inserted(t) \/ Release(t) \/ GcKick(t)

Writer == WriterCount \/ WriterCommit \/ WriterSleep \/ ReadToBio \/ SubmitIo

Complete(r) == CompleteInOrder(r) \/ CompleteEarly(r)

Next ==
  \/ \E t \in Threads : Begin(t) \/ Thread(t)
  \/ Writer \/ ReadToBioErr \/ SubmitIoErr
  \/ \E r \in inflight : Complete(r) \/ CompleteLost(r)
  \/ DrainOne \/ DrainEnd
  \/ UserTimer \/ UpdateRates \/ StopWrites \/ TearDownWait \/ TearDownSync

\* Kernel threads and bios that are being served run on; every request sent to
\* the device comes back, and no two of them start at the same entry; the one
\* second timer wakes the writer thread up again.
Fairness ==
  /\ \A t \in Threads : WF_vars(Thread(t))
  /\ WF_vars(Writer)
  /\ \A p \in Pos : WF_vars(\E r \in inflight : r.sentry = p /\ Complete(r))
  /\ WF_vars(DrainOne \/ DrainEnd)

Spec == Init /\ [][Next]_vars

FairSpec == Spec /\ Fairness
-------------------------------------------------------------------------------
(* Properties.                                                                  *)

RingType ==
  /\ mem \in Pos /\ subm \in Pos /\ sync \in Pos /\ l2p_update \in Pos
  /\ flags \in [Pos -> SUBSET {"USER", "GC", "WRITTEN", "SUBMITTED", "WRITABLE"}]
  /\ submit_flags \in [Pos -> BOOLEAN]

LimitType ==
  /\ nr_user \in Int /\ rb_user_cnt \in Int /\ rb_gc_cnt \in Int /\ rb_space \in Int
  /\ rate \in Rates

ThreadType ==
  /\ pc \in [Threads -> {"idle", "may_write", "user_in", "copy", "inserted",
                         "release", "kick"}]
  /\ nr \in [Threads -> 0 .. NrEntries - 1]
  /\ bpos \in [Threads -> Pos]
  /\ idx \in [Threads -> 0 .. NrEntries - 1]

DeviceType ==
  /\ w \in [pc : {"idle", "commit", "read"}, pos : Pos, n : Nat, i : Nat]
  /\ inflight \subseteq [sentry : Pos, nr : Nat]
  /\ compl_list \subseteq [sentry : Pos, nr : Nat]

SwitchType == rb_user_active \in BOOLEAN /\ s_lock \in BOOLEAN /\ stopping \in BOOLEAN

\* Every variable keeps its type; in particular no pointer leaves the ring.
TypeOK ==
  /\ RingType /\ LimitType /\ ThreadType /\ DeviceType /\ SwitchType
  /\ phase \in {"run", "waited", "down"}

\* The four pointers never overtake each other: going round the ring from
\* l2p_update one meets sync, then subm, then mem.  Every count and space that
\* pblk-rb.c computes presupposes it.
PtrOrder ==
  /\ RingCount(sync, l2p_update) <= RingCount(subm, l2p_update)
  /\ RingCount(subm, l2p_update) <= RingCount(mem, l2p_update)

\* Entries thread t has claimed and not yet filled.
Pending(t) == IF pc[t] \in {"user_in", "copy"}
              THEN Window(Wrap(bpos[t] + idx[t]), nr[t] - idx[t]) ELSE {}

\* Threads that fill entries concurrently, outside every lock, own disjoint
\* entries, and each entry they have yet to fill is free: the BUG_ON of
\* pblk_rb_write_entry_user and pblk_rb_write_entry_gc never fires.
ClaimsExclusive ==
  /\ \A t \in Threads : \A p \in Pending(t) : flags[p] = {"WRITABLE"}
  /\ \A t, v \in Threads : t # v => Pending(t) \cap Pending(v) = {}

\* Requests the writer thread has formed and whose completion is not yet applied.
Requests == inflight \cup compl_list
            \cup (IF w.pc = "read" THEN {[sentry |-> w.pos, nr |-> w.n]} ELSE {})

\* Entries the ring regards as stored on media.
Synced == Window(l2p_update, RingCount(sync, l2p_update))

\* Completions arrive in any order, yet sync never passes an entry of a request
\* that is being formed, in flight or waiting in compl_list, and no entry is in
\* two of them: an entry the ring regards as stored has been stored.
SyncInOrder ==
  /\ \A r \in Requests : Window(r.sentry, r.nr) \cap Synced = {}
  /\ \A r, q \in Requests :
        r # q => Window(r.sentry, r.nr) \cap Window(q.sentry, q.nr) = {}

\* Entries the next L2P update can reach are sent, typed and have submit_flags:
\* clean_wctx never spins under w_lock, and "unknown IO type" never shows.
SyncedAreSent ==
  \A p \in Synced : /\ submit_flags[p]
                    /\ flags[p] \in {{"USER", "SUBMITTED"}, {"GC", "SUBMITTED"}}

\* One element per entry the threads in ts have accounted for and not yet filled.
Unfilled(ts) ==
  {s \in ts \X Pos : pc[s[1]] = "copy" /\ idx[s[1]] <= s[2] /\ s[2] < nr[s[1]]}

\* One element per entry of the user chunks between claim and release.
Copying ==
  {s \in Users \X Pos :
     /\ pc[s[1]] \in {"user_in", "copy", "inserted", "release"}
     /\ s[2] < nr[s[1]]}

\* The rate limiter's counters are exact although they are moved in critical
\* sections other than the claim's: they count the entries of their type in the
\* ring and those the threads past their accounting have yet to fill, and nr_user
\* counts the entries of the user chunks between claim and release.
CountersExact ==
  /\ rb_user_cnt = Cardinality(OfType(Pos, "USER")) + Cardinality(Unfilled(Users))
  /\ rb_gc_cnt = Cardinality(OfType(Pos, "GC")) + Cardinality(Unfilled(GcWriters))
  /\ nr_user = Cardinality(Copying)

\* The busy wait in pblk_rb_read_to_bio ends: the writer thread, which may take
\* entries that a slower user is still copying, always gets to submit.
BusyWaitEnds == w.pc = "read" ~> w.pc = "idle"

\* However the writers, the writer thread and the completions interleave, the
\* ring has room for a chunk the size of one device write again and again: nobody
\* waits for ever for entries that only they themselves could push out.  A larger
\* chunk has no such promise: smaller ones may take each entry that is freed.
RoomReturns == []<>MayWrite(SecPerWrite)

\* A request that overtook older ones is not left behind in compl_list, although
\* only the completion of a request whose turn it is looks into that list.
EarlyDrained ==
  \A p \in Pos : (\E r \in compl_list : r.sentry = p) ~> (\A r \in compl_list : r.sentry # p)
-------------------------------------------------------------------------------
(* The inductive invariant behind the safety properties.  Segments are measured *)
(* from sync: what lies in front of it is stored, what a thread or a request    *)
(* still works on lies behind it.                                               *)

\* An entry the device has been given.
Sent(p) == submit_flags[p] /\ flags[p] \in {{"USER", "SUBMITTED"}, {"GC", "SUBMITTED"}}

\* The n entries from p on lie between sync and the pointer end.
Between(p, n, end) == RingCount(p, sync) + n <= RingCount(end, sync)

RingInv ==
  /\ RingCount(subm, sync) <= RingCount(mem, sync)
  /\ RingCount(sync, l2p_update) + RingCount(mem, sync) <= NrEntries - 1

ThreadInv ==
  \A t \in Threads :
    /\ pc[t] \in {"idle", "may_write", "user_in"} => idx[t] = 0
    /\ pc[t] = "copy" => idx[t] < nr[t]
    /\ pc[t] \in {"user_in", "inserted", "release"} => t \in Users
    /\ pc[t] \in {"user_in", "copy"} /\ idx[t] < nr[t] =>
         Between(Wrap(bpos[t] + idx[t]), nr[t] - idx[t], mem)

\* The requests the writer thread has handed over.
Handed == inflight \cup compl_list

RequestInv ==
  /\ \A r \in Handed : /\ r.nr >= 1
                       /\ Between(r.sentry, r.nr, subm)
                       /\ \A p \in Window(r.sentry, r.nr) : Sent(p)
  /\ \A r, q \in Handed : r # q => Window(r.sentry, r.nr) \cap Window(q.sentry, q.nr) = {}
  /\ inflight \cap compl_list = {}

WriterInv ==
  /\ w.pc = "commit" => w.n <= RingCount(mem, subm)
  /\ w.pc = "read" =>
       /\ w.n >= 1 /\ w.i <= w.n
       /\ Between(w.pos, w.n, subm)
       /\ \A p \in Window(w.pos, w.i) : Sent(p)
       /\ \A r \in Handed : Window(r.sentry, r.nr) \cap Window(w.pos, w.n) = {}

EntryInv ==
  \A p \in Pos :
    /\ flags[p] \in {{"WRITABLE"}, {"USER", "WRITTEN"}, {"GC", "WRITTEN"},
                     {"USER", "SUBMITTED"}, {"GC", "SUBMITTED"}}
    /\ RingCount(p, l2p_update) >= RingCount(mem, l2p_update) => flags[p] = {"WRITABLE"}

\* Everything at once: pointer order, ownership of every segment, and what the
\* flags of its entries say about it.
IndInv ==
  /\ TypeOK /\ RingInv /\ ThreadInv /\ RequestInv /\ WriterInv /\ EntryInv
  /\ SyncedAreSent /\ ClaimsExclusive

-------------------------------------------------------------------------------
(* The ring implements the queue of PblkBuffer.                                 *)

Stage(p) ==
  CASE p \in Synced                -> "stored"
    [] "SUBMITTED" \in flags[p]    -> "sent"
    [] "WRITTEN" \in flags[p]      -> "filled"
    [] OTHER                       -> "claimed"

Buffer == INSTANCE PblkBuffer WITH
  Capacity <- NrEntries - 1,
  log <- [i \in 1 .. RingCount(mem, l2p_update) |-> Stage(Wrap(l2p_update + i - 1))]

\* Seen from outside, the concurrent ring is the bounded queue of PblkBuffer: no
\* entry is sent before its data is in it, skipped, stored out of order, reused
\* before it is stored, or changed by a step that does not concern it.
ImplementsBuffer == Buffer!Spec
-------------------------------------------------------------------------------
(* What comments in the code say of the ring, and the code does not do.         *)

\* "Unless stalled, the rate limiter leaves at least 256KB available for user I/O"
\* (pblk_rw_io): while the limiter grants users a share of the ring, a waiting
\* chunk is admitted some day.
UserNotStalled ==
  \A t \in Users : pc[t] = "may_write" ~> pc[t] # "may_write"
===============================================================================
