----------------------------- MODULE PblkRbProofs -----------------------------
(* Proofs about PblkRb for every ring size, every set of threads and every      *)
(* request size the assumptions of PblkRing and PblkRb allow.                   *)
EXTENDS PblkRb, TLAPS

-------------------------------------------------------------------------------
(* Ring arithmetic.                                                             *)

\* Wrapping a sum of a position and at most one round gives a position.
LEMMA WrapPos ==
  ASSUME NEW a \in Pos, NEW k \in 0 .. NrEntries
  PROVE  Wrap(a + k) \in Pos
BY NrEntriesAssumption DEF Wrap, Pos

\* A distance is below the ring's size, and zero only between equal positions.
LEMMA CountRange ==
  ASSUME NEW a \in Pos, NEW b \in Pos
  PROVE  /\ RingCount(a, b) \in 0 .. NrEntries - 1
         /\ RingCount(a, b) = 0 <=> a = b
BY NrEntriesAssumption DEF RingCount, Pos

\* The free space of pblk_rb_ring_space is what the count leaves, but for one.
LEMMA SpaceIsRest ==
  ASSUME NEW a \in Pos, NEW b \in Pos
  PROVE  RingSpace(a, b) = NrEntries - 1 - RingCount(a, b)
BY NrEntriesAssumption DEF RingSpace, RingCount, Wrap, Pos

\* Moving the head by k adds k to the count, as long as it does not lap the tail.
LEMMA MoveHead ==
  ASSUME NEW a \in Pos, NEW b \in Pos, NEW k \in 0 .. NrEntries,
         RingCount(a, b) + k < NrEntries
  PROVE  RingCount(Wrap(a + k), b) = RingCount(a, b) + k
BY NrEntriesAssumption DEF RingCount, Wrap, Pos

\* Moving the tail by k, not past the head, takes k off the count.
LEMMA MoveTail ==
  ASSUME NEW a \in Pos, NEW b \in Pos, NEW k \in 0 .. NrEntries,
         k <= RingCount(a, b)
  PROVE  RingCount(a, Wrap(b + k)) = RingCount(a, b) - k
BY NrEntriesAssumption DEF RingCount, Wrap, Pos

\* A tail that moves past position a makes it the far end of the ring.
LEMMA MoveTailPast ==
  ASSUME NEW a \in Pos, NEW b \in Pos, NEW k \in 0 .. NrEntries,
         RingCount(a, b) < k
  PROVE  RingCount(a, Wrap(b + k)) = RingCount(a, b) - k + NrEntries
BY NrEntriesAssumption DEF RingCount, Wrap, Pos

\* Distances add up, modulo one round.
LEMMA Chain ==
  ASSUME NEW a \in Pos, NEW b \in Pos, NEW c \in Pos
  PROVE  \/ RingCount(a, c) = RingCount(a, b) + RingCount(b, c)
         \/ RingCount(a, c) = RingCount(a, b) + RingCount(b, c) - NrEntries
BY NrEntriesAssumption DEF RingCount, Pos

\* CalcSecs never takes more than is available and, above the minimum, takes some.
LEMMA CalcSecsRange ==
  ASSUME NEW a \in Nat, a >= MinWrite
  PROVE  CalcSecs(a) \in 1 .. a
<1> MinWrite \in Nat \ {0} /\ SecPerWrite \in Nat \ {0}
  BY RbAssumption
<1> a \div MinWrite \in Int /\ a = (MinWrite * (a \div MinWrite)) + (a % MinWrite)
      /\ a % MinWrite \in 0 .. MinWrite - 1
  OBVIOUS
<1>3. DEFINE d == a \div MinWrite
             e == a % MinWrite
<1>4. MinWrite * d \in 1 .. a
  <2> MinWrite * d \in Int
    OBVIOUS
  <2>2. MinWrite * d <= a
    OBVIOUS
  <2>3. MinWrite * d >= 1
    OBVIOUS
  <2> QED BY <2>2, <2>3
<1> QED BY <1>4 DEF CalcSecs
-------------------------------------------------------------------------------
(* Facts about the constants, the counters and steps that leave the ring alone. *)

\* A set of entries has a number of members (see PosCountable).
Countable == \A S \in SUBSET Pos : Cardinality(S) \in Nat

\* Chunks are smaller than the ring.
LEMMA ChunkRange ==
  ASSUME NEW t \in Threads
  PROVE  MaxChunk(t) \in 0 .. NrEntries - 1
BY RbAssumption, NrEntriesAssumption DEF MaxChunk

\* The initial ring is empty and every entry is writable.
LEMMA InitInv == Init => IndInv
<1> SUFFICES ASSUME Init PROVE IndInv
  OBVIOUS
<1> USE NrEntriesAssumption DEF Init
<1>1. TypeOK
  <2>1. RingType
    BY DEF RingType, Pos
  <2>2. LimitType
    BY DEF LimitType
  <2>3. ThreadType
    BY DEF ThreadType, Pos
  <2>4. DeviceType
    BY DEF DeviceType, Idle, Pos
  <2>5. SwitchType
    BY Zenon DEF SwitchType
  <2>6. phase \in {"run", "waited", "down"}
    OBVIOUS
  <2> HIDE DEF Init
  <2> QED BY <2>1, <2>2, <2>3, <2>4, <2>5, <2>6 DEF TypeOK
<1>2. RingInv
  BY DEF RingInv, RingCount
<1>3. ThreadInv
  BY DEF ThreadInv
<1>4. RequestInv
  BY DEF RequestInv, Handed
<1>5. WriterInv
  BY DEF WriterInv, Idle
<1>6. EntryInv
  BY DEF EntryInv
<1>7. SyncedAreSent
  BY DEF SyncedAreSent, Synced, Window, RingCount, Pos
<1>8. ClaimsExclusive
  BY DEF ClaimsExclusive, Pending
<1> QED BY <1>1, <1>2, <1>3, <1>4, <1>5, <1>6, <1>7, <1>8 DEF IndInv

\* A step that touches neither pointers nor entries nor requests keeps what is
\* said of them.
LEMMA Frame ==
  ASSUME IndInv, UNCHANGED <<ptrs, entries, device>>
  PROVE  RingInv' /\ RequestInv' /\ EntryInv' /\ SyncedAreSent'
<1> USE DEF IndInv, ptrs, entries, device
<1>1. RingInv'
  BY DEF RingInv
<1>2. RequestInv'
  BY DEF RequestInv, Handed, Between, Sent
<1>3. EntryInv'
  BY DEF EntryInv
<1>4. SyncedAreSent'
  BY DEF SyncedAreSent, Synced
<1> QED BY <1>1, <1>2, <1>3, <1>4

\* The same for what is said of threads, when no thread moves and the entries and
\* the pointers mem and sync stay.
LEMMA FrameThreads ==
  ASSUME IndInv, UNCHANGED <<mem, sync, flags, thread>>
  PROVE  ThreadInv' /\ ClaimsExclusive'
BY DEF IndInv, thread, ThreadInv, ClaimsExclusive, Pending, Between

\* The same for what is said of the writer thread.
LEMMA FrameWriter ==
  ASSUME IndInv, UNCHANGED <<ptrs, entries, w, device>>
  PROVE  WriterInv'
BY DEF IndInv, ptrs, entries, device, WriterInv, Between, Sent, Handed

\* Timers, rate updates and the stopping of the pipeline leave the ring alone.
LEMMA SurroundingsInv ==
  ASSUME IndInv, UserTimer \/ UpdateRates \/ StopWrites \/ TearDownWait
  PROVE  IndInv'
<1> UNCHANGED <<ptrs, nr_user, entries, thread, w, device>>
  BY DEF UserTimer, UpdateRates, StopWrites, TearDownWait
<1>2. TypeOK'
  <2>1. RingType' /\ ThreadType' /\ DeviceType'
    BY DEF IndInv, TypeOK, RingType, ThreadType, DeviceType, ptrs, entries, thread,
                device
  <2>2. LimitType'
    BY DEF IndInv, TypeOK, LimitType, UserTimer, UpdateRates, StopWrites, TearDownWait,
           limits
  <2>3. SwitchType'
    BY Zenon DEF IndInv, TypeOK, SwitchType, UserTimer, UpdateRates, StopWrites,
                       TearDownWait, limits, target, device
  <2>4. phase' \in {"run", "waited", "down"}
    BY DEF IndInv, TypeOK, UserTimer, UpdateRates, StopWrites, TearDownWait, target
  <2> QED BY <2>1, <2>2, <2>3, <2>4 DEF TypeOK
<1>3. UNCHANGED <<mem, sync, flags, thread>>
  BY DEF ptrs, entries
<1> QED BY <1>2, <1>3, Frame, FrameThreads, FrameWriter DEF IndInv

\* Steps of a thread that only move its own control and the counters.
LEMMA ControlInv ==
  ASSUME IndInv, NEW t \in Threads,
         \/ Begin(t) \/ MayWriteUserErr(t) \/ UserIn(t) \/ Inserted(t) \/ Release(t)
         \/ GcKick(t)
  PROVE  IndInv'
<1> USE DEF Begin, MayWriteUserErr, UserIn, Inserted, Release, GcKick, Leave
<1>1. UNCHANGED <<ptrs, entries, w, device>>
  OBVIOUS
<1>2. TypeOK'
  <2>1. RingType' /\ DeviceType'
    BY <1>1 DEF IndInv, TypeOK, RingType, DeviceType, ptrs, entries, device
  <2>2. LimitType'
    BY DEF IndInv, TypeOK, LimitType, ThreadType, limits
  <2>3. ThreadType'
    <3>1. CASE Begin(t)
      <4>1. PICK n \in 0 .. MaxChunk(t) : nr' = [nr EXCEPT ![t] = n]
        BY <3>1, Zenon
      <4>2. n \in 0 .. NrEntries - 1
        <5> HIDE DEF Begin, MayWriteUserErr, UserIn, Inserted, Release, GcKick, Leave
        <5>1. MaxChunk(t) \in 0 .. NrEntries - 1
          BY ChunkRange
        <5> QED BY <5>1, NrEntriesAssumption
      <4> QED BY <3>1, <4>1, <4>2 DEF IndInv, TypeOK, ThreadType
    <3>2. CASE ~Begin(t)
      <4> HIDE DEF Begin
      <4> QED BY <3>2, NrEntriesAssumption DEF IndInv, TypeOK, ThreadType, Pos
    <3> QED BY <3>1, <3>2
  <2>4. SwitchType'
    BY Zenon DEF IndInv, TypeOK, SwitchType, limits, target, device
  <2>5. phase' \in {"run", "waited", "down"}
    BY DEF IndInv, TypeOK, target
  <2> QED BY <2>1, <2>2, <2>3, <2>4, <2>5 DEF TypeOK
<1>3. ThreadInv'
  BY <1>1, NrEntriesAssumption DEF IndInv, TypeOK, ThreadType, ThreadInv, Between, ptrs
<1>4. ClaimsExclusive'
  <2>1. \A v \in Threads : Pending(v)' \subseteq Pending(v)
    BY <1>1, NrEntriesAssumption DEF IndInv, TypeOK, ThreadType, ThreadInv, Pending,
       Window
  <2> QED BY <1>1, <2>1 DEF IndInv, ClaimsExclusive, entries
<1> QED BY <1>1, <1>2, <1>3, <1>4, Frame, FrameWriter DEF IndInv
-------------------------------------------------------------------------------
(* Segments of the ring.                                                        *)

\* A position in the segment of m entries from a on is as far from b as a at
\* least, and less than m further.
LEMMA InSegment ==
  ASSUME NEW a \in Pos, NEW b \in Pos, NEW m \in Nat, NEW p \in Window(a, m),
         RingCount(a, b) + m < NrEntries
  PROVE  /\ p \in Pos
         /\ RingCount(p, b) = RingCount(a, b) + RingCount(p, a)
         /\ RingCount(p, a) < m
BY NrEntriesAssumption DEF Window, RingCount, Pos

\* The order of the pointers, in the form the proofs measure it.
LEMMA Distances ==
  ASSUME TypeOK, RingInv
  PROVE  /\ RingCount(mem, l2p_update) = RingCount(mem, sync) + RingCount(sync, l2p_update)
         /\ RingCount(subm, l2p_update) = RingCount(subm, sync) + RingCount(sync, l2p_update)
         /\ RingCount(mem, subm) = RingCount(mem, sync) - RingCount(subm, sync)
BY NrEntriesAssumption DEF TypeOK, RingType, RingInv, RingCount, Pos

\* What lies between sync and mem is not yet stored.
LEMMA NotSynced ==
  ASSUME TypeOK, RingInv, NEW p \in Pos, RingCount(p, sync) < RingCount(mem, sync)
  PROVE  p \notin Synced
BY NrEntriesAssumption DEF TypeOK, RingType, RingInv, RingCount, Pos, Synced, Window

\* Every entry a thread has yet to fill lies between sync and mem.
LEMMA PendingBetween ==
  ASSUME IndInv, NEW t \in Threads, NEW p \in Pending(t)
  PROVE  p \in Pos /\ RingCount(p, sync) < RingCount(mem, sync)
<1> DEFINE a == Wrap(bpos[t] + idx[t])
           m == nr[t] - idx[t]
<1>1. pc[t] \in {"user_in", "copy"} /\ p \in Window(a, m)
  BY DEF Pending
<1> /\ bpos[t] \in Pos /\ idx[t] \in 0 .. NrEntries - 1 /\ nr[t] \in 0 .. NrEntries - 1
      /\ mem \in Pos /\ sync \in Pos
  BY DEF IndInv, TypeOK, ThreadType, RingType
<1> a \in Pos
  BY NrEntriesAssumption DEF Wrap, Pos
<1>4. idx[t] < nr[t]
  <2>1. RingCount(p, a) \in Nat /\ RingCount(p, a) < m
    BY <1>1, CountRange DEF Window
  <2> HIDE DEF a
  <2> QED BY <2>1
<1>5. RingCount(a, sync) + m <= RingCount(mem, sync)
  BY <1>1, <1>4 DEF IndInv, ThreadInv, Between
<1>6. RingCount(mem, sync) \in 0 .. NrEntries - 1 /\ RingCount(a, sync) \in 0 .. NrEntries - 1
  BY CountRange
<1>7. m \in Nat
  BY <1>4
<1> HIDE DEF a, m
<1>8. /\ p \in Pos
      /\ RingCount(p, sync) = RingCount(a, sync) + RingCount(p, a)
      /\ RingCount(p, a) < m
  BY <1>1, <1>5, <1>6, <1>7, InSegment, NrEntriesAssumption
<1>9. RingCount(p, a) \in Int
  BY <1>8, CountRange
<1> QED BY <1>5, <1>6, <1>7, <1>8, <1>9

\* Every entry of a request lies between sync and subm.
LEMMA RequestBetween ==
  ASSUME IndInv, NEW r \in [sentry : Pos, nr : Nat], Between(r.sentry, r.nr, subm),
         NEW p \in Window(r.sentry, r.nr)
  PROVE  /\ p \in Pos
         /\ RingCount(p, sync) < RingCount(subm, sync)
         /\ RingCount(p, sync) < RingCount(mem, sync)
         /\ RingCount(p, sync) >= RingCount(r.sentry, sync)
<1> r.sentry \in Pos /\ r.nr \in Nat /\ sync \in Pos /\ subm \in Pos /\ mem \in Pos
  BY DEF IndInv, TypeOK, RingType
<1>2. /\ RingCount(subm, sync) \in 0 .. NrEntries - 1
      /\ RingCount(mem, sync) \in 0 .. NrEntries - 1
      /\ RingCount(r.sentry, sync) \in 0 .. NrEntries - 1
  BY CountRange
<1>3. RingCount(r.sentry, sync) + r.nr <= RingCount(subm, sync)
  BY DEF Between
<1>4. /\ p \in Pos
      /\ RingCount(p, sync) = RingCount(r.sentry, sync) + RingCount(p, r.sentry)
      /\ RingCount(p, r.sentry) < r.nr
  BY <1>2, <1>3, InSegment, NrEntriesAssumption
<1>5. RingCount(p, r.sentry) \in Nat
  BY <1>4, CountRange
<1>6. RingCount(subm, sync) <= RingCount(mem, sync)
  BY DEF IndInv, RingInv
<1> QED BY <1>2, <1>3, <1>4, <1>5, <1>6

\* The first entry of a segment lies in it.
LEMMA FirstInWindow ==
  ASSUME NEW a \in Pos, NEW m \in Nat, m >= 1
  PROVE  a \in Window(a, m)
BY CountRange DEF Window

-------------------------------------------------------------------------------
(* Completions.                                                                 *)

\* Completions that leave sync alone only move or drop requests.
LEMMA CompleteAsideInv ==
  ASSUME IndInv, (\E r \in inflight : CompleteEarly(r) \/ CompleteLost(r)) \/ DrainEnd
  PROVE  IndInv'
<1>1. /\ UNCHANGED <<ptrs, nr_user, entries, limits, thread, w, target>>
      /\ Handed' \subseteq Handed /\ inflight' \cap compl_list' = {}
      /\ inflight' \subseteq inflight \cup compl_list
      /\ compl_list' \subseteq inflight \cup compl_list
  BY DEF CompleteEarly, CompleteLost, DrainEnd, IndInv, RequestInv, Handed
<1>2. TypeOK
  BY DEF IndInv
<1>3. TypeOK'
  <2>1. RingType' /\ LimitType' /\ ThreadType' /\ phase' \in {"run", "waited", "down"}
    BY <1>1, <1>2 DEF TypeOK, RingType, LimitType, ThreadType, ptrs, entries, limits,
                      thread, target
  <2>2. s_lock' \in BOOLEAN
    BY <1>2, Zenon DEF TypeOK, SwitchType, CompleteEarly, CompleteLost, DrainEnd
  <2>3. SwitchType'
    BY <1>1, <1>2, <2>2, Zenon DEF TypeOK, SwitchType, limits, target
  <2>4. DeviceType'
    BY <1>1, <1>2 DEF TypeOK, DeviceType
  <2> QED BY <2>1, <2>2, <2>3, <2>4 DEF TypeOK
<1> UNCHANGED <<mem, subm, sync, l2p_update, flags, submit_flags, thread>>
  BY <1>1 DEF ptrs, entries
<1>5. \A p : Sent(p)' <=> Sent(p)
  BY DEF Sent
<1>6. RequestInv' /\ WriterInv'
  BY <1>1, <1>5 DEF IndInv, RequestInv, WriterInv, Between
<1>7. RingInv' /\ EntryInv' /\ SyncedAreSent'
  BY DEF IndInv, RingInv, EntryInv, SyncedAreSent, Synced
<1> QED BY <1>3, <1>6, <1>7, FrameThreads DEF IndInv

\* What a move of sync over request r does to the distance of a position that is
\* not an entry of r.
LEMMA SyncMoveArith ==
  ASSUME IndInv, NEW r \in Handed, r.sentry = sync
  PROVE  LET s == Wrap(sync + r.nr) IN
         /\ s \in Pos /\ r.nr \in 1 .. RingCount(subm, sync)
         /\ RingCount(s, l2p_update) = RingCount(sync, l2p_update) + r.nr
         /\ \A p \in Pos : RingCount(p, sync) >= r.nr =>
              RingCount(p, s) = RingCount(p, sync) - r.nr
         /\ \A p \in Pos : p \notin Window(r.sentry, r.nr) =>
              RingCount(p, sync) >= r.nr
<1> /\ sync \in Pos /\ subm \in Pos /\ l2p_update \in Pos /\ mem \in Pos
      /\ r.nr \in Nat /\ r.nr >= 1 /\ RingCount(sync, sync) + r.nr <= RingCount(subm, sync)
  BY DEF IndInv, TypeOK, RingType, DeviceType, Handed, RequestInv, Between
<1>2. /\ RingCount(sync, sync) = 0 /\ RingCount(subm, sync) \in 0 .. NrEntries - 1
      /\ RingCount(sync, l2p_update) \in 0 .. NrEntries - 1
      /\ RingCount(mem, sync) \in 0 .. NrEntries - 1
  BY CountRange
<1>3. /\ RingCount(subm, sync) <= RingCount(mem, sync)
      /\ RingCount(sync, l2p_update) + RingCount(mem, sync) <= NrEntries - 1
  BY DEF IndInv, RingInv
<1> r.nr \in 0 .. NrEntries /\ r.nr \in 1 .. RingCount(subm, sync)
  BY <1>2, NrEntriesAssumption
<1>5. Wrap(sync + r.nr) \in Pos
  BY WrapPos
<1>6. RingCount(sync, l2p_update) + r.nr < NrEntries
  BY <1>2, <1>3, NrEntriesAssumption
<1>7. RingCount(Wrap(sync + r.nr), l2p_update) = RingCount(sync, l2p_update) + r.nr
  BY <1>6, MoveHead
<1>8. \A p \in Pos : RingCount(p, sync) >= r.nr =>
        RingCount(p, Wrap(sync + r.nr)) = RingCount(p, sync) - r.nr
  <2> SUFFICES ASSUME NEW p \in Pos, RingCount(p, sync) >= r.nr
               PROVE  RingCount(p, Wrap(sync + r.nr)) = RingCount(p, sync) - r.nr
    OBVIOUS
  <2>1. RingCount(p, sync) \in Nat
    BY CountRange
  <2>2. r.nr <= RingCount(p, sync)
    BY <2>1
  <2> QED BY <2>2, MoveTail
<1>9. \A p \in Pos : p \notin Window(r.sentry, r.nr) => RingCount(p, sync) >= r.nr
  BY CountRange DEF Window
<1> QED BY <1>5, <1>7, <1>8, <1>9

\* Moving sync over the request whose turn it is.
LEMMA SyncMoveInv ==
  ASSUME IndInv, (\E r \in inflight : CompleteInOrder(r)) \/ DrainOne
  PROVE  IndInv'
<1>1. PICK r \in Handed :
        /\ r.sentry = sync /\ sync' = Wrap(sync + r.nr)
        /\ Handed' \subseteq Handed \ {r} /\ inflight' \cap compl_list' = {}
        /\ inflight' \subseteq inflight /\ compl_list' \subseteq compl_list
        /\ UNCHANGED <<mem, subm, l2p_update, nr_user, entries, limits, thread, w, target>>
        /\ (s_lock' = TRUE \/ s_lock' = s_lock)
  BY DEF CompleteInOrder, DrainOne, SyncAdvance, IndInv, RequestInv, Handed
<1>2. TypeOK /\ RingType /\ ThreadType /\ DeviceType
  BY DEF IndInv, TypeOK
<1>3. /\ sync' \in Pos /\ r.nr \in 1 .. RingCount(subm, sync)
      /\ RingCount(sync', l2p_update) = RingCount(sync, l2p_update) + r.nr
      /\ \A p \in Pos : RingCount(p, sync) >= r.nr =>
           RingCount(p, sync') = RingCount(p, sync) - r.nr
      /\ \A p \in Pos : p \notin Window(r.sentry, r.nr) => RingCount(p, sync) >= r.nr
  BY <1>1, SyncMoveArith
<1>4. mem \in Pos /\ subm \in Pos /\ sync \in Pos /\ l2p_update \in Pos
  BY <1>2 DEF RingType
<1>5. /\ RingCount(mem, sync) \in 0 .. NrEntries - 1
      /\ RingCount(subm, sync) \in 0 .. NrEntries - 1
      /\ RingCount(sync, l2p_update) \in 0 .. NrEntries - 1
      /\ RingCount(subm, sync) <= RingCount(mem, sync)
      /\ RingCount(sync, l2p_update) + RingCount(mem, sync) <= NrEntries - 1
  BY <1>4, CountRange DEF IndInv, RingInv
<1>6. /\ RingCount(mem, sync') = RingCount(mem, sync) - r.nr
      /\ RingCount(subm, sync') = RingCount(subm, sync) - r.nr
  <2>1. RingCount(mem, sync) >= r.nr /\ RingCount(subm, sync) >= r.nr
    BY <1>3, <1>5
  <2> QED BY <1>3, <1>4, <2>1
<1>7. UNCHANGED <<mem, subm, l2p_update, flags, submit_flags, thread>>
  BY <1>1 DEF entries
<1>8. RingInv'
  <2>1. /\ RingCount(subm, sync') <= RingCount(mem, sync')
        /\ RingCount(sync', l2p_update) + RingCount(mem, sync') <= NrEntries - 1
    BY <1>3, <1>5, <1>6
  <2> QED BY <1>7, <2>1 DEF RingInv
<1>9. TypeOK'
  <2>1. RingType'
    BY <1>2, <1>3, <1>7 DEF RingType
  <2>2. LimitType' /\ ThreadType' /\ phase' \in {"run", "waited", "down"}
    BY <1>1, <1>2 DEF TypeOK, LimitType, ThreadType, limits, thread, target
  <2>3. SwitchType'
    BY <1>1, <1>2, Zenon DEF TypeOK, SwitchType, limits, target
  <2>4. DeviceType'
    BY <1>1, <1>2 DEF DeviceType
  <2> QED BY <2>1, <2>2, <2>3, <2>4 DEF TypeOK
<1>10. \A p : Sent(p)' <=> Sent(p)
  BY <1>7 DEF Sent
<1>11. \A p \in Window(r.sentry, r.nr) : Sent(p)
  BY DEF IndInv, RequestInv
\* A segment whose first entry is not one of r's keeps its place behind sync.
<1>12. ASSUME NEW a \in Pos, a \notin Window(r.sentry, r.nr), NEW m \in Int, NEW e \in {mem, subm},
              RingCount(a, sync) + m <= RingCount(e, sync)
       PROVE  RingCount(a, sync') + m <= RingCount(e, sync')
  <2>1. RingCount(a, sync') = RingCount(a, sync) - r.nr
    BY <1>3, <1>12
  <2>2. RingCount(a, sync) \in Nat
    BY <1>4, CountRange
  <2> QED BY <1>3, <1>5, <1>6, <1>12, <2>1, <2>2
<1>13. ThreadInv'
  <2>1. ASSUME NEW t \in Threads, pc[t] \in {"user_in", "copy"}, idx[t] < nr[t]
        PROVE  RingCount(Wrap(bpos[t] + idx[t]), sync') + (nr[t] - idx[t]) <= RingCount(mem, sync')
    <3> DEFINE a == Wrap(bpos[t] + idx[t])
               m == nr[t] - idx[t]
    <3>1. /\ bpos[t] \in Pos /\ idx[t] \in 0 .. NrEntries - 1 /\ nr[t] \in 0 .. NrEntries - 1
          /\ RingCount(a, sync) + m <= RingCount(mem, sync)
      BY <1>2, <2>1 DEF ThreadType, IndInv, ThreadInv, Between
    <3>2. a \in Pos
      BY <3>1, NrEntriesAssumption DEF Wrap, Pos
    <3>3. m \in Nat /\ m >= 1 /\ m \in Int
      <4>1. idx[t] \in 0 .. NrEntries - 1 /\ nr[t] \in 0 .. NrEntries - 1 /\ idx[t] < nr[t]
        BY <2>1, <3>1
      <4> QED BY <4>1, NrEntriesAssumption
    <3>4. Pending(t) = Window(a, m)
      BY <2>1 DEF Pending
    <3> HIDE DEF a, m
    <3>5. a \in Pending(t)
      BY <3>2, <3>3, <3>4, FirstInWindow
    <3>6. ~Sent(a)
      BY <3>5 DEF Sent, IndInv, ClaimsExclusive
    <3>7. a \notin Window(r.sentry, r.nr)
      BY <1>11, <3>6
    <3> QED BY <1>12, <3>1, <3>2, <3>3, <3>7 DEF a, m
  <2> QED BY <1>7, <2>1 DEF IndInv, ThreadInv, Between, thread
<1>14. RequestInv'
  <2>1. ASSUME NEW q \in Handed, q # r
        PROVE  RingCount(q.sentry, sync') + q.nr <= RingCount(subm, sync')
    <3>1. /\ q.sentry \in Pos /\ q.nr \in Nat /\ q.nr >= 1
          /\ RingCount(q.sentry, sync) + q.nr <= RingCount(subm, sync)
      BY <1>2 DEF DeviceType, Handed, IndInv, RequestInv, Between
    <3>2. q.sentry \in Window(q.sentry, q.nr)
      BY <3>1, FirstInWindow
    <3>3. q.sentry \notin Window(r.sentry, r.nr)
      BY <2>1, <3>2 DEF IndInv, RequestInv
    <3> QED BY <1>12, <3>1, <3>3
  <2> QED BY <1>1, <1>7, <1>10, <2>1 DEF IndInv, RequestInv, Between
<1>15. WriterInv'
  <2>1. ASSUME w.pc = "read"
        PROVE  RingCount(w.pos, sync') + w.n <= RingCount(subm, sync')
    <3>1. /\ w.pos \in Pos /\ w.n \in Nat /\ w.n >= 1
          /\ RingCount(w.pos, sync) + w.n <= RingCount(subm, sync)
      BY <1>2, <2>1 DEF DeviceType, IndInv, WriterInv, Between
    <3>2. w.pos \in Window(w.pos, w.n)
      BY <3>1, FirstInWindow
    <3>3. w.pos \notin Window(r.sentry, r.nr)
      BY <2>1, <3>2 DEF IndInv, WriterInv
    <3> QED BY <1>12, <3>1, <3>3
  <2> QED BY <1>1, <1>7, <1>10, <2>1 DEF IndInv, WriterInv, Between
<1>16. SyncedAreSent'
  <2> SUFFICES ASSUME NEW p \in Synced' PROVE Sent(p)
    BY <1>10 DEF SyncedAreSent, Sent
  <2> p \in Pos /\ RingCount(p, l2p_update) < RingCount(sync, l2p_update) + r.nr
    BY <1>3, <1>7 DEF Synced, Window
  <2>2. CASE p \in Window(r.sentry, r.nr)
    BY <1>11, <2>2
  <2>3. CASE p \notin Window(r.sentry, r.nr)
    <3>1. RingCount(p, sync) >= r.nr
      BY <1>3, <2>3
    <3>2. /\ RingCount(p, sync) \in 0 .. NrEntries - 1
          /\ RingCount(p, l2p_update) \in 0 .. NrEntries - 1
      BY <1>4, CountRange
    <3>3. \/ RingCount(p, l2p_update) = RingCount(p, sync) + RingCount(sync, l2p_update)
          \/ RingCount(p, l2p_update) = RingCount(p, sync) + RingCount(sync, l2p_update) - NrEntries
      BY <1>4, Chain
    <3>4. RingCount(p, l2p_update) < RingCount(sync, l2p_update)
      BY <1>3, <1>5, <3>1, <3>2, <3>3, NrEntriesAssumption
    <3> QED BY <3>4 DEF IndInv, SyncedAreSent, Synced, Window, Sent
  <2> QED BY <2>2, <2>3
<1>17. EntryInv'
  BY <1>7 DEF IndInv, EntryInv
<1>18. ClaimsExclusive'
  BY <1>7, Zenon DEF IndInv, ClaimsExclusive, Pending, thread
<1> QED BY <1>8, <1>9, <1>13, <1>14, <1>15, <1>16, <1>17, <1>18 DEF IndInv
-------------------------------------------------------------------------------
(* Claims and the L2P update they trigger keep the inductive invariant.         *)

\* The arithmetic of a claim: how far the oldest entries are let go of, and how
\* the distances between the pointers change.
LEMMA ClaimArith ==
  ASSUME IndInv, NEW n \in 0 .. NrEntries - 1, MayWrite(n)
  PROVE  LET k == L2pCount(n) IN
         /\ k \in 0 .. RingCount(sync, l2p_update)
         /\ RingCount(mem, sync) + n <= NrEntries - 1
         /\ RingCount(mem, l2p_update) - k + n <= NrEntries - 1
         /\ k = 0 \/ k = RingCount(mem, l2p_update) + n - (NrEntries - 1)
<1>1. mem \in Pos /\ sync \in Pos /\ l2p_update \in Pos
  BY DEF IndInv, TypeOK, RingType
<1>2. /\ RingCount(mem, l2p_update) = RingCount(mem, sync) + RingCount(sync, l2p_update)
      /\ RingCount(sync, l2p_update) + RingCount(mem, sync) <= NrEntries - 1
  BY Distances DEF IndInv, RingInv
<1>3. RingCount(mem, sync) \in Nat /\ RingCount(sync, l2p_update) \in Nat
  BY <1>1, CountRange
<1>4. /\ RingSpace(mem, sync) = NrEntries - 1 - RingCount(mem, sync)
      /\ RingSpace(mem, l2p_update) = NrEntries - 1 - RingCount(mem, l2p_update)
  BY <1>1, SpaceIsRest
<1> QED BY <1>2, <1>3, <1>4, NrEntriesAssumption DEF MayWrite, L2pCount

\* What happens to the stored entries when the oldest k of them are let go of.
LEMMA UpdateL2pArith ==
  ASSUME IndInv, NEW k \in 0 .. RingCount(sync, l2p_update), NEW p \in Pos
  PROVE  LET q == Wrap(l2p_update + k) IN
         /\ q \in Pos
         /\ RingCount(sync, q) = RingCount(sync, l2p_update) - k
         /\ p \in Window(l2p_update, k) => p \in Synced
         /\ p \in Window(l2p_update, k) =>
              RingCount(p, q) >= RingCount(sync, q) + RingCount(mem, sync)
         /\ p \notin Window(l2p_update, k) =>
              RingCount(p, q) = RingCount(p, l2p_update) - k
<1>1. sync \in Pos /\ l2p_update \in Pos /\ mem \in Pos
  BY DEF IndInv, TypeOK, RingType
<1> /\ RingCount(sync, l2p_update) \in 0 .. NrEntries - 1
      /\ RingCount(p, l2p_update) \in 0 .. NrEntries - 1
      /\ RingCount(mem, sync) \in 0 .. NrEntries - 1
  BY <1>1, CountRange
<1> k \in 0 .. NrEntries
  BY NrEntriesAssumption
<1>4. Wrap(l2p_update + k) \in Pos
  BY <1>1, WrapPos
<1>5. RingCount(sync, Wrap(l2p_update + k)) = RingCount(sync, l2p_update) - k
  BY <1>1, MoveTail
<1>6. p \in Window(l2p_update, k) => RingCount(p, l2p_update) < k
  BY DEF Window
<1>7. p \in Window(l2p_update, k) => p \in Synced
  BY <1>6 DEF Synced, Window
<1>8. p \notin Window(l2p_update, k) => RingCount(p, l2p_update) >= k
  BY DEF Window
<1>9. p \notin Window(l2p_update, k) =>
        RingCount(p, Wrap(l2p_update + k)) = RingCount(p, l2p_update) - k
  BY <1>1, <1>8, MoveTail
<1>10. p \in Window(l2p_update, k) =>
         RingCount(p, Wrap(l2p_update + k)) = RingCount(p, l2p_update) - k + NrEntries
  BY <1>1, <1>6, MoveTailPast
<1>11. RingCount(sync, l2p_update) + RingCount(mem, sync) <= NrEntries - 1
  BY DEF IndInv, RingInv
<1>12. p \in Window(l2p_update, k) =>
         RingCount(p, Wrap(l2p_update + k)) >=
           RingCount(sync, Wrap(l2p_update + k)) + RingCount(mem, sync)
  BY <1>5, <1>10, <1>11, NrEntriesAssumption
<1> QED BY <1>4, <1>5, <1>7, <1>9, <1>12

\* An L2P update of k stored entries, followed or not by a claim of n entries,
\* keeps what is said of the ring, its entries, the requests and the writer.
LEMMA UpdateL2pKeeps ==
  ASSUME IndInv, Countable, NEW k \in 0 .. RingCount(sync, l2p_update), NEW gcIn \in Int,
         UpdateL2p(k, gcIn), NEW n \in 0 .. NrEntries - 1, mem' = Wrap(mem + n),
         RingCount(mem, sync) + n <= NrEntries - 1,
         RingCount(mem, l2p_update) - k + n <= NrEntries - 1,
         UNCHANGED <<subm, sync, w, device>>
  PROVE  /\ RingType' /\ rb_user_cnt' \in Int /\ rb_gc_cnt' \in Int
         /\ RingInv' /\ RequestInv' /\ EntryInv' /\ SyncedAreSent' /\ WriterInv'
         /\ RingCount(mem', sync) = RingCount(mem, sync) + n
         /\ \A p \in Pos : p \notin Synced => flags'[p] = flags[p]
         /\ \A p \in Pos : p \in Window(l2p_update, k) => flags'[p] = {"WRITABLE"}
         /\ \A p \in Pos : flags[p] = {"WRITABLE"} => flags'[p] = {"WRITABLE"}
<1>1. TypeOK /\ RingInv /\ RingType /\ LimitType /\ DeviceType
  BY DEF IndInv, TypeOK
<1>2. mem \in Pos /\ sync \in Pos /\ l2p_update \in Pos /\ subm \in Pos
  BY <1>1 DEF RingType
<1>3. /\ RingCount(mem, sync) \in 0 .. NrEntries - 1
      /\ RingCount(subm, sync) \in 0 .. NrEntries - 1
      /\ RingCount(sync, l2p_update) \in 0 .. NrEntries - 1
  BY <1>2, CountRange
<1>4. /\ mem' \in Pos /\ n \in 0 .. NrEntries
      /\ RingCount(mem', sync) = RingCount(mem, sync) + n
  BY <1>2, <1>3, WrapPos, MoveHead, NrEntriesAssumption
<1>5. /\ l2p_update' = Wrap(l2p_update + k) /\ l2p_update' \in Pos
      /\ RingCount(sync, l2p_update') = RingCount(sync, l2p_update) - k
  BY <1>2, UpdateL2pArith DEF UpdateL2p
<1>6. RingCount(mem, l2p_update) = RingCount(mem, sync) + RingCount(sync, l2p_update)
  BY <1>1, Distances
<1>7. RingInv'
  BY <1>1, <1>3, <1>4, <1>5, <1>6 DEF RingInv
<1>8. \A p \in Pos : /\ flags'[p] = IF p \in Window(l2p_update, k) THEN {"WRITABLE"}
                                    ELSE flags[p]
                     /\ p \notin Window(l2p_update, k) =>
                          (submit_flags'[p] <=> submit_flags[p])
  BY Zenon DEF UpdateL2p
<1>9. \A p \in Pos : p \notin Synced => p \notin Window(l2p_update, k)
  BY UpdateL2pArith
<1>10. \A p \in Pos : p \notin Synced => flags'[p] = flags[p] /\ (Sent(p) => Sent(p)')
  BY <1>8, <1>9 DEF Sent
<1>11. \A p \in Pos : RingCount(p, sync) < RingCount(mem, sync) => p \notin Synced
  BY <1>1, NotSynced
<1>12. RingType'
  <2>1. flags' \in [Pos -> SUBSET {"USER", "GC", "WRITTEN", "SUBMITTED", "WRITABLE"}]
    BY <1>1 DEF RingType, UpdateL2p
  <2>2. submit_flags' \in [Pos -> BOOLEAN]
    BY <1>1 DEF RingType, UpdateL2p
  <2> QED BY <1>2, <1>4, <1>5, <2>1, <2>2 DEF RingType
<1>13. rb_user_cnt' \in Int /\ rb_gc_cnt' \in Int
  <2>1. \A type : OfType(Window(l2p_update, k), type) \in SUBSET Pos
    BY DEF Window, OfType
  <2>2. /\ Cardinality(OfType(Window(l2p_update, k), "USER")) \in Int
        /\ Cardinality(OfType(Window(l2p_update, k), "GC")) \in Int
    BY <2>1 DEF Countable
  <2>3. rb_user_cnt \in Int /\ rb_gc_cnt \in Int
    BY <1>1 DEF LimitType
  <2> QED BY <2>2, <2>3 DEF UpdateL2p
<1>14. RequestInv'
  <2>1. Handed' = Handed /\ Handed \subseteq [sentry : Pos, nr : Nat]
    BY <1>1 DEF Handed, device, DeviceType
  <2>2. \A r \in Handed : Between(r.sentry, r.nr, subm)' = Between(r.sentry, r.nr, subm)
    BY DEF Between
  <2>3. ASSUME NEW r \in Handed, NEW p \in Window(r.sentry, r.nr)
        PROVE  Sent(p)'
    <3>1. p \in Pos /\ RingCount(p, sync) < RingCount(mem, sync) /\ Sent(p)
      BY <2>1, <2>3, RequestBetween, Zenon DEF IndInv, RequestInv
    <3> QED BY <3>1, <1>10, <1>11
  <2> QED BY <2>1, <2>2, <2>3 DEF IndInv, RequestInv, device
<1>15. WriterInv'
  <2>1. Handed' = Handed
    BY DEF Handed, device
  <2>2. ASSUME w.pc = "commit" PROVE w.n <= RingCount(mem', subm)
    <3>1. w.n <= RingCount(mem, subm) /\ w.n \in Nat
      BY <1>1, <2>2 DEF IndInv, WriterInv, DeviceType
    <3>2. RingCount(mem, subm) = RingCount(mem, sync) - RingCount(subm, sync)
      BY <1>1, Distances
    <3>3. RingCount(mem', subm) = RingCount(mem', sync) - RingCount(subm, sync)
      BY <1>2, <1>4, <1>7, NrEntriesAssumption DEF RingInv, RingCount, Pos
    <3> QED BY <1>3, <1>4, <3>1, <3>2, <3>3
  <2>3. ASSUME w.pc = "read", NEW p \in Window(w.pos, w.i)
        PROVE  Sent(p)'
    <3> DEFINE r == [sentry |-> w.pos, nr |-> w.n]
    <3> /\ w.pos \in Pos /\ w.n \in Nat /\ w.i \in Nat /\ w.i <= w.n
          /\ Between(w.pos, w.n, subm) /\ Sent(p)
      BY <1>1, <2>3 DEF IndInv, WriterInv, DeviceType
    <3>2. p \in Window(w.pos, w.n)
      BY <2>3, CountRange DEF Window
    <3>3. r \in [sentry : Pos, nr : Nat] /\ r.sentry = w.pos /\ r.nr = w.n
      OBVIOUS
    <3> HIDE DEF r
    <3>4. p \in Pos /\ RingCount(p, sync) < RingCount(mem, sync)
      BY <3>2, <3>3, RequestBetween
    <3> QED BY <3>4, <1>10, <1>11
  <2>4. Between(w.pos, w.n, subm)' = Between(w.pos, w.n, subm)
    BY DEF Between
  <2> QED BY <2>1, <2>2, <2>3, <2>4, Zenon DEF IndInv, WriterInv
<1>16. SyncedAreSent'
  <2> SUFFICES ASSUME NEW p \in Synced' PROVE Sent(p)'
    BY DEF SyncedAreSent, Sent
  <2> p \in Pos /\ RingCount(p, l2p_update') < RingCount(sync, l2p_update')
    BY DEF Synced, Window
  <2>2. p \notin Window(l2p_update, k)
    BY <1>3, <1>5, CountRange, UpdateL2pArith
  <2>3. RingCount(p, l2p_update') = RingCount(p, l2p_update) - k
    BY <1>5, <2>2, UpdateL2pArith
  <2>4. RingCount(p, l2p_update) \in Int
    BY <1>2, CountRange
  <2>5. p \in Synced
    BY <1>3, <1>5, <2>3, <2>4 DEF Synced, Window
  <2>6. Sent(p)
    BY <2>5 DEF IndInv, SyncedAreSent, Sent
  <2> QED BY <1>8, <2>2, <2>6 DEF Sent
<1>17. EntryInv'
  <2> SUFFICES ASSUME NEW p \in Pos
               PROVE  /\ flags'[p] \in {{"WRITABLE"}, {"USER", "WRITTEN"}, {"GC", "WRITTEN"},
                                        {"USER", "SUBMITTED"}, {"GC", "SUBMITTED"}}
                      /\ RingCount(p, l2p_update') >= RingCount(mem', l2p_update') =>
                           flags'[p] = {"WRITABLE"}
    BY DEF EntryInv
  <2>1. CASE p \in Window(l2p_update, k)
    BY <1>8, <2>1
  <2>2. CASE p \notin Window(l2p_update, k)
    <3>1. RingCount(p, l2p_update') = RingCount(p, l2p_update) - k
      BY <1>5, <2>2, UpdateL2pArith
    <3>2. RingCount(p, l2p_update) \in Int
      BY <1>2, CountRange
    <3>3. RingCount(mem', l2p_update') = RingCount(mem', sync) + RingCount(sync, l2p_update')
      BY <1>2, <1>4, <1>5, <1>7, NrEntriesAssumption DEF RingInv, RingCount, Pos
    <3>4. RingCount(p, l2p_update') >= RingCount(mem', l2p_update') =>
            RingCount(p, l2p_update) >= RingCount(mem, l2p_update)
      BY <1>3, <1>4, <1>5, <1>6, <3>1, <3>2, <3>3
    <3> QED BY <1>8, <2>2, <3>4 DEF IndInv, EntryInv
  <2> QED BY <2>1, <2>2
<1> QED BY <1>4, <1>7, <1>8, <1>10, <1>12, <1>13, <1>14, <1>15, <1>16, <1>17
===============================================================================
