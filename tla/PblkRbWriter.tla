----------------------------- MODULE PblkRbWriter -----------------------------
(* Filling entries and sending them keep the inductive invariant.               *)
EXTENDS PblkRbProofs

-------------------------------------------------------------------------------
(* Claims.                                                                     *)

\* A claim hands out entries that are free and that no other thread has.
LEMMA ClaimInv ==
  ASSUME IndInv, Countable, NEW t \in Threads, MayWriteUser(t) \/ MayWriteGc(t)
  PROVE  IndInv'
<1> DEFINE n == nr[t]
           k == L2pCount(n)
<1>1. PICK gcIn \in Int : Claim(t, gcIn)
  BY DEF MayWriteUser, MayWriteGc, IndInv, TypeOK, ThreadType
<1>2. /\ pc[t] = "may_write" /\ UNCHANGED <<subm, sync, nr, idx, w, device>>
      /\ \/ pc' = [pc EXCEPT ![t] = "user_in"]
         \/ pc' = [pc EXCEPT ![t] = IF nr[t] = 0 THEN "kick" ELSE "copy"]
  BY DEF MayWriteUser, MayWriteGc
<1>3. /\ TypeOK /\ RingInv /\ RingType /\ ThreadType
      /\ n \in 0 .. NrEntries - 1 /\ idx[t] = 0
  BY <1>2 DEF IndInv, TypeOK, ThreadType, ThreadInv
<1>4. mem \in Pos /\ sync \in Pos /\ l2p_update \in Pos
  BY <1>3 DEF RingType
<1>5. /\ MayWrite(n) /\ UpdateL2p(k, gcIn) /\ mem' = Wrap(mem + n)
      /\ bpos' = [bpos EXCEPT ![t] = mem]
  BY <1>1 DEF Claim
<1>6. /\ k \in 0 .. RingCount(sync, l2p_update)
      /\ RingCount(mem, sync) + n <= NrEntries - 1
      /\ RingCount(mem, l2p_update) - k + n <= NrEntries - 1
      /\ k = 0 \/ k = RingCount(mem, l2p_update) + n - (NrEntries - 1)
  BY <1>3, <1>5, ClaimArith
<1> HIDE DEF k
<1>7. /\ RingType' /\ rb_user_cnt' \in Int /\ rb_gc_cnt' \in Int
      /\ RingInv' /\ RequestInv' /\ EntryInv' /\ SyncedAreSent' /\ WriterInv'
      /\ RingCount(mem', sync) = RingCount(mem, sync) + n
      /\ \A p \in Pos : p \notin Synced => flags'[p] = flags[p]
      /\ \A p \in Pos : p \in Window(l2p_update, k) => flags'[p] = {"WRITABLE"}
      /\ \A p \in Pos : flags[p] = {"WRITABLE"} => flags'[p] = {"WRITABLE"}
  BY <1>2, <1>3, <1>5, <1>6, UpdateL2pKeeps
<1>8. TypeOK'
  <2>1. LimitType'
    BY <1>3, <1>7 DEF IndInv, TypeOK, LimitType, MayWriteUser, MayWriteGc
  <2>2. ThreadType'
    BY <1>2, <1>3, <1>4, <1>5 DEF ThreadType
  <2>3. DeviceType' /\ phase' \in {"run", "waited", "down"}
    BY <1>2 DEF IndInv, TypeOK, DeviceType, device, MayWriteUser, MayWriteGc, target
  <2>4. SwitchType'
    BY <1>2, Zenon DEF IndInv, TypeOK, SwitchType, device, MayWriteUser, MayWriteGc, target
  <2> QED BY <1>7, <2>1, <2>2, <2>3, <2>4 DEF TypeOK
<1>9. /\ RingCount(mem, sync) \in 0 .. NrEntries - 1
      /\ RingCount(mem, l2p_update) \in 0 .. NrEntries - 1
      /\ RingCount(mem, l2p_update) = RingCount(mem, sync) + RingCount(sync, l2p_update)
  BY <1>3, <1>4, CountRange, Distances
<1>10. /\ bpos'[t] = mem /\ idx'[t] = 0 /\ nr'[t] = n /\ Wrap(mem + 0) = mem
       /\ n - 0 = n
  <2>1. bpos'[t] = mem /\ idx'[t] = 0 /\ nr'[t] = n
    BY <1>2, <1>3, <1>5 DEF ThreadType
  <2>2. Wrap(mem + 0) = mem /\ n - 0 = n
    BY <1>3, <1>4, NrEntriesAssumption DEF Wrap, Pos
  <2> QED BY <2>1, <2>2
<1>11. \A v \in Threads \ {t} :
         pc'[v] = pc[v] /\ nr'[v] = nr[v] /\ bpos'[v] = bpos[v] /\ idx'[v] = idx[v]
  BY <1>2, <1>3, <1>5 DEF ThreadType
<1>12. /\ pc'[t] \in {"user_in", "kick", "copy"} /\ (pc'[t] = "copy" => n # 0)
       /\ pc'[t] = "user_in" => t \in Users
  BY <1>2, <1>3 DEF ThreadType, MayWriteUser, MayWriteGc
<1>13. ThreadInv'
  <2> SUFFICES ASSUME NEW v \in Threads
               PROVE  /\ pc'[v] \in {"idle", "may_write", "user_in"} => idx'[v] = 0
                      /\ pc'[v] = "copy" => idx'[v] < nr'[v]
                      /\ pc'[v] \in {"user_in", "inserted", "release"} => v \in Users
                      /\ pc'[v] \in {"user_in", "copy"} /\ idx'[v] < nr'[v] =>
                           RingCount(Wrap(bpos'[v] + idx'[v]), sync) + (nr'[v] - idx'[v])
                             <= RingCount(mem', sync)
    BY <1>2 DEF ThreadInv, Between
  <2>1. CASE v = t
    BY <1>3, <1>7, <1>9, <1>10, <1>12, <2>1
  <2>2. CASE v # t
    <3>1. /\ bpos[v] \in Pos /\ idx[v] \in 0 .. NrEntries - 1 /\ nr[v] \in 0 .. NrEntries - 1
      BY <1>3 DEF ThreadType
    <3>2. Wrap(bpos[v] + idx[v]) \in Pos
      BY <3>1, NrEntriesAssumption DEF Wrap, Pos
    <3>3. RingCount(Wrap(bpos[v] + idx[v]), sync) \in Int
      BY <1>4, <3>2, CountRange
    <3> QED BY <1>3, <1>7, <1>9, <1>11, <2>2, <3>1, <3>3 DEF IndInv, ThreadInv, Between
  <2> QED BY <2>1, <2>2
<1>14. \A v \in Threads \ {t} : Pending(v)' = Pending(v)
  BY <1>11 DEF Pending
<1>15. Pending(t)' \subseteq Window(mem, n)
  BY <1>10 DEF Pending
<1>16. ASSUME NEW p \in Window(mem, n)
       PROVE  p \in Pos /\ RingCount(p, sync) >= RingCount(mem, sync)
              /\ flags'[p] = {"WRITABLE"}
  <2> p \in Pos /\ RingCount(p, mem) < n
    BY DEF Window
  <2>2. RingCount(p, mem) \in Nat /\ RingCount(p, sync) \in 0 .. NrEntries - 1
        /\ RingCount(p, l2p_update) \in 0 .. NrEntries - 1
    BY <1>4, CountRange
  <2>3. RingCount(p, sync) >= RingCount(mem, sync)
    <3>1. n \in Nat /\ RingCount(mem, sync) + n < NrEntries
      BY <1>3, <1>6, <1>9, NrEntriesAssumption
    <3>2. RingCount(p, sync) = RingCount(mem, sync) + RingCount(p, mem)
      BY <1>4, <1>16, <3>1, InSegment
    <3> QED BY <1>9, <2>2, <3>2
  <2>4. \/ RingCount(p, l2p_update) = RingCount(p, mem) + RingCount(mem, l2p_update)
        \/ RingCount(p, l2p_update) = RingCount(p, mem) + RingCount(mem, l2p_update) - NrEntries
    BY <1>4, Chain
  <2>5. CASE RingCount(p, l2p_update) >= RingCount(mem, l2p_update)
    <3>1. flags[p] = {"WRITABLE"}
      BY <2>5 DEF IndInv, EntryInv
    <3> QED BY <1>7, <2>3, <3>1
  <2>6. CASE RingCount(p, l2p_update) < RingCount(mem, l2p_update)
    <3>1. RingCount(p, l2p_update) = RingCount(p, mem) + RingCount(mem, l2p_update) - NrEntries
      BY <1>9, <2>2, <2>4, <2>6
    <3>2. RingCount(p, l2p_update) < k
      BY <1>3, <1>6, <1>9, <2>2, <3>1, NrEntriesAssumption
    <3>3. p \in Window(l2p_update, k)
      BY <3>2 DEF Window
    <3> QED BY <1>7, <2>3, <3>3
  <2> QED BY <1>9, <2>2, <2>3, <2>5, <2>6
<1>17. ASSUME NEW v \in Threads \ {t}, NEW p \in Pending(v)
       PROVE  p \in Pos /\ RingCount(p, sync) < RingCount(mem, sync)
              /\ flags'[p] = {"WRITABLE"}
  <2>1. p \in Pos /\ RingCount(p, sync) < RingCount(mem, sync)
    BY PendingBetween
  <2>2. flags[p] = {"WRITABLE"}
    BY DEF IndInv, ClaimsExclusive
  <2> QED BY <1>7, <2>1, <2>2
<1>18. ClaimsExclusive'
  <2>1. ASSUME NEW v \in Threads, NEW p \in Pending(v)' PROVE flags'[p] = {"WRITABLE"}
    BY <1>14, <1>15, <1>16, <1>17, <2>1
  <2>2. ASSUME NEW v \in Threads \ {t} PROVE Pending(t)' \cap Pending(v)' = {}
    <3> SUFFICES ASSUME NEW p \in Pending(t)', p \in Pending(v)' PROVE FALSE
      OBVIOUS
    <3>1. p \in Pos /\ RingCount(p, sync) >= RingCount(mem, sync)
      BY <1>15, <1>16
    <3>2. RingCount(p, sync) < RingCount(mem, sync)
      BY <1>14, <1>17
    <3>3. RingCount(p, sync) \in Int
      BY <1>4, <3>1, CountRange
    <3> QED BY <1>9, <3>1, <3>2, <3>3
  <2>3. ASSUME NEW u \in Threads \ {t}, NEW v \in Threads \ {t}, u # v
        PROVE  Pending(u)' \cap Pending(v)' = {}
    BY <1>14, <2>3 DEF IndInv, ClaimsExclusive
  <2> QED BY <2>1, <2>2, <2>3 DEF ClaimsExclusive
<1> QED BY <1>7, <1>8, <1>13, <1>18 DEF IndInv

\* The tear down lets go of every stored entry and nothing else.
LEMMA TearDownSyncInv ==
  ASSUME IndInv, Countable, TearDownSync
  PROVE  IndInv'
<1> DEFINE k == RingCount(sync, l2p_update)
<1> /\ UpdateL2p(k, 0)
      /\ UNCHANGED <<mem, subm, sync, nr_user, rb_user_active, rb_space, rate, thread, w,
                     device, stopping>>
      /\ phase' = "down"
  BY DEF TearDownSync
<1>2. TypeOK /\ RingInv /\ mem \in Pos /\ sync \in Pos /\ l2p_update \in Pos
  BY DEF IndInv, TypeOK, RingType
<1>3. k \in 0 .. NrEntries - 1 /\ RingCount(mem, sync) \in 0 .. NrEntries - 1
      /\ RingCount(mem, l2p_update) \in 0 .. NrEntries - 1
  BY <1>2, CountRange
<1>4. mem' = Wrap(mem + 0)
  BY <1>2, NrEntriesAssumption DEF Wrap, Pos
<1>5. /\ k \in 0 .. RingCount(sync, l2p_update) /\ 0 \in 0 .. NrEntries - 1
      /\ RingCount(mem, sync) + 0 <= NrEntries - 1
      /\ RingCount(mem, l2p_update) - k + 0 <= NrEntries - 1
  BY <1>3, NrEntriesAssumption
<1> HIDE DEF k
<1> /\ RingType' /\ rb_user_cnt' \in Int /\ rb_gc_cnt' \in Int
      /\ RingInv' /\ RequestInv' /\ EntryInv' /\ SyncedAreSent' /\ WriterInv'
      /\ \A p \in Pos : flags[p] = {"WRITABLE"} => flags'[p] = {"WRITABLE"}
  BY <1>4, <1>5, UpdateL2pKeeps
<1>7. TypeOK'
  <2>1. LimitType' /\ ThreadType' /\ DeviceType'
    BY <1>2 DEF TypeOK, LimitType, ThreadType, DeviceType, thread, device
  <2>2. SwitchType'
    BY <1>2, Zenon DEF TypeOK, SwitchType, device
  <2> QED BY <2>1, <2>2 DEF TypeOK
<1>8. ThreadInv'
  BY DEF IndInv, ThreadInv, Between, thread
<1>9. ClaimsExclusive'
  <2>1. \A v \in Threads : Pending(v)' = Pending(v)
    BY DEF Pending, thread
  <2>2. \A v \in Threads : \A p \in Pending(v) : p \in Pos /\ flags[p] = {"WRITABLE"}
    BY PendingBetween DEF IndInv, ClaimsExclusive
  <2> QED BY <2>1, <2>2 DEF IndInv, ClaimsExclusive
<1> QED BY <1>7, <1>8, <1>9 DEF IndInv
\* When the only entry that changes is neither sent nor outside l2p_update .. mem,
\* and its new flags are those of a filled or sent entry, all that is said of the
\* other entries stays.
LEMMA OneEntryKeeps ==
  ASSUME IndInv, NEW p0 \in Pos, ~Sent(p0),
         RingCount(p0, l2p_update) < RingCount(mem, l2p_update),
         flags'[p0] \in {{"USER", "WRITTEN"}, {"GC", "WRITTEN"},
                         {"USER", "SUBMITTED"}, {"GC", "SUBMITTED"}},
         \A p \in Pos \ {p0} : flags'[p] = flags[p] /\ (submit_flags'[p] <=> submit_flags[p]),
         UNCHANGED <<ptrs, device>>
  PROVE  RingInv' /\ RequestInv' /\ EntryInv' /\ SyncedAreSent'
<1> USE DEF ptrs, device
<1>1. \A p \in Pos : Sent(p) => Sent(p)'
  BY DEF Sent
<1>2. RingInv'
  BY DEF IndInv, RingInv
<1>3. EntryInv'
  <2>1. mem \in Pos /\ l2p_update \in Pos
    BY DEF IndInv, TypeOK, RingType
  <2>2. RingCount(p0, l2p_update) \in Int /\ RingCount(mem, l2p_update) \in Int
    BY <2>1, CountRange
  <2>3. ~(RingCount(p0, l2p_update) >= RingCount(mem, l2p_update))
    BY <2>2
  <2> QED BY <2>3 DEF IndInv, EntryInv
<1>4. SyncedAreSent'
  <2>1. Synced' = Synced /\ Synced \subseteq Pos
    BY DEF Synced, Window
  <2> QED BY <1>1, <2>1 DEF IndInv, SyncedAreSent, Sent
<1>5. RequestInv'
  <2>1. Handed' = Handed
    BY DEF Handed
  <2>2. \A r \in Handed : Window(r.sentry, r.nr) \subseteq Pos
    BY DEF Window
  <2> QED BY <1>1, <2>1, <2>2 DEF IndInv, RequestInv, Between
<1> QED BY <1>2, <1>3, <1>4, <1>5

\* The next entry of a copying thread: one of its own, between sync and mem, and
\* the rest of its segment follows it.
LEMMA NextEntry ==
  ASSUME IndInv, NEW t \in Threads, pc[t] = "copy"
  PROVE  LET a == Wrap(bpos[t] + idx[t])
             b == Wrap(bpos[t] + (idx[t] + 1))
         IN  /\ a \in Pos /\ b \in Pos /\ a \in Pending(t)
             /\ RingCount(b, sync) + (nr[t] - (idx[t] + 1)) <= RingCount(mem, sync)
             /\ Window(b, nr[t] - (idx[t] + 1)) \subseteq Pending(t) \ {a}
             /\ RingCount(a, l2p_update) < RingCount(mem, l2p_update)
<1> DEFINE a == Wrap(bpos[t] + idx[t])
           b == Wrap(bpos[t] + (idx[t] + 1))
           m == nr[t] - idx[t]
<1> /\ bpos[t] \in Pos /\ idx[t] \in 0 .. NrEntries - 1 /\ nr[t] \in 0 .. NrEntries - 1
      /\ mem \in Pos /\ sync \in Pos /\ l2p_update \in Pos /\ idx[t] < nr[t]
      /\ RingCount(a, sync) + m <= RingCount(mem, sync)
  BY DEF IndInv, TypeOK, ThreadType, RingType, ThreadInv, Between
<1>2. a \in Pos /\ b \in Pos /\ b = Wrap(a + 1) /\ RingCount(a, a) = 0
      /\ RingCount(b, a) = 1
  BY NrEntriesAssumption DEF Wrap, Pos, RingCount
<1> m \in 1 .. NrEntries - 1 /\ nr[t] - (idx[t] + 1) = m - 1
  <2>1. idx[t] \in 0 .. NrEntries - 1 /\ nr[t] \in 0 .. NrEntries - 1 /\ idx[t] < nr[t]
    OBVIOUS
  <2> QED BY <2>1, NrEntriesAssumption
<1>4. Pending(t) = Window(a, m)
  BY DEF Pending
<1>5. a \in Pending(t)
  BY <1>2, <1>4 DEF Window
<1> HIDE DEF a, b, m
<1> RingCount(a, sync) \in 0 .. NrEntries - 1 /\ RingCount(mem, sync) \in 0 .. NrEntries - 1
      /\ RingCount(sync, l2p_update) \in 0 .. NrEntries - 1
      /\ RingCount(a, l2p_update) \in 0 .. NrEntries - 1
  BY <1>2, CountRange
<1>7. RingCount(b, sync) = RingCount(a, sync) + 1
  BY <1>2, MoveHead, NrEntriesAssumption
<1>8. Window(b, m - 1) \subseteq Window(a, m) \ {a}
  BY <1>2, NrEntriesAssumption DEF Window, RingCount, Pos
<1>9. RingCount(a, l2p_update) < RingCount(mem, l2p_update)
  <2>1. RingCount(mem, l2p_update) = RingCount(mem, sync) + RingCount(sync, l2p_update)
        /\ RingCount(sync, l2p_update) + RingCount(mem, sync) <= NrEntries - 1
    BY Distances DEF IndInv, RingInv
  <2>2. \/ RingCount(a, l2p_update) = RingCount(a, sync) + RingCount(sync, l2p_update)
        \/ RingCount(a, l2p_update) = RingCount(a, sync) + RingCount(sync, l2p_update) - NrEntries
    BY <1>2, Chain
  <2>3. RingCount(a, sync) < RingCount(mem, sync)
    OBVIOUS
  <2> QED BY <2>1, <2>2, <2>3, NrEntriesAssumption
<1>10. RingCount(b, sync) + (m - 1) <= RingCount(mem, sync)
  BY <1>7
<1> QED BY <1>2, <1>4, <1>5, <1>8, <1>9, <1>10 DEF a, b

\* Filling an entry of one's own disturbs nobody.
LEMMA WriteEntryInv ==
  ASSUME IndInv, NEW t \in Threads, WriteEntry(t)
  PROVE  IndInv'
<1> DEFINE a == Wrap(bpos[t] + idx[t])
           b == Wrap(bpos[t] + (idx[t] + 1))
<1>1. /\ pc[t] = "copy"
      /\ flags' = [flags EXCEPT ![a] = {IoType(t), "WRITTEN"}]
      /\ idx' = [idx EXCEPT ![t] = @ + 1]
      /\ pc' = [pc EXCEPT ![t] = IF idx[t] + 1 < nr[t] THEN "copy"
                                 ELSE IF t \in Users THEN "inserted" ELSE "kick"]
      /\ UNCHANGED <<ptrs, nr_user, submit_flags, limits, nr, bpos, w, device, target>>
  BY DEF WriteEntry
<1>2. TypeOK /\ RingType /\ ThreadType /\ idx[t] < nr[t]
  BY <1>1 DEF IndInv, TypeOK, ThreadInv
<1>3. /\ a \in Pos /\ b \in Pos /\ a \in Pending(t)
      /\ RingCount(b, sync) + (nr[t] - (idx[t] + 1)) <= RingCount(mem, sync)
      /\ Window(b, nr[t] - (idx[t] + 1)) \subseteq Pending(t) \ {a}
      /\ RingCount(a, l2p_update) < RingCount(mem, l2p_update)
  BY <1>1, NextEntry
<1>4. flags[a] = {"WRITABLE"}
  BY <1>3 DEF IndInv, ClaimsExclusive
<1>5. /\ idx'[t] = idx[t] + 1
      /\ pc'[t] = IF idx[t] + 1 < nr[t] THEN "copy"
                  ELSE IF t \in Users THEN "inserted" ELSE "kick"
      /\ \A v \in Threads \ {t} : pc'[v] = pc[v] /\ idx'[v] = idx[v]
      /\ nr' = nr /\ bpos' = bpos
  BY <1>1, <1>2 DEF ThreadType
<1>6. ThreadInv'
  <2> SUFFICES ASSUME NEW v \in Threads
               PROVE  /\ pc'[v] \in {"idle", "may_write", "user_in"} => idx'[v] = 0
                      /\ pc'[v] = "copy" => idx'[v] < nr'[v]
                      /\ pc'[v] \in {"user_in", "inserted", "release"} => v \in Users
                      /\ pc'[v] \in {"user_in", "copy"} /\ idx'[v] < nr'[v] =>
                           RingCount(Wrap(bpos'[v] + idx'[v]), sync) + (nr'[v] - idx'[v])
                             <= RingCount(mem, sync)
    BY <1>1 DEF ThreadInv, Between, ptrs
  <2>1. CASE v = t
    BY <1>3, <1>5, <2>1
  <2>2. CASE v # t
    BY <1>5, <2>2, Zenon DEF IndInv, ThreadInv, Between
  <2> QED BY <2>1, <2>2
<1> HIDE DEF a, b
<1>7. flags'[a] \in {{"USER", "WRITTEN"}, {"GC", "WRITTEN"}}
  BY <1>1, <1>2, <1>3 DEF RingType, IoType
<1>8. \A p \in Pos \ {a} : flags'[p] = flags[p] /\ (submit_flags'[p] <=> submit_flags[p])
  BY <1>1, <1>2, <1>3 DEF RingType
<1>9. ~Sent(a)
  BY <1>4 DEF Sent
<1>10. RingInv' /\ RequestInv' /\ EntryInv' /\ SyncedAreSent'
  BY <1>1, <1>3, <1>7, <1>8, <1>9, OneEntryKeeps
<1>11. TypeOK'
  <2>1. RingType'
    BY <1>1, <1>2, <1>3 DEF RingType, ptrs, IoType
  <2>2. LimitType' /\ DeviceType' /\ phase' \in {"run", "waited", "down"}
    BY <1>1, <1>2 DEF TypeOK, LimitType, DeviceType, limits, device, target
  <2>3. SwitchType'
    BY <1>1, <1>2, Zenon DEF TypeOK, SwitchType, limits, device, target
  <2>4. ThreadType'
    <3>1. idx[t] \in 0 .. NrEntries - 1 /\ nr[t] \in 0 .. NrEntries - 1 /\ idx[t] < nr[t]
      BY <1>2 DEF ThreadType
    <3>2. idx[t] + 1 \in 0 .. NrEntries - 1
      BY <3>1, NrEntriesAssumption
    <3> QED BY <1>1, <1>2, <3>2 DEF ThreadType
  <2> QED BY <2>1, <2>2, <2>3, <2>4 DEF TypeOK
<1>12. WriterInv'
  <2>1. \A p \in Pos : Sent(p) => Sent(p)'
    BY <1>8, <1>9 DEF Sent
  <2>2. Window(w.pos, w.i) \subseteq Pos /\ Handed' = Handed
    BY <1>1 DEF Window, Handed, device
  <2> QED BY <1>1, <2>1, <2>2, Zenon DEF IndInv, WriterInv, Between, ptrs
<1>13. ClaimsExclusive'
  <2>1. \A v \in Threads \ {t} : Pending(v)' = Pending(v)
    BY <1>5 DEF Pending
  <2>2. Pending(t)' \subseteq Pending(t) \ {a}
    BY <1>3, <1>5, Zenon DEF Pending, b
  <2>3. \A v \in Threads : Pending(v)' \subseteq Pending(v) \ {a}
    BY <1>3, <2>1, <2>2 DEF IndInv, ClaimsExclusive
  <2>4. \A v \in Threads : Pending(v) \subseteq Pos
    BY DEF Pending, Window
  <2> QED BY <1>8, <2>3, <2>4 DEF IndInv, ClaimsExclusive
<1> QED BY <1>6, <1>10, <1>11, <1>12, <1>13 DEF IndInv

\* The writer thread looks, or gives up: the ring stays as it is.
LEMMA WriterLooksInv ==
  ASSUME IndInv, WriterCount \/ WriterSleep \/ SubmitIoErr
  PROVE  IndInv'
<1> /\ UNCHANGED <<ptrs, nr_user, entries, limits, thread, device, target>>
      /\ \/ w' = [pc |-> "idle", pos |-> 0, n |-> 0, i |-> 0]
         \/ w' = [pc |-> "commit", pos |-> 0, n |-> RingCount(mem, subm), i |-> 0]
  BY Zenon DEF WriterCount, WriterSleep, SubmitIoErr, Idle
<1> TypeOK /\ mem \in Pos /\ subm \in Pos
  BY DEF IndInv, TypeOK, RingType
<1>3. RingCount(mem, subm) \in Nat
  BY CountRange
<1>4. TypeOK'
  <2>1. RingType' /\ LimitType' /\ ThreadType' /\ phase' \in {"run", "waited", "down"}
    BY DEF TypeOK, RingType, LimitType, ThreadType, ptrs, entries, limits,
                      thread, target
  <2>2. SwitchType'
    BY Zenon DEF TypeOK, SwitchType, limits, device, target
  <2>3. DeviceType'
    BY <1>3, NrEntriesAssumption DEF TypeOK, DeviceType, device, Pos
  <2> QED BY <2>1, <2>2, <2>3 DEF TypeOK
<1>5. WriterInv'
  BY <1>3 DEF WriterInv, ptrs
<1>6. UNCHANGED <<mem, sync, flags, thread>>
  BY DEF ptrs, entries
<1> QED BY <1>4, <1>5, <1>6, Frame, FrameThreads DEF IndInv

\* The entry the writer thread is about to read is filled, so it is neither sent,
\* nor pending, nor outside l2p_update .. mem.
LEMMA ReadEntry ==
  ASSUME IndInv, w.pc = "read", w.i < w.n, "WRITTEN" \in flags[Wrap(w.pos + w.i)]
  PROVE  LET a == Wrap(w.pos + w.i) IN
         /\ a \in Pos /\ ~Sent(a) /\ RingCount(a, w.pos) = w.i
         /\ flags[a] \in {{"USER", "WRITTEN"}, {"GC", "WRITTEN"}}
         /\ RingCount(a, l2p_update) < RingCount(mem, l2p_update)
         /\ \A t \in Threads : a \notin Pending(t)
<1> DEFINE a == Wrap(w.pos + w.i)
<1>1. /\ w.pos \in Pos /\ w.n \in Nat /\ w.i \in Nat /\ Between(w.pos, w.n, subm)
      /\ mem \in Pos /\ subm \in Pos /\ sync \in Pos /\ l2p_update \in Pos
  BY DEF IndInv, TypeOK, DeviceType, RingType, WriterInv
<1>2. RingCount(w.pos, sync) \in 0 .. NrEntries - 1 /\ RingCount(subm, sync) \in 0 .. NrEntries - 1
  BY <1>1, CountRange
<1>3. w.i \in 0 .. NrEntries - 1
  BY <1>1, <1>2, NrEntriesAssumption DEF Between
<1> a \in Pos /\ RingCount(a, w.pos) = w.i
  BY <1>1, <1>3, NrEntriesAssumption DEF Wrap, Pos, RingCount
<1> HIDE DEF a
<1>5. flags[a] \in {{"USER", "WRITTEN"}, {"GC", "WRITTEN"}}
  BY DEF a, IndInv, EntryInv
<1> ~Sent(a) /\ flags[a] # {"WRITABLE"}
  BY <1>5 DEF Sent
<1>7. RingCount(a, l2p_update) < RingCount(mem, l2p_update)
  <2>1. RingCount(a, l2p_update) \in Int /\ RingCount(mem, l2p_update) \in Int
    BY <1>1, CountRange
  <2> QED BY <2>1 DEF IndInv, EntryInv
<1>8. \A t \in Threads : a \notin Pending(t)
  BY DEF IndInv, ClaimsExclusive
<1> QED BY <1>5, <1>7, <1>8 DEF a

\* Sending an entry, or failing to, concerns that entry alone.
LEMMA ReadToBioInv ==
  ASSUME IndInv, ReadToBio \/ ReadToBioErr
  PROVE  IndInv'
<1> DEFINE a == Wrap(w.pos + w.i)
<1> /\ w.pc = "read" /\ w.i < w.n /\ "WRITTEN" \in flags[a]
      /\ flags' = [flags EXCEPT ![a] = (@ \ {"WRITTEN"}) \cup {"SUBMITTED"}]
      /\ UNCHANGED <<ptrs, nr_user, limits, thread, device, target>>
      /\ \/ submit_flags' = [submit_flags EXCEPT ![a] = TRUE] /\ w' = [w EXCEPT !.i = @ + 1]
         \/ submit_flags' = submit_flags /\ w' = Idle
  BY DEF ReadToBio, ReadToBioErr
<1>2. /\ a \in Pos /\ ~Sent(a) /\ RingCount(a, w.pos) = w.i
      /\ flags[a] \in {{"USER", "WRITTEN"}, {"GC", "WRITTEN"}}
      /\ RingCount(a, l2p_update) < RingCount(mem, l2p_update)
      /\ \A t \in Threads : a \notin Pending(t)
  BY ReadEntry
<1>3. TypeOK /\ RingType /\ DeviceType
  BY DEF IndInv, TypeOK
<1> HIDE DEF a
<1>4. flags'[a] \in {{"USER", "SUBMITTED"}, {"GC", "SUBMITTED"}}
  <2>1. flags'[a] = (flags[a] \ {"WRITTEN"}) \cup {"SUBMITTED"}
    BY <1>2, <1>3 DEF RingType
  <2> QED BY <1>2, <2>1
<1>5. \A p \in Pos \ {a} : flags'[p] = flags[p] /\ (submit_flags'[p] <=> submit_flags[p])
  BY <1>2, <1>3 DEF RingType
<1>6. RingInv' /\ RequestInv' /\ EntryInv' /\ SyncedAreSent'
  BY <1>2, <1>4, <1>5, OneEntryKeeps
<1>7. TypeOK'
  <2>1. RingType'
    <3>1. flags' \in [Pos -> SUBSET {"USER", "GC", "WRITTEN", "SUBMITTED", "WRITABLE"}]
      BY <1>2, <1>3 DEF RingType
    <3>2. submit_flags' \in [Pos -> BOOLEAN]
      BY <1>2, <1>3, Zenon DEF RingType
    <3> QED BY <1>3, <3>1, <3>2 DEF RingType, ptrs
  <2>2. LimitType' /\ ThreadType' /\ phase' \in {"run", "waited", "down"}
    BY <1>3 DEF TypeOK, LimitType, ThreadType, limits, thread, target
  <2>3. SwitchType'
    BY <1>3, Zenon DEF TypeOK, SwitchType, limits, device, target
  <2>4. DeviceType'
    <3>1. w' \in [pc : {"idle", "commit", "read"}, pos : Pos, n : Nat, i : Nat]
      BY <1>3, NrEntriesAssumption DEF DeviceType, Idle, Pos
    <3> QED BY <1>3, <3>1 DEF DeviceType, device
  <2> QED BY <2>1, <2>2, <2>3, <2>4 DEF TypeOK
<1>8. \A t \in Threads : Pending(t)' = Pending(t) /\ Pending(t) \subseteq Pos
  BY DEF Pending, Window, thread
<1>9. ThreadInv'
  BY DEF IndInv, ThreadInv, Between, ptrs, thread
<1>10. ClaimsExclusive'
  BY <1>2, <1>5, <1>8 DEF IndInv, ClaimsExclusive
<1>11. WriterInv'
  <2>1. CASE w' = Idle
    BY <2>1 DEF WriterInv, Idle
  <2>2. CASE submit_flags' = [submit_flags EXCEPT ![a] = TRUE] /\ w' = [w EXCEPT !.i = @ + 1]
    <3>1. /\ w.pos \in Pos /\ w.n \in Nat /\ w.i \in Nat
          /\ w'.pc = "read" /\ w'.pos = w.pos /\ w'.n = w.n /\ w'.i = w.i + 1
      BY <1>3, <2>2 DEF DeviceType
    <3>2. submit_flags'[a]
      BY <1>2, <1>3, <2>2 DEF RingType
    <3>3. ASSUME NEW p \in Window(w.pos, w.i + 1) PROVE Sent(p)'
      <4> p \in Pos /\ RingCount(p, w.pos) < w.i + 1
        BY DEF Window
      <4>2. CASE RingCount(p, w.pos) = w.i
        <5>1. p = a
          BY <1>2, <3>1, <4>2, NrEntriesAssumption DEF RingCount, Pos
        <5> QED BY <1>4, <3>2, <5>1 DEF Sent
      <4>3. CASE RingCount(p, w.pos) # w.i
        <5>1. p \in Window(w.pos, w.i)
          BY <3>1, <4>3, CountRange DEF Window
        <5>2. Sent(p)
          BY <5>1 DEF IndInv, WriterInv
        <5> QED BY <1>2, <1>5, <5>2 DEF Sent
      <4> QED BY <4>2, <4>3
    <3>4. Handed' = Handed /\ UNCHANGED <<mem, subm, sync>>
      BY DEF Handed, device, ptrs
    <3>5. w.i + 1 <= w.n
      BY <3>1
    <3> QED BY <3>1, <3>3, <3>4, <3>5 DEF IndInv, WriterInv, Between
  <2> QED BY <2>1, <2>2
<1> QED BY <1>6, <1>7, <1>9, <1>10, <1>11 DEF IndInv

\* The writer takes entries that are in the ring and that no request has yet.
\* It relies on nr_user not being negative.
LEMMA WriterCommitInv ==
  ASSUME IndInv, nr_user \in Nat, WriterCommit
  PROVE  IndInv'
<1> DEFINE avail == SecsAvail(w.n)
           n == CalcSecs(avail)
<1>1. /\ w.pc = "commit" /\ avail >= MinWrite + Slack
      /\ w' = [pc |-> "read", pos |-> subm, n |-> n, i |-> 0]
      /\ subm' = Wrap(subm + n)
      /\ UNCHANGED <<mem, sync, l2p_update, nr_user, entries, limits, thread, device, target>>
  BY DEF WriterCommit, MayCommit
<1>2. TypeOK /\ RingInv /\ RingType /\ DeviceType
  BY DEF IndInv, TypeOK
<1>3. /\ mem \in Pos /\ subm \in Pos /\ sync \in Pos /\ l2p_update \in Pos
      /\ w.n \in Nat /\ w.n <= RingCount(mem, subm)
  BY <1>1, <1>2 DEF RingType, DeviceType, IndInv, WriterInv
<1>4. avail \in Nat /\ avail <= w.n
  BY <1>3 DEF SecsAvail
<1>5. n \in 1 .. avail
  <2>1. avail >= MinWrite
    <3> HIDE DEF avail
    <3>1. MinWrite \in Nat /\ Slack \in Nat
      BY RbAssumption
    <3> QED BY <1>1, <1>4, <3>1
  <2> QED BY <1>4, <2>1, CalcSecsRange
<1> HIDE DEF avail, n
<1>6. /\ RingCount(mem, subm) = RingCount(mem, sync) - RingCount(subm, sync)
      /\ RingCount(mem, sync) \in 0 .. NrEntries - 1
      /\ RingCount(subm, sync) \in 0 .. NrEntries - 1
      /\ RingCount(mem, subm) \in 0 .. NrEntries - 1
  BY <1>2, <1>3, Distances, CountRange
<1>7. n \in 1 .. RingCount(mem, subm) /\ n \in 0 .. NrEntries
  BY <1>3, <1>4, <1>5, <1>6, NrEntriesAssumption
<1>8. subm' \in Pos /\ RingCount(subm', sync) = RingCount(subm, sync) + n
  <2>1. RingCount(subm, sync) + n < NrEntries
    BY <1>6, <1>7, NrEntriesAssumption
  <2> QED BY <1>1, <1>3, <1>7, <2>1, WrapPos, MoveHead
<1>9. RingInv'
  BY <1>1, <1>2, <1>6, <1>7, <1>8 DEF RingInv
<1>10. TypeOK'
  <2>1. RingType'
    BY <1>1, <1>2, <1>8 DEF RingType, entries
  <2>2. LimitType' /\ ThreadType' /\ phase' \in {"run", "waited", "down"}
    BY <1>1, <1>2 DEF TypeOK, LimitType, ThreadType, limits, thread, target
  <2>3. SwitchType'
    BY <1>1, <1>2, Zenon DEF TypeOK, SwitchType, limits, device, target
  <2>4. DeviceType'
    BY <1>1, <1>2, <1>3, <1>5, <1>4 DEF DeviceType, device
  <2> QED BY <2>1, <2>2, <2>3, <2>4 DEF TypeOK
<1>11. Handed' = Handed /\ Handed \subseteq [sentry : Pos, nr : Nat]
  BY <1>1, <1>2 DEF Handed, device, DeviceType
<1>12. \A p : Sent(p)' <=> Sent(p)
  BY <1>1 DEF Sent, entries
<1>13. RequestInv'
  <2>1. ASSUME NEW r \in Handed PROVE Between(r.sentry, r.nr, subm)'
    <3>1. RingCount(r.sentry, sync) + r.nr <= RingCount(subm, sync)
      BY DEF IndInv, RequestInv, Between
    <3>2. RingCount(r.sentry, sync) \in Int /\ r.nr \in Nat
      BY <1>3, <1>11, CountRange
    <3> QED BY <1>1, <1>6, <1>7, <1>8, <3>1, <3>2 DEF Between
  <2> QED BY <1>1, <1>11, <1>12, <2>1 DEF IndInv, RequestInv, device
<1>14. WriterInv'
  <2>1. /\ w'.pc = "read" /\ w'.pos = subm /\ w'.n = n /\ w'.i = 0
    BY <1>1
  <2>2. Between(w.pos, w.n, subm)'
    <3>1. RingCount(w'.pos, sync') = RingCount(subm, sync) /\ w'.n = n
      BY <1>1, <2>1
    <3>2. RingCount(subm', sync') = RingCount(subm, sync) + n
      BY <1>1, <1>8
    <3>3. RingCount(subm, sync) + n <= RingCount(subm, sync) + n
      BY <1>6, <1>7
    <3> QED BY <3>1, <3>2, <3>3 DEF Between
  <2>3. Window(subm, 0) = {}
    BY <1>3, CountRange DEF Window
  <2>4. ASSUME NEW r \in Handed, NEW p \in Window(r.sentry, r.nr), p \in Window(subm, n)
        PROVE  FALSE
    <3>1. p \in Pos /\ RingCount(p, sync) < RingCount(subm, sync)
      BY <1>11, RequestBetween DEF IndInv, RequestInv
    <3>2. n \in Nat /\ RingCount(subm, sync) + n < NrEntries
      BY <1>6, <1>7, NrEntriesAssumption
    <3>3. RingCount(p, sync) = RingCount(subm, sync) + RingCount(p, subm)
      BY <1>3, <2>4, <3>2, InSegment
    <3>4. RingCount(p, subm) \in Nat
      BY <1>3, <3>1, CountRange
    <3> QED BY <1>6, <3>1, <3>3, <3>4
  <2>5. \A r \in Handed : Window(r.sentry, r.nr) \cap Window(subm, n) = {}
    BY <2>4
  <2>6. n >= 1 /\ 0 <= n
    BY <1>7, <1>6
  <2> QED BY <1>11, <2>1, <2>2, <2>3, <2>5, <2>6 DEF WriterInv
<1>15. EntryInv' /\ SyncedAreSent'
  BY <1>1, Zenon DEF IndInv, EntryInv, SyncedAreSent, Synced, entries
<1>16. UNCHANGED <<mem, sync, flags, thread>>
  BY <1>1 DEF entries
<1> QED BY <1>9, <1>10, <1>13, <1>14, <1>15, <1>16, FrameThreads DEF IndInv

\* The request handed over is new, and all its entries are sent.
LEMMA SubmitIoInv ==
  ASSUME IndInv, SubmitIo
  PROVE  IndInv'
<1> DEFINE q == [sentry |-> w.pos, nr |-> w.n]
<1>1. /\ w.pc = "read" /\ w.i = w.n /\ inflight' = inflight \cup {q} /\ w' = Idle
      /\ UNCHANGED <<ptrs, nr_user, entries, limits, thread, compl_list, s_lock, target>>
  BY Zenon DEF SubmitIo
<1>2. TypeOK /\ DeviceType /\ w.pos \in Pos /\ w.n \in Nat
  BY DEF IndInv, TypeOK, DeviceType
<1>3. q \in [sentry : Pos, nr : Nat] /\ q.sentry = w.pos /\ q.nr = w.n
  BY <1>2
<1> HIDE DEF q
<1>4. /\ q.nr >= 1 /\ Between(q.sentry, q.nr, subm)
      /\ \A p \in Window(q.sentry, q.nr) : Sent(p)
      /\ \A r \in Handed : Window(r.sentry, r.nr) \cap Window(q.sentry, q.nr) = {}
  BY <1>1, <1>3, Zenon DEF IndInv, WriterInv
<1>5. q \notin Handed
  <2>1. q.sentry \in Window(q.sentry, q.nr)
    BY <1>2, <1>3, <1>4, FirstInWindow
  <2> QED BY <1>4, <2>1
<1>6. Handed' = Handed \cup {q}
  BY <1>1 DEF Handed
<1>7. TypeOK'
  <2>1. RingType' /\ LimitType' /\ ThreadType' /\ phase' \in {"run", "waited", "down"}
    BY <1>1, <1>2 DEF TypeOK, RingType, LimitType, ThreadType, ptrs, entries, limits,
                      thread, target
  <2>2. SwitchType'
    BY <1>1, <1>2, Zenon DEF TypeOK, SwitchType, limits, target
  <2>3. DeviceType'
    BY <1>1, <1>2, <1>3, NrEntriesAssumption DEF DeviceType, Idle, Pos
  <2> QED BY <2>1, <2>2, <2>3 DEF TypeOK
<1>8. \A p : Sent(p)' <=> Sent(p)
  BY <1>1 DEF Sent, entries
<1>9. UNCHANGED <<mem, subm, sync, l2p_update, flags, submit_flags, thread>>
  BY <1>1 DEF ptrs, entries
<1>10. RequestInv'
  <2>1. \A r \in Handed' : /\ r.nr >= 1
                           /\ Between(r.sentry, r.nr, subm)
                           /\ \A p \in Window(r.sentry, r.nr) : Sent(p)
    BY <1>4, <1>6 DEF IndInv, RequestInv
  <2>2. \A r, s \in Handed' : r # s =>
           Window(r.sentry, r.nr) \cap Window(s.sentry, s.nr) = {}
    BY <1>4, <1>6 DEF IndInv, RequestInv
  <2>3. inflight' \cap compl_list' = {}
    BY <1>1, <1>5 DEF IndInv, RequestInv, Handed
  <2>4. \A r \in Handed' : Between(r.sentry, r.nr, subm)' <=> Between(r.sentry, r.nr, subm)
    BY <1>9 DEF Between
  <2> QED BY <1>8, <2>1, <2>2, <2>3, <2>4 DEF RequestInv
<1>11. WriterInv'
  BY <1>1 DEF WriterInv, Idle
<1>12. RingInv' /\ EntryInv' /\ SyncedAreSent'
  BY <1>9 DEF IndInv, RingInv, EntryInv, SyncedAreSent, Synced
<1> QED BY <1>7, <1>9, <1>10, <1>11, <1>12, FrameThreads DEF IndInv
===============================================================================
