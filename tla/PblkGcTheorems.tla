---------------------------- MODULE PblkGcTheorems ----------------------------
(* What holds of the map, the rings and the GC queue for any number of blocks,  *)
(* lines and entries, and whatever goes wrong in the GC threads.                *)
EXTENDS PblkGc, TLAPS

-------------------------------------------------------------------------------
(* The queue of GC lines.                                                       *)

\* Lines in the queue and in preparation have their place counted; places that a
\* failed allocation does not give back stay counted too.  A scan goes on only while
\* there is a place.
QueueInv ==
  /\ inflight_gc \in Nat /\ r_list \in Seq(Lines)
  /\ prep \in [line : Lines \cup {None}, left : SUBSET Secs]
  /\ Len(r_list) + (IF prep.line = None THEN 0 ELSE 1) <= inflight_gc
  /\ inflight_gc <= LineQd
  /\ scan # NoScan => inflight_gc < LineQd

LEMMA InitQueue == Init => QueueInv
BY GcAssumption DEF Init, QueueInv, NoPrep, NoScan

\* Every step of the GC threads keeps it; no other step touches the queue.
LEMMA StepQueue == QueueInv /\ [Next]_vars => QueueInv'
<1> SUFFICES ASSUME QueueInv, [Next]_vars PROVE QueueInv'
  OBVIOUS
<1>0. LineQd \in Nat /\ None \notin Lines
  BY GcAssumption
<1>1. ASSUME UNCHANGED <<inflight_gc, r_list, prep, scan>> PROVE QueueInv'
  BY <1>1 DEF QueueInv
<1>2. ASSUME NEW x \in Lbas, UserWrite(x) \/ Discard(x) \/ ReadLookup(x) PROVE QueueInv'
  BY <1>1, <1>2, Zenon DEF UserWrite, Discard, Remap, ReadLookup, otherthanrd, gcvars
<1>3. CASE ReadCache \/ ReadRetry \/ ReadDev
  BY <1>1, <1>3 DEF ReadCache, ReadRetry, ReadDev, otherthanrd, gcvars
<1>4. ASSUME NEW t \in Threads, MoveLine(t) PROVE QueueInv'
  BY <1>1, <1>4 DEF MoveLine, gcvars
<1>5. ASSUME NEW r \in Rings, MapPage(r) \/ UpdateL2p(r) PROVE QueueInv'
  BY <1>1, <1>5, Zenon DEF MapPage, UpdateL2p, gcvars
<1>6. ASSUME NEW r \in Rings, NEW l \in Lines, OpenLine(r, l) PROVE QueueInv'
  BY <1>1, <1>6 DEF OpenLine, gcvars
<1>7. ASSUME NEW l \in Lines, CloseLine(l) \/ GcTakeFull(l) PROVE QueueInv'
  BY <1>1, <1>7 DEF CloseLine, GcTakeFull
<1>8. ASSUME NEW l \in Lines, GcTakeVictim(l) PROVE QueueInv'
  <2>1. /\ inflight_gc < LineQd /\ inflight_gc' = inflight_gc + 1
        /\ r_list' = Append(r_list, l) /\ UNCHANGED prep
    BY <1>8 DEF GcTakeVictim, QueueInv
  <2>2. scan' # NoScan => inflight_gc' < LineQd
    BY <1>8 DEF GcTakeVictim, MayQueue
  <2> QED BY <1>0, <2>1, <2>2 DEF QueueInv, NoScan
<1>9. CASE GcScan \/ GcNextGroup
  BY <1>9 DEF GcScan, GcNextGroup, MayQueue, QueueInv, NoScan
<1>10. CASE PrepareLine
  <2>1. /\ prep.line = None /\ r_list # <<>> /\ r_list' = Tail(r_list)
        /\ prep' = [line |-> Head(r_list), left |-> Secs \ line[Head(r_list)].invalid]
        /\ UNCHANGED <<inflight_gc, scan>>
    BY <1>10 DEF PrepareLine, NoPrep
  <2>2. r_list' \in Seq(Lines) /\ Len(r_list') = Len(r_list) - 1 /\ Head(r_list) \in Lines
    BY <2>1 DEF QueueInv
  <2>3. prep' \in [line : Lines \cup {None}, left : SUBSET Secs] /\ prep'.line # None
    BY <1>0, <2>1, <2>2
  <2>4. Len(r_list) \in Nat
    BY DEF QueueInv
  <2> QED BY <1>0, <2>1, <2>2, <2>3, <2>4 DEF QueueInv, NoScan
<1>11. CASE PrepareRq
  <2>1. PICK s : prep' = [prep EXCEPT !.left = @ \ s]
    BY <1>11, Zenon DEF PrepareRq
  <2>2. UNCHANGED <<inflight_gc, r_list, scan>>
    BY <1>11 DEF PrepareRq
  <2> QED BY <2>1, <2>2 DEF QueueInv, NoScan
<1>12. CASE PrepareEnd \/ PrepareFail
  <2>1. /\ prep.line # None /\ prep' = NoPrep /\ inflight_gc' = inflight_gc - 1
        /\ UNCHANGED <<r_list, scan>>
    BY <1>12 DEF PrepareEnd, PrepareFail
  <2>2. Len(r_list) \in Nat
    BY DEF QueueInv
  <2> QED BY <1>0, <2>1, <2>2 DEF QueueInv, NoScan, NoPrep
<1>13. CASE PrepareNoMem
  <2>1. r_list # <<>> /\ r_list' = Tail(r_list) /\ UNCHANGED <<inflight_gc, prep, scan>>
    BY <1>13 DEF PrepareNoMem
  <2>2. r_list' \in Seq(Lines) /\ Len(r_list') = Len(r_list) - 1 /\ Len(r_list) \in Nat
    BY <2>1 DEF QueueInv
  <2> QED BY <1>0, <2>1, <2>2 DEF QueueInv, NoScan
<1>14. ASSUME NEW q \in reads, ReadGc(q) \/ ReadGcFail(q) PROVE QueueInv'
  BY <1>1, <1>14, Zenon DEF ReadGc, ReadGcFail
<1>15. CASE GcWriteEntry
  BY <1>1, <1>15 DEF GcWriteEntry
<1>16. CASE UNCHANGED vars
  BY <1>1, <1>16 DEF vars, gcvars
<1> QED BY <1>2, <1>3, <1>4, <1>5, <1>6, <1>7, <1>8, <1>9, <1>10, <1>11, <1>12, <1>13, <1>14,
           <1>15, <1>16 DEF Next

\* Whatever fails in the GC threads, no more than PBLK_GC_L_QD lines are in their hands
\* and every queued line is counted: neither error path takes a place back twice.
THEOREM GcQueueBounded == Spec => []InflightBounded
<1>1. QueueInv => InflightBounded
  <2> SUFFICES ASSUME QueueInv PROVE InflightBounded
    OBVIOUS
  <2>1. Len(r_list) \in Nat
    BY DEF QueueInv
  <2> QED BY <2>1 DEF QueueInv, InflightBounded
<1> QED BY <1>1, InitQueue, StepQueue, PTL DEF Spec
-------------------------------------------------------------------------------
(* Addresses of ring entries.                                                   *)

IsSeq(q) == q = [i \in 1 .. Len(q) |-> q[i]] /\ Len(q) \in Nat
IsEntry(e) == DOMAIN e = {"lba", "new", "ppa"} /\ ~InCache(e.ppa)
Entries(q) == IsSeq(q) /\ Len(q) <= Cap /\ \A i \in 1 .. Len(q) : IsEntry(q[i])

\* Entry i of ring r is the one a leads to, and holds block x.
LeadsTo(a, r, i, x) == a = CacheAddr(r, Slot(r, i)) /\ ring[r].q[i].lba = x

Shape ==
  /\ DOMAIN ring = Rings /\ \A r \in Rings : DOMAIN ring[r] = {"tail", "q"}
  /\ DOMAIN map = Lbas /\ DOMAIN thr = Threads
Queues == \A r \in Rings : ring[r].tail \in 0 .. Cap /\ Entries(ring[r].q)

\* An address of a ring leads to an entry of its block.
Led ==
  \A x \in Lbas : InCache(map[x]) =>
    \E r \in Rings : \E i \in 1 .. Len(ring[r].q) : LeadsTo(map[x], r, i, x)

\* Once a thread has left the oldest entry's map update for a list move, no address
\* leads to that entry, and the ring stays full until the thread is back.
Owed ==
  \A r \in Rings : thr[r] # Idle =>
    /\ Len(ring[r].q) = Cap
    /\ \A x \in Lbas : map[x] # CacheAddr(r, Slot(r, 1))

CacheInv == Shape /\ Queues /\ Led /\ Owed

\* Positions wrap round.
LEMMA Wrapped ==
  ASSUME NEW n \in Nat \ {0}, NEW a \in 0 .. n + n - 1
  PROVE  a % n = IF a < n THEN a ELSE a - n
OBVIOUS

LEMMA SlotWraps ==
  ASSUME NEW r, ring[r].tail \in 0 .. Cap, NEW i \in 1 .. Cap + 1
  PROVE  Slot(r, i) = IF ring[r].tail + i - 1 <= Cap THEN ring[r].tail + i - 1
                      ELSE ring[r].tail + i - 1 - (Cap + 1)
<1> DEFINE a == ring[r].tail + i - 1
<1>1. Cap + 1 \in Nat \ {0} /\ a \in 0 .. (Cap + 1) + (Cap + 1) - 1 /\ Cap \in Nat \ {0}
  BY GcAssumption
<1>2. a % (Cap + 1) = IF a < Cap + 1 THEN a ELSE a - (Cap + 1)
  BY <1>1, Wrapped, Zenon
<1> QED BY <1>1, <1>2 DEF Slot

\* A position of the ring has one index.
LEMMA SlotUnique ==
  ASSUME NEW r, ring[r].tail \in 0 .. Cap, NEW i \in 1 .. Cap + 1, NEW j \in 1 .. Cap + 1,
         Slot(r, i) = Slot(r, j)
  PROVE  i = j
<1>1. Cap \in Nat \ {0}
  BY GcAssumption
<1> QED BY <1>1, SlotWraps

LEMMA IndexOfSlot ==
  ASSUME NEW r, ring[r].tail \in 0 .. Cap, NEW i \in 1 .. Cap + 1
  PROVE  Index(r, Slot(r, i)) = i
<1>1. \A j \in 1 .. Cap + 1 : Slot(r, j) = Slot(r, i) => j = i
  BY SlotUnique
<1> QED BY <1>1 DEF Index

\* The oldest entry leaves: the others keep their positions.
LEMMA SlotShifts ==
  ASSUME NEW r, ring[r].tail \in 0 .. Cap, ring'[r].tail = Slot(r, 2), NEW i \in 1 .. Cap
  PROVE  Slot(r, i)' = Slot(r, i + 1) /\ ring'[r].tail \in 0 .. Cap
<1>1. Cap \in Nat \ {0} /\ i + 1 \in 1 .. Cap + 1 /\ 2 \in 1 .. Cap + 1 /\ i \in 1 .. Cap + 1
  BY GcAssumption
<1> DEFINE t == ring[r].tail
           u == ring'[r].tail
<1>2. u = IF t + 1 <= Cap THEN t + 1 ELSE t + 1 - (Cap + 1)
  BY <1>1, SlotWraps
<1>3. u \in 0 .. Cap
  BY <1>1, <1>2
<1>4. Slot(r, i)' = (u + i - 1) % (Cap + 1)
  BY DEF Slot
<1>5. (u + i - 1) % (Cap + 1) = IF u + i - 1 < Cap + 1 THEN u + i - 1 ELSE (u + i - 1) - (Cap + 1)
  <2> DEFINE b == u + i - 1
             n == Cap + 1
  <2>1. b \in 0 .. n + n - 1 /\ n \in Nat \ {0}
    BY <1>1, <1>3
  <2> HIDE DEF b, n
  <2>2. b % n = IF b < n THEN b ELSE b - n
    BY <2>1, Wrapped, Zenon
  <2> QED BY <2>2 DEF b, n
<1>6. Slot(r, i + 1) = IF t + i <= Cap THEN t + i ELSE t + i - (Cap + 1)
  BY <1>1, SlotWraps
<1> QED BY <1>1, <1>2, <1>3, <1>4, <1>5, <1>6

LEMMA SeqFrom ==
  ASSUME NEW q, IsSeq(q), NEW S, \A i \in 1 .. Len(q) : q[i] \in S
  PROVE  q \in Seq(S)
<1>1. [i \in 1 .. Len(q) |-> q[i]] \in [1 .. Len(q) -> S]
  OBVIOUS
<1>2. q \in [1 .. Len(q) -> S] /\ Len(q) \in Nat
  BY <1>1, Zenon DEF IsSeq
<1> HIDE DEF IsSeq
<1> QED BY <1>2

LEMMA SeqIs ==
  ASSUME NEW S, NEW q \in Seq(S)
  PROVE  IsSeq(q)
<1>1. q \in [1 .. Len(q) -> S] /\ Len(q) \in Nat
  OBVIOUS
<1> QED BY <1>1 DEF IsSeq

\* What Append and Tail do to a queue of entries.
LEMMA AppendEntry ==
  ASSUME NEW q, Entries(q), Len(q) < Cap, NEW e, IsEntry(e)
  PROVE  /\ Entries(Append(q, e)) /\ Len(Append(q, e)) = Len(q) + 1
         /\ Append(q, e)[Len(q) + 1] = e
         /\ \A i \in 1 .. Len(q) : Append(q, e)[i] = q[i]
<1> DEFINE S == {q[i] : i \in 1 .. Len(q)} \cup {e}
           a == Append(q, e)
<1>0. Cap \in Nat /\ Len(q) \in Nat
  BY GcAssumption DEF Entries, IsSeq
<1>1. q \in Seq(S) /\ e \in S
  <2>1. IsSeq(q) /\ e \in S /\ \A i \in 1 .. Len(q) : q[i] \in S
    BY DEF Entries
  <2> HIDE DEF S
  <2> QED BY <2>1, SeqFrom
<1> HIDE DEF S
<1>2. /\ a \in Seq(S) /\ Len(a) = Len(q) + 1
      /\ a[Len(q) + 1] = e /\ \A i \in 1 .. Len(q) : a[i] = q[i]
  BY <1>1
<1>3. IsSeq(a)
  BY <1>2, SeqIs, Zenon
<1> HIDE DEF a
<1>4. \A i \in 1 .. Len(a) : IsEntry(a[i])
  BY <1>0, <1>2 DEF Entries
<1>5. Entries(a)
  BY <1>0, <1>2, <1>3, <1>4 DEF Entries
<1> QED BY <1>2, <1>5 DEF a

LEMMA TailEntries ==
  ASSUME NEW q, Entries(q), Len(q) > 0
  PROVE  /\ Entries(Tail(q)) /\ Len(Tail(q)) = Len(q) - 1 /\ Head(q) = q[1]
         /\ \A i \in 1 .. Len(q) - 1 : Tail(q)[i] = q[i + 1]
<1> DEFINE S == {q[i] : i \in 1 .. Len(q)}
           a == Tail(q)
<1>0. Cap \in Nat /\ Len(q) \in Nat
  BY GcAssumption DEF Entries, IsSeq
<1>1. q \in Seq(S) /\ q # <<>>
  <2>1. IsSeq(q) /\ q # <<>> /\ \A i \in 1 .. Len(q) : q[i] \in S
    BY DEF Entries
  <2> HIDE DEF S
  <2> QED BY <2>1, SeqFrom
<1> HIDE DEF S
<1>2. /\ a \in Seq(S) /\ Len(a) = Len(q) - 1 /\ Head(q) = q[1]
      /\ \A i \in 1 .. Len(q) - 1 : a[i] = q[i + 1]
  BY <1>0, <1>1
<1>3. IsSeq(a)
  BY <1>2, SeqIs, Zenon
<1> HIDE DEF a
<1>4. \A i \in 1 .. Len(a) : IsEntry(a[i])
  BY <1>0, <1>2 DEF Entries
<1>5. Entries(a)
  BY <1>0, <1>2, <1>3, <1>4 DEF Entries
<1> QED BY <1>2, <1>5 DEF a

\* The entries of a ring are where they were, and hold the same blocks.
SameEntries(p, q) == Entries(p) /\ Len(p) = Len(q) /\ \A i \in 1 .. Len(q) : p[i].lba = q[i].lba

\* The rings stay as they are but for other fields of the entries.
LEMMA CacheSame ==
  ASSUME CacheInv, Shape',
         \A r \in Rings : ring'[r].tail = ring[r].tail /\ SameEntries(ring'[r].q, ring[r].q),
         \A x \in Lbas : map'[x] = map[x] \/ ~InCache(map'[x]),
         \A r \in Rings : thr'[r] = thr[r]
  PROVE  CacheInv'
<1>1. \A r \in Rings : ring'[r].tail = ring[r].tail /\ Len(ring'[r].q) = Len(ring[r].q)
  BY DEF SameEntries
<1>2. \A r \in Rings : \A i : Slot(r, i)' = Slot(r, i)
  BY <1>1 DEF Slot
<1>4. \A r \in Rings : ring'[r].tail \in 0 .. Cap /\ Entries(ring'[r].q)
  BY <1>1 DEF CacheInv, Queues, SameEntries
<1>5. ASSUME NEW x \in Lbas, InCache(map'[x])
      PROVE  \E r \in Rings : \E i \in 1 .. Len(ring'[r].q) : LeadsTo(map[x], r, i, x)'
  <2>1. map'[x] = map[x] /\ InCache(map[x])
    BY <1>5
  <2>2. PICK r \in Rings, i \in Nat : i \in 1 .. Len(ring[r].q) /\ LeadsTo(map[x], r, i, x)
    BY <2>1 DEF CacheInv, Led
  <2>3. LeadsTo(map[x], r, i, x)' /\ i \in 1 .. Len(ring'[r].q)
    BY <1>1, <1>2, <2>1, <2>2, Zenon DEF LeadsTo, SameEntries, CacheAddr
  <2> QED BY <2>3
<1>6. ASSUME NEW r \in Rings, thr'[r] # Idle
      PROVE  Len(ring'[r].q) = Cap /\ \A x \in Lbas : map'[x] # CacheAddr(r, Slot(r, 1)')
  <2>1. thr[r] # Idle /\ Len(ring'[r].q) = Cap /\ \A x \in Lbas : map[x] # CacheAddr(r, Slot(r, 1)')
    BY <1>1, <1>2, <1>6 DEF CacheInv, Owed
  <2>2. InCache(CacheAddr(r, Slot(r, 1)'))
    BY DEF InCache, CacheAddr
  <2> QED BY <2>1, <2>2
<1> QED BY <1>4, <1>5, <1>6 DEF CacheInv, Queues, Led, Owed

\* A new entry: the map may lead its block to it.
LEMMA CacheInsert ==
  ASSUME CacheInv, Shape', NEW r \in Rings, HasRoom(r), NEW p, NEW e, IsEntry(e),
         \A s \in Rings : ring'[s].tail = ring[s].tail,
         \A s \in Rings \ {r} : SameEntries(ring'[s].q, ring[s].q),
         SameEntries(p, ring[r].q), ring'[r].q = Append(p, e),
         \A x \in Lbas : \/ map'[x] = map[x]
                         \/ map'[x] = NextAddr(r) /\ e.lba = x,
         \A s \in Rings : thr'[s] = thr[s]
  PROVE  CacheInv'
<1>0. Cap \in Nat \ {0}
  BY GcAssumption
<1>1. /\ Entries(p) /\ Len(p) = Len(ring[r].q) /\ Len(p) < Cap
      /\ \A i \in 1 .. Len(p) : p[i].lba = ring[r].q[i].lba
  BY DEF SameEntries, HasRoom
<1>2. /\ Entries(ring'[r].q) /\ Len(ring'[r].q) = Len(p) + 1
      /\ ring'[r].q[Len(p) + 1] = e
      /\ \A i \in 1 .. Len(p) : ring'[r].q[i] = p[i]
  BY <1>1, AppendEntry
<1>3. Len(p) \in Nat
  BY <1>1 DEF Entries, IsSeq
<1>4. \A s \in Rings : ring'[s].tail = ring[s].tail
  OBVIOUS
<1>5. \A s \in Rings : \A i : Slot(s, i)' = Slot(s, i)
  BY <1>4 DEF Slot
<1>7. \A s \in Rings : ring'[s].tail \in 0 .. Cap /\ Entries(ring'[s].q)
  BY <1>2, <1>4, Zenon DEF CacheInv, Queues, SameEntries
<1>8. \A s \in Rings : \A i \in 1 .. Len(ring[s].q) :
        i \in 1 .. Len(ring'[s].q) /\ ring'[s].q[i].lba = ring[s].q[i].lba
  <2>1. \A i \in 1 .. Len(ring[r].q) : i \in 1 .. Len(ring'[r].q) /\ ring'[r].q[i].lba = ring[r].q[i].lba
    BY <1>1, <1>2, <1>3
  <2>2. \A s \in Rings \ {r} : \A i \in 1 .. Len(ring[s].q) :
          i \in 1 .. Len(ring'[s].q) /\ ring'[s].q[i].lba = ring[s].q[i].lba
    BY DEF SameEntries
  <2> QED BY <2>1, <2>2, Zenon
<1>9. ASSUME NEW x \in Lbas, InCache(map'[x])
      PROVE  \E s \in Rings : \E i \in 1 .. Len(ring'[s].q) : LeadsTo(map[x], s, i, x)'
  <2>1. CASE map'[x] = map[x]
    <3>1. PICK s \in Rings, i \in Nat : i \in 1 .. Len(ring[s].q) /\ LeadsTo(map[x], s, i, x)
      BY <1>9, <2>1 DEF CacheInv, Led
    <3>2. LeadsTo(map[x], s, i, x)' /\ i \in 1 .. Len(ring'[s].q)
      BY <1>5, <1>8, <2>1, <3>1 DEF LeadsTo, CacheAddr
    <3> QED BY <3>2
  <2>2. CASE map'[x] = NextAddr(r) /\ e.lba = x
    <3>1. map'[x] = CacheAddr(r, Slot(r, Len(p) + 1))
      BY <1>1, <2>2 DEF NextAddr
    <3>2. Len(p) + 1 \in 1 .. Len(ring'[r].q)
      BY <1>2, <1>3
    <3>3. LeadsTo(map[x], r, Len(p) + 1, x)'
      BY <1>2, <1>5, <2>2, <3>1 DEF LeadsTo, CacheAddr
    <3> QED BY <3>2, <3>3
  <2> QED BY <2>1, <2>2
<1>10. ASSUME NEW s \in Rings, thr'[s] # Idle
      PROVE  Len(ring'[s].q) = Cap /\ \A x \in Lbas : map'[x] # CacheAddr(s, Slot(s, 1)')
  <2>1. thr[s] # Idle /\ Len(ring[s].q) = Cap /\ \A x \in Lbas : map[x] # CacheAddr(s, Slot(s, 1)')
    BY <1>5, <1>10 DEF CacheInv, Owed
  <2>2. s # r
    BY <1>0, <2>1 DEF HasRoom
  <2>3. NextAddr(r) # CacheAddr(s, Slot(s, 1)')
    BY <2>2 DEF NextAddr, CacheAddr
  <2> QED BY <2>1, <2>2, <2>3 DEF SameEntries
<1> QED BY <1>7, <1>9, <1>10 DEF CacheInv, Queues, Led, Owed

\* The oldest entry leaves, and no address leads to it.
LEMMA CachePop ==
  ASSUME CacheInv, NEW r \in Rings, Len(ring[r].q) = Cap,
         ring' = [ring EXCEPT ![r] = [tail |-> Slot(r, 2), q |-> Tail(ring[r].q)]],
         DOMAIN map' = Lbas, thr' = [thr EXCEPT ![r] = Idle],
         \A x \in Lbas : /\ map'[x] = map[x] \/ ~InCache(map'[x])
                         /\ map'[x] # CacheAddr(r, Slot(r, 1))
  PROVE  CacheInv'
<1>0. Cap \in Nat \ {0}
  BY GcAssumption
<1>1. /\ Entries(Tail(ring[r].q)) /\ Len(Tail(ring[r].q)) = Cap - 1
      /\ \A i \in 1 .. Cap - 1 : Tail(ring[r].q)[i] = ring[r].q[i + 1]
  BY <1>0, TailEntries DEF CacheInv, Queues
<1>2. ring'[r].tail = Slot(r, 2) /\ ring'[r].q = Tail(ring[r].q) /\ \A s \in Rings \ {r} : ring'[s] = ring[s]
  BY DEF CacheInv, Shape
<1>3. \A s \in Rings \ {r} : \A i : Slot(s, i)' = Slot(s, i)
  BY <1>2 DEF Slot
<1>4. \A i \in 1 .. Cap : Slot(r, i)' = Slot(r, i + 1) /\ ring'[r].tail \in 0 .. Cap
  BY <1>2, SlotShifts DEF CacheInv, Queues
<1>5. Shape'
  BY <1>2 DEF CacheInv, Shape
<1>6. \A s \in Rings : ring'[s].tail \in 0 .. Cap /\ Entries(ring'[s].q)
  <2>1. 1 \in 1 .. Cap
    BY <1>0
  <2> QED BY <1>1, <1>2, <1>4, <2>1 DEF CacheInv, Queues
<1>7. ASSUME NEW x \in Lbas, InCache(map'[x])
      PROVE  \E s \in Rings : \E i \in 1 .. Len(ring'[s].q) : LeadsTo(map[x], s, i, x)'
  <2>1. PICK s \in Rings, i \in Nat : i \in 1 .. Len(ring[s].q) /\ LeadsTo(map[x], s, i, x) /\ map'[x] = map[x]
    BY <1>7 DEF CacheInv, Led
  <2>2. CASE s # r
    <3>1. LeadsTo(map[x], s, i, x)' /\ i \in 1 .. Len(ring'[s].q)
      BY <1>2, <1>3, <2>1, <2>2 DEF LeadsTo, CacheAddr
    <3> QED BY <3>1
  <2>3. CASE s = r
    <3>1. i # 1
      BY <2>1, <2>3 DEF LeadsTo
    <3>2. i - 1 \in 1 .. Cap - 1 /\ i - 1 \in 1 .. Cap /\ (i - 1) + 1 = i
      BY <1>0, <2>1, <2>3, <3>1
    <3>3. Slot(r, i - 1)' = Slot(r, i) /\ ring'[r].q[i - 1] = ring[r].q[i]
      BY <1>1, <1>2, <1>4, <3>2, Zenon
    <3>4. LeadsTo(map[x], r, i - 1, x)' /\ i - 1 \in 1 .. Len(ring'[r].q)
      BY <1>1, <1>2, <2>1, <2>3, <3>2, <3>3 DEF LeadsTo, CacheAddr
    <3> QED BY <3>4
  <2> QED BY <2>2, <2>3
<1>8. ASSUME NEW s \in Rings, thr'[s] # Idle
      PROVE  Len(ring'[s].q) = Cap /\ \A x \in Lbas : map'[x] # CacheAddr(s, Slot(s, 1)')
  <2>1. s # r /\ thr'[s] = thr[s]
    BY <1>8 DEF CacheInv, Shape, Threads
  <2>2. Len(ring'[s].q) = Cap /\ \A x \in Lbas : map[x] # CacheAddr(s, Slot(s, 1)')
    BY <1>2, <1>3, <1>8, <2>1 DEF CacheInv, Owed
  <2>3. InCache(CacheAddr(s, Slot(s, 1)'))
    BY DEF InCache, CacheAddr
  <2> QED BY <2>2, <2>3
<1> QED BY <1>5, <1>6, <1>7, <1>8 DEF CacheInv, Queues, Led, Owed

LEMMA InitCache == Init => CacheInv
<1> SUFFICES ASSUME Init PROVE CacheInv
  OBVIOUS
<1>1. Shape
  BY DEF Init, Shape
<1>2. Queues
  <2>1. Entries(<<>>)
    BY GcAssumption DEF Entries, IsSeq
  <2> QED BY <2>1, GcAssumption DEF Init, Queues
<1>3. Led
  BY DEF Init, Led, InCache, Empty
<1>4. Owed
  BY DEF Init, Owed, Threads
<1> QED BY <1>1, <1>2, <1>3, <1>4 DEF CacheInv

\* The queues after a block was written again, and with a sector given to an entry.
LEMMA AgedSame ==
  ASSUME NEW q, Entries(q), NEW x
  PROVE  SameEntries(Aged(q, x), q)
<1> DEFINE a == Aged(q, x)
<1>1. Len(q) \in Nat /\ DOMAIN q = 1 .. Len(q) /\ Len(q) <= Cap
  BY DEF Entries, IsSeq
<1>2. a = [i \in 1 .. Len(q) |-> IF q[i].lba = x THEN [q[i] EXCEPT !.new = FALSE] ELSE q[i]]
  BY <1>1 DEF Aged
<1> HIDE DEF a
<1>3. Len(a) = Len(q)
  BY <1>1, <1>2
<1>4. IsSeq(a)
  BY <1>1, <1>2, <1>3 DEF IsSeq
<1>5. ASSUME NEW i \in 1 .. Len(q)
      PROVE  IsEntry(a[i]) /\ a[i].lba = q[i].lba
  <2>1. DOMAIN q[i] = {"lba", "new", "ppa"} /\ ~InCache(q[i].ppa)
    BY DEF Entries, IsEntry
  <2>2. CASE q[i].lba = x
    <3>1. a[i] = [q[i] EXCEPT !.new = FALSE]
      BY <1>2, <2>2
    <3> QED BY <2>1, <3>1 DEF IsEntry
  <2>3. CASE q[i].lba # x
    BY <1>2, <2>1, <2>3 DEF IsEntry
  <2> QED BY <2>2, <2>3
<1>6. Entries(a)
  BY <1>1, <1>3, <1>4, <1>5 DEF Entries
<1> QED BY <1>3, <1>5, <1>6 DEF SameEntries, a

LEMMA MappedSame ==
  ASSUME NEW q, Entries(q), NEW j, NEW a, ~InCache(a)
  PROVE  SameEntries([q EXCEPT ![j].ppa = a], q)
<1> DEFINE p == [q EXCEPT ![j].ppa = a]
<1>1. Len(q) \in Nat /\ q = [i \in 1 .. Len(q) |-> q[i]] /\ Len(q) <= Cap
  BY DEF Entries, IsSeq
<1>2. p = [i \in 1 .. Len(q) |-> IF i = j THEN [q[i] EXCEPT !.ppa = a] ELSE q[i]]
  BY <1>1, Zenon
<1> HIDE DEF p
<1>3. Len(p) = Len(q)
  BY <1>1, <1>2
<1>4. IsSeq(p)
  BY <1>1, <1>2, <1>3 DEF IsSeq
<1>5. ASSUME NEW i \in 1 .. Len(q)
      PROVE  IsEntry(p[i]) /\ p[i].lba = q[i].lba
  <2>1. DOMAIN q[i] = {"lba", "new", "ppa"} /\ ~InCache(q[i].ppa)
    BY DEF Entries, IsEntry
  <2>2. CASE i = j
    <3>1. p[i] = [q[i] EXCEPT !.ppa = a]
      BY <1>2, <2>2
    <3> QED BY <2>1, <3>1 DEF IsEntry
  <2>3. CASE i # j
    BY <1>2, <2>1, <2>3 DEF IsEntry
  <2> QED BY <2>2, <2>3
<1>6. Entries(p)
  BY <1>1, <1>3, <1>4, <1>5 DEF Entries
<1> QED BY <1>3, <1>5, <1>6 DEF SameEntries, p


\* A user's write or discard.
LEMMA RemapCache ==
  ASSUME CacheInv, NEW x \in Lbas, UserWrite(x) \/ Discard(x)
  PROVE  CacheInv'
<1> DEFINE A == AgedRings(x)
<1>1. /\ DOMAIN A = Rings
      /\ \A r \in Rings : /\ DOMAIN A[r] = {"tail", "q"} /\ A[r].tail = ring[r].tail
                          /\ A[r].q = Aged(ring[r].q, x)
  BY DEF AgedRings, CacheInv, Shape
<1>2. \A r \in Rings : SameEntries(Aged(ring[r].q, x), ring[r].q)
  BY AgedSame DEF CacheInv, Queues
<1> HIDE DEF A
<1>3. DOMAIN thr' = Threads /\ \A r \in Rings : thr'[r] = thr[r]
  BY Zenon DEF UserWrite, Discard, Remap, CacheInv, Shape, Threads, Rings
<1>4. CASE Discard(x)
  <2>1. ring' = A /\ map' = [map EXCEPT ![x] = Empty]
    BY <1>4 DEF Discard, Remap, A
  <2>2. DOMAIN map' = Lbas /\ \A y \in Lbas : map'[y] = map[y] \/ map'[y] = Empty
    BY <2>1 DEF CacheInv, Shape
  <2>3. ~InCache(Empty)
    BY DEF InCache, Empty
  <2>4. Shape' /\ \A r \in Rings : ring'[r].tail = ring[r].tail /\ SameEntries(ring'[r].q, ring[r].q)
    BY <1>1, <1>2, <1>3, <2>1, <2>2 DEF Shape
  <2> QED BY <1>3, <2>2, <2>3, <2>4, CacheSame
<1>5. CASE UserWrite(x)
  <2> DEFINE e == [lba |-> x, new |-> TRUE, ppa |-> Empty]
             p == Aged(ring["user"].q, x)
  <2>1. /\ ring' = [A EXCEPT !["user"].q = Append(A["user"].q, e)]
        /\ map' = [map EXCEPT ![x] = NextAddr("user")] /\ HasRoom("user")
    BY <1>5 DEF UserWrite, Remap, A
  <2>2. IsEntry(e) /\ e.lba = x
    BY DEF IsEntry, InCache, Empty
  <2> HIDE DEF e, p
  <2>3. "user" \in Rings
    BY DEF Rings
  <2>4. DOMAIN map' = Lbas /\ \A y \in Lbas : map'[y] = map[y] \/ (map'[y] = NextAddr("user") /\ e.lba = y)
    <3>1. DOMAIN map = Lbas
      BY DEF CacheInv, Shape
    <3>2. DOMAIN map' = Lbas /\ map'[x] = NextAddr("user") /\ \A y \in Lbas \ {x} : map'[y] = map[y]
      BY <2>1, <3>1
    <3> QED BY <2>2, <3>2
  <2>5. \A r \in Rings \ {"user"} : ring'[r] = A[r]
    BY <1>1, <2>1
  <2>6. /\ DOMAIN ring'["user"] = {"tail", "q"} /\ ring'["user"].tail = ring["user"].tail
        /\ ring'["user"].q = Append(p, e)
    BY <1>1, <2>1, <2>3 DEF p
  <2>7. DOMAIN ring' = Rings
    BY <1>1, <2>1
  <2>8. Shape' /\ \A r \in Rings : ring'[r].tail = ring[r].tail
    BY <1>1, <1>3, <2>4, <2>5, <2>6, <2>7 DEF Shape
  <2>9. SameEntries(p, ring["user"].q) /\ \A r \in Rings \ {"user"} : SameEntries(ring'[r].q, ring[r].q)
    BY <1>1, <1>2, <2>3, <2>5 DEF p
  <2> QED BY <1>3, <2>1, <2>2, <2>3, <2>4, <2>6, <2>8, <2>9, CacheInsert
<1> QED BY <1>4, <1>5

\* GC writes an entry, or padding.
LEMMA GcWriteCache == CacheInv /\ GcWriteEntry => CacheInv'
<1> SUFFICES ASSUME CacheInv, GcWriteEntry PROVE CacheInv'
  OBVIOUS
<1> DEFINE c == Head(Head(w_list).copies)
           moves == GcMayMove(c.lba, Head(w_list).line)
           d == IF moves THEN c ELSE Copy(NoLba, FALSE)
           e == [lba |-> d.lba, new |-> d.new, ppa |-> Empty]
<1>1. /\ HasRoom("gc") /\ thr' = thr
      /\ map' = IF moves THEN [map EXCEPT ![c.lba] = NextAddr("gc")] ELSE map
      /\ ring' = [ring EXCEPT !["gc"].q = Append(ring["gc"].q, e)]
  BY DEF GcWriteEntry
<1>2. IsEntry(e) /\ (moves => e.lba = c.lba)
  BY Zenon DEF IsEntry, InCache, Empty
<1> HIDE DEF c, moves, e
<1>3. "gc" \in Rings
  BY DEF Rings
<1>4. /\ DOMAIN ring = Rings /\ DOMAIN map = Lbas /\ DOMAIN thr = Threads
      /\ \A r \in Rings : DOMAIN ring[r] = {"tail", "q"} /\ Entries(ring[r].q)
  BY DEF CacheInv, Shape, Queues
<1>5. \A r \in Rings : SameEntries(ring[r].q, ring[r].q)
  BY <1>4 DEF SameEntries
<1>6. \A r \in Rings \ {"gc"} : ring'[r] = ring[r]
  BY <1>1, <1>4
<1>7. /\ DOMAIN ring'["gc"] = {"tail", "q"} /\ ring'["gc"].tail = ring["gc"].tail
      /\ ring'["gc"].q = Append(ring["gc"].q, e)
  BY <1>1, <1>3, <1>4
<1>8. DOMAIN ring' = Rings
  BY <1>1, <1>4
<1>9. \A x \in Lbas : map'[x] = map[x] \/ (map'[x] = NextAddr("gc") /\ e.lba = x)
  <2>1. CASE moves
    <3>1. \A x \in Lbas : map'[x] = IF x = c.lba THEN NextAddr("gc") ELSE map[x]
      BY <1>1, <1>4, <2>1
    <3> QED BY <1>2, <2>1, <3>1
  <2>2. CASE ~moves
    BY <1>1, <2>2
  <2> QED BY <2>1, <2>2
<1>10. DOMAIN map' = Lbas /\ DOMAIN thr' = Threads
  BY <1>1, <1>4
<1>11. Shape' /\ \A r \in Rings : ring'[r].tail = ring[r].tail
  BY <1>4, <1>6, <1>7, <1>8, <1>10 DEF Shape
<1>12. SameEntries(ring["gc"].q, ring["gc"].q) /\ \A r \in Rings \ {"gc"} : SameEntries(ring'[r].q, ring[r].q)
  BY <1>3, <1>5, <1>6
<1> QED BY <1>1, <1>2, <1>3, <1>7, <1>9, <1>11, <1>12, CacheInsert, Zenon

\* An entry gets its sector.
LEMMA MapPageCache ==
  ASSUME CacheInv, NEW r \in Rings, MapPage(r)
  PROVE  CacheInv'
<1>1. PICK j, l, s : ring' = [ring EXCEPT ![r].q[j].ppa = DevAddr(l, s)]
  BY Zenon DEF MapPage
<1>2. UNCHANGED <<map, thr>> /\ ~InCache(DevAddr(l, s))
  BY Zenon DEF MapPage, InCache, DevAddr
<1>3. /\ DOMAIN ring = Rings /\ DOMAIN map = Lbas /\ DOMAIN thr = Threads
      /\ \A q \in Rings : DOMAIN ring[q] = {"tail", "q"} /\ Entries(ring[q].q)
  BY DEF CacheInv, Shape, Queues
<1> DEFINE p == [ring[r].q EXCEPT ![j].ppa = DevAddr(l, s)]
<1>4. SameEntries(p, ring[r].q)
  BY <1>2, <1>3, MappedSame
<1>5. \A q \in Rings \ {r} : ring'[q] = ring[q]
  BY <1>1, <1>3
<1>6. DOMAIN ring'[r] = {"tail", "q"} /\ ring'[r].tail = ring[r].tail /\ ring'[r].q = p
  BY <1>1, <1>3
<1>7. DOMAIN ring' = Rings
  BY <1>1, <1>3
<1> HIDE DEF p
<1>8. Shape' /\ \A q \in Rings : ring'[q].tail = ring[q].tail
  BY <1>2, <1>3, <1>5, <1>6, <1>7 DEF Shape
<1>9. \A q \in Rings \ {r} : SameEntries(ring'[q].q, ring[q].q)
  BY <1>3, <1>5 DEF SameEntries
<1>10. \A q \in Rings : SameEntries(ring'[q].q, ring[q].q)
  BY <1>4, <1>6, <1>9
<1> QED BY <1>2, <1>8, <1>10, CacheSame

\* The map update of the oldest entry, and its end after a list move.
LEMMA UpdateCache ==
  ASSUME CacheInv, NEW r \in Rings, UpdateL2p(r)
  PROVE  CacheInv'
<1> DEFINE e == Head(ring[r].q)
           kept == L2pKept(r)
           dead == IF kept THEN Empty ELSE e.ppa
<1>1. /\ thr[r] = Idle /\ ~HasRoom(r)
      /\ map' = IF kept THEN [map EXCEPT ![e.lba] = e.ppa] ELSE map
      /\ thr' = [thr EXCEPT ![r] = ThreadAfter(dead, ~(e.lba = NoLba))]
      /\ IF thr'[r] = Idle THEN PutEntry(r, LinesAfter(dead)) ELSE UNCHANGED ring
  BY DEF UpdateL2p
<1>2. /\ DOMAIN ring = Rings /\ DOMAIN map = Lbas /\ DOMAIN thr = Threads
      /\ Entries(ring[r].q) /\ ring[r].tail \in 0 .. Cap
  BY DEF CacheInv, Shape, Queues
<1>3. Cap \in Nat \ {0} /\ Len(ring[r].q) = Cap
  BY <1>1, <1>2, GcAssumption DEF HasRoom, Entries, IsSeq
<1>4. e = ring[r].q[1] /\ IsEntry(e)
  BY <1>2, <1>3, TailEntries DEF Entries
<1> HIDE DEF e
<1>5. ASSUME NEW x \in Lbas, map[x] = CacheAddr(r, Slot(r, 1))
      PROVE  kept /\ x = e.lba
  <2>1. InCache(map[x])
    BY <1>5 DEF InCache, CacheAddr
  <2>2. PICK s \in Rings, i \in Nat : i \in 1 .. Len(ring[s].q) /\ LeadsTo(map[x], s, i, x)
    BY <2>1 DEF CacheInv, Led
  <2>3. s = r /\ Slot(r, i) = Slot(r, 1)
    BY <1>5, <2>2 DEF LeadsTo, CacheAddr
  <2>4. i \in 1 .. Cap + 1 /\ 1 \in 1 .. Cap + 1
    BY <1>3, <2>2, <2>3
  <2>5. i = 1
    BY <1>2, <2>3, <2>4, SlotUnique
  <2>6. x = e.lba
    BY <1>4, <2>2, <2>3, <2>5 DEF LeadsTo
  <2> QED BY <1>5, <2>6, GcAssumption DEF L2pKept, e
<1> HIDE DEF kept
<1>6. ~InCache(e.ppa)
  BY <1>4 DEF IsEntry
<1>7. \A x \in Lbas : /\ map'[x] = map[x] \/ ~InCache(map'[x])
                      /\ map'[x] # CacheAddr(r, Slot(r, 1))
  <2>1. InCache(CacheAddr(r, Slot(r, 1)))
    BY DEF InCache, CacheAddr
  <2>2. CASE kept
    BY <1>1, <1>2, <1>5, <1>6, <2>1, <2>2, Zenon
  <2>3. CASE ~kept
    BY <1>1, <1>5, <2>3
  <2> QED BY <2>2, <2>3
<1>8. DOMAIN map' = Lbas /\ r \in Threads
  BY <1>1, <1>2 DEF Threads
<1>9. CASE thr'[r] = Idle
  <2>1. ring' = [ring EXCEPT ![r] = [tail |-> Slot(r, 2), q |-> Tail(ring[r].q)]]
    BY <1>1, <1>9, Zenon DEF PutEntry
  <2>2. thr' = [thr EXCEPT ![r] = Idle]
    BY <1>1, <1>2, <1>8, <1>9, Zenon
  <2> QED BY <1>3, <1>7, <1>8, <2>1, <2>2, CachePop, Zenon
<1>10. CASE thr'[r] # Idle
  <2>1. ~kept /\ UNCHANGED <<ring, map>>
    <3>1. UNCHANGED ring
      BY <1>1, <1>10
    <3>2. thr'[r] = ThreadAfter(dead, ~(e.lba = NoLba))
      BY <1>1, <1>2, <1>8
    <3>3. ~kept
      BY <1>10, <3>2 DEF ThreadAfter, OnDev, Empty
    <3> QED BY <1>1, <3>1, <3>3
  <2>2. \A s \in Rings \ {r} : thr'[s] = thr[s]
    BY <1>1, <1>2, <1>8
  <2>3. DOMAIN thr' = Threads
    BY <1>1, <1>2
  <2>4. \A s \in Rings : \A i : Slot(s, i)' = Slot(s, i)
    BY <2>1 DEF Slot
  <2>5. Shape' /\ Queues'
    BY <1>8, <2>1, <2>3 DEF CacheInv, Shape, Queues
  <2>6. Led'
    BY <2>1, <2>4 DEF CacheInv, Led, LeadsTo
  <2>7. Owed'
    <3>1. \A s \in Rings \ {r} : thr'[s] # Idle =>
            Len(ring[s].q) = Cap /\ \A x \in Lbas : map[x] # CacheAddr(s, Slot(s, 1))
      BY <2>2 DEF CacheInv, Owed
    <3>2. \A s \in Rings : thr'[s] # Idle =>
            Len(ring[s].q) = Cap /\ \A x \in Lbas : map[x] # CacheAddr(s, Slot(s, 1))
      BY <1>3, <1>7, <2>1, <3>1
    <3> QED BY <2>1, <2>4, <3>2 DEF Owed
  <2> QED BY <2>5, <2>6, <2>7 DEF CacheInv
<1> QED BY <1>9, <1>10

LEMMA MoveCache ==
  ASSUME CacheInv, NEW t \in Threads, MoveLine(t)
  PROVE  CacheInv'
<1>1. thr[t] # Idle /\ thr' = [thr EXCEPT ![t] = Idle] /\ map' = map
  BY DEF MoveLine
<1>2. DOMAIN ring = Rings /\ DOMAIN map = Lbas /\ DOMAIN thr = Threads
  BY DEF CacheInv, Shape
<1>3. CASE t \in Rings
  <2>1. ring' = [ring EXCEPT ![t] = [tail |-> Slot(t, 2), q |-> Tail(ring[t].q)]]
    BY <1>3 DEF MoveLine, PutEntry
  <2>2. Len(ring[t].q) = Cap /\ \A x \in Lbas : map'[x] # CacheAddr(t, Slot(t, 1))
    BY <1>1, <1>3 DEF CacheInv, Owed
  <2> QED BY <1>1, <1>2, <1>3, <2>1, <2>2, CachePop, Zenon
<1>4. CASE t \notin Rings
  <2>1. ring' = ring
    BY <1>4 DEF MoveLine
  <2>2. DOMAIN thr' = Threads /\ \A r \in Rings : thr'[r] = thr[r]
    BY <1>1, <1>2, <1>4 DEF Threads
  <2>3. Shape' /\ \A r \in Rings : ring'[r].tail = ring[r].tail /\ SameEntries(ring'[r].q, ring[r].q)
    BY <1>1, <2>1, <2>2 DEF CacheInv, Shape, Queues, SameEntries
  <2> QED BY <1>1, <2>2, <2>3, CacheSame
<1> QED BY <1>3, <1>4

LEMMA StepCache == CacheInv /\ [Next]_vars => CacheInv'
<1> SUFFICES ASSUME CacheInv, [Next]_vars PROVE CacheInv'
  OBVIOUS
<1>1. ASSUME UNCHANGED <<map, ring, thr>> PROVE CacheInv'
  <2>1. Shape' /\ \A r \in Rings : ring'[r].tail = ring[r].tail /\ SameEntries(ring'[r].q, ring[r].q)
    BY <1>1 DEF CacheInv, Shape, Queues, SameEntries
  <2> QED BY <1>1, <2>1, CacheSame
<1>2. ASSUME NEW x \in Lbas, UserWrite(x) \/ Discard(x) PROVE CacheInv'
  BY <1>2, RemapCache
<1>3. ASSUME NEW x \in Lbas, ReadLookup(x) PROVE CacheInv'
  BY <1>1, <1>3 DEF ReadLookup, otherthanrd
<1>4. CASE ReadCache \/ ReadRetry \/ ReadDev
  BY <1>1, <1>4 DEF ReadCache, ReadRetry, ReadDev, otherthanrd
<1>5. ASSUME NEW t \in Threads, MoveLine(t) PROVE CacheInv'
  BY <1>5, MoveCache
<1>6. ASSUME NEW r \in Rings, MapPage(r) \/ UpdateL2p(r) PROVE CacheInv'
  BY <1>6, MapPageCache, UpdateCache
<1>7. ASSUME NEW r \in Rings, NEW l \in Lines, OpenLine(r, l) PROVE CacheInv'
  BY <1>1, <1>7 DEF OpenLine
<1>8. ASSUME NEW l \in Lines, CloseLine(l) \/ GcTakeFull(l) \/ GcTakeVictim(l) PROVE CacheInv'
  BY <1>1, <1>8 DEF CloseLine, GcTakeFull, GcTakeVictim, mapvars
<1>9. CASE GcScan \/ GcNextGroup \/ PrepareLine \/ PrepareRq
  BY <1>1, <1>9 DEF GcScan, GcNextGroup, PrepareLine, PrepareRq, mapvars
<1>10. CASE PrepareEnd \/ PrepareNoMem \/ PrepareFail
  BY <1>1, <1>10 DEF PrepareEnd, PrepareNoMem, PrepareFail, mapvars
<1>11. ASSUME NEW q \in reads, ReadGc(q) \/ ReadGcFail(q) PROVE CacheInv'
  BY <1>1, <1>11, Zenon DEF ReadGc, ReadGcFail, mapvars
<1>12. CASE GcWriteEntry
  BY <1>12, GcWriteCache
<1>13. CASE UNCHANGED vars
  BY <1>1, <1>13 DEF vars, mapvars
<1> QED BY <1>2, <1>3, <1>4, <1>5, <1>6, <1>7, <1>8, <1>9, <1>10, <1>11, <1>12, <1>13 DEF Next

\* For any ring size and number of blocks, and whatever fails: an address of a ring entry
\* in the map leads to an entry that is there and holds the block, however late the
\* entry's own map update comes.
THEOREM CacheAddressesLive == Spec => []CacheLive
<1>1. CacheInv => CacheLive
  <2> SUFFICES ASSUME CacheInv, NEW x \in Lbas, InCache(map[x])
               PROVE  /\ Index(map[x][2], map[x][3]) \in DOMAIN ring[map[x][2]].q
                      /\ EntryAt(map[x]).lba = x
    BY DEF CacheLive
  <2>1. PICK r \in Rings, i \in Nat : i \in 1 .. Len(ring[r].q) /\ LeadsTo(map[x], r, i, x)
    BY DEF CacheInv, Led
  <2>2. map[x][2] = r /\ map[x][3] = Slot(r, i) /\ ring[r].q[i].lba = x
    BY <2>1 DEF LeadsTo, CacheAddr
  <2>3. Entries(ring[r].q) /\ ring[r].tail \in 0 .. Cap
    BY DEF CacheInv, Queues
  <2>4. i \in 1 .. Cap + 1 /\ DOMAIN ring[r].q = 1 .. Len(ring[r].q)
    BY <2>1, <2>3, GcAssumption DEF Entries, IsSeq
  <2>5. Index(r, Slot(r, i)) = i
    BY <2>3, <2>4, IndexOfSlot
  <2> QED BY <2>1, <2>2, <2>4, <2>5 DEF EntryAt
<1> QED BY <1>1, InitCache, StepCache, PTL DEF Spec
===============================================================================
