------------------------------ MODULE PblkGcRefs ------------------------------
(* The references, the lists and the count of closed lines are exact.            *)
EXTENDS PblkGcLines

-------------------------------------------------------------------------------
(* What changes a line.                                                         *)

\* A line with the same references in the same state.
SameLine(m, ln) ==
  LineRec(m) /\ m.state = ln.state /\ m.ref = ln.ref /\ Len(m.data) = Len(ln.data)

\* Marking a sector invalid leaves the rest of a line alone, but for its group.
LEMMA InvalidatedKeeps ==
  ASSUME CountFacts, NEW ln, LineRec(ln), NEW s \in Secs
  PROVE  /\ SameLine(Invalidated(ln, s), ln)
         /\ NeedsMove(ln, s) => Invalidated(ln, s).gc_group \in GcLists /\ ln.state # "OPEN"
<1> DEFINE inv == [ln EXCEPT !.invalid = @ \cup {s}]
<1>1. /\ DOMAIN inv = Fields /\ inv.invalid \subseteq Secs /\ inv.data = ln.data
      /\ inv.state = ln.state /\ inv.list = ln.list /\ inv.ref = ln.ref
      /\ inv.gc_group = ln.gc_group
  BY DEF LineRec, Fields
<1>2. SameLine(inv, ln)
  BY <1>1 DEF SameLine, LineRec
<1>3. Group(inv) \in GcLists
  BY <1>1, GroupListed, Zenon
<1> DEFINE reg == Regrouped(inv)
<1>4. SameLine(reg, ln) /\ reg.gc_group \in GcLists
  <2>1. /\ DOMAIN reg = Fields /\ reg.invalid = inv.invalid /\ reg.data = inv.data
        /\ reg.state = inv.state /\ reg.list = inv.list /\ reg.ref = inv.ref
        /\ reg.gc_group = Group(inv)
    BY <1>1 DEF Regrouped, Fields
  <2> QED BY <1>2, <1>3, <2>1, Zenon DEF SameLine, LineRec
<1>5. SameLine(ln, ln)
  BY DEF SameLine
<1>6. Invalidated(ln, s) = IF ln.state \in {"GC", "FREE"} \/ s \in ln.invalid THEN ln
                           ELSE IF ln.state = "CLOSED" THEN reg ELSE inv
  BY DEF Invalidated
<1> HIDE DEF inv, reg
<1> QED BY <1>1, <1>2, <1>4, <1>5, <1>6 DEF NeedsMove

LEMMA InvalidateLife ==
  ASSUME CountFacts, LinesInv, NEW a, DevOK(a), NEW b
  PROVE  /\ DOMAIN LinesAfter(a) = Lines
         /\ \A k \in Lines : SameLine(LinesAfter(a)[k], line[k])
         /\ \A k \in Lines : ThreadAfter(a, b).line = k =>
              ThreadAfter(a, b).list \in GcLists /\ line[k].state # "OPEN"
<1> DOMAIN line = Lines /\ \A k \in Lines : LineRec(line[k])
  BY DEF LinesInv
<1>1. CASE ~OnDev(a)
  <2>1. LinesAfter(a) = line /\ ThreadAfter(a, b).line = None
    BY <1>1 DEF LinesAfter, ThreadAfter, Idle
  <2> QED BY <2>1, GcAssumption DEF SameLine
<1>2. CASE OnDev(a)
  <2> DEFINE m == Invalidated(line[a[2]], a[3])
  <2>1. a[2] \in Lines /\ a[3] \in Secs
    BY <1>2 DEF DevOK
  <2>2. LinesAfter(a) = [line EXCEPT ![a[2]] = m]
    BY <1>2 DEF LinesAfter
  <2>3. /\ SameLine(m, line[a[2]])
        /\ NeedsMove(line[a[2]], a[3]) => m.gc_group \in GcLists /\ line[a[2]].state # "OPEN"
    BY <2>1, InvalidatedKeeps
  <2> HIDE DEF m
  <2>4. LinesAfter(a)[a[2]] = m /\ \A k \in Lines \ {a[2]} : LinesAfter(a)[k] = line[k]
    BY <2>1, <2>2
  <2>5. ThreadAfter(a, b) = IF NeedsMove(line[a[2]], a[3])
                            THEN [line |-> a[2], list |-> m.gc_group, locked |-> b] ELSE Idle
    BY <1>2, <2>4 DEF ThreadAfter
  <2>6. Idle.line \notin Lines
    BY GcAssumption DEF Idle
  <2>7. \A k \in Lines : SameLine(LinesAfter(a)[k], line[k])
    BY <2>3, <2>4 DEF SameLine
  <2>8. \A k \in Lines : ThreadAfter(a, b).line = k =>
              ThreadAfter(a, b).list \in GcLists /\ line[k].state # "OPEN"
    BY <2>3, <2>5, <2>6
  <2> QED BY <2>2, <2>7, <2>8
<1> QED BY <1>1, <1>2

\* A step of a line that the invariant of the others does not notice: its count stays
\* exact, and it may only go from GC to FREE when nobody holds it any more.
LineStep(k) ==
  /\ LineRec(line'[k]) /\ line'[k].ref = OwnRef(k)' + Users(k)'
  /\ line'[k].state = "FREE" => line'[k].ref = 0
  /\ \/ line'[k].state = line[k].state /\ Len(line'[k].data) = Len(line[k].data)
     \/ line[k].state = "GC" /\ line'[k].state = "FREE" /\ OwnRef(k) = 0 /\ ReadsOf(k)' = {}

LEMMA StepSame ==
  ASSUME LinesInv, NEW k \in Lines, SameLine(line'[k], line[k]), Users(k)' = Users(k),
         UNCHANGED <<r_list, prep>>
  PROVE  LineStep(k)
<1>1. OwnRef(k)' = OwnRef(k)
  BY DEF OwnRef, SameLine
<1> QED BY <1>1 DEF LineStep, LinesInv, SameLine

LEMMA StepPut ==
  ASSUME LinesInv, NEW k \in Lines, NEW ln, SameLine(ln, line[k]), line'[k] = KrefPut(ln),
         Users(k) = Users(k)' + 1, Users(k)' \in Nat, OwnRef(k) \in {0, 1},
         Users(k)' = 0 => ReadsOf(k)' = {}, UNCHANGED <<r_list, prep>>
  PROVE  LineStep(k)
<1>1. /\ line[k].ref = OwnRef(k) + Users(k) /\ ln.ref = line[k].ref /\ ln.state = line[k].state
      /\ line[k].state \in {"FREE", "OPEN", "CLOSED", "GC"}
      /\ line[k].state # "FREE" /\ LineRec(ln) /\ Len(ln.data) = Len(line[k].data)
  BY DEF LinesInv, SameLine, LineRec
<1>2. CASE ln.ref = 1
  <2>1. line'[k] = FreeLine /\ OwnRef(k) = 0 /\ Users(k)' = 0
    BY <1>1, <1>2, PutRec
  <2>2. line[k].state = "GC" /\ OwnRef(k)' = 0
    BY <1>1, <2>1, FreeRec DEF OwnRef
  <2> QED BY <2>1, <2>2, FreeRec DEF LineStep
<1>3. CASE ln.ref # 1
  <2>1. /\ LineRec(line'[k]) /\ line'[k].state = ln.state
        /\ line'[k].data = ln.data /\ line'[k].ref = ln.ref - 1
    BY <1>1, <1>3, PutRec
  <2>2. OwnRef(k)' = OwnRef(k)
    BY <1>1, <2>1 DEF OwnRef
  <2> QED BY <1>1, <2>1, <2>2 DEF LineStep
<1> QED BY <1>2, <1>3
-------------------------------------------------------------------------------
(* Steps that leave the lines in their states, but for lines that are freed.    *)

\* A thread owes what it owed before, or a move of a line that is not open.
ThrStep ==
  \A t \in Threads : \A k \in Lines : thr'[t].line = k =>
    thr'[t] = thr[t] \/ (thr'[t].list \in GcLists /\ line[k].state # "OPEN")

LEMMA LifeFrom ==
  ASSUME CountFacts, QueueInv, Life, DOMAIN line' = Lines, \A k \in Lines : LineStep(k),
         UNCHANGED <<data_line, r_list, prep, gc_target>>, reads' \subseteq reads,
         WritesInv', MapInv', RingInv', HeadInv', ThrStep
  PROVE  Life'
<1> LinesInv /\ DataInv /\ GcInv /\ ThrInv /\ gc_target = Cardinality(Closed)
  BY DEF Life
<1>1. LinesInv'
  BY DEF LinesInv, LineStep
<1>2. \A k \in Lines : /\ line[k].state # "GC" => line'[k].state = line[k].state
                       /\ OwnRef(k) = 1 => line'[k].state = line[k].state
                       /\ line'[k].state = "OPEN" => line[k].state = "OPEN"
                       /\ line[k].state = "OPEN" => Len(line'[k].data) = Len(line[k].data)
                       /\ line[k].state = "GC" => line'[k].state = "GC" \/ ReadsOf(k)' = {}
                       /\ line'[k].state = "CLOSED" => line[k].state = "CLOSED"
  <2> SUFFICES ASSUME NEW k \in Lines, LineStep(k)
               PROVE  /\ line[k].state # "GC" => line'[k].state = line[k].state
                      /\ OwnRef(k) = 1 => line'[k].state = line[k].state
                      /\ line'[k].state = "OPEN" => line[k].state = "OPEN"
                      /\ line[k].state = "OPEN" => Len(line'[k].data) = Len(line[k].data)
                      /\ line[k].state = "GC" => line'[k].state = "GC" \/ ReadsOf(k)' = {}
                      /\ line'[k].state = "CLOSED" => line[k].state = "CLOSED"
    OBVIOUS
  <2> QED BY DEF LineStep
<1>3. DataInv'
  BY <1>2 DEF DataInv
<1>4. GcInv'
  <2>1. Len(r_list) \in Nat /\ \A i \in 1 .. Len(r_list) : r_list[i] \in Lines /\ OwnRef(r_list[i]) = 1
    BY DEF QueueInv, OwnRef
  <2>2. prep.line # None => prep.line \in Lines /\ OwnRef(prep.line) = 1
    BY DEF QueueInv, OwnRef
  <2>3. IsFiniteSet(reads') /\ \A k : ReadsOf(k)' \subseteq ReadsOf(k)
    BY Zenon DEF CountFacts, FinSub, GcInv, ReadsOf
  <2>4. \A i \in 1 .. Len(r_list) :
          line'[r_list[i]].state = "GC" /\ r_list[i] # prep.line /\ ReadsOf(r_list[i])' = {}
    BY <1>2, <2>1, <2>3 DEF GcInv
  <2>5. prep.line # None => line'[prep.line].state = "GC"
    BY <1>2, <2>2 DEF GcInv
  <2>6. ASSUME NEW q \in reads'
        PROVE  /\ q.line \in Lines /\ line'[q.line].state = "GC" /\ q.secs # {}
               /\ q.line = prep.line => q.secs \cap prep.left = {}
    <3>1. /\ q.line \in Lines /\ line[q.line].state = "GC" /\ q.secs # {}
          /\ q.line = prep.line => q.secs \cap prep.left = {}
      BY <2>6 DEF GcInv
    <3>2. q \in ReadsOf(q.line)'
      BY DEF ReadsOf
    <3> QED BY <1>2, <3>1, <3>2
  <2>7. /\ \A i, j \in 1 .. Len(r_list) : i # j => r_list[i] # r_list[j]
        /\ prep.line = None => prep.left = {}
    BY DEF GcInv
  <2> QED BY <2>3, <2>4, <2>5, <2>6, <2>7 DEF GcInv
<1>5. ThrInv'
  BY <1>2 DEF ThrInv, ThrStep
<1>6. Closed' = Closed
  BY <1>2 DEF Closed
<1> QED BY <1>1, <1>3, <1>4, <1>5, <1>6 DEF Life

\* The entries of a ring keep their addresses; a new one has none.
RingKept(r) ==
  /\ \A i \in 1 .. Len(ring[r].q) :
       i \in 1 .. Len(ring'[r].q) /\ ring'[r].q[i].ppa = ring[r].q[i].ppa
  /\ \A i \in 1 .. Len(ring'[r].q) : i \in 1 .. Len(ring[r].q) \/ ring'[r].q[i].ppa = Empty

LEMMA KeptRing ==
  ASSUME CacheInv, CacheInv', RingInv, NEW r \in Rings, RingKept(r)
  PROVE  /\ \A k : MappedTo(r, k)' = MappedTo(r, k)
         /\ \A i \in 1 .. Len(ring'[r].q) : EntryOK(ring'[r].q[i].ppa)
         /\ Len(ring[r].q) = Cap => ring'[r].q[1].ppa = ring[r].q[1].ppa
<1>1. /\ DOMAIN ring[r].q = 1 .. Len(ring[r].q) /\ DOMAIN ring'[r].q = 1 .. Len(ring'[r].q)
      /\ Len(ring[r].q) \in Nat
  BY DEF CacheInv, Queues, Entries, IsSeq
<1>2. \A k : ~OnLine(Empty, k)
  BY DEF OnLine, OnDev, Empty
<1>3. ASSUME NEW k PROVE MappedTo(r, k)' = MappedTo(r, k)
  BY <1>1, <1>2 DEF MappedTo, RingKept
<1>4. \A i \in 1 .. Len(ring'[r].q) : EntryOK(ring'[r].q[i].ppa)
  BY Zenon DEF RingInv, RingKept, EntryOK
<1>5. Len(ring[r].q) = Cap => 1 \in 1 .. Len(ring[r].q)
  BY GcAssumption
<1> QED BY <1>3, <1>4, <1>5 DEF RingKept

\* The lines keep their holders.
LEMMA KeepLife ==
  ASSUME CountFacts, QueueInv, CacheInv, CacheInv', Life,
         DOMAIN line' = Lines, \A k \in Lines : SameLine(line'[k], line[k]),
         \A r \in Rings : RingKept(r), MapInv',
         UNCHANGED <<data_line, r_list, prep, gc_target, reads>>,
         WritesInv', \A k \in Lines : WritesOf(k)' = WritesOf(k), ThrStep,
         \A r \in Rings : thr'[r] # Idle =>
           thr'[r] = thr[r] \/ (Len(ring[r].q) = Cap /\ OnDev(ring[r].q[1].ppa))
  PROVE  Life'
<1> LinesInv /\ RingInv /\ HeadInv
  BY DEF Life
<1>1. \A r \in Rings : /\ \A k : MappedTo(r, k)' = MappedTo(r, k)
                       /\ \A i \in 1 .. Len(ring'[r].q) : EntryOK(ring'[r].q[i].ppa)
                       /\ Len(ring[r].q) = Cap => ring'[r].q[1].ppa = ring[r].q[1].ppa
  BY KeptRing
<1>2. RingInv'
  BY <1>1 DEF RingInv
<1>3. HeadInv'
  BY Zenon, <1>1 DEF HeadInv, CacheInv, Owed
<1>4. ASSUME NEW k \in Lines PROVE LineStep(k)
  <2>1. MappedTo("user", k)' = MappedTo("user", k) /\ MappedTo("gc", k)' = MappedTo("gc", k)
    BY <1>1 DEF Rings
  <2>2. Users(k)' = Users(k)
    BY Zenon, <2>1 DEF Users, ReadsOf
  <2> QED BY <2>2, StepSame
<1> QED BY <1>2, <1>3, <1>4, LifeFrom

\* One holder drops its reference to line l.
LEMMA PutLife ==
  ASSUME CountFacts, QueueInv, CacheInv, CacheInv', Life, NEW l, NEW lines,
         DOMAIN lines = Lines, \A k \in Lines : SameLine(lines[k], line[k]),
         line' = [lines EXCEPT ![l] = KrefPut(@)],
         \A k \in Lines : Users(k) = Users(k)' + IF k = l THEN 1 ELSE 0,
         UNCHANGED <<data_line, r_list, prep, gc_target>>, reads' \subseteq reads,
         MapInv', RingInv', WritesInv', HeadInv', ThrStep
  PROVE  Life'
<1> LinesInv /\ IsFiniteSet(reads) /\ WritesInv
  BY Zenon DEF Life, GcInv
<1>1. IsFiniteSet(reads')
  BY DEF CountFacts, FinSub
<1>2. \A k \in Lines : Counted(k) /\ Counted(k)'
  BY <1>1, Countable, CountableNext DEF CountInv
<1>3. ASSUME NEW k \in Lines PROVE LineStep(k)
  <2>1. /\ Users(k)' \in Nat /\ OwnRef(k) \in {0, 1} /\ (Users(k)' = 0 => ReadsOf(k)' = {})
        /\ SameLine(lines[k], line[k])
    BY <1>2 DEF Counted
  <2>2. CASE k = l
    <3>1. line'[k] = KrefPut(lines[k]) /\ Users(k) = Users(k)' + 1
      BY <2>2
    <3> QED BY <2>1, <3>1, StepPut
  <2>3. CASE k # l
    <3>1. line'[k] = lines[k] /\ Users(k)' = Users(k)
      BY <2>1, <2>3
    <3> QED BY <2>1, <3>1, StepSame
  <2> QED BY Zenon, <2>2, <2>3
<1> QED BY <1>3, LifeFrom
-------------------------------------------------------------------------------
(* Writes and map updates.                                                      *)

\* History marks change no line and no request.
LEMMA AgedSeq ==
  ASSUME NEW q, IsSeq(q), NEW x
  PROVE  IsSeq(Aged(q, x)) /\ Len(Aged(q, x)) = Len(q)
<1> DEFINE a == Aged(q, x)
<1>1. Len(q) \in Nat /\ DOMAIN q = 1 .. Len(q)
  BY DEF IsSeq
<1>2. a = [i \in 1 .. Len(q) |-> IF q[i].lba = x THEN [q[i] EXCEPT !.new = FALSE] ELSE q[i]]
  BY <1>1 DEF Aged
<1> HIDE DEF a
<1>3. Len(a) = Len(q)
  BY <1>1, <1>2
<1>4. IsSeq(a)
  BY <1>1, <1>2, <1>3 DEF IsSeq
<1> QED BY <1>3, <1>4 DEF a

LEMMA AgedPpa ==
  ASSUME NEW q, Entries(q), NEW x, NEW i \in 1 .. Len(q)
  PROVE  Aged(q, x)[i].ppa = q[i].ppa
<1>1. DOMAIN q = 1 .. Len(q) /\ DOMAIN q[i] = {"lba", "new", "ppa"}
  BY DEF Entries, IsSeq, IsEntry
<1>2. Aged(q, x)[i] = IF q[i].lba = x THEN [q[i] EXCEPT !.new = FALSE] ELSE q[i]
  BY <1>1 DEF Aged
<1> QED BY <1>1, <1>2

LEMMA AgedWritesKept ==
  ASSUME WritesInv, NEW x, w_list' = AgedWrites(x)
  PROVE  WritesInv' /\ \A k : WritesOf(k)' = WritesOf(k)
<1>1. /\ Len(w_list) \in Nat /\ DOMAIN w_list = 1 .. Len(w_list)
      /\ \A i \in 1 .. Len(w_list) : DOMAIN w_list[i] = {"line", "copies"}
  BY DEF WritesInv, IsSeq
<1>2. w_list' = [i \in 1 .. Len(w_list) |-> [w_list[i] EXCEPT !.copies = Aged(w_list[i].copies, x)]]
  BY <1>1 DEF AgedWrites
<1>3. Len(w_list') = Len(w_list) /\ DOMAIN w_list' = 1 .. Len(w_list)
  BY <1>1, <1>2
<1>4. IsSeq(w_list')
  BY <1>1, <1>2, <1>3 DEF IsSeq
<1>5. \A i \in 1 .. Len(w_list) : DOMAIN w_list'[i] = {"line", "copies"} /\ w_list'[i].line = w_list[i].line
  BY <1>1, <1>2
<1> QED BY <1>1, <1>3, <1>4, <1>5 DEF WritesInv, WritesOf

LEMMA AgedLineSame ==
  ASSUME NEW m, NEW ln, SameLine(m, ln), NEW x
  PROVE  SameLine([m EXCEPT !.data = Aged(@, x)], ln)
<1> DEFINE n == [m EXCEPT !.data = Aged(m.data, x)]
<1>1. IsSeq(Aged(m.data, x)) /\ Len(Aged(m.data, x)) = Len(m.data)
  BY AgedSeq DEF SameLine, LineRec
<1>2. /\ DOMAIN n = Fields /\ n.data = Aged(m.data, x) /\ n.state = m.state /\ n.ref = m.ref
      /\ n.list = m.list /\ n.invalid = m.invalid
  BY DEF SameLine, LineRec, Fields
<1> HIDE DEF n
<1>3. SameLine(n, ln)
  BY <1>1, <1>2 DEF SameLine, LineRec
<1> QED BY <1>3 DEF n

\* A user's write or discard.
LEMMA RemapLife ==
  ASSUME CountFacts, QueueInv, CacheInv, CacheInv', Life, NEW x \in Lbas, UserWrite(x) \/ Discard(x)
  PROVE  Life'
<1> LinesInv /\ MapInv /\ GcInv
  BY DEF Life
<1>1. /\ line' = AgedLines(LinesAfter(map[x]), x) /\ w_list' = AgedWrites(x)
      /\ thr' = [thr EXCEPT !["bio"] = ThreadAfter(map[x], TRUE)]
      /\ UNCHANGED <<data_line, r_list, prep, reads, gc_target>>
      /\ \E a : ~OnDev(a) /\ map' = [map EXCEPT ![x] = a]
  BY Zenon DEF UserWrite, Discard, Remap, OnDev, Empty, NextAddr, CacheAddr
<1>2. /\ DOMAIN LinesAfter(map[x]) = Lines
      /\ \A k \in Lines : SameLine(LinesAfter(map[x])[k], line[k])
      /\ \A k \in Lines : ThreadAfter(map[x], TRUE).line = k =>
           ThreadAfter(map[x], TRUE).list \in GcLists /\ line[k].state # "OPEN"
  BY InvalidateLife, Zenon DEF MapInv
<1>3. DOMAIN line' = Lines /\ \A k \in Lines : SameLine(line'[k], line[k])
  BY <1>1, <1>2, AgedLineSame, Zenon DEF AgedLines
<1>4. MapInv'
  BY <1>1 DEF MapInv, DevOK, CacheInv, Shape
<1>5. WritesInv' /\ \A k \in Lines : WritesOf(k)' = WritesOf(k)
  BY <1>1, AgedWritesKept, Zenon DEF GcInv
<1>6. ThrStep /\ \A r \in Rings : thr'[r] = thr[r]
  <2>1. thr'["bio"] = ThreadAfter(map[x], TRUE) /\ \A t \in Threads \ {"bio"} : thr'[t] = thr[t]
    BY <1>1 DEF CacheInv, Shape, Threads
  <2>2. "bio" \notin Rings /\ Rings \subseteq Threads
    BY DEF Rings, Threads
  <2> QED BY <1>2, <2>1, <2>2, Zenon DEF ThrStep
<1>7. ASSUME NEW r \in Rings PROVE RingKept(r)
  <2> DEFINE A == AgedRings(x)
             p == Aged(ring[r].q, x)
  <2>1. /\ DOMAIN A = Rings /\ DOMAIN A[r] = {"tail", "q"} /\ A[r].q = p /\ Entries(ring[r].q)
    BY DEF AgedRings, CacheInv, Shape, Queues
  <2>2. Entries(p) /\ Len(p) = Len(ring[r].q) /\ \A i \in 1 .. Len(p) : p[i].ppa = ring[r].q[i].ppa
    BY <2>1, AgedSame, AgedPpa DEF SameEntries
  <2> HIDE DEF A, p
  <2>3. CASE Discard(x)
    <3>1. ring' = A
      BY <2>3 DEF Discard, A
    <3> QED BY <2>1, <2>2, <3>1 DEF RingKept
  <2>4. CASE UserWrite(x) /\ r = "user"
    <3> DEFINE e == [lba |-> x, new |-> TRUE, ppa |-> Empty]
    <3>1. ring' = [A EXCEPT !["user"].q = Append(A["user"].q, e)] /\ HasRoom("user")
      BY <2>4 DEF UserWrite, A
    <3>2. IsEntry(e) /\ e.ppa = Empty
      BY DEF IsEntry, InCache, Empty
    <3> HIDE DEF e
    <3>3. ring'[r].q = Append(p, e) /\ Len(p) < Cap /\ Len(p) \in Nat
      BY <2>1, <2>2, <2>4, <3>1 DEF HasRoom, Entries, IsSeq
    <3>4. /\ Len(ring'[r].q) = Len(p) + 1 /\ ring'[r].q[Len(p) + 1] = e
          /\ \A i \in 1 .. Len(p) : ring'[r].q[i] = p[i]
      BY <2>2, <3>2, <3>3, AppendEntry
    <3> QED BY <2>2, <3>2, <3>3, <3>4 DEF RingKept
  <2>5. CASE UserWrite(x) /\ r # "user"
    <3>1. ring' = [A EXCEPT !["user"].q = Append(A["user"].q, [lba |-> x, new |-> TRUE, ppa |-> Empty])]
      BY <2>5 DEF UserWrite, A
    <3>2. ring'[r] = A[r]
      BY <2>1, <2>5, <3>1
    <3> QED BY <2>1, <2>2, <3>2 DEF RingKept
  <2> QED BY <2>3, <2>4, <2>5
<1> QED BY <1>1, <1>3, <1>4, <1>5, <1>6, <1>7, KeepLife, Zenon

\* The oldest entry leaves ring r.
LEMMA PopMapped ==
  ASSUME CountFacts, CacheInv, RingInv, NEW r \in Rings, Len(ring[r].q) = Cap,
         ring' = [ring EXCEPT ![r] = [tail |-> Slot(r, 2), q |-> Tail(ring[r].q)]]
  PROVE  /\ RingInv' /\ Head(ring[r].q) = ring[r].q[1]
         /\ \A s \in Rings \ {r} : ring'[s] = ring[s]
         /\ \A k : /\ IsFiniteSet(MappedTo(r, k)')
                   /\ Cardinality(MappedTo(r, k)) = Cardinality(MappedTo(r, k)')
                        + (IF OnLine(ring[r].q[1].ppa, k) THEN 1 ELSE 0)
<1> DEFINE q == ring[r].q
           p == Tail(q)
<1> Cap \in Nat \ {0} /\ Entries(q) /\ DOMAIN q = 1 .. Cap /\ Cap - 1 \in Nat
  BY GcAssumption DEF CacheInv, Queues, Entries, IsSeq
<1>1. /\ Entries(p) /\ Len(p) = Cap - 1 /\ Head(q) = q[1]
      /\ \A i \in 1 .. Cap - 1 : p[i] = q[i + 1]
  BY TailEntries
<1>2. ring'[r].q = p /\ \A s \in Rings \ {r} : ring'[s] = ring[s]
  BY DEF CacheInv, Shape
<1>3. DOMAIN p = 1 .. Cap - 1
  BY <1>1 DEF Entries, IsSeq
<1>4. \A i \in 1 .. Cap : EntryOK(q[i].ppa)
  BY DEF RingInv
<1> HIDE DEF p, q
<1>5. RingInv'
  <2>1. \A i \in 1 .. Len(p) : EntryOK(p[i].ppa)
    BY <1>1, <1>4
  <2> QED BY <1>2, <2>1 DEF RingInv
<1>6. ASSUME NEW k
      PROVE  /\ IsFiniteSet(MappedTo(r, k)')
             /\ Cardinality(MappedTo(r, k)) = Cardinality(MappedTo(r, k)')
                  + (IF OnLine(q[1].ppa, k) THEN 1 ELSE 0)
  <2> DEFINE S == {i \in 1 .. Cap : OnLine(q[i].ppa, k)}
             T == {i \in 1 .. Cap - 1 : OnLine(p[i].ppa, k)}
  <2>1. MappedTo(r, k) = S /\ MappedTo(r, k)' = T
    BY <1>2, <1>3 DEF MappedTo, q
  <2>2. T = {i \in 1 .. Cap - 1 : i + 1 \in S}
    BY <1>1
  <2>3. S \in SUBSET (1 .. (Cap - 1) + 1) /\ (1 \in S <=> OnLine(q[1].ppa, k))
    OBVIOUS
  <2> HIDE DEF S, T
  <2> QED BY <2>1, <2>2, <2>3 DEF CountFacts, FinShift
<1> QED BY <1>1, <1>2, <1>5, <1>6 DEF q

LEMMA PutEntryLife ==
  ASSUME CountFacts, QueueInv, CacheInv, CacheInv', Life, NEW r \in Rings, NEW lines,
         DOMAIN lines = Lines, \A k \in Lines : SameLine(lines[k], line[k]),
         PutEntry(r, lines), Len(ring[r].q) = Cap, OnDev(ring[r].q[1].ppa),
         thr' = [thr EXCEPT ![r] = Idle], MapInv', UNCHANGED <<data_line, gcvars>>
  PROVE  Life'
<1> DEFINE l == ring[r].q[1].ppa[2]
<1> RingInv /\ GcInv /\ HeadInv /\ WritesInv /\ IsFiniteSet(reads)
  BY Zenon DEF Life, GcInv
<1>1. /\ ring' = [ring EXCEPT ![r] = [tail |-> Slot(r, 2), q |-> Tail(ring[r].q)]]
      /\ line' = [lines EXCEPT ![Head(ring[r].q).ppa[2]] = KrefPut(@)]
  BY DEF PutEntry
<1>2. /\ RingInv' /\ Head(ring[r].q) = ring[r].q[1]
      /\ \A s \in Rings \ {r} : ring'[s] = ring[s]
      /\ \A k : /\ IsFiniteSet(MappedTo(r, k)')
                /\ Cardinality(MappedTo(r, k)) = Cardinality(MappedTo(r, k)')
                     + (IF OnLine(ring[r].q[1].ppa, k) THEN 1 ELSE 0)
  BY <1>1, PopMapped, Zenon
<1>3. line' = [lines EXCEPT ![l] = KrefPut(@)]
  BY <1>1, <1>2, Zenon
<1>4. UNCHANGED <<r_list, prep, reads, w_list, gc_target>>
  BY DEF gcvars
<1>5. WritesInv'
  BY <1>4 DEF WritesInv
<1>6. ASSUME NEW k \in Lines PROVE Users(k) = Users(k)' + IF k = l THEN 1 ELSE 0
  <2>1. Counted(k) /\ Counted(k)'
    BY <1>4, <1>5, Countable, CountableNext DEF CountInv
  <2>2. /\ ReadsOf(k)' = ReadsOf(k) /\ WritesOf(k)' = WritesOf(k)
        /\ \A s \in Rings \ {r} : MappedTo(s, k)' = MappedTo(s, k)
    BY <1>2, <1>4, Zenon DEF ReadsOf, WritesOf, MappedTo
  <2>3. OnLine(ring[r].q[1].ppa, k) <=> k = l
    BY DEF OnLine
  <2>4. r = "user" \/ r = "gc"
    BY Zenon DEF Rings
  <2>5. /\ Cardinality(MappedTo("user", k)') \in Nat /\ Cardinality(MappedTo("gc", k)') \in Nat
        /\ Cardinality(ReadsOf(k)) \in Nat /\ Cardinality(WritesOf(k)) \in Nat
    BY <2>1, <2>2 DEF Counted, Rings
  <2>6. Cardinality(MappedTo(r, k)) = Cardinality(MappedTo(r, k)') + (IF k = l THEN 1 ELSE 0)
    BY <1>2, <2>3, Zenon
  <2> HIDE DEF l
  <2>7. CASE r = "user"
    BY <2>2, <2>5, <2>6, <2>7 DEF Users, Rings
  <2>8. CASE r = "gc"
    BY <2>2, <2>5, <2>6, <2>8 DEF Users, Rings
  <2> QED BY Zenon, <2>4, <2>7, <2>8
<1>7. r \in Threads /\ thr'[r] = Idle /\ \A t \in Threads \ {r} : thr'[t] = thr[t]
  BY Zenon DEF CacheInv, Shape, Threads
<1>8. ThrStep
  BY <1>7, GcAssumption DEF ThrStep, Idle
<1>9. HeadInv'
  BY <1>2, <1>7 DEF HeadInv, Threads
<1> HIDE DEF l
<1> QED BY <1>2, <1>3, <1>4, <1>5, <1>6, <1>8, <1>9, PutLife, Zenon

\* A list move keeps a closed line on a GC list.
LEMMA MovedSame ==
  ASSUME Life, NEW t \in Threads
  PROVE  DOMAIN MovedLines(t) = Lines /\ \A k \in Lines : SameLine(MovedLines(t)[k], line[k])
<1> DEFINE l == thr[t].line
<1> DOMAIN line = Lines /\ \A k \in Lines : LineRec(line[k])
  BY DEF Life, LinesInv
<1>1. l \in Lines => thr[t].list \in GcLists /\ line[l].state # "OPEN"
  BY DEF Life, ThrInv
<1>2. MovedLines(t) = IF line[l].state \in {"GC", "FREE"} THEN line
                      ELSE [line EXCEPT ![l].list = thr[t].list]
  BY DEF MovedLines
<1> HIDE DEF l
<1>3. CASE line[l].state \in {"GC", "FREE"}
  BY <1>2, <1>3 DEF SameLine
<1>4. CASE line[l].state \notin {"GC", "FREE"}
  <2>1. DOMAIN MovedLines(t) = Lines
    BY <1>2, <1>4
  <2>2. ASSUME NEW k \in Lines PROVE SameLine(MovedLines(t)[k], line[k])
    <3>1. CASE k # l
      BY <1>2, <1>4, <3>1 DEF SameLine
    <3>2. CASE k = l
      <4>1. MovedLines(t)[k] = [line[k] EXCEPT !.list = thr[t].list]
        BY <1>2, <1>4, <3>2
      <4> QED BY <1>1, <1>4, <3>2, <4>1 DEF SameLine, LineRec, Fields
    <3> QED BY <3>1, <3>2
  <2> QED BY <2>1, <2>2
<1> QED BY <1>3, <1>4

LEMMA MoveLife ==
  ASSUME CountFacts, QueueInv, CacheInv, CacheInv', Life, NEW t \in Threads, MoveLine(t)
  PROVE  Life'
<1> LinesInv /\ MapInv /\ GcInv /\ HeadInv
  BY DEF Life
<1>1. thr[t] # Idle /\ thr' = [thr EXCEPT ![t] = Idle] /\ UNCHANGED <<map, data_line, gcvars>>
  BY DEF MoveLine
<1>2. DOMAIN MovedLines(t) = Lines /\ \A k \in Lines : SameLine(MovedLines(t)[k], line[k])
  BY MovedSame
<1>3. MapInv'
  BY <1>1 DEF MapInv
<1>4. CASE t \in Rings
  <2>1. PutEntry(t, MovedLines(t))
    BY <1>4 DEF MoveLine
  <2>2. Len(ring[t].q) = Cap /\ OnDev(ring[t].q[1].ppa)
    BY Zenon, <1>1, <1>4 DEF CacheInv, Owed, HeadInv
  <2> QED BY <1>1, <1>2, <1>3, <1>4, <2>1, <2>2, PutEntryLife, Zenon
<1>5. CASE t \notin Rings
  <2>1. line' = MovedLines(t) /\ ring' = ring
    BY <1>5 DEF MoveLine
  <2>2. thr'[t] = Idle /\ \A s \in Threads \ {t} : thr'[s] = thr[s]
    BY <1>1 DEF CacheInv, Shape
  <2>3. ThrStep
    BY <2>2, GcAssumption DEF ThrStep, Idle
  <2>4. \A r \in Rings : thr'[r] = thr[r] /\ RingKept(r)
    BY Zenon, <1>5, <2>1, <2>2 DEF Threads, RingKept
  <2>5. WritesInv' /\ \A k \in Lines : WritesOf(k)' = WritesOf(k)
    BY <1>1 DEF GcInv, WritesInv, WritesOf, gcvars
  <2>6. UNCHANGED <<data_line, r_list, prep, gc_target, reads>>
    BY <1>1 DEF gcvars
  <2> QED BY <1>2, <1>3, <2>1, <2>3, <2>4, <2>5, <2>6, KeepLife
<1> QED BY <1>4, <1>5

\* The map update of the oldest entry.
LEMMA UpdateLife ==
  ASSUME CountFacts, QueueInv, CacheInv, CacheInv', Life, NEW r \in Rings, UpdateL2p(r)
  PROVE  Life'
<1> DEFINE e == Head(ring[r].q)
           dead == IF L2pKept(r) THEN Empty ELSE e.ppa
           b == ~(e.lba = NoLba)
<1> LinesInv /\ MapInv /\ RingInv /\ GcInv
  BY DEF Life
<1>1. /\ thr[r] = Idle /\ ~HasRoom(r) /\ e.ppa # Empty
      /\ map' = IF L2pKept(r) THEN [map EXCEPT ![e.lba] = e.ppa] ELSE map
      /\ thr' = [thr EXCEPT ![r] = ThreadAfter(dead, b)]
      /\ UNCHANGED <<data_line, gcvars>>
  BY Zenon DEF UpdateL2p
<1>2. IF thr'[r] = Idle THEN PutEntry(r, LinesAfter(dead)) ELSE line' = LinesAfter(dead) /\ UNCHANGED ring
  BY Zenon DEF UpdateL2p
<1>3. /\ Entries(ring[r].q) /\ Cap \in Nat \ {0} /\ Len(ring[r].q) = Cap
      /\ DOMAIN map = Lbas /\ DOMAIN thr = Threads /\ r \in Threads
  <2>1. /\ Entries(ring[r].q) /\ Len(ring[r].q) \in Nat /\ Len(ring[r].q) <= Cap
        /\ DOMAIN map = Lbas /\ DOMAIN thr = Threads /\ r \in Threads
    BY Zenon DEF CacheInv, Shape, Queues, Entries, IsSeq, Threads
  <2>2. ~(Len(ring[r].q) < Cap)
    BY <1>1 DEF HasRoom
  <2> QED BY <2>1, <2>2, GcAssumption
<1>4. e = ring[r].q[1] /\ EntryOK(e.ppa)
  BY <1>3, TailEntries DEF RingInv
<1>5. OnDev(e.ppa) /\ DevOK(e.ppa) /\ DevOK(dead)
  BY <1>1, <1>4, Zenon DEF EntryOK, DevOK, OnDev, Empty
<1> HIDE DEF e, b
<1>6. /\ DOMAIN LinesAfter(dead) = Lines /\ \A k \in Lines : SameLine(LinesAfter(dead)[k], line[k])
      /\ \A k \in Lines : ThreadAfter(dead, b).line = k =>
           ThreadAfter(dead, b).list \in GcLists /\ line[k].state # "OPEN"
  BY <1>5, InvalidateLife
<1>7. MapInv'
  <2>1. \A x \in Lbas : map'[x] = map[x] \/ map'[x] = e.ppa
    BY <1>1, <1>3
  <2> QED BY <1>5, <2>1 DEF MapInv
<1> HIDE DEF dead
<1>8. thr'[r] = ThreadAfter(dead, b) /\ \A t \in Threads \ {r} : thr'[t] = thr[t]
  BY <1>1, <1>3
<1>9. CASE thr'[r] = Idle
  <2>1. thr' = [thr EXCEPT ![r] = Idle] /\ PutEntry(r, LinesAfter(dead))
    BY Zenon, <1>1, <1>2, <1>8, <1>9
  <2> QED BY <1>1, <1>3, <1>4, <1>5, <1>6, <1>7, <2>1, PutEntryLife, Zenon
<1>10. CASE thr'[r] # Idle
  <2>1. line' = LinesAfter(dead) /\ ring' = ring
    BY Zenon, <1>2, <1>10
  <2>2. ThrStep
    BY Zenon, <1>6, <1>8 DEF ThrStep
  <2>3. \A s \in Rings : /\ RingKept(s)
                         /\ thr'[s] = thr[s] \/ (Len(ring[s].q) = Cap /\ OnDev(ring[s].q[1].ppa))
    BY <1>3, <1>4, <1>5, <1>8, <2>1 DEF RingKept, Threads
  <2>4. WritesInv' /\ \A k \in Lines : WritesOf(k)' = WritesOf(k)
    BY <1>1 DEF GcInv, WritesInv, WritesOf, gcvars
  <2>5. UNCHANGED <<data_line, r_list, prep, gc_target, reads>>
    BY <1>1 DEF gcvars
  <2> QED BY <1>6, <1>7, <2>1, <2>2, <2>3, <2>4, <2>5, KeepLife
<1> QED BY <1>9, <1>10

\* Nothing changes the lines, the rings or what the threads owe.
LEMMA QuietStep ==
  ASSUME thr' = thr
  PROVE  ThrStep /\ (ring' = ring => \A r \in Rings : RingKept(r))
BY DEF ThrStep, RingKept
-------------------------------------------------------------------------------
(* GC requests.                                                                 *)

\* A GC request is read: it goes on to the writer, or ends.
LEMMA ReadGcLife ==
  ASSUME CountFacts, QueueInv, CacheInv, CacheInv', Life, NEW q \in reads, ReadGc(q)
  PROVE  Life'
<1> DEFINE req == [line |-> q.line, copies |-> GcCopies(q)]
<1> LinesInv /\ MapInv /\ RingInv /\ GcInv /\ HeadInv /\ WritesInv /\ IsFiniteSet(reads)
  BY Zenon DEF Life, GcInv
<1>1. /\ reads' = reads \ {q} /\ UNCHANGED <<map, ring, data_line, thr, r_list, prep, gc_target>>
      /\ \/ w_list' = w_list /\ line' = [line EXCEPT ![q.line] = KrefPut(@)]
         \/ w_list' = Append(w_list, req) /\ line' = line
  BY Zenon DEF ReadGc, mapvars
<1> HIDE DEF req
<1>2. MapInv' /\ RingInv' /\ HeadInv' /\ ThrStep
  BY Zenon, <1>1, QuietStep DEF MapInv, RingInv, HeadInv
<1>3. \A k \in Lines : SameLine(line[k], line[k])
  BY DEF LinesInv, SameLine
<1>4. IsFiniteSet(reads') /\ reads' \subseteq reads /\ DOMAIN line = Lines
  BY <1>1, Zenon DEF CountFacts, FinSub, LinesInv
<1>5. ASSUME NEW k \in Lines
      PROVE  /\ MappedTo("user", k)' = MappedTo("user", k) /\ MappedTo("gc", k)' = MappedTo("gc", k)
             /\ Cardinality(ReadsOf(k)) = Cardinality(ReadsOf(k)') + (IF k = q.line THEN 1 ELSE 0)
             /\ Counted(k) /\ Cardinality(ReadsOf(k)') \in Nat
  <2>1. ReadsOf(k)' = ReadsOf(k) \ {q} /\ (q \in ReadsOf(k) <=> k = q.line)
    BY <1>1 DEF ReadsOf
  <2>2. Counted(k)
    BY Countable DEF CountInv
  <2>3. IsFiniteSet(ReadsOf(k)) /\ Cardinality(ReadsOf(k)) \in Nat
    BY <2>2 DEF Counted
  <2>4. /\ Cardinality(ReadsOf(k)') = IF k = q.line THEN Cardinality(ReadsOf(k)) - 1 ELSE Cardinality(ReadsOf(k))
        /\ Cardinality(ReadsOf(k)') \in Nat
    BY <2>1, <2>3 DEF CountFacts, FinRemove, FinCount
  <2>5. MappedTo("user", k)' = MappedTo("user", k) /\ MappedTo("gc", k)' = MappedTo("gc", k)
    BY <1>1 DEF MappedTo
  <2> QED BY <2>2, <2>3, <2>4, <2>5
<1>6. CASE w_list' = w_list /\ line' = [line EXCEPT ![q.line] = KrefPut(@)]
  <2>1. WritesInv'
    BY <1>6 DEF WritesInv
  <2>2. ASSUME NEW k \in Lines PROVE Users(k) = Users(k)' + IF k = q.line THEN 1 ELSE 0
    <3>1. WritesOf(k)' = WritesOf(k)
      BY <1>6 DEF WritesOf
    <3>2. /\ Cardinality(MappedTo("user", k)) \in Nat /\ Cardinality(MappedTo("gc", k)) \in Nat
          /\ Cardinality(WritesOf(k)) \in Nat
      BY <1>5 DEF Counted, Rings
    <3> QED BY <1>5, <3>1, <3>2 DEF Users
  <2> QED BY <1>1, <1>2, <1>3, <1>4, <1>6, <2>1, <2>2, PutLife, Zenon
<1>7. CASE w_list' = Append(w_list, req) /\ line' = line
  <2>1. DOMAIN req = {"line", "copies"} /\ req.line = q.line
    BY DEF req
  <2>2. /\ IsSeq(w_list') /\ Len(w_list') = Len(w_list) + 1 /\ Len(w_list) \in Nat
        /\ w_list'[Len(w_list) + 1] = req /\ \A i \in 1 .. Len(w_list) : w_list'[i] = w_list[i]
    BY <1>7, AppendSeq, Zenon DEF WritesInv
  <2>3. WritesInv'
    BY <2>1, <2>2 DEF WritesInv
  <2>4. ASSUME NEW k \in Lines PROVE LineStep(k)
    <3>1. WritesOf(k)' = IF k = q.line THEN WritesOf(k) \cup {Len(w_list) + 1} ELSE WritesOf(k)
      <4>1. DOMAIN w_list = 1 .. Len(w_list) /\ DOMAIN w_list' = 1 .. Len(w_list) + 1
        BY <2>2 DEF WritesInv, IsSeq
      <4> QED BY <2>1, <2>2, <4>1 DEF WritesOf
    <3>2. Len(w_list) + 1 \notin WritesOf(k)
      BY <2>2 DEF WritesOf, WritesInv, IsSeq
    <3>3. /\ Cardinality(MappedTo("user", k)) \in Nat /\ Cardinality(MappedTo("gc", k)) \in Nat
          /\ Cardinality(WritesOf(k)) \in Nat /\ IsFiniteSet(WritesOf(k))
      BY <1>5 DEF Counted, Rings
    <3>4. Cardinality(WritesOf(k)') = Cardinality(WritesOf(k)) + (IF k = q.line THEN 1 ELSE 0)
      <4>1. CASE k = q.line
        <5>1. WritesOf(k)' = WritesOf(k) \cup {Len(w_list) + 1}
          BY <3>1, <4>1
        <5>2. Cardinality(WritesOf(k)') = Cardinality(WritesOf(k)) + 1
          BY <3>2, <3>3, <5>1, Zenon DEF CountFacts, FinAdd
        <5> QED BY <4>1, <5>2
      <4>2. CASE k # q.line
        BY <3>1, <3>3, <4>2
      <4> QED BY <4>1, <4>2
    <3>5. Users(k)' = Users(k)
      BY <1>5, <3>3, <3>4 DEF Users
    <3> QED BY Zenon, <1>1, <1>3, <1>7, <3>5, StepSame
  <2> QED BY Zenon, <1>1, <1>2, <1>4, <1>7, <2>3, <2>4, LifeFrom
<1> QED BY Zenon, <1>1, <1>6, <1>7

\* The GC writer takes the first request, or goes on with it.
LEMMA FirstWrite ==
  ASSUME CountFacts, WritesInv, w_list # <<>>
  PROVE  /\ w_list' = Tail(w_list) =>
              /\ WritesInv' /\ Head(w_list) = w_list[1]
              /\ \A k : Cardinality(WritesOf(k)) = Cardinality(WritesOf(k)')
                          + (IF k = Head(w_list).line THEN 1 ELSE 0)
         /\ w_list' = [w_list EXCEPT ![1].copies = Tail(@)] =>
              WritesInv' /\ \A k : WritesOf(k)' = WritesOf(k)
<1> DEFINE n == Len(w_list) - 1
           p == Tail(w_list)
<1>1. /\ IsSeq(p) /\ Len(w_list) \in Nat \ {0} /\ Len(p) = n /\ Head(w_list) = w_list[1]
      /\ \A i \in 1 .. n : p[i] = w_list[i + 1]
  BY TailSeq DEF WritesInv
<1>2. DOMAIN p = 1 .. n /\ DOMAIN w_list = 1 .. n + 1 /\ n \in Nat
  BY <1>1 DEF IsSeq, WritesInv
<1>3. \A i \in 1 .. n + 1 : DOMAIN w_list[i] = {"line", "copies"}
  BY <1>1 DEF WritesInv
<1>4. ASSUME w_list' = p
      PROVE  WritesInv' /\ \A k : Cardinality(WritesOf(k)) = Cardinality(WritesOf(k)')
                                    + (IF k = w_list[1].line THEN 1 ELSE 0)
  <2> HIDE DEF n, p
  <2>1. WritesInv'
    BY <1>1, <1>2, <1>3, <1>4 DEF WritesInv
  <2>2. ASSUME NEW k
        PROVE  Cardinality(WritesOf(k)) = Cardinality(WritesOf(k)') + (IF k = w_list[1].line THEN 1 ELSE 0)
    <3> DEFINE S == WritesOf(k)
               T == WritesOf(k)'
    <3>1. T = {i \in 1 .. n : i + 1 \in S}
      BY <1>1, <1>2, <1>4 DEF WritesOf
    <3>2. S \in SUBSET (1 .. n + 1) /\ (1 \in S <=> k = w_list[1].line)
      BY <1>2 DEF WritesOf
    <3> HIDE DEF S, T
    <3>3. Cardinality(S) = Cardinality(T) + (IF 1 \in S THEN 1 ELSE 0)
      BY <1>2, <3>1, <3>2 DEF CountFacts, FinShift
    <3> QED BY <3>2, <3>3 DEF S, T
  <2> QED BY <2>1, <2>2
<1>5. ASSUME w_list' = [w_list EXCEPT ![1].copies = Tail(@)]
      PROVE  WritesInv' /\ \A k : WritesOf(k)' = WritesOf(k)
  <2> DEFINE c == Tail(w_list[1].copies)
  <2> HIDE DEF n, c
  <2>1. w_list' = [i \in 1 .. n + 1 |-> IF i = 1 THEN [w_list[i] EXCEPT !.copies = c] ELSE w_list[i]]
    BY <1>2, <1>5, Zenon DEF c
  <2>2. DOMAIN w_list' = 1 .. n + 1 /\ Len(w_list') = n + 1
    BY <1>2, <2>1
  <2>3. IsSeq(w_list')
    BY <1>2, <2>1, <2>2 DEF IsSeq
  <2>4. \A i \in 1 .. n + 1 : DOMAIN w_list'[i] = {"line", "copies"} /\ w_list'[i].line = w_list[i].line
    BY <1>3, <2>1
  <2> QED BY <1>2, <2>2, <2>3, <2>4 DEF WritesInv, WritesOf
<1> QED BY Zenon, <1>1, <1>4, <1>5

\* The GC writer puts a copy, or padding, in its ring.
LEMMA GcWriteLife ==
  ASSUME CountFacts, QueueInv, CacheInv, CacheInv', Life, GcWriteEntry
  PROVE  Life'
<1> DEFINE h == Head(w_list)
           c == Head(h.copies)
           moves == GcMayMove(c.lba, h.line)
           d == IF moves THEN c ELSE Copy(NoLba, FALSE)
           e == [lba |-> d.lba, new |-> d.new, ppa |-> Empty]
<1> LinesInv /\ MapInv /\ RingInv /\ GcInv /\ HeadInv /\ WritesInv /\ IsFiniteSet(reads)
  BY DEF Life, GcInv
<1>1. /\ w_list # <<>> /\ HasRoom("gc")
      /\ UNCHANGED <<data_line, thr, r_list, prep, reads, gc_target>>
      /\ map' = IF moves THEN [map EXCEPT ![c.lba] = NextAddr("gc")] ELSE map
      /\ ring' = [ring EXCEPT !["gc"].q = Append(ring["gc"].q, e)]
      /\ \/ w_list' = Tail(w_list) /\ line' = [line EXCEPT ![h.line] = KrefPut(@)]
         \/ w_list' = [w_list EXCEPT ![1].copies = Tail(@)] /\ line' = line
  BY DEF GcWriteEntry
<1>2. IsEntry(e) /\ e.ppa = Empty
  BY DEF IsEntry, InCache, Empty
<1> HIDE DEF h, c, moves, e
<1>3. /\ w_list' = Tail(w_list) =>
           /\ WritesInv' /\ \A k : Cardinality(WritesOf(k)) = Cardinality(WritesOf(k)')
                                     + (IF k = h.line THEN 1 ELSE 0)
      /\ w_list' = [w_list EXCEPT ![1].copies = Tail(@)] =>
           WritesInv' /\ \A k : WritesOf(k)' = WritesOf(k)
  BY <1>1, FirstWrite, Zenon DEF h
<1>4. ASSUME NEW r \in Rings PROVE RingKept(r)
  <2>1. DOMAIN ring = Rings /\ DOMAIN ring[r] = {"tail", "q"} /\ Entries(ring[r].q)
    BY DEF CacheInv, Shape, Queues
  <2>2. CASE r = "gc"
    <3>1. ring'[r].q = Append(ring[r].q, e) /\ Len(ring[r].q) < Cap /\ Len(ring[r].q) \in Nat
      BY <1>1, <2>1, <2>2 DEF HasRoom, Entries, IsSeq
    <3>2. /\ Len(ring'[r].q) = Len(ring[r].q) + 1 /\ ring'[r].q[Len(ring[r].q) + 1] = e
          /\ \A i \in 1 .. Len(ring[r].q) : ring'[r].q[i] = ring[r].q[i]
      BY <1>2, <2>1, <3>1, AppendEntry
    <3>3. /\ \A i \in 1 .. Len(ring[r].q) : i \in 1 .. Len(ring'[r].q)
          /\ \A i \in 1 .. Len(ring'[r].q) : i \in 1 .. Len(ring[r].q) \/ i = Len(ring[r].q) + 1
      BY <3>1, <3>2
    <3> QED BY <1>2, <3>2, <3>3, Zenon DEF RingKept
  <2>3. CASE r # "gc"
    <3>1. ring'[r] = ring[r]
      BY <1>1, <2>1, <2>3
    <3> QED BY <3>1 DEF RingKept
  <2> QED BY <2>2, <2>3
<1>5. MapInv'
  <2>1. ~OnDev(NextAddr("gc"))
    BY DEF OnDev, NextAddr, CacheAddr
  <2>2. DOMAIN map = Lbas
    BY DEF CacheInv, Shape
  <2>3. \A x \in Lbas : map'[x] = map[x] \/ map'[x] = NextAddr("gc")
    BY <1>1, <2>2
  <2> QED BY <2>1, <2>3 DEF MapInv, DevOK
<1>6. \A k \in Lines : SameLine(line[k], line[k])
  BY DEF LinesInv, SameLine
<1>7. ThrStep /\ DOMAIN line = Lines
  BY <1>1, QuietStep DEF LinesInv
<1>8. CASE w_list' = Tail(w_list) /\ line' = [line EXCEPT ![h.line] = KrefPut(@)]
  <2>1. \A r \in Rings : /\ \A k : MappedTo(r, k)' = MappedTo(r, k)
                         /\ \A i \in 1 .. Len(ring'[r].q) : EntryOK(ring'[r].q[i].ppa)
                         /\ Len(ring[r].q) = Cap => ring'[r].q[1].ppa = ring[r].q[1].ppa
    BY <1>4, KeptRing
  <2>2. RingInv'
    BY <2>1 DEF RingInv
  <2>3. HeadInv'
    BY <1>1, <2>1 DEF HeadInv, CacheInv, Owed
  <2>4. WritesInv'
    BY <1>3, <1>8
  <2>5. ASSUME NEW k \in Lines PROVE Users(k) = Users(k)' + IF k = h.line THEN 1 ELSE 0
    <3>1. Counted(k) /\ Counted(k)'
      BY <1>1, <2>4, Countable, CountableNext DEF CountInv
    <3>2. /\ MappedTo("user", k)' = MappedTo("user", k) /\ MappedTo("gc", k)' = MappedTo("gc", k)
          /\ ReadsOf(k)' = ReadsOf(k)
      BY <1>1, <2>1 DEF Rings, ReadsOf
    <3>3. /\ Cardinality(MappedTo("user", k)) \in Nat /\ Cardinality(MappedTo("gc", k)) \in Nat
          /\ Cardinality(ReadsOf(k)) \in Nat /\ Cardinality(WritesOf(k)') \in Nat
      BY <3>1 DEF Counted, Rings
    <3>4. Cardinality(WritesOf(k)) = Cardinality(WritesOf(k)') + (IF k = h.line THEN 1 ELSE 0)
      BY <1>3, <1>8
    <3> QED BY <3>2, <3>3, <3>4 DEF Users
  <2> QED BY <1>1, <1>5, <1>6, <1>7, <1>8, <2>2, <2>3, <2>4, <2>5, PutLife, Zenon
<1>9. CASE w_list' = [w_list EXCEPT ![1].copies = Tail(@)] /\ line' = line
  <2>1. WritesInv' /\ \A k \in Lines : WritesOf(k)' = WritesOf(k)
    BY Zenon, <1>3, <1>9
  <2> QED BY Zenon, <1>1, <1>4, <1>5, <1>6, <1>7, <1>9, <2>1, KeepLife
<1> QED BY Zenon, <1>1, <1>8, <1>9
-------------------------------------------------------------------------------
(* The invariant.                                                               *)

\* Every step without a late list move or a failure keeps it.
LEMMA StepLife == CountFacts /\ QueueInv /\ CacheInv /\ CacheInv' /\ LifeInv /\ [Next]_vars => LifeInv'
<1> SUFFICES ASSUME CountFacts, QueueInv, CacheInv, CacheInv', LifeInv, [Next]_vars PROVE LifeInv'
  OBVIOUS
<1>1. faults \in Nat /\ faults' \in Nat /\ ScanInv /\ ScanInv' /\ (Clean' => Clean)
  BY StepHistory, StepScan DEF LifeInv
<1> SUFFICES ASSUME Clean' PROVE Life'
  BY <1>1 DEF LifeInv
<1>2. Life /\ "late_move" \notin slips' /\ faults' = 0
  BY <1>1 DEF LifeInv, Clean
<1>3. ASSUME NEW x \in Lbas, UserWrite(x) \/ Discard(x) PROVE Life'
  BY <1>2, <1>3, RemapLife
<1>4. ASSUME NEW x \in Lbas, ReadLookup(x) PROVE Life'
  BY <1>2, <1>4, SameLife DEF ReadLookup, otherthanrd, gcvars
<1>5. CASE ReadCache \/ ReadRetry \/ ReadDev
  BY <1>2, <1>5, SameLife DEF ReadCache, ReadRetry, ReadDev, otherthanrd, gcvars
<1>6. ASSUME NEW t \in Threads, MoveLine(t) PROVE Life'
  BY <1>2, <1>6, MoveLife
<1>7. ASSUME NEW r \in Rings, MapPage(r) \/ UpdateL2p(r) PROVE Life'
  BY <1>2, <1>7, MapPageLife, UpdateLife
<1>8. ASSUME NEW r \in Rings, NEW l \in Lines, OpenLine(r, l) PROVE Life'
  BY <1>2, <1>8, OpenLife
<1>9. ASSUME NEW l \in Lines, CloseLine(l) \/ GcTakeFull(l) \/ GcTakeVictim(l) PROVE Life'
  BY <1>1, <1>2, <1>9, CloseLife, TakeFullLife, TakeVictimLife
<1>10. CASE GcScan \/ GcNextGroup
  BY <1>2, <1>10, SameLife DEF GcScan, GcNextGroup, mapvars
<1>11. CASE PrepareLine \/ PrepareRq \/ PrepareEnd
  BY Zenon, <1>2, <1>11, PrepareLineLife, PrepareRqLife, PrepareEndLife
<1>12. ~(PrepareNoMem \/ PrepareFail)
  BY <1>1, <1>2 DEF PrepareNoMem, PrepareFail
<1>13. ASSUME NEW q \in reads, ReadGc(q) PROVE Life'
  BY <1>2, <1>13, ReadGcLife
<1>14. ASSUME NEW q \in reads PROVE ~ReadGcFail(q)
  BY <1>1, <1>2 DEF ReadGcFail
<1>15. CASE GcWriteEntry
  BY <1>2, <1>15, GcWriteLife
<1>16. CASE UNCHANGED vars
  BY <1>2, <1>16, SameLife DEF vars, mapvars, gcvars
<1> QED BY Zenon, <1>3, <1>4, <1>5, <1>6, <1>7, <1>8, <1>9, <1>10, <1>11, <1>12, <1>13, <1>14, <1>15,
           <1>16 DEF Next

-------------------------------------------------------------------------------
(* The facts on finite sets.                                                    *)

Lib == INSTANCE FiniteSetTheorems

LEMMA SameFinite == \A S : Lib!IsFiniteSet(S) = IsFiniteSet(S) /\ Lib!Cardinality(S) = Cardinality(S)
<1>1. \A S : Lib!IsFiniteSet(S) = IsFiniteSet(S)
  BY Zenon DEF Lib!IsFiniteSet, IsFiniteSet
<1>2. \A S : Lib!Cardinality(S) = Cardinality(S)
  BY Zenon DEF Lib!Cardinality, Cardinality
<1> QED BY <1>1, <1>2

LEMMA FactsHold == CountFacts
<1>1. FinEmpty
  BY SameFinite, Lib!FS_EmptySet DEF FinEmpty
<1>2. FinNone
  BY Zenon, SameFinite, Lib!FS_EmptySet DEF FinNone
<1>3. FinCount
  BY Zenon, SameFinite, Lib!FS_CardinalityType DEF FinCount
<1>4. FinAdd
  BY Zenon, SameFinite, Lib!FS_AddElement DEF FinAdd
<1>5. FinRemove
  BY <1>3, SameFinite, Lib!FS_RemoveElement DEF FinRemove, FinCount
<1>6. FinSub
  BY Zenon, SameFinite, Lib!FS_Subset DEF FinSub
<1>7. FinInterval
  BY SameFinite, Lib!FS_Interval DEF FinInterval
<1>8. ASSUME NEW n \in Nat, NEW S \in SUBSET (1 .. n + 1), NEW T, T = {i \in 1 .. n : i + 1 \in S}
      PROVE  IsFiniteSet(T) /\ Cardinality(S) = Cardinality(T) + (IF 1 \in S THEN 1 ELSE 0)
  <2> DEFINE R == S \ {1}
             f == [i \in T |-> i + 1]
  <2>1. IsFiniteSet(S) /\ IsFiniteSet(T)
    <3>1. IsFiniteSet(1 .. n + 1) /\ T \subseteq 1 .. n + 1
      BY <1>7, <1>8 DEF FinInterval
    <3> QED BY <1>6, <3>1, Zenon DEF FinSub
  <2>2. f \in Lib!Bijection(T, R)
    <3>1. f \in [T -> R]
      BY <1>8
    <3>2. \A i, j \in T : f[i] = f[j] => i = j
      BY <1>8
    <3>3. \A k \in R : \E i \in T : f[i] = k
      <4> SUFFICES ASSUME NEW k \in R PROVE \E i \in T : f[i] = k
        OBVIOUS
      <4>1. k - 1 \in T /\ f[k - 1] = k
        BY <1>8
      <4> QED BY <4>1
    <3> HIDE DEF f, R
    <3> QED BY Zenon, <3>1, <3>2, <3>3 DEF Lib!Bijection, Lib!Injection, Lib!Surjection, Lib!IsInjective
  <2> HIDE DEF f
  <2>3. Cardinality(R) = Cardinality(T)
    BY Zenon, <2>1, <2>2, SameFinite, Lib!FS_Bijection DEF Lib!ExistsBijection
  <2>4. /\ Cardinality(R) = Cardinality(S) - (IF 1 \in S THEN 1 ELSE 0)
        /\ Cardinality(S) \in Nat
    BY Zenon, <1>3, <1>5, <2>1 DEF FinRemove, FinCount
  <2> HIDE DEF R
  <2> QED BY <2>1, <2>3, <2>4
<1>9. FinShift
  BY <1>8 DEF FinShift
<1>10. ASSUME NEW T \in SUBSET Nat, T # {} PROVE \E x \in T : \A y \in T : x <= y
  <2> DEFINE R == {p \in Nat \X Nat : p[1] < p[2]}
  <2>1. Lib!IsWellFoundedOn(R, Nat)
    BY Lib!NatLessThanWellFounded DEF Lib!OpToRel
  <2> HIDE DEF R
  <2>2. PICK x \in T : \A y \in T : <<y, x>> \notin R
    BY <1>10, <2>1, Lib!WFMin, Zenon
  <2>3. \A y \in T : ~(y < x)
    BY <2>2, Zenon DEF R
  <2> QED BY <2>3
<1>11. LeastNat
  BY <1>10 DEF LeastNat
<1> QED BY Zenon, <1>1, <1>2, <1>3, <1>4, <1>5, <1>6, <1>7, <1>9, <1>11 DEF CountFacts

LEMMA LifeAlways == Spec => [](QueueInv /\ CacheInv /\ LifeInv)
<1>1. Init => LifeInv
  BY FactsHold, InitLife
<1>2. QueueInv /\ CacheInv /\ CacheInv' /\ LifeInv /\ [Next]_vars => LifeInv'
  BY FactsHold, StepLife
<1> QED BY <1>1, <1>2, InitQueue, InitCache, StepQueue, StepCache, PTL DEF Spec

\* For any number of blocks, lines and entries: as long as none of the races and no failure
\* has happened, line->ref counts exactly the line's holders, so pblk_line_put
\* frees a line when the last of them is done with it, and only then.
THEOREM ReferencesExact == Spec => []RefsExact
<1>1. LifeInv => RefsExact
  BY Zenon DEF LifeInv, Clean, Life, LinesInv, RefsExact, Regular
<1> QED BY <1>1, LifeAlways, PTL

\* Under the same condition, gc_target is the number of closed lines, whatever GC takes
\* while lines are closed.
THEOREM GcTargetExact == Spec => []TargetExact
<1>1. LifeInv => TargetExact
  BY Zenon DEF LifeInv, Clean, Life, Closed, TargetExact, Regular
<1> QED BY <1>1, LifeAlways, PTL

\* Under the same condition, a closed line is on a GC list, however late the list moves of
\* several threads come and in whatever order.
THEOREM ClosedLinesListed == Spec => []ClosedListed
<1>1. LifeInv => ClosedListed
  BY DEF LifeInv, Clean, Life, LinesInv, LineRec, ClosedListed, Regular
<1> QED BY <1>1, LifeAlways, PTL
===============================================================================
