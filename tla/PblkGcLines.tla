------------------------------ MODULE PblkGcLines -----------------------------
(* The life of a line: its references, lists and the count of closed lines.     *)
EXTENDS PblkGcTheorems, FiniteFacts, Integers

-------------------------------------------------------------------------------
(* The invariant, as long as no late list move and no failure has happened.     *)

Clean == "late_move" \notin slips /\ faults = 0

Fields == {"state", "gc_group", "list", "invalid", "ref", "data"}
DevOK(a) == OnDev(a) => a[2] \in Lines /\ a[3] \in Secs

\* The addresses in the map and in the rings are those of sectors.
EntryOK(a) == a = Empty \/ (OnDev(a) /\ DevOK(a))
MapInv == \A x \in Lbas : DevOK(map[x])
RingInv == \A r \in Rings : \A i \in 1 .. Len(ring[r].q) : EntryOK(ring[r].q[i].ppa)

\* A line has no reference when it is free, and is on a GC list when it is closed.
LineRec(ln) ==
  /\ DOMAIN ln = Fields /\ ln.invalid \subseteq Secs /\ IsSeq(ln.data)
  /\ ln.state \in {"FREE", "OPEN", "CLOSED", "GC"}
  /\ ln.list \in GcLists <=> ln.state = "CLOSED"

LinesInv ==
  /\ DOMAIN line = Lines
  /\ \A l \in Lines :
       /\ LineRec(line[l])
       /\ line[l].ref = OwnRef(l) + Users(l)
       /\ line[l].state = "FREE" => line[l].ref = 0

\* The lines the rings fill are open, not full, and different.
DataInv ==
  /\ DOMAIN data_line = Rings
  /\ \A r \in Rings : data_line[r] # None =>
       /\ data_line[r] \in Lines /\ line[data_line[r]].state = "OPEN"
       /\ Len(line[data_line[r]].data) < SecPerLine
       /\ \A q \in Rings \ {r} : data_line[q] # data_line[r]

WritesInv == IsSeq(w_list) /\ \A i \in 1 .. Len(w_list) : DOMAIN w_list[i] = {"line", "copies"}

LEMMA SameWrites == WritesInv /\ UNCHANGED w_list => WritesInv'
BY DEF WritesInv

\* The lines in the hands of the GC threads are in state GC.  A line is queued once,
\* before it is prepared, and only then read, each sector once.
GcInv ==
  /\ \A i, j \in 1 .. Len(r_list) : i # j => r_list[i] # r_list[j]
  /\ \A i \in 1 .. Len(r_list) :
       line[r_list[i]].state = "GC" /\ r_list[i] # prep.line /\ ReadsOf(r_list[i]) = {}
  /\ prep.line # None => line[prep.line].state = "GC"
  /\ prep.line = None => prep.left = {}
  /\ IsFiniteSet(reads)
  /\ \A q \in reads : /\ q.line \in Lines /\ line[q.line].state = "GC" /\ q.secs # {}
                      /\ q.line = prep.line => q.secs \cap prep.left = {}
  /\ WritesInv

\* A list move that is still owed is one to a GC list, and its line is not open; a ring
\* whose thread owes one has a sector for its oldest entry.
ThrInv ==
  \A t \in Threads : \A l \in Lines : thr[t].line = l =>
    thr[t].list \in GcLists /\ line[l].state # "OPEN"
HeadInv == \A r \in Rings : thr[r] # Idle => OnDev(ring[r].q[1].ppa)

Closed == {l \in Lines : line[l].state = "CLOSED"}

Life ==
  /\ MapInv /\ RingInv /\ LinesInv /\ DataInv /\ GcInv /\ ThrInv /\ HeadInv
  /\ gc_target = Cardinality(Closed)

\* The scan is at one of gc_lists.
ScanInv == scan = NoScan \/ (DOMAIN scan = {"group", "prev"} /\ scan.group \in 1 .. 3)

LifeInv == faults \in Nat /\ ScanInv /\ (Clean => Life)
-------------------------------------------------------------------------------
(* Counting the holders of a line.                                              *)

\* A queue of requests grows at its end and shrinks at its head.
LEMMA AppendSeq ==
  ASSUME NEW q, IsSeq(q), NEW e
  PROVE  /\ IsSeq(Append(q, e)) /\ Len(Append(q, e)) = Len(q) + 1 /\ Len(q) \in Nat
         /\ Append(q, e)[Len(q) + 1] = e /\ \A i \in 1 .. Len(q) : Append(q, e)[i] = q[i]
<1> DEFINE S == {q[i] : i \in 1 .. Len(q)} \cup {e}
           a == Append(q, e)
<1>1. q \in Seq(S) /\ e \in S
  <2>1. e \in S /\ \A i \in 1 .. Len(q) : q[i] \in S
    OBVIOUS
  <2> HIDE DEF S
  <2> QED BY <2>1, SeqFrom
<1> HIDE DEF S
<1>2. /\ a \in Seq(S) /\ Len(a) = Len(q) + 1
      /\ a[Len(q) + 1] = e /\ \A i \in 1 .. Len(q) : a[i] = q[i]
  BY <1>1
<1> HIDE DEF a
<1>3. IsSeq(a) /\ Len(q) \in Nat
  BY <1>2, SeqIs, Zenon DEF IsSeq
<1> QED BY <1>2, <1>3 DEF a

LEMMA UpToNext == \A n \in Nat : \A i \in 1 .. n + 1 : i \in 1 .. n \/ i = n + 1
OBVIOUS

\* A list stays free of repetitions when a new element joins it.
LEMMA AppendNew ==
  ASSUME NEW n \in Nat, NEW p, NEW q, NEW l, q[n + 1] = l, \A i \in 1 .. n : q[i] = p[i] /\ p[i] # l,
         \A i, j \in 1 .. n : i # j => p[i] # p[j]
  PROVE  \A i, j \in 1 .. n + 1 : i # j => q[i] # q[j]
BY UpToNext

LEMMA TailSeq ==
  ASSUME NEW q, IsSeq(q), q # <<>>
  PROVE  /\ IsSeq(Tail(q)) /\ Len(q) \in Nat \ {0} /\ Len(Tail(q)) = Len(q) - 1 /\ Head(q) = q[1]
         /\ \A i \in 1 .. Len(q) - 1 : Tail(q)[i] = q[i + 1]
<1> DEFINE S == {q[i] : i \in 1 .. Len(q)}
           a == Tail(q)
<1>1. q \in Seq(S)
  <2>1. \A i \in 1 .. Len(q) : q[i] \in S
    OBVIOUS
  <2> HIDE DEF S
  <2> QED BY <2>1, SeqFrom
<1> HIDE DEF S
<1>2. /\ a \in Seq(S) /\ Len(q) \in Nat \ {0} /\ Len(a) = Len(q) - 1 /\ Head(q) = q[1]
      /\ \A i \in 1 .. Len(q) - 1 : a[i] = q[i + 1]
  BY <1>1
<1> HIDE DEF a
<1>3. IsSeq(a)
  BY <1>2, SeqIs, Zenon
<1> QED BY <1>2, <1>3 DEF a

\* The holders are finitely many.
Counted(l) ==
  /\ \A r \in Rings : IsFiniteSet(MappedTo(r, l)) /\ Cardinality(MappedTo(r, l)) \in Nat
  /\ IsFiniteSet(ReadsOf(l)) /\ Cardinality(ReadsOf(l)) \in Nat
  /\ IsFiniteSet(WritesOf(l)) /\ Cardinality(WritesOf(l)) \in Nat
  /\ OwnRef(l) \in {0, 1} /\ Users(l) \in Nat
  /\ Users(l) = 0 => ReadsOf(l) = {}
CountInv == \A l \in Lines : Counted(l)

LEMMA Countable == CountFacts /\ CacheInv /\ IsFiniteSet(reads) /\ WritesInv => CountInv
<1> SUFFICES ASSUME CountFacts, CacheInv, IsFiniteSet(reads), WritesInv, NEW l \in Lines PROVE Counted(l)
  BY DEF CountInv
<1>1. ASSUME NEW r \in Rings PROVE IsFiniteSet(MappedTo(r, l)) /\ Cardinality(MappedTo(r, l)) \in Nat
  <2>1. DOMAIN ring[r].q = 1 .. Len(ring[r].q) /\ Len(ring[r].q) \in Nat
    BY DEF CacheInv, Queues, Entries, IsSeq
  <2>2. MappedTo(r, l) \in SUBSET (1 .. Len(ring[r].q))
    BY <2>1 DEF MappedTo
  <2> QED BY <2>1, <2>2, Zenon DEF CountFacts, FinInterval, FinSub, FinCount
<1>2. IsFiniteSet(ReadsOf(l)) /\ Cardinality(ReadsOf(l)) \in Nat
  <2>1. ReadsOf(l) \in SUBSET reads /\ IsFiniteSet(reads)
    BY DEF ReadsOf
  <2> QED BY <2>1 DEF CountFacts, FinSub, FinCount
<1>3. IsFiniteSet(WritesOf(l)) /\ Cardinality(WritesOf(l)) \in Nat
  <2>1. DOMAIN w_list = 1 .. Len(w_list) /\ Len(w_list) \in Nat
    BY DEF WritesInv, IsSeq
  <2>2. WritesOf(l) \in SUBSET (1 .. Len(w_list))
    BY <2>1 DEF WritesOf
  <2> QED BY <2>1, <2>2 DEF CountFacts, FinInterval, FinSub, FinCount
<1>4. "user" \in Rings /\ "gc" \in Rings
  BY DEF Rings
<1>5. Users(l) \in Nat /\ (Users(l) = 0 => Cardinality(ReadsOf(l)) = 0)
  BY <1>1, <1>2, <1>3, <1>4 DEF Users
<1>6. OwnRef(l) \in {0, 1}
  BY DEF OwnRef
<1> QED BY <1>1, <1>2, <1>3, <1>5, <1>6 DEF CountFacts, FinEmpty, FinNone, Counted

\* So they are after a step.
LEMMA CountableNext == CountFacts /\ CacheInv' /\ IsFiniteSet(reads') /\ WritesInv' => CountInv'
<1>1. (CountFacts /\ CacheInv /\ IsFiniteSet(reads) /\ WritesInv => CountInv)'
  BY Countable, PTL
<1>2. CountFacts => CountFacts'
  OBVIOUS
<1> QED BY <1>1, <1>2


\* A closed line always has a list to be on.
LEMMA GroupListed ==
  ASSUME CountFacts, NEW ln, ln.invalid \subseteq Secs
  PROVE  Group(ln) \in GcLists
<1>1. SecPerLine \in Nat /\ HighThrs \in Int /\ MidThrs \in Int
  BY GcAssumption DEF HighThrs, MidThrs
<1>2. IsFiniteSet(Secs) /\ Cardinality(Secs) = SecPerLine
  BY <1>1 DEF CountFacts, FinInterval, Secs
<1>3. Cardinality(ln.invalid) \in 0 .. SecPerLine
  BY <1>1, <1>2 DEF CountFacts, FinSub, FinCount
<1>4. Vsc(ln) \in 0 .. SecPerLine
  BY <1>1, <1>3 DEF Vsc
<1> QED BY <1>1, <1>4 DEF Group, GcLists

LEMMA FreeRec == LineRec(FreeLine) /\ FreeLine.state = "FREE" /\ FreeLine.ref = 0
<1>1. IsSeq(<<>>)
  BY DEF IsSeq
<1> QED BY <1>1 DEF FreeLine, LineRec, Fields, GcLists

\* kref_put: the line that loses its last holder is free, any other keeps its state.
LEMMA PutRec ==
  ASSUME NEW ln, LineRec(ln)
  PROVE  IF ln.ref = 1 THEN KrefPut(ln) = FreeLine
         ELSE /\ LineRec(KrefPut(ln)) /\ KrefPut(ln).state = ln.state
              /\ KrefPut(ln).data = ln.data /\ KrefPut(ln).ref = ln.ref - 1
BY DEF KrefPut, LineRec, Fields
-------------------------------------------------------------------------------
(* The states of a line.                                                        *)

LEMMA GcKept ==
  ASSUME QueueInv, GcInv, UNCHANGED <<r_list, prep, reads, w_list>>,
         \A k \in Lines : line[k].state = "GC" => line'[k].state = "GC"
  PROVE  GcInv'
<1>1. /\ Len(r_list) \in Nat /\ \A i \in 1 .. Len(r_list) : r_list[i] \in Lines
      /\ prep.line # None => prep.line \in Lines
  BY DEF QueueInv
<1>2. WritesInv' /\ \A k : ReadsOf(k)' = ReadsOf(k)
  BY DEF GcInv, WritesInv, ReadsOf
<1> QED BY <1>1, <1>2, Zenon DEF GcInv

\* Only line l changes.
LEMMA LineChanged ==
  ASSUME LinesInv, NEW l \in Lines, NEW m, line' = [line EXCEPT ![l] = m],
         \A k \in Lines \ {l} : Users(k)' = Users(k) /\ (OwnRef(k)' = OwnRef(k) \/ UNCHANGED <<r_list, prep>>),
         LineRec(m), m.ref = OwnRef(l)' + Users(l)', m.state = "FREE" => m.ref = 0
  PROVE  LinesInv' /\ line'[l] = m /\ \A k \in Lines \ {l} : line'[k] = line[k]
<1>1. DOMAIN line' = Lines /\ line'[l] = m /\ \A k \in Lines \ {l} : line'[k] = line[k]
  BY DEF LinesInv
<1>2. \A k \in Lines \ {l} : OwnRef(k)' = OwnRef(k)
  BY <1>1 DEF OwnRef
<1>3. ASSUME NEW k \in Lines
      PROVE  /\ LineRec(line'[k]) /\ line'[k].ref = OwnRef(k)' + Users(k)'
             /\ line'[k].state = "FREE" => line'[k].ref = 0
  <2>1. CASE k = l
    BY <1>1, <2>1
  <2>2. CASE k # l
    <3>1. /\ LineRec(line[k]) /\ line[k].ref = OwnRef(k) + Users(k)
          /\ line[k].state = "FREE" => line[k].ref = 0
      BY DEF LinesInv
    <3> QED BY <1>1, <1>2, <2>2, <3>1
  <2> QED BY <2>1, <2>2
<1> QED BY <1>1, <1>3 DEF LinesInv

LEMMA SameUsers ==
  ASSUME UNCHANGED <<ring, reads, w_list>>
  PROVE  \A k : Users(k)' = Users(k) /\ ReadsOf(k)' = ReadsOf(k)
<1>1. \A k : /\ MappedTo("user", k)' = MappedTo("user", k) /\ MappedTo("gc", k)' = MappedTo("gc", k)
             /\ ReadsOf(k)' = ReadsOf(k) /\ WritesOf(k)' = WritesOf(k)
  BY DEF MappedTo, ReadsOf, WritesOf
<1> QED BY <1>1 DEF Users

-------------------------------------------------------------------------------
(* The invariant.                                                               *)

LEMMA InitLife == CountFacts /\ Init => LifeInv
<1> SUFFICES ASSUME CountFacts, Init PROVE LifeInv
  BY Zenon
<1>1. MapInv /\ RingInv /\ HeadInv /\ DataInv
  BY DEF Init, MapInv, RingInv, HeadInv, DataInv, DevOK, OnDev, Empty, Threads
<1>2. WritesInv /\ GcInv
  <2>1. IsSeq(<<>>)
    BY DEF IsSeq
  <2> QED BY <2>1 DEF CountFacts, FinEmpty, FinNone, Init, GcInv, WritesInv, NoPrep
<1>3. LinesInv
  <2>1. ASSUME NEW k \in Lines PROVE OwnRef(k) = 0 /\ Users(k) = 0 /\ line[k] = FreeLine
    <3>1. /\ prep = NoPrep /\ r_list = <<>> /\ reads = {} /\ w_list = <<>> /\ line[k] = FreeLine
          /\ \A r \in Rings : ring[r].q = <<>>
      BY Zenon DEF Init
    <3>2. OwnRef(k) = 0
      BY <3>1, GcAssumption DEF OwnRef, NoPrep, FreeLine
    <3>3. MappedTo("user", k) = {} /\ MappedTo("gc", k) = {} /\ ReadsOf(k) = {} /\ WritesOf(k) = {}
      BY <3>1 DEF MappedTo, ReadsOf, WritesOf, Rings
    <3>4. Cardinality({}) = 0
      BY DEF CountFacts, FinNone
    <3>5. /\ Cardinality(MappedTo("user", k)) = 0 /\ Cardinality(MappedTo("gc", k)) = 0
          /\ Cardinality(ReadsOf(k)) = 0 /\ Cardinality(WritesOf(k)) = 0
      BY <3>3, <3>4, Zenon
    <3> QED BY <3>1, <3>2, <3>5 DEF Users
  <2>2. DOMAIN line = Lines
    BY Zenon DEF Init
  <2> QED BY <2>1, <2>2, FreeRec DEF LinesInv
<1>4. ThrInv
  BY GcAssumption DEF Init, ThrInv, Idle
<1>5. gc_target = Cardinality(Closed)
  <2>1. Closed = {}
    BY DEF Init, Closed, FreeLine
  <2> QED BY Zenon, <2>1 DEF CountFacts, FinEmpty, FinNone, Init
<1> QED BY <1>1, <1>2, <1>3, <1>4, <1>5 DEF LifeInv, Life, ScanInv, Init

\* The scan moves along gc_lists.
LEMMA StepScan == ScanInv /\ [Next]_vars => ScanInv'
<1> SUFFICES ASSUME ScanInv, [Next]_vars PROVE ScanInv'
  OBVIOUS
<1>1. CASE UNCHANGED scan
  BY <1>1 DEF ScanInv
<1>2. CASE GcScan
  BY <1>2 DEF GcScan, ScanInv, NoScan
<1>3. CASE GcNextGroup
  BY <1>3 DEF GcNextGroup, ScanInv, gc_lists
<1>4. ASSUME NEW l \in Lines, GcTakeVictim(l) PROVE ScanInv'
  <2>1. scan # NoScan /\ (scan' = [scan EXCEPT !.prev = TRUE] \/ scan' = NoScan)
    BY <1>4, Zenon DEF GcTakeVictim
  <2> QED BY <2>1 DEF ScanInv
<1>5. ASSUME NEW x \in Lbas, UserWrite(x) \/ Discard(x) \/ ReadLookup(x) PROVE UNCHANGED scan
  BY <1>5, Zenon DEF UserWrite, Discard, Remap, ReadLookup, otherthanrd, gcvars
<1>6. CASE ReadCache \/ ReadRetry \/ ReadDev \/ UNCHANGED vars
  BY <1>1, <1>6 DEF ReadCache, ReadRetry, ReadDev, otherthanrd, gcvars, vars
<1>7. ASSUME NEW t \in Threads, MoveLine(t) PROVE UNCHANGED scan
  BY <1>7 DEF MoveLine, gcvars
<1>8. ASSUME NEW r \in Rings, MapPage(r) \/ UpdateL2p(r) PROVE UNCHANGED scan
  BY <1>8, Zenon DEF MapPage, UpdateL2p, gcvars
<1>9. ASSUME NEW l \in Lines, CloseLine(l) \/ GcTakeFull(l) \/ \E r \in Rings : OpenLine(r, l)
      PROVE  UNCHANGED scan
  BY Zenon, <1>9 DEF CloseLine, GcTakeFull, OpenLine, gcvars
<1>10. CASE PrepareLine \/ PrepareRq \/ PrepareEnd \/ PrepareNoMem \/ PrepareFail \/ GcWriteEntry
  BY <1>1, <1>10 DEF PrepareLine, PrepareRq, PrepareEnd, PrepareNoMem, PrepareFail, GcWriteEntry
<1>11. ASSUME NEW q \in reads, ReadGc(q) \/ ReadGcFail(q) PROVE UNCHANGED scan
  BY <1>11, Zenon DEF ReadGc, ReadGcFail
<1> QED BY <1>1, <1>2, <1>3, <1>4, <1>5, <1>6, <1>7, <1>8, <1>9, <1>10, <1>11 DEF Next

\* Steps that change nothing the invariant speaks of.
LEMMA SameLife ==
  ASSUME Life, UNCHANGED <<map, ring, data_line, line, thr, r_list, prep, reads, w_list, gc_target>>
  PROVE  Life'
<1>1. MapInv' /\ RingInv' /\ DataInv' /\ ThrInv' /\ HeadInv' /\ Closed' = Closed
  BY DEF Life, MapInv, RingInv, DataInv, ThrInv, HeadInv, Closed
<1>2. GcInv'
  BY Zenon DEF Life, GcInv, WritesInv, ReadsOf
<1>3. LinesInv'
  <2>1. \A k : Users(k)' = Users(k) /\ OwnRef(k)' = OwnRef(k)
    BY Zenon, SameUsers DEF OwnRef
  <2> QED BY <2>1 DEF Life, LinesInv
<1> QED BY Zenon, <1>1, <1>2, <1>3 DEF Life

\* Races and failures are not forgotten.
LEMMA StepHistory ==
  ASSUME faults \in Nat, [Next]_vars
  PROVE  faults' \in Nat /\ (Clean' => Clean)
<1>1. CASE UNCHANGED <<faults, slips>>
  BY <1>1 DEF Clean
<1>2. CASE faults' = faults + 1
  BY <1>2 DEF Clean
<1>3. CASE UNCHANGED faults /\ slips \subseteq slips'
  BY <1>3 DEF Clean
<1>4. ASSUME NEW x \in Lbas, UserWrite(x) \/ Discard(x) \/ ReadLookup(x) PROVE UNCHANGED <<faults, slips>>
  BY <1>4, Zenon DEF UserWrite, Discard, Remap, ReadLookup, otherthanrd
<1>5. CASE ReadCache \/ ReadRetry \/ ReadDev \/ UNCHANGED vars
  BY <1>1, <1>5 DEF ReadCache, ReadRetry, ReadDev, otherthanrd, vars
<1>6. ASSUME NEW t \in Threads, MoveLine(t) PROVE UNCHANGED <<faults, slips>>
  BY <1>6 DEF MoveLine
<1>7. ASSUME NEW r \in Rings, MapPage(r) \/ UpdateL2p(r) PROVE UNCHANGED <<faults, slips>>
  BY <1>7, Zenon DEF MapPage, UpdateL2p
<1>8. ASSUME NEW r \in Rings, NEW l \in Lines, OpenLine(r, l) PROVE UNCHANGED faults /\ slips \subseteq slips'
  BY <1>8 DEF OpenLine
<1>9. ASSUME NEW l \in Lines, CloseLine(l) \/ GcTakeFull(l) \/ GcTakeVictim(l)
      PROVE  UNCHANGED <<faults, slips>>
  BY <1>9, Zenon DEF CloseLine, GcTakeFull, GcTakeVictim
<1>10. CASE GcScan \/ GcNextGroup \/ PrepareLine \/ PrepareRq \/ PrepareEnd \/ GcWriteEntry
  <2>1. UNCHANGED <<faults, slips>>
    BY <1>10, Zenon DEF GcScan, GcNextGroup, PrepareLine, PrepareRq, PrepareEnd, GcWriteEntry
  <2> QED BY <1>1, <2>1
<1>11. CASE PrepareNoMem \/ PrepareFail
  BY <1>2, <1>11 DEF PrepareNoMem, PrepareFail
<1>12. ASSUME NEW q \in reads, ReadGc(q) PROVE UNCHANGED faults /\ slips \subseteq slips'
  BY <1>12, Zenon DEF ReadGc
<1>13. ASSUME NEW q \in reads, ReadGcFail(q) PROVE faults' = faults + 1
  BY <1>13, Zenon DEF ReadGcFail
<1> QED BY Zenon, <1>1, <1>2, <1>3, <1>4, <1>5, <1>6, <1>7, <1>8, <1>9, <1>10, <1>11, <1>12, <1>13 DEF Next
-------------------------------------------------------------------------------
(* The steps of a line's life.                                                  *)

\* An entry gets a sector of the ring's line.
LEMMA MapPageLife ==
  ASSUME CountFacts, QueueInv, CacheInv, CacheInv', Life, NEW r \in Rings, MapPage(r)
  PROVE  Life'
<1> PICK l : l = data_line[r]
  OBVIOUS
<1> DEFINE todo == {i \in DOMAIN ring[r].q : ring[r].q[i].ppa = Empty}
           j == CHOOSE i \in todo : \A k \in todo : i <= k
           s == Len(line[l].data) + 1
           a == DevAddr(l, s)
           c == Copy(ring[r].q[j].lba, ring[r].q[j].new)
           g == KrefGet(line[l])
           d == Append(g.data, c)
           m == [g EXCEPT !.data = d]
<1> LinesInv /\ MapInv /\ RingInv /\ DataInv /\ GcInv /\ ThrInv /\ HeadInv /\ WritesInv /\ IsFiniteSet(reads)
  BY Zenon DEF Life, GcInv
<1>1. /\ l # None /\ todo # {} /\ UNCHANGED <<map, thr, gcvars>>
      /\ ring' = [ring EXCEPT ![r].q[j].ppa = a]
      /\ line' = [line EXCEPT ![l] = m]
      /\ data_line' = [data_line EXCEPT ![r] = IF s = SecPerLine THEN None ELSE l]
  BY Zenon DEF MapPage
<1> HIDE DEF todo, j, s, a, c, g, d, m
<1>2. /\ Entries(ring[r].q) /\ DOMAIN ring = Rings /\ \A q \in Rings : DOMAIN ring[q] = {"tail", "q"}
      /\ DOMAIN ring[r].q = 1 .. Len(ring[r].q) /\ Len(ring[r].q) \in Nat
  BY DEF CacheInv, Shape, Queues, Entries, IsSeq
<1>3. j \in todo
  <2>1. todo \in SUBSET Nat
    BY <1>2 DEF todo
  <2>2. \E i \in todo : \A k \in todo : i <= k
    BY <1>1, <2>1 DEF CountFacts, LeastNat
  <2> QED BY <2>2, Zenon DEF j
<1>4. j \in 1 .. Len(ring[r].q) /\ ring[r].q[j].ppa = Empty
  BY <1>2, <1>3 DEF todo
<1>5. /\ l \in Lines /\ line[l].state = "OPEN" /\ Len(line[l].data) < SecPerLine
      /\ DOMAIN data_line = Rings /\ \A q \in Rings \ {r} : data_line[q] # l
  BY <1>1 DEF DataInv
<1>6. LineRec(line[l]) /\ DOMAIN line = Lines /\ line[l].ref = OwnRef(l) + Users(l)
  BY <1>5 DEF LinesInv
<1>7. /\ DOMAIN g = Fields /\ g.ref = line[l].ref + 1 /\ g.state = line[l].state
      /\ g.list = line[l].list /\ g.invalid = line[l].invalid /\ g.data = line[l].data
      /\ Len(line[l].data) \in Nat
  BY <1>6 DEF KrefGet, LineRec, Fields, IsSeq, g
<1>8. LineRec(m) /\ m.state = "OPEN" /\ m.ref = line[l].ref + 1 /\ Len(m.data) = s
  <2>1. /\ DOMAIN m = Fields /\ m.ref = g.ref /\ m.state = g.state
        /\ m.list = g.list /\ m.invalid = g.invalid /\ m.data = d
    BY <1>7 DEF Fields, m
  <2>2. IsSeq(d) /\ Len(d) = s
    BY <1>6, <1>7, AppendSeq DEF LineRec, d, s
  <2> QED BY <1>5, <1>6, <1>7, <2>1, <2>2 DEF LineRec
<1>9. s \in Secs
  BY <1>5, <1>7, GcAssumption DEF Secs, s
<1>10. OnLine(a, l) /\ EntryOK(a) /\ \A k : OnLine(a, k) => k = l
  BY <1>5, <1>9 DEF OnLine, EntryOK, OnDev, DevOK, DevAddr, a
<1>11. /\ \A q \in Rings \ {r} : ring'[q] = ring[q]
       /\ DOMAIN ring'[r].q = DOMAIN ring[r].q /\ Len(ring'[r].q) = Len(ring[r].q)
       /\ ring'[r].q[j].ppa = a
       /\ \A i \in 1 .. Len(ring[r].q) : i # j => ring'[r].q[i] = ring[r].q[i]
  <2> DEFINE p == [ring[r].q EXCEPT ![j].ppa = a]
  <2>1. ring'[r].q = p /\ \A q \in Rings \ {r} : ring'[q] = ring[q]
    BY <1>1, <1>2
  <2>2. DOMAIN ring[r].q[j] = {"lba", "new", "ppa"}
    BY <1>2, <1>4 DEF Entries, IsEntry
  <2>3. /\ DOMAIN p = DOMAIN ring[r].q /\ p[j].ppa = a
        /\ \A i \in 1 .. Len(ring[r].q) : i # j => p[i] = ring[r].q[i]
    BY <1>2, <1>4, <2>2
  <2>4. Len(p) = Len(ring[r].q)
    BY <1>2, <2>1, <2>3 DEF CacheInv, Queues, Entries, IsSeq
  <2> QED BY <2>1, <2>3, <2>4
<1>12. UNCHANGED <<reads, w_list, r_list, prep, gc_target>> /\ WritesInv'
  BY <1>1 DEF gcvars, WritesInv
<1>13. ASSUME NEW k \in Lines
       PROVE  Users(k)' = Users(k) + IF k = l THEN 1 ELSE 0
  <2>1. Counted(k)
    BY Countable DEF CountInv
  <2>2. ReadsOf(k)' = ReadsOf(k) /\ WritesOf(k)' = WritesOf(k)
        /\ \A q \in Rings \ {r} : MappedTo(q, k)' = MappedTo(q, k)
    BY <1>11, <1>12 DEF ReadsOf, WritesOf, MappedTo
  <2>3. j \notin MappedTo(r, k)
    BY <1>4 DEF MappedTo, OnLine, OnDev, Empty
  <2>4. MappedTo(r, k)' = IF k = l THEN MappedTo(r, k) \cup {j} ELSE MappedTo(r, k)
    BY <1>2, <1>4, <1>10, <1>11, <2>3 DEF MappedTo
  <2>5. /\ Cardinality(MappedTo("user", k)) \in Nat /\ Cardinality(MappedTo("gc", k)) \in Nat
        /\ Cardinality(ReadsOf(k)) \in Nat /\ Cardinality(WritesOf(k)) \in Nat
        /\ IsFiniteSet(MappedTo(r, k))
    BY <2>1 DEF Counted, Rings
  <2>6. Cardinality(MappedTo(r, k)') = Cardinality(MappedTo(r, k)) + IF k = l THEN 1 ELSE 0
    BY <2>3, <2>4, <2>5 DEF CountFacts, FinAdd, FinCount
  <2>7. CASE r = "user"
    BY <2>2, <2>5, <2>6, <2>7 DEF Users, Rings
  <2>8. CASE r = "gc"
    BY <2>2, <2>5, <2>6, <2>8 DEF Users, Rings
  <2> QED BY <2>7, <2>8 DEF Rings
<1>14. Users(l) \in Nat /\ OwnRef(l) = 1
  BY <1>5, Countable DEF CountInv, Counted, OwnRef
<1>15. OwnRef(l)' = 1
  <2>1. line'[l] = m
    BY <1>1, <1>5, <1>6
  <2> QED BY <1>8, <2>1 DEF OwnRef
<1>16. LinesInv' /\ line'[l] = m /\ \A k \in Lines \ {l} : line'[k] = line[k]
  <2>1. m.ref = OwnRef(l)' + Users(l)'
    <3>1. Users(l)' = Users(l) + 1
      BY <1>5, <1>13
    <3> QED BY <1>6, <1>8, <1>14, <1>15, <3>1
  <2>2. \A k \in Lines \ {l} : Users(k)' = Users(k)
    <3> SUFFICES ASSUME NEW k \in Lines \ {l} PROVE Users(k)' = Users(k)
      OBVIOUS
    <3>1. Users(k) \in Nat
      BY Countable DEF CountInv, Counted
    <3> QED BY <1>13, <3>1
  <2> QED BY <1>1, <1>5, <1>8, <1>12, <2>1, <2>2, LineChanged, Zenon
<1>17. \A k \in Lines : line'[k].state = line[k].state
  BY <1>5, <1>8, <1>16
<1>18. RingInv' /\ MapInv'
  <2>1. \A i \in 1 .. Len(ring'[r].q) : EntryOK(ring'[r].q[i].ppa)
    BY Zenon, <1>10, <1>11 DEF RingInv
  <2> QED BY <1>1, <1>11, <2>1 DEF RingInv, MapInv
<1>19. HeadInv'
  <2>1. thr' = thr
    BY <1>1
  <2>2. thr[r] # Idle => 1 \in 1 .. Len(ring[r].q) /\ OnDev(ring[r].q[1].ppa)
    BY GcAssumption DEF HeadInv, CacheInv, Owed
  <2>3. ~OnDev(Empty)
    BY DEF OnDev, Empty
  <2>4. thr[r] # Idle => OnDev(ring'[r].q[1].ppa)
    BY <1>4, <1>11, <2>2, <2>3
  <2> QED BY <1>11, <2>1, <2>4 DEF HeadInv
<1>20. DataInv'
  <2>1. data_line'[r] \in {None, l} /\ (data_line'[r] = l => s # SecPerLine)
        /\ DOMAIN data_line' = Rings /\ \A q \in Rings \ {r} : data_line'[q] = data_line[q]
    BY <1>1, <1>5, GcAssumption
  <2>2. data_line'[r] # None => s < SecPerLine
    BY <1>5, <1>7, <2>1, GcAssumption DEF s
  <2>3. ASSUME NEW q \in Rings, data_line'[q] # None
        PROVE  /\ data_line'[q] \in Lines /\ line'[data_line'[q]].state = "OPEN"
               /\ Len(line'[data_line'[q]].data) < SecPerLine
               /\ \A o \in Rings \ {q} : data_line'[o] # data_line'[q]
    <3>1. CASE q = r
      BY <1>5, <1>8, <1>16, <2>1, <2>2, <2>3, <3>1
    <3>2. CASE q # r
      <4>1. /\ data_line[q] \in Lines /\ line[data_line[q]].state = "OPEN"
            /\ Len(line[data_line[q]].data) < SecPerLine /\ data_line[q] # l
            /\ \A o \in Rings \ {q} : data_line[o] # data_line[q]
        BY <1>5, <2>1, <2>3, <3>2 DEF DataInv
      <4> QED BY <1>16, <2>1, <2>3, <3>2, <4>1
    <3> QED BY <3>1, <3>2
  <2> QED BY <2>1, <2>3 DEF DataInv
<1>21. GcInv'
  BY <1>12, <1>17, GcKept
<1>22. ThrInv' /\ Closed' = Closed
  BY <1>1, <1>17 DEF ThrInv, Closed
<1> QED BY <1>12, <1>16, <1>18, <1>19, <1>20, <1>21, <1>22 DEF Life

\* A free line is opened: nobody has held it.
LEMMA OpenLife ==
  ASSUME CountFacts, QueueInv, CacheInv, Life, NEW r \in Rings, NEW l \in Lines, OpenLine(r, l),
         "late_move" \notin slips'
  PROVE  Life'
<1> DEFINE m == [FreeLine EXCEPT !.state = "OPEN", !.list = "none", !.ref = 1]
<1> LinesInv /\ MapInv /\ RingInv /\ DataInv /\ GcInv /\ ThrInv /\ HeadInv /\ WritesInv /\ IsFiniteSet(reads)
  BY Zenon DEF Life, GcInv
<1>1. /\ data_line[r] = None /\ line[l].state = "FREE" /\ line' = [line EXCEPT ![l] = m]
      /\ data_line' = [data_line EXCEPT ![r] = l]
      /\ UNCHANGED <<map, ring, thr, r_list, prep, reads, w_list, gc_target>>
      /\ slips' = slips \cup {k \in {"late_move"} : \E t \in Threads : thr[t].line = l}
  BY DEF OpenLine, gcvars
<1>2. \A t \in Threads : thr[t].line # l
  BY <1>1
<1>3. LineRec(m) /\ m.state = "OPEN" /\ m.ref = 1 /\ Len(m.data) = 0
  BY FreeRec DEF FreeLine, LineRec, Fields, GcLists
<1> HIDE DEF m
<1>4. Users(l) = 0
  <2>1. line[l].ref = 0 /\ line[l].ref = OwnRef(l) + Users(l)
    BY <1>1 DEF LinesInv
  <2>2. Users(l) \in Nat /\ OwnRef(l) \in {0, 1}
    BY Countable DEF CountInv, Counted
  <2> QED BY <2>1, <2>2
<1>5. \A k : Users(k)' = Users(k)
  BY <1>1, SameUsers
<1>6. LinesInv' /\ line'[l] = m /\ \A k \in Lines \ {l} : line'[k] = line[k]
  <2>1. line'[l] = m
    BY <1>1 DEF LinesInv
  <2>2. OwnRef(l)' = 1
    BY <1>3, <2>1 DEF OwnRef
  <2>3. m.ref = OwnRef(l)' + Users(l)'
    BY <1>3, <1>4, <1>5, <2>2
  <2> QED BY <1>1, <1>3, <1>5, <2>3, LineChanged, Zenon
<1>7. GcInv'
  BY Zenon, <1>1, <1>6, GcKept
<1>8. ThrInv' /\ MapInv' /\ RingInv' /\ HeadInv'
  BY <1>1, <1>2, <1>6 DEF ThrInv, MapInv, RingInv, HeadInv
<1>9. Closed' = Closed
  BY <1>1, <1>3, <1>6 DEF Closed
<1>10. DataInv'
  <2>1. DOMAIN data_line' = Rings /\ data_line'[r] = l /\ \A q \in Rings \ {r} : data_line'[q] = data_line[q]
    BY Zenon, <1>1 DEF DataInv
  <2>2. ASSUME NEW q \in Rings, data_line'[q] # None
        PROVE  /\ data_line'[q] \in Lines /\ line'[data_line'[q]].state = "OPEN"
               /\ Len(line'[data_line'[q]].data) < SecPerLine
               /\ \A o \in Rings \ {q} : data_line'[o] # data_line'[q]
    <3>1. \A o \in Rings \ {r} : data_line[o] # l
      BY <1>1, GcAssumption DEF DataInv
    <3>2. CASE q = r
      BY <1>3, <1>6, <2>1, <3>1, <3>2, GcAssumption
    <3>3. CASE q # r
      <4>1. /\ data_line[q] \in Lines /\ line[data_line[q]].state = "OPEN" /\ data_line[q] # l
            /\ Len(line[data_line[q]].data) < SecPerLine
            /\ \A o \in Rings \ {q} : data_line[o] # data_line[q]
        BY <2>1, <2>2, <3>1, <3>3 DEF DataInv
      <4> QED BY <1>6, <2>1, <3>3, <4>1
    <3> QED BY <3>2, <3>3
  <2> QED BY <2>1, <2>2 DEF DataInv
<1> QED BY <1>1, <1>6, <1>7, <1>8, <1>9, <1>10 DEF Life

LEMMA ClosedFinite ==
  ASSUME CountFacts
  PROVE  IsFiniteSet(Closed) /\ Cardinality(Closed) \in Nat
<1>1. Closed \in SUBSET Lines /\ IsFiniteSet(Lines)
  BY GcAssumption DEF Closed
<1> QED BY <1>1 DEF CountFacts, FinSub, FinCount

\* A line that is neither open before nor after, or is full, is nobody's data line.
LEMMA DataKept ==
  ASSUME DataInv, NEW l \in Lines, UNCHANGED data_line,
         line[l].state # "OPEN" \/ Len(line[l].data) = SecPerLine,
         \A k \in Lines \ {l} : line'[k] = line[k]
  PROVE  DataInv'
<1>1. SecPerLine \in Nat
  BY GcAssumption
<1>2. ASSUME NEW q \in Rings, data_line[q] # None
      PROVE  /\ data_line[q] \in Lines /\ line'[data_line[q]].state = "OPEN"
             /\ Len(line'[data_line[q]].data) < SecPerLine
             /\ \A o \in Rings \ {q} : data_line[o] # data_line[q]
  <2>1. /\ data_line[q] \in Lines /\ line[data_line[q]].state = "OPEN"
        /\ Len(line[data_line[q]].data) < SecPerLine
        /\ \A o \in Rings \ {q} : data_line[o] # data_line[q]
    BY <1>2 DEF DataInv
  <2>2. data_line[q] # l
    BY <1>1, <2>1
  <2> QED BY <2>1, <2>2
<1> QED BY <1>2 DEF DataInv

\* A full line is closed.
LEMMA CloseLife ==
  ASSUME CountFacts, QueueInv, CacheInv, Life, NEW l \in Lines, CloseLine(l)
  PROVE  Life'
<1> DEFINE g == Group(line[l])
           m == [Regrouped(line[l]) EXCEPT !.state = "CLOSED", !.list = g]
<1> LinesInv /\ MapInv /\ RingInv /\ DataInv /\ GcInv /\ ThrInv /\ HeadInv /\ gc_target = Cardinality(Closed)
  BY DEF Life
<1>1. /\ line[l].state = "OPEN" /\ Len(line[l].data) = SecPerLine /\ line' = [line EXCEPT ![l] = m]
      /\ gc_target' = gc_target + 1
      /\ UNCHANGED <<map, ring, data_line, thr, r_list, prep, reads, w_list>>
  BY DEF CloseLine, mapvars
<1>2. LineRec(line[l]) /\ line[l].ref = OwnRef(l) + Users(l) /\ DOMAIN line = Lines
  BY DEF LinesInv
<1>3. g \in GcLists
  BY <1>2, GroupListed DEF LineRec
<1> HIDE DEF g
<1>4. LineRec(m) /\ m.state = "CLOSED" /\ m.ref = line[l].ref
  BY <1>2, <1>3 DEF Regrouped, LineRec, Fields
<1> HIDE DEF m
<1>5. \A k : Users(k)' = Users(k)
  BY <1>1, SameUsers
<1>6. LinesInv' /\ line'[l] = m /\ \A k \in Lines \ {l} : line'[k] = line[k]
  <2>1. line'[l] = m
    BY <1>1, <1>2
  <2>2. OwnRef(l)' = OwnRef(l)
    BY Zenon, <1>1, <1>4, <2>1 DEF OwnRef
  <2>3. m.ref = OwnRef(l)' + Users(l)'
    BY <1>2, <1>4, <1>5, <2>2
  <2> QED BY <1>1, <1>4, <1>5, <2>3, LineChanged, Zenon
<1>7. GcInv'
  BY Zenon, <1>1, <1>6, GcKept
<1>8. ThrInv' /\ MapInv' /\ RingInv' /\ HeadInv'
  BY <1>1, <1>4, <1>6 DEF ThrInv, MapInv, RingInv, HeadInv
<1>9. gc_target' = Cardinality(Closed')
  <2>1. Closed' = Closed \cup {l} /\ l \notin Closed
    BY <1>1, <1>4, <1>6 DEF Closed
  <2> QED BY <1>1, <2>1, ClosedFinite, Zenon DEF CountFacts, FinAdd
<1>10. DataInv'
  BY <1>1, <1>6, DataKept
<1> QED BY <1>6, <1>7, <1>8, <1>9, <1>10 DEF Life

\* A closed line is chosen by GC: it is in nobody else's hands.
LEMMA ChosenLine ==
  ASSUME QueueInv, Life, NEW l \in Lines, line[l].list \in GcLists
  PROVE  /\ line[l].state = "CLOSED" /\ LineRec(line[l]) /\ DOMAIN line = Lines
         /\ line[l].ref = 1 + Users(l)
         /\ l # prep.line /\ ReadsOf(l) = {} /\ Len(r_list) \in Nat
         /\ \A i \in 1 .. Len(r_list) : r_list[i] # l
         /\ LineRec(Chosen(line[l])) /\ Chosen(line[l]).state = "GC"
         /\ Chosen(line[l]).ref = line[l].ref /\ Chosen(line[l]).data = line[l].data
<1>1. /\ line[l].state = "CLOSED" /\ LineRec(line[l]) /\ DOMAIN line = Lines
      /\ line[l].ref = OwnRef(l) + Users(l)
  BY DEF Life, LinesInv, LineRec
<1>2. OwnRef(l) = 1
  BY <1>1 DEF OwnRef
<1>3. /\ l # prep.line /\ ReadsOf(l) = {} /\ Len(r_list) \in Nat
      /\ \A i \in 1 .. Len(r_list) : r_list[i] # l
  BY <1>1, GcAssumption DEF Life, GcInv, ReadsOf, QueueInv
<1>4. /\ LineRec(Chosen(line[l])) /\ Chosen(line[l]).state = "GC"
      /\ Chosen(line[l]).ref = line[l].ref /\ Chosen(line[l]).data = line[l].data
  BY <1>1 DEF Chosen, LineRec, Fields, GcLists
<1> QED BY Zenon, <1>1, <1>2, <1>3, <1>4

LEMMA ClosedLess ==
  ASSUME CountFacts, Life, NEW l \in Lines, line[l].state = "CLOSED", line'[l].state # "CLOSED",
         \A k \in Lines \ {l} : line'[k] = line[k], gc_target' = gc_target - 1
  PROVE  gc_target' = Cardinality(Closed')
<1>1. Closed' = Closed \ {l} /\ l \in Closed
  BY Zenon DEF Closed
<1> QED BY <1>1, ClosedFinite, Zenon DEF CountFacts, FinRemove, Life

\* A line without valid sectors loses its own reference.
LEMMA TakeFullLife ==
  ASSUME CountFacts, QueueInv, CacheInv, Life, NEW l \in Lines, GcTakeFull(l)
  PROVE  Life'
<1> DEFINE m == KrefPut(Chosen(line[l]))
<1> LinesInv /\ MapInv /\ RingInv /\ DataInv /\ GcInv /\ ThrInv /\ HeadInv /\ WritesInv /\ IsFiniteSet(reads)
  BY Zenon DEF Life, GcInv
<1>1. /\ line[l].list = "FULL" /\ line' = [line EXCEPT ![l] = m] /\ gc_target' = gc_target - 1
      /\ UNCHANGED <<map, ring, data_line, thr, r_list, prep, reads, w_list>>
  BY Zenon DEF GcTakeFull, OnList, mapvars
<1>2. /\ line[l].state = "CLOSED" /\ DOMAIN line = Lines /\ line[l].ref = 1 + Users(l)
      /\ l # prep.line /\ \A i \in 1 .. Len(r_list) : r_list[i] # l
      /\ LineRec(Chosen(line[l])) /\ Chosen(line[l]).state = "GC" /\ Chosen(line[l]).ref = line[l].ref
  BY <1>1, ChosenLine DEF GcLists
<1>3. Users(l) \in Nat
  BY Countable DEF CountInv, Counted
<1>4. LineRec(m) /\ m.state \in {"GC", "FREE"} /\ m.ref = Users(l) /\ (m.state = "FREE" => m.ref = 0)
  <2>1. CASE Chosen(line[l]).ref = 1
    <3>1. m = FreeLine /\ Users(l) = 0
      BY <1>2, <1>3, <2>1, PutRec
    <3> QED BY Zenon, <3>1, FreeRec
  <2>2. CASE Chosen(line[l]).ref # 1
    <3>1. LineRec(m) /\ m.state = "GC" /\ m.ref = Chosen(line[l]).ref - 1
      BY <1>2, <2>2, PutRec
    <3> QED BY <1>2, <1>3, <3>1
  <2> QED BY <2>1, <2>2
<1> HIDE DEF m
<1>5. \A k : Users(k)' = Users(k)
  BY <1>1, SameUsers
<1>6. LinesInv' /\ line'[l] = m /\ \A k \in Lines \ {l} : line'[k] = line[k]
  <2>1. line'[l] = m
    BY <1>1, <1>2
  <2>2. OwnRef(l)' = 0
    BY <1>1, <1>2, <1>4, <2>1 DEF OwnRef, QueueInv
  <2>3. m.ref = OwnRef(l)' + Users(l)'
    BY <1>3, <1>4, <1>5, <2>2
  <2> QED BY <1>1, <1>4, <1>5, <2>3, LineChanged, Zenon
<1>7. GcInv'
  BY Zenon, <1>1, <1>2, <1>6, GcKept
<1>8. ThrInv' /\ MapInv' /\ RingInv' /\ HeadInv'
  BY <1>1, <1>4, <1>6 DEF ThrInv, MapInv, RingInv, HeadInv
<1>9. gc_target' = Cardinality(Closed')
  BY Zenon, <1>1, <1>2, <1>4, <1>6, ClosedLess
<1>10. DataInv'
  BY Zenon, <1>1, <1>2, <1>6, DataKept
<1> QED BY Zenon, <1>6, <1>7, <1>8, <1>9, <1>10 DEF Life

\* A victim is queued.
LEMMA TakeVictimLife ==
  ASSUME CountFacts, QueueInv, CacheInv, Life, ScanInv, NEW l \in Lines, GcTakeVictim(l)
  PROVE  Life'
<1> DEFINE m == Chosen(line[l])
           n == Len(r_list)
<1> LinesInv /\ MapInv /\ RingInv /\ DataInv /\ GcInv /\ ThrInv /\ HeadInv
  BY DEF Life
<1>1. /\ scan # NoScan /\ l \in OnList(gc_lists[scan.group])
      /\ line' = [line EXCEPT ![l] = m] /\ gc_target' = gc_target - 1 /\ r_list' = Append(r_list, l)
      /\ UNCHANGED <<map, ring, data_line, thr, prep, reads, w_list>>
  BY DEF GcTakeVictim, Victims, mapvars
<1>2. line[l].list \in GcLists
  BY <1>1 DEF OnList, ScanInv, gc_lists, GcLists
<1>3. /\ line[l].state = "CLOSED" /\ DOMAIN line = Lines /\ line[l].ref = 1 + Users(l)
      /\ l # prep.line /\ ReadsOf(l) = {} /\ n \in Nat /\ \A i \in 1 .. n : r_list[i] # l
      /\ LineRec(m) /\ m.state = "GC" /\ m.ref = line[l].ref
  BY <1>2, ChosenLine
<1> HIDE DEF m
<1>4. /\ Len(r_list') = n + 1 /\ r_list'[n + 1] = l /\ \A i \in 1 .. n : r_list'[i] = r_list[i]
      /\ DOMAIN r_list' = 1 .. n + 1 /\ DOMAIN r_list = 1 .. n
      /\ \A i \in 1 .. n : r_list[i] \in Lines
  BY <1>1 DEF QueueInv
<1> HIDE DEF n
<1>5. \A k : Users(k)' = Users(k) /\ ReadsOf(k)' = ReadsOf(k)
  BY <1>1, SameUsers
<1>6. LinesInv' /\ line'[l] = m /\ \A k \in Lines \ {l} : line'[k] = line[k]
  <2>1. line'[l] = m /\ \A k \in Lines \ {l} : line'[k] = line[k]
    BY <1>1, <1>3
  <2>2. OwnRef(l)' = 1
    <3>1. n + 1 \in DOMAIN r_list' /\ r_list'[n + 1] = l
      BY <1>3, <1>4
    <3> QED BY Zenon, <3>1 DEF OwnRef
  <2>3. m.ref = OwnRef(l)' + Users(l)'
    BY Zenon, <1>3, <1>5, <2>2
  <2>4. ASSUME NEW k \in Lines \ {l} PROVE OwnRef(k)' = OwnRef(k)
    <3>1. (\E i \in DOMAIN r_list' : r_list'[i] = k) <=> \E i \in DOMAIN r_list : r_list[i] = k
      BY <1>3, <1>4
    <3> QED BY Zenon, <1>1, <2>1, <3>1 DEF OwnRef
  <2> QED BY <1>1, <1>3, <1>5, <2>3, <2>4, LineChanged, Zenon
<1>7. GcInv'
  <2>1. \A i, j \in 1 .. n + 1 : i # j => r_list'[i] # r_list'[j]
    <3>1. n \in Nat /\ \A i, j \in 1 .. n : i # j => r_list[i] # r_list[j]
      BY <1>3, Zenon DEF GcInv, n
    <3> QED BY <1>3, <1>4, <3>1, AppendNew
  <2>2. \A i \in 1 .. n + 1 :
          line'[r_list'[i]].state = "GC" /\ r_list'[i] # prep.line /\ (ReadsOf(r_list[i]) = {})'
    <3>1. \A i \in 1 .. n :
            line[r_list[i]].state = "GC" /\ r_list[i] # prep.line /\ ReadsOf(r_list[i]) = {}
      BY DEF GcInv, n
    <3>2. ASSUME NEW i \in 1 .. n + 1
          PROVE  line'[r_list'[i]].state = "GC" /\ r_list'[i] # prep.line /\ (ReadsOf(r_list[i]) = {})'
      <4>1. i \in 1 .. n \/ i = n + 1
        BY Zenon, <1>3, <3>2, UpToNext
      <4>2. CASE i = n + 1
        <5>1. r_list'[i] = l
          BY Zenon, <1>4, <4>2
        <5> QED BY Zenon, <1>3, <1>5, <1>6, <5>1
      <4>3. CASE i \in 1 .. n
        <5>1. r_list'[i] = r_list[i] /\ r_list[i] \in Lines \ {l}
          BY Zenon, <1>3, <1>4, <4>3
        <5>2. line'[r_list[i]] = line[r_list[i]]
          BY Zenon, <1>6, <5>1
        <5> QED BY Zenon, <1>5, <3>1, <4>3, <5>1, <5>2
      <4> QED BY Zenon, <4>1, <4>2, <4>3
    <3> QED BY Zenon, <3>2
  <2>3. \A k \in Lines : line[k].state = "GC" => line'[k].state = "GC"
    BY <1>3, <1>6
  <2>4. prep.line # None => prep.line \in Lines
    BY Zenon DEF QueueInv
  <2>5. WritesInv'
    BY Zenon, <1>1, SameWrites DEF GcInv
  <2> QED BY <1>1, <1>4, <2>1, <2>2, <2>3, <2>4, <2>5, Zenon DEF GcInv
<1>8. ThrInv' /\ MapInv' /\ RingInv' /\ HeadInv'
  BY <1>1, <1>3, <1>6, Zenon DEF ThrInv, MapInv, RingInv, HeadInv
<1>9. gc_target' = Cardinality(Closed')
  BY <1>1, <1>3, <1>6, ClosedLess, Zenon
<1>10. DataInv'
  BY Zenon, <1>1, <1>3, <1>6, DataKept
<1> QED BY <1>6, <1>7, <1>8, <1>9, <1>10 DEF Life

\* Steps of the preparation, which leave all but the line's reference and its requests.
LEMMA PrepFrom ==
  ASSUME Life, UNCHANGED <<map, ring, data_line, thr, gc_target>>, LinesInv', GcInv',
         \A k \in Lines : /\ line[k].state # "GC" => line'[k] = line[k]
                          /\ line[k].state = "GC" => line'[k].state \in {"GC", "FREE"}
  PROVE  Life'
<1> MapInv /\ RingInv /\ DataInv /\ ThrInv /\ HeadInv /\ gc_target = Cardinality(Closed)
  BY Zenon DEF Life
<1>1. MapInv' /\ RingInv' /\ HeadInv'
  BY DEF MapInv, RingInv, HeadInv
<1>2. DataInv'
  BY DEF DataInv
<1>3. ThrInv' /\ Closed' = Closed
  BY Zenon DEF ThrInv, Closed
<1> QED BY <1>1, <1>2, <1>3 DEF Life

\* A queued line is taken up.
LEMMA PrepareLineLife ==
  ASSUME QueueInv, CacheInv, Life, PrepareLine
  PROVE  Life'
<1> DEFINE n == Len(r_list)
<1> LinesInv /\ GcInv
  BY DEF Life
<1>1. /\ prep = NoPrep /\ r_list # <<>> /\ r_list' = Tail(r_list)
      /\ prep'.line = Head(r_list) /\ UNCHANGED <<map, ring, data_line, thr, line, reads, w_list, gc_target>>
  BY Zenon DEF PrepareLine, mapvars
<1>2. /\ n \in Nat \ {0} /\ Len(r_list') = n - 1 /\ Head(r_list) = r_list[1]
      /\ \A i \in 1 .. n - 1 : r_list'[i] = r_list[i + 1]
      /\ DOMAIN r_list = 1 .. n /\ DOMAIN r_list' = 1 .. n - 1
      /\ \A i \in 1 .. n : r_list[i] \in Lines
  BY <1>1 DEF QueueInv
<1>3. /\ \A i, j \in 1 .. n : i # j => r_list[i] # r_list[j]
      /\ \A i \in 1 .. n : line[r_list[i]].state = "GC" /\ ReadsOf(r_list[i]) = {}
  BY DEF GcInv
<1> HIDE DEF n
<1>4. \A k : Users(k)' = Users(k) /\ ReadsOf(k)' = ReadsOf(k)
  BY <1>1, SameUsers
<1>5. LinesInv'
  <2>1. ASSUME NEW k \in Lines PROVE OwnRef(k)' = OwnRef(k)
    <3>1. (\E i \in DOMAIN r_list : r_list[i] = k)
            <=> (k = prep'.line \/ \E i \in DOMAIN r_list' : r_list'[i] = k)
      <4>1. ASSUME NEW i \in 1 .. n, r_list[i] = k, i # 1
            PROVE  \E j \in 1 .. n - 1 : r_list'[j] = k
        <5>1. i - 1 \in 1 .. n - 1 /\ (i - 1) + 1 = i
          BY <1>2, <4>1
        <5>2. r_list'[i - 1] = k
          BY <1>2, <4>1, <5>1
        <5> QED BY <5>1, <5>2
      <4>2. \A j \in 1 .. n - 1 : j + 1 \in 1 .. n /\ r_list'[j] = r_list[j + 1]
        BY <1>2
      <4>3. 1 \in 1 .. n /\ prep'.line = r_list[1]
        BY <1>1, <1>2
      <4> QED BY <1>2, <4>1, <4>2, <4>3, Zenon
    <3>2. k # prep.line
      BY Zenon, <1>1, GcAssumption DEF NoPrep
    <3> QED BY <1>1, <3>1, <3>2 DEF OwnRef
  <2> QED BY <1>1, <1>4, <2>1 DEF LinesInv
<1>6. GcInv'
  <2>1. \A j \in 1 .. n - 1 : j + 1 \in 1 .. n /\ j + 1 # 1 /\ r_list'[j] = r_list[j + 1]
    BY <1>2
  <2>2. \A i, j \in 1 .. n - 1 : i # j => r_list'[i] # r_list'[j]
    BY <1>2, <1>3
  <2>3. ASSUME NEW i \in 1 .. n - 1
        PROVE  line'[r_list'[i]].state = "GC" /\ r_list'[i] # prep'.line /\ (ReadsOf(r_list[i]) = {})'
    <3>1. i + 1 \in 1 .. n /\ i + 1 # 1 /\ 1 \in 1 .. n /\ r_list'[i] = r_list[i + 1]
      BY <1>2, <2>1
    <3>2. ReadsOf(r_list[i + 1]) = {} /\ line[r_list[i + 1]].state = "GC" /\ r_list[i + 1] # r_list[1]
      BY <1>3, <3>1
    <3>3. (ReadsOf(r_list[i]) = {})'
      BY <1>1, <3>1, <3>2, Zenon DEF ReadsOf
    <3> QED BY <1>1, <1>2, <3>1, <3>2, <3>3, Zenon
  <2>4. prep'.line \in Lines /\ line'[prep'.line].state = "GC" /\ ReadsOf(r_list[1]) = {}
    <3>1. 1 \in 1 .. n
      BY <1>2
    <3> QED BY <1>1, <1>2, <1>3, <3>1
  <2>5. \A q \in reads : q.line # prep'.line
    BY <1>1, <1>2, <2>4 DEF ReadsOf
  <2>6. WritesInv' /\ prep'.line # None
    BY Zenon, <1>1, <2>4, GcAssumption, SameWrites DEF GcInv
  <2>7. /\ \A q \in reads' : q.line \in Lines /\ line'[q.line].state = "GC" /\ q.secs # {}
        /\ IsFiniteSet(reads')
    BY Zenon, <1>1 DEF GcInv
  <2>8. (\A i, j \in 1 .. Len(r_list) : i # j => r_list[i] # r_list[j])'
    BY Zenon, <1>2, <2>2
  <2>9. (\A i \in 1 .. Len(r_list) :
           line[r_list[i]].state = "GC" /\ r_list[i] # prep.line /\ ReadsOf(r_list[i]) = {})'
    BY Zenon, <1>2, <2>3
  <2>10. (\A q \in reads : q.line # prep.line)'
    BY Zenon, <1>1, <2>5
  <2> QED BY Zenon, <2>4, <2>6, <2>7, <2>8, <2>9, <2>10 DEF GcInv
<1> QED BY <1>1, <1>5, <1>6, PrepFrom DEF LinesInv, LineRec

\* A request is made, for sectors that no other request has.
LEMMA PrepareRqLife ==
  ASSUME CountFacts, QueueInv, CacheInv, Life, PrepareRq
  PROVE  Life'
<1> PICK l : l = prep.line
  OBVIOUS
<1> DEFINE secs == {s \in prep.left : Cardinality({t \in prep.left : t < s}) < MaxWrite}
           q == [line |-> l, secs |-> secs]
           m == KrefGet(line[l])
<1> LinesInv /\ GcInv /\ WritesInv /\ IsFiniteSet(reads)
  BY Zenon DEF Life, GcInv
<1>1. /\ prep.left # {} /\ reads' = reads \cup {q} /\ prep' = [prep EXCEPT !.left = @ \ secs]
      /\ line' = [line EXCEPT ![l] = m]
      /\ UNCHANGED <<map, ring, data_line, thr, r_list, w_list, gc_target>>
  BY DEF PrepareRq, mapvars
<1>2. l # None /\ l \in Lines /\ prep.left \subseteq Secs /\ DOMAIN prep = {"line", "left"}
  BY <1>1 DEF GcInv, QueueInv
<1>3. secs # {} /\ secs \subseteq prep.left
  <2>1. prep.left \in SUBSET Nat
    BY <1>2 DEF Secs
  <2>2. PICK s \in prep.left : \A t \in prep.left : s <= t
    BY <1>1, <2>1 DEF CountFacts, LeastNat
  <2>3. {t \in prep.left : t < s} = {}
    BY <2>1, <2>2
  <2>4. Cardinality({t \in prep.left : t < s}) = 0 /\ MaxWrite \in Nat \ {0}
    BY <2>3, GcAssumption DEF CountFacts, FinEmpty, FinNone
  <2>5. s \in secs
    BY <2>4
  <2> QED BY <2>5, Zenon
<1> HIDE DEF secs
<1>4. q.line = l /\ q.secs = secs /\ q \notin reads
  <2>1. q.line = l /\ q.secs = secs
    OBVIOUS
  <2>2. q \in reads => q.secs \cap prep.left = {}
    BY Zenon, <2>1 DEF GcInv
  <2> QED BY <1>3, <2>1, <2>2
<1> HIDE DEF q
<1>5. /\ LineRec(line[l]) /\ line[l].ref = OwnRef(l) + Users(l) /\ DOMAIN line = Lines
      /\ line[l].state = "GC" /\ OwnRef(l) = 1
  BY <1>2 DEF LinesInv, GcInv, OwnRef
<1>6. LineRec(m) /\ m.state = "GC" /\ m.ref = line[l].ref + 1
  BY <1>5 DEF KrefGet, LineRec, Fields
<1> HIDE DEF m
<1>7. prep'.line = l /\ prep'.left = prep.left \ secs
  BY <1>1, <1>2
<1>8. \A k : ReadsOf(k)' = IF k = l THEN ReadsOf(k) \cup {q} ELSE ReadsOf(k)
  BY <1>1, <1>4 DEF ReadsOf
<1>9. ASSUME NEW k \in Lines
      PROVE  Users(k)' = Users(k) + (IF k = l THEN 1 ELSE 0) /\ Users(k) \in Nat
  <2>1. Counted(k)
    BY Countable DEF CountInv
  <2>2. /\ WritesOf(k)' = WritesOf(k)
        /\ MappedTo("user", k)' = MappedTo("user", k) /\ MappedTo("gc", k)' = MappedTo("gc", k)
    BY <1>1 DEF WritesOf, MappedTo
  <2>3. q \notin ReadsOf(k)
    BY <1>4 DEF ReadsOf
  <2>4. /\ Cardinality(MappedTo("user", k)) \in Nat /\ Cardinality(MappedTo("gc", k)) \in Nat
        /\ Cardinality(ReadsOf(k)) \in Nat /\ Cardinality(WritesOf(k)) \in Nat
        /\ IsFiniteSet(ReadsOf(k))
    BY <2>1 DEF Counted, Rings
  <2>5. Cardinality(ReadsOf(k)') = Cardinality(ReadsOf(k)) + (IF k = l THEN 1 ELSE 0)
    BY <1>8, <2>3, <2>4 DEF CountFacts, FinAdd
  <2> QED BY <2>2, <2>4, <2>5 DEF Users
<1>10. LinesInv' /\ line'[l] = m /\ \A k \in Lines \ {l} : line'[k] = line[k]
  <2>1. line'[l] = m /\ \A k \in Lines \ {l} : line'[k] = line[k]
    BY <1>1, <1>2, <1>5
  <2>2. \A k \in Lines : OwnRef(k)' = OwnRef(k)
    BY <1>1, <1>5, <1>6, <1>7, <2>1 DEF OwnRef
  <2>3. m.ref = OwnRef(l)' + Users(l)'
    BY <1>2, <1>5, <1>6, <1>9, <2>2
  <2>4. \A k \in Lines \ {l} : Users(k)' = Users(k)
    BY <1>9
  <2> QED BY <1>1, <1>2, <1>6, <2>2, <2>3, <2>4, LineChanged, Zenon
<1>11. GcInv'
  <2>1. Len(r_list) \in Nat /\ \A i \in 1 .. Len(r_list) : r_list[i] \in Lines
    BY DEF QueueInv
  <2>2. /\ \A i, j \in 1 .. Len(r_list) : i # j => r_list[i] # r_list[j]
        /\ \A i \in 1 .. Len(r_list) : line[r_list[i]].state = "GC" /\ r_list[i] # l /\ ReadsOf(r_list[i]) = {}
    BY Zenon DEF GcInv
  <2>3. ASSUME NEW i \in 1 .. Len(r_list)
        PROVE  line'[r_list'[i]].state = "GC" /\ r_list'[i] # prep'.line /\ (ReadsOf(r_list[i]) = {})'
    <3> PICK k : k = r_list[i]
      OBVIOUS
    <3>1. k \in Lines \ {l} /\ line[k].state = "GC" /\ ReadsOf(k) = {}
      BY <2>1, <2>2, Zenon
    <3>2. ReadsOf(k)' = {} /\ line'[k] = line[k] /\ r_list'[i] = k
      BY <1>1, <1>8, <1>10, <3>1
    <3> QED BY <1>7, <3>1, <3>2
  <2>4. IsFiniteSet(reads') /\ WritesInv'
    BY <1>1 DEF CountFacts, FinAdd, WritesInv
  <2>5. ASSUME NEW o \in reads'
        PROVE  /\ o.line \in Lines /\ line'[o.line].state = "GC" /\ o.secs # {}
               /\ o.line = l => o.secs \cap prep'.left = {}
    <3>1. CASE o = q
      BY Zenon, <1>2, <1>3, <1>4, <1>6, <1>7, <1>10, <3>1
    <3>2. CASE o \in reads
      <4>1. /\ o.line \in Lines /\ line[o.line].state = "GC" /\ o.secs # {}
            /\ o.line = l => o.secs \cap prep.left = {}
        BY Zenon, <3>2 DEF GcInv
      <4> QED BY Zenon, <1>6, <1>7, <1>10, <4>1
    <3> QED BY Zenon, <1>1, <2>5, <3>1, <3>2
  <2>6. line'[prep'.line].state = "GC" /\ prep'.line # None
    BY Zenon, <1>2, <1>6, <1>7, <1>10
  <2> QED BY <1>1, <1>7, <2>2, <2>3, <2>4, <2>5, <2>6 DEF GcInv
<1>12. \A k \in Lines : /\ line[k].state # "GC" => line'[k] = line[k]
                        /\ line[k].state = "GC" => line'[k].state \in {"GC", "FREE"}
  BY <1>5, <1>6, <1>10
<1> QED BY <1>1, <1>10, <1>11, <1>12, PrepFrom

\* The line's own reference goes when all its requests have been made.
LEMMA PrepareEndLife ==
  ASSUME CountFacts, QueueInv, CacheInv, Life, PrepareEnd
  PROVE  Life'
<1> PICK l : l = prep.line
  OBVIOUS
<1> DEFINE m == KrefPut(line[l])
<1> LinesInv /\ GcInv /\ WritesInv /\ IsFiniteSet(reads)
  BY Zenon DEF Life, GcInv
<1>1. /\ l # None /\ prep' = NoPrep /\ line' = [line EXCEPT ![l] = m]
      /\ UNCHANGED <<map, ring, data_line, thr, r_list, reads, w_list, gc_target>>
  BY DEF PrepareEnd, mapvars
<1>2. l \in Lines
  BY Zenon, <1>1 DEF QueueInv
<1>3. /\ LineRec(line[l]) /\ line[l].ref = OwnRef(l) + Users(l) /\ DOMAIN line = Lines
      /\ line[l].state = "GC" /\ OwnRef(l) = 1
  BY <1>1, <1>2 DEF LinesInv, GcInv, OwnRef
<1>4. Users(l) \in Nat /\ (Users(l) = 0 => ReadsOf(l) = {})
  BY <1>2, Countable DEF CountInv, Counted
<1>5. /\ LineRec(m) /\ m.state \in {"GC", "FREE"} /\ m.ref = Users(l)
      /\ m.state = "FREE" => m.ref = 0 /\ ReadsOf(l) = {}
  <2>1. CASE line[l].ref = 1
    <3>1. m = FreeLine /\ Users(l) = 0
      BY <1>3, <1>4, <2>1, PutRec
    <3> QED BY Zenon, <1>4, <3>1, FreeRec
  <2>2. CASE line[l].ref # 1
    <3>1. LineRec(m) /\ m.state = "GC" /\ m.ref = line[l].ref - 1
      BY <1>3, <2>2, PutRec
    <3> QED BY <1>3, <1>4, <3>1
  <2> QED BY <2>1, <2>2, Zenon
<1> HIDE DEF m
<1>6. \A k : Users(k)' = Users(k) /\ ReadsOf(k)' = ReadsOf(k)
  BY <1>1, SameUsers
<1>7. prep'.line = None /\ prep'.left = {}
  BY <1>1 DEF NoPrep
<1>8. /\ Len(r_list) \in Nat /\ DOMAIN r_list = 1 .. Len(r_list)
      /\ \A i \in 1 .. Len(r_list) : r_list[i] \in Lines
  BY DEF QueueInv
<1>9. /\ \A i, j \in 1 .. Len(r_list) : i # j => r_list[i] # r_list[j]
      /\ \A i \in 1 .. Len(r_list) : line[r_list[i]].state = "GC" /\ r_list[i] # l /\ ReadsOf(r_list[i]) = {}
  BY Zenon DEF GcInv
<1>10. LinesInv' /\ line'[l] = m /\ \A k \in Lines \ {l} : line'[k] = line[k]
  <2>1. line'[l] = m /\ \A k \in Lines \ {l} : line'[k] = line[k]
    BY Zenon, <1>1, <1>2, <1>3
  <2>2. OwnRef(l)' = 0
    BY Zenon, <1>1, <1>5, <1>7, <1>8, <1>9, <2>1 DEF OwnRef
  <2>3. \A k \in Lines \ {l} : OwnRef(k)' = OwnRef(k)
    BY <1>1, <1>7, <2>1, GcAssumption DEF OwnRef
  <2>4. m.ref = OwnRef(l)' + Users(l)'
    BY <1>4, <1>5, <1>6, <2>2
  <2> QED BY <1>1, <1>2, <1>5, <1>6, <2>3, <2>4, LineChanged, Zenon
<1>11. GcInv'
  <2>1. ASSUME NEW i \in 1 .. Len(r_list)
        PROVE  line'[r_list'[i]].state = "GC" /\ r_list'[i] # prep'.line /\ (ReadsOf(r_list[i]) = {})'
    <3> PICK k : k = r_list[i]
      OBVIOUS
    <3>1. k \in Lines \ {l} /\ k # None /\ line[k].state = "GC" /\ ReadsOf(k) = {}
      BY Zenon, <1>8, <1>9, GcAssumption
    <3>2. ReadsOf(k)' = {} /\ line'[k] = line[k] /\ r_list'[i] = k
      BY Zenon, <1>1, <1>6, <1>10, <3>1
    <3> QED BY <1>7, <3>1, <3>2, Zenon
  <2>2. ASSUME NEW o \in reads
        PROVE  o.line \in Lines /\ line'[o.line].state = "GC" /\ o.secs # {} /\ o.line # None
    <3>1. o.line \in Lines /\ line[o.line].state = "GC" /\ o.secs # {}
      BY DEF GcInv
    <3>2. o \in ReadsOf(o.line)
      BY DEF ReadsOf
    <3>3. CASE o.line = l
      BY Zenon, <1>5, <1>10, <3>1, <3>2, <3>3, GcAssumption
    <3>4. CASE o.line # l
      BY <1>10, <3>1, <3>4, GcAssumption
    <3> QED BY <3>3, <3>4
  <2>3. WritesInv'
    BY Zenon, <1>1, SameWrites
  <2> QED BY <1>1, <1>7, <1>9, <2>1, <2>2, <2>3, Zenon DEF GcInv
<1>12. \A k \in Lines : /\ line[k].state # "GC" => line'[k] = line[k]
                        /\ line[k].state = "GC" => line'[k].state \in {"GC", "FREE"}
  BY <1>3, <1>5, <1>10
<1> QED BY Zenon, <1>1, <1>10, <1>11, <1>12, PrepFrom
===============================================================================
