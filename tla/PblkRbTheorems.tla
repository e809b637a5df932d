---------------------------- MODULE PblkRbTheorems ----------------------------
(* The counters of PblkRb are exact, and with that its safety properties hold   *)
(* for every ring size, every set of threads and every request size.            *)
EXTENDS PblkRbWriter, FiniteSetTheorems

-------------------------------------------------------------------------------
(* Counting slots: pairs of a thread and an index below its chunk size.         *)

\* The slots i, a <= i < b, of thread t.
Slots(t, a, b) == {t} \X (a .. b - 1)

\* The entries of the ring can be counted.
LEMMA PosCountable == Countable
<1>1. IsFiniteSet(Pos)
  BY NrEntriesAssumption, FS_Interval DEF Pos
<1> QED BY <1>1, FS_Subset, FS_CardinalityType DEF Countable

\* How many entries of a set carry a type is a number.
LEMMA OfTypeCount ==
  ASSUME NEW ps \in SUBSET Pos, NEW type
  PROVE  Cardinality(OfType(ps, type)) \in Int
BY PosCountable DEF Countable, OfType

\* There are as many slots as the bounds say.
LEMMA SlotCount ==
  ASSUME NEW t, NEW b \in Nat
  PROVE  IsFiniteSet(Slots(t, 0, b)) /\ Cardinality(Slots(t, 0, b)) = b
<1>1. IsFiniteSet({t}) /\ Cardinality({t}) = 1
  BY FS_Singleton
<1>2. IsFiniteSet(0 .. b - 1) /\ Cardinality(0 .. b - 1) = b
  BY FS_Interval
<1>3. /\ IsFiniteSet({t} \X (0 .. b - 1))
      /\ Cardinality({t} \X (0 .. b - 1)) = Cardinality({t}) * Cardinality(0 .. b - 1)
  <2>1. IsFiniteSet({t}) /\ IsFiniteSet(0 .. b - 1)
    BY <1>1, <1>2
  <2> QED BY <2>1, FS_Product, Zenon
<1>4. 1 * b = b
  OBVIOUS
<1> QED BY <1>1, <1>2, <1>3, <1>4 DEF Slots

\* The slots of a thread as a part of all slots.
LEMMA SlotsFilter ==
  ASSUME NEW ts, NEW t \in ts, NEW b \in 0 .. NrEntries
  PROVE  Slots(t, 0, b) = {s \in ts \X Pos : s[1] = t /\ s[2] < b}
<1>1. 0 .. b - 1 = {i \in Pos : i < b}
  BY NrEntriesAssumption DEF Pos
<1>2. ASSUME NEW s \in {t} \X {i \in Pos : i < b}
      PROVE  s \in {x \in ts \X Pos : x[1] = t /\ x[2] < b}
  OBVIOUS
<1>3. ASSUME NEW s \in {x \in ts \X Pos : x[1] = t /\ x[2] < b}
      PROVE  s \in {t} \X {i \in Pos : i < b}
  OBVIOUS
<1> QED BY <1>1, <1>2, <1>3 DEF Slots

\* The sets that are counted are finite.
LEMMA SlotsFinite ==
  /\ IsFiniteSet(Copying) /\ IsFiniteSet(Unfilled(Users)) /\ IsFiniteSet(Unfilled(GcWriters))
  /\ \A type : IsFiniteSet(OfType(Pos, type))
<1>1. IsFiniteSet(Pos)
  BY NrEntriesAssumption, FS_Interval DEF Pos
<1>2. IsFiniteSet(Users \X Pos) /\ IsFiniteSet(GcWriters \X Pos)
  BY <1>1, RbAssumption, FS_Product
<1>3. /\ Copying \subseteq Users \X Pos /\ Unfilled(Users) \subseteq Users \X Pos
      /\ Unfilled(GcWriters) \subseteq GcWriters \X Pos
      /\ \A type : OfType(Pos, type) \subseteq Pos
  BY DEF Copying, Unfilled, OfType
<1> QED BY <1>1, <1>2, <1>3, FS_Subset

LEMMA OfTypeCountNext == \A type : Cardinality(OfType(Pos, type)') \in Nat
<1>1. IsFiniteSet(Pos)
  BY NrEntriesAssumption, FS_Interval DEF Pos
<1>2. \A type : OfType(Pos, type)' \subseteq Pos
  BY DEF OfType
<1> QED BY <1>1, <1>2, FS_Subset, FS_CardinalityType

\* Adding to a finite set a disjoint one, or taking a part of it away.
LEMMA CountAdd ==
  ASSUME NEW S, NEW T, IsFiniteSet(S), IsFiniteSet(T), S \cap T = {}
  PROVE  Cardinality(S \cup T) = Cardinality(S) + Cardinality(T)
<1>1. Cardinality(S) \in Nat /\ Cardinality(T) \in Nat
  BY FS_CardinalityType
<1>2. Cardinality(S \cup T) = Cardinality(S) + Cardinality(T) - Cardinality(S \cap T)
  BY FS_Union
<1>3. Cardinality(S \cap T) = 0
  BY FS_EmptySet
<1> QED BY <1>1, <1>2, <1>3

LEMMA CountRemove ==
  ASSUME NEW S, NEW T, IsFiniteSet(S), T \subseteq S
  PROVE  Cardinality(S \ T) = Cardinality(S) - Cardinality(T)
<1>1. S \cap T = T
  OBVIOUS
<1> QED BY <1>1, FS_Difference, Zenon

-------------------------------------------------------------------------------
(* How each step moves the counted sets.                                        *)

\* Steps that move no thread and change no I/O type.
LEMMA CountersFrame ==
  ASSUME CountersExact, UNCHANGED <<pc, nr, idx, nr_user, rb_user_cnt, rb_gc_cnt>>,
         \A type \in {"USER", "GC"} : OfType(Pos, type)' = OfType(Pos, type)
  PROVE  CountersExact'
<1>1. /\ Copying' = Copying /\ Unfilled(Users)' = Unfilled(Users)
      /\ Unfilled(GcWriters)' = Unfilled(GcWriters)
  BY DEF Copying, Unfilled
<1> QED BY <1>1 DEF CountersExact

\* Control steps of a thread.
LEMMA ControlCounts ==
  ASSUME IndInv, CountersExact, NEW t \in Threads,
         \/ Begin(t) \/ MayWriteUserErr(t) \/ Inserted(t) \/ GcKick(t)
  PROVE  CountersExact'
<1>2. UNCHANGED <<flags, nr_user, rb_user_cnt, rb_gc_cnt>>
  BY DEF Begin, MayWriteUserErr, Inserted, GcKick, entries, limits
<1>3. ThreadType
  BY DEF IndInv, TypeOK
<1>4. Copying' = Copying
  BY <1>3 DEF Copying, Begin, MayWriteUserErr, Inserted, GcKick, Leave, ThreadType, Pos, Threads
<1>5. \A ts \in {Users, GcWriters} : Unfilled(ts)' = Unfilled(ts)
  BY <1>3 DEF Unfilled, Begin, MayWriteUserErr, Inserted, GcKick, Leave, ThreadType, Pos, Threads
<1>6. \A type : OfType(Pos, type)' = OfType(Pos, type)
  BY <1>2 DEF OfType
<1> QED BY <1>2, <1>4, <1>5, <1>6 DEF CountersExact

\* A user thread accounts for its chunk: every entry of it is yet to be filled.
LEMMA UserInCounts ==
  ASSUME IndInv, CountersExact, NEW t \in Threads, UserIn(t)
  PROVE  CountersExact'
<1> /\ pc[t] = "user_in" /\ t \in Users /\ idx[t] = 0 /\ t \notin GcWriters
      /\ nr[t] \in 0 .. NrEntries - 1 /\ ThreadType
  BY RbAssumption DEF UserIn, IndInv, ThreadInv, TypeOK, ThreadType
<1>2. /\ pc' = [pc EXCEPT ![t] = IF nr[t] = 0 THEN "release" ELSE "copy"]
      /\ rb_user_cnt' = rb_user_cnt + nr[t]
      /\ UNCHANGED <<flags, nr_user, rb_gc_cnt, nr, idx>>
  BY DEF UserIn, entries
<1>3. Copying' = Copying /\ Unfilled(GcWriters)' = Unfilled(GcWriters)
  BY <1>2 DEF Copying, Unfilled, ThreadType, Threads
<1>4. Unfilled(Users)' = Unfilled(Users) \cup Slots(t, 0, nr[t])
  <2>1. nr[t] \in 0 .. NrEntries
    BY NrEntriesAssumption
  <2>2. Slots(t, 0, nr[t]) = {s \in Users \X Pos : s[1] = t /\ s[2] < nr[t]}
    BY <2>1, SlotsFilter
  <2>3. \A s \in Users \X Pos :
          (pc'[s[1]] = "copy" /\ idx'[s[1]] <= s[2] /\ s[2] < nr'[s[1]])
            <=> \/ pc[s[1]] = "copy" /\ idx[s[1]] <= s[2] /\ s[2] < nr[s[1]]
                \/ s[1] = t /\ s[2] < nr[t]
    BY <1>2 DEF ThreadType, Threads, Pos
  <2> QED BY <2>2, <2>3 DEF Unfilled
<1>5. Unfilled(Users) \cap Slots(t, 0, nr[t]) = {}
  BY DEF Unfilled, Slots
<1>6. nr[t] \in Nat
  OBVIOUS
<1>7. Cardinality(Unfilled(Users)') = Cardinality(Unfilled(Users)) + nr[t]
  BY <1>4, <1>5, <1>6, SlotsFinite, SlotCount, CountAdd
<1>8. \A type : OfType(Pos, type)' = OfType(Pos, type)
  BY <1>2 DEF OfType
<1>9. /\ Cardinality(Unfilled(Users)) \in Nat /\ Cardinality(OfType(Pos, "USER")) \in Nat
  BY SlotsFinite, FS_CardinalityType
<1> QED BY <1>2, <1>3, <1>6, <1>7, <1>8, <1>9 DEF CountersExact

\* A chunk that is released no longer counts in nr_user.
LEMMA ReleaseCounts ==
  ASSUME IndInv, CountersExact, NEW t \in Threads, Release(t)
  PROVE  CountersExact'
<1> /\ pc[t] = "release" /\ t \in Users /\ t \notin GcWriters
      /\ nr[t] \in 0 .. NrEntries - 1 /\ ThreadType
  BY RbAssumption DEF Release, IndInv, ThreadInv, TypeOK, ThreadType
<1>2. /\ pc' = [pc EXCEPT ![t] = "idle"] /\ nr' = [nr EXCEPT ![t] = 0]
      /\ idx' = [idx EXCEPT ![t] = 0] /\ nr_user' = nr_user - nr[t]
      /\ UNCHANGED <<flags, rb_user_cnt, rb_gc_cnt>>
  BY DEF Release, Leave, entries, limits
<1>3. Unfilled(Users)' = Unfilled(Users) /\ Unfilled(GcWriters)' = Unfilled(GcWriters)
  BY <1>2 DEF Unfilled, ThreadType, Threads
<1>4. Copying' = Copying \ Slots(t, 0, nr[t]) /\ Slots(t, 0, nr[t]) \subseteq Copying
  <2>1. nr[t] \in 0 .. NrEntries
    BY NrEntriesAssumption
  <2>2. Slots(t, 0, nr[t]) = {s \in Users \X Pos : s[1] = t /\ s[2] < nr[t]}
    BY <2>1, SlotsFilter
  <2>3. \A s \in Users \X Pos :
          (pc'[s[1]] \in {"user_in", "copy", "inserted", "release"} /\ s[2] < nr'[s[1]])
            <=> /\ pc[s[1]] \in {"user_in", "copy", "inserted", "release"} /\ s[2] < nr[s[1]]
                /\ ~(s[1] = t /\ s[2] < nr[t])
    BY <1>2 DEF ThreadType, Threads, Pos
  <2>4. \A s \in Users \X Pos : s[1] = t /\ s[2] < nr[t]
          => pc[s[1]] \in {"user_in", "copy", "inserted", "release"} /\ s[2] < nr[s[1]]
    OBVIOUS
  <2> QED BY <2>2, <2>3, <2>4 DEF Copying
<1>5. nr[t] \in Nat
  OBVIOUS
<1>6. Cardinality(Copying') = Cardinality(Copying) - nr[t]
  BY <1>4, <1>5, SlotsFinite, SlotCount, CountRemove
<1>7. \A type : OfType(Pos, type)' = OfType(Pos, type)
  BY <1>2 DEF OfType
<1> QED BY <1>2, <1>3, <1>6, <1>7 DEF CountersExact

\* An L2P update takes off the counters what leaves the ring.
LEMMA UpdateL2pCounts ==
  ASSUME IndInv, CountersExact, NEW k, NEW gcIn \in Int, UpdateL2p(k, gcIn)
  PROVE  /\ rb_user_cnt' = Cardinality(OfType(Pos, "USER")') + Cardinality(Unfilled(Users))
         /\ rb_gc_cnt' = Cardinality(OfType(Pos, "GC")') + Cardinality(Unfilled(GcWriters)) + gcIn
<1> DEFINE done == Window(l2p_update, k)
<1>1. /\ flags' = [p \in Pos |-> IF p \in done THEN {"WRITABLE"} ELSE flags[p]]
      /\ rb_user_cnt' = rb_user_cnt - Cardinality(OfType(done, "USER"))
      /\ rb_gc_cnt' = rb_gc_cnt - Cardinality(OfType(done, "GC")) + gcIn
  BY DEF UpdateL2p
<1>2. done \subseteq Pos
  BY DEF Window
<1> HIDE DEF done
<1>3. \A type \in {"USER", "GC"} : /\ OfType(Pos, type)' = OfType(Pos, type) \ OfType(done, type)
                                   /\ OfType(done, type) \subseteq OfType(Pos, type)
  BY <1>1, <1>2 DEF OfType
<1>4. \A type \in {"USER", "GC"} :
        /\ Cardinality(OfType(Pos, type)') = Cardinality(OfType(Pos, type)) - Cardinality(OfType(done, type))
        /\ Cardinality(OfType(Pos, type)) \in Int
        /\ Cardinality(OfType(done, type)) \in Int
  BY <1>2, <1>3, SlotsFinite, CountRemove, OfTypeCount
<1>5. Cardinality(Unfilled(Users)) \in Nat /\ Cardinality(Unfilled(GcWriters)) \in Nat
  BY SlotsFinite, FS_CardinalityType
<1> QED BY <1>1, <1>4, <1>5 DEF CountersExact

\* A user claim: its entries count in nr_user at once, in rb_user_cnt not yet.
LEMMA MayWriteUserCounts ==
  ASSUME IndInv, CountersExact, NEW t \in Threads, MayWriteUser(t)
  PROVE  CountersExact'
<1> /\ pc[t] = "may_write" /\ t \in Users /\ t \notin GcWriters
      /\ nr[t] \in 0 .. NrEntries - 1 /\ ThreadType
  BY RbAssumption DEF MayWriteUser, IndInv, TypeOK, ThreadType
<1>2. /\ pc' = [pc EXCEPT ![t] = "user_in"] /\ nr_user' = nr_user + nr[t]
      /\ UNCHANGED <<nr, idx>> /\ UpdateL2p(L2pCount(nr[t]), 0)
  BY DEF MayWriteUser, Claim
<1>3. Unfilled(Users)' = Unfilled(Users) /\ Unfilled(GcWriters)' = Unfilled(GcWriters)
  BY <1>2 DEF Unfilled, ThreadType, Threads
<1>4. Copying' = Copying \cup Slots(t, 0, nr[t]) /\ Copying \cap Slots(t, 0, nr[t]) = {}
  <2>1. nr[t] \in 0 .. NrEntries
    BY NrEntriesAssumption
  <2>2. Slots(t, 0, nr[t]) = {s \in Users \X Pos : s[1] = t /\ s[2] < nr[t]}
    BY <2>1, SlotsFilter
  <2>3. \A s \in Users \X Pos :
          (pc'[s[1]] \in {"user_in", "copy", "inserted", "release"} /\ s[2] < nr'[s[1]])
            <=> \/ pc[s[1]] \in {"user_in", "copy", "inserted", "release"} /\ s[2] < nr[s[1]]
                \/ s[1] = t /\ s[2] < nr[t]
    BY <1>2 DEF ThreadType, Threads, Pos
  <2>4. \A s \in Users \X Pos : s[1] = t
          => pc[s[1]] \notin {"user_in", "copy", "inserted", "release"}
    OBVIOUS
  <2> QED BY <2>2, <2>3, <2>4 DEF Copying
<1>5. nr[t] \in Nat
  OBVIOUS
<1>6. Cardinality(Copying') = Cardinality(Copying) + nr[t]
  BY <1>4, <1>5, SlotsFinite, SlotCount, CountAdd
<1>7. /\ rb_user_cnt' = Cardinality(OfType(Pos, "USER")') + Cardinality(Unfilled(Users))
      /\ rb_gc_cnt' = Cardinality(OfType(Pos, "GC")') + Cardinality(Unfilled(GcWriters)) + 0
  BY <1>2, UpdateL2pCounts
<1>8. Cardinality(OfType(Pos, "GC")') \in Int /\ Cardinality(Unfilled(GcWriters)) \in Int
  BY SlotsFinite, FS_CardinalityType, OfTypeCountNext
<1> QED BY <1>2, <1>3, <1>6, <1>7, <1>8 DEF CountersExact

\* A GC claim counts its entries in the same critical section.
LEMMA MayWriteGcCounts ==
  ASSUME IndInv, CountersExact, NEW t \in Threads, MayWriteGc(t)
  PROVE  CountersExact'
<1> /\ pc[t] = "may_write" /\ t \in GcWriters /\ t \notin Users /\ idx[t] = 0
      /\ nr[t] \in 0 .. NrEntries - 1 /\ ThreadType
  BY RbAssumption DEF MayWriteGc, IndInv, ThreadInv, TypeOK, ThreadType
<1>2. /\ pc' = [pc EXCEPT ![t] = IF nr[t] = 0 THEN "kick" ELSE "copy"]
      /\ UNCHANGED <<nr, idx, nr_user>> /\ UpdateL2p(L2pCount(nr[t]), nr[t])
  BY DEF MayWriteGc, Claim
<1>3. Unfilled(Users)' = Unfilled(Users) /\ Copying' = Copying
  BY <1>2 DEF Unfilled, Copying, ThreadType, Threads
<1>4. /\ Unfilled(GcWriters)' = Unfilled(GcWriters) \cup Slots(t, 0, nr[t])
      /\ Unfilled(GcWriters) \cap Slots(t, 0, nr[t]) = {}
  <2>1. nr[t] \in 0 .. NrEntries
    BY NrEntriesAssumption
  <2>2. Slots(t, 0, nr[t]) = {s \in GcWriters \X Pos : s[1] = t /\ s[2] < nr[t]}
    BY <2>1, SlotsFilter
  <2>3. \A s \in GcWriters \X Pos :
          (pc'[s[1]] = "copy" /\ idx'[s[1]] <= s[2] /\ s[2] < nr'[s[1]])
            <=> \/ pc[s[1]] = "copy" /\ idx[s[1]] <= s[2] /\ s[2] < nr[s[1]]
                \/ s[1] = t /\ s[2] < nr[t]
    BY <1>2 DEF ThreadType, Threads, Pos
  <2>4. \A s \in GcWriters \X Pos : s[1] = t => pc[s[1]] # "copy"
    OBVIOUS
  <2> QED BY <2>2, <2>3, <2>4 DEF Unfilled
<1> nr[t] \in Nat /\ nr[t] \in Int
  OBVIOUS
<1>6. Cardinality(Unfilled(GcWriters)') = Cardinality(Unfilled(GcWriters)) + nr[t]
  BY <1>4, SlotsFinite, SlotCount, CountAdd
<1>7. /\ rb_user_cnt' = Cardinality(OfType(Pos, "USER")') + Cardinality(Unfilled(Users))
      /\ rb_gc_cnt' = Cardinality(OfType(Pos, "GC")') + Cardinality(Unfilled(GcWriters)) + nr[t]
  BY <1>2, UpdateL2pCounts
<1>8. Cardinality(OfType(Pos, "GC")') \in Int /\ Cardinality(Unfilled(GcWriters)) \in Int
  BY SlotsFinite, FS_CardinalityType, OfTypeCountNext
<1> QED BY <1>2, <1>3, <1>6, <1>7, <1>8 DEF CountersExact

\* Filling an entry moves it from the unfilled ones to the ones of its type.
LEMMA WriteEntryCounts ==
  ASSUME IndInv, CountersExact, NEW t \in Threads, WriteEntry(t)
  PROVE  CountersExact'
<1> DEFINE a == Wrap(bpos[t] + idx[t])
           i == idx[t]
<1>1. /\ pc[t] = "copy" /\ i < nr[t] /\ i \in Pos /\ i \in Int
      /\ nr[t] \in 0 .. NrEntries - 1 /\ ThreadType
  BY NrEntriesAssumption DEF WriteEntry, IndInv, ThreadInv, TypeOK, ThreadType, Pos
<1>2. /\ pc' = [pc EXCEPT ![t] = IF i + 1 < nr[t] THEN "copy"
                                 ELSE IF t \in Users THEN "inserted" ELSE "kick"]
      /\ idx' = [idx EXCEPT ![t] = i + 1]
      /\ flags' = [flags EXCEPT ![a] = {IoType(t), "WRITTEN"}]
      /\ UNCHANGED <<nr, nr_user, rb_user_cnt, rb_gc_cnt>>
  BY DEF WriteEntry, limits
<1>3. a \in Pos /\ flags[a] = {"WRITABLE"} /\ flags \in [Pos -> SUBSET {"WRITABLE", "USER", "GC", "WRITTEN", "SUBMITTED"}]
  <2>1. a \in Pending(t) /\ a \in Pos
    BY <1>1, NextEntry
  <2> QED BY <2>1 DEF IndInv, ClaimsExclusive, TypeOK, RingType
<1> HIDE DEF a, i
<1>4. Copying' = Copying
  BY <1>1, <1>2 DEF Copying, ThreadType, Threads
<1>5. ASSUME NEW ts \in {Users, GcWriters}, t \in ts
      PROVE  Cardinality(Unfilled(ts)') = Cardinality(Unfilled(ts)) - 1
  <2>1. \A s \in ts \X Pos :
          (pc'[s[1]] = "copy" /\ idx'[s[1]] <= s[2] /\ s[2] < nr'[s[1]])
            <=> /\ pc[s[1]] = "copy" /\ idx[s[1]] <= s[2] /\ s[2] < nr[s[1]]
                /\ ~(s[1] = t /\ s[2] = i)
    BY <1>1, <1>2 DEF ThreadType, Threads, Pos, i
  <2>2. <<t, i>> \in Unfilled(ts)
    BY <1>1, <1>5 DEF Unfilled, i
  <2>3. Unfilled(ts)' = Unfilled(ts) \ {<<t, i>>}
    BY <2>1 DEF Unfilled
  <2>4. Cardinality({<<t, i>>}) = 1 /\ {<<t, i>>} \subseteq Unfilled(ts) /\ IsFiniteSet(Unfilled(ts))
    BY <2>2, FS_Singleton, SlotsFinite
  <2> QED BY <2>3, <2>4, CountRemove
<1>6. ASSUME NEW ts \in {Users, GcWriters}, t \notin ts
      PROVE  Unfilled(ts)' = Unfilled(ts)
  BY <1>1, <1>2, <1>6 DEF Unfilled, ThreadType, Threads
<1>7. ASSUME NEW type \in {"USER", "GC"}
      PROVE  Cardinality(OfType(Pos, type)')
               = Cardinality(OfType(Pos, type)) + (IF type = IoType(t) THEN 1 ELSE 0)
  <2>1. CASE type = IoType(t)
    <3>1. OfType(Pos, type)' = OfType(Pos, type) \cup {a} /\ OfType(Pos, type) \cap {a} = {}
      BY <2>1, <1>2, <1>3 DEF OfType
    <3>2. IsFiniteSet({a}) /\ Cardinality({a}) = 1 /\ IsFiniteSet(OfType(Pos, type))
      BY FS_Singleton, SlotsFinite, Zenon
    <3> QED BY <2>1, <3>1, <3>2, CountAdd
  <2>2. CASE type # IoType(t)
    <3>1. OfType(Pos, type)' = OfType(Pos, type)
      BY <2>2, <1>2, <1>3 DEF OfType
    <3> QED BY <2>2, <3>1, SlotsFinite, FS_CardinalityType
  <2> QED BY <2>1, <2>2
<1>8. /\ Cardinality(OfType(Pos, "USER")) \in Int /\ Cardinality(OfType(Pos, "GC")) \in Int
      /\ Cardinality(Unfilled(Users)) \in Int /\ Cardinality(Unfilled(GcWriters)) \in Int
  BY SlotsFinite, FS_CardinalityType
<1>9. CASE t \in Users
  <2>1. t \notin GcWriters /\ IoType(t) = "USER"
    BY <1>9, RbAssumption DEF IoType
  <2> QED BY <2>1, <1>2, <1>4, <1>5, <1>6, <1>7, <1>8, <1>9 DEF CountersExact
<1>10. CASE t \notin Users
  <2>1. t \in GcWriters /\ IoType(t) = "GC"
    BY <1>10 DEF IoType, Threads
  <2> QED BY <2>1, <1>2, <1>4, <1>5, <1>6, <1>7, <1>8, <1>10 DEF CountersExact
<1> QED BY <1>9, <1>10

\* Sending an entry keeps its I/O type.
LEMMA ReadToBioCounts ==
  ASSUME IndInv, CountersExact, ReadToBio \/ ReadToBioErr
  PROVE  CountersExact'
<1>1. /\ UNCHANGED <<pc, nr, idx, nr_user, rb_user_cnt, rb_gc_cnt>>
      /\ flags' = [flags EXCEPT ![Wrap(w.pos + w.i)] = (@ \ {"WRITTEN"}) \cup {"SUBMITTED"}]
  BY DEF ReadToBio, ReadToBioErr, limits, thread
<1>2. flags \in [Pos -> SUBSET {"WRITABLE", "USER", "GC", "WRITTEN", "SUBMITTED"}]
  BY DEF IndInv, TypeOK, RingType
<1>3. \A type \in {"USER", "GC"} : OfType(Pos, type)' = OfType(Pos, type)
  BY <1>1, <1>2 DEF OfType
<1> QED BY <1>1, <1>3, CountersFrame

\* The L2P update of the tear down.
LEMMA TearDownCounts ==
  ASSUME IndInv, CountersExact, TearDownSync
  PROVE  CountersExact'
<1> UNCHANGED <<pc, nr, idx, nr_user>> /\ UpdateL2p(RingCount(sync, l2p_update), 0)
  BY DEF TearDownSync, thread
<1>2. /\ Copying' = Copying /\ Unfilled(Users)' = Unfilled(Users)
      /\ Unfilled(GcWriters)' = Unfilled(GcWriters)
  BY DEF Copying, Unfilled
<1>3. /\ rb_user_cnt' = Cardinality(OfType(Pos, "USER")') + Cardinality(Unfilled(Users))
      /\ rb_gc_cnt' = Cardinality(OfType(Pos, "GC")') + Cardinality(Unfilled(GcWriters)) + 0
  BY UpdateL2pCounts
<1>4. Cardinality(OfType(Pos, "GC")') \in Int /\ Cardinality(Unfilled(GcWriters)) \in Int
  BY SlotsFinite, FS_CardinalityType, OfTypeCountNext
<1> QED BY <1>2, <1>3, <1>4 DEF CountersExact

\* Steps that touch neither threads, flags nor counters.
LEMMA AsideCounts ==
  ASSUME CountersExact,
         UNCHANGED <<pc, nr, idx, nr_user, rb_user_cnt, rb_gc_cnt, flags>>
  PROVE  CountersExact'
<1>1. \A type : OfType(Pos, type)' = OfType(Pos, type)
  BY DEF OfType
<1> QED BY <1>1, CountersFrame

-------------------------------------------------------------------------------
(* The theorems.                                                                *)

\* IndInv and exact counters carry each other: the writer thread commits only
\* entries that exist because nr_user counts the chunks being copied.
RingSafe == IndInv /\ CountersExact

\* The counters are right at the start: nothing is in the ring.
LEMMA InitCounts == Init => CountersExact
<1> SUFFICES ASSUME Init PROVE CountersExact
  OBVIOUS
<1>1. OfType(Pos, "USER") = {} /\ OfType(Pos, "GC") = {}
  BY DEF Init, OfType
<1>2. Unfilled(Users) = {} /\ Unfilled(GcWriters) = {} /\ Copying = {}
  BY DEF Init, Unfilled, Copying, Threads
<1>3. Cardinality({}) = 0
  BY FS_EmptySet
<1> QED BY <1>1, <1>2, <1>3 DEF Init, CountersExact

\* Steps of other components.
LEMMA StutterInv ==
  ASSUME IndInv, UNCHANGED <<ptrs, nr_user, entries, limits, thread, w, device, target>>
  PROVE  IndInv'
<1>1. TypeOK'
  <2>1. RingType' /\ ThreadType' /\ DeviceType' /\ LimitType' /\ phase' \in {"run", "waited", "down"}
    BY DEF IndInv, TypeOK, RingType, ThreadType, DeviceType, LimitType, ptrs, entries,
           thread, device, limits, target
  <2>2. SwitchType'
    BY Zenon DEF IndInv, TypeOK, SwitchType, entries, limits, target, device
  <2> QED BY <2>1, <2>2 DEF TypeOK
<1>2. UNCHANGED <<mem, sync, flags, thread>>
  BY DEF ptrs, entries
<1> QED BY <1>1, <1>2, Frame, FrameThreads, FrameWriter DEF IndInv

\* Every step of every thread, of the writer, of the device and of the
\* surroundings keeps both.
LEMMA NextSafe ==
  ASSUME RingSafe, [Next]_vars
  PROVE  RingSafe'
<1> USE DEF RingSafe
<1>1. ASSUME NEW t \in Threads, Begin(t) \/ Thread(t) PROVE RingSafe'
  <2>1. CASE \/ Begin(t) \/ MayWriteUserErr(t) \/ Inserted(t) \/ GcKick(t)
    BY <2>1, ControlInv, ControlCounts
  <2>2. CASE UserIn(t)
    BY <2>2, ControlInv, UserInCounts
  <2>3. CASE Release(t)
    BY <2>3, ControlInv, ReleaseCounts
  <2>4. CASE MayWriteUser(t)
    BY <2>4, PosCountable, ClaimInv, MayWriteUserCounts
  <2>5. CASE MayWriteGc(t)
    BY <2>5, PosCountable, ClaimInv, MayWriteGcCounts
  <2>6. CASE WriteEntry(t)
    BY <2>6, WriteEntryInv, WriteEntryCounts
  <2> QED BY <1>1, <2>1, <2>2, <2>3, <2>4, <2>5, <2>6 DEF Thread
<1>2. CASE Writer \/ ReadToBioErr \/ SubmitIoErr
  <2>1. CASE WriterCount \/ WriterSleep \/ SubmitIoErr
    BY <2>1, WriterLooksInv, AsideCounts
       DEF WriterCount, WriterSleep, SubmitIoErr, limits, thread, entries
  <2>2. CASE WriterCommit
    <3>1. nr_user \in Nat
      BY SlotsFinite, FS_CardinalityType DEF CountersExact
    <3> QED BY <2>2, <3>1, WriterCommitInv, AsideCounts DEF WriterCommit, limits, thread, entries
  <2>3. CASE ReadToBio \/ ReadToBioErr
    BY <2>3, ReadToBioInv, ReadToBioCounts
  <2>4. CASE SubmitIo
    BY <2>4, SubmitIoInv, AsideCounts, Zenon DEF SubmitIo, limits, thread, entries
  <2> QED BY <1>2, <2>1, <2>2, <2>3, <2>4 DEF Writer
<1>3. ASSUME NEW r \in inflight, Complete(r) \/ CompleteLost(r) PROVE RingSafe'
  <2>1. UNCHANGED <<pc, nr, idx, nr_user, rb_user_cnt, rb_gc_cnt, flags>>
    BY <1>3 DEF Complete, CompleteInOrder, CompleteEarly, CompleteLost, limits, thread, entries
  <2> QED BY <1>3, <2>1, CompleteAsideInv, SyncMoveInv, AsideCounts DEF Complete
<1>4. CASE DrainOne \/ DrainEnd
  <2>1. UNCHANGED <<pc, nr, idx, nr_user, rb_user_cnt, rb_gc_cnt, flags>>
    BY <1>4 DEF DrainOne, DrainEnd, limits, thread, entries
  <2> QED BY <1>4, <2>1, CompleteAsideInv, SyncMoveInv, AsideCounts
<1>5. CASE UserTimer \/ UpdateRates \/ StopWrites \/ TearDownWait
  <2>1. UNCHANGED <<pc, nr, idx, nr_user, rb_user_cnt, rb_gc_cnt, flags>>
    BY <1>5 DEF UserTimer, UpdateRates, StopWrites, TearDownWait, limits, thread, entries
  <2> QED BY <1>5, <2>1, SurroundingsInv, AsideCounts
<1>6. CASE TearDownSync
  BY <1>6, PosCountable, TearDownSyncInv, TearDownCounts
<1>7. CASE UNCHANGED vars
  <2>1. UNCHANGED <<ptrs, nr_user, entries, limits, thread, w, device, target>>
    BY <1>7 DEF vars
  <2>2. CountersExact'
    BY <2>1, AsideCounts DEF limits, thread, entries
  <2>3. IndInv'
    BY <2>1, StutterInv
  <2> QED BY <2>2, <2>3
<1> QED BY <1>1, <1>2, <1>3, <1>4, <1>5, <1>6, <1>7 DEF Next

\* For every ring size, set of threads, request size and fault, the inductive
\* invariant and the exactness of the counters hold throughout.
THEOREM RingSafety == Spec => []RingSafe
<1>1. Init => RingSafe
  BY InitInv, InitCounts DEF RingSafe
<1>2. RingSafe /\ [Next]_vars => RingSafe'
  BY NextSafe
<1> QED BY <1>1, <1>2, PTL DEF Spec

\* The inductive invariant of RbFaults: pointer order, ownership of every segment
\* of the ring, and flags that agree with the segment an entry is in.
THEOREM RingInvariant == Spec => []IndInv
<1>1. RingSafe => IndInv
  BY DEF RingSafe
<1> QED BY <1>1, RingSafety, PTL

\* Every variable keeps its type; ring positions never leave the ring.
THEOREM TypeCorrect == Spec => []TypeOK
<1>1. IndInv => TypeOK
  BY DEF IndInv
<1> QED BY <1>1, RingInvariant, PTL

\* l2p_update, sync, subm and mem never overtake one another.
THEOREM PointersInOrder == Spec => []PtrOrder
<1>1. IndInv => PtrOrder
  BY Distances, CountRange DEF IndInv, RingInv, PtrOrder, TypeOK, RingType
<1> QED BY <1>1, RingInvariant, PTL

\* Two threads that fill entries outside every lock never fill the same one, and
\* never one that is in use: the BUG_ON of the write-entry functions cannot fire.
THEOREM ClaimsAreExclusive == Spec => []ClaimsExclusive
<1>1. IndInv => ClaimsExclusive
  BY DEF IndInv
<1> QED BY <1>1, RingInvariant, PTL

\* The sync pointer never passes an entry whose request is still outstanding,
\* whatever the order of completions and whichever requests are lost.
THEOREM SyncNeverEarly == Spec => []SyncInOrder
<1>1. IndInv => SyncInOrder
  <2> SUFFICES ASSUME IndInv PROVE SyncInOrder
    OBVIOUS
  <2>1. ASSUME NEW r \in Requests
        PROVE  r \in [sentry : Pos, nr : Nat] /\ Between(r.sentry, r.nr, subm)
    BY DEF Requests, IndInv, RequestInv, WriterInv, Handed, TypeOK, DeviceType
  <2>2. ASSUME NEW r \in Requests, NEW p \in Window(r.sentry, r.nr)
        PROVE  p \notin Synced
    <3> p \in Pos /\ RingCount(p, sync) < RingCount(subm, sync)
      BY <2>1, RequestBetween
    <3>2. /\ RingCount(subm, sync) <= RingCount(mem, sync)
          /\ RingCount(p, sync) \in Int /\ RingCount(subm, sync) \in Int
          /\ RingCount(mem, sync) \in Int
      BY CountRange DEF IndInv, TypeOK, RingType, RingInv
    <3>3. RingCount(p, sync) < RingCount(mem, sync)
      BY <3>2
    <3> QED BY <3>3, NotSynced DEF IndInv
  <2>3. ASSUME NEW r \in Requests, NEW q \in Requests, r # q
        PROVE  Window(r.sentry, r.nr) \cap Window(q.sentry, q.nr) = {}
    BY <2>3 DEF Requests, IndInv, RequestInv, WriterInv, Handed
  <2> QED BY <2>2, <2>3 DEF SyncInOrder
<1> QED BY <1>1, RingInvariant, PTL

\* What the next L2P update can reach has been sent and has its type, so
\* clean_wctx never spins under the write lock.
THEOREM L2pUpdateNeverSpins == Spec => []SyncedAreSent
<1>1. IndInv => SyncedAreSent
  BY DEF IndInv
<1> QED BY <1>1, RingInvariant, PTL

\* The rate limiter's counters and nr_user are exact after every step, although
\* four critical sections and a lockless copy move them.
THEOREM CountersAreExact == Spec => []CountersExact
<1>1. RingSafe => CountersExact
  BY DEF RingSafe
<1> QED BY <1>1, RingSafety, PTL
===============================================================================
