--------------------------- MODULE PblkLineTheorems ---------------------------
(* The theorems about lines.                                                    *)
EXTENDS PblkLineProofs, FiniteFacts

-------------------------------------------------------------------------------
(* The steps of a writer keep the owners of lines.                               *)

LEMMA WriteLastRun ==
  ASSUME Typed, RunInv, state = "RUNNING", NEW r \in Rings, NEW n \in 1 .. MaxPages,
         WriteLast(r, n)
  PROVE  RunInv'
<1>1. \A l \in Lines : SameLine(l)
  BY RequestFields DEF SameLine, NoMetaSent
<1> WriterInv(r)
  BY RunFacts
<1> /\ pc[r] = "idle" /\ data_line[r] # None /\ data_line[r] \in Lines
      /\ prev' = [prev EXCEPT ![r] = data_line[r]] /\ pc' = [pc EXCEPT ![r] = "replace"]
      /\ UNCHANGED <<data_line, data_next, emeta_list, free_list>>
      /\ UNCHANGED backlog
  BY DEF WriteLast, MaySubmit, lists, WriterInv, Typed
<1> /\ prev'[r] = data_line[r] /\ pc'[r] = "replace"
      /\ \A q \in Rings \ {r} : prev'[q] = prev[q] /\ pc'[q] = pc[q]
  BY DEF Typed
<1>5. Mine(r)' \subseteq Mine(r)
  BY DEF Mine
<1>6. SameLine(data_line[r]) /\ SameLine(data_next[r])
  BY <1>1 DEF Typed, WriterInv
<1>7. WriterInv(r)'
  BY <1>6, Zenon DEF WriterInv, SameLine, SetUp
<1> QED BY <1>1, <1>5, <1>7, WithinRun

LEMMA ReplaceLineRun ==
  ASSUME Typed, RunInv, state = "RUNNING", NEW r \in Rings, ReplaceLine(r)
  PROVE  RunInv'
<1>1. \A l \in Lines : SameLine(l)
  BY DEF SameLine, ReplaceLine
<1>2. WriterInv(r)
  BY RunFacts
<1> /\ pc[r] = "replace" /\ data_line' = [data_line EXCEPT ![r] = data_next[r]]
      /\ pc' = [pc EXCEPT ![r] = "slot"]
      /\ UNCHANGED <<line, data_next, prev, emeta_list, free_list, backlog>>
  BY DEF ReplaceLine, Goto, lists
<1> /\ data_line'[r] = data_next[r] /\ pc'[r] = "slot"
      /\ \A q \in Rings \ {r} : data_line'[q] = data_line[q] /\ pc'[q] = pc[q]
  BY DEF Typed
<1>5. Mine(r)' \subseteq Mine(r)
  BY DEF Mine
<1>6. WriterInv(r)'
  BY <1>2, LineAssumption DEF WriterInv, SetUp, Typed
<1> QED BY <1>1, <1>5, <1>6, WithinRun

LEMMA RetryNoneRun ==
  ASSUME Typed, RunInv, state = "RUNNING", NEW r \in Rings, RetryNone(r)
  PROVE  RunInv'
<1>1. \A l \in Lines : SameLine(l)
  BY DEF SameLine, RetryNone
<1>2. WriterInv(r)
  BY RunFacts
<1> /\ pc[r] = "retry" /\ data_line' = [data_line EXCEPT ![r] = None]
      /\ pc' = [pc EXCEPT ![r] = "close"]
      /\ UNCHANGED <<line, data_next, prev, emeta_list, free_list, backlog>>
  BY DEF RetryNone, Goto, lists
<1> /\ data_line'[r] = None /\ pc'[r] = "close"
      /\ \A q \in Rings \ {r} : data_line'[q] = data_line[q] /\ pc'[q] = pc[q]
  BY DEF Typed
<1>5. Mine(r)' \subseteq Mine(r)
  BY DEF Mine
<1>6. WriterInv(r)'
  BY <1>2 DEF WriterInv, SetUp
<1> QED BY <1>1, <1>5, <1>6, WithinRun

\* A writer takes a line from the free list.
LEMMA TakeRun ==
  ASSUME Typed, RunInv, state = "RUNNING", NEW r \in Rings, NEW l \in free_list,
         free_list' = free_list \ {l}, UNCHANGED emeta_list,
         \A k \in Lines \ {l} : SameLine(k),
         line'[l].state = "OPEN", line'[l].mem = 0, line'[l].sync = 0,
         \A q \in Rings \ {r} :
           /\ data_line'[q] = data_line[q] /\ data_next'[q] = data_next[q]
           /\ prev'[q] = prev[q] /\ pc'[q] = pc[q] /\ backlog'[q] = backlog[q],
         Mine(r)' \subseteq Mine(r) \cup {l}, pc[r] \notin {"rest", "lost"},
         WriterInv(r)'
  PROVE  RunInv'
<1>0. /\ \A k \in Lines : line[k].sync <= line[k].mem
      /\ \A q \in Rings : WriterInv(q) /\ MineInv(q) /\ ListInv(q)
      /\ \A q \in Rings : Mine(q) \subseteq Lines
  BY RunFacts
<1>1. /\ \A q \in Rings \ {r} : Mine(q)' = Mine(q)
      /\ \A q \in Rings : OnList(q)' = OnList(q)
  BY Zenon DEF Mine, OnList
<1>2. l \in Lines /\ \A q \in Rings : l \notin Mine(q) /\ l \notin OnList(q)
  BY <1>0, Zenon DEF MineInv, ListInv, Typed
<1>3. ASSUME NEW q \in Rings PROVE WriterInv(q)'
  <2>1. CASE q # r
    <3>1. WriterInv(q)
      BY <1>0, Zenon
    <3>2. \A k \in Mine(q) : SameLine(k)
      BY <1>0, <1>2, Zenon
    <3> QED BY <2>1, <3>1, <3>2, WriterSame, Zenon
  <2> QED BY <2>1, Zenon
<1>4. ASSUME NEW q \in Rings PROVE MineInv(q)'
  <2>1. MineInv(q) /\ Mine(q)' \subseteq Mine(q) \cup {l}
    BY <1>0, <1>1
  <2>2. \A k \in Mine(q)' :
          line'[k].state \in {"OPEN", "BAD"} /\ line'[k].mem = 0 /\ line'[k].sync = 0
    <3> SUFFICES ASSUME NEW k \in Mine(q)'
                 PROVE  line'[k].state \in {"OPEN", "BAD"} /\ line'[k].mem = 0 /\ line'[k].sync = 0
      BY Zenon
    <3>1. CASE k = l
      BY <3>1, Zenon
    <3>2. CASE k # l
      <4>1. k \in Mine(q) /\ k \in Lines
        BY <1>0, <2>1, <3>2, Zenon
      <4>2. line[k].state \in {"OPEN", "BAD"} /\ line[k].mem = 0 /\ line[k].sync = 0
        BY <2>1, <4>1, MineOpen, Zenon
      <4> QED BY <3>2, <4>1, <4>2, Zenon DEF SameLine
    <3> QED BY <3>1, <3>2, Zenon
  <2>3. \A p \in Rings \ {q} : Mine(p)' \cap Mine(q)' = {}
    <3> SUFFICES ASSUME NEW p \in Rings \ {q} PROVE Mine(p)' \cap Mine(q)' = {}
      OBVIOUS
    <3>1. Mine(p) \cap Mine(q) = {}
      BY <2>1 DEF MineInv
    <3>2. l \notin Mine(p) /\ l \notin Mine(q)
      BY <1>2
    <3>3. Mine(p)' = Mine(p) \/ Mine(q)' = Mine(q)
      BY <1>1
    <3>4. Mine(p)' \subseteq Mine(p) \cup {l}
      BY <1>1
    <3> QED BY <2>1, <3>1, <3>2, <3>3, <3>4, Zenon
  <2>4. Mine(q)' \cap free_list' = {}
    BY <2>1 DEF MineInv
  <2> QED BY <2>2, <2>3, <2>4, Zenon DEF MineInv
<1>5. ASSUME NEW q \in Rings PROVE ListInv(q)'
  <2>1. ListInv(q)
    BY <1>0, Zenon
  <2>2. \A k \in OnList(q)' : k \in Lines /\ line'[k].state = "OPEN" /\ line'[k].mem < Metas
    BY <1>1, <1>2, <2>1, ListOpen, Zenon DEF SameLine
  <2>3. \A p \in Rings : \A k \in OnList(q)' \cap Mine(p)' :
          p = q /\ pc'[q] \in {"rest", "lost"} /\ k = prev'[q]
    <3> SUFFICES ASSUME NEW p \in Rings, NEW k \in OnList(q)' \cap Mine(p)'
                 PROVE  p = q /\ pc'[q] \in {"rest", "lost"} /\ k = prev'[q]
      OBVIOUS
    <3>1. k \in OnList(q) \cap Mine(p)
      BY <1>1, <1>2
    <3>2. p = q /\ pc[q] \in {"rest", "lost"} /\ k = prev[q]
      BY <2>1, <3>1 DEF ListInv
    <3> QED BY <3>2, Zenon
  <2>4. /\ \A i, j \in 1 .. Len(emeta_list'[q]) : i # j => emeta_list'[q][i] # emeta_list'[q][j]
        /\ \A p \in Rings \ {q} : OnList(p)' \cap OnList(q)' = {}
        /\ OnList(q)' \cap free_list' = {}
    BY <1>1, <2>1 DEF ListInv
  <2> QED BY <2>2, <2>3, <2>4, ListMade, Zenon
<1>6. ASSUME NEW k \in Lines PROVE line'[k].sync <= line'[k].mem
  <2>1. CASE k = l
    BY <2>1
  <2>2. CASE k # l
    BY <1>0, <2>2, Zenon DEF SameLine
  <2> QED BY <2>1, <2>2, Zenon
<1> QED BY <1>3, <1>4, <1>5, <1>6, Zenon DEF RunInv

LEMMA RetryLineRun ==
  ASSUME Typed, RunInv, state = "RUNNING", NEW r \in Rings, RetryLine(r)
  PROVE  RunInv'
<1> DEFINE d == data_line[r]
<1>1. PICK l \in free_list :
        /\ free_list' = free_list \ {l}
        /\ line' = [line EXCEPT ![l] = [Prepared EXCEPT !.slot = line[d].slot], ![d].slot = None]
        /\ data_line' = [data_line EXCEPT ![r] = l]
  BY Zenon DEF RetryLine, GetLine
<1>2. /\ WriterInv(r) /\ MineInv(r)
      /\ d \in Lines /\ l \in Lines /\ data_next[r] \in Lines
      /\ prev[r] # None => prev[r] \in Lines
  BY RunFacts, Zenon DEF RetryLine, SetUp, Typed, WriterInv
<1>3. l \notin Mine(r)
  BY <1>2 DEF MineInv
<1>4. l # d /\ l # data_next[r] /\ l # prev[r] /\ l # None
  BY <1>2, <1>3, LineAssumption DEF Mine
<1>5. ASSUME NEW k \in Lines \ {l} PROVE SameLine(k)
  <2>1. line \in [Lines -> LineRec]
    BY Zenon DEF Typed
  <2>2. CASE k # d
    BY <1>1, <2>1, <2>2, Zenon DEF SameLine
  <2>3. CASE k = d
    <3>1. line'[d] = [line[d] EXCEPT !.slot = None]
      BY <1>1, <1>2, <2>1, <2>3
    <3>2. line[d] \in LineRec
      BY <1>2, <2>1, Zenon
    <3> QED BY <2>3, <3>1, <3>2 DEF SameLine, LineRec
  <2> QED BY <2>2, <2>3, Zenon
<1>6. line'[l].state = "OPEN" /\ line'[l].mem = 0 /\ line'[l].sync = 0
  BY <1>1, <1>2, <1>4 DEF Prepared, Typed
<1>7. /\ pc[r] = "retry" /\ pc' = [pc EXCEPT ![r] = "dec_retry"]
      /\ UNCHANGED <<data_next, prev, emeta_list, backlog>>
  BY DEF RetryLine, Goto
<1>8. /\ data_line'[r] = l /\ pc'[r] = "dec_retry"
      /\ \A q \in Rings \ {r} : data_line'[q] = data_line[q] /\ pc'[q] = pc[q]
  BY <1>1, <1>7 DEF Typed
<1>9. Mine(r)' \subseteq Mine(r) \cup {l}
  BY <1>7, <1>8 DEF Mine
<1>10. WriterInv(r)'
  <2>1. prev[r] # None => SameLine(prev[r])
    BY <1>2, <1>4, <1>5
  <2> QED BY <1>2, <1>4, <1>6, <1>7, <1>8, <2>1 DEF WriterInv, SetUp, SameLine
<1> QED BY <1>1, <1>5, <1>6, <1>7, <1>8, <1>9, <1>10, TakeRun, Zenon

LEMMA NextLineRun ==
  ASSUME Typed, RunInv, state = "RUNNING", NEW r \in Rings, NextLine(r)
  PROVE  RunInv'
<1>1. PICK l \in free_list :
        /\ free_list' = free_list \ {l} /\ line' = [line EXCEPT ![l] = Prepared]
        /\ data_next' = [data_next EXCEPT ![r] = l]
  BY Zenon DEF NextLine, GetLine
<1>2. /\ WriterInv(r) /\ MineInv(r)
      /\ data_line[r] \in Lines /\ l \in Lines
      /\ prev[r] # None => prev[r] \in Lines
  BY RunFacts, Zenon DEF NextLine, SetUp, Typed, WriterInv
<1>3. l \notin Mine(r)
  BY <1>2, Zenon DEF MineInv
<1>4. l # data_line[r] /\ l # prev[r] /\ l # None
  BY <1>2, <1>3, LineAssumption DEF Mine
<1>5. \A k \in Lines \ {l} : SameLine(k)
  BY <1>1, <1>2 DEF SameLine, Typed
<1>6. line'[l].state = "OPEN" /\ line'[l].mem = 0 /\ line'[l].sync = 0
  BY <1>1, <1>2 DEF Prepared, Typed
<1>7. /\ pc[r] = "next" /\ pc' = [pc EXCEPT ![r] = "dec_next"]
      /\ UNCHANGED <<data_line, prev, emeta_list, backlog>>
  BY DEF NextLine, Goto
<1>8. /\ data_next'[r] = l /\ pc'[r] = "dec_next"
      /\ \A q \in Rings \ {r} : data_next'[q] = data_next[q] /\ pc'[q] = pc[q]
  BY <1>1, <1>7 DEF Typed
<1>9. Mine(r)' \subseteq Mine(r) \cup {l}
  BY <1>7, <1>8 DEF Mine
<1>10. WriterInv(r)'
  <2>1. (prev[r] # None => SameLine(prev[r])) /\ SameLine(data_line[r])
    BY <1>2, <1>4, <1>5
  <2> QED BY <1>2, <1>4, <1>6, <1>7, <1>8, <2>1, Zenon DEF WriterInv, SetUp, SameLine
<1> QED BY <1>1, <1>5, <1>6, <1>7, <1>8, <1>9, <1>10, TakeRun, Zenon

\* A line turns out to be bad: it is the one its writer prepares.
LEMMA InitBadRun ==
  ASSUME Typed, RunInv, state = "RUNNING", NEW r \in Rings, InitBad(r)
  PROVE  RunInv'
<1> DEFINE d == data_line[r]
<1>0. /\ \A k \in Lines : line[k].sync <= line[k].mem
      /\ \A q \in Rings : WriterInv(q) /\ MineInv(q) /\ ListInv(q)
      /\ \A q \in Rings : Mine(q) \subseteq Lines
  BY RunFacts
<1>1. d \in Lines /\ d # None /\ d \in Mine(r) /\ pc[r] = "erase"
  BY DEF InitBad, SetUp, Typed, Mine
<1>2. /\ \A k \in Lines \ {d} : SameLine(k)
      /\ line'[d].state = "BAD" /\ line'[d].mem = line[d].mem /\ line'[d].sync = line[d].sync
  BY <1>1 DEF InitBad, SameLine, Typed, LineRec
<1>3. /\ pc' = [pc EXCEPT ![r] = "retry"]
      /\ UNCHANGED <<data_line, data_next, prev, emeta_list, free_list, backlog>>
  BY DEF InitBad, Goto, lists
<1>4. pc'[r] = "retry" /\ \A q \in Rings \ {r} : pc'[q] = pc[q]
  BY <1>3 DEF Typed
<1>5. \A q \in Rings : Mine(q)' = Mine(q) /\ OnList(q)' = OnList(q) /\ d \notin OnList(q)
  <2>1. \A q \in Rings : Mine(q)' = Mine(q) /\ OnList(q)' = OnList(q)
    BY <1>3 DEF Mine, OnList
  <2>2. \A q \in Rings : d \notin OnList(q)
    BY <1>0, <1>1 DEF ListInv
  <2> QED BY <2>1, <2>2
<1>6. \A q \in Rings \ {r} : d \notin Mine(q)
  BY <1>0, <1>1 DEF MineInv
<1>7. ASSUME NEW q \in Rings PROVE WriterInv(q)'
  <2> WriterInv(q)
    BY <1>0
  <2>2. CASE q # r
    <3>1. /\ prev[q] # None => prev[q] \in Mine(q)
          /\ data_line[q] # None => data_line[q] \in Mine(q)
          /\ data_next[q] \in Mine(q)
      BY Zenon DEF Mine, WriterInv
    <3>2. \A k \in Mine(q) : SameLine(k)
      BY <1>0, <1>2, <1>6, <2>2, Zenon
    <3> QED BY <1>3, <1>4, <2>2, <3>1, <3>2 DEF WriterInv, SameLine
  <2>3. CASE q = r
    <3>1. prev[r] # None => prev[r] # d /\ SameLine(prev[r])
      BY <1>1, <1>2, <2>3, Zenon DEF WriterInv, Typed
    <3> QED BY <1>1, <1>3, <1>4, <2>3, <3>1 DEF WriterInv, SameLine, SetUp
  <2> QED BY <2>2, <2>3
<1>8. ASSUME NEW q \in Rings PROVE MineInv(q)'
  <2>1. MineInv(q)
    BY <1>0
  <2>2. \A k \in Mine(q)' :
          line'[k].state \in {"OPEN", "BAD"} /\ line'[k].mem = 0 /\ line'[k].sync = 0
    BY <1>0, <1>2, <1>5, <2>1 DEF MineInv, SameLine
  <2> QED BY <1>3, <1>5, <2>1, <2>2 DEF MineInv
<1>9. ASSUME NEW q \in Rings PROVE ListInv(q)'
  <2>1. ListInv(q)
    BY <1>0, Zenon
  <2>2. \A k \in OnList(q)' : k \in Lines /\ line'[k].state = "OPEN" /\ line'[k].mem < Metas
    BY <1>2, <1>5, <2>1, ListOpen DEF SameLine
  <2>3. \A p \in Rings : \A k \in OnList(q)' \cap Mine(p)' :
          p = q /\ pc'[q] \in {"rest", "lost"} /\ k = prev'[q]
    BY <1>1, <1>3, <1>4, <1>5, <2>1 DEF ListInv
  <2>4. /\ \A i, j \in 1 .. Len(emeta_list'[q]) : i # j => emeta_list'[q][i] # emeta_list'[q][j]
        /\ \A p \in Rings \ {q} : OnList(p)' \cap OnList(q)' = {}
        /\ OnList(q)' \cap free_list' = {}
    BY <1>3, <1>5, <2>1, Zenon DEF ListInv
  <2> QED BY <2>2, <2>3, <2>4, ListMade, Zenon
<1>10. \A k \in Lines : line'[k].sync <= line'[k].mem
  BY <1>0, <1>2 DEF SameLine
<1> QED BY <1>7, <1>8, <1>9, <1>10, Zenon DEF RunInv

\* The full line goes on the list; its writer is done with it but for its name.
LEMMA CloseMetaRun ==
  ASSUME Typed, RunInv, state = "RUNNING", NEW r \in Rings, CloseMeta(r)
  PROVE  RunInv'
<1> DEFINE s == emeta_list[r]
           x == prev[r]
<1>0. /\ \A k \in Lines : line[k].sync <= line[k].mem
      /\ \A q \in Rings : WriterInv(q) /\ MineInv(q) /\ ListInv(q)
      /\ \A q \in Rings : Mine(q) \subseteq Lines
      /\ Metas \in Nat \ {0}
  BY RunFacts
<1>1. /\ pc[r] = "close" /\ x # None /\ x # data_line[r] /\ x # data_next[r]
      /\ x \in Lines /\ x \in Mine(r) /\ line[x].state = "OPEN" /\ line[x].mem = 0
  <2>1. pc[r] = "close" /\ WriterInv(r) /\ MineInv(r)
    BY <1>0 DEF CloseMeta
  <2>2. x # None /\ x # data_line[r] /\ x # data_next[r] /\ line[x].state = "OPEN"
    BY <2>1 DEF WriterInv
  <2>3. x \in Mine(r)
    BY <2>2 DEF Mine
  <2> QED BY <1>0, <2>1, <2>2, <2>3 DEF MineInv
<1>2. /\ emeta_list' = [emeta_list EXCEPT ![r] = Append(s, x)]
      /\ pc' = [pc EXCEPT ![r] = "rest"]
      /\ UNCHANGED <<line, data_line, data_next, prev, free_list, backlog>>
  <2>1. backlog[r] = -1
    BY <1>0 DEF WriterInv
  <2> QED BY <2>1 DEF CloseMeta, Goto, lists
<1>3. /\ pc'[r] = "rest" /\ emeta_list'[r] = Append(s, x)
      /\ \A q \in Rings \ {r} : pc'[q] = pc[q] /\ emeta_list'[q] = emeta_list[q]
  BY <1>2 DEF Typed
<1>4. s \in Seq(Lines \cup {None}) /\ x \in Lines \cup {None}
  BY <1>1 DEF Typed
<1>5. /\ \A i \in 1 .. Len(s) : Append(s, x)[i] = s[i]
      /\ Len(Append(s, x)) = Len(s) + 1 /\ Append(s, x)[Len(s) + 1] = x /\ Len(s) \in Nat
  BY <1>4
<1>6. /\ OnList(r)' = OnList(r) \cup {x}
      /\ \A q \in Rings \ {r} : OnList(q)' = OnList(q)
  <2>1. OnList(r)' = {Append(s, x)[i] : i \in 1 .. Len(s) + 1} /\ OnList(r) = {s[i] : i \in 1 .. Len(s)}
    BY <1>3, <1>5 DEF OnList
  <2> HIDE DEF s, x
  <2>2. OnList(r)' = OnList(r) \cup {x}
    BY <1>5, <2>1
  <2> QED BY <1>3, <2>2 DEF OnList
<1>7. \A q \in Rings : Mine(q)' = Mine(q) /\ x \notin OnList(q) /\ (q # r => x \notin Mine(q))
  BY <1>0, <1>1, <1>2, Zenon DEF Mine, ListInv, MineInv
<1>8. ASSUME NEW q \in Rings PROVE WriterInv(q)'
  <2>1. WriterInv(q)
    BY <1>0, Zenon
  <2>2. CASE q # r
    BY <1>2, <1>3, <2>1, <2>2 DEF WriterInv
  <2>3. CASE q = r
    BY <1>1, <1>2, <1>3, <2>1, <2>3, Zenon DEF WriterInv, SetUp
  <2> QED BY <2>2, <2>3
<1>9. ASSUME NEW q \in Rings PROVE MineInv(q)'
  <2>1. MineInv(q)
    BY <1>0
  <2> QED BY <1>2, <1>7, <2>1 DEF MineInv
<1>10. ASSUME NEW q \in Rings PROVE ListInv(q)'
  <2>1. ListInv(q)
    BY <1>0
  <2>2. \A k \in OnList(q)' : k \in Lines /\ line'[k].state = "OPEN" /\ line'[k].mem < Metas
    BY <1>0, <1>1, <1>2, <1>6, <2>1, ListOpen
  <2>3. \A p \in Rings : \A k \in OnList(q)' \cap Mine(p)' :
          p = q /\ pc'[q] \in {"rest", "lost"} /\ k = prev'[q]
    <3> SUFFICES ASSUME NEW p \in Rings, NEW k \in OnList(q)' \cap Mine(p)'
                 PROVE  p = q /\ pc'[q] \in {"rest", "lost"} /\ k = prev'[q]
      OBVIOUS
    <3>1. CASE k \in OnList(q)
      <4>1. p = q /\ pc[q] \in {"rest", "lost"} /\ k = prev[q]
        BY <1>7, <2>1, <3>1 DEF ListInv
      <4> QED BY <1>1, <1>2, <1>3, <4>1
    <3>2. CASE k \notin OnList(q)
      <4>1. q = r /\ k = x /\ k \in Mine(p)
        BY <1>6, <1>7, <3>2
      <4> QED BY <1>2, <1>3, <1>7, <4>1
    <3> QED BY <3>1, <3>2
  <2>4. \A i, j \in 1 .. Len(emeta_list'[q]) : i # j => emeta_list'[q][i] # emeta_list'[q][j]
    <3>1. CASE q # r
      BY <1>3, <2>1, <3>1 DEF ListInv
    <3>2. CASE q = r
      <4>1. /\ \A i, j \in 1 .. Len(s) : i # j => s[i] # s[j]
            /\ \A i \in 1 .. Len(s) : s[i] # x
        BY <1>7, <2>1, <3>2 DEF ListInv, OnList
      <4> HIDE DEF s, x
      <4>2. \A i, j \in 1 .. Len(s) + 1 : i # j => Append(s, x)[i] # Append(s, x)[j]
        BY <1>5, <4>1
      <4>3. emeta_list'[q] = Append(s, x)
        BY <1>3, <3>2
      <4> QED BY <1>5, <4>2, <4>3
    <3> QED BY <3>1, <3>2
  <2>5. \A p \in Rings \ {q} : OnList(p)' \cap OnList(q)' = {}
    <3> SUFFICES ASSUME NEW p \in Rings \ {q} PROVE OnList(p)' \cap OnList(q)' = {}
      OBVIOUS
    <3>1. OnList(p) \cap OnList(q) = {}
      BY <2>1 DEF ListInv
    <3> QED BY <1>6, <1>7, <3>1
  <2>6. OnList(q)' \cap free_list' = {}
    <3>1. x \notin free_list
      BY <1>0, <1>1, Zenon DEF MineInv
    <3> QED BY <1>2, <1>6, <2>1, <3>1 DEF ListInv
  <2> QED BY <2>2, <2>3, <2>4, <2>5, <2>6 DEF ListInv
<1> QED BY <1>0, <1>2, <1>8, <1>9, <1>10 DEF RunInv

\* The rings start with types: a data line, a next line and a slot each.
LEMMA InitTyped == SetFacts /\ Init => Typed
<1> SUFFICES ASSUME SetFacts, Init PROVE Typed
  OBVIOUS
<1> PICK d \in [Rings -> Lines], n \in [Rings -> Lines], s \in [Rings -> 1 .. Cardinality(Rings)] :
      FirstData(d, n, s)
  BY DEF Init
<1>1. Cardinality(Rings) \in Nat /\ Cardinality(Rings) <= Slots /\ Slots \in Nat
  BY LineAssumption DEF SetFacts, FinCount
<1>2. Prepared \in LineRec /\ [Prepared EXCEPT !.state = "FREE"] \in LineRec
  BY Records, Zenon
<1>3. ASSUME NEW l \in Lines, \E r \in Rings : d[r] = l
      PROVE  [Prepared EXCEPT !.fill = 0, !.ebm = B, !.done = B,
                              !.slot = s[CHOOSE r \in Rings : d[r] = l]] \in LineRec
  <2> DEFINE c == CHOOSE r \in Rings : d[r] = l
  <2>1. c \in Rings
    BY <1>3
  <2> HIDE DEF c
  <2>2. s[c] \in 1 .. Slots
    BY <1>1, <2>1
  <2> QED BY <2>2, Records, Zenon DEF c
<1>4. line \in [Lines -> LineRec]
  BY <1>2, <1>3, Zenon DEF FirstData
<1>5. free_list \subseteq Lines /\ IsFiniteSet(free_list) /\ free_blocks = Cardinality(free_list)
  BY LineAssumption, Zenon DEF FirstData, SetFacts, FinSub
<1>6. free_blocks \in Nat
  BY <1>5 DEF SetFacts, FinCount
<1>7. emeta_list \in [Rings -> Seq(Lines \cup {None})]
  BY DEF Init
<1>8. data_line \in [Rings -> Lines \cup {None}] /\ data_next \in [Rings -> Lines \cup {None}]
  BY Zenon DEF FirstData
<1>9. req \in [Rings -> Req] /\ prev \in [Rings -> Lines \cup {None}]
  BY Records, Zenon DEF Init
<1>10. pc \in [Rings -> Labels] /\ \A r \in Rings : pc[r] \notin SetUp
  BY DEF Init, Labels, SetUp
<1>11. state = "RUNNING" /\ puts = 0 /\ backlog \in [Rings -> Int]
  BY DEF Init
<1> QED BY <1>4, <1>5, <1>6, <1>7, <1>8, <1>9, <1>10, <1>11 DEF Typed

-------------------------------------------------------------------------------
(* Who works on which line, continued.                                          *)

\* A line nobody works on, and that waits for nothing but perhaps completions,
\* changes hands outside the writers.
LEMMA OutsideRun ==
  ASSUME Typed, RunInv, state = "RUNNING", NEW l \in Lines,
         UNCHANGED <<data_line, data_next, prev, pc, backlog, emeta_list>>,
         \A k \in Lines \ {l} : SameLine(k),
         line'[l].sync <= line'[l].mem,
         \A q \in Rings : l \notin Mine(q),
         \/ (\A q \in Rings : l \notin OnList(q)) /\ free_list' \in {free_list, free_list \cup {l}}
         \/ /\ line'[l].state = line[l].state /\ line'[l].mem = line[l].mem
            /\ UNCHANGED free_list
  PROVE  RunInv'
<1>0. /\ \A k \in Lines : line[k].sync <= line[k].mem
      /\ \A q \in Rings : WriterInv(q) /\ MineInv(q) /\ ListInv(q)
      /\ \A q \in Rings : Mine(q) \subseteq Lines
  BY RunFacts
<1>1. \A q \in Rings : Mine(q)' = Mine(q) /\ OnList(q)' = OnList(q)
  BY DEF Mine, OnList
<1>2. \A q \in Rings : \A k \in Mine(q) : SameLine(k)
  BY <1>0
<1>3. ASSUME NEW q \in Rings PROVE WriterInv(q)'
  <2>1. WriterInv(q)
    BY <1>0
  <2>2. /\ prev[q] # None => prev[q] \in Mine(q)
        /\ data_line[q] # None => data_line[q] \in Mine(q)
        /\ data_next[q] \in Mine(q)
    BY <2>1 DEF Mine, WriterInv
  <2>3. \A k \in Mine(q) : SameLine(k)
    BY <1>2
  <2> QED BY <2>1, <2>2, <2>3, Zenon DEF WriterInv, SameLine
<1>4. ASSUME NEW q \in Rings PROVE MineInv(q)'
  <2>1. MineInv(q)
    BY <1>0, Zenon
  <2>2. \A k \in Mine(q)' :
          line'[k].state \in {"OPEN", "BAD"} /\ line'[k].mem = 0 /\ line'[k].sync = 0
    BY <1>1, <1>2, <2>1 DEF MineInv, SameLine
  <2>3. Mine(q)' \cap free_list' = {}
    BY <1>1, <2>1, Zenon DEF MineInv
  <2> QED BY <1>1, <2>1, <2>2, <2>3 DEF MineInv
<1>5. ASSUME NEW q \in Rings PROVE ListInv(q)'
  <2>1. ListInv(q)
    BY <1>0, Zenon
  <2>2. \A k \in OnList(q)' : k \in Lines /\ line'[k].state = "OPEN" /\ line'[k].mem < Metas
    BY <1>1, <2>1 DEF ListInv, SameLine
  <2>3. OnList(q)' \cap free_list' = {}
    BY <1>1, <2>1, Zenon DEF ListInv
  <2>4. \A p \in Rings : \A k \in OnList(q)' \cap Mine(p)' :
          p = q /\ pc'[q] \in {"rest", "lost"} /\ k = prev'[q]
    BY <1>1, <2>1 DEF ListInv
  <2>5. /\ \A i, j \in 1 .. Len(emeta_list'[q]) : i # j => emeta_list'[q][i] # emeta_list'[q][j]
        /\ \A p \in Rings \ {q} : OnList(p)' \cap OnList(q)' = {}
    BY <1>1, <2>1 DEF ListInv
  <2> QED BY <2>2, <2>3, <2>4, <2>5 DEF ListInv
<1>6. \A k \in Lines : line'[k].sync <= line'[k].mem
  BY <1>0, Zenon DEF SameLine
<1> QED BY <1>3, <1>4, <1>5, <1>6 DEF RunInv

LEMMA DeviceRun ==
  ASSUME Typed, RunInv, state = "RUNNING", NEW l \in Lines,
         EndIoMeta(l) \/ CloseLine(l) \/ LinePut(l)
  PROVE  RunInv'
<1>0. /\ line[l].sync \in Nat /\ line[l].mem \in Nat /\ line[l].sync <= line[l].mem
      /\ \A q \in Rings : MineInv(q) /\ ListInv(q)
      /\ Metas \in Nat \ {0}
      /\ line \in [Lines -> LineRec] /\ line[l] \in LineRec
  BY RunFacts DEF Typed
<1>1. UNCHANGED <<data_line, data_next, prev, pc, backlog, emeta_list>>
  BY DEF EndIoMeta, CloseLine, LinePut, writer
<1>2. CASE EndIoMeta(l)
  <2>1. \A q \in Rings : l \notin Mine(q)
    BY <1>0, <1>2 DEF MineInv, EndIoMeta
  <2>2. \A k \in Lines \ {l} : SameLine(k)
    BY <1>0, <1>2 DEF EndIoMeta, SameLine
  <2>3. /\ line'[l].sync = line[l].sync + 1 /\ line'[l].mem = line[l].mem
        /\ line'[l].state = line[l].state
    BY <1>0, <1>2 DEF EndIoMeta, LineRec
  <2>4. line'[l].sync <= line'[l].mem
    BY <1>0, <1>2, <2>3 DEF EndIoMeta
  <2>5. UNCHANGED free_list
    BY <1>2 DEF EndIoMeta, lists
  <2> QED BY <1>1, <2>1, <2>2, <2>3, <2>4, <2>5, OutsideRun, Zenon
<1>3. CASE CloseLine(l)
  <2>1. \A q \in Rings : l \notin Mine(q) /\ l \notin OnList(q)
    BY <1>0, <1>3 DEF MineInv, ListInv, CloseLine
  <2>2. \A k \in Lines \ {l} : SameLine(k)
    BY <1>0, <1>3 DEF CloseLine, SameLine
  <2>3. line'[l].sync = line[l].sync /\ line'[l].mem = line[l].mem
    BY <1>0, <1>3 DEF CloseLine, LineRec
  <2>4. UNCHANGED free_list
    BY <1>3 DEF CloseLine, lists
  <2> QED BY <1>0, <1>1, <2>1, <2>2, <2>3, <2>4, OutsideRun, Zenon
<1>4. CASE LinePut(l)
  <2>1. \A q \in Rings : l \notin Mine(q) /\ l \notin OnList(q)
    BY <1>0, <1>4 DEF MineInv, ListInv, LinePut
  <2>2. \A k \in Lines \ {l} : SameLine(k)
    BY <1>0, <1>4 DEF LinePut, SameLine
  <2>3. line'[l].sync = 0 /\ line'[l].mem = 0
    BY <1>0, <1>4 DEF LinePut, Prepared
  <2>4. free_list' = free_list \cup {l}
    BY <1>4 DEF LinePut
  <2> QED BY <1>1, <2>1, <2>2, <2>3, <2>4, OutsideRun
<1> QED BY <1>2, <1>3, <1>4

LEMMA InitRun == Init => RunInv
<1> SUFFICES ASSUME Init PROVE RunInv
  OBVIOUS
<1>1. PICK d \in [Rings -> Lines], n \in [Rings -> Lines], s \in [Rings -> 1 .. Cardinality(Rings)] :
        /\ \A q, r \in Rings :
             d[q] # n[r] /\ (q # r => d[q] # d[r] /\ n[q] # n[r] /\ s[q] # s[r])
        /\ FirstData(d, n, s)
  BY Zenon DEF Init
<1>2. data_line = d /\ data_next = n /\ free_list = {l \in Lines : \A r \in Rings : l # d[r] /\ l # n[r]}
  BY <1>1, Zenon DEF FirstData
<1>3. ASSUME NEW l \in Lines
      PROVE  /\ line[l].mem = 0 /\ line[l].sync = 0
             /\ (\E r \in Rings : l = d[r] \/ l = n[r]) => line[l].state = "OPEN"
  <2> DEFINE x == s[CHOOSE r \in Rings : d[r] = l]
  <2>1. line[l] = CASE \E r \in Rings : d[r] = l ->
                         [Prepared EXCEPT !.fill = 0, !.ebm = B, !.done = B, !.slot = x]
                    [] \E r \in Rings : n[r] = l -> Prepared
                    [] OTHER -> [Prepared EXCEPT !.state = "FREE"]
    BY <1>1, Zenon DEF FirstData
  <2> HIDE DEF x
  <2>2. CASE \E r \in Rings : d[r] = l
    <3>1. \/ line[l] = [Prepared EXCEPT !.fill = 0, !.ebm = B, !.done = B, !.slot = x]
          \/ line[l] = Prepared
      BY <2>1, <2>2
    <3>2. CASE line[l] = Prepared
      BY <3>2 DEF Prepared
    <3>3. CASE line[l] = [Prepared EXCEPT !.fill = 0, !.ebm = B, !.done = B, !.slot = x]
      <4>1. line[l].mem = Prepared.mem /\ line[l].sync = Prepared.sync /\ line[l].state = Prepared.state
        BY <3>3, Zenon DEF Prepared
      <4> QED BY <4>1 DEF Prepared
    <3> QED BY <3>1, <3>2, <3>3
  <2>3. CASE ~(\E r \in Rings : d[r] = l) /\ \E r \in Rings : n[r] = l
    <3>1. line[l] = Prepared
      BY <2>1, <2>3
    <3> QED BY <3>1 DEF Prepared
  <2>4. CASE ~(\E r \in Rings : d[r] = l) /\ ~(\E r \in Rings : n[r] = l)
    <3>1. line[l] = [Prepared EXCEPT !.state = "FREE"]
      BY <2>1, <2>4
    <3> QED BY <2>4, <3>1 DEF Prepared
  <2> QED BY <2>2, <2>3, <2>4, Zenon
<1>4. \A r \in Rings : /\ d[r] \in Lines /\ d[r] # None /\ n[r] \in Lines /\ n[r] # None
                        /\ line[d[r]].state = "OPEN" /\ line[n[r]].state = "OPEN"
  BY <1>3, LineAssumption
<1> \A r \in Rings :
        /\ pc[r] = "idle" /\ prev[r] = None /\ backlog[r] = -1 /\ emeta_list[r] = <<>>
        /\ Mine(r) = {d[r], n[r]} /\ OnList(r) = {}
  <2> \A r \in Rings :
          pc[r] = "idle" /\ prev[r] = None /\ backlog[r] = -1 /\ emeta_list[r] = <<>>
    BY DEF Init
  <2>2. \A r \in Rings : Mine(r) = {d[r], n[r]}
    BY <1>2, <1>4 DEF Mine
  <2>3. \A r \in Rings : OnList(r) = {}
    BY DEF OnList
  <2> QED BY <2>2, <2>3
<1>6. ASSUME NEW r \in Rings PROVE WriterInv(r)
  BY <1>1, <1>2, <1>4, Zenon DEF WriterInv, SetUp
<1>7. ASSUME NEW r \in Rings PROVE MineInv(r)
  <2>1. \A q \in Rings \ {r} : Mine(q) \cap Mine(r) = {}
    BY <1>1
  <2>2. Mine(r) \cap free_list = {}
    BY <1>2
  <2>3. \A l \in Mine(r) : line[l].state = "OPEN" /\ line[l].mem = 0 /\ line[l].sync = 0
    BY <1>3, <1>4
  <2> QED BY <2>1, <2>2, <2>3, Zenon DEF MineInv
<1>8. ASSUME NEW r \in Rings PROVE ListInv(r)
  BY DEF ListInv
<1> QED BY <1>3, <1>6, <1>7, <1>8 DEF RunInv

\* Every step of every actor.
LEMMA StepRun == Typed /\ RunInv /\ [Next]_vars => RunInv'
<1> SUFFICES ASSUME Typed, RunInv, [Next]_vars, state' = "RUNNING" PROVE RunInv'
  BY DEF RunInv
<1>0. Typed /\ line \in [Lines -> LineRec] /\ \E r \in Rings : TRUE
  BY LineAssumption DEF Typed
<1>1. ASSUME NEW r \in Rings, Writer(r)
      PROVE  RunInv'
  <2> state = "RUNNING" /\ ~StopWrites(r)
    <3>1. ~StopWrites(r)
      BY DEF StopWrites
    <3>2. ASSUME NEW n \in 1 .. MaxPages, Write(r, n) \/ WriteLast(r, n)
          PROVE  state' = state
      BY <3>2, Zenon DEF Write, WriteLast
    <3>3. WriteRest(r) \/ WriteLost(r) \/ RlInserted(r) => state' = state
      BY Zenon DEF WriteRest, WriteLost, RlInserted
    <3>4. ReplaceNone(r) \/ ReplaceStopped(r) \/ ReplaceLine(r) => state' = state
      BY DEF ReplaceNone, ReplaceStopped, ReplaceLine
    <3>5. SetupMetadata(r) \/ InitLine(r) \/ InitBad(r) => state' = state
      BY Zenon DEF SetupMetadata, InitLine, InitBad
    <3>6. RetryLine(r) \/ RetryNone(r) \/ RetryDec(r) => state' = state
      BY DEF RetryLine, RetryNone, RetryDec
    <3>7. NextLine(r) \/ RlFreeLinesDec(r) \/ CloseMeta(r) => state' = state
      BY DEF NextLine, RlFreeLinesDec, CloseMeta
    <3>8. CloseMetaSync(r) \/ Drained(r) => state' = state
      BY DEF CloseMetaSync, Drained
    <3>9. state' = state
      BY <1>1, <3>1, <3>2, <3>3, <3>4, <3>5, <3>6, <3>7, <3>8 DEF Writer
    <3> QED BY <3>1, <3>9
  <2>2. WriterInv(r) /\ MineInv(r)
    BY RunFacts
  <2>3. ~RlInserted(r) /\ ~ReplaceNone(r) /\ ~ReplaceStopped(r) /\ ~CloseMetaSync(r) /\ ~Drained(r)
    BY <2>2 DEF WriterInv, RlInserted, ReplaceNone, ReplaceStopped, CloseMetaSync, Drained
  <2>4. ASSUME NEW n \in 1 .. MaxPages, Write(r, n) \/ WriteLast(r, n) \/ WriteRest(r)
        PROVE  RunInv'
    BY <2>4, SentRun, WriteLastRun
  <2>5. CASE WriteLost(r)
    <3>1. /\ UNCHANGED <<line, data_line, data_next, prev, free_list, emeta_list>>
          /\ pc[r] \in {"idle", "rest"} /\ pc' = [pc EXCEPT ![r] = "lost"]
      BY <2>5 DEF WriteLost, MaySubmit, lists
    <3>2. UNCHANGED backlog
      BY <2>2, <2>5 DEF WriteLost, MaySubmit, WriterInv, Typed
    <3>3. <<pc[r], "lost">> \in Onward
      BY <3>1 DEF Onward
    <3> QED BY <3>1, <3>2, <3>3, QuietRun, Zenon DEF SameLine
  <2>6. CASE SetupMetadata(r)
    <3> USE <2>6
    <3> DEFINE d == data_line[r]
    <3>1. pc[r] = "slot" /\ d \in Lines /\ line[d].mem = 0 /\ line[d].sync = 0
      BY <2>2 DEF SetupMetadata, SetUp, Typed, MineInv, Mine
    <3>2. \A l \in Lines : SameLine(l)
      BY <1>0, <3>1 DEF SetupMetadata, SameLine, LineRec
    <3>3. /\ UNCHANGED <<data_line, data_next, prev, free_list, emeta_list, backlog>>
          /\ pc' = [pc EXCEPT ![r] = "erase"]
      BY DEF SetupMetadata, lists, Goto
    <3>4. <<pc[r], "erase">> \in Onward
      BY <3>1 DEF Onward
    <3> QED BY <3>2, <3>3, <3>4, QuietRun, Zenon
  <2>7. CASE InitLine(r)
    <3>1. \A l \in Lines : SameLine(l)
      BY <1>0, <2>7 DEF InitLine, SameLine, LineRec
    <3>2. /\ UNCHANGED <<data_line, data_next, prev, free_list, emeta_list, backlog>>
          /\ pc[r] = "erase" /\ pc' = [pc EXCEPT ![r] = "next"]
      BY <2>7 DEF InitLine, lists, Goto
    <3>3. <<pc[r], "next">> \in Onward
      BY <3>2 DEF Onward
    <3> QED BY <3>1, <3>2, <3>3, QuietRun, Zenon
  <2>8. CASE RetryDec(r) \/ RlFreeLinesDec(r)
    <3>1. UNCHANGED <<line, data_line, data_next, prev, free_list, emeta_list, backlog>>
      BY <2>8 DEF RetryDec, RlFreeLinesDec
    <3>2. \E lb : pc' = [pc EXCEPT ![r] = lb] /\ <<pc[r], lb>> \in Onward
      BY <2>8 DEF RetryDec, RlFreeLinesDec, Goto, Onward
    <3> QED BY <3>1, <3>2, QuietRun, Zenon DEF SameLine
  <2>9. CASE ReplaceLine(r)
    BY <2>9, ReplaceLineRun
  <2>10. CASE InitBad(r)
    BY <2>10, InitBadRun
  <2>11. CASE RetryLine(r) \/ RetryNone(r)
    BY <2>11, RetryLineRun, RetryNoneRun
  <2>12. CASE NextLine(r)
    BY <2>12, NextLineRun
  <2>13. CASE CloseMeta(r)
    BY <2>13, CloseMetaRun
  <2>14. 1 \in 1 .. MaxPages
    BY LineAssumption
  <2> QED BY <1>1, <2>3, <2>4, <2>5, <2>6, <2>7, <2>8, <2>9, <2>10, <2>11, <2>12, <2>13,
             <2>14 DEF Writer
<1>2. ASSUME NEW l \in Lines, EndIoMeta(l) \/ CloseLine(l) \/ LinePut(l)
      PROVE  RunInv'
  <2>1. state = "RUNNING"
    BY <1>2 DEF EndIoMeta, CloseLine, LinePut
  <2> QED BY <1>2, <2>1, DeviceRun
<1>3. ASSUME UNCHANGED <<data_line, data_next, prev, free_list, emeta_list, backlog, pc, state>>,
             \A l \in Lines : SameLine(l)
      PROVE  RunInv'
  <2>1. PICK r \in Rings : TRUE
    BY <1>0
  <2>2. pc' = [pc EXCEPT ![r] = pc[r]] /\ state = "RUNNING"
    BY <1>3 DEF Typed
  <2> QED BY <1>3, <2>2, QuietRun, Zenon
<1>4. ASSUME NEW l \in Lines, NEW b \in B, EndIoErase(l, b)
      PROVE  RunInv'
  <2>1. \A k \in Lines : SameLine(k)
    BY <1>0, <1>4 DEF EndIoErase, SameLine, LineRec
  <2> QED BY <1>3, <1>4, <2>1 DEF EndIoErase, lists, writer
<1>5. CASE RlFreeLinesInc
  BY <1>3, <1>5 DEF RlFreeLinesInc, writer, SameLine
<1>6. CASE UNCHANGED vars
  BY <1>3, <1>6 DEF vars, lists, writer, SameLine
<1> QED BY <1>1, <1>2, <1>4, <1>5, <1>6 DEF Next, Device

-------------------------------------------------------------------------------
(* The free lines are counted.                                                  *)

\* Lines that were taken and not counted yet.
Taking == {r \in Rings : pc[r] \in {"dec_next", "dec_retry"}}

\* The free list holds no line that GC could put on it.
FreeInv ==
  /\ \A l \in free_list : line[l].state \in {"FREE", "BAD"}
  /\ FreeExact

LEMMA InitFree == SetFacts /\ Init => FreeInv
<1> SUFFICES ASSUME SetFacts, Init PROVE FreeInv
  OBVIOUS
<1> PICK d \in [Rings -> Lines], n \in [Rings -> Lines], s \in [Rings -> 1 .. Cardinality(Rings)] :
      FirstData(d, n, s)
  BY DEF Init
<1>1. ASSUME NEW l \in free_list
      PROVE  line[l].state = "FREE"
  <2>1. l \in Lines /\ ~(\E r \in Rings : d[r] = l) /\ ~(\E r \in Rings : n[r] = l)
    BY Zenon DEF FirstData
  <2>2. line[l] = [Prepared EXCEPT !.state = "FREE"]
    BY <2>1, Zenon DEF FirstData
  <2> QED BY <2>2 DEF Prepared
<1>2. {r \in Rings : pc[r] \in {"dec_next", "dec_retry"}} = {}
  BY DEF Init
<1>3. free_blocks = Cardinality(free_list) /\ puts = 0
  BY Zenon DEF Init, FirstData
<1>4. free_list \subseteq Lines /\ IsFiniteSet(Lines)
  BY LineAssumption, Zenon DEF FirstData
<1>5. Cardinality(free_list) \in Nat
  BY <1>4 DEF SetFacts, FinSub, FinCount
<1>6. Cardinality({}) = 0
  BY DEF SetFacts, FinNone
<1> QED BY <1>1, <1>2, <1>3, <1>5, <1>6, Zenon DEF FreeInv, FreeExact

\* The steps that touch neither the list nor the count, and close no listed line.
LEMMA FreeSteady ==
  ASSUME Typed, FreeInv, UNCHANGED lists,
         \A r \in Rings : pc'[r] \in {"dec_next", "dec_retry"} <=> pc[r] \in {"dec_next", "dec_retry"},
         \A l \in free_list : line'[l].state \in {line[l].state, "BAD"}
  PROVE  FreeInv'
<1>1. Taking' = Taking
  BY DEF Taking
<1>2. FreeExact <=> free_blocks + puts = Cardinality(free_list) + Cardinality(Taking)
  BY DEF FreeExact, Taking
<1>3. FreeExact' <=> free_blocks' + puts' = Cardinality(free_list') + Cardinality(Taking')
  BY DEF FreeExact, Taking
<1>4. FreeExact'
  BY <1>1, <1>2, <1>3 DEF FreeInv, lists
<1>5. \A l \in free_list' : line'[l].state \in {"FREE", "BAD"}
  BY DEF FreeInv, lists
<1> QED BY <1>4, <1>5 DEF FreeInv

LEMMA FreeSets ==
  ASSUME SetFacts, Typed
  PROVE  /\ IsFiniteSet(free_list) /\ Cardinality(free_list) \in Nat
         /\ IsFiniteSet(Taking) /\ Cardinality(Taking) \in Nat
<1>1. IsFiniteSet(free_list) /\ IsFiniteSet(Taking)
  BY LineAssumption, Zenon DEF Typed, Taking, SetFacts, FinSub
<1> QED BY <1>1 DEF SetFacts, FinCount

\* A writer takes a line, and one counts the line it took.
LEMMA FreeTake ==
  ASSUME SetFacts, Typed, FreeInv, NEW r \in Rings, NEW l \in free_list,
         free_list' = free_list \ {l}, UNCHANGED <<free_blocks, puts>>,
         pc[r] \notin {"dec_next", "dec_retry"},
         NEW lb \in {"dec_next", "dec_retry"}, pc' = [pc EXCEPT ![r] = lb],
         \A k \in free_list \ {l} : line'[k].state = line[k].state
  PROVE  FreeInv'
<1>1. Taking' = Taking \cup {r} /\ r \notin Taking
  BY DEF Taking, Typed
<1>2. /\ Cardinality(Taking') = Cardinality(Taking) + 1
      /\ Cardinality(free_list') = Cardinality(free_list) - 1
  BY <1>1, FreeSets, Zenon DEF SetFacts, FinAdd, FinRemove
<1>3. free_blocks + puts = Cardinality(free_list) + Cardinality(Taking)
  BY DEF FreeInv, FreeExact, Taking
<1>4. free_blocks' + puts' = Cardinality(free_list') + Cardinality(Taking')
  BY <1>2, <1>3, FreeSets, SMTT(30) DEF Typed
<1>5. FreeExact'
  BY <1>4 DEF FreeExact, Taking
<1>6. \A k \in free_list' : line'[k].state \in {"FREE", "BAD"}
  BY DEF FreeInv
<1> QED BY <1>5, <1>6 DEF FreeInv

LEMMA FreeCounted ==
  ASSUME SetFacts, Typed, FreeInv, NEW r \in Rings, free_blocks' = free_blocks - 1,
         UNCHANGED <<free_list, puts, line>>,
         pc[r] \in {"dec_next", "dec_retry"},
         NEW lb \in Labels \ {"dec_next", "dec_retry"}, pc' = [pc EXCEPT ![r] = lb]
  PROVE  FreeInv'
<1>1. Taking' = Taking \ {r} /\ r \in Taking
  BY DEF Taking, Typed
<1>2. Cardinality(Taking') = Cardinality(Taking) - 1
  BY <1>1, FreeSets, Zenon DEF SetFacts, FinRemove
<1>3. free_blocks + puts = Cardinality(free_list) + Cardinality(Taking)
  BY DEF FreeInv, FreeExact, Taking
<1>4. free_blocks' + puts' = Cardinality(free_list') + Cardinality(Taking')
  BY <1>2, <1>3, FreeSets DEF Typed
<1>5. FreeExact'
  BY <1>4 DEF FreeExact, Taking
<1> QED BY <1>5 DEF FreeInv

LEMMA StepFree == SetFacts /\ Typed /\ FreeInv /\ [Next]_vars => FreeInv'
<1> SUFFICES ASSUME SetFacts, Typed, FreeInv, [Next]_vars PROVE FreeInv'
  OBVIOUS
<1> DEFINE Steady == \A r \in Rings : pc'[r] \in {"dec_next", "dec_retry"} <=>
                                       pc[r] \in {"dec_next", "dec_retry"}
<1>0. line \in [Lines -> LineRec] /\ pc \in [Rings -> Labels] /\ free_list \subseteq Lines
  BY DEF Typed
<1>1. ASSUME NEW r \in Rings, NEW n \in 1 .. MaxPages,
             Write(r, n) \/ WriteLast(r, n) \/ WriteRest(r)
      PROVE  FreeInv'
  <2>1. UNCHANGED lists /\ Steady
    BY <1>0, <1>1, Zenon DEF Write, WriteLast, WriteRest, Send, MaySubmit
  <2>2. \A l \in free_list : line'[l].state = line[l].state
    BY <1>0, <1>1, RequestFields
  <2> QED BY <2>1, <2>2, FreeSteady
<1>2. ASSUME NEW r \in Rings,
             \/ WriteLost(r) \/ RlInserted(r) \/ ReplaceNone(r) \/ ReplaceStopped(r)
             \/ ReplaceLine(r) \/ RetryNone(r) \/ StopWrites(r) \/ CloseMeta(r) \/ Drained(r)
      PROVE  FreeInv'
  <2>1. UNCHANGED lists /\ UNCHANGED line
    BY <1>2, Zenon DEF WriteLost, RlInserted, ReplaceNone, ReplaceStopped, ReplaceLine, RetryNone,
                StopWrites, CloseMeta, Drained
  <2>2. Steady
    BY <1>0, <1>2, Zenon DEF WriteLost, MaySubmit, RlInserted, ReplaceNone, ReplaceStopped, ReplaceLine,
                      RetryNone, StopWrites, CloseMeta, Drained, Goto, writer
  <2> QED BY <2>1, <2>2, FreeSteady
<1>3. ASSUME NEW r \in Rings, SetupMetadata(r) \/ InitLine(r) \/ InitBad(r) \/ CloseMetaSync(r)
      PROVE  FreeInv'
  <2>1. UNCHANGED lists /\ Steady
    BY <1>0, <1>3, Zenon DEF SetupMetadata, InitLine, InitBad, CloseMetaSync, Goto
  <2>2. ASSUME NEW l \in free_list
        PROVE  line'[l].state \in {line[l].state, "BAD"}
    <3> line[l] \in LineRec /\ l \in Lines
      BY <1>0
    <3>2. CASE SetupMetadata(r)
      BY <1>0, <3>2 DEF SetupMetadata, LineRec
    <3>3. CASE InitLine(r)
      BY <1>0, <3>3 DEF InitLine, LineRec
    <3>4. CASE InitBad(r)
      BY <1>0, <3>4 DEF InitBad, LineRec
    <3>5. CASE CloseMetaSync(r)
      BY <1>0, <3>5 DEF CloseMetaSync, LineRec
    <3> QED BY <1>3, <3>2, <3>3, <3>4, <3>5
  <2> QED BY <2>1, <2>2, FreeSteady
<1>4. ASSUME NEW r \in Rings, RetryLine(r)
      PROVE  FreeInv'
  <2> USE <1>4
  <2>1. PICK l \in free_list :
          /\ GetLine(l)
          /\ line' = [line EXCEPT ![l] = [Prepared EXCEPT !.slot = line[data_line[r]].slot],
                                  ![data_line[r]].slot = None]
    BY Zenon DEF RetryLine
  <2>2. \A k \in free_list \ {l} : line'[k].state = line[k].state
    BY <1>0, <2>1 DEF LineRec
  <2>3. free_list' = free_list \ {l} /\ UNCHANGED <<free_blocks, puts>>
    BY <2>1 DEF RetryLine, GetLine
  <2>4. pc[r] = "retry" /\ pc' = [pc EXCEPT ![r] = "dec_retry"]
    BY DEF RetryLine, Goto
  <2> QED BY <2>2, <2>3, <2>4, FreeTake, Zenon
<1>5. ASSUME NEW r \in Rings, NextLine(r)
      PROVE  FreeInv'
  <2> USE <1>5
  <2>1. PICK l \in free_list : GetLine(l) /\ line' = [line EXCEPT ![l] = Prepared]
    BY Zenon DEF NextLine
  <2>2. \A k \in free_list \ {l} : line'[k].state = line[k].state
    BY <1>0, <2>1
  <2>3. free_list' = free_list \ {l} /\ UNCHANGED <<free_blocks, puts>>
    BY <2>1 DEF NextLine, GetLine
  <2>4. pc[r] = "next" /\ pc' = [pc EXCEPT ![r] = "dec_next"]
    BY DEF NextLine, Goto
  <2> QED BY <2>2, <2>3, <2>4, FreeTake, Zenon
<1>6. ASSUME NEW r \in Rings, RetryDec(r) \/ RlFreeLinesDec(r)
      PROVE  FreeInv'
  <2>1. /\ free_blocks' = free_blocks - 1 /\ UNCHANGED <<free_list, puts, line>>
        /\ pc[r] \in {"dec_next", "dec_retry"}
        /\ \E lb \in Labels \ {"dec_next", "dec_retry"} : pc' = [pc EXCEPT ![r] = lb]
    BY <1>6 DEF RetryDec, RlFreeLinesDec, Goto, Labels
  <2> QED BY <2>1, FreeCounted, Zenon
<1>7. ASSUME NEW l \in Lines, NEW b \in B, EndIoErase(l, b)
      PROVE  FreeInv'
  <2>1. UNCHANGED lists /\ Steady /\ \A k \in free_list : line'[k].state = line[k].state
    BY <1>0, <1>7 DEF EndIoErase, writer, LineRec
  <2> QED BY <2>1, FreeSteady
<1>8. ASSUME NEW l \in Lines, EndIoMeta(l)
      PROVE  FreeInv'
  <2>1. UNCHANGED lists /\ Steady /\ \A k \in free_list : line'[k].state = line[k].state
    BY <1>0, <1>8 DEF EndIoMeta, writer, LineRec
  <2> QED BY <2>1, FreeSteady
<1>9. ASSUME NEW l \in Lines, CloseLine(l)
      PROVE  FreeInv'
  <2>1. l \notin free_list
    BY <1>9 DEF CloseLine, FreeInv
  <2>2. UNCHANGED lists /\ Steady /\ \A k \in free_list : line'[k].state = line[k].state
    BY <1>0, <1>9, <2>1 DEF CloseLine, writer
  <2> QED BY <2>2, FreeSteady
<1>10. ASSUME NEW l \in Lines, LinePut(l)
      PROVE  FreeInv'
  <2>1. l \notin free_list
    BY <1>10 DEF LinePut, FreeInv
  <2> free_list' = free_list \cup {l} /\ puts' = puts + 1 /\ UNCHANGED <<free_blocks, pc>>
    BY <1>10 DEF LinePut, writer
  <2>3. Cardinality(free_list') = Cardinality(free_list) + 1
    BY <2>1, FreeSets DEF SetFacts, FinAdd
  <2>4. free_blocks + puts = Cardinality(free_list) + Cardinality(Taking)
    BY DEF FreeInv, FreeExact, Taking
  <2>5. free_blocks' + puts' = Cardinality(free_list') + Cardinality(Taking)
    BY <2>3, <2>4, FreeSets DEF Typed
  <2>6. FreeExact'
    BY <2>5 DEF FreeExact, Taking
  <2>7. line'[l].state = "FREE" /\ \A k \in free_list : line'[k] = line[k]
    BY <1>0, <1>10, <2>1 DEF LinePut, Prepared
  <2> QED BY <2>6, <2>7 DEF FreeInv
<1>11. CASE RlFreeLinesInc
  <2>1. free_blocks' + puts' = free_blocks + puts /\ UNCHANGED <<line, free_list, pc>>
    BY <1>11 DEF RlFreeLinesInc, Typed, writer
  <2> QED BY <2>1, Zenon DEF FreeInv, FreeExact
<1>12. CASE UNCHANGED vars
  BY <1>12 DEF vars, lists, writer, FreeInv, FreeExact
<1>13. ASSUME NEW r \in Rings, Writer(r)
      PROVE  FreeInv'
  <2>1. 1 \in 1 .. MaxPages
    BY LineAssumption
  <2> QED BY <1>1, <1>2, <1>3, <1>4, <1>5, <1>6, <1>13, <2>1 DEF Writer
<1> QED BY <1>7, <1>8, <1>9, <1>10, <1>11, <1>12, <1>13 DEF Next, Device
-------------------------------------------------------------------------------
(* The facts on finite sets.                                                    *)

Lib == INSTANCE FiniteSetTheorems

LEMMA SameFinite == \A S : Lib!IsFiniteSet(S) = IsFiniteSet(S) /\ Lib!Cardinality(S) = Cardinality(S)
<1>1. \A S : Lib!IsFiniteSet(S) = IsFiniteSet(S)
  BY Zenon DEF Lib!IsFiniteSet, IsFiniteSet
<1>2. \A S : Lib!Cardinality(S) = Cardinality(S)
  BY Zenon DEF Lib!Cardinality, Cardinality
<1> QED BY <1>1, <1>2

LEMMA SetFactsHold == SetFacts
<1>1. FinNone
  BY SameFinite, Lib!FS_EmptySet DEF FinNone
<1>2. FinCount
  BY SameFinite, Lib!FS_CardinalityType DEF FinCount
<1>3. FinAdd
  BY SameFinite, Lib!FS_AddElement DEF FinAdd
<1>4. FinRemove
  BY <1>2, SameFinite, Lib!FS_RemoveElement DEF FinRemove, FinCount
<1>5. FinSub
  BY SameFinite, Lib!FS_Subset DEF FinSub
<1> QED BY <1>1, <1>2, <1>3, <1>4, <1>5 DEF SetFacts
-------------------------------------------------------------------------------
(* The theorems.                                                                *)

\* No block is written before all blocks of its line are erased (pblk_line_erase and
\* the erases that requests carry along).
THEOREM ErasedFirst == Spec => []ErasedBeforeWritten
<1>1. Typed /\ ErasedInv => ErasedBeforeWritten
  BY DEF Typed, ErasedInv, ErasedBeforeWritten, Seblks
<1> QED BY <1>1, SetFactsHold, InitTyped, InitErased, StepTyped, StepErased, PTL DEF Spec

\* For any rings, lines and geometry: while the instance runs, no two writers work on
\* the same line, and none works on a line that the free list or GC gives away.
THEOREM LinesOwned == Spec => []LinesExclusive
<1>1. Typed /\ RunInv => LinesExclusive
  BY DEF RunInv, MineInv, LinesExclusive
<1>2. Init => Typed /\ RunInv
  BY SetFactsHold, InitTyped, InitRun
<1>3. Typed /\ RunInv /\ [Next]_vars => Typed' /\ RunInv'
  BY StepTyped, StepRun
<1> QED BY <1>1, <1>2, <1>3, PTL DEF Spec

\* rl->free_blocks, which decides when GC runs and when users wait, is the length of
\* the free list but for lines that are being taken or put back.
THEOREM FreeCountExact == Spec => []FreeExact
<1>1. FreeInv => FreeExact
  BY DEF FreeInv
<1> QED BY <1>1, SetFactsHold, InitTyped, InitFree, StepTyped, StepFree, PTL DEF Spec
===============================================================================
