---------------------------- MODULE PblkLineProofs ----------------------------
(* Whatever the number of rings, lines, blocks and metadata slots: blocks are    *)
(* erased before they are written, the free lines are counted exactly, and no two *)
(* rings work on one line.                                                       *)
EXTENDS PblkLine, TLAPS

-------------------------------------------------------------------------------
(* Types.  How far mem, sync and backlog go does not matter here.                *)

LineRec ==
  [state : {"FREE", "OPEN", "CLOSED", "BAD"}, fill : 0 .. Pages, ebm : SUBSET B,
   done : SUBSET B, mem : Nat, sync : Nat, slot : (1 .. Slots) \cup {None}]

Eppas == (Lines \X B) \cup {None}

Req == [left : Int, erase : BOOLEAN, eppa : Eppas, blks : SUBSET B]

\* Where a writer that sets up a line is.
SetUp == {"slot", "erase", "retry", "dec_retry", "next"}

Typed ==
  /\ line \in [Lines -> LineRec]
  /\ data_line \in [Rings -> Lines \cup {None}]
  /\ data_next \in [Rings -> Lines \cup {None}]
  /\ prev \in [Rings -> Lines \cup {None}]
  /\ free_list \subseteq Lines /\ free_blocks \in Int /\ puts \in Nat
  /\ emeta_list \in [Rings -> Seq(Lines \cup {None})]
  /\ state \in {"RUNNING", "STOPPING"}
  /\ backlog \in [Rings -> Int]
  /\ pc \in [Rings -> Labels]
  /\ req \in [Rings -> Req]
  /\ \A r \in Rings : pc[r] \in SetUp => data_line[r] # None

\* What is left of a list without its first element.
LEMMA TailList ==
  ASSUME NEW s \in Seq(Lines \cup {None}), s # <<>>
  PROVE  /\ Head(s) \in {s[i] : i \in 1 .. Len(s)}
         /\ {Tail(s)[i] : i \in 1 .. Len(Tail(s))} \subseteq {s[i] : i \in 1 .. Len(s)}
         /\ (\A i, j \in 1 .. Len(s) : i # j => s[i] # s[j]) =>
              /\ \A i, j \in 1 .. Len(Tail(s)) : i # j => Tail(s)[i] # Tail(s)[j]
              /\ Head(s) \notin {Tail(s)[i] : i \in 1 .. Len(Tail(s))}
<1>1. /\ 1 \in 1 .. Len(s) /\ Head(s) = s[1]
      /\ \A i \in 1 .. Len(Tail(s)) : i + 1 \in 1 .. Len(s) /\ i + 1 # 1 /\ Tail(s)[i] = s[i + 1]
  OBVIOUS
<1>2. \A i, j \in 1 .. Len(Tail(s)) : i # j => i + 1 # j + 1
  OBVIOUS
<1>3. {Tail(s)[i] : i \in 1 .. Len(Tail(s))} \subseteq {s[i] : i \in 1 .. Len(s)}
  BY <1>1
<1>4. ASSUME \A i, j \in 1 .. Len(s) : i # j => s[i] # s[j]
      PROVE  /\ \A i, j \in 1 .. Len(Tail(s)) : i # j => Tail(s)[i] # Tail(s)[j]
             /\ Head(s) \notin {Tail(s)[i] : i \in 1 .. Len(Tail(s))}
  BY <1>1, <1>2, <1>4
<1> QED BY <1>1, <1>3, <1>4

LEMMA StillUnder == \A a, b \in Nat : a <= b => a <= b + 1
OBVIOUS

LEMMA BlkInB == \A page \in Int : BlkOf(page) \in B
BY LineAssumption DEF BlkOf, B

\* A request that maps more pages is a request.
LEMMA MappedType ==
  ASSUME Typed, NEW r \in Rings, NEW q \in Req, NEW f \in Nat, NEW k \in Int
  PROVE  Mapped(r, q, f, k) \in Req
<1> DEFINE hits == {i \in f .. f + k - 1 : BlkOf(i) \in Eblks(data_next[r])}
           first == {i \in hits : \A j \in hits : i <= j}
           page == CHOOSE i \in first : TRUE
           got == q.erase /\ data_next[r] # None /\ first # {}
           m == Mapped(r, q, f, k)
<1>1. m = [left |-> q.left - k, erase |-> q.erase /\ data_next[r] # None /\ ~got,
           eppa |-> IF got THEN <<data_next[r], BlkOf(page)>> ELSE q.eppa,
           blks |-> q.blks \cup {BlkOf(i) : i \in f .. f + k - 1}]
  BY DEF Mapped
<1>2. q.blks \cup {BlkOf(i) : i \in f .. f + k - 1} \in SUBSET B
  BY BlkInB DEF Req
<1>3. got => <<data_next[r], BlkOf(page)>> \in Lines \X B
  <2> SUFFICES ASSUME got PROVE data_next[r] \in Lines /\ BlkOf(page) \in B
    OBVIOUS
  <2>1. data_next[r] \in Lines
    BY DEF Typed
  <2>2. page \in first
    <3> HIDE DEF first
    <3> QED OBVIOUS
  <2> HIDE DEF page
  <2> QED BY <2>1, <2>2, BlkInB
<1>4. (IF got THEN <<data_next[r], BlkOf(page)>> ELSE q.eppa) \in Eppas
  BY <1>3 DEF Req, Eppas
<1>5. (q.erase /\ data_next[r] # None /\ ~got) \in BOOLEAN
  OBVIOUS
<1>6. q.left - k \in Int
  BY DEF Req
<1> QED BY <1>1, <1>2, <1>4, <1>5, <1>6 DEF Req

\* The fields of a line.
LEMMA LineFields ==
  \A rec \in LineRec :
    rec.fill \in Nat /\ rec.done \subseteq B /\ rec.mem \in Nat /\ rec.sync \in Nat
BY LineAssumption DEF LineRec

LEMMA Records ==
  /\ Prepared \in LineRec
  /\ [Prepared EXCEPT !.state = "FREE"] \in LineRec
  /\ \A x \in 1 .. Slots :
       [Prepared EXCEPT !.fill = 0, !.ebm = B, !.done = B, !.slot = x] \in LineRec
  /\ NoReq \in Req
<1>1. 0 \in 0 .. Pages /\ Pages \in 0 .. Pages
  BY LineAssumption
<1>2. Prepared \in LineRec /\ [Prepared EXCEPT !.state = "FREE"] \in LineRec
  BY <1>1 DEF Prepared, LineRec
<1>3. ASSUME NEW x \in 1 .. Slots
      PROVE  [Prepared EXCEPT !.fill = 0, !.ebm = B, !.done = B, !.slot = x] \in LineRec
  BY <1>1, Zenon DEF Prepared, LineRec
<1>4. NoReq \in Req
  BY DEF NoReq, Req, Eppas
<1> QED BY <1>2, <1>3, <1>4, Zenon

\* A new request is a request.
LEMMA NewReqType ==
  ASSUME Typed, NEW r \in Rings, NEW n \in Int
  PROVE  NewReq(r, n) \in Req
BY Zenon DEF NewReq, NoReq, Req, Eppas

\* The lines after pages were mapped, and an erase marked.
LEMMA LinesType ==
  ASSUME Typed
  PROVE  /\ \A ln \in [Lines -> LineRec], q \in Req : Marked(ln, q) \in [Lines -> LineRec]
         /\ \A r \in Rings, n \in Nat :
              data_line[r] # None /\ line[data_line[r]].fill + n <= Pages
                => Filled(r, n) \in [Lines -> LineRec]
<1>1. ASSUME NEW ln \in [Lines -> LineRec], NEW q \in Req
      PROVE  Marked(ln, q) \in [Lines -> LineRec]
  <2>1. CASE q.eppa = None
    BY <2>1 DEF Marked
  <2>2. CASE q.eppa # None
    <3>1. q.eppa[1] \in Lines /\ q.eppa[2] \in B
      BY <2>2 DEF Req, Eppas
    <3> DEFINE e == q.eppa[1]  b == q.eppa[2]
    <3>2. Marked(ln, q) = [ln EXCEPT ![e] = [ln[e] EXCEPT !.ebm = ln[e].ebm \cup {b}]]
      BY <2>2 DEF Marked
    <3>3. [ln[e] EXCEPT !.ebm = ln[e].ebm \cup {b}] \in LineRec
      BY <3>1 DEF LineRec
    <3> QED BY <3>2, <3>3, Zenon
  <2> QED BY <2>1, <2>2
<1>2. ASSUME NEW r \in Rings, NEW n \in Nat, data_line[r] # None,
             line[data_line[r]].fill + n <= Pages
      PROVE  Filled(r, n) \in [Lines -> LineRec]
  <2> DEFINE d == data_line[r]
  <2>1. d \in Lines /\ line[d] \in LineRec
    BY <1>2 DEF Typed
  <2>2. [line[d] EXCEPT !.fill = line[d].fill + n] \in LineRec
    BY <1>2, <2>1, LineAssumption DEF LineRec
  <2> QED BY <2>1, <2>2 DEF Filled, Typed
<1> QED BY <1>1, <1>2

\* Sending a request keeps the types.
LEMMA SendType ==
  ASSUME Typed, NEW r \in Rings, NEW q \in Req, NEW ln \in [Lines -> LineRec],
         Send(r, q, ln)
  PROVE  /\ line' \in [Lines -> LineRec]
         /\ emeta_list' \in [Rings -> Seq(Lines \cup {None})]
         /\ req' \in [Rings -> Req]
         /\ pc' \in [Rings -> Labels] /\ pc' = [pc EXCEPT ![r] = "idle"]
<1> DEFINE todo == emeta_list[r]
           h == Head(todo)
<1>1. todo \in Seq(Lines \cup {None})
  BY DEF Typed
<1>2. todo # <<>> => h \in Lines \cup {None} /\ Tail(todo) \in Seq(Lines \cup {None})
  BY <1>1
<1>3. \A l \in Lines : [ln[l] EXCEPT !.mem = @ + 1] \in LineRec
  BY DEF LineRec
<1>4. h \in Lines \cup {None} => [ln EXCEPT ![h].mem = @ + 1] \in [Lines -> LineRec]
  BY <1>3, Zenon
<1>5. line' \in [Lines -> LineRec]
  BY <1>2, <1>4, LinesType DEF Send
<1>6. emeta_list' \in [Rings -> Seq(Lines \cup {None})]
  BY <1>2 DEF Send, Typed
<1>7. NoReq \in Req
  BY Records, Zenon
<1>8. req' \in [Rings -> Req]
  BY <1>7 DEF Send, Typed
<1>9. pc' \in [Rings -> Labels] /\ pc' = [pc EXCEPT ![r] = "idle"]
  BY DEF Send, Typed, Labels
<1> QED BY <1>5, <1>6, <1>8, <1>9
-------------------------------------------------------------------------------
(* What a request does to the lines: it fills the data line, marks an erase and  *)
(* sends a page of metadata of the oldest full line, and nothing else.           *)

\* Line m is line k with, at most, more data.
Fuller(m, k) ==
  /\ m.state = k.state /\ m.fill >= k.fill /\ m.done = k.done
  /\ m.mem = k.mem /\ m.sync = k.sync /\ m.slot = k.slot

LEMMA FilledFields ==
  ASSUME Typed, NEW r \in Rings, NEW n \in Nat, NEW l \in Lines
  PROVE  Fuller(Filled(r, n)[l], line[l])
<1>1. line[l] \in LineRec /\ line[l].fill \in Nat
  BY DEF Typed, LineRec
<1> QED BY <1>1 DEF Filled, Fuller, Typed, LineRec

LEMMA MarkedFields ==
  ASSUME NEW ln \in [Lines -> LineRec], NEW q \in Req, NEW l \in Lines
  PROVE  Fuller(Marked(ln, q)[l], ln[l])
<1>1. ln[l] \in LineRec /\ ln[l].fill \in Nat
  BY DEF LineRec
<1> QED BY <1>1 DEF Marked, Fuller, LineRec

\* A request that is sent at once, and the second half of one that filled a line.
LEMMA RequestSends ==
  ASSUME Typed, NEW r \in Rings, NEW n \in 1 .. MaxPages, Write(r, n) \/ WriteRest(r)
  PROVE  \E q \in Req, ln \in [Lines -> LineRec] :
           Send(r, q, ln) /\ \A l \in Lines : Fuller(ln[l], line[l])
<1>0. n \in Nat /\ MaxPages \in Nat /\ Pages \in Nat
  BY LineAssumption
<1>1. CASE Write(r, n)
  <2> DEFINE f == line[data_line[r]].fill
             q == Mapped(r, NewReq(r, n), f, n)
  <2>1. data_line[r] # None /\ f + n < Pages /\ f \in Nat
    BY <1>1 DEF Write, RoomFor, Typed, LineRec
  <2>2. q \in Req
    <3>1. NewReq(r, n) \in Req
      BY <1>0, NewReqType
    <3> QED BY <1>0, <2>1, <3>1, MappedType
  <2>3. Filled(r, n) \in [Lines -> LineRec]
    BY <1>0, <2>1, LinesType
  <2>4. Send(r, q, Filled(r, n))
    BY <1>1 DEF Write
  <2> HIDE DEF q
  <2> QED BY <1>0, <2>2, <2>3, <2>4, FilledFields
<1>2. CASE WriteRest(r)
  <2> DEFINE q == Mapped(r, req[r], Pages - 1, 1)
             f == line[data_line[r]].fill
             q2 == Mapped(r, q, f, q.left)
  <2>1. Pages - 1 \in Nat /\ req[r] \in Req
    BY LineAssumption DEF Typed
  <2>2. q \in Req
    BY <2>1, MappedType
  <2>3. q.left \in Int
    BY <2>2 DEF Req
  <2>4. \/ Send(r, q, line)
        \/ q.left > 0 /\ RoomFor(r, q.left) /\ Send(r, q2, Filled(r, q.left))
    BY <1>2 DEF WriteRest
  <2> HIDE DEF q
  <2>5. CASE Send(r, q, line)
    <3>1. line \in [Lines -> LineRec] /\ \A l \in Lines : Fuller(line[l], line[l])
      BY DEF Typed, Fuller, LineRec
    <3> QED BY <2>2, <2>5, <3>1
  <2>6. CASE q.left > 0 /\ RoomFor(r, q.left) /\ Send(r, q2, Filled(r, q.left))
    <3>1. data_line[r] # None /\ f + q.left < Pages /\ f \in Nat /\ q.left \in Nat
      BY <2>3, <2>6 DEF RoomFor, Typed, LineRec
    <3>2. q2 \in Req
      BY <2>2, <3>1, MappedType
    <3>3. Filled(r, q.left) \in [Lines -> LineRec]
      BY <1>0, <3>1, LinesType
    <3> HIDE DEF q2
    <3> QED BY <2>6, <3>1, <3>2, <3>3, FilledFields
  <2> QED BY <2>4, <2>5, <2>6
<1> QED BY <1>1, <1>2

\* A request that fills its line.
LEMMA LastFills ==
  ASSUME Typed, NEW r \in Rings, NEW n \in 1 .. MaxPages, WriteLast(r, n)
  PROVE  \E q \in Req, ln \in [Lines -> LineRec] :
           /\ req' = [req EXCEPT ![r] = q] /\ line' = Marked(ln, q)
           /\ \A l \in Lines : Fuller(ln[l], line[l])
<1> DEFINE f == line[data_line[r]].fill
           q == Mapped(r, NewReq(r, n), f, Pages - f - 1)
<1>0. n \in Nat /\ MaxPages \in Nat /\ Pages \in Nat
  BY LineAssumption
<1>1. data_line[r] # None /\ f < Pages /\ f \in Nat
  BY DEF WriteLast, Typed, LineRec
<1>2. q \in Req
  <2>1. NewReq(r, n) \in Req
    BY <1>0, NewReqType
  <2> QED BY <1>0, <1>1, <2>1, MappedType
<1>3. Pages - f \in Nat /\ f + (Pages - f) <= Pages
  BY <1>0, <1>1
<1>4. Filled(r, Pages - f) \in [Lines -> LineRec]
  BY <1>1, <1>3, LinesType
<1>5. req' = [req EXCEPT ![r] = q] /\ line' = Marked(Filled(r, Pages - f), q)
  BY DEF WriteLast
<1> HIDE DEF q
<1> QED BY <1>2, <1>3, <1>4, <1>5, FilledFields, Zenon
-------------------------------------------------------------------------------
(* All steps keep the types.                                                    *)

\* The writer's steps up to the change of lines keep the types.
LEMMA WriteTyped ==
  ASSUME Typed, NEW r \in Rings, NEW n \in 1 .. MaxPages,
         Write(r, n) \/ WriteLast(r, n) \/ WriteRest(r) \/ WriteLost(r)
  PROVE  Typed'
<1>1. \A m \in 1 .. MaxPages : MaySubmit(r, m) => backlog' \in [Rings -> Int]
  BY LineAssumption DEF MaySubmit, Typed
<1>2. CASE Write(r, n) \/ WriteRest(r)
  <2>1. PICK q \in Req, ln \in [Lines -> LineRec] : Send(r, q, ln)
    BY <1>2, RequestSends
  <2>2. /\ line' \in [Lines -> LineRec]
        /\ emeta_list' \in [Rings -> Seq(Lines \cup {None})]
        /\ req' \in [Rings -> Req]
        /\ pc' \in [Rings -> Labels] /\ pc' = [pc EXCEPT ![r] = "idle"]
    BY <2>1, SendType
  <2>3. backlog' \in [Rings -> Int] /\ prev' \in [Rings -> Lines \cup {None}]
    BY <1>1, <1>2, Zenon DEF Write, WriteRest, Typed
  <2> QED BY <1>2, <2>2, <2>3, Zenon DEF Write, WriteRest, Typed, lists, SetUp
<1>3. CASE WriteLast(r, n)
  <2>1. PICK q \in Req, ln \in [Lines -> LineRec] :
          req' = [req EXCEPT ![r] = q] /\ line' = Marked(ln, q)
    BY <1>3, LastFills
  <2>2. line' \in [Lines -> LineRec] /\ req' \in [Rings -> Req]
    BY <2>1, LinesType, Zenon DEF Typed
  <2>3. backlog' \in [Rings -> Int]
    BY <1>1, <1>3, Zenon DEF WriteLast
  <2>4. prev' \in [Rings -> Lines \cup {None}] /\ pc' \in [Rings -> Labels]
    BY <1>3 DEF WriteLast, Typed, Labels
  <2> QED BY <1>3, <2>2, <2>3, <2>4 DEF WriteLast, Typed, lists, SetUp
<1>4. CASE WriteLost(r)
  <2>1. backlog' \in [Rings -> Int]
    BY <1>1, <1>4 DEF WriteLost, Typed
  <2> QED BY <1>4, <2>1, Zenon DEF WriteLost, Typed, Labels, lists, SetUp
<1> QED BY <1>2, <1>3, <1>4

\* The records the other steps of a writer make.
LEMMA FieldsType ==
  ASSUME NEW rec \in LineRec
  PROVE  /\ \A s \in 1 .. Slots : [rec EXCEPT !.slot = s, !.mem = 0, !.sync = 0] \in LineRec
         /\ [rec EXCEPT !.fill = 0, !.ebm = B, !.done = @ \cup (B \ rec.ebm)] \in LineRec
         /\ [rec EXCEPT !.state = "BAD", !.ebm = B, !.done = B] \in LineRec
         /\ [Prepared EXCEPT !.slot = rec.slot] \in LineRec
         /\ [rec EXCEPT !.slot = None] \in LineRec
         /\ [rec EXCEPT !.mem = Metas] \in LineRec
         /\ \A b \in B : [rec EXCEPT !.done = @ \cup {b}] \in LineRec
         /\ [rec EXCEPT !.sync = @ + 1] \in LineRec
         /\ [rec EXCEPT !.state = "CLOSED", !.slot = None] \in LineRec
<1>1. \A s \in 1 .. Slots : [rec EXCEPT !.slot = s, !.mem = 0, !.sync = 0] \in LineRec
  BY LineAssumption, Zenon DEF LineRec
<1>2. [rec EXCEPT !.fill = 0, !.ebm = B, !.done = @ \cup (B \ rec.ebm)] \in LineRec
  <2>1. rec.done \cup (B \ rec.ebm) \in SUBSET B /\ 0 \in 0 .. Pages /\ B \in SUBSET B
    BY LineAssumption DEF LineRec
  <2> DEFINE done == rec.done \cup (B \ rec.ebm)
  <2> HIDE DEF done
  <2>2. [rec EXCEPT !.fill = 0, !.ebm = B, !.done = done] \in LineRec
    BY <2>1, Zenon DEF LineRec, done
  <2> QED BY <2>2 DEF done
<1>3. [rec EXCEPT !.state = "BAD", !.ebm = B, !.done = B] \in LineRec
  BY LineAssumption, Zenon DEF LineRec
<1>4. [Prepared EXCEPT !.slot = rec.slot] \in LineRec
  BY LineAssumption DEF LineRec, Prepared
<1>5. [rec EXCEPT !.slot = None] \in LineRec
  BY LineAssumption DEF LineRec
<1>6. [rec EXCEPT !.mem = Metas] \in LineRec
  BY LineAssumption DEF LineRec
<1>7. \A b \in B : [rec EXCEPT !.done = @ \cup {b}] \in LineRec
  BY LineAssumption DEF LineRec
<1>8. [rec EXCEPT !.sync = @ + 1] \in LineRec
  BY LineAssumption DEF LineRec
<1>9. [rec EXCEPT !.state = "CLOSED", !.slot = None] \in LineRec
  BY LineAssumption, Zenon DEF LineRec
<1> QED BY <1>1, <1>2, <1>3, <1>4, <1>5, <1>6, <1>7, <1>8, <1>9, Zenon

\* So do its other steps.
LEMMA ReplaceTyped ==
  ASSUME Typed, NEW r \in Rings,
         \/ RlInserted(r) \/ ReplaceNone(r) \/ ReplaceStopped(r) \/ ReplaceLine(r)
         \/ SetupMetadata(r) \/ InitLine(r)
         \/ InitBad(r) \/ RetryLine(r) \/ RetryNone(r) \/ RetryDec(r)
         \/ NextLine(r) \/ StopWrites(r) \/ RlFreeLinesDec(r)
         \/ CloseMeta(r) \/ CloseMetaSync(r) \/ Drained(r)
  PROVE  Typed'
<1> DEFINE d == data_line[r]
<1>0. /\ line \in [Lines -> LineRec]
      /\ pc[r] \in SetUp => d \in Lines /\ line[d] \in LineRec
  BY DEF Typed
<1>1. CASE RlInserted(r)
  BY <1>1 DEF RlInserted, Typed, Labels, SetUp, Goto, lists, writer
<1>2. CASE ReplaceNone(r)
  BY <1>2 DEF ReplaceNone, Typed, Labels, SetUp, Goto, lists, writer
<1>3. CASE ReplaceStopped(r)
  BY <1>3 DEF ReplaceStopped, Typed, Labels, SetUp, Goto, lists, writer
<1>4. CASE ReplaceLine(r)
  BY <1>4 DEF ReplaceLine, Typed, Labels, SetUp, Goto, lists, writer
<1>5. CASE RetryNone(r)
  BY <1>5 DEF RetryNone, Typed, Labels, SetUp, Goto, lists, writer
<1>6. CASE RetryDec(r)
  BY <1>6 DEF RetryDec, Typed, Labels, SetUp, Goto, lists, writer
<1>7. CASE RlFreeLinesDec(r)
  BY <1>7 DEF RlFreeLinesDec, Typed, Labels, SetUp, Goto, lists, writer
<1>8. CASE CloseMeta(r)
  BY <1>8 DEF CloseMeta, Typed, Labels, SetUp, Goto, lists, writer
<1>9. CASE Drained(r)
  BY <1>9, Zenon DEF Drained, Typed, Labels, SetUp, Goto, lists, writer
<1>10. CASE SetupMetadata(r)
  <2>1. PICK s \in 1 .. Slots :
          line' = [line EXCEPT ![data_line[r]].slot = s, ![data_line[r]].mem = 0,
                               ![data_line[r]].sync = 0]
    BY <1>10, Zenon DEF SetupMetadata
  <2>2. d \in Lines /\ line[d] \in LineRec
    BY <1>0, <1>10, Zenon DEF SetupMetadata, SetUp
  <2>3. line' = [line EXCEPT ![d] = [line[d] EXCEPT !.slot = s, !.mem = 0, !.sync = 0]]
    BY <1>0, <2>1, <2>2, Zenon DEF LineRec
  <2>4. line' \in [Lines -> LineRec]
    BY <1>0, <2>2, <2>3, FieldsType, Zenon
  <2> QED BY <1>10, <2>4, Zenon DEF SetupMetadata, Typed, Labels, SetUp, Goto, lists, writer
<1>11. CASE InitLine(r)
  <2>1. line' \in [Lines -> LineRec]
    <3>1. d \in Lines /\ line[d] \in LineRec
      BY <1>0, <1>11 DEF InitLine, SetUp
    <3>2. line' = [line EXCEPT ![d] = [line[d] EXCEPT !.fill = 0, !.ebm = B,
                                                      !.done = @ \cup (B \ line[d].ebm)]]
      BY <1>0, <1>11, <3>1, Zenon DEF InitLine, LineRec, Eblks
    <3> QED BY <1>0, <3>1, <3>2, FieldsType, Zenon
  <2> QED BY <1>11, <2>1 DEF InitLine, Typed, Labels, SetUp, Goto, lists, writer
<1>12. CASE InitBad(r)
  <2>1. line' \in [Lines -> LineRec]
    <3>1. d \in Lines /\ line[d] \in LineRec
      BY <1>0, <1>12 DEF InitBad, SetUp
    <3>2. line' = [line EXCEPT ![d] = [line[d] EXCEPT !.state = "BAD", !.ebm = B, !.done = B]]
      BY <1>0, <1>12, <3>1, Zenon DEF InitBad, LineRec
    <3> QED BY <1>0, <3>1, <3>2, FieldsType, Zenon
  <2> QED BY <1>12, <2>1 DEF InitBad, Typed, Labels, SetUp, Goto, lists, writer
<1>13. CASE RetryLine(r)
  <2>1. PICK l \in free_list :
          /\ GetLine(l)
          /\ line' = [line EXCEPT ![l] = [Prepared EXCEPT !.slot = line[data_line[r]].slot],
                                  ![data_line[r]].slot = None]
          /\ data_line' = [data_line EXCEPT ![r] = l]
    BY <1>13, Zenon DEF RetryLine
  <2>2. l \in Lines /\ d \in Lines /\ line[d] \in LineRec
    BY <1>0, <1>13 DEF RetryLine, SetUp, Typed
  <2>3. [Prepared EXCEPT !.slot = line[d].slot] \in LineRec
    BY <2>2, FieldsType, Zenon
  <2> DEFINE ln == [line EXCEPT ![l] = [Prepared EXCEPT !.slot = line[d].slot]]
  <2>4. ln \in [Lines -> LineRec]
    BY <1>0, <2>2, <2>3
  <2>5. line' = [ln EXCEPT ![d] = [ln[d] EXCEPT !.slot = None]]
    BY <2>1
  <2>6. line' \in [Lines -> LineRec]
    <3> HIDE DEF ln
    <3> QED BY <2>2, <2>4, <2>5, FieldsType, Zenon
  <2>7. data_line' \in [Rings -> Lines \cup {None}] /\ data_line'[r] # None
    BY Zenon, <2>1, <2>2, LineAssumption DEF Typed
  <2>8. \A q \in Rings : pc'[q] \in SetUp => data_line'[q] # None
    BY <1>13, <2>1, <2>7 DEF RetryLine, Goto, Typed
  <2> QED BY <1>13, <2>1, <2>6, <2>7, <2>8, Zenon DEF RetryLine, GetLine, Typed, Labels, Goto
<1>14. CASE NextLine(r)
  <2>1. line' \in [Lines -> LineRec]
    BY <1>0, <1>14, Records, Zenon DEF NextLine, Typed
  <2> QED BY <1>14, <2>1 DEF NextLine, GetLine, Typed, Labels, SetUp, Goto, lists, writer
<1>15. CASE StopWrites(r)
  <2>1. backlog' \in [Rings -> Int]
    BY <1>15, LineAssumption DEF StopWrites, Typed
  <2> QED BY <1>15, <2>1 DEF StopWrites, Typed, Labels, SetUp, Goto, lists, writer
<1>16. CASE CloseMetaSync(r)
  <2>1. line' \in [Lines -> LineRec]
    BY <1>0, <1>16, FieldsType, Zenon DEF CloseMetaSync
  <2> QED BY <1>16, <2>1 DEF CloseMetaSync, Typed, Labels, SetUp, Goto, lists, writer
<1> QED BY <1>1, <1>2, <1>3, <1>4, <1>5, <1>6, <1>7, <1>8, <1>9, <1>10, <1>11, <1>12, <1>13, <1>14, <1>15, <1>16

\* Completions, the close worker and GC keep the types.
LEMMA DeviceTyped ==
  ASSUME Typed, Device \/ RlFreeLinesInc
  PROVE  Typed'
<1>0. line \in [Lines -> LineRec]
  BY DEF Typed
<1>1. ASSUME NEW l \in Lines, NEW b \in B, EndIoErase(l, b)
      PROVE  Typed'
  <2>1. line' \in [Lines -> LineRec]
    BY <1>0, <1>1, FieldsType, Zenon DEF EndIoErase
  <2> QED BY <1>1, <2>1 DEF EndIoErase, Typed, lists, writer
<1>2. ASSUME NEW l \in Lines, EndIoMeta(l)
      PROVE  Typed'
  <2>1. line' \in [Lines -> LineRec]
    BY <1>0, <1>2, FieldsType, Zenon DEF EndIoMeta
  <2> QED BY <1>2, <2>1 DEF EndIoMeta, Typed, lists, writer
<1>3. ASSUME NEW l \in Lines, CloseLine(l)
      PROVE  Typed'
  <2>1. line' = [line EXCEPT ![l] = [line[l] EXCEPT !.state = "CLOSED", !.slot = None]]
    BY <1>0, <1>3, Zenon DEF CloseLine, LineRec
  <2>2. line' \in [Lines -> LineRec]
    BY <1>0, <2>1, FieldsType, Zenon
  <2> QED BY <1>3, <2>2 DEF CloseLine, Typed, lists, writer
<1>4. ASSUME NEW l \in Lines, LinePut(l)
      PROVE  Typed'
  <2>1. line' \in [Lines -> LineRec]
    BY <1>0, <1>4, Records, Zenon DEF LinePut
  <2> QED BY <1>4, <2>1 DEF LinePut, Typed, lists, writer
<1>5. CASE RlFreeLinesInc
  BY <1>5 DEF RlFreeLinesInc, Typed, lists, writer
<1> QED BY <1>1, <1>2, <1>3, <1>4, <1>5 DEF Device

LEMMA StepTyped == Typed /\ [Next]_vars => Typed'
<1> SUFFICES ASSUME Typed, [Next]_vars PROVE Typed'
  OBVIOUS
<1>1. ASSUME NEW r \in Rings, Writer(r)
      PROVE  Typed'
  <2>1. 1 \in 1 .. MaxPages
    BY LineAssumption
  <2> QED BY <1>1, <2>1, WriteTyped, ReplaceTyped DEF Writer
<1>2. CASE Device \/ RlFreeLinesInc
  BY <1>2, DeviceTyped
<1>3. CASE UNCHANGED vars
  BY Zenon, <1>3 DEF vars, lists, writer, Typed
<1> QED BY <1>1, <1>2, <1>3 DEF Next
-------------------------------------------------------------------------------
(* How requests change the fields of a line.                                    *)

\* Line l is the oldest one of ring r that waits for its metadata.
Oldest(r, l) == emeta_list[r] # <<>> /\ l = Head(emeta_list[r])

\* A page of its metadata is sent along, the last one perhaps.
MetaSent(r) ==
  /\ emeta_list[r] # <<>>
  /\ \A l \in Lines : line'[l].mem = IF Oldest(r, l) THEN line[l].mem + 1 ELSE line[l].mem
  /\ LET todo == emeta_list[r]
     IN  emeta_list' = IF line[Head(todo)].mem + 1 = Metas
                       THEN [emeta_list EXCEPT ![r] = Tail(todo)] ELSE emeta_list

NoMetaSent ==
  UNCHANGED emeta_list /\ \A l \in Lines : line'[l].mem = line[l].mem

LEMMA SendFields ==
  ASSUME Typed, NEW r \in Rings, NEW q \in Req, NEW ln \in [Lines -> LineRec],
         Send(r, q, ln), \A l \in Lines : Fuller(ln[l], line[l])
  PROVE  /\ \A l \in Lines :
              /\ line'[l].state = line[l].state /\ line'[l].fill >= line[l].fill
              /\ line'[l].done = line[l].done /\ line'[l].sync = line[l].sync
              /\ line'[l].slot = line[l].slot
         /\ MetaSent(r) \/ NoMetaSent
<1> DEFINE todo == emeta_list[r]
           h == Head(todo)
           meta == q.eppa = None /\ todo # <<>> /\ ValidMetaPpa(q, h)
<1>0. /\ \A l \in Lines : ln[l] \in LineRec /\ ln[l].fill \in Nat /\ line[l].fill \in Nat
      /\ line \in [Lines -> LineRec]
  BY DEF Typed, LineRec
<1>1. CASE meta
  <2>1. line' = [ln EXCEPT ![h].mem = @ + 1] /\ todo # <<>>
    BY <1>1 DEF Send
  <2>2. \A l \in Lines : IF l = h THEN line'[l] = [ln[l] EXCEPT !.mem = @ + 1]
                                   ELSE line'[l] = ln[l]
    BY <2>1
  <2>3. \A l \in Lines :
          /\ line'[l].state = line[l].state /\ line'[l].fill >= line[l].fill
          /\ line'[l].done = line[l].done /\ line'[l].sync = line[l].sync
          /\ line'[l].slot = line[l].slot
          /\ line'[l].mem = IF l = h THEN line[l].mem + 1 ELSE line[l].mem
    <3> SUFFICES ASSUME NEW l \in Lines
                 PROVE  /\ line'[l].state = line[l].state /\ line'[l].fill >= line[l].fill
                        /\ line'[l].done = line[l].done /\ line'[l].sync = line[l].sync
                        /\ line'[l].slot = line[l].slot
                        /\ line'[l].mem = IF l = h THEN line[l].mem + 1 ELSE line[l].mem
      OBVIOUS
    <3>1. Fuller(ln[l], line[l]) /\ ln[l] \in LineRec
      BY Zenon, <1>0
    <3>2. CASE l = h
      <4>1. line'[l] = [ln[l] EXCEPT !.mem = @ + 1]
        BY <2>2, <3>2
      <4>2. /\ line'[l].state = ln[l].state /\ line'[l].fill = ln[l].fill
            /\ line'[l].done = ln[l].done /\ line'[l].sync = ln[l].sync
            /\ line'[l].slot = ln[l].slot /\ line'[l].mem = ln[l].mem + 1
        BY <3>1, <4>1 DEF LineRec
      <4> QED BY <3>1, <3>2, <4>2 DEF Fuller
    <3>3. CASE l # h
      BY <2>2, <3>1, <3>3, Zenon DEF Fuller
    <3> QED BY <3>2, <3>3
  <2>4. emeta_list' = IF line[h].mem + 1 = Metas
                      THEN [emeta_list EXCEPT ![r] = Tail(todo)] ELSE emeta_list
    BY <1>1 DEF Send
  <2>5. MetaSent(r)
    BY <2>1, <2>3, <2>4 DEF MetaSent, Oldest
  <2> QED BY <2>3, <2>5
<1>2. CASE ~meta
  <2>1. line' = Marked(ln, q) /\ UNCHANGED emeta_list
    BY <1>2 DEF Send
  <2>2. \A l \in Lines : Fuller(line'[l], ln[l])
    BY <2>1, MarkedFields
  <2>3. line' \in [Lines -> LineRec]
    BY <2>1, LinesType
  <2>4. \A l \in Lines : line'[l].fill \in Nat
    BY <2>3 DEF LineRec
  <2> QED BY <1>0, <2>1, <2>2, <2>4 DEF Fuller, NoMetaSent
<1> QED BY <1>1, <1>2

\* Every request, whether it fills the line or not.
LEMMA RequestFields ==
  ASSUME Typed, NEW r \in Rings, NEW n \in 1 .. MaxPages,
         Write(r, n) \/ WriteLast(r, n) \/ WriteRest(r)
  PROVE  /\ \A l \in Lines :
              /\ line'[l].state = line[l].state /\ line'[l].fill >= line[l].fill
              /\ line'[l].done = line[l].done /\ line'[l].sync = line[l].sync
              /\ line'[l].slot = line[l].slot
         /\ WriteLast(r, n) => NoMetaSent
         /\ MetaSent(r) \/ NoMetaSent
<1>1. CASE WriteLast(r, n)
  <2>1. PICK q \in Req, ln \in [Lines -> LineRec] :
          line' = Marked(ln, q) /\ \A l \in Lines : Fuller(ln[l], line[l])
    BY <1>1, LastFills
  <2>2. \A l \in Lines : Fuller(line'[l], ln[l])
    BY <2>1, MarkedFields
  <2>3. line' \in [Lines -> LineRec]
    BY <2>1, LinesType
  <2>4. \A l \in Lines : line'[l].fill \in Nat /\ line[l].fill \in Nat /\ ln[l].fill \in Nat
    BY Zenon, <2>1, <2>3, LineFields DEF Typed
  <2>5. UNCHANGED emeta_list
    BY <1>1 DEF WriteLast
  <2> QED BY <2>1, <2>2, <2>4, <2>5 DEF Fuller, NoMetaSent
<1>2. CASE ~WriteLast(r, n)
  BY <1>2, RequestSends, SendFields
<1> QED BY Zenon, <1>1, <1>2
-------------------------------------------------------------------------------
(* Blocks are erased before they are written.                                   *)

\* A line that takes data has been erased.  No step of any ring, completion or worker
\* breaks this: it is inductive, line by line.
ErasedInv == \A l \in Lines : line[l].fill < Pages => line[l].done = B

LEMMA InitErased == Init => ErasedInv
<1> SUFFICES ASSUME Init, NEW l \in Lines, line[l].fill < Pages PROVE line[l].done = B
  BY DEF ErasedInv
<1> PICK d \in [Rings -> Lines], n \in [Rings -> Lines], s \in [Rings -> 1 .. Cardinality(Rings)] :
      FirstData(d, n, s)
  BY DEF Init
<1> DEFINE x == s[CHOOSE r \in Rings : d[r] = l]
<1>1. line[l] = CASE \E r \in Rings : d[r] = l ->
                       [Prepared EXCEPT !.fill = 0, !.ebm = B, !.done = B, !.slot = x]
                  [] \E r \in Rings : n[r] = l -> Prepared
                  [] OTHER -> [Prepared EXCEPT !.state = "FREE"]
  BY Zenon DEF FirstData
<1> HIDE DEF x
<1>2. CASE \E r \in Rings : d[r] = l
  <2>1. \/ line[l] = [Prepared EXCEPT !.fill = 0, !.ebm = B, !.done = B, !.slot = x]
        \/ line[l] = Prepared
    BY <1>1, <1>2
  <2>2. CASE line[l] = Prepared
    BY <2>2, LineAssumption DEF Prepared
  <2>3. CASE line[l] = [Prepared EXCEPT !.fill = 0, !.ebm = B, !.done = B, !.slot = x]
    BY <2>3 DEF Prepared
  <2> QED BY <2>1, <2>2, <2>3
<1>3. CASE ~\E r \in Rings : d[r] = l
  <2>1. line[l] = Prepared \/ line[l] = [Prepared EXCEPT !.state = "FREE"]
    BY <1>1, <1>3
  <2>2. line[l].fill = Pages
    BY <2>1 DEF Prepared
  <2> QED BY <2>2, LineAssumption
<1> QED BY <1>2, <1>3

\* How one step may change the fill and the erased blocks of a line.
Advances(l) ==
  \/ line'[l].fill >= line[l].fill /\ line[l].done \subseteq line'[l].done
  \/ line'[l].done = B
  \/ line'[l].fill = Pages

LEMMA StepAdvances ==
  ASSUME Typed, Next, NEW l \in Lines
  PROVE  Advances(l)
<1>0. /\ line \in [Lines -> LineRec] /\ line[l] \in LineRec /\ line[l].fill \in Nat
      /\ line[l].done \subseteq B
  BY DEF Typed, LineRec
<1>1. ASSUME UNCHANGED line PROVE Advances(l)
  BY <1>0, <1>1 DEF Advances
<1>2. ASSUME NEW r \in Rings, NEW n \in 1 .. MaxPages,
             Write(r, n) \/ WriteLast(r, n) \/ WriteRest(r)
      PROVE  Advances(l)
  BY <1>2, RequestFields DEF Advances
<1>3. ASSUME NEW r \in Rings, SetupMetadata(r)
      PROVE  Advances(l)
  BY <1>0, <1>3 DEF SetupMetadata, Advances, LineRec
<1>4. ASSUME NEW r \in Rings, InitLine(r)
      PROVE  Advances(l)
  <2> DEFINE d == data_line[r]
  <2>1. CASE l # d
    <3>1. line'[l] = line[l]
      BY <1>0, <1>4, <2>1 DEF InitLine
    <3> QED BY <1>0, <3>1 DEF Advances
  <2>2. CASE l = d
    <3>1. line'[l].done = line[l].done \cup (B \ line[l].ebm)
      BY <1>0, <1>4, <2>2 DEF InitLine, LineRec, Eblks
    <3>2. B \ line[l].done = B \ line[l].ebm
      BY <1>4, <2>2 DEF InitLine, Erased, Seblks, Eblks
    <3>3. line'[l].done = B
      BY <1>0, <3>1, <3>2
    <3> QED BY <3>3 DEF Advances
  <2> QED BY <2>1, <2>2
<1>5. ASSUME NEW r \in Rings, InitBad(r)
      PROVE  Advances(l)
  BY <1>0, <1>5 DEF InitBad, Advances, LineRec
<1>6. ASSUME NEW r \in Rings, RetryLine(r)
      PROVE  Advances(l)
  <2>1. PICK k \in free_list :
          line' = [line EXCEPT ![k] = [Prepared EXCEPT !.slot = line[data_line[r]].slot],
                               ![data_line[r]].slot = None]
    BY <1>6, Zenon DEF RetryLine
  <2>2. CASE l = k
    <3>1. line'[l].fill = Pages
      BY <1>0, <2>1, <2>2 DEF Prepared
    <3> QED BY <3>1 DEF Advances
  <2>3. CASE l # k
    <3>1. line'[l].fill = line[l].fill /\ line'[l].done = line[l].done
      BY <1>0, <2>1, <2>3 DEF LineRec
    <3> QED BY <1>0, <3>1 DEF Advances
  <2> QED BY <2>2, <2>3
<1>7. ASSUME NEW r \in Rings, NextLine(r)
      PROVE  Advances(l)
  <2>1. PICK k \in free_list : line' = [line EXCEPT ![k] = Prepared]
    BY <1>7, Zenon DEF NextLine
  <2>2. line'[l] = Prepared \/ line'[l] = line[l]
    BY <1>0, <2>1
  <2> QED BY <1>0, <2>2 DEF Advances, Prepared
<1>8. ASSUME NEW r \in Rings, CloseMetaSync(r)
      PROVE  Advances(l)
  <2>1. line'[l] = line[l] \/ line'[l] = [line[l] EXCEPT !.mem = Metas]
    BY <1>8 DEF CloseMetaSync
  <2> QED BY <1>0, <2>1 DEF Advances, LineRec
<1>9. ASSUME NEW k \in Lines, NEW b \in B, EndIoErase(k, b)
      PROVE  Advances(l)
  BY <1>0, <1>9 DEF EndIoErase, Advances, LineRec
<1>10. ASSUME NEW k \in Lines, EndIoMeta(k) \/ CloseLine(k)
      PROVE  Advances(l)
  BY <1>0, <1>10 DEF EndIoMeta, CloseLine, Advances, LineRec
<1>11. ASSUME NEW k \in Lines, LinePut(k)
      PROVE  Advances(l)
  <2>1. line'[l] = [Prepared EXCEPT !.state = "FREE"] \/ line'[l] = line[l]
    BY <1>0, <1>11 DEF LinePut
  <2> QED BY <1>0, <2>1 DEF Advances, Prepared
<1>12. ASSUME NEW r \in Rings,
             \/ WriteLost(r) \/ RlInserted(r) \/ ReplaceNone(r) \/ ReplaceStopped(r)
             \/ ReplaceLine(r) \/ RetryNone(r) \/ RetryDec(r) \/ StopWrites(r)
             \/ RlFreeLinesDec(r) \/ CloseMeta(r) \/ Drained(r)
      PROVE  UNCHANGED line
  BY <1>12, Zenon DEF WriteLost, RlInserted, ReplaceNone, ReplaceStopped, ReplaceLine, RetryNone,
               RetryDec, StopWrites, RlFreeLinesDec, CloseMeta, Drained
<1>13. ASSUME NEW r \in Rings, Writer(r)
      PROVE  Advances(l)
  <2>1. 1 \in 1 .. MaxPages
    BY LineAssumption
  <2> QED BY <1>1, <1>2, <1>3, <1>4, <1>5, <1>6, <1>7, <1>8, <1>12, <1>13, <2>1 DEF Writer
<1>14. CASE RlFreeLinesInc
  BY <1>1, <1>14 DEF RlFreeLinesInc
<1> QED BY <1>9, <1>10, <1>11, <1>13, <1>14 DEF Next, Device

LEMMA StepErased == Typed /\ ErasedInv /\ [Next]_vars => ErasedInv'
<1> SUFFICES ASSUME Typed, ErasedInv, [Next]_vars PROVE ErasedInv'
  OBVIOUS
<1>1. Typed'
  BY StepTyped
<1>2. CASE Next
  <2> SUFFICES ASSUME NEW l \in Lines, line'[l].fill < Pages PROVE line'[l].done = B
    BY DEF ErasedInv
  <2>1. /\ line[l].fill \in Nat /\ line'[l].fill \in Nat /\ line'[l].done \subseteq B
        /\ Pages \in Nat
    BY Zenon, <1>1, LineFields, LineAssumption DEF Typed
  <2>2. Advances(l)
    BY <1>2, StepAdvances
  <2>3. CASE line'[l].fill >= line[l].fill /\ line[l].done \subseteq line'[l].done
    <3>1. line[l].fill < Pages
      BY <2>1, <2>3
    <3>2. line[l].done = B
      BY <3>1 DEF ErasedInv
    <3> QED BY <2>1, <2>3, <3>2, Zenon
  <2> QED BY <2>1, <2>2, <2>3 DEF Advances
<1>3. CASE UNCHANGED vars
  BY <1>3 DEF vars, ErasedInv
<1> QED BY <1>2, <1>3
-------------------------------------------------------------------------------
(* The invariant.                                                               *)

\* The lines of one writer are three, open unless bad, and prev is the line it just
\* filled.
WriterInv(r) ==
  /\ backlog[r] = -1 /\ pc[r] \notin {"sync", "drain"}
  /\ data_next[r] # None /\ prev[r] # data_next[r]
  /\ pc[r] = "idle" => prev[r] = None
  /\ pc[r] \notin {"idle", "lost"} => prev[r] # None
  /\ pc[r] = "replace" => prev[r] = data_line[r]
  /\ pc[r] # "replace" /\ prev[r] # None => prev[r] # data_line[r]
  /\ pc[r] \notin SetUp => data_line[r] # data_next[r]
  /\ prev[r] # None => line[prev[r]].state = "OPEN"
  /\ data_line[r] # None /\ pc[r] # "retry" => line[data_line[r]].state = "OPEN"
  /\ data_line[r] # None /\ pc[r] \notin SetUp \ {"slot"} => line[data_next[r]].state = "OPEN"

\* The lines of different writers differ, and the free list, GC and the device leave
\* them alone.
MineInv(r) ==
  /\ \A q \in Rings \ {r} : Mine(q) \cap Mine(r) = {}
  /\ Mine(r) \cap free_list = {}
  /\ \A l \in Mine(r) :
       line[l].state \in {"OPEN", "BAD"} /\ line[l].mem = 0 /\ line[l].sync = 0

\* A line waits for its metadata once, and nobody works on it any more: only the
\* writer that filled it remembers it for a while.
ListInv(r) ==
  /\ \A i, j \in 1 .. Len(emeta_list[r]) : i # j => emeta_list[r][i] # emeta_list[r][j]
  /\ \A q \in Rings \ {r} : OnList(q) \cap OnList(r) = {}
  /\ OnList(r) \cap free_list = {}
  /\ \A l \in OnList(r) : l \in Lines /\ line[l].state = "OPEN" /\ line[l].mem < Metas
  /\ \A q \in Rings : \A l \in OnList(r) \cap Mine(q) :
       q = r /\ pc[r] \in {"rest", "lost"} /\ l = prev[r]

RunInv ==
  state = "RUNNING" =>
    /\ \A l \in Lines : line[l].sync <= line[l].mem
    /\ \A r \in Rings : WriterInv(r) /\ MineInv(r) /\ ListInv(r)

\* What the invariant says of lines depends on these fields only.
SameLine(l) ==
  line'[l].state = line[l].state /\ line'[l].mem = line[l].mem /\ line'[l].sync = line[l].sync

\* Steps of a writer that only get on.
Onward ==
  {<<"idle", "lost">>, <<"rest", "lost">>, <<"slot", "erase">>, <<"erase", "next">>,
   <<"dec_retry", "erase">>, <<"dec_next", "close">>}

LEMMA QuietRun ==
  ASSUME Typed, RunInv, state = "RUNNING", NEW r \in Rings, NEW lb,
         UNCHANGED <<data_line, data_next, prev, free_list, emeta_list, backlog>>,
         \A l \in Lines : SameLine(l),
         pc' = [pc EXCEPT ![r] = lb], lb = pc[r] \/ <<pc[r], lb>> \in Onward
  PROVE  RunInv'
<1>1. \A l \in Lines : line[l].sync <= line[l].mem
  BY DEF RunInv
<1>2. \A q \in Rings : WriterInv(q) /\ MineInv(q) /\ ListInv(q)
  BY DEF RunInv
<1>3. \A q \in Rings : Mine(q)' = Mine(q) /\ OnList(q)' = OnList(q)
  BY DEF Mine, OnList
<1>4. \A q \in Rings : Mine(q) \subseteq Lines
  BY DEF Mine, Typed
<1>5. \A q \in Rings : q # r => pc'[q] = pc[q]
  BY DEF Typed
<1>6. pc'[r] = lb
  BY Zenon DEF Typed
<1>7. ASSUME NEW q \in Rings PROVE WriterInv(q)'
  <2>1. /\ prev[q] # None => SameLine(prev[q])
        /\ data_line[q] # None => SameLine(data_line[q])
        /\ SameLine(data_next[q])
    BY <1>2 DEF Typed, WriterInv
  <2> QED BY <1>2, <1>5, <1>6, <2>1 DEF WriterInv, SameLine, Onward, SetUp
<1>8. ASSUME NEW q \in Rings PROVE MineInv(q)'
  BY <1>2, <1>3, <1>4 DEF MineInv, SameLine
<1>9. ASSUME NEW q \in Rings PROVE ListInv(q)'
  <2>1. /\ \A i, j \in 1 .. Len(emeta_list'[q]) : i # j => emeta_list'[q][i] # emeta_list'[q][j]
        /\ \A p \in Rings \ {q} : OnList(p)' \cap OnList(q)' = {}
        /\ OnList(q)' \cap free_list' = {}
    BY <1>2, <1>3 DEF ListInv
  <2>2. \A l \in OnList(q)' : l \in Lines /\ line'[l].state = "OPEN" /\ line'[l].mem < Metas
    BY <1>2, <1>3 DEF ListInv, SameLine
  <2>3. \A p \in Rings : \A l \in OnList(q)' \cap Mine(p)' :
          p = q /\ pc'[q] \in {"rest", "lost"} /\ l = prev'[q]
    <3>1. \A p \in Rings : \A l \in OnList(q) \cap Mine(p) :
            p = q /\ pc[q] \in {"rest", "lost"} /\ l = prev[q]
      BY <1>2 DEF ListInv
    <3> QED BY Zenon, <1>3, <1>5, <1>6, <3>1 DEF Onward
  <2> QED BY Zenon, <2>1, <2>2, <2>3 DEF ListInv
<1> QED BY <1>1, <1>7, <1>8, <1>9 DEF RunInv, SameLine

\* The facts the steps start from.
LEMMA RunFacts ==
  ASSUME Typed, RunInv, state = "RUNNING"
  PROVE  /\ \A l \in Lines :
              line[l].sync \in Nat /\ line[l].mem \in Nat /\ line[l].sync <= line[l].mem
         /\ \A q \in Rings : WriterInv(q) /\ MineInv(q) /\ ListInv(q)
         /\ \A q \in Rings : Mine(q) \subseteq Lines
         /\ Metas \in Nat \ {0}
BY Zenon, LineAssumption DEF RunInv, Mine, Typed, LineRec

\* A request marks an erase, fills its line, and perhaps sends metadata of a full
\* line of its ring, which nobody works on: only prev, forgotten now, may be it.
LEMMA SentRun ==
  ASSUME Typed, RunInv, state = "RUNNING", NEW r \in Rings, NEW n \in 1 .. MaxPages,
         Write(r, n) \/ WriteRest(r)
  PROVE  RunInv'
<1>0. /\ \A l \in Lines :
           line[l].sync \in Nat /\ line[l].mem \in Nat /\ line[l].sync <= line[l].mem
      /\ \A q \in Rings : WriterInv(q) /\ MineInv(q) /\ ListInv(q)
      /\ \A q \in Rings : Mine(q) \subseteq Lines
      /\ Metas \in Nat \ {0}
  BY RunFacts
<1>1. /\ \A l \in Lines : line'[l].state = line[l].state /\ line'[l].sync = line[l].sync
      /\ MetaSent(r) \/ NoMetaSent
  BY RequestFields
<1>2. /\ UNCHANGED <<data_line, data_next, free_list>>
      /\ pc' = [pc EXCEPT ![r] = "idle"] /\ pc[r] \in {"idle", "rest"}
      /\ prev' = [prev EXCEPT ![r] = None]
      /\ UNCHANGED backlog
  <2>1. PICK q \in Req, ln \in [Lines -> LineRec] : Send(r, q, ln)
    BY RequestSends
  <2>2. pc[r] = "idle" => prev[r] = None
    BY Zenon, <1>0 DEF WriterInv
  <2>3. backlog[r] = -1
    BY <1>0 DEF WriterInv
  <2>4. Write(r, n) => UNCHANGED backlog
    BY <2>3 DEF Write, MaySubmit, Typed
  <2>5. UNCHANGED <<data_line, data_next, free_list>>
    BY Zenon DEF Write, WriteRest, lists
  <2>6. UNCHANGED backlog
    BY <2>4, Zenon DEF WriteRest
  <2>7. pc' = [pc EXCEPT ![r] = "idle"]
    BY <2>1, Zenon DEF Send
  <2> QED BY <2>2, <2>5, <2>6, <2>7, Zenon DEF Write, WriteRest, MaySubmit, Typed
<1>3. \A q \in Rings : q # r => pc'[q] = pc[q] /\ prev'[q] = prev[q]
  BY <1>2 DEF Typed
<1>4. pc'[r] = "idle" /\ prev'[r] = None
  BY <1>2 DEF Typed
<1>5. /\ \A q \in Rings : q # r => Mine(q)' = Mine(q)
      /\ Mine(r)' = Mine(r) \ {prev[r]}
  <2>1. prev[r] # None => prev[r] # data_line[r] /\ prev[r] # data_next[r]
    BY Zenon, <1>0, <1>2 DEF WriterInv
  <2> QED BY Zenon, <1>2, <1>3, <1>4, <2>1 DEF Mine
<1>6. /\ \A q \in Rings : q # r => emeta_list'[q] = emeta_list[q] /\ OnList(q)' = OnList(q)
      /\ \A q \in Rings : OnList(q)' \subseteq OnList(q)
      /\ \A l : Oldest(r, l) => l \in OnList(r)
      /\ emeta_list'[r] # emeta_list[r] =>
           emeta_list'[r] = Tail(emeta_list[r]) /\ emeta_list[r] # <<>> /\ MetaSent(r)
      /\ emeta_list[r] \in Seq(Lines \cup {None})
  <2>1. /\ \/ emeta_list' = emeta_list
           \/ /\ emeta_list' = [emeta_list EXCEPT ![r] = Tail(emeta_list[r])]
              /\ emeta_list[r] # <<>> /\ MetaSent(r)
        /\ emeta_list \in [Rings -> Seq(Lines \cup {None})] /\ emeta_list[r] \in Seq(Lines \cup {None})
    BY <1>1, Zenon DEF MetaSent, NoMetaSent, Typed
  <2>2. /\ \A q \in Rings : q # r => emeta_list'[q] = emeta_list[q]
        /\ emeta_list'[r] # emeta_list[r] =>
             emeta_list'[r] = Tail(emeta_list[r]) /\ emeta_list[r] # <<>> /\ MetaSent(r)
    BY <2>1
  <2>3. \A q \in Rings : q # r => OnList(q)' = OnList(q)
    BY <2>2, Zenon DEF OnList
  <2>4. OnList(r)' \subseteq OnList(r)
    <3>1. emeta_list[r] # <<>> =>
            {Tail(emeta_list[r])[i] : i \in 1 .. Len(Tail(emeta_list[r]))} \subseteq OnList(r)
      BY <2>1, TailList, Zenon DEF OnList
    <3> QED BY <2>2, <3>1, Zenon DEF OnList
  <2>5. \A l : Oldest(r, l) => l \in OnList(r)
    BY <2>1, TailList, Zenon DEF OnList, Oldest
  <2> QED BY <2>1, <2>2, <2>3, <2>4, <2>5
<1>7. \A l \in Lines : line'[l].mem = line[l].mem \/ (l \in OnList(r) /\ line'[l].mem = line[l].mem + 1)
  BY <1>1, <1>6 DEF MetaSent, NoMetaSent
<1>8. \A l \in Lines : line'[l].sync <= line'[l].mem
  BY Zenon, <1>0, <1>1, <1>7, StillUnder
<1>9. ASSUME NEW q \in Rings PROVE WriterInv(q)'
  <2> WriterInv(q)
    BY Zenon, <1>0
  <2>2. /\ prev[q] # None => line'[prev[q]].state = line[prev[q]].state
        /\ data_line[q] # None => line'[data_line[q]].state = line[data_line[q]].state
        /\ line'[data_next[q]].state = line[data_next[q]].state
    BY Zenon, <1>1 DEF Typed, WriterInv
  <2>3. CASE q # r
    BY Zenon, <1>2, <1>3, <2>2, <2>3 DEF WriterInv
  <2>4. CASE q = r
    BY Zenon, <1>2, <1>4, <2>2, <2>4 DEF WriterInv, SetUp
  <2> QED BY <2>3, <2>4
<1>10. ASSUME NEW q \in Rings PROVE MineInv(q)'
  <2> MineInv(q) /\ Mine(q)' \subseteq Mine(q)
    BY <1>0, <1>5
  <2>2. \A l \in Mine(q)' : l \notin OnList(r)
    <3>1. \A l \in OnList(r) \cap Mine(q) : q = r /\ l = prev[r]
      BY Zenon, <1>0 DEF ListInv
    <3> QED BY Zenon, <1>5, <3>1
  <2>3. \A l \in Mine(q)' : line'[l].state \in {"OPEN", "BAD"} /\ line'[l].mem = 0 /\ line'[l].sync = 0
    BY <1>0, <1>1, <1>7, <2>2 DEF MineInv
  <2>4. \A p \in Rings \ {q} : Mine(p)' \cap Mine(q)' = {}
    BY Zenon, <1>5 DEF MineInv
  <2> QED BY <1>2, <2>3, <2>4 DEF MineInv
<1>11. ASSUME NEW q \in Rings PROVE ListInv(q)'
  <2>0. ListInv(q)
    BY <1>0
  <2>1. \A i, j \in 1 .. Len(emeta_list'[q]) : i # j => emeta_list'[q][i] # emeta_list'[q][j]
    <3>1. \A i, j \in 1 .. Len(emeta_list[q]) : i # j => emeta_list[q][i] # emeta_list[q][j]
      BY <2>0, Zenon DEF ListInv
    <3>2. CASE emeta_list'[q] = emeta_list[q]
      BY <3>1, <3>2, Zenon
    <3>3. CASE emeta_list'[q] # emeta_list[q]
      <4>1. q = r /\ emeta_list'[r] = Tail(emeta_list[r]) /\ emeta_list[r] # <<>>
        BY <1>6, <3>3, Zenon
      <4>2. emeta_list[r] \in Seq(Lines \cup {None})
        BY <1>6, Zenon
      <4>3. \A i, j \in 1 .. Len(Tail(emeta_list[r])) : i # j => Tail(emeta_list[r])[i] # Tail(emeta_list[r])[j]
        BY <3>1, <4>1, <4>2, TailList
      <4> QED BY <4>1, <4>3
    <3> QED BY <3>2, <3>3, Zenon
  <2>2. \A p \in Rings \ {q} : OnList(p)' \cap OnList(q)' = {}
    BY Zenon, <1>6, <2>0 DEF ListInv
  <2>3. OnList(q)' \cap free_list' = {}
    BY Zenon, <1>2, <1>6, <2>0 DEF ListInv
  <2>4. ASSUME NEW l \in OnList(q)'
        PROVE  l \in Lines /\ line'[l].state = "OPEN" /\ line'[l].mem < Metas
    <3>1. l \in OnList(q) /\ l \in Lines /\ line[l].state = "OPEN" /\ line[l].mem < Metas
      BY Zenon, <1>6, <2>0, <2>4 DEF ListInv
    <3>2. CASE ~Oldest(r, l) \/ NoMetaSent
      <4>1. line'[l].mem = line[l].mem
        BY Zenon, <1>1, <3>1, <3>2 DEF MetaSent, NoMetaSent
      <4> QED BY Zenon, <1>1, <3>1, <4>1
    <3>3. CASE Oldest(r, l) /\ MetaSent(r)
      <4>1. l \in OnList(r)
        BY <1>6, <3>3, Zenon
      <4>2. q = r
        BY <2>0, <1>0, <3>1, <4>1, Zenon DEF ListInv
      <4>3. line[l].mem + 1 # Metas
        <5> SUFFICES ASSUME line[l].mem + 1 = Metas PROVE FALSE
          OBVIOUS
        <5>1. emeta_list'[r] = Tail(emeta_list[r]) /\ emeta_list[r] # <<>> /\ l = Head(emeta_list[r])
          BY <1>6, <3>3 DEF MetaSent, Oldest, Typed
        <5>2. \A i, j \in 1 .. Len(emeta_list[r]) : i # j => emeta_list[r][i] # emeta_list[r][j]
          BY <1>0, Zenon DEF ListInv
        <5>3. l \notin OnList(q)'
          BY <1>6, <4>2, <5>1, <5>2, TailList DEF OnList
        <5> QED BY <2>4, <5>3
      <4>4. line'[l].mem = line[l].mem + 1
        BY <3>1, <3>3 DEF MetaSent
      <4> QED BY <1>0, <1>1, <3>1, <4>3, <4>4
    <3> QED BY <1>1, <3>2, <3>3
  <2>5. ASSUME NEW p \in Rings, NEW l \in OnList(q)' \cap Mine(p)'
        PROVE  p = q /\ pc'[q] \in {"rest", "lost"} /\ l = prev'[q]
    <3>1. l \in OnList(q) \cap Mine(p)
      BY Zenon, <1>5, <1>6
    <3>2. p = q /\ pc[q] \in {"rest", "lost"} /\ l = prev[q]
      BY Zenon, <2>0, <3>1 DEF ListInv
    <3>3. q # r
      BY Zenon, <1>5, <3>2
    <3> QED BY <1>3, <3>2, <3>3
  <2> QED BY <2>1, <2>2, <2>3, <2>4, <2>5 DEF ListInv
<1> QED BY <1>8, <1>9, <1>10, <1>11 DEF RunInv

\* A writer that keeps its variables and whose lines are untouched.
LEMMA WriterSame ==
  ASSUME NEW q \in Rings, WriterInv(q), \A k \in Mine(q) : SameLine(k),
         data_line'[q] = data_line[q], data_next'[q] = data_next[q],
         prev'[q] = prev[q], pc'[q] = pc[q], backlog'[q] = backlog[q]
  PROVE  WriterInv(q)'
<1>1. /\ prev[q] # None => SameLine(prev[q])
      /\ data_line[q] # None => SameLine(data_line[q])
      /\ SameLine(data_next[q])
  BY Zenon DEF Mine, WriterInv
<1> QED BY <1>1 DEF WriterInv, SameLine

\* What MineInv and ListInv say of single lines.
LEMMA MineOpen ==
  ASSUME NEW q \in Rings, MineInv(q)
  PROVE  \A k \in Mine(q) :
           line[k].state \in {"OPEN", "BAD"} /\ line[k].mem = 0 /\ line[k].sync = 0
BY Zenon DEF MineInv

LEMMA ListOpen ==
  ASSUME NEW q \in Rings, ListInv(q)
  PROVE  \A k \in OnList(q) : k \in Lines /\ line[k].state = "OPEN" /\ line[k].mem < Metas
BY Zenon DEF ListInv

\* The parts of ListInv after a step.
LEMMA ListMade ==
  ASSUME NEW q \in Rings,
         \A i, j \in 1 .. Len(emeta_list'[q]) : i # j => emeta_list'[q][i] # emeta_list'[q][j],
         \A p \in Rings \ {q} : OnList(p)' \cap OnList(q)' = {},
         OnList(q)' \cap free_list' = {},
         \A k \in OnList(q)' : k \in Lines /\ line'[k].state = "OPEN" /\ line'[k].mem < Metas,
         \A p \in Rings : \A k \in OnList(q)' \cap Mine(p)' :
           p = q /\ pc'[q] \in {"rest", "lost"} /\ k = prev'[q]
  PROVE  ListInv(q)'
BY DEF ListInv


\* The steps of a writer that leave lines, lists and the other writers alone and
\* take no line on: each keeps the invariant of the writer itself.
LEMMA WithinRun ==
  ASSUME Typed, RunInv, state = "RUNNING", NEW r \in Rings,
         UNCHANGED <<free_list, emeta_list>>,
         \A l \in Lines : SameLine(l),
         \A q \in Rings \ {r} :
           /\ data_line'[q] = data_line[q] /\ data_next'[q] = data_next[q]
           /\ prev'[q] = prev[q] /\ pc'[q] = pc[q] /\ backlog'[q] = backlog[q],
         Mine(r)' \subseteq Mine(r), pc[r] \notin {"rest", "lost"},
         WriterInv(r)'
  PROVE  RunInv'
<1>0. /\ \A l \in Lines : line[l].sync <= line[l].mem
      /\ \A q \in Rings : WriterInv(q) /\ MineInv(q) /\ ListInv(q)
      /\ \A q \in Rings : Mine(q) \subseteq Lines
  BY Zenon, RunFacts
<1>1. /\ \A q \in Rings : Mine(q)' \subseteq Mine(q)
      /\ \A q \in Rings : OnList(q)' = OnList(q)
  BY DEF Mine, OnList
<1>2. ASSUME NEW q \in Rings PROVE WriterInv(q)'
  <2>1. CASE q # r
    <3>1. WriterInv(q)
      BY <1>0, Zenon
    <3>2. \A k \in Mine(q) : SameLine(k)
      BY <1>0, Zenon
    <3> QED BY <2>1, <3>1, <3>2, WriterSame, Zenon
  <2> QED BY <2>1
<1>3. ASSUME NEW q \in Rings PROVE MineInv(q)'
  <2> MineInv(q)
    BY <1>0, Zenon
  <2>2. \A l \in Mine(q)' :
          line'[l].state \in {"OPEN", "BAD"} /\ line'[l].mem = 0 /\ line'[l].sync = 0
    BY <1>0, <1>1 DEF MineInv, SameLine
  <2>3. \A p \in Rings \ {q} : Mine(p)' \cap Mine(q)' = {}
    BY <1>1 DEF MineInv
  <2> QED BY <1>1, <2>2, <2>3 DEF MineInv
<1>4. ASSUME NEW q \in Rings PROVE ListInv(q)'
  <2>1. ListInv(q)
    BY <1>0, Zenon
  <2>2. \A l \in OnList(q)' : l \in Lines /\ line'[l].state = "OPEN" /\ line'[l].mem < Metas
    BY <1>1, <2>1, ListOpen, Zenon DEF SameLine
  <2>3. \A p \in Rings : \A l \in OnList(q)' \cap Mine(p)' :
          p = q /\ pc'[q] \in {"rest", "lost"} /\ l = prev'[q]
    BY Zenon, <1>1, <2>1 DEF ListInv
  <2>4. /\ \A i, j \in 1 .. Len(emeta_list'[q]) : i # j => emeta_list'[q][i] # emeta_list'[q][j]
        /\ \A p \in Rings \ {q} : OnList(p)' \cap OnList(q)' = {}
        /\ OnList(q)' \cap free_list' = {}
    BY <1>1, <2>1 DEF ListInv
  <2> QED BY <2>2, <2>3, <2>4, ListMade, Zenon
<1> QED BY <1>0, <1>2, <1>3, <1>4 DEF RunInv, SameLine
===============================================================================
