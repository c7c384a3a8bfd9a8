--------------------------- MODULE HeapScanProofs ---------------------------
(***************************************************************************)
(* A HeapScan of crates/heapam/src/heap.rs holds nothing between two next  *)
(* calls: insertions, deletions, replacements and new pages come between   *)
(* them.  For any page size, any chain and any tuples, it returns each row *)
(* that was there when it was created at most once, in order, and none     *)
(* that was not.  ScanInv is the inductive invariant.                      *)
(***************************************************************************)
EXTENDS HeapTableProofs, SlottedPageLemmas

USE HeapTableAssumption, SlottedPageAssumption, ZenonT(20), SMTT(20) DEF head

-----------------------------------------------------------------------------
(* Every page's rows fit into it, in the pool and in the store. *)
RowsFit == \A p \in PageIds : Fits(pages[p].rows) /\ Fits(disk[p].rows)

(* What a scan has returned, and what it has buffered. *)
Out == seen \o scan.rows

Addresses == PageIds \X Nat
Scans == [pages : Seq(Addresses), index : Nat \ {0}, rows : Seq(Addresses), failed : BOOLEAN]

ScanTypes == scan \in Scans /\ seen \in Seq(Addresses) /\ scan.index <= Len(scan.pages) + 1

(* The chain and its pages have grown since the bounds were captured. *)
ScanChain ==
    /\ state # <<>> /\ Len(scan.pages) <= Len(state)
    /\ \A i \in 1 .. Len(scan.pages) :
          scan.pages[i][1] = state[i] /\ scan.pages[i][2] <= Len(pages[state[i]].rows)

(* The rows at the start are within the bounds, and no slot within them   *)
(* has been filled since.                                                 *)
ScanStart ==
    \A c \in start : /\ c \in Ctids
                     /\ \E i \in 1 .. Len(scan.pages) :
                           c[1] = scan.pages[i][1] /\ c[2] <= scan.pages[i][2]
ScanOld ==
    \A i \in 1 .. Len(scan.pages) : \A k \in 1 .. scan.pages[i][2] :
        HasRow(pages[scan.pages[i][1]], k) => <<scan.pages[i][1], k>> \in start

(* What has been read: rows of the start, from the pages passed, in order, *)
(* and every row of these pages that is still there.                       *)
ScanOut ==
    \A a \in 1 .. Len(Out) :
        Out[a] \in start /\ \E i \in 1 .. scan.index - 1 : Out[a][1] = scan.pages[i][1]
ScanOrder == \A a, b \in 1 .. Len(Out) : a < b => Before(Out[a], Out[b])
ScanAll ==
    ~scan.failed =>
        \A i \in 1 .. scan.index - 1 : \A k \in 1 .. scan.pages[i][2] :
            HasRow(pages[scan.pages[i][1]], k) =>
                \E a \in 1 .. Len(Out) : Out[a] = <<scan.pages[i][1], k>>

ScanState ==
    ScanTypes /\ ScanChain /\ ScanStart /\ ScanOld /\ ScanOut /\ ScanOrder /\ ScanAll
ScanInv == RowsFit /\ (scan # NoScan => ScanState)

-----------------------------------------------------------------------------
(* The pages of the heap have rows of integer tuples. *)
LEMMA RowsListed ==
    ASSUME HeapInv, NEW p \in PageIds
    PROVE  /\ pages[p] \in PageRecs /\ disk[p] \in PageRecs
           /\ pages[p].rows \in RowLists /\ pages[p].rows \in RowSeqs
           /\ Len(pages[p].rows) \in Nat
  <1>1. pages[p] \in PageRecs /\ disk[p] \in PageRecs
    BY DEF HeapInv, Types
  <1>2. pages[p].rows \in RowSeqs
    BY <1>1 DEF PageRecs
  <1>3. ValidTuples \union {NoTuple} \subseteq Seq(Int)
    <2>1. NoTuple \in Seq(Int)
      BY SMT DEF NoTuple
    <2>2. ValidTuples \subseteq Seq(Int)
      BY TuplesAssumption DEF ValidTuples
    <2> QED BY <2>1, <2>2
  <1>4. pages[p].rows \in RowLists
    BY <1>2, <1>3, SMT DEF RowSeqs, RowLists
  <1>5. Len(pages[p].rows) \in Nat
    BY <1>4, SMT DEF RowLists
  <1> QED BY <1>1, <1>2, <1>4, <1>5

(* A row is one of a slot, and a tuple that callers insert. *)
LEMMA RowIs ==
    ASSUME NEW p \in PageRecs, NEW k \in Nat \ {0}
    PROVE  /\ HasRow(p, k) => k \in 1 .. Len(p.rows) /\ Row(p, k) \in ValidTuples
           /\ k \in 1 .. Len(p.rows) => (HasRow(p, k) <=> p.rows[k] # NoTuple)
  <1>1. p.rows \in Seq(ValidTuples \union {NoTuple})
    BY DEF PageRecs, RowSeqs
  <1> QED BY <1>1, SMT DEF HasRow, Row

(* With the chain open, an address of it with a row is live. *)
LEMMA LiveRow ==
    ASSUME HeapInv, RowsFit, NEW i \in 1 .. Len(state), NEW k \in Nat \ {0},
           HasRow(pages[state[i]], k)
    PROVE  <<state[i], k>> \in Live
  <1>1. PICK p, c : p = state[i] /\ c = <<p, k>>
    BY Zenon
  <1>2. p \in PageIds /\ pages[p] \in PageRecs /\ pages[p].rows \in RowLists /\ Fits(pages[p].rows)
    BY <1>1, Existing, RowsListed DEF RowsFit
  <1>3. k \in 1 .. Len(pages[p].rows) /\ Row(pages[p], k) \in ValidTuples
    BY <1>1, <1>2, RowIs
  <1>4. Len(pages[p].rows) <= MaxSlots /\ Len(pages[p].rows) \in Nat /\ MaxSlots \in Int
    <2>1. Len(pages[p].rows) <= MaxSlots
      BY <1>2, FitsSlots DEF MaxSlots
    <2>2. Len(pages[p].rows) \in Nat /\ MaxSlots \in Int
      BY <1>2, SMT DEF RowLists, MaxSlots, SLOT_SIZE
    <2> QED BY <2>1, <2>2
  <1>5. k \in 1 .. MaxSlots
    BY <1>3, <1>4, SMT
  <1>6. c \in Ctids /\ c[1] = p /\ c[2] = k
    BY <1>1, <1>2, <1>5 DEF Ctids
  <1>7. member(c)
    <2>1. state[i] \in Range(state)
      BY SMT DEF Range, HeapInv, Types
    <2> QED BY <1>1, <1>6, <2>1 DEF member
  <1>8. Answer(c) = Row(pages[p], k)
    BY <1>1, <1>3, <1>4, <1>6, <1>7, SMT DEF Answer
  <1>9. Answer(c) # Unused /\ Answer(c) # Dead
    BY <1>3, <1>8, TuplesAssumption DEF ValidTuples
  <1> QED BY <1>1, <1>6, <1>9 DEF Live

(* A live address is a row of a page of the chain. *)
LEMMA LiveIs ==
    ASSUME HeapInv, NEW c \in Live
    PROVE  /\ c \in Ctids /\ HasRow(pages[c[1]], c[2]) /\ c[2] <= Len(pages[c[1]].rows)
           /\ \E i \in 1 .. Len(state) : c[1] = state[i]
  <1>1. c \in Ctids /\ Answer(c) # Unused /\ Answer(c) # Dead
    BY DEF Live
  <1>2. member(c) /\ ~(c[2] > Len(pages[c[1]].rows)) /\ HasRow(pages[c[1]], c[2])
    BY <1>1 DEF Answer
  <1>3. \E i \in 1 .. Len(state) : c[1] = state[i]
    BY <1>2, SMT DEF member, Range, HeapInv, Types
  <1>4. c[1] \in PageIds /\ c[2] \in Int
    BY <1>1, SMT DEF Ctids
  <1>5. Len(pages[c[1]].rows) \in Nat
    BY <1>4, RowsListed
  <1> QED BY <1>1, <1>2, <1>3, <1>4, <1>5, SMT

-----------------------------------------------------------------------------
(* A scan's invariant says what it promises. *)
LEMMA ScanGives ==
    ASSUME HeapInv, ScanInv
    PROVE  ScanExact
  <1> SUFFICES ASSUME scan # NoScan
               PROVE  /\ \A i, j \in DOMAIN Out : i < j => Before(Out[i], Out[j])
                      /\ Range(Out) \subseteq start
                      /\ scan.index > Len(scan.pages) /\ ~scan.failed =>
                            start \intersect Live \subseteq Range(Out)
    BY DEF ScanExact, Out
  <1>1. ScanState
    BY DEF ScanInv
  <1>2. seen \in Seq(Addresses) /\ scan.rows \in Seq(Addresses) /\ scan.pages \in Seq(Addresses)
    BY <1>1 DEF ScanState, ScanTypes, Scans
  <1>3. Out \in Seq(Addresses)
    BY <1>2, SMT DEF Out
  <1>4. DOMAIN Out = 1 .. Len(Out)
    BY <1>3, SMT
  <1>5. \A i, j \in DOMAIN Out : i < j => Before(Out[i], Out[j])
    BY <1>1, <1>4 DEF ScanState, ScanOrder
  <1>6. Range(Out) \subseteq start
    BY <1>1, <1>4 DEF ScanState, ScanOut, Range
  <1>7. ASSUME scan.index > Len(scan.pages), ~scan.failed, NEW c \in start \intersect Live
        PROVE  c \in Range(Out)
    <2>1. PICK i \in 1 .. Len(scan.pages) : c[1] = scan.pages[i][1] /\ c[2] <= scan.pages[i][2]
      BY <1>1, <1>7 DEF ScanState, ScanStart
    <2>2. c \in Ctids /\ HasRow(pages[c[1]], c[2])
      BY <1>7, LiveIs
    <2>3. PICK k \in Nat \ {0} : c[2] = k /\ c = <<c[1], k>>
      BY <2>2, SMT DEF Ctids
    <2>4. scan.index \in Nat /\ Len(scan.pages) \in Nat /\ scan.pages[i][2] \in Nat
      BY <1>1, <1>2, SMT DEF ScanState, ScanTypes, Scans, Addresses
    <2>5. i \in 1 .. scan.index - 1
      BY <1>7, <2>4, SMT
    <2>6. k \in 1 .. scan.pages[i][2]
      BY <2>1, <2>3, <2>4, SMT
    <2>7. \E a \in 1 .. Len(Out) : Out[a] = <<scan.pages[i][1], k>>
      BY <1>1, <1>7, <2>1, <2>2, <2>3, <2>5, <2>6, Zenon DEF ScanState, ScanAll
    <2> QED BY <1>4, <2>1, <2>3, <2>7 DEF Range
  <1> QED BY <1>5, <1>6, <1>7

-----------------------------------------------------------------------------
(* The rows that records has collected from the first k slots. *)
Found(r, id, k) ==
    /\ r \in Seq(Addresses)
    /\ \A a \in 1 .. Len(r) : \E j \in 1 .. k : r[a] = <<id, j>> /\ HasRow(pages[id], j)
    /\ \A a, b \in 1 .. Len(r) : a < b => r[a][2] < r[b][2]
    /\ \A j \in 1 .. k : HasRow(pages[id], j) => \E a \in 1 .. Len(r) : r[a] = <<id, j>>

(* One slot more. *)
LEMMA FoundNext ==
    ASSUME NEW id \in PageIds, NEW k \in Nat, NEW r, Found(r, id, k)
    PROVE  Found(collect(r, id, k + 1), id, k + 1)
  <1>1. r \in Seq(Addresses) /\ Len(r) \in Nat
    BY SMT DEF Found
  <1>2. CASE ~HasRow(pages[id], k + 1)
    <2>1. collect(r, id, k + 1) = r
      BY <1>2 DEF collect
    <2>2. \A j \in 1 .. k + 1 : j \in 1 .. k \/ j = k + 1
      BY SMT
    <2>3. \A j \in 1 .. k : j \in 1 .. k + 1
      BY SMT
    <2>4. Found(r, id, k + 1)
      BY <1>2, <2>2, <2>3, Zenon DEF Found
    <2> QED BY <2>1, <2>4
  <1>3. CASE HasRow(pages[id], k + 1)
    <2>1. PICK j, c, q, n : j = k + 1 /\ c = <<id, j>> /\ q = Append(r, c) /\ n = Len(r)
      BY Zenon
    <2>2. collect(r, id, k + 1) = q
      BY <1>3, <2>1 DEF collect
    <2>3. j \in Nat /\ c \in Addresses /\ c[2] = j /\ n \in Nat
      BY <1>1, <2>1, SMT DEF Addresses
    <2>4. /\ q \in Seq(Addresses) /\ Len(q) = n + 1 /\ q[n + 1] = c
          /\ \A a \in 1 .. n : q[a] = r[a]
      BY <1>1, <2>1, <2>3, SMT
    <2>5. \A a \in 1 .. n + 1 : a \in 1 .. n \/ a = n + 1
      BY <2>3, SMT
    <2>6. \A a \in 1 .. Len(q) : \E i \in 1 .. j : q[a] = <<id, i>> /\ HasRow(pages[id], i)
      <3>1. ASSUME NEW a \in 1 .. n
            PROVE  \E i \in 1 .. j : q[a] = <<id, i>> /\ HasRow(pages[id], i)
        <4>1. PICK i \in 1 .. k : r[a] = <<id, i>> /\ HasRow(pages[id], i)
          BY <2>1, <3>1 DEF Found
        <4>2. i \in 1 .. j
          BY <2>1, SMT
        <4> QED BY <2>4, <3>1, <4>1, <4>2
      <3>2. j \in 1 .. j
        BY <2>1, SMT
      <3>3. q[n + 1] = <<id, j>> /\ HasRow(pages[id], j)
        BY <1>3, <2>1, <2>4
      <3> QED BY <2>4, <2>5, <3>1, <3>2, <3>3, Zenon
    <2>7. \A a, b \in 1 .. Len(q) : a < b => q[a][2] < q[b][2]
      <3>1. ASSUME NEW a \in 1 .. n PROVE q[a][2] < j
        <4>1. PICK i \in 1 .. k : r[a] = <<id, i>>
          BY <2>1, <3>1 DEF Found
        <4> QED BY <2>1, <2>4, <3>1, <4>1, SMT
      <3>2. ASSUME NEW a \in 1 .. n, NEW b \in 1 .. n, a < b PROVE q[a][2] < q[b][2]
        BY <2>1, <2>4, <3>2 DEF Found
      <3>3. ASSUME NEW a \in 1 .. Len(q), NEW b \in 1 .. Len(q), a < b PROVE a \in 1 .. n
        BY <2>3, <2>4, <3>3, SMT
      <3> QED BY <2>3, <2>4, <2>5, <3>1, <3>2, <3>3
    <2>8. \A i \in 1 .. j : HasRow(pages[id], i) => \E a \in 1 .. Len(q) : q[a] = <<id, i>>
      <3>1. ASSUME NEW i \in 1 .. k, HasRow(pages[id], i)
            PROVE  \E a \in 1 .. Len(q) : q[a] = <<id, i>>
        <4>1. PICK a \in 1 .. n : r[a] = <<id, i>>
          BY <2>1, <3>1, Zenon DEF Found
        <4> QED BY <2>3, <2>4, <4>1, SMT
      <3>2. \A i \in 1 .. j : i \in 1 .. k \/ i = j
        BY <2>1, SMT
      <3>3. n + 1 \in 1 .. Len(q)
        BY <2>3, <2>4, SMT
      <3> QED BY <2>1, <2>4, <3>1, <3>2, <3>3, Zenon
    <2> QED BY <2>1, <2>2, <2>4, <2>6, <2>7, <2>8, Zenon DEF Found
  <1> QED BY <1>2, <1>3

(* records collects the rows of the slots within the bound, in order. *)
LEMMA RecordsFound ==
    ASSUME NEW id \in PageIds, NEW n \in Nat
    PROVE  Found(records(id, n), id, n)
  <1> DEFINE S == Seq(Addresses)
             G == [x \in Nat \X S |-> collect(x[2], id, x[1] + 1)]
  <1>1. G \in [Nat \X S -> S]
    <2>1. ASSUME NEW k \in Nat, NEW r \in S PROVE collect(r, id, k + 1) \in S
      <3>1. <<id, k + 1>> \in Addresses
        BY SMT DEF Addresses
      <3> QED BY <3>1, SMT DEF collect
    <2> QED BY <2>1
  <1>2. \A k \in Nat, r \in S : G[<<k, r>>] = collect(r, id, k + 1)
    OBVIOUS
  <1>3. <<>> \in S
    BY SMT
  <1> HIDE DEF G, S
  <1>4. PICK F : Recursive(F, S, <<>>, G)
    BY <1>1, <1>3, Recursion, Zenon
  <1>5. F \in [Nat -> S] /\ F[0] = <<>> /\ \A k \in Nat : F[k + 1] = collect(F[k], id, k + 1)
    BY <1>2, <1>4, Zenon DEF Recursive
  <1>6. records(id, n) = F[n]
    <2> DEFINE Step(g) == [k \in 0 .. n |-> IF k = 0 THEN <<>> ELSE collect(g[k - 1], id, k)]
               g0 == [k \in 0 .. n |-> F[k]]
               h == CHOOSE g : g = Step(g)
    <2>1. records(id, n) = h[n]
      BY DEF records
    <2>2. g0 = Step(g0)
      <3>1. ASSUME NEW k \in 0 .. n, k # 0 PROVE F[k] = collect(g0[k - 1], id, k)
        <4>1. k - 1 \in Nat /\ k = (k - 1) + 1 /\ k <= n
          BY <3>1, SMT
        <4>2. F[k] = collect(F[k - 1], id, k)
          BY <1>5, <4>1
        <4>3. g0[k - 1] = F[k - 1]
          BY <3>1, SMT
        <4> QED BY <4>2, <4>3
      <3> QED BY <1>5, <3>1
    <2>3. h = Step(h)
      <3> HIDE DEF Step, g0
      <3> QED BY <2>2
    <2>4. h[0] = <<>> /\ \A k \in 1 .. n : h[k] = collect(h[k - 1], id, k)
      <3> HIDE DEF h
      <3> QED BY <2>3, SMT
    <2> HIDE DEF h
    <2> DEFINE Same == {k \in Nat : k <= n => h[k] = F[k]}
    <2>5. Nat \subseteq Same
      <3>1. 0 \in Same
        BY <1>5, <2>4
      <3>2. ASSUME NEW k \in Nat, k \in Same PROVE k + 1 \in Same
        <4>1. CASE k + 1 <= n
          <5>1. k + 1 \in 1 .. n /\ (k + 1) - 1 = k
            BY <4>1, SMT
          <5>2. h[k + 1] = collect(h[k], id, k + 1)
            BY <2>4, <5>1
          <5>3. h[k] = F[k]
            BY <3>2, <4>1, SMT
          <5>4. F[k + 1] = collect(F[k], id, k + 1)
            BY <1>5
          <5> QED BY <5>2, <5>3, <5>4, SMT
        <4> QED BY <4>1, SMT
      <3> HIDE DEF Same
      <3> QED BY <3>1, <3>2, SetInduction
    <2> QED BY <2>1, <2>5, SMT
  <1> DEFINE Good == {k \in Nat : Found(F[k], id, k)}
  <1>7. Nat \subseteq Good
    <2>1. 0 \in Good
      <3>1. Found(<<>>, id, 0)
        BY SMT DEF Found
      <3> QED BY <1>5, <3>1
    <2>2. ASSUME NEW k \in Nat, k \in Good PROVE k + 1 \in Good
      <3>1. Found(F[k], id, k)
        BY <2>2
      <3>2. Found(collect(F[k], id, k + 1), id, k + 1)
        BY <3>1, FoundNext
      <3> QED BY <1>5, <3>2, SMT
    <2> HIDE DEF Good
    <2> QED BY <2>1, <2>2, SetInduction
  <1> QED BY <1>6, <1>7

-----------------------------------------------------------------------------
(* A page that keeps its slots, and fills none that was empty. *)
RowsKept(p, q) ==
    /\ Len(p.rows) <= Len(q.rows)
    /\ \A k \in 1 .. Len(p.rows) : HasRow(q, k) => HasRow(p, k)

(* The captured bounds are numbers, within the pages of the chain. *)
LEMMA BoundsTyped ==
    ASSUME HeapInv, ScanState, NEW i \in 1 .. Len(scan.pages)
    PROVE  /\ Len(scan.pages) \in Nat /\ Len(state) \in Nat /\ i \in 1 .. Len(state)
           /\ scan.pages[i][1] = state[i] /\ state[i] \in PageIds /\ scan.pages[i][2] \in Nat
           /\ scan.pages[i][2] <= Len(pages[state[i]].rows) /\ Len(pages[state[i]].rows) \in Nat
           /\ \A k \in 1 .. scan.pages[i][2] : k \in 1 .. Len(pages[state[i]].rows)
  <1>1. scan.pages \in Seq(Addresses) /\ Len(scan.pages) \in Nat
    BY SMT DEF ScanState, ScanTypes, Scans
  <1>2. scan.pages[i] \in Addresses /\ scan.pages[i][2] \in Nat
    BY <1>1, SMT DEF Addresses
  <1>3. Len(state) \in Nat /\ Len(scan.pages) <= Len(state)
    BY SMT DEF HeapInv, Types, ScanState, ScanChain
  <1>4. i \in 1 .. Len(state)
    BY <1>1, <1>3, SMT
  <1>5. scan.pages[i][1] = state[i] /\ scan.pages[i][2] <= Len(pages[state[i]].rows)
    BY DEF ScanState, ScanChain
  <1>6. state[i] \in PageIds /\ Len(pages[state[i]].rows) \in Nat
    BY <1>4, Existing, RowsListed
  <1>7. \A k \in 1 .. scan.pages[i][2] : k \in 1 .. Len(pages[state[i]].rows)
    BY <1>2, <1>5, <1>6, SMT
  <1> QED BY <1>1, <1>2, <1>3, <1>4, <1>5, <1>6, <1>7

(* Insertions, deletions and replacements between two next calls. *)
LEMMA PagesStep ==
    ASSUME HeapInv, HeapInv', ScanState, UNCHANGED scanVars,
           Len(state) <= Len(state'), \A i \in 1 .. Len(state) : state'[i] = state[i],
           \A i \in 1 .. Len(state) : RowsKept(pages[state[i]], pages'[state[i]])
    PROVE  ScanState'
  <1>1. scan' = scan /\ seen' = seen /\ start' = start /\ Out' = Out
    BY DEF scanVars, Out
  <1>2. ScanTypes' /\ ScanStart' /\ ScanOut'
    BY <1>1 DEF ScanState, ScanTypes, ScanStart, ScanOut
  <1>3. ScanOrder'
    BY <1>1, SMT DEF ScanState, ScanOrder, Before
  <1>4. ASSUME NEW i \in 1 .. Len(scan.pages)
        PROVE  /\ scan.pages[i][1] = state'[i] /\ scan.pages[i][2] <= Len(pages'[state'[i]].rows)
               /\ \A k \in 1 .. scan.pages[i][2] :
                     HasRow(pages'[scan.pages[i][1]], k) => HasRow(pages[scan.pages[i][1]], k)
    <2>1. PICK p, m : p = state[i] /\ m = scan.pages[i][2]
      OBVIOUS
    <2>2. /\ i \in 1 .. Len(state) /\ scan.pages[i][1] = p /\ p \in PageIds /\ m \in Nat
          /\ m <= Len(pages[p].rows) /\ Len(pages[p].rows) \in Nat
          /\ \A k \in 1 .. m : k \in 1 .. Len(pages[p].rows)
      BY <1>4, <2>1, BoundsTyped
    <2>3. state'[i] = p /\ RowsKept(pages[p], pages'[p])
      BY <2>1, <2>2
    <2>4. Len(pages'[p].rows) \in Nat
      BY <2>2, SMT DEF HeapInv, Types, PageRecs, RowSeqs
    <2>5. m <= Len(pages'[p].rows)
      BY <2>2, <2>3, <2>4, SMT DEF RowsKept
    <2>6. \A k \in 1 .. m : HasRow(pages'[p], k) => HasRow(pages[p], k)
      BY <2>2, <2>3, Zenon DEF RowsKept
    <2> QED BY <2>1, <2>2, <2>3, <2>5, <2>6
  <1>5. ScanChain'
    <2>1. Len(scan.pages) \in Nat /\ Len(state) \in Nat /\ Len(state') \in Nat
      BY SMT DEF ScanState, ScanTypes, Scans, HeapInv, Types
    <2>2. Len(scan.pages) <= Len(state') /\ state' # <<>>
      BY <2>1, SMT DEF ScanState, ScanChain, HeapInv, Types
    <2> QED BY <1>1, <1>4, <2>2 DEF ScanChain
  <1>6. ScanOld'
    BY <1>1, <1>4 DEF ScanState, ScanOld
  <1>7. ScanAll'
    <2>1. ASSUME NEW i \in 1 .. scan.index - 1 PROVE i \in 1 .. Len(scan.pages)
      BY SMT DEF ScanState, ScanTypes, Scans
    <2>2. SUFFICES ASSUME ~scan.failed, NEW i \in 1 .. scan.index - 1,
                          NEW k \in 1 .. scan.pages[i][2], HasRow(pages'[scan.pages[i][1]], k)
                   PROVE  \E a \in 1 .. Len(Out) : Out[a] = <<scan.pages[i][1], k>>
      BY <1>1, Zenon DEF ScanAll
    <2>3. HasRow(pages[scan.pages[i][1]], k)
      BY <1>4, <2>1, <2>2, Zenon
    <2> QED BY <2>2, <2>3, Zenon DEF ScanState, ScanAll
  <1> QED BY <1>2, <1>3, <1>5, <1>6, <1>7 DEF ScanState

(* One page is written, one of the chain or a new one. *)
LEMMA PutStep ==
    ASSUME HeapInv, HeapInv', ScanInv, UNCHANGED scanVars,
           NEW id \in PageIds, NEW q, Fits(q.rows), RowsKept(pages[id], q) \/ id = count,
           pages' = [pages EXCEPT ![id] = q], disk' = disk,
           Len(state) <= Len(state'), \A i \in 1 .. Len(state) : state'[i] = state[i]
    PROVE  ScanInv'
  <1>1. \A p \in PageIds : pages'[p] = IF p = id THEN q ELSE pages[p]
    BY DEF HeapInv, Types
  <1>2. RowsFit'
    BY <1>1 DEF ScanInv, RowsFit
  <1>3. ASSUME scan' # NoScan PROVE ScanState'
    <2>1. ScanState
      BY <1>3 DEF ScanInv, scanVars
    <2>2. ASSUME NEW i \in 1 .. Len(state) PROVE RowsKept(pages[state[i]], pages'[state[i]])
      <3>1. state[i] \in PageIds /\ state[i] < count /\ count \in Int
        BY Existing, SMT DEF HeapInv, Types
      <3>2. state[i] \in Int
        BY <3>1, SMT DEF PageIds
      <3>3. CASE state[i] = id
        BY <1>1, <3>1, <3>2, <3>3, SMT
      <3>4. CASE state[i] # id
        <4>1. pages'[state[i]] = pages[state[i]] /\ Len(pages[state[i]].rows) \in Nat
          BY <1>1, <3>1, <3>4, RowsListed
        <4> QED BY <4>1, SMT DEF RowsKept
      <3> QED BY <3>3, <3>4
    <2> QED BY <2>1, <2>2, PagesStep
  <1> QED BY <1>2, <1>3 DEF ScanInv

(* Steps that leave the pages and the chain alone. *)
LEMMA StillScan ==
    ASSUME HeapInv, HeapInv', ScanInv, UNCHANGED scanVars, pages' = pages, state' = state,
           \A p \in PageIds : disk'[p] = disk[p] \/ disk'[p] = pages[p]
    PROVE  ScanInv'
  <1>1. RowsFit'
    BY DEF ScanInv, RowsFit
  <1>2. ASSUME scan' # NoScan PROVE ScanState'
    <2>1. ScanState
      BY <1>2 DEF ScanInv, scanVars
    <2>2. ASSUME NEW i \in 1 .. Len(state) PROVE RowsKept(pages[state[i]], pages'[state[i]])
      <3>1. state[i] \in PageIds
        BY Existing
      <3>2. Len(pages[state[i]].rows) \in Nat
        BY <3>1, RowsListed
      <3> QED BY <3>2, SMT DEF RowsKept
    <2>3. Len(state) <= Len(state') /\ \A i \in 1 .. Len(state) : state'[i] = state[i]
      BY SMT DEF HeapInv, Types
    <2> QED BY <2>1, <2>2, <2>3, PagesStep
  <1> QED BY <1>1, <1>2 DEF ScanInv

-----------------------------------------------------------------------------
(* Appending to a page, emptying a slot and replacing a row fill no slot   *)
(* that was there and empty.                                               *)
LEMMA InsertedKept ==
    ASSUME NEW p \in PageRecs, NEW t \in ValidTuples
    PROVE  RowsKept(p, Inserted(p, t))
  <1>1. PICK q, n : q = Inserted(p, t) /\ n = Len(p.rows)
    BY Zenon
  <1>2. q \in PageRecs /\ q.rows = Append(p.rows, t)
    BY <1>1, InsertedPage
  <1>3. p.rows \in Seq(ValidTuples \union {NoTuple}) /\ n \in Nat
    BY <1>1, SMT DEF PageRecs, RowSeqs
  <1>4. Len(q.rows) = n + 1 /\ \A k \in 1 .. n : q.rows[k] = p.rows[k]
    BY <1>1, <1>2, <1>3, SMT
  <1>5. \A k \in 1 .. n : HasRow(q, k) => HasRow(p, k)
    BY <1>1, <1>3, <1>4, SMT DEF HasRow, Row
  <1> QED BY <1>1, <1>3, <1>4, <1>5, SMT DEF RowsKept

LEMMA ReplacedKept ==
    ASSUME NEW p \in PageRecs, NEW id \in 1 .. Len(p.rows), HasRow(p, id),
           NEW t \in ValidTuples \union {NoTuple}
    PROVE  RowsKept(p, Replaced(p, id, t))
  <1>1. PICK q, n : q = Replaced(p, id, t) /\ n = Len(p.rows)
    OBVIOUS
  <1>2. q \in PageRecs /\ q.rows = [p.rows EXCEPT ![id] = t]
    BY <1>1, ReplacedPage
  <1>3. p.rows \in Seq(ValidTuples \union {NoTuple}) /\ n \in Nat
    BY <1>1, SMT DEF PageRecs, RowSeqs
  <1>4. Len(q.rows) = n /\ \A k \in 1 .. n : k # id => q.rows[k] = p.rows[k]
    BY <1>1, <1>2, <1>3, SMT
  <1>5. \A k \in 1 .. n : HasRow(q, k) => HasRow(p, k)
    BY <1>1, <1>3, <1>4 DEF HasRow, Row
  <1> QED BY <1>1, <1>3, <1>4, <1>5, SMT DEF RowsKept

(* create, of this heap and of another. *)
LEMMA CreateScan ==
    ASSUME HeapInv, HeapInv', ScanInv, Create \/ CreateOther
    PROVE  ScanInv'
  <1>1. PICK id, q : id = count /\ q = IF count = 0 THEN Fresh(head) ELSE Fresh(id)
    OBVIOUS
  <1>2. /\ id \in PageIds /\ pages' = [pages EXCEPT ![id] = q] /\ disk' = disk
        /\ UNCHANGED scanVars
    BY <1>1, SMT DEF Create, CreateOther, new_page, write, PageIds, HeapInv, Types
  <1>3. Fits(q.rows)
    BY <1>1, FirstFits DEF Fresh
  <1>4. Len(state) <= Len(state') /\ \A i \in 1 .. Len(state) : state'[i] = state[i]
    <2>1. CASE CreateOther
      BY <2>1, SMT DEF CreateOther, HeapInv, Types
    <2>2. CASE Create
      <3>1. \A i \in 1 .. Len(state) : state[i] \in PageIds /\ state[i] < count
        BY Existing
      <3>2. count = 0 /\ \A p \in PageIds : ~(p < 0)
        BY <2>2, SMT DEF Create, PageIds
      <3>3. Len(state) \in Nat /\ Len(state') \in Nat
        BY SMT DEF HeapInv, Types
      <3>4. Len(state) = 0
        BY <3>1, <3>2, <3>3, SMT
      <3> QED BY <3>3, <3>4, SMT
    <2> QED BY <2>1, <2>2
  <1> QED BY <1>1, <1>2, <1>3, <1>4, PutStep, Zenon

(* insert into the tail. *)
LEMMA InsertScan ==
    ASSUME HeapInv, HeapInv', ScanInv, NEW t \in Tuples, Insert(t)
    PROVE  ScanInv'
  <1>1. /\ t \in ValidTuples /\ state # <<>> /\ disk' = disk /\ state' = state
        /\ UNCHANGED scanVars
    BY DEF Insert, ValidTuples, opened, write
  <1>2. PICK id, q : id = tail /\ q = Inserted(pages[id], t)
    OBVIOUS
  <1>3. id \in PageIds /\ pages[id] \in PageRecs
    BY <1>1, <1>2, TailFacts
  <1>4. RowsKept(pages[id], q) /\ q.rows = Append(pages[id].rows, t)
    BY <1>1, <1>2, <1>3, InsertedKept, InsertedPage
  <1>5. Len(state) <= Len(state') /\ \A i \in 1 .. Len(state) : state'[i] = state[i]
    BY <1>1, SMT DEF HeapInv, Types
  <1>6. CASE CanInsert(pages[id], t)
    <2>1. pages' = [pages EXCEPT ![id] = q]
      BY <1>2, <1>6 DEF Insert, write
    <2>2. Fits(q.rows)
      BY <1>4, <1>6 DEF CanInsert
    <2> QED BY <1>1, <1>3, <1>4, <1>5, <2>1, <2>2, PutStep, Zenon
  <1>7. CASE ~CanInsert(pages[id], t)
    <2>1. pages' = pages
      BY <1>2, <1>7 DEF Insert
    <2> QED BY <1>1, <2>1, StillScan
  <1> QED BY <1>6, <1>7

(* The new page of an insertion, and its link. *)
LEMMA InsertAllocateScan ==
    ASSUME HeapInv, HeapInv', ScanInv, InsertAllocate
    PROVE  ScanInv'
  <1>1. op.tuple \in ValidTuples
    BY OpSteps DEF InsertAllocate, HeapInv
  <1>2. PICK id, t, f, q : id = count /\ t = op.tuple /\ f = Fresh(head) /\ q = Inserted(f, t)
    OBVIOUS
  <1>3. f \in PageRecs /\ f.rows = <<>>
    BY <1>2, FreshPage
  <1>4. q.rows = <<t>>
    BY <1>1, <1>2, <1>3, InsertedPage, SMT
  <1>5. t \in Seq(Int) /\ check_tuple(t)
    BY <1>1, <1>2, TuplesAssumption DEF ValidTuples
  <1>6. Fits(q.rows)
    BY <1>4, <1>5, FirstFits
  <1>7. /\ id \in PageIds /\ pages' = [pages EXCEPT ![id] = q] /\ disk' = disk
        /\ state' = state /\ UNCHANGED scanVars
    BY <1>2, SMT DEF InsertAllocate, new_page, write, PageIds, HeapInv, Types
  <1>8. Len(state) <= Len(state') /\ \A i \in 1 .. Len(state) : state'[i] = state[i]
    BY <1>7, SMT DEF HeapInv, Types
  <1> QED BY <1>2, <1>6, <1>7, <1>8, PutStep, Zenon

LEMMA InsertLinkScan ==
    ASSUME HeapInv, HeapInv', ScanInv, InsertLink
    PROVE  ScanInv'
  <1>1. OpIsLink /\ state # <<>>
    BY OpSteps DEF InsertLink, HeapInv, OpIsLink
  <1>2. PICK id, n, q : id = tail /\ n = op.page /\ q = Linked(pages[id], n)
    OBVIOUS
  <1>3. id \in PageIds /\ pages[id] \in PageRecs
    BY <1>1, <1>2, TailFacts
  <1>4. n \in PageIds /\ n \in Links
    BY <1>1, <1>2, OpSteps, SMT DEF Publishable, Links, PageIds
  <1>5. q.rows = pages[id].rows
    BY <1>2, <1>3, <1>4, LinkedPage
  <1>6. RowsKept(pages[id], q)
    <2>1. Len(pages[id].rows) \in Nat
      BY <1>3, RowsListed
    <2> QED BY <1>5, <2>1, SMT DEF RowsKept, HasRow, Row
  <1>7. Fits(q.rows)
    BY <1>3, <1>5 DEF ScanInv, RowsFit
  <1>8. /\ pages' = [pages EXCEPT ![id] = q] /\ disk' = disk
        /\ state' = Append(state, n) /\ UNCHANGED scanVars
    BY <1>2 DEF InsertLink, write
  <1>9. Len(state) <= Len(state') /\ \A i \in 1 .. Len(state) : state'[i] = state[i]
    BY <1>4, <1>8, SMT DEF HeapInv, Types
  <1> QED BY <1>3, <1>6, <1>7, <1>8, <1>9, PutStep, Zenon

(* delete and replace. *)
LEMMA ChangeScan ==
    ASSUME HeapInv, HeapInv', ScanInv, NEW c \in Ctids, member(c),
           HasRow(pages[c[1]], c[2]), NEW t \in ValidTuples \union {NoTuple},
           t = NoTuple \/ Fits([pages[c[1]].rows EXCEPT ![c[2]] = t]),
           pages' = [pages EXCEPT ![c[1]] = Replaced(pages[c[1]], c[2], t)],
           disk' = disk, state' = state, UNCHANGED scanVars
    PROVE  ScanInv'
  <1>1. PICK id, k : id = c[1] /\ k = c[2]
    OBVIOUS
  <1>2. PICK q : q = Replaced(pages[id], k, t)
    OBVIOUS
  <1>3. id \in PageIds /\ pages[id] \in PageRecs /\ k \in 1 .. Len(pages[id].rows)
    BY <1>1, RowAddress
  <1>4. RowsKept(pages[id], q) /\ q.rows = [pages[id].rows EXCEPT ![k] = t]
    <2>1. HasRow(pages[id], k)
      BY <1>1
    <2>2. RowsKept(pages[id], q)
      BY <1>2, <1>3, <2>1, ReplacedKept, Zenon
    <2>3. q.rows = [pages[id].rows EXCEPT ![k] = t]
      <3>1. PICK p : p = pages[id]
        OBVIOUS
      <3>2. Replaced(p, k, t).rows = [p.rows EXCEPT ![k] = t]
        BY <1>3, <3>1 DEF Replaced, PageRecs
      <3> QED BY <1>2, <3>1, <3>2, Zenon
    <2> QED BY <2>2, <2>3
  <1>5. Fits(q.rows)
    <2>1. CASE t = NoTuple
      <3>1. pages[id].rows \in RowLists /\ Fits(pages[id].rows)
        BY <1>3, RowsListed DEF ScanInv, RowsFit
      <3>2. Fits([pages[id].rows EXCEPT ![k] = NoTuple])
        BY <1>3, <3>1, EmptiedFits, Zenon
      <3> QED BY <1>4, <2>1, <3>2
    <2>2. CASE Fits([pages[c[1]].rows EXCEPT ![c[2]] = t])
      BY <1>1, <1>4, <2>2
    <2> QED BY <2>1, <2>2
  <1>6. Len(state) <= Len(state') /\ \A i \in 1 .. Len(state) : state'[i] = state[i]
    BY SMT DEF HeapInv, Types
  <1>7. pages' = [pages EXCEPT ![id] = q]
    BY <1>1, <1>2
  <1> QED BY <1>3, <1>4, <1>5, <1>6, <1>7, PutStep, Zenon

-----------------------------------------------------------------------------
(* scan captures the chain and the number of slots of every page. *)
LEMMA ScanScan ==
    ASSUME HeapInv, ScanInv, Scan
    PROVE  ScanInv'
  <1>1. PICK b, n : b = Bounds /\ n = Len(state)
    BY Zenon
  <1>2. /\ scan' = [pages |-> b, index |-> 1, rows |-> <<>>, failed |-> FALSE]
        /\ seen' = <<>> /\ start' = Live /\ state # <<>> /\ state' = state
        /\ pages' = pages /\ disk' = disk
    BY <1>1 DEF Scan, opened, storeVars
  <1>3. n \in Nat /\ DOMAIN state = 1 .. n /\ state \in Seq(PageIds)
    BY <1>1, SMT DEF HeapInv, Types
  <1>4. \A i \in 1 .. n : state[i] \in PageIds /\ Len(pages[state[i]].rows) \in Nat
    BY <1>1, Existing, RowsListed
  <1>5. /\ b \in Seq(Addresses) /\ Len(b) = n
        /\ \A i \in 1 .. n : b[i][1] = state[i] /\ b[i][2] = Len(pages[state[i]].rows)
    BY <1>1, <1>3, <1>4, SMT DEF Bounds, Addresses
  <1>6. /\ scan'.pages = b /\ scan'.index = 1 /\ scan'.rows = <<>> /\ scan' \in Scans
        /\ Out' = <<>>
    BY <1>2, <1>5, SMTT(40) DEF Scans, Out
  <1>7. ScanTypes'
    BY <1>2, <1>3, <1>5, <1>6, SMT DEF ScanTypes
  <1>8. ScanChain'
    BY <1>1, <1>2, <1>3, <1>4, <1>5, <1>6, SMT DEF ScanChain
  <1>9. ScanStart'
    <2>1. ASSUME NEW c \in Live
          PROVE  c \in Ctids /\ \E i \in 1 .. n : c[1] = b[i][1] /\ c[2] <= b[i][2]
      <3>1. /\ c \in Ctids /\ c[2] <= Len(pages[c[1]].rows)
            /\ \E i \in 1 .. n : c[1] = state[i]
        BY <1>1, LiveIs
      <3> QED BY <1>5, <3>1, SMT
    <2> QED BY <1>2, <1>5, <1>6, <2>1 DEF ScanStart
  <1>10. ScanOld'
    <2>1. ASSUME NEW i \in 1 .. n, NEW k \in 1 .. b[i][2], HasRow(pages[state[i]], k)
          PROVE  <<state[i], k>> \in Live
      <3>1. k \in Nat \ {0}
        BY <1>4, <1>5, SMT
      <3> QED BY <1>1, <2>1, <3>1, LiveRow DEF ScanInv
    <2> QED BY <1>2, <1>5, <1>6, <2>1 DEF ScanOld
  <1>11. ScanOut' /\ ScanOrder'
    BY <1>6, SMT DEF ScanOut, ScanOrder
  <1>12. ScanAll'
    BY <1>6, SMT DEF ScanAll
  <1>13. RowsFit'
    BY <1>2 DEF ScanInv, RowsFit
  <1> QED BY <1>7, <1>8, <1>9, <1>10, <1>11, <1>12, <1>13 DEF ScanInv, ScanState

(* The parts that a step of the iterator leaves alone. *)
LEMMA IteratorStep ==
    ASSUME HeapInv, ScanInv, ScanState, UNCHANGED <<storeVars, state, start>>,
           scan'.pages = scan.pages
    PROVE  RowsFit' /\ ScanChain' /\ ScanStart' /\ ScanOld'
  <1>1. pages' = pages /\ disk' = disk /\ state' = state /\ start' = start
    BY DEF storeVars
  <1>2. RowsFit'
    BY <1>1 DEF ScanInv, RowsFit
  <1>3. ScanChain'
    BY <1>1 DEF ScanState, ScanChain
  <1>4. ScanStart' /\ ScanOld'
    BY <1>1 DEF ScanState, ScanStart, ScanOld
  <1> QED BY <1>2, <1>3, <1>4

(* A page that fails ends the scan. *)
LEMMA ScanFailsScan ==
    ASSUME HeapInv, ScanInv, ScanFails
    PROVE  ScanInv'
  <1>1. /\ ScanState /\ UNCHANGED <<storeVars, state, start>> /\ seen' = seen
        /\ scan' = [scan EXCEPT !.index = @ + 1, !.failed = TRUE]
        /\ scan.index <= Len(scan.pages)
    BY DEF ScanInv, ScanFails, Scanning
  <1>2. scan \in Scans /\ scan.pages \in Seq(Addresses) /\ scan.index \in Nat \ {0}
    BY <1>1 DEF ScanState, ScanTypes, Scans
  <1>3. /\ scan' \in Scans /\ scan'.pages = scan.pages /\ scan'.rows = scan.rows
        /\ scan'.index = scan.index + 1 /\ scan'.failed = TRUE
    <2>1. PICK s, x : s = scan /\ x = scan.index + 1
      OBVIOUS
    <2>2. s \in Scans /\ x \in Nat \ {0} /\ scan' = [s EXCEPT !.index = x, !.failed = TRUE]
      BY <1>1, <1>2, <2>1, SMT
    <2>3. scan' \in Scans
      BY <2>2, Zenon DEF Scans
    <2>4. /\ scan'.pages = s.pages /\ scan'.rows = s.rows /\ scan'.index = x
          /\ scan'.failed = TRUE
      BY <2>2 DEF Scans
    <2> QED BY <2>1, <2>3, <2>4
  <1>4. RowsFit' /\ ScanChain' /\ ScanStart' /\ ScanOld'
    BY <1>1, <1>3, IteratorStep
  <1>5. ScanTypes'
    BY <1>1, <1>2, <1>3, SMT DEF ScanState, ScanTypes
  <1>6. Out' = Out /\ start' = start
    BY <1>1, <1>3, Zenon DEF Out
  <1>7. ScanOut'
    <2>1. \A i \in 1 .. scan.index - 1 : i \in 1 .. scan'.index - 1
      BY <1>2, <1>3, SMT
    <2>2. ScanOut
      BY <1>1 DEF ScanState
    <2> QED BY <1>3, <1>6, <2>1, <2>2, SMT DEF ScanOut
  <1>8. ScanOrder'
    <2>1. ScanOrder
      BY <1>1 DEF ScanState
    <2>2. \A c, d : Before(c, d)' <=> Before(c, d)
      BY <1>3 DEF Before
    <2> QED BY <1>6, <2>1, <2>2 DEF ScanOrder
  <1>9. ScanAll'
    BY <1>3 DEF ScanAll
  <1> QED BY <1>4, <1>5, <1>7, <1>8, <1>9 DEF ScanInv, ScanState

(* next takes a buffered row: nothing is read, nothing lost. *)
LEMMA ScanNextScan ==
    ASSUME HeapInv, ScanInv, ScanNext
    PROVE  ScanInv'
  <1>1. /\ ScanState /\ UNCHANGED <<storeVars, state, start>>
        /\ scan' = [scan EXCEPT !.rows = Tail(@)] /\ scan.rows # <<>>
        /\ seen' = Append(seen, Head(scan.rows))
    BY DEF ScanInv, ScanNext
  <1>2. /\ scan \in Scans /\ scan.pages \in Seq(Addresses) /\ scan.rows \in Seq(Addresses)
        /\ seen \in Seq(Addresses)
    BY <1>1 DEF ScanState, ScanTypes, Scans
  <1>3. Tail(scan.rows) \in Seq(Addresses) /\ Head(scan.rows) \in Addresses
    BY <1>1, <1>2, SMT
  <1>4. /\ scan' \in Scans /\ scan'.pages = scan.pages /\ scan'.rows = Tail(scan.rows)
        /\ scan'.index = scan.index /\ scan'.failed = scan.failed
    BY <1>1, <1>2, <1>3, Zenon DEF Scans
  <1>5. RowsFit' /\ ScanChain' /\ ScanStart' /\ ScanOld'
    BY <1>1, <1>4, IteratorStep
  <1>6. ScanTypes'
    BY <1>1, <1>2, <1>3, <1>4, SMT DEF ScanState, ScanTypes
  <1>7. Out' = Out
    <2>1. PICK s, r : s = seen /\ r = scan.rows
      OBVIOUS
    <2>2. s \in Seq(Addresses) /\ r \in Seq(Addresses) /\ r # <<>>
      BY <1>1, <1>2, <2>1
    <2>3. Append(s, Head(r)) \o Tail(r) = s \o r
      BY <2>2, SMT
    <2> QED BY <1>1, <1>4, <2>1, <2>3, Zenon DEF Out
  <1>8. ScanOut' /\ ScanAll'
    <2>1. ScanOut /\ ScanAll /\ pages' = pages /\ start' = start
      BY <1>1 DEF ScanState, storeVars
    <2>2. ScanOut'
      BY <1>4, <1>7, <2>1, SMT DEF ScanOut
    <2>3. ScanAll'
      BY <1>4, <1>7, <2>1, Zenon DEF ScanAll
    <2> QED BY <2>2, <2>3
  <1>9. ScanOrder'
    BY <1>1, <1>4, <1>7, SMT DEF ScanState, ScanOrder, Before
  <1> QED BY <1>5, <1>6, <1>8, <1>9 DEF ScanInv, ScanState

(* A page is read: its rows within the bound, after all those before. *)
LEMMA ScanPageScan ==
    ASSUME HeapInv, ScanInv, ScanPage
    PROVE  ScanInv'
  <1>1. PICK m, id, n, r : /\ m = scan.index /\ id = scan.pages[m][1] /\ n = scan.pages[m][2]
                           /\ r = records(id, n)
    OBVIOUS
  <1>2. /\ ScanState /\ UNCHANGED <<storeVars, state, start>> /\ seen' = seen
        /\ scan.rows = <<>> /\ m <= Len(scan.pages) /\ ~scan.failed
        /\ scan' = [scan EXCEPT !.index = m + 1, !.rows = r]
    BY <1>1 DEF ScanInv, ScanPage, Scanning
  <1>3. /\ scan \in Scans /\ scan.pages \in Seq(Addresses) /\ m \in Nat \ {0}
        /\ seen \in Seq(Addresses) /\ Len(scan.pages) \in Nat /\ m \in 1 .. Len(scan.pages)
    BY <1>1, <1>2, SMT DEF ScanState, ScanTypes, Scans
  <1>4. id \in PageIds /\ n \in Nat
    BY <1>1, <1>2, <1>3, BoundsTyped, Zenon
  <1>5. Found(r, id, n)
    BY <1>1, <1>4, RecordsFound
  <1>6. r \in Seq(Addresses) /\ Len(r) \in Nat
    BY <1>5, SMT DEF Found
  <1>7. /\ scan' \in Scans /\ scan'.pages = scan.pages /\ scan'.rows = r
        /\ scan'.index = m + 1 /\ scan'.failed = scan.failed
    <2>1. PICK s, x : s = scan /\ x = m + 1
      OBVIOUS
    <2>2. s \in Scans /\ x \in Nat \ {0} /\ scan' = [s EXCEPT !.index = x, !.rows = r]
      BY <1>2, <1>3, <2>1, SMT
    <2>3. scan' \in Scans
      BY <1>6, <2>2, Zenon DEF Scans
    <2>4. /\ scan'.pages = s.pages /\ scan'.rows = r /\ scan'.index = x
          /\ scan'.failed = s.failed
      BY <2>2 DEF Scans
    <2> QED BY <2>1, <2>3, <2>4
  <1>8. RowsFit' /\ ScanChain' /\ ScanStart' /\ ScanOld'
    BY <1>2, <1>7, IteratorStep
  <1>9. ScanTypes'
    BY <1>2, <1>3, <1>7, SMT DEF ScanTypes
  <1>10. PICK l, o : l = Len(seen) /\ o = Out'
    BY ZenonT(40)
  <1>11. l \in Nat /\ Out = seen /\ o = seen \o r
    BY <1>2, <1>3, <1>7, <1>10, SMT DEF Out
  <1>12. /\ Len(o) = l + Len(r) /\ (\A a \in 1 .. l : o[a] = Out[a])
         /\ \A a \in 1 .. Len(r) : o[l + a] = r[a]
    BY <1>3, <1>6, <1>10, <1>11, SMT
  <1>13. \A a \in 1 .. Len(o) : a \in 1 .. l \/ \E b \in 1 .. Len(r) : a = l + b
    <2>1. SUFFICES ASSUME NEW a \in 1 .. Len(o), a \notin 1 .. l
                   PROVE  \E b \in 1 .. Len(r) : a = l + b
      OBVIOUS
    <2>2. a - l \in 1 .. Len(r) /\ a = l + (a - l)
      BY <1>6, <1>11, <1>12, <2>1, SMT
    <2> QED BY <2>2
  <1>14. ScanOut /\ ScanOrder /\ ScanAll /\ ScanOld /\ start' = start /\ pages' = pages
    BY <1>2 DEF ScanState, storeVars
  <1>15. \A a \in 1 .. l : /\ o[a] \in start
                           /\ \E i \in 1 .. m - 1 : o[a][1] = scan.pages[i][1]
    <2>1. Len(Out) = l
      BY <1>10, <1>11
    <2>2. \A a \in 1 .. l : Out[a] \in start /\ \E i \in 1 .. m - 1 : Out[a][1] = scan.pages[i][1]
      BY <1>1, <1>14, <2>1, Zenon DEF ScanOut
    <2>3. ASSUME NEW a \in 1 .. l
          PROVE  o[a] \in start /\ \E i \in 1 .. m - 1 : o[a][1] = scan.pages[i][1]
      <3>1. o[a] = Out[a]
        BY <1>12, Zenon
      <3> QED BY <2>2, <3>1, Zenon
    <2> QED BY <2>3, Zenon
  <1>16. \A b \in 1 .. Len(r) : o[l + b] \in start /\ o[l + b][1] = id
    <2>1. SUFFICES ASSUME NEW b \in 1 .. Len(r) PROVE r[b] \in start /\ r[b][1] = id
      BY <1>12
    <2>2. PICK j \in 1 .. n : r[b] = <<id, j>> /\ HasRow(pages[id], j)
      BY <1>5 DEF Found
    <2>3. <<id, j>> \in start
      BY <1>1, <1>3, <1>14, <2>2, Zenon DEF ScanOld
    <2> QED BY <2>2, <2>3, SMT
  <1>17. ScanOut'
    <2>1. ASSUME NEW a \in 1 .. Len(o)
          PROVE  o[a] \in start /\ \E i \in 1 .. m : o[a][1] = scan.pages[i][1]
      <3>1. CASE a \in 1 .. l
        <4>1. \A i \in 1 .. m - 1 : i \in 1 .. m
          BY <1>3, SMT
        <4> QED BY <1>15, <3>1, <4>1
      <3>2. CASE \E b \in 1 .. Len(r) : a = l + b
        <4>1. m \in 1 .. m
          BY <1>3, SMT
        <4> QED BY <1>1, <1>16, <3>2, <4>1
      <3> QED BY <1>13, <3>1, <3>2
    <2>2. (m + 1) - 1 = m
      BY <1>3, SMT
    <2> QED BY <1>7, <1>10, <1>14, <2>1, <2>2, SMT DEF ScanOut
  <1>18. ScanOrder'
    <2>1. \A c, d : Before(c, d)' <=> Before(c, d)
      BY <1>7 DEF Before
    <2>2. ASSUME NEW a \in 1 .. l, NEW b \in 1 .. l, a < b PROVE Before(o[a], o[b])
      BY <1>10, <1>11, <1>12, <1>14, <2>2 DEF ScanOrder
    <2>3. ASSUME NEW a \in 1 .. l, NEW b \in 1 .. Len(r) PROVE Before(o[a], o[l + b])
      <3>1. PICK i \in 1 .. m - 1 : o[a][1] = scan.pages[i][1]
        BY <1>15
      <3>2. i \in DOMAIN scan.pages /\ m \in DOMAIN scan.pages /\ i < m
        BY <1>3, SMT
      <3> QED BY <1>1, <1>16, <3>1, <3>2 DEF Before
    <2>4. ASSUME NEW a \in 1 .. Len(r), NEW b \in 1 .. Len(r), a < b
          PROVE  Before(o[l + a], o[l + b])
      <3>1. o[l + a][2] < o[l + b][2]
        BY <1>5, <1>12, <2>4, Zenon DEF Found
      <3>2. m \in DOMAIN scan.pages
        BY <1>3, SMT
      <3> QED BY <1>1, <1>16, <3>1, <3>2 DEF Before
    <2>5. ASSUME NEW a \in 1 .. Len(o), NEW b \in 1 .. Len(o), a < b
          PROVE  Before(o[a], o[b])
      <3>1. CASE b \in 1 .. l
        <4>1. a \in 1 .. l
          BY <1>11, <2>5, <3>1, SMT
        <4> QED BY <2>2, <2>5, <3>1, <4>1
      <3>2. ASSUME NEW y \in 1 .. Len(r), b = l + y PROVE Before(o[a], o[b])
        <4>1. CASE a \in 1 .. l
          BY <2>3, <3>2, <4>1
        <4>2. ASSUME NEW x \in 1 .. Len(r), a = l + x PROVE Before(o[a], o[b])
          <5>1. x < y
            BY <1>6, <1>11, <2>5, <3>2, <4>2, SMT
          <5> QED BY <2>4, <3>2, <4>2, <5>1
        <4> QED BY <1>13, <4>1, <4>2
      <3> QED BY <1>13, <3>1, <3>2
    <2> QED BY <1>10, <2>1, <2>5 DEF ScanOrder
  <1>19. ScanAll'
    <2>1. ASSUME NEW i \in 1 .. m, NEW k \in 1 .. scan.pages[i][2],
                 HasRow(pages[scan.pages[i][1]], k)
          PROVE  \E a \in 1 .. Len(o) : o[a] = <<scan.pages[i][1], k>>
      <3>1. CASE i = m
        <4>1. PICK b \in 1 .. Len(r) : r[b] = <<id, k>>
          BY <1>1, <1>5, <2>1, <3>1, Zenon DEF Found
        <4>2. l + b \in 1 .. Len(o)
          BY <1>6, <1>11, <1>12, SMT
        <4> QED BY <1>1, <1>12, <3>1, <4>1, <4>2, Zenon
      <3>2. CASE i # m
        <4>1. i \in 1 .. m - 1
          BY <1>3, <3>2, SMT
        <4>2. PICK a \in 1 .. l : Out[a] = <<scan.pages[i][1], k>>
          BY <1>1, <1>2, <1>10, <1>11, <1>14, <2>1, <4>1, Zenon DEF ScanAll
        <4>3. a \in 1 .. Len(o)
          BY <1>6, <1>11, <1>12, SMT
        <4> QED BY <1>12, <4>2, <4>3
      <3> QED BY <3>1, <3>2
    <2>2. (m + 1) - 1 = m
      BY <1>3, SMT
    <2>3. SUFFICES ASSUME NEW i \in 1 .. scan'.index - 1, NEW k \in 1 .. scan'.pages[i][2],
                          HasRow(pages'[scan'.pages[i][1]], k)
                   PROVE  \E a \in 1 .. Len(Out') : Out'[a] = <<scan'.pages[i][1], k>>
      BY Zenon DEF ScanAll
    <2>4. i \in 1 .. m /\ k \in 1 .. scan.pages[i][2] /\ HasRow(pages[scan.pages[i][1]], k)
      BY <1>7, <1>14, <2>2, <2>3
    <2> QED BY <1>7, <1>10, <2>1, <2>4, Zenon
  <1> QED BY <1>8, <1>9, <1>17, <1>18, <1>19 DEF ScanInv, ScanState

-----------------------------------------------------------------------------
(* A crash ends the scan; the store keeps pages that fit. *)
LEMMA CrashScan ==
    ASSUME HeapInv, ScanInv, Crash
    PROVE  ScanInv'
  <1>1. PICK n : disk' = [p \in PageIds |-> IF p < n THEN disk[p] ELSE Blank]
    BY DEF Crash
  <1>2. pages' = disk' /\ scan' = NoScan
    BY DEF Crash, EndScan
  <1>3. Fits(Blank.rows)
    BY FirstFits DEF Blank
  <1>4. RowsFit'
    BY <1>1, <1>2, <1>3 DEF ScanInv, RowsFit
  <1> QED BY <1>2, <1>4 DEF ScanInv

(* Every step preserves the invariant. *)
LEMMA ScanInvStep ==
    ASSUME HeapInv, ScanInv, [Next]_vars
    PROVE  ScanInv'
  <1>1. HeapInv'
    BY HeapInvStep
  <1>2. CASE Create \/ CreateOther
    BY <1>1, <1>2, CreateScan
  <1>3. ASSUME NEW t \in Tuples, Insert(t) PROVE ScanInv'
    BY <1>1, <1>3, InsertScan
  <1>4. CASE InsertAllocate
    BY <1>1, <1>4, InsertAllocateScan
  <1>5. CASE InsertLink
    BY <1>1, <1>5, InsertLinkScan
  <1>6. ASSUME NEW c \in Ctids, Delete(c) PROVE ScanInv'
    <2>1. /\ member(c) /\ HasRow(pages[c[1]], c[2]) /\ disk' = disk /\ state' = state
          /\ UNCHANGED scanVars
          /\ pages' = [pages EXCEPT ![c[1]] = Deleted(pages[c[1]], c[2])]
      BY <1>6 DEF Delete, write
    <2>2. Deleted(pages[c[1]], c[2]) = Replaced(pages[c[1]], c[2], NoTuple)
      BY DEF Deleted, Replaced
    <2>3. NoTuple \in ValidTuples \union {NoTuple}
      OBVIOUS
    <2> QED BY <1>1, <1>6, <2>1, <2>2, <2>3, ChangeScan, Zenon
  <1>7. ASSUME NEW c \in Ctids, NEW t \in Tuples, Replace(c, t) PROVE ScanInv'
    <2>1. /\ member(c) /\ HasRow(pages[c[1]], c[2]) /\ disk' = disk /\ state' = state
          /\ Fits([pages[c[1]].rows EXCEPT ![c[2]] = t]) /\ UNCHANGED scanVars
          /\ pages' = [pages EXCEPT ![c[1]] = Replaced(pages[c[1]], c[2], t)]
      BY <1>7, ZenonT(40) DEF Replace, CanReplace, write
    <2>2. t \in ValidTuples \union {NoTuple}
      BY <1>7, Zenon DEF Replace, ValidTuples
    <2> QED BY <1>1, <1>7, <2>1, <2>2, ChangeScan, Zenon
  <1>8. CASE InsertFails \/ Open \/ OpenPage \/ OpenFails \/ UNCHANGED vars
    <2>1. UNCHANGED scanVars /\ pages' = pages /\ state' = state /\ disk' = disk
      BY <1>8 DEF InsertFails, Open, OpenPage, OpenFails, vars, storeVars
    <2> QED BY <1>1, <2>1, StillScan
  <1>9. ASSUME NEW p \in PageIds, WriteBack(p) PROVE ScanInv'
    <2>1. UNCHANGED scanVars /\ pages' = pages /\ state' = state
      BY <1>9 DEF WriteBack
    <2>2. \A x \in PageIds : disk'[x] = disk[x] \/ disk'[x] = pages[x]
      BY <1>9 DEF WriteBack, HeapInv, Types
    <2> QED BY <1>1, <2>1, <2>2, StillScan
  <1>10. CASE FlushAll
    <2>1. UNCHANGED scanVars /\ pages' = pages /\ state' = state /\ disk' = pages
      BY <1>10 DEF FlushAll
    <2> QED BY <1>1, <2>1, StillScan
  <1>11. CASE OpenEnds
    <2>1. UNCHANGED scanVars /\ pages' = pages /\ disk' = disk
      BY <1>11 DEF OpenEnds, storeVars
    <2>2. state = <<>>
      BY <1>11, OpSteps DEF OpenEnds, HeapInv, OpIsOpen
    <2>3. scan = NoScan
      BY <2>2 DEF ScanInv, ScanState, ScanChain
    <2> QED BY <2>1, <2>3 DEF ScanInv, RowsFit, scanVars
  <1>12. CASE ScanDrop
    <2>1. scan' = NoScan /\ pages' = pages /\ disk' = disk
      BY <1>12 DEF ScanDrop, EndScan, storeVars
    <2> QED BY <2>1 DEF ScanInv, RowsFit
  <1> QED BY <1>2, <1>3, <1>4, <1>5, <1>6, <1>7, <1>8, <1>9, <1>10, <1>11, <1>12, CrashScan,
             ScanScan, ScanPageScan, ScanFailsScan, ScanNextScan DEF Next

(* Whatever is inserted, deleted, replaced or linked between two next      *)
(* calls, a scan returns rows of its start in order, none twice, and once  *)
(* it ends without an error, all of those that are still there; for any    *)
(* page size, any number of pages and any tuples.                          *)
THEOREM ScansExact == Spec => []ScanExact
  <1>1. Init => ScanInv
    <2>1. Fits(Blank.rows)
      BY FirstFits DEF Blank
    <2> QED BY <2>1 DEF Init, ScanInv, RowsFit
  <1>2. HeapInv /\ ScanInv /\ [Next]_vars => ScanInv'
    BY ScanInvStep
  <1>3. HeapInv /\ ScanInv => ScanExact
    BY ScanGives
  <1> QED BY <1>1, <1>2, <1>3, HeapInvariance, PTL DEF Spec
=============================================================================
