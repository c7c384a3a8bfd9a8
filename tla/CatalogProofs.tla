---------------------------- MODULE CatalogProofs ----------------------------
(***************************************************************************)
(* The catalog of crates/catalog/src/lib.rs, for any declarations, any     *)
(* records found in its heap, any page size and any number of pages: no    *)
(* two of its tables share a heap.  RootInv is the inductive invariant.    *)
(* What the records say is left to decode: nothing here depends on it.     *)
(***************************************************************************)
EXTENDS Catalog, SlottedPageLemmas, FiniteSetTheorems

USE CatalogAssumption

-----------------------------------------------------------------------------
(* A sequence, of whatever; a page of the store. *)
IsSeq(s) == \E T : s \in Seq(T)
PageOf(T) == [sound : BOOLEAN, owner : Int, next : Int, rows : Seq(T)]
IsPage(p) == \E T : p \in PageOf(T)
Stored(f) == f = [p \in PageIds |-> f[p]] /\ \A p \in PageIds : IsPage(f[p])

(* The cached tables have roots of their own, pages of the store. *)
Rooted ==
    /\ root \in 0 .. size - 1
    /\ IsFiniteSet(DOMAIN entries)
    /\ \A n \in DOMAIN entries : entries[n].head \in (0 .. size - 1) \ {root}
    /\ \A n, k \in DOMAIN entries : entries[n].head = entries[k].head => n = k

(* A table about to be published has a root that none of them has. *)
Unshared(m) ==
    /\ m.head \in (0 .. size - 1) \ {root}
    /\ m.name \notin DOMAIN entries
    /\ \A n \in DOMAIN entries : entries[n].head # m.head
OpOK == op = Idle \/ (opened /\ \E m : op = [publishing |-> TRUE, m |-> m] /\ Unshared(m))

RootInv ==
    /\ size \in 0 .. MaxPages /\ synced \in Nat
    /\ Stored(pages) /\ Stored(disk)
    /\ root \in Int /\ opened \in BOOLEAN
    /\ IF opened THEN Rooted ELSE entries = NoEntries
    /\ OpOK

-----------------------------------------------------------------------------
(* The pages that heap_open goes through. *)
Walks(F, h) ==
    /\ F \in [Nat -> [chain : Seq(0 .. size - 1),
                      next : {h, None} \union {pages[p].next : p \in 0 .. size - 1}]]
    /\ F[0] = [chain |-> <<>>, next |-> h]
    /\ \A k \in Nat : F[k + 1] = follow(F[k], h)
    /\ heap_open(h) = F[size + 1].chain

LEMMA WalkLoop ==
    ASSUME size \in Nat, NEW h
    PROVE  \E F : Walks(F, h)
  <1> DEFINE X == {h, None} \union {pages[p].next : p \in 0 .. size - 1}
             S == [chain : Seq(0 .. size - 1), next : X]
             a == [chain |-> <<>>, next |-> h]
             G == [x \in Nat \X S |-> follow(x[2], h)]
  <1>1. ASSUME NEW w \in S PROVE follow(w, h) \in S
    <2>1. CASE w.next = None
      BY <2>1 DEF follow
    <2>2. [chain |-> <<>>, next |-> None] \in S
      OBVIOUS
    <2>3. ASSUME w.next \in 0 .. size - 1
          PROVE  [chain |-> Append(w.chain, w.next), next |-> pages[w.next].next] \in S
      <3>1. w.chain \in Seq(0 .. size - 1)
        OBVIOUS
      <3>2. Append(w.chain, w.next) \in Seq(0 .. size - 1)
        BY <2>3, <3>1
      <3>3. pages[w.next].next \in X
        BY <2>3
      <3> QED BY <3>2, <3>3
    <2> HIDE DEF S
    <2> QED BY <2>1, <2>2, <2>3 DEF follow
  <1>2. a \in S
    OBVIOUS
  <1> HIDE DEF S, a
  <1>3. G \in [Nat \X S -> S]
    BY <1>1
  <1>4. \A k \in Nat, w \in S : G[<<k, w>>] = follow(w, h)
    OBVIOUS
  <1> HIDE DEF G
  <1>5. PICK F : Recursive(F, S, a, G)
    BY <1>2, <1>3, Recursion, Zenon
  <1>6. F \in [Nat -> S] /\ F[0] = a /\ \A k \in Nat : F[k + 1] = follow(F[k], h)
    BY <1>4, <1>5, Zenon DEF Recursive
  <1>7. PICK n \in Nat : n = size + 1
    OBVIOUS
  <1>8. heap_open(h) = F[n].chain
    <2> DEFINE Step(g) == [k \in 0 .. n |-> IF k = 0 THEN a ELSE follow(g[k - 1], h)]
               g0 == [k \in 0 .. n |-> F[k]]
               w == CHOOSE g : g = Step(g)
    <2>1. heap_open(h) = w[n].chain
      BY <1>7 DEF heap_open, a
    <2>2. g0 = Step(g0)
      <3>1. ASSUME NEW k \in 0 .. n, k # 0 PROVE F[k] = follow(g0[k - 1], h)
        <4>1. k - 1 \in Nat /\ k = (k - 1) + 1 /\ k - 1 \in 0 .. n
          BY <3>1
        <4>2. F[k] = follow(F[k - 1], h)
          BY <1>6, <4>1
        <4>3. g0[k - 1] = F[k - 1]
          BY <4>1
        <4> QED BY <4>2, <4>3
      <3> QED BY <1>6, <3>1
    <2>3. w = Step(w)
      <3> HIDE DEF Step, g0
      <3> QED BY <2>2
    <2>4. w[0] = a /\ \A k \in 1 .. n : w[k] = follow(w[k - 1], h)
      <3> HIDE DEF w
      <3> QED BY <2>3
    <2> HIDE DEF w
    <2> DEFINE Same == {k \in Nat : k <= n => w[k] = F[k]}
    <2>5. Nat \subseteq Same
      <3>1. 0 \in Same
        BY <1>6, <2>4
      <3>2. ASSUME NEW k \in Nat, k \in Same PROVE k + 1 \in Same
        <4>1. CASE k + 1 <= n
          <5>1. k + 1 \in 1 .. n /\ (k + 1) - 1 = k
            BY <4>1
          <5>2. w[k + 1] = follow(w[k], h)
            BY <2>4, <5>1
          <5>3. w[k] = F[k] /\ F[k + 1] = follow(F[k], h)
            BY <1>6, <3>2, <4>1
          <5> QED BY <5>2, <5>3
        <4> QED BY <4>1
      <3> HIDE DEF Same
      <3> QED BY <3>1, <3>2, SetInduction
    <2> QED BY <2>1, <2>5
  <1> QED BY <1>6, <1>7, <1>8, Zenon DEF Walks, S, a

(* A heap that opens has its root and its pages in the store. *)
LEMMA WalkedPages ==
    ASSUME size \in Nat, NEW h
    PROVE  /\ heap_open(h) \in Seq(0 .. size - 1)
           /\ heap_open(h) # <<>> => h \in 0 .. size - 1
  <1>1. PICK F : Walks(F, h)
    BY WalkLoop
  <1>2. size + 1 \in Nat
    OBVIOUS
  <1>3. heap_open(h) \in Seq(0 .. size - 1)
    BY <1>1, <1>2 DEF Walks
  <1>4. ASSUME h \notin 0 .. size - 1 PROVE heap_open(h) = <<>>
    <2> DEFINE Lost == {k \in Nat : F[k].chain = <<>> /\ F[k].next \in {h, None}}
    <2>1. 0 \in Lost
      BY <1>1 DEF Walks
    <2>2. ASSUME NEW k \in Nat, k \in Lost PROVE k + 1 \in Lost
      <3>1. F[k + 1] = follow(F[k], h)
        BY <1>1 DEF Walks
      <3> QED BY <1>4, <2>2, <3>1 DEF follow
    <2> HIDE DEF Lost
    <2>3. Nat \subseteq Lost
      BY <2>1, <2>2, SetInduction
    <2>4. size + 1 \in Lost
      BY <1>2, <2>3
    <2> QED BY <1>1, <2>4 DEF Lost, Walks
  <1> QED BY <1>3, <1>4

-----------------------------------------------------------------------------
(* The records of a chain are a sequence. *)
LEMMA ScannedRows ==
    ASSUME size \in 0 .. MaxPages, Stored(pages), NEW chain \in Seq(0 .. size - 1)
    PROVE  IsSeq(scan(chain))
  <1>1. PICK n \in Nat : n = Len(chain)
    OBVIOUS
  <1> DEFINE U == UNION {ToSet(pages[p].rows) : p \in 0 .. size - 1}
             S == Seq(U)
             At(k) == IF k + 1 <= n THEN pages[chain[k + 1]].rows ELSE <<>>
             Add(r, k) == r \o pages[chain[k]].rows
             G == [x \in Nat \X S |-> x[2] \o At(x[1])]
  <1>2. ASSUME NEW p \in 0 .. size - 1 PROVE pages[p].rows \in S
    <2>1. p \in PageIds
      BY DEF PageIds
    <2>2. PICK T : pages[p] \in PageOf(T)
      BY <2>1 DEF Stored, IsPage
    <2>3. PICK r : r = pages[p].rows
      OBVIOUS
    <2>4. r \in Seq(T)
      BY <2>2, <2>3 DEF PageOf
    <2>5. ToSet(r) \subseteq U
      BY <2>3
    <2> HIDE DEF U
    <2>6. \A i \in 1 .. Len(r) : r[i] \in U
      BY <2>4, <2>5 DEF ToSet
    <2>7. r \in Seq(U)
      BY <2>4, <2>6
    <2> QED BY <2>3, <2>7
  <1> HIDE DEF U
  <1>3. ASSUME NEW k \in Nat PROVE At(k) \in S
    <2>1. CASE k + 1 <= n
      <3>1. k + 1 \in 1 .. Len(chain)
        BY <1>1, <2>1
      <3>2. chain[k + 1] \in 0 .. size - 1
        BY <3>1
      <3>3. pages[chain[k + 1]].rows \in S
        BY <1>2, <3>2
      <3> QED BY <2>1, <3>3
    <2>2. <<>> \in S
      OBVIOUS
    <2> QED BY <2>1, <2>2
  <1> HIDE DEF At
  <1>4. G \in [Nat \X S -> S]
    <2>1. \A k \in Nat, r \in S : r \o At(k) \in S
      BY <1>3
    <2> HIDE DEF S
    <2> QED BY <2>1
  <1>5. \A k \in Nat, r \in S : G[<<k, r>>] = r \o At(k)
    BY Zenon
  <1>6. <<>> \in S
    OBVIOUS
  <1> HIDE DEF G, S
  <1>7. PICK F : Recursive(F, S, <<>>, G)
    BY <1>4, <1>6, Recursion, Zenon
  <1>8. F \in [Nat -> S] /\ F[0] = <<>> /\ \A k \in Nat : F[k + 1] = F[k] \o At(k)
    BY <1>5, <1>7, Zenon DEF Recursive
  <1>9. \A k \in Nat : k + 1 <= n => F[k + 1] = Add(F[k], k + 1)
    BY <1>8, Zenon DEF At
  <1> HIDE DEF Add
  <1>10. scan(chain) = F[n]
    <2> DEFINE Step(g) == [k \in 0 .. n |-> IF k = 0 THEN <<>> ELSE Add(g[k - 1], k)]
               g0 == [k \in 0 .. n |-> F[k]]
               w == CHOOSE g : g = Step(g)
    <2>1. scan(chain) = w[n]
      BY <1>1 DEF scan, Add
    <2>2. g0 = Step(g0)
      <3>1. ASSUME NEW k \in 0 .. n, k # 0 PROVE F[k] = Add(g0[k - 1], k)
        <4>1. k - 1 \in Nat /\ k = (k - 1) + 1 /\ k - 1 \in 0 .. n /\ (k - 1) + 1 <= n
          BY <3>1
        <4>2. F[(k - 1) + 1] = Add(F[k - 1], (k - 1) + 1)
          BY <1>9, <4>1
        <4>3. g0[k - 1] = F[k - 1]
          BY <4>1
        <4> QED BY <4>1, <4>2, <4>3
      <3> QED BY <1>8, <3>1, Zenon
    <2>3. w = Step(w)
      <3> HIDE DEF Step, g0
      <3> QED BY <2>2
    <2>4. w[0] = <<>> /\ \A k \in 1 .. n : w[k] = Add(w[k - 1], k)
      <3> HIDE DEF w
      <3> QED BY <2>3
    <2> HIDE DEF w
    <2> DEFINE Same == {k \in Nat : k <= n => w[k] = F[k]}
    <2>5. Nat \subseteq Same
      <3>1. 0 \in Same
        BY <1>8, <2>4, Zenon
      <3>2. ASSUME NEW k \in Nat, k \in Same PROVE k + 1 \in Same
        <4>1. CASE k + 1 <= n
          <5>1. k + 1 \in 1 .. n /\ (k + 1) - 1 = k
            BY <4>1
          <5>2. w[k + 1] = Add(w[k], k + 1)
            BY <2>4, <5>1
          <5>3. w[k] = F[k] /\ F[k + 1] = Add(F[k], k + 1)
            BY <1>9, <3>2, <4>1
          <5> QED BY <5>2, <5>3
        <4> QED BY <4>1
      <3> HIDE DEF Same
      <3> QED BY <3>1, <3>2, SetInduction
    <2> QED BY <2>1, <2>5
  <1>11. scan(chain) \in Seq(U)
    BY <1>8, <1>10 DEF S
  <1> QED BY <1>11 DEF IsSeq

-----------------------------------------------------------------------------
(* What a set as large as the sequence is long says of the sequence. *)
LEMMA NoRepeatsInjective ==
    ASSUME NEW V, NEW s \in Seq(V), NoRepeats(s)
    PROVE  \A i, j \in 1 .. Len(s) : s[i] = s[j] => i = j
  <1>1. PICK n \in Nat : n = Len(s)
    OBVIOUS
  <1>2. IsFiniteSet(1 .. n) /\ Cardinality(1 .. n) = n
    <2>1. 1 \in Int /\ n \in Int
      OBVIOUS
    <2>2. IsFiniteSet(1 .. n) /\ Cardinality(1 .. n) = IF 1 > n THEN 0 ELSE n - 1 + 1
      BY <2>1, FS_Interval, Zenon
    <2> QED BY <2>2
  <1>3. PICK T : T = ToSet(s)
    OBVIOUS
  <1>4. Cardinality(1 .. n) = Cardinality(T)
    BY <1>1, <1>2, <1>3 DEF NoRepeats
  <1>5. s \in [1 .. n -> T] /\ \A t \in T : \E i \in 1 .. n : s[i] = t
    <2>1. s = [i \in 1 .. n |-> s[i]] /\ DOMAIN s = 1 .. n
      BY <1>1
    <2>2. T = {s[i] : i \in 1 .. n}
      BY <1>3, <2>1 DEF ToSet
    <2> QED BY <2>1, <2>2
  <1>6. s \in Surjection(1 .. n, T)
    BY <1>5, Zenon DEF Surjection
  <1>7. s \in Injection(1 .. n, T)
    BY <1>2, <1>4, <1>6, FS_SurjSameCardinalityImpliesInj, Zenon
  <1>8. DOMAIN s = 1 .. n
    BY <1>1
  <1> QED BY <1>1, <1>7, <1>8, Zenon DEF Injection, IsInjective

(* open: the cache it fills has a root of its own for every table. *)
LEMMA OpenRoots ==
    ASSUME size \in 0 .. MaxPages, Stored(pages), Opens
    PROVE  /\ root \in 0 .. size - 1
           /\ IsFiniteSet(DOMAIN Cache)
           /\ \A n \in DOMAIN Cache : Cache[n].head \in (0 .. size - 1) \ {root}
           /\ \A n, k \in DOMAIN Cache : Cache[n].head = Cache[k].head => n = k
  <1>0. size \in Nat
    OBVIOUS
  <1>1. PICK chain : chain = heap_open(root)
    OBVIOUS
  <1>2. chain \in Seq(0 .. size - 1) /\ chain # <<>> /\ root \in 0 .. size - 1
    BY <1>0, <1>1, WalkedPages, Zenon DEF Opens
  <1>3. PICK records : records = scan(chain)
    OBVIOUS
  <1>4. IsSeq(records)
    BY <1>2, <1>3, ScannedRows
  <1>5. records # <<>>
    BY <1>1, <1>3 DEF Opens
  <1>6. PICK N \in Nat : N = Len(records) - 1
    <2>1. PICK T : records \in Seq(T)
      BY <1>4 DEF IsSeq
    <2> QED BY <1>5, <2>1
  <1>7. PICK tables : tables = Tables(records)
    OBVIOUS
  <1>8. DOMAIN tables = 1 .. N
    BY <1>6, <1>7 DEF Tables
  <1>9. PICK heads : heads = [i \in DOMAIN tables |-> tables[i].val.head]
    BY Zenon
  <1>10. /\ NoRepeats(<<root>> \o heads)
         /\ heaps_open(tables)
    BY <1>1, <1>3, <1>7, <1>9, Zenon DEF Opens
  <1>11. ASSUME NEW i \in 1 .. N PROVE tables[i] \in ToSet(tables)
    BY <1>8 DEF ToSet
  <1>12. ASSUME NEW i \in 1 .. N PROVE tables[i].val.head \in 0 .. size - 1
    BY <1>0, <1>10, <1>11, WalkedPages, Zenon DEF heaps_open
  <1>13. heads \in Seq(0 .. size - 1) /\ Len(heads) = N
    <2>1. heads = [i \in 1 .. N |-> tables[i].val.head]
      BY <1>8, <1>9
    <2>2. heads \in [1 .. N -> 0 .. size - 1]
      BY <1>12, <2>1
    <2> QED BY <2>1, <2>2
  <1>14. PICK s : s = <<root>> \o heads
    BY Zenon
  <1>15. /\ s \in Seq(0 .. size - 1) /\ Len(s) = N + 1 /\ s[1] = root
         /\ \A i \in 1 .. N : s[i + 1] = heads[i]
    BY <1>2, <1>13, <1>14
  <1>16. \A i, j \in 1 .. Len(s) : s[i] = s[j] => i = j
    BY <1>10, <1>14, <1>15, NoRepeatsInjective, Zenon
  <1>17. \A i \in 1 .. N : heads[i] = tables[i].val.head
    BY <1>8, <1>9
  <1>18. ASSUME NEW i \in 1 .. N PROVE tables[i].val.head # root
    <2>1. i + 1 \in 1 .. Len(s) /\ 1 \in 1 .. Len(s) /\ i + 1 # 1
      BY <1>15
    <2>2. s[i + 1] # s[1]
      BY <1>16, <2>1
    <2> QED BY <1>15, <1>17, <2>2
  <1>19. ASSUME NEW i \in 1 .. N, NEW j \in 1 .. N,
                tables[i].val.head = tables[j].val.head
         PROVE  i = j
    <2>1. i + 1 \in 1 .. Len(s) /\ j + 1 \in 1 .. Len(s)
      BY <1>15
    <2>2. s[i + 1] = s[j + 1]
      BY <1>15, <1>17, <1>19, Zenon
    <2>3. i + 1 = j + 1
      BY <1>16, <2>1, <2>2
    <2> QED BY <2>3
  <1> DEFINE found == {t.val : t \in ToSet(tables)}
             names == {m.name : m \in found}
  <1>20. Cache = [n \in names |-> CHOOSE m \in found : m.name = n]
    BY <1>1, <1>3, <1>7 DEF Cache
  <1>21. DOMAIN Cache = names
    BY <1>20
  <1>22. ASSUME NEW n \in DOMAIN Cache
         PROVE  \E i \in 1 .. N : Cache[n] = tables[i].val /\ tables[i].val.name = n
    <2>1. n \in names
      BY <1>21
    <2>2. \E m \in found : m.name = n
      BY <2>1
    <2>3. PICK m : m = CHOOSE x \in found : x.name = n
      OBVIOUS
    <2>4. m \in found /\ m.name = n
      BY <2>2, <2>3, Zenon
    <2>5. Cache[n] = m
      BY <1>20, <2>1, <2>3
    <2>6. PICK t \in ToSet(tables) : m = t.val
      BY <2>4
    <2>7. PICK i \in 1 .. N : t = tables[i]
      BY <1>8, <2>6 DEF ToSet
    <2> QED BY <2>4, <2>5, <2>6, <2>7
  <1>23. IsFiniteSet(DOMAIN Cache)
    <2> DEFINE f == [i \in 1 .. N |-> tables[i].val.name]
    <2>1. names = {tables[i].val.name : i \in 1 .. N}
      BY <1>8 DEF ToSet
    <2> HIDE DEF names
    <2>2. f \in [1 .. N -> names] /\ \A t \in names : \E i \in 1 .. N : f[i] = t
      BY <2>1
    <2>3. f \in Surjection(1 .. N, names)
      BY <2>2, Zenon DEF Surjection
    <2>4. 1 \in Int /\ N \in Int
      OBVIOUS
    <2>5. IsFiniteSet(1 .. N)
      BY <2>4, FS_Interval, Zenon
    <2> HIDE DEF f
    <2>6. IsFiniteSet(names)
      BY <2>3, <2>5, FS_Surjection, Zenon
    <2> QED BY <1>21, <2>6
  <1>24. ASSUME NEW n \in DOMAIN Cache
         PROVE  Cache[n].head \in (0 .. size - 1) \ {root}
    <2>1. PICK i \in 1 .. N : Cache[n] = tables[i].val
      BY <1>22
    <2> QED BY <1>12, <1>18, <2>1
  <1>25. ASSUME NEW n \in DOMAIN Cache, NEW k \in DOMAIN Cache,
                Cache[n].head = Cache[k].head
         PROVE  n = k
    <2>1. PICK i \in 1 .. N : Cache[n] = tables[i].val /\ tables[i].val.name = n
      BY <1>22
    <2>2. PICK j \in 1 .. N : Cache[k] = tables[j].val /\ tables[j].val.name = k
      BY <1>22
    <2>3. i = j
      BY <1>19, <1>25, <2>1, <2>2
    <2> QED BY <2>1, <2>2, <2>3
  <1> QED BY <1>2, <1>23, <1>24, <1>25

-----------------------------------------------------------------------------
(* What the operations write are pages. *)
LEMMA NewPages ==
    IsPage(Blank) /\ \A o \in Int : IsPage(Fresh(o))
  <1>1. <<>> \in Seq({})
    OBVIOUS
  <1> QED BY <1>1 DEF IsPage, PageOf, Blank, Fresh, None

LEMMA PagesWritten ==
    ASSUME NEW id \in Int, NEW bytes, NEW p, IsPage(p)
    PROVE  IsPage(Inserted(p, bytes)) /\ IsPage(Linked(p, id))
  <1>3. PICK T : p \in PageOf(T)
    BY DEF IsPage
  <1>4. Linked(p, id) \in PageOf(T)
    BY <1>3 DEF Linked, PageOf
  <1>5. Inserted(p, bytes) \in PageOf(T \union {bytes})
    <2>1. p.rows \in Seq(T)
      BY <1>3 DEF PageOf
    <2>2. Append(p.rows, bytes) \in Seq(T \union {bytes})
      BY <2>1
    <2>3. PICK r : r = Append(p.rows, bytes)
      BY Zenon
    <2>4. [p EXCEPT !.rows = r] \in PageOf(T \union {bytes})
      BY <1>3, <2>2, <2>3, Zenon DEF PageOf
    <2> QED BY <2>3, <2>4 DEF Inserted
  <1> QED BY <1>4, <1>5, Zenon DEF IsPage

LEMMA StoredPut ==
    ASSUME NEW f, Stored(f), NEW p, NEW v, IsPage(v)
    PROVE  Stored([f EXCEPT ![p] = v])
  <1>1. PICK g : g = [f EXCEPT ![p] = v]
    BY Zenon
  <1>2. DOMAIN f = PageIds
    BY DEF Stored
  <1>3. g = [q \in PageIds |-> g[q]] /\ \A q \in PageIds : g[q] = v \/ g[q] = f[q]
    BY <1>1, <1>2, Zenon
  <1>4. \A q \in PageIds : IsPage(g[q])
    BY <1>3 DEF Stored
  <1> QED BY <1>1, <1>3, <1>4 DEF Stored

LEMMA HeapCreated ==
    ASSUME RootInv, NEW page, IsPage(page), heap_create(page)
    PROVE  /\ size' \in 0 .. MaxPages /\ size' = size + 1 /\ size \in Nat
           /\ synced' \in Nat /\ Stored(pages') /\ Stored(disk')
  <1>1. size \in 0 .. MaxPages /\ synced \in Nat /\ Stored(pages) /\ Stored(disk)
    BY DEF RootInv
  <1>2. /\ size < MaxPages /\ size' = size + 1 /\ synced' = synced /\ disk' = disk
        /\ pages' = [pages EXCEPT ![size] = page]
    BY DEF heap_create
  <1>3. Stored(pages')
    BY <1>1, <1>2, StoredPut, Zenon
  <1>4. Stored(disk')
    BY <1>1, <1>2, Zenon
  <1> QED BY <1>1, <1>2, <1>3, <1>4

LEMMA RecordInserted ==
    ASSUME RootInv, NEW bytes, insert(root, bytes)
    PROVE  size' \in 0 .. MaxPages /\ size <= size' /\ Stored(pages')
  <1>0. size \in Nat /\ root \in Int /\ Stored(pages)
    BY DEF RootInv
  <1>1. PICK chain : chain = heap_open(root)
    OBVIOUS
  <1>2. chain \in Seq(0 .. size - 1) /\ chain # <<>>
    BY <1>0, <1>1, WalkedPages, Zenon DEF insert
  <1>3. PICK tail : tail = chain[Len(chain)]
    OBVIOUS
  <1>4. tail \in PageIds /\ tail # size
    <2>1. PICK U : U = 0 .. size - 1
      OBVIOUS
    <2>2. chain \in Seq(U) /\ chain # <<>>
      BY <1>2, <2>1
    <2>3. tail \in U
      BY <1>3, <2>2
    <2>4. size \in 0 .. MaxPages
      BY DEF RootInv
    <2> QED BY <2>1, <2>3, <2>4 DEF PageIds
  <1>5. IsPage(pages[tail]) /\ DOMAIN pages = PageIds
    BY <1>0, <1>4 DEF Stored
  <1>6. PICK p : p = pages[tail]
    OBVIOUS
  <1>7. CASE CanInsert(p, bytes)
    <2>1. pages' = [pages EXCEPT ![tail] = Inserted(p, bytes)] /\ size' = size
      BY <1>1, <1>3, <1>5, <1>6, <1>7, <1>4, Zenon DEF insert
    <2>2. IsPage(Inserted(p, bytes))
      BY <1>0, <1>5, <1>6, PagesWritten, Zenon
    <2>3. Stored(pages')
      BY <1>0, <2>1, <2>2, StoredPut, Zenon
    <2> QED BY <2>1, <2>3 DEF RootInv
  <1>8. CASE ~CanInsert(p, bytes)
    <2>1. /\ size < MaxPages /\ size' = size + 1
          /\ pages' = [pages EXCEPT ![size] = Inserted(Fresh(root), bytes),
                                    ![tail] = Linked(@, size)]
      BY <1>1, <1>3, <1>6, <1>8, Zenon DEF insert
    <2>2. PICK g : g = [pages EXCEPT ![size] = Inserted(Fresh(root), bytes)]
      BY Zenon
    <2>3. IsPage(Inserted(Fresh(root), bytes))
      <3>1. IsPage(Fresh(root))
        BY <1>0, NewPages, Zenon
      <3> QED BY <1>0, <3>1, PagesWritten, Zenon
    <2>4. Stored(g)
      BY <1>0, <2>2, <2>3, StoredPut, Zenon
    <2>5. PICK q : q = g[tail]
      OBVIOUS
    <2>6. IsPage(q)
      BY <1>4, <2>4, <2>5, Zenon DEF Stored
    <2>7. pages' = [g EXCEPT ![tail] = Linked(q, size)]
      <3>1. DOMAIN g = PageIds
        BY <2>4 DEF Stored
      <3>2. PICK x : x = Inserted(Fresh(root), bytes)
        OBVIOUS
      <3>3. q = pages[tail]
        BY <1>4, <1>5, <2>2, <2>5
      <3> QED BY <1>4, <1>5, <2>1, <2>2, <3>1, <3>2, <3>3
    <2>8. size \in Int
      BY <1>0
    <2>9. IsPage(Linked(q, size))
      BY <2>6, <2>8, PagesWritten, Zenon
    <2>10. Stored(pages')
      BY <2>4, <2>7, <2>9, StoredPut, Zenon
    <2> QED BY <1>0, <2>1, <2>10
  <1> QED BY <1>7, <1>8

LEMMA PagesGrow ==
    ASSUME NEW a \in Nat, NEW b \in Nat, a <= b
    PROVE  0 .. a - 1 \subseteq 0 .. b - 1
  OBVIOUS

(* More pages in the store do no harm to the roots. *)
LEMMA RootsKept ==
    ASSUME RootInv, size' \in Nat, size <= size', UNCHANGED <<root, opened, entries>>
    PROVE  /\ root' \in Int /\ opened' \in BOOLEAN
           /\ IF opened' THEN Rooted' ELSE entries' = NoEntries
           /\ \A m : Unshared(m) => Unshared(m)'
           /\ UNCHANGED op => OpOK'
  <1>0. size \in Nat /\ 0 .. size - 1 \subseteq 0 .. size' - 1
    <2>1. size \in 0 .. MaxPages
      BY DEF RootInv
    <2>2. size \in Nat
      BY <2>1
    <2> QED BY <2>2, PagesGrow, Zenon
  <1>1. ASSUME Rooted PROVE Rooted'
    BY <1>0, <1>1, Zenon DEF Rooted
  <1>2. ASSUME NEW m, Unshared(m) PROVE Unshared(m)'
    BY <1>0, <1>2, Zenon DEF Unshared
  <1>3. IF opened' THEN Rooted' ELSE entries' = NoEntries
    BY <1>1, Zenon DEF RootInv
  <1>4. UNCHANGED op => OpOK'
    BY <1>2, Zenon DEF RootInv, OpOK
  <1> QED BY <1>2, <1>3, <1>4, Zenon DEF RootInv

-----------------------------------------------------------------------------
LEMMA CreateRooted ==
    ASSUME RootInv, Create PROVE RootInv'
  <1>0. size \in Nat /\ ~opened /\ entries = <<>> /\ op = Idle
    BY DEF RootInv, Rooted, OpOK, Create, None, NoEntries
  <1>1. IsPage(Inserted(Fresh(size), MANIFEST))
    <2>1. size \in Int
      BY <1>0
    <2>2. IsPage(Fresh(size))
      BY <2>1, NewPages, Zenon
    <2> QED BY <2>1, <2>2, PagesWritten, Zenon
  <1>2. /\ size' \in 0 .. MaxPages /\ size' = size + 1 /\ synced' \in Nat
        /\ Stored(pages') /\ Stored(disk')
    BY <1>1, HeapCreated, Zenon DEF Create
  <1>3. root' = size /\ opened' = TRUE /\ entries' = <<>> /\ op' = Idle
    BY <1>0 DEF Create
  <1>4. Rooted'
    <2>1. DOMAIN entries' = {}
      BY <1>3
    <2>2. IsFiniteSet({})
      BY FS_EmptySet
    <2> QED BY <1>0, <1>2, <1>3, <2>1, <2>2 DEF Rooted
  <1> QED BY <1>0, <1>2, <1>3, <1>4 DEF RootInv, OpOK, Idle

LEMMA CreateOtherRooted ==
    ASSUME RootInv, CreateOther PROVE RootInv'
  <1>1. IsPage(Fresh(size))
    <2>1. size \in Int
      BY DEF RootInv
    <2> QED BY <2>1, NewPages, Zenon
  <1>2. /\ size' \in 0 .. MaxPages /\ size' = size + 1 /\ size \in Nat
        /\ synced' \in Nat /\ Stored(pages') /\ Stored(disk')
    BY <1>1, HeapCreated, Zenon DEF CreateOther
  <1>3. size' \in Nat /\ size <= size' /\ UNCHANGED <<root, opened, entries>> /\ UNCHANGED op
    BY <1>2 DEF CreateOther
  <1> QED BY <1>2, <1>3, RootsKept, Zenon DEF RootInv

LEMMA CreateTableRooted ==
    ASSUME RootInv, NEW d \in Declarations, CreateTable(d) PROVE RootInv'
  <1>1. IsPage(Fresh(size))
    <2>1. size \in Int
      BY DEF RootInv
    <2> QED BY <2>1, NewPages, Zenon
  <1>2. /\ size' \in 0 .. MaxPages /\ size' = size + 1 /\ size \in Nat
        /\ synced' \in Nat /\ Stored(pages') /\ Stored(disk')
    BY <1>1, HeapCreated, Zenon DEF CreateTable
  <1>3. /\ size' \in Nat /\ size <= size' /\ UNCHANGED <<root, opened, entries>>
        /\ opened /\ Rooted
    BY <1>2 DEF CreateTable, RootInv
  <1>4. PICK m : m = [d EXCEPT !.head = size]
    BY Zenon
  <1>5. m.head = size /\ m.name = d.name
    BY <1>4
  <1>6. Unshared(m)'
    <2>1. m.head \in (0 .. size' - 1) \ {root'}
      BY <1>2, <1>3, <1>5 DEF Rooted
    <2>2. m.name \notin DOMAIN entries'
      BY <1>3, <1>5 DEF CreateTable
    <2>3. \A n \in DOMAIN entries' : entries'[n].head # m.head
      BY <1>2, <1>3, <1>5 DEF Rooted
    <2> QED BY <2>1, <2>2, <2>3 DEF Unshared
  <1>7. OpOK'
    <2>1. op' = [publishing |-> TRUE, m |-> m]
      BY <1>4 DEF CreateTable
    <2>2. opened'
      BY <1>3
    <2> QED BY <1>6, <2>1, <2>2, Zenon DEF OpOK
  <1> QED BY <1>2, <1>3, <1>7, RootsKept, Zenon DEF RootInv

LEMMA PublishRooted ==
    ASSUME RootInv, Publish PROVE RootInv'
  <1>1. PICK m : op = [publishing |-> TRUE, m |-> m] /\ Unshared(m) /\ opened
    BY DEF RootInv, OpOK, Publish, Idle
  <1>2. op.m = m
    BY <1>1
  <1>3. size' \in 0 .. MaxPages /\ size <= size' /\ Stored(pages')
    BY RecordInserted, Zenon DEF Publish
  <1>4. Rooted /\ size \in Nat /\ 0 .. size - 1 \subseteq 0 .. size' - 1
    <2>1. Rooted /\ size \in 0 .. MaxPages
      BY <1>1, Zenon DEF RootInv
    <2>2. size \in Nat /\ size' \in Nat
      BY <1>3, <2>1
    <2> QED BY <1>3, <2>1, <2>2, PagesGrow, Zenon
  <1>5. PICK n : n = m.name
    OBVIOUS
  <1>6. /\ entries' = [x \in {n} \union DOMAIN entries |-> IF x = n THEN m ELSE entries[x]]
        /\ root' = root /\ opened' = opened /\ op' = Idle
        /\ synced' = synced /\ disk' = disk
    BY <1>2, <1>5 DEF Publish, cached
  <1>7. DOMAIN entries' = {n} \union DOMAIN entries
    BY <1>6
  <1>8. Rooted'
    <2>1. IsFiniteSet(DOMAIN entries')
      BY <1>4, <1>7, FS_AddElement DEF Rooted
    <2>2. \A x \in DOMAIN entries : entries'[x] = entries[x]
      BY <1>1, <1>5, <1>6 DEF Unshared
    <2>3. entries'[n] = m
      BY <1>6
    <2>4. root' \in 0 .. size' - 1
      BY <1>4, <1>6, Zenon DEF Rooted
    <2>5. \A x \in DOMAIN entries' : entries'[x].head \in (0 .. size' - 1) \ {root'}
      BY <1>1, <1>4, <1>6, <1>7, <2>2, <2>3, Zenon DEF Rooted, Unshared
    <2>6. \A x, y \in DOMAIN entries' : entries'[x].head = entries'[y].head => x = y
      BY <1>1, <1>4, <1>7, <2>2, <2>3, Zenon DEF Rooted, Unshared
    <2> QED BY <2>1, <2>4, <2>5, <2>6, Zenon DEF Rooted
  <1> QED BY <1>1, <1>3, <1>6, <1>8, Zenon DEF RootInv, OpOK, Stored

LEMMA PublishFailsRooted ==
    ASSUME RootInv, PublishFails PROVE RootInv'
  <1>1. op' = Idle /\ UNCHANGED <<root, opened, entries>>
    BY DEF PublishFails
  <1>2. /\ size' \in 0 .. MaxPages /\ size' \in Nat /\ size <= size'
        /\ synced' \in Nat /\ Stored(pages') /\ Stored(disk')
    <2>1. CASE UNCHANGED storeVars
      <3>1. UNCHANGED <<size, synced, pages, disk>>
        BY <2>1 DEF storeVars
      <3>2. Stored(pages') /\ Stored(disk')
        BY <3>1, Zenon DEF RootInv, Stored, IsPage
      <3> QED BY <3>1, <3>2 DEF RootInv
    <2>2. CASE insert_unlinked(root, encode(op.m))
      <3>1. PICK bytes : bytes = encode(op.m)
        OBVIOUS
      <3>2. IsPage(Inserted(Fresh(root), bytes))
        <4>1. root \in Int /\ IsPage(Fresh(root))
          BY NewPages, Zenon DEF RootInv
        <4> QED BY <4>1, PagesWritten, Zenon
      <3>3. heap_create(Inserted(Fresh(root), bytes))
        BY <2>2, <3>1, Zenon DEF insert_unlinked
      <3>4. /\ size' \in 0 .. MaxPages /\ size' = size + 1 /\ size \in Nat
            /\ synced' \in Nat /\ Stored(pages') /\ Stored(disk')
        BY <3>2, <3>3, HeapCreated, Zenon
      <3> QED BY <3>4
    <2> QED BY <2>1, <2>2, Zenon DEF PublishFails
  <1>3. IF opened' THEN Rooted' ELSE entries' = NoEntries
    BY <1>1, <1>2, RootsKept, Zenon
  <1> QED BY <1>1, <1>2, <1>3, Zenon DEF RootInv, OpOK

LEMMA OpenRooted ==
    ASSUME RootInv, Open PROVE RootInv'
  <1>1. size \in 0 .. MaxPages /\ Stored(pages) /\ Opens
    BY DEF RootInv, Open
  <1>2. /\ opened' = TRUE /\ entries' = Cache
        /\ UNCHANGED <<size, synced, pages, disk, root, op>>
    BY DEF Open, storeVars
  <1>3. op = Idle
    BY Zenon DEF RootInv, OpOK, Open
  <1>4. PICK c : c = Cache
    OBVIOUS
  <1>5. /\ root \in 0 .. size - 1
        /\ IsFiniteSet(DOMAIN c)
        /\ \A n \in DOMAIN c : c[n].head \in (0 .. size - 1) \ {root}
        /\ \A n, k \in DOMAIN c : c[n].head = c[k].head => n = k
    BY <1>1, <1>4, OpenRoots, Zenon
  <1>6. Rooted'
    BY <1>2, <1>4, <1>5, Zenon DEF Rooted
  <1>7. OpOK'
    BY <1>2, <1>3, Zenon DEF OpOK, Idle
  <1> QED BY <1>2, <1>6, <1>7, Zenon DEF RootInv, Stored, IsPage

LEMMA DropRooted ==
    ASSUME RootInv, Drop PROVE RootInv'
  <1>1. /\ op = Idle /\ opened' = FALSE /\ entries' = NoEntries
        /\ UNCHANGED <<size, synced, pages, disk, root, op>>
    BY DEF Drop, storeVars
  <1>2. OpOK'
    BY <1>1, Zenon DEF OpOK, Idle
  <1> QED BY <1>1, <1>2, Zenon DEF RootInv, Stored, IsPage

LEMMA InsertRecordRooted ==
    ASSUME RootInv, NEW bytes, InsertRecord(bytes) PROVE RootInv'
  <1>1. size' \in 0 .. MaxPages /\ size <= size' /\ Stored(pages')
    BY RecordInserted, Zenon DEF InsertRecord
  <1>2. UNCHANGED <<synced, disk, root, opened, entries, op>>
    BY DEF InsertRecord
  <1>3. size' \in Nat
    BY <1>1
  <1> QED BY <1>1, <1>2, <1>3, RootsKept, Zenon DEF RootInv, Stored, IsPage

LEMMA WriteBackRooted ==
    ASSUME RootInv, NEW p \in PageIds, WriteBack(p) PROVE RootInv'
  <1>1. /\ disk' = [disk EXCEPT ![p] = pages[p]]
        /\ UNCHANGED <<size, synced, pages, root, opened, entries, op>>
    BY DEF WriteBack
  <1>2. size \in Nat /\ size' \in Nat /\ size <= size'
    BY <1>1 DEF RootInv
  <1>3. Stored(disk')
    <2>1. Stored(disk) /\ IsPage(pages[p])
      BY Zenon DEF RootInv, Stored
    <2> QED BY <1>1, <2>1, StoredPut, Zenon
  <1> QED BY <1>1, <1>2, <1>3, RootsKept, Zenon DEF RootInv, Stored, IsPage

LEMMA FlushAllRooted ==
    ASSUME RootInv, FlushAll PROVE RootInv'
  <1>1. disk' = pages /\ synced' = size /\ UNCHANGED <<size, pages, root, opened, entries, op>>
    BY DEF FlushAll
  <1>2. size \in Nat /\ size' \in Nat /\ size <= size'
    BY <1>1 DEF RootInv
  <1> QED BY <1>1, <1>2, RootsKept, Zenon DEF RootInv, Stored, IsPage

LEMMA CrashRooted ==
    ASSUME RootInv, Crash PROVE RootInv'
  <1>1. PICK n \in synced .. size :
           /\ size' = n /\ synced' = n
           /\ disk' = [p \in PageIds |-> IF p < n THEN disk[p] ELSE Blank]
    BY DEF Crash
  <1>2. /\ pages' = disk' /\ opened' = FALSE /\ entries' = NoEntries /\ op' = Idle
        /\ root' = root
    BY DEF Crash
  <1>3. n \in 0 .. MaxPages
    <2>1. size \in 0 .. MaxPages /\ synced \in Nat
      BY DEF RootInv
    <2> QED BY <1>1, <2>1
  <1>4. IsPage(Blank)
    BY NewPages
  <1>5. Stored(disk')
    <2>1. PICK g : g = [p \in PageIds |-> IF p < n THEN disk[p] ELSE Blank]
      BY Zenon
    <2>2. \A p \in PageIds : IsPage(disk[p])
      BY DEF RootInv, Stored
    <2>3. g = [p \in PageIds |-> g[p]] /\ \A p \in PageIds : IsPage(g[p])
      BY <1>4, <2>1, <2>2
    <2> QED BY <1>1, <2>1, <2>3, Zenon DEF Stored
  <1>6. OpOK'
    BY <1>2, Zenon DEF OpOK, Idle
  <1>7. n \in Nat
    BY <1>3
  <1> QED BY <1>1, <1>2, <1>3, <1>5, <1>6, <1>7, Zenon DEF RootInv

-----------------------------------------------------------------------------
(* The invariant says what RootsDistinct says. *)
LEMMA RootsCounted ==
    ASSUME RootInv PROVE RootsDistinct
  <1> DEFINE heads == {entries[n].head : n \in DOMAIN entries}
  <1> SUFFICES ASSUME opened
               PROVE  /\ Cardinality(heads) = Cardinality(DOMAIN entries)
                      /\ root \notin heads
                      /\ op.publishing => op.m.head \notin heads \union {root}
    BY Zenon DEF RootsDistinct
  <1>1. Rooted
    BY Zenon DEF RootInv
  <1>2. root \notin heads
    BY <1>1, Zenon DEF Rooted
  <1>3. ASSUME op.publishing PROVE op.m.head \notin heads \union {root}
    <2>1. PICK m : op = [publishing |-> TRUE, m |-> m] /\ Unshared(m)
      BY <1>3 DEF RootInv, OpOK, Idle
    <2>2. op.m = m
      BY <2>1
    <2> QED BY <2>1, <2>2, Zenon DEF Unshared
  <1>4. Cardinality(heads) = Cardinality(DOMAIN entries)
    <2> DEFINE D == DOMAIN entries
               f == [n \in D |-> entries[n].head]
    <2>1. f \in [D -> heads] /\ \A h \in heads : \E n \in D : f[n] = h
      OBVIOUS
    <2>2. DOMAIN f = D /\ \A a, b \in D : f[a] = f[b] => a = b
      BY <1>1, Zenon DEF Rooted
    <2>3. IsFiniteSet(D)
      BY <1>1, Zenon DEF Rooted
    <2> HIDE DEF f, D, heads
    <2>4. f \in Injection(D, heads) /\ f \in Surjection(D, heads)
      BY <2>1, <2>2, Zenon DEF Injection, IsInjective, Surjection
    <2>5. Cardinality(heads) = Cardinality(D)
      BY <2>3, <2>4, FS_Surjection, Zenon
    <2> QED BY <2>5 DEF D
  <1> QED BY <1>2, <1>3, <1>4

(* Every step keeps the roots of the open catalog apart: a table gets the  *)
(* page that was just allocated, a record is refused by open when it names *)
(* a root twice, the catalog's own or no heap, and a crash, which may give *)
(* a root away again, leaves no catalog open.                              *)
THEOREM RootInvariance == Spec => []RootInv
  <1>1. Init => RootInv
    <2> SUFFICES ASSUME Init PROVE RootInv
      OBVIOUS
    <2>1. /\ size = 0 /\ synced = 0 /\ root = None /\ opened = FALSE
          /\ entries = NoEntries /\ op = Idle
          /\ pages = [p \in PageIds |-> Blank] /\ disk = pages
      BY DEF Init
    <2>2. IsPage(Blank)
      BY NewPages
    <2>3. Stored(pages) /\ Stored(disk)
      BY <2>1, <2>2 DEF Stored
    <2>4. size \in 0 .. MaxPages /\ synced \in Nat /\ root \in Int
      BY <2>1 DEF None
    <2> QED BY <2>1, <2>3, <2>4, Zenon DEF RootInv, OpOK
  <1>2. RootInv /\ [Next]_vars => RootInv'
    <2> SUFFICES ASSUME RootInv, [Next]_vars PROVE RootInv'
      OBVIOUS
    <2>1. CASE Next
      BY <2>1, CreateRooted, CreateOtherRooted, CreateTableRooted, PublishRooted,
         PublishFailsRooted, OpenRooted, DropRooted, InsertRecordRooted,
         WriteBackRooted, FlushAllRooted, CrashRooted, Zenon DEF Next
    <2>2. CASE UNCHANGED vars
      <3>1. UNCHANGED <<size, synced, pages, disk, root, opened, entries, op>>
        BY <2>2 DEF vars, storeVars
      <3>2. size \in Nat /\ size' \in Nat /\ size <= size'
        BY <3>1 DEF RootInv
      <3> QED BY <3>1, <3>2, RootsKept, Zenon DEF RootInv, Stored, IsPage
    <2> QED BY <2>1, <2>2
  <1> QED BY <1>1, <1>2, PTL DEF Spec

(* RootsDistinct of every reachable state: create_table, open and the      *)
(* crashes between them never leave two cached tables, or a table and the  *)
(* catalog, with one heap.                                                 *)
THEOREM RootsApart == Spec => []RootsDistinct
  BY RootInvariance, RootsCounted, PTL
=============================================================================
