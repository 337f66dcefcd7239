------------------------- MODULE ConformanceProofs --------------------------
(* Both drivers hold and answer the same, whatever is asked of them in      *)
(* whatever order and whatever callers write to, for every session, page    *)
(* size and precision of the clock.                                         *)
EXTENDS Conformance, ListingProofs

-----------------------------------------------------------------------------
(* The heap.                                                                *)

HeapOK(heap) == heap \in Seq({heap[b] : b \in DOMAIN heap})

\* The references lead to blocks that have the field.
Within(heap, ref) ==
    \A f \in DOMAIN ref :
        ref[f] = Nil \/ (ref[f] \in 1 .. Len(heap) /\ f \in DOMAIN heap[ref[f]])

\* Blocks are only added.
Grows(heap, new) ==
    Len(heap) <= Len(new) /\ \A b \in 1 .. Len(heap) : new[b] = heap[b]

LEMMA HeapFacts ==
    ASSUME NEW S, NEW h \in Seq(S)
    PROVE  HeapOK(h) /\ Len(h) \in Nat /\ DOMAIN h = 1 .. Len(h)
<1> DEFINE T == {h[b] : b \in DOMAIN h}
<1>1. Len(h) \in Nat /\ DOMAIN h = 1 .. Len(h) /\ h = [b \in 1 .. Len(h) |-> h[b]]  OBVIOUS
<1>2. \A b \in 1 .. Len(h) : h[b] \in T  BY <1>1
<1> HIDE DEF T
<1>3. h \in [1 .. Len(h) -> T]  BY <1>1, <1>2
<1>4. h \in Seq(T)  BY <1>1, <1>3
<1> QED  BY <1>1, <1>4 DEF HeapOK, T

\* Blocks behind the others.
LEMMA ConcatFacts ==
    ASSUME NEW h, HeapOK(h), NEW all, NEW n \in Nat, all = [i \in 1 .. n |-> all[i]]
    PROVE  /\ HeapOK(h \o all) /\ Len(h) \in Nat /\ Len(h \o all) = Len(h) + n
           /\ Grows(h, h \o all)
           /\ \A i \in 1 .. n : (h \o all)[Len(h) + i] = all[i]
<1> DEFINE S == {h[b] : b \in DOMAIN h} \cup {all[i] : i \in 1 .. n}
<1>1. h \in Seq(S)
  <2>1. h \in Seq({h[b] : b \in DOMAIN h})  BY DEF HeapOK
  <2> QED  BY <2>1
<1>2. \A i \in 1 .. n : all[i] \in S  OBVIOUS
<1> HIDE DEF S
<1>3. all \in [1 .. n -> S]  BY <1>2
<1>4. all \in Seq(S) /\ Len(all) = n  BY <1>3
<1>5. /\ h \o all \in Seq(S) /\ Len(h \o all) = Len(h) + Len(all) /\ Len(h) \in Nat
      /\ \A i \in 1 .. Len(h) + Len(all) :
            (h \o all)[i] = IF i <= Len(h) THEN h[i] ELSE all[i - Len(h)]
  BY <1>1, <1>4
<1>6. HeapOK(h \o all)  BY <1>5, HeapFacts
<1>7. \A b \in 1 .. Len(h) : (h \o all)[b] = h[b]  BY <1>4, <1>5
<1>8. ASSUME NEW i \in 1 .. n PROVE (h \o all)[Len(h) + i] = all[i]
  <2>1. Len(h) + i \in 1 .. Len(h) + Len(all) /\ ~(Len(h) + i <= Len(h))
        /\ Len(h) + i - Len(h) = i
    BY <1>4, <1>5
  <2> QED  BY <1>5, <2>1
<1> QED  BY <1>4, <1>5, <1>6, <1>7, <1>8 DEF Grows

LEMMA AllocAllFacts ==
    ASSUME NEW h, HeapOK(h), NEW all, NEW n \in Nat, all = [i \in 1 .. n |-> all[i]]
    PROVE  LET a == AllocAll(h, all) IN
           /\ HeapOK(a.heap) /\ Len(h) \in Nat /\ Len(a.heap) = Len(h) + n
           /\ Grows(h, a.heap)
           /\ \A i \in 1 .. n :
                 /\ DOMAIN a.refs[i] = DOMAIN all[i] /\ Within(a.heap, a.refs[i])
                 /\ Contents(a.heap, a.refs[i]) = [f \in DOMAIN all[i] |-> all[i][f]]
                 /\ \A f \in DOMAIN all[i] : a.refs[i][f] \in {Nil, Len(h) + i}
<1> DEFINE a == AllocAll(h, all)
<1>1. DOMAIN all = 1 .. n  OBVIOUS
<1>2. /\ a.heap = h \o all
      /\ \A i \in 1 .. n : a.refs[i] = [f \in DOMAIN all[i] |-> IF all[i][f] = Nil THEN Nil
                                                                ELSE Len(h) + i]
  BY <1>1 DEF AllocAll
<1> HIDE DEF a
<1>3. /\ HeapOK(a.heap) /\ Len(h) \in Nat /\ Len(a.heap) = Len(h) + n /\ Grows(h, a.heap)
      /\ \A i \in 1 .. n : a.heap[Len(h) + i] = all[i]
  <2>1. /\ HeapOK(h \o all) /\ Len(h) \in Nat /\ Len(h \o all) = Len(h) + n
        /\ Grows(h, h \o all)
        /\ \A i \in 1 .. n : (h \o all)[Len(h) + i] = all[i]
    BY ConcatFacts, Zenon
  <2> QED  BY <1>2, <2>1
<1>4. ASSUME NEW i \in 1 .. n
      PROVE  /\ DOMAIN a.refs[i] = DOMAIN all[i] /\ Within(a.heap, a.refs[i])
             /\ Contents(a.heap, a.refs[i]) = [f \in DOMAIN all[i] |-> all[i][f]]
             /\ \A f \in DOMAIN all[i] : a.refs[i][f] \in {Nil, Len(h) + i}
  <2> DEFINE ref == a.refs[i]  c == all[i]
  <2>1. DOMAIN ref = DOMAIN c
        /\ \A f \in DOMAIN c : ref[f] = IF c[f] = Nil THEN Nil ELSE Len(h) + i
    BY <1>2
  <2>2. a.heap[Len(h) + i] = c /\ Len(h) + i \in 1 .. Len(a.heap) /\ Len(h) + i # Nil
    BY <1>3, NilAssumption
  <2> HIDE DEF ref, c
  <2>3. Within(a.heap, ref)  BY <2>1, <2>2 DEF Within
  <2>4. \A f \in DOMAIN c : (IF ref[f] = Nil THEN Nil ELSE a.heap[ref[f]][f]) = c[f]
    BY <2>1, <2>2
  <2>5. Contents(a.heap, ref) = [f \in DOMAIN c |-> c[f]]  BY <2>1, <2>4 DEF Contents
  <2> QED  BY <2>1, <2>3, <2>5 DEF ref, c
<1> QED  BY <1>3, <1>4 DEF a

LEMMA AllocFacts ==
    ASSUME NEW h, HeapOK(h), NEW c
    PROVE  LET a == Alloc(h, c) IN
           /\ HeapOK(a.heap) /\ Len(h) \in Nat /\ Len(a.heap) = Len(h) + 1
           /\ Grows(h, a.heap)
           /\ DOMAIN a.ref = DOMAIN c /\ Within(a.heap, a.ref)
           /\ Contents(a.heap, a.ref) = [f \in DOMAIN c |-> c[f]]
           /\ \A f \in DOMAIN c : a.ref[f] \in {Nil, Len(h) + 1}
<1> DEFINE all == <<c>>  b == AllocAll(h, all)  a == Alloc(h, c)
<1>1. all = [i \in 1 .. 1 |-> all[i]] /\ DOMAIN all = 1 .. 1 /\ all[1] = c /\ 1 \in 1 .. 1
  OBVIOUS
<1>2. h \o all = Append(h, c)
  <2>1. h \in Seq({h[x] : x \in DOMAIN h} \cup {c})  
    <3>1. h \in Seq({h[x] : x \in DOMAIN h})  BY DEF HeapOK
    <3> QED  BY <3>1
  <2> QED  BY <2>1
<1>3. a.heap = b.heap  BY <1>2 DEF Alloc, AllocAll
<1>4. a.ref = b.refs[1]  BY <1>1 DEF Alloc, AllocAll
<1>5. /\ HeapOK(b.heap) /\ Len(h) \in Nat /\ Len(b.heap) = Len(h) + 1 /\ Grows(h, b.heap)
      /\ \A i \in 1 .. 1 :
            /\ DOMAIN b.refs[i] = DOMAIN all[i] /\ Within(b.heap, b.refs[i])
            /\ Contents(b.heap, b.refs[i]) = [f \in DOMAIN all[i] |-> all[i][f]]
            /\ \A f \in DOMAIN all[i] : b.refs[i][f] \in {Nil, Len(h) + i}
  <2> HIDE DEF all
  <2>1. ASSUME NEW n \in Nat, all = [i \in 1 .. n |-> all[i]]
        PROVE  /\ HeapOK(b.heap) /\ Len(h) \in Nat /\ Len(b.heap) = Len(h) + n
               /\ Grows(h, b.heap)
               /\ \A i \in 1 .. n :
                     /\ DOMAIN b.refs[i] = DOMAIN all[i] /\ Within(b.heap, b.refs[i])
                     /\ Contents(b.heap, b.refs[i]) = [f \in DOMAIN all[i] |-> all[i][f]]
                     /\ \A f \in DOMAIN all[i] : b.refs[i][f] \in {Nil, Len(h) + i}
    BY <2>1, AllocAllFacts, Zenon
  <2> QED  BY <1>1, <2>1
<1> HIDE DEF all, a, b
<1> QED  BY <1>1, <1>3, <1>4, <1>5 DEF a

\* What references lead to stays when blocks are added,
LEMMA GrowsKeeps ==
    ASSUME NEW h, NEW n, Len(h) \in Nat, Len(n) \in Nat, Grows(h, n), NEW ref, Within(h, ref)
    PROVE  Within(n, ref) /\ Contents(n, ref) = Contents(h, ref)
<1>1. Within(n, ref)  BY DEF Within, Grows
<1>2. \A f \in DOMAIN ref : (IF ref[f] = Nil THEN Nil ELSE n[ref[f]][f])
                             = (IF ref[f] = Nil THEN Nil ELSE h[ref[f]][f])
  BY DEF Within, Grows
<1> QED  BY <1>1, <1>2 DEF Contents

\* and when somebody writes elsewhere.
LEMMA MutateKeeps ==
    ASSUME NEW h, HeapOK(h), NEW cells
    PROVE  LET n == mutateKeyValue(h, cells) IN
           /\ HeapOK(n) /\ Len(n) = Len(h)
           /\ \A ref : Within(h, ref)
                       /\ (\A f \in DOMAIN ref : ref[f] = Nil \/ <<ref[f], f>> \notin cells)
                 => Within(n, ref) /\ Contents(n, ref) = Contents(h, ref)
<1> DEFINE n == mutateKeyValue(h, cells)
<1>1. Len(h) \in Nat /\ DOMAIN h = 1 .. Len(h)  BY HeapFacts DEF HeapOK
<1>2. n = [b \in 1 .. Len(h) |-> n[b]]  BY <1>1 DEF mutateKeyValue
<1>3. \A b \in 1 .. Len(h) :
         /\ DOMAIN n[b] = DOMAIN h[b]
         /\ \A f \in DOMAIN h[b] : <<b, f>> \notin cells => n[b][f] = h[b][f]
  BY <1>1 DEF mutateKeyValue
<1> HIDE DEF n
<1>4. HeapOK(n) /\ Len(n) = Len(h)
  <2> DEFINE T == {n[b] : b \in 1 .. Len(h)}
  <2>1. \A b \in 1 .. Len(h) : n[b] \in T  OBVIOUS
  <2> HIDE DEF T
  <2>2. n \in [1 .. Len(h) -> T]  BY <1>2, <2>1
  <2>3. n \in Seq(T) /\ Len(n) = Len(h)  BY <1>1, <2>2
  <2> QED  BY <2>3, HeapFacts
<1>5. ASSUME NEW ref, Within(h, ref),
             \A f \in DOMAIN ref : ref[f] = Nil \/ <<ref[f], f>> \notin cells
      PROVE  Within(n, ref) /\ Contents(n, ref) = Contents(h, ref)
  <2>1. Within(n, ref)  BY <1>3, <1>4, <1>5 DEF Within
  <2>2. \A f \in DOMAIN ref : (IF ref[f] = Nil THEN Nil ELSE n[ref[f]][f])
                               = (IF ref[f] = Nil THEN Nil ELSE h[ref[f]][f])
    BY <1>3, <1>5 DEF Within
  <2> QED  BY <2>1, <2>2 DEF Contents
<1> QED  BY <1>4, <1>5 DEF n

-----------------------------------------------------------------------------
(* The stores.                                                              *)

Tables == {"workspaces", "apis", "keys"}

PlainFields(t) == IF t = "workspaces" THEN WorkspaceFields
                  ELSE IF t = "apis" THEN APIFields ELSE KeyFields

RefFields(t) == IF t = "keys" THEN KeyRefs ELSE {"metadata"}

PlainOK(t, plain) ==
    /\ DOMAIN plain = PlainFields(t)
    /\ t = "keys" => plain.remaining \in Int /\ plain.enabled \in BOOLEAN

\* A struct of memory's, and a row of Postgres'.
StructKept(t, heap, row) ==
    /\ DOMAIN row = {"plain", "ref"}
    /\ PlainOK(t, row.plain)
    /\ DOMAIN row.ref = RefFields(t) /\ Within(heap, row.ref)

RowKept(t, row) ==
    /\ DOMAIN row = {"plain", "column"}
    /\ PlainOK(t, row.plain) /\ DOMAIN row.column = RefFields(t)

StoreFields == {"workspaces", "apis", "keys", "hashIndex", "heap"}

HashOf(m, id) == Contents(m.heap, m.keys[id].ref)["hash"]

\* memory's index is the inverse of its keys' hashes.
Indexed(m) ==
    /\ \A id \in DOMAIN m.keys : HashOf(m, id) \in DOMAIN m.hashIndex
                                 /\ m.hashIndex[HashOf(m, id)] = id
    /\ \A h \in DOMAIN m.hashIndex : m.hashIndex[h] \in DOMAIN m.keys
                                     /\ HashOf(m, m.hashIndex[h]) = h

MemoryOK(m) ==
    /\ DOMAIN m = StoreFields /\ HeapOK(m.heap)
    /\ \A t \in Tables : \A id \in DOMAIN m[t] : StructKept(t, m.heap, m[t][id])
    /\ Indexed(m)
    /\ \A id \in DOMAIN m.apis : m.apis[id].plain.workspace \in DOMAIN m.workspaces

PostgresOK(p) ==
    /\ DOMAIN p = StoreFields /\ HeapOK(p.heap)
    /\ \A t \in Tables : \A id \in DOMAIN p[t] : RowKept(t, p[t][id])

\* StoredAlike, of two stores.
RowsAlike(heap, row, prow) ==
    SameFields(View(row.plain, Contents(heap, row.ref)), View(prow.plain, prow.column))

StoresAlike(m, p) ==
    \A t \in Tables :
        /\ DOMAIN m[t] = DOMAIN p[t]
        /\ \A id \in DOMAIN m[t] : RowsAlike(m.heap, m[t][id], p[t][id])

Pair(m, p) == MemoryOK(m) /\ PostgresOK(p) /\ StoresAlike(m, p)

\* No caller holds a reference of the store's.
Apart(m, cells) ==
    \A t \in Tables : \A id \in DOMAIN m[t] : \A f \in DOMAIN m[t][id].ref :
        m[t][id].ref[f] = Nil \/ <<m[t][id].ref[f], f>> \notin cells

-----------------------------------------------------------------------------
(* What a call does to the stores.                                          *)

\* Some blocks are added; nothing else happens.
OnlyHeap(m, n) ==
    /\ DOMAIN n = StoreFields /\ HeapOK(n.heap) /\ Grows(m.heap, n.heap)
    /\ n.hashIndex = m.hashIndex
    /\ \A t \in Tables : n[t] = m[t]

\* A row of one table is written.
Writes(m, n, t, id, row) ==
    /\ DOMAIN n = StoreFields /\ HeapOK(n.heap) /\ Grows(m.heap, n.heap)
    /\ DOMAIN n[t] = DOMAIN m[t] \cup {id}
    /\ \A i \in DOMAIN n[t] : n[t][i] = IF i = id THEN row ELSE m[t][i]
    /\ \A u \in Tables \ {t} : n[u] = m[u]

\* A reference of the store's is as old as it was, or new.
NewRefs(m, n) ==
    \A t \in Tables : \A id \in DOMAIN n[t] : \A f \in DOMAIN n[t][id].ref :
        LET b == n[t][id].ref[f] IN
        \/ b = Nil
        \/ b \in Len(m.heap) + 1 .. Len(n.heap)
        \/ id \in DOMAIN m[t] /\ f \in DOMAIN m[t][id].ref /\ b = m[t][id].ref[f]

LEMMA HeapLen == ASSUME NEW h, HeapOK(h) PROVE Len(h) \in Nat /\ DOMAIN h = 1 .. Len(h)
BY HeapFacts DEF HeapOK

LEMMA KeptGrows ==
    ASSUME NEW h, NEW n, HeapOK(h), HeapOK(n), Grows(h, n),
           NEW t, NEW row, StructKept(t, h, row)
    PROVE  StructKept(t, n, row) /\ Contents(n, row.ref) = Contents(h, row.ref)
<1>1. Len(h) \in Nat /\ Len(n) \in Nat  BY HeapLen
<1>2. Within(h, row.ref)  BY DEF StructKept
<1>3. Within(n, row.ref) /\ Contents(n, row.ref) = Contents(h, row.ref)
  BY <1>1, <1>2, GrowsKeeps
<1> QED  BY <1>3 DEF StructKept

LEMMA RefsOfOld ==
    ASSUME NEW m, NEW n, \A t \in Tables : n[t] = m[t]
    PROVE  NewRefs(m, n)
BY DEF NewRefs

LEMMA OnlyHeapPair ==
    ASSUME NEW m, NEW p, Pair(m, p), NEW n, NEW q, OnlyHeap(m, n), OnlyHeap(p, q)
    PROVE  Pair(n, q) /\ NewRefs(m, n)
<1>1. /\ MemoryOK(m) /\ PostgresOK(p) /\ StoresAlike(m, p)  BY DEF Pair
<1>2. /\ HeapOK(m.heap) /\ HeapOK(n.heap) /\ Grows(m.heap, n.heap)
  BY <1>1 DEF MemoryOK, OnlyHeap
<1>3. ASSUME NEW t \in Tables, NEW id \in DOMAIN m[t]
      PROVE  /\ StructKept(t, n.heap, m[t][id])
             /\ Contents(n.heap, m[t][id].ref) = Contents(m.heap, m[t][id].ref)
  <2>1. StructKept(t, m.heap, m[t][id])  BY <1>1 DEF MemoryOK
  <2> QED  BY <1>2, <2>1, KeptGrows
<1>4. n.keys = m.keys /\ n.apis = m.apis /\ n.workspaces = m.workspaces
  BY DEF OnlyHeap, Tables
<1>5. \A id \in DOMAIN m.keys : HashOf(n, id) = HashOf(m, id)
  BY <1>3, <1>4 DEF HashOf, Tables
<1>6. Indexed(n)
  <2>1. Indexed(m)  BY <1>1 DEF MemoryOK
  <2>2. n.hashIndex = m.hashIndex  BY DEF OnlyHeap
  <2> QED  BY <1>4, <1>5, <2>1, <2>2 DEF Indexed
<1>7. MemoryOK(n)
  <2>1. \A t \in Tables : \A id \in DOMAIN n[t] : StructKept(t, n.heap, n[t][id])
    BY <1>3 DEF OnlyHeap
  <2>2. \A id \in DOMAIN n.apis : n.apis[id].plain.workspace \in DOMAIN n.workspaces
    BY <1>1, <1>4 DEF MemoryOK
  <2> QED  BY <1>6, <2>1, <2>2 DEF MemoryOK, OnlyHeap
<1>8. PostgresOK(q)  BY <1>1 DEF PostgresOK, OnlyHeap
<1>9. StoresAlike(n, q)
  <2>1. \A t \in Tables : n[t] = m[t] /\ q[t] = p[t]  BY DEF OnlyHeap
  <2>2. ASSUME NEW t \in Tables, NEW id \in DOMAIN n[t]
        PROVE  RowsAlike(n.heap, n[t][id], q[t][id])
    <3>1. RowsAlike(m.heap, m[t][id], p[t][id])  BY <1>1, <2>1 DEF StoresAlike
    <3> QED  BY <1>3, <2>1, <3>1 DEF RowsAlike
  <2> QED  BY <1>1, <2>1, <2>2 DEF StoresAlike
<1>10. NewRefs(m, n)  BY RefsOfOld DEF OnlyHeap
<1> QED  BY <1>7, <1>8, <1>9, <1>10 DEF Pair

\* Writing alike rows keeps the stores alike.
LEMMA WritesPair ==
    ASSUME NEW m, NEW p, Pair(m, p), NEW n, NEW q, NEW t \in Tables, NEW id, NEW row, NEW prow,
           Writes(m, n, t, id, row), Writes(p, q, t, id, prow),
           StructKept(t, n.heap, row), RowKept(t, prow), RowsAlike(n.heap, row, prow),
           Indexed(n), t = "apis" => row.plain.workspace \in DOMAIN m.workspaces
    PROVE  Pair(n, q)
<1>1. MemoryOK(m) /\ PostgresOK(p) /\ StoresAlike(m, p)  BY DEF Pair
<1>2. HeapOK(m.heap) /\ HeapOK(n.heap) /\ Grows(m.heap, n.heap)
  BY <1>1 DEF MemoryOK, Writes
<1>3. ASSUME NEW u \in Tables, NEW i \in DOMAIN m[u]
      PROVE  /\ StructKept(u, n.heap, m[u][i])
             /\ Contents(n.heap, m[u][i].ref) = Contents(m.heap, m[u][i].ref)
  <2>1. StructKept(u, m.heap, m[u][i])  BY <1>1 DEF MemoryOK
  <2> QED  BY <1>2, <2>1, KeptGrows
<1>4. ASSUME NEW u \in Tables
      PROVE  /\ DOMAIN n[u] = DOMAIN m[u] \cup (IF u = t THEN {id} ELSE {})
             /\ \A i \in DOMAIN n[u] : n[u][i] = IF u = t /\ i = id THEN row ELSE m[u][i]
             /\ DOMAIN q[u] = DOMAIN p[u] \cup (IF u = t THEN {id} ELSE {})
             /\ \A i \in DOMAIN q[u] : q[u][i] = IF u = t /\ i = id THEN prow ELSE p[u][i]
  <2>1. CASE u = t
    <3> QED  BY <2>1 DEF Writes
  <2>2. CASE u # t
    <3>1. n[u] = m[u] /\ q[u] = p[u]  BY <2>2 DEF Writes
    <3> QED  BY <2>2, <3>1
  <2> QED  BY <2>1, <2>2
<1>5. \A u \in Tables : \A i \in DOMAIN n[u] : StructKept(u, n.heap, n[u][i])
  <2> SUFFICES ASSUME NEW u \in Tables, NEW i \in DOMAIN n[u]
               PROVE  StructKept(u, n.heap, n[u][i])
    OBVIOUS
  <2>1. CASE u = t /\ i = id  BY <1>4, <2>1
  <2>2. CASE ~(u = t /\ i = id)
    <3>1. i \in DOMAIN m[u] /\ n[u][i] = m[u][i]  BY <1>4, <2>2
    <3> QED  BY <1>3, <3>1
  <2> QED  BY <2>1, <2>2
<1>6. \A i \in DOMAIN n.apis : n.apis[i].plain.workspace \in DOMAIN n.workspaces
  <2>1. \A i \in DOMAIN m.apis : m.apis[i].plain.workspace \in DOMAIN m.workspaces
    BY <1>1 DEF MemoryOK
  <2>2. "apis" \in Tables /\ "workspaces" \in Tables  BY DEF Tables
  <2>3. DOMAIN m.workspaces \subseteq DOMAIN n.workspaces  BY <1>4, <2>2
  <2>4. ASSUME NEW i \in DOMAIN n.apis
        PROVE  n.apis[i].plain.workspace \in DOMAIN n.workspaces
    <3>1. CASE t = "apis" /\ i = id
      <4>1. n.apis[i] = row  BY <1>4, <2>2, <3>1
      <4> QED  BY <2>3, <3>1, <4>1
    <3>2. CASE ~(t = "apis" /\ i = id)
      <4>1. i \in DOMAIN m.apis /\ n.apis[i] = m.apis[i]  BY <1>4, <2>2, <3>2
      <4> QED  BY <2>1, <2>3, <4>1
    <3> QED  BY <3>1, <3>2
  <2> QED  BY <2>4
<1>7. MemoryOK(n)  BY <1>5, <1>6 DEF MemoryOK, Writes
<1>8. PostgresOK(q)
  <2>1. \A u \in Tables : \A i \in DOMAIN q[u] : RowKept(u, q[u][i])
    <3> SUFFICES ASSUME NEW u \in Tables, NEW i \in DOMAIN q[u] PROVE RowKept(u, q[u][i])
      OBVIOUS
    <3>1. CASE u = t /\ i = id  BY <1>4, <3>1
    <3>2. CASE ~(u = t /\ i = id)
      <4>1. i \in DOMAIN p[u] /\ q[u][i] = p[u][i]  BY <1>4, <3>2
      <4> QED  BY <1>1, <4>1 DEF PostgresOK
    <3> QED  BY <3>1, <3>2
  <2> QED  BY <2>1 DEF PostgresOK, Writes
<1>9. StoresAlike(n, q)
  <2> SUFFICES ASSUME NEW u \in Tables
               PROVE  /\ DOMAIN n[u] = DOMAIN q[u]
                      /\ \A i \in DOMAIN n[u] : RowsAlike(n.heap, n[u][i], q[u][i])
    BY DEF StoresAlike
  <2>1. DOMAIN m[u] = DOMAIN p[u]  BY <1>1 DEF StoresAlike
  <2>2. DOMAIN n[u] = DOMAIN q[u]  BY <1>4, <2>1
  <2>3. ASSUME NEW i \in DOMAIN n[u] PROVE RowsAlike(n.heap, n[u][i], q[u][i])
    <3>1. CASE u = t /\ i = id
      <4>1. n[u][i] = row /\ q[u][i] = prow  BY <1>4, <2>2, <3>1
      <4> QED  BY <4>1
    <3>2. CASE ~(u = t /\ i = id)
      <4>1. i \in DOMAIN m[u] /\ n[u][i] = m[u][i] /\ q[u][i] = p[u][i]
        BY <1>4, <2>2, <3>2
      <4>2. RowsAlike(m.heap, m[u][i], p[u][i])  BY <1>1, <4>1 DEF StoresAlike
      <4> QED  BY <1>3, <4>1, <4>2 DEF RowsAlike
    <3> QED  BY <3>1, <3>2
  <2> QED  BY <2>2, <2>3
<1> QED  BY <1>7, <1>8, <1>9 DEF Pair

\* The references of a row that was written: its old ones or new ones.
LEMMA WritesRefs ==
    ASSUME NEW m, NEW n, NEW t \in Tables, NEW id, NEW row, Writes(m, n, t, id, row),
           \A f \in DOMAIN row.ref :
              \/ row.ref[f] = Nil
              \/ row.ref[f] \in Len(m.heap) + 1 .. Len(n.heap)
              \/ /\ id \in DOMAIN m[t] /\ f \in DOMAIN m[t][id].ref
                 /\ row.ref[f] = m[t][id].ref[f]
    PROVE  NewRefs(m, n)
<1> SUFFICES ASSUME NEW u \in Tables, NEW i \in DOMAIN n[u], NEW f \in DOMAIN n[u][i].ref
             PROVE  \/ n[u][i].ref[f] = Nil
                    \/ n[u][i].ref[f] \in Len(m.heap) + 1 .. Len(n.heap)
                    \/ /\ i \in DOMAIN m[u] /\ f \in DOMAIN m[u][i].ref
                       /\ n[u][i].ref[f] = m[u][i].ref[f]
  BY DEF NewRefs
<1>1. CASE u = t /\ i = id
  <2>1. n[u][i] = row  BY <1>1 DEF Writes
  <2> QED  BY <1>1, <2>1
<1>2. CASE ~(u = t /\ i = id)
  <2>1. i \in DOMAIN m[u] /\ n[u][i] = m[u][i]
    <3>1. CASE u = t
      <4> QED  BY <1>2, <3>1 DEF Writes
    <3>2. CASE u # t
      <4>1. n[u] = m[u]  BY <3>2 DEF Writes
      <4> QED  BY <4>1
    <3> QED  BY <3>1, <3>2
  <2> QED  BY <2>1
<1> QED  BY <1>1, <1>2

\* The index holds when no key's hash changes,
LEMMA SameHashes ==
    ASSUME NEW m, MemoryOK(m), NEW n, DOMAIN n.keys = DOMAIN m.keys, n.hashIndex = m.hashIndex,
           \A id \in DOMAIN m.keys : HashOf(n, id) = HashOf(m, id)
    PROVE  Indexed(n)
<1>1. Indexed(m)  BY DEF MemoryOK
<1> QED  BY <1>1 DEF Indexed

\* as when a row of another table is written.
LEMMA OtherTable ==
    ASSUME NEW m, MemoryOK(m), NEW n, NEW t \in Tables \ {"keys"}, NEW id, NEW row,
           Writes(m, n, t, id, row), n.hashIndex = m.hashIndex
    PROVE  Indexed(n)
<1>1. n.keys = m.keys  BY DEF Writes, Tables
<1>2. HeapOK(m.heap) /\ HeapOK(n.heap) /\ Grows(m.heap, n.heap)  BY DEF MemoryOK, Writes
<1>3. ASSUME NEW i \in DOMAIN m.keys PROVE HashOf(n, i) = HashOf(m, i)
  <2>1. StructKept("keys", m.heap, m.keys[i])  BY DEF MemoryOK, Tables
  <2>2. Contents(n.heap, m.keys[i].ref) = Contents(m.heap, m.keys[i].ref)
    BY <1>2, <2>1, KeptGrows
  <2> QED  BY <1>1, <2>2 DEF HashOf
<1> QED  BY <1>1, <1>3, SameHashes

-----------------------------------------------------------------------------
(* The values: what the copies, the columns and the clock make of them.     *)

LEMMA MicroFacts ==
    ASSUME NEW t \in Nat \cup {Nil}
    PROVE  Micro(Micro(t)) = Micro(t)
<1>1. CASE t = Nil  BY <1>1 DEF Micro
<1>2. CASE t \in Nat
  <2> DEFINE d == t \div Precision  u == t - (t % Precision)
  <2>1. t % Precision \in 0 .. Precision - 1  BY <1>2, PrecisionAssumption
  <2>2. t = Precision * d + (t % Precision)  BY <1>2, PrecisionAssumption
  <2>3. d \in Nat  BY <1>2, PrecisionAssumption
  <2>4. u \in Nat /\ u = Precision * d + 0
    <3> HIDE DEF d
    <3>1. Precision * d \in Nat  BY <2>3, PrecisionAssumption
    <3> QED  BY <1>2, <2>1, <2>2, <3>1, PrecisionAssumption
  <2> HIDE DEF u, d
  <2>5. u % Precision = 0  BY <2>3, <2>4, PrecisionAssumption
  <2>6. t # Nil /\ u # Nil  BY <1>2, <2>4, NilAssumption
  <2>7. Micro(t) = u  BY <2>6 DEF Micro, u
  <2>8. Micro(u) = u  BY <2>4, <2>5, <2>6 DEF Micro
  <2> QED  BY <2>7, <2>8
<1> QED  BY <1>1, <1>2

LEMMA CopiedSeen == \A f, c : Seen(f, Memory!Copied(f, c)) = Seen(f, c)
BY DEF Seen, Memory!Copied, Memory!Empty, Empty

LEMMA ScannedSeen == \A f, c : Seen(f, Postgres!Scanned(f, c)) = Seen(f, c)
BY DEF Seen, Postgres!Scanned, Postgres!unmarshalMetadata, Postgres!Empty, Empty

LEMMA MemoryClone ==
    ASSUME NEW h, NEW ref
    PROVE  Memory!cloneKey(h, ref) = Alloc(h, Memory!Copy(h, ref))
BY DEF Memory!cloneKey, Memory!Alloc, Alloc

\* A copy looks like the original.
LEMMA CopyView ==
    ASSUME NEW plain, NEW h, NEW ref
    PROVE  /\ DOMAIN Memory!Copy(h, ref) = DOMAIN ref
           /\ [f \in DOMAIN ref |-> Memory!Copy(h, ref)[f]] = Memory!Copy(h, ref)
           /\ View(plain, Memory!Copy(h, ref)) = View(plain, Contents(h, ref))
<1> DEFINE c == Contents(h, ref)  d == Memory!Copy(h, ref)
<1>1. DOMAIN c = DOMAIN ref  BY DEF Contents
<1>2. d = [f \in DOMAIN ref |-> Memory!Copied(f, c[f])]
  BY DEF Memory!Copy, Memory!Contents, Contents
<1> HIDE DEF c, d
<1>3. \A f \in DOMAIN ref : Seen(f, d[f]) = Seen(f, c[f])  BY <1>2, CopiedSeen
<1>4. DOMAIN d = DOMAIN ref /\ [f \in DOMAIN ref |-> d[f]] = d  BY <1>2
<1>5. \A f \in DOMAIN plain \cup DOMAIN ref :
         (IF f \in DOMAIN plain THEN plain[f] ELSE Seen(f, d[f]))
           = (IF f \in DOMAIN plain THEN plain[f] ELSE Seen(f, c[f]))
  BY <1>3
<1>6. View(plain, d) = View(plain, c)  BY <1>1, <1>4, <1>5 DEF View
<1> QED  BY <1>4, <1>6 DEF c, d

LEMMA ScannedView ==
    ASSUME NEW plain, NEW col
    PROVE  View(plain, [f \in DOMAIN col |-> Postgres!Scanned(f, col[f])]) = View(plain, col)
<1> DEFINE d == [f \in DOMAIN col |-> Postgres!Scanned(f, col[f])]
<1>1. DOMAIN d = DOMAIN col /\ \A f \in DOMAIN col : Seen(f, d[f]) = Seen(f, col[f])
  BY ScannedSeen
<1> HIDE DEF d
<1>2. \A f \in DOMAIN plain \cup DOMAIN col :
         (IF f \in DOMAIN plain THEN plain[f] ELSE Seen(f, d[f]))
           = (IF f \in DOMAIN plain THEN plain[f] ELSE Seen(f, col[f]))
  BY <1>1
<1>3. View(plain, d) = View(plain, col)  BY <1>1, <1>2 DEF View
<1> QED  BY <1>3 DEF d

-----------------------------------------------------------------------------
(* What two answers have in common.                                         *)

Agree(op, m, a, b) ==
    /\ Pair(a.s, b.s) /\ NewRefs(m, a.s) /\ Grows(m.heap, a.s.heap)
    /\ \A c \in OutCells(a) : c[1] \in Len(m.heap) + 1 .. Len(a.s.heap)
    /\ Apart(a.s, OutCells(a))
    /\ a.err = b.err /\ Alike(Fields(op, a), Fields(op, b))

LEMMA GrowsTrans ==
    ASSUME NEW h, NEW n, NEW k, HeapOK(h), HeapOK(n), HeapOK(k), Grows(h, n), Grows(n, k)
    PROVE  Grows(h, k)
<1>1. Len(h) \in Nat /\ Len(n) \in Nat /\ Len(k) \in Nat  BY HeapLen
<1> QED  BY <1>1 DEF Grows

LEMMA AgreeAfter ==
    ASSUME NEW op, NEW m, NEW n, NEW a, NEW b, HeapOK(m.heap), HeapOK(n.heap),
           Grows(m.heap, n.heap), NewRefs(m, n), Agree(op, n, a, b)
    PROVE  Agree(op, m, a, b)
<1>1. HeapOK(a.s.heap)  BY DEF Agree, Pair, MemoryOK
<1>2. Len(m.heap) \in Nat /\ Len(n.heap) \in Nat /\ Len(a.s.heap) \in Nat  BY <1>1, HeapLen
<1>3. Grows(m.heap, a.s.heap)  BY <1>1, GrowsTrans DEF Agree
<1>4. Len(m.heap) <= Len(n.heap) /\ Len(n.heap) <= Len(a.s.heap)  BY DEF Agree, Grows
<1>5. NewRefs(m, a.s)
  <2> SUFFICES ASSUME NEW t \in Tables, NEW id \in DOMAIN a.s[t], NEW f \in DOMAIN a.s[t][id].ref
               PROVE  \/ a.s[t][id].ref[f] = Nil
                      \/ a.s[t][id].ref[f] \in Len(m.heap) + 1 .. Len(a.s.heap)
                      \/ /\ id \in DOMAIN m[t] /\ f \in DOMAIN m[t][id].ref
                         /\ a.s[t][id].ref[f] = m[t][id].ref[f]
    BY DEF NewRefs
  <2> DEFINE x == a.s[t][id].ref[f]
  <2>1. \/ x = Nil
        \/ x \in Len(n.heap) + 1 .. Len(a.s.heap)
        \/ id \in DOMAIN n[t] /\ f \in DOMAIN n[t][id].ref /\ x = n[t][id].ref[f]
    BY DEF Agree, NewRefs
  <2>2. CASE id \in DOMAIN n[t] /\ f \in DOMAIN n[t][id].ref /\ x = n[t][id].ref[f]
    <3>1. \/ x = Nil
          \/ x \in Len(m.heap) + 1 .. Len(n.heap)
          \/ id \in DOMAIN m[t] /\ f \in DOMAIN m[t][id].ref /\ x = m[t][id].ref[f]
      BY <2>2 DEF NewRefs
    <3> QED  BY <1>2, <1>4, <3>1
  <2> QED  BY <1>2, <1>4, <2>1, <2>2
<1>6. \A c \in OutCells(a) : c[1] \in Len(m.heap) + 1 .. Len(a.s.heap)
  BY <1>2, <1>4 DEF Agree
<1> QED  BY <1>3, <1>5, <1>6 DEF Agree

LEMMA AlikeSelf ==
    ASSUME NEW x, "keys" \notin DOMAIN x
    PROVE  Alike(x, x)
BY DEF Alike, SameFields

\* No struct is returned,
LEMMA BareAgree ==
    ASSUME NEW m, NEW n, NEW q, Pair(n, q), NewRefs(m, n), Grows(m.heap, n.heap),
           NEW err, NEW num, NEW op, op \notin ListOps
    PROVE  Agree(op, m, Answer(n, err, <<>>, num), Answer(q, err, <<>>, num))
<1> DEFINE a == Answer(n, err, <<>>, num)  b == Answer(q, err, <<>>, num)
<1>1. a.s = n /\ a.err = err /\ a.structs = <<>> /\ a.num = num
      /\ b.s = q /\ b.err = err /\ b.structs = <<>> /\ b.num = num
  BY DEF Answer
<1> HIDE DEF a, b
<1>2. OutCells(a) = {}  BY <1>1 DEF OutCells
<1>3. Fields(op, a) = Fields(op, b) /\ "keys" \notin DOMAIN Fields(op, a)
  <2>1. CASE op = "DecrementRemainingUses"
    <3>1. Fields(op, a) = [remaining |-> num] /\ Fields(op, b) = [remaining |-> num]
      BY <1>1, <2>1 DEF Fields
    <3> QED  BY <3>1
  <2>2. CASE op # "DecrementRemainingUses"
    <3>1. Fields(op, a) = None /\ Fields(op, b) = None  BY <1>1, <2>2 DEF Fields
    <3> QED  BY <3>1 DEF None
  <2> QED  BY <2>1, <2>2
<1>4. Alike(Fields(op, a), Fields(op, b))  BY <1>3, AlikeSelf
<1>5. Apart(n, {})  BY DEF Apart
<1> QED  BY <1>1, <1>2, <1>4, <1>5 DEF Agree, a, b

\* and one is, in a block the store does not use.
LEMMA GiveAgree ==
    ASSUME NEW m, NEW n, NEW q, Pair(n, q), NewRefs(m, n), Grows(m.heap, n.heap),
           NEW op, op \notin ListOps \cup {"DecrementRemainingUses"}, NEW t \in Tables,
           NEW v, NEW w, DOMAIN v.plain = PlainFields(t), DOMAIN v.ref = RefFields(t),
           SameFields(View(v.plain, Contents(n.heap, v.ref)),
                      View(w.plain, Contents(q.heap, w.ref))),
           NEW B \in Len(m.heap) + 1 .. Len(n.heap),
           \A f \in DOMAIN v.ref : v.ref[f] \in {Nil, B},
           \A u \in Tables : \A id \in DOMAIN n[u] : \A f \in DOMAIN n[u][id].ref :
              n[u][id].ref[f] # B
    PROVE  Agree(op, m, Give(n, v), Give(q, w))
<1> DEFINE a == Give(n, v)  b == Give(q, w)
           x == View(v.plain, Contents(n.heap, v.ref))
           y == View(w.plain, Contents(q.heap, w.ref))
<1>1. a.s = n /\ a.err = "nil" /\ a.structs = <<v>> /\ b.s = q /\ b.err = "nil"
      /\ b.structs = <<w>>
  BY DEF Give, Answer
<1>2. a.structs # <<>> /\ b.structs # <<>> /\ DOMAIN a.structs = {1} /\ DOMAIN b.structs = {1}
      /\ a.structs[1] = v /\ b.structs[1] = w
  BY <1>1
<1> HIDE DEF a, b
<1>3. OutCells(a) = Cells(v.ref)  BY <1>2 DEF OutCells
<1>4. \A c \in OutCells(a) : c[1] = B
  <2>1. \A c \in Cells(v.ref) : \E f \in DOMAIN v.ref : v.ref[f] # Nil /\ c = <<v.ref[f], f>>
    BY DEF Cells
  <2> QED  BY <1>3, <2>1
<1>5. Apart(n, OutCells(a))
  <2> SUFFICES ASSUME NEW u \in Tables, NEW id \in DOMAIN n[u], NEW f \in DOMAIN n[u][id].ref
               PROVE  <<n[u][id].ref[f], f>> \notin OutCells(a)
    BY DEF Apart
  <2>1. <<n[u][id].ref[f], f>>[1] # B  OBVIOUS
  <2> QED  BY <1>4, <2>1
<1>6. Fields(op, a) = x /\ Fields(op, b) = y  BY <1>1, <1>2 DEF Fields
<1>7. "keys" \notin DOMAIN x
  <2>1. DOMAIN x = PlainFields(t) \cup RefFields(t)  BY DEF View, Contents
  <2> QED  BY <2>1 DEF PlainFields, RefFields, WorkspaceFields, APIFields, KeyFields, KeyRefs
<1>8. Alike(x, y)  BY <1>7 DEF Alike
<1> QED  BY <1>1, <1>4, <1>5, <1>6, <1>8 DEF Agree, a, b

-----------------------------------------------------------------------------
(* Lookups.                                                                 *)

LEMMA HeapSet ==
    ASSUME NEW m, DOMAIN m = StoreFields, NEW h, HeapOK(h), Grows(m.heap, h)
    PROVE  OnlyHeap(m, [m EXCEPT !.heap = h]) /\ [m EXCEPT !.heap = h].heap = h
<1> DEFINE n == [m EXCEPT !.heap = h]
<1>1. DOMAIN n = StoreFields /\ n.heap = h /\ n.hashIndex = m.hashIndex
  BY DEF StoreFields
<1>2. \A t \in Tables : n[t] = m[t]  BY DEF Tables, StoreFields
<1> QED  BY <1>1, <1>2 DEF OnlyHeap

\* References of the store's end where its heap did.
LEMMA RefsBelow ==
    ASSUME NEW m, MemoryOK(m), NEW t \in Tables, NEW id \in DOMAIN m[t],
           NEW f \in DOMAIN m[t][id].ref
    PROVE  m[t][id].ref[f] = Nil \/ m[t][id].ref[f] \in 1 .. Len(m.heap)
BY DEF MemoryOK, StructKept, Within

LEMMA SelectForm ==
    ASSUME NEW p, PostgresOK(p), NEW t \in Tables, NEW id \in DOMAIN p[t]
    PROVE  \E q, w : /\ Postgres!Select(p, t, {id}) = Give(q, w)
                     /\ OnlyHeap(p, q) /\ w.plain = p[t][id].plain
                     /\ View(w.plain, Contents(q.heap, w.ref))
                          = View(p[t][id].plain, p[t][id].column)
<1> DEFINE row == p[t][id]  rows == <<row>>  g == Postgres!Read(p.heap, rows)
           d == [f \in DOMAIN row.column |-> Postgres!Scanned(f, row.column[f])]
           all == [i \in DOMAIN rows |->
                     [f \in DOMAIN rows[i].column |-> Postgres!Scanned(f, rows[i].column[f])]]
           k == AllocAll(p.heap, all)
           q == [p EXCEPT !.heap = g.heap]  w == g.out[1]
<1>1. HeapOK(p.heap) /\ DOMAIN p = StoreFields  BY DEF PostgresOK
<1>2. DOMAIN rows = 1 .. 1 /\ rows[1] = row  OBVIOUS
<1>3. all = [i \in 1 .. 1 |-> all[i]] /\ all[1] = d  BY <1>2
<1>4. g.heap = k.heap /\ g.out = [i \in DOMAIN rows |-> [plain |-> rows[i].plain, ref |-> k.refs[i]]]
  BY DEF Postgres!Read, Postgres!AllocAll, AllocAll
<1>5. g.out[1] = [plain |-> row.plain, ref |-> k.refs[1]]
  <2> HIDE DEF k, g
  <2> QED  BY <1>2, <1>4
<1> HIDE DEF all
<1>6. ASSUME NEW n \in Nat, all = [i \in 1 .. n |-> all[i]]
      PROVE  /\ HeapOK(k.heap) /\ Grows(p.heap, k.heap)
             /\ \A i \in 1 .. n : Contents(k.heap, k.refs[i])
                                    = [f \in DOMAIN all[i] |-> all[i][f]]
  <2> HIDE DEF k
  <2>1. /\ HeapOK(k.heap) /\ Len(p.heap) \in Nat /\ Len(k.heap) = Len(p.heap) + n
        /\ Grows(p.heap, k.heap)
        /\ \A i \in 1 .. n :
              /\ DOMAIN k.refs[i] = DOMAIN all[i] /\ Within(k.heap, k.refs[i])
              /\ Contents(k.heap, k.refs[i]) = [f \in DOMAIN all[i] |-> all[i][f]]
              /\ \A f \in DOMAIN all[i] : k.refs[i][f] \in {Nil, Len(p.heap) + i}
    BY <1>1, <1>6, AllocAllFacts, Zenon DEF k
  <2> QED  BY <2>1
<1>7. /\ HeapOK(k.heap) /\ Grows(p.heap, k.heap)
      /\ Contents(k.heap, k.refs[1]) = [f \in DOMAIN all[1] |-> all[1][f]]
  BY <1>3, <1>6
<1>8. [f \in DOMAIN all[1] |-> all[1][f]] = d  BY <1>3
<1> HIDE DEF k, d
<1>9. OnlyHeap(p, q) /\ q.heap = k.heap
  <2> HIDE DEF g
  <2> QED  BY <1>1, <1>4, <1>7, HeapSet
<1>10. Postgres!Select(p, t, {id}) = Give(q, w)
  <2>1. (CHOOSE i \in {id} : TRUE) = id  OBVIOUS
  <2> HIDE DEF g
  <2> QED  BY <2>1 DEF Postgres!Select, Postgres!Give, Postgres!Answer, Give, Answer, g
<1> HIDE DEF q, g
<1>11. w.plain = row.plain /\ w.ref = k.refs[1]  BY <1>5
<1>12. View(w.plain, Contents(q.heap, w.ref)) = View(row.plain, d)
  BY <1>7, <1>8, <1>9, <1>11
<1>13. View(row.plain, d) = View(row.plain, row.column)  BY ScannedView DEF d
<1> QED  BY <1>9, <1>10, <1>11, <1>12, <1>13

LEMMA FoundAgree ==
    ASSUME NEW m, NEW p, Pair(m, p), NEW op, op \notin ListOps \cup {"DecrementRemainingUses"},
           NEW t \in Tables, NEW id \in DOMAIN m[t]
    PROVE  Agree(op, m, Memory!Get(m, t, id), Postgres!Select(p, t, {id}))
<1> DEFINE row == m[t][id]  c == Memory!Copy(m.heap, row.ref)  g == Alloc(m.heap, c)
           n == [m EXCEPT !.heap = g.heap]  v == [plain |-> row.plain, ref |-> g.ref]
<1>1. /\ MemoryOK(m) /\ PostgresOK(p) /\ StoresAlike(m, p)  BY DEF Pair
<1>2. /\ HeapOK(m.heap) /\ DOMAIN m = StoreFields /\ StructKept(t, m.heap, row)
  BY <1>1 DEF MemoryOK
<1>3. id \in DOMAIN p[t] /\ RowsAlike(m.heap, row, p[t][id])  BY <1>1 DEF StoresAlike
<1>4. PICK q, w : /\ Postgres!Select(p, t, {id}) = Give(q, w)
                  /\ OnlyHeap(p, q) /\ w.plain = p[t][id].plain
                  /\ View(w.plain, Contents(q.heap, w.ref))
                       = View(p[t][id].plain, p[t][id].column)
  BY <1>1, <1>3, SelectForm
<1>5. Memory!Get(m, t, id) = Give(n, v)
  <2>1. Memory!cloneKey(m.heap, row.ref) = g  BY MemoryClone
  <2> HIDE DEF g
  <2> QED  BY <2>1 DEF Memory!Get, Memory!Give, Memory!Answer, Give, Answer
<1>6. /\ HeapOK(g.heap) /\ Len(m.heap) \in Nat /\ Len(g.heap) = Len(m.heap) + 1
      /\ Grows(m.heap, g.heap) /\ DOMAIN g.ref = DOMAIN c
      /\ Contents(g.heap, g.ref) = [f \in DOMAIN c |-> c[f]]
      /\ \A f \in DOMAIN c : g.ref[f] \in {Nil, Len(m.heap) + 1}
  <2> HIDE DEF c
  <2> QED  BY <1>2, AllocFacts
<1>7. /\ DOMAIN c = DOMAIN row.ref /\ [f \in DOMAIN c |-> c[f]] = c
      /\ View(row.plain, c) = View(row.plain, Contents(m.heap, row.ref))
  <2> HIDE DEF row
  <2> QED  BY CopyView
<1> HIDE DEF c, g
<1>8. OnlyHeap(m, n) /\ n.heap = g.heap  BY <1>2, <1>6, HeapSet
<1> HIDE DEF n
<1>9. Pair(n, q) /\ NewRefs(m, n)  BY <1>4, <1>8, OnlyHeapPair
<1>10. /\ v.plain = row.plain /\ v.ref = g.ref /\ DOMAIN v.plain = PlainFields(t)
       /\ DOMAIN v.ref = RefFields(t)
  BY <1>2, <1>6, <1>7 DEF StructKept, PlainOK
<1> HIDE DEF v
<1>11. SameFields(View(v.plain, Contents(n.heap, v.ref)), View(w.plain, Contents(q.heap, w.ref)))
  <2>1. View(v.plain, Contents(n.heap, v.ref)) = View(row.plain, Contents(m.heap, row.ref))
    BY <1>6, <1>7, <1>8, <1>10
  <2> QED  BY <1>3, <1>4, <2>1 DEF RowsAlike
<1>12. Len(m.heap) + 1 \in Len(m.heap) + 1 .. Len(n.heap)  BY <1>6, <1>8
<1>13. \A f \in DOMAIN v.ref : v.ref[f] \in {Nil, Len(m.heap) + 1}  BY <1>6, <1>10
<1>14. \A u \in Tables : \A i \in DOMAIN n[u] : \A f \in DOMAIN n[u][i].ref :
          n[u][i].ref[f] # Len(m.heap) + 1
  <2> SUFFICES ASSUME NEW u \in Tables, NEW i \in DOMAIN m[u], NEW f \in DOMAIN m[u][i].ref
               PROVE  m[u][i].ref[f] # Len(m.heap) + 1
    BY <1>8 DEF OnlyHeap
  <2>1. m[u][i].ref[f] = Nil \/ m[u][i].ref[f] \in 1 .. Len(m.heap)  BY <1>1, RefsBelow
  <2> QED  BY <1>6, <2>1, NilAssumption
<1>15. Agree(op, m, Give(n, v), Give(q, w))
  <2>1. Grows(m.heap, n.heap)  BY <1>6, <1>8
  <2> QED  BY <1>9, <1>10, <1>11, <1>12, <1>13, <1>14, <2>1, GiveAgree
<1> QED  BY <1>4, <1>5, <1>15

LEMMA StaysPair ==
    ASSUME NEW m, NEW p, Pair(m, p)
    PROVE  NewRefs(m, m) /\ Grows(m.heap, m.heap)
<1>1. NewRefs(m, m)  BY RefsOfOld
<1>2. Len(m.heap) \in Nat  BY HeapLen DEF Pair, MemoryOK
<1> QED  BY <1>1, <1>2 DEF Grows

\* Refused alike.
LEMMA RefuseAgree ==
    ASSUME NEW m, NEW p, Pair(m, p), NEW op, op \notin ListOps, NEW err
    PROVE  Agree(op, m, Memory!Refuse(m, err), Postgres!Refuse(p, err))
<1>1. /\ Memory!Refuse(m, err) = Answer(m, err, <<>>, 0)
      /\ Postgres!Refuse(p, err) = Answer(p, err, <<>>, 0)
  BY DEF Memory!Refuse, Memory!Answer, Postgres!Refuse, Postgres!Answer, Answer
<1>2. Agree(op, m, Answer(m, err, <<>>, 0), Answer(p, err, <<>>, 0))
  BY StaysPair, BareAgree
<1> QED  BY <1>1, <1>2

LEMMA GetAgree ==
    ASSUME NEW m, NEW p, Pair(m, p), NEW op, op \notin ListOps \cup {"DecrementRemainingUses"},
           NEW t \in Tables, NEW id
    PROVE  Agree(op, m, Memory!Get(m, t, id), Postgres!Select(p, t, Postgres!Existing(p, t, id)))
<1>1. DOMAIN m[t] = DOMAIN p[t]  BY DEF Pair, StoresAlike
<1>2. CASE id \in DOMAIN m[t]
  <2>1. Postgres!Existing(p, t, id) = {id}  BY <1>1, <1>2 DEF Postgres!Existing
  <2> QED  BY <1>2, <2>1, FoundAgree
<1>3. CASE id \notin DOMAIN m[t]
  <2>1. Postgres!Existing(p, t, id) = {}  BY <1>1, <1>3 DEF Postgres!Existing
  <2>2. Postgres!Select(p, t, {}) = Postgres!Refuse(p, "ErrNotFound")  BY DEF Postgres!Select
  <2>3. Memory!Get(m, t, id) = Memory!Refuse(m, "ErrNotFound")  BY <1>3 DEF Memory!Get
  <2> QED  BY <2>1, <2>2, <2>3, RefuseAgree
<1> QED  BY <1>2, <1>3

\* The stored hashes are the same, so memory's index finds what the unique
\* index of Postgres does.
LEMMA HashesAlike ==
    ASSUME NEW m, NEW p, Pair(m, p), NEW id \in DOMAIN m.keys
    PROVE  id \in DOMAIN p.keys /\ HashOf(m, id) = p.keys[id].column.hash
<1> DEFINE row == m.keys[id]  prow == p.keys[id]
           x == View(row.plain, Contents(m.heap, row.ref))  y == View(prow.plain, prow.column)
<1>1. /\ id \in DOMAIN p.keys /\ SameFields(x, y)
      /\ StructKept("keys", m.heap, row) /\ RowKept("keys", prow)
  BY DEF Pair, StoresAlike, RowsAlike, MemoryOK, PostgresOK, Tables
<1>2. /\ DOMAIN row.plain = KeyFields /\ DOMAIN row.ref = KeyRefs
      /\ DOMAIN prow.plain = KeyFields /\ DOMAIN prow.column = KeyRefs
  BY <1>1 DEF StructKept, RowKept, PlainOK, PlainFields, RefFields
<1>3. "hash" \in KeyRefs /\ "hash" \notin KeyFields  BY DEF KeyRefs, KeyFields
<1>4. DOMAIN Contents(m.heap, row.ref) = KeyRefs  BY <1>2 DEF Contents
<1> HIDE DEF row, prow
<1>5. x["hash"] = Seen("hash", Contents(m.heap, row.ref)["hash"])
      /\ y["hash"] = Seen("hash", prow.column["hash"]) /\ "hash" \in DOMAIN x
  BY <1>2, <1>3, <1>4 DEF View
<1> HIDE DEF x, y
<1>6. x["hash"] = y["hash"]  BY <1>1, <1>5 DEF SameFields, TimeFields
<1>7. \A c : Seen("hash", c) = c  BY DEF Seen, Empty
<1>8. Contents(m.heap, row.ref)["hash"] = prow.column["hash"]  BY <1>5, <1>6, <1>7
<1> QED  BY <1>1, <1>8 DEF HashOf, row, prow

LEMMA IndexesAlike ==
    ASSUME NEW m, NEW p, Pair(m, p), NEW hash
    PROVE  Postgres!WithHash(p, hash) = IF hash \in DOMAIN m.hashIndex THEN {m.hashIndex[hash]}
                                         ELSE {}
<1>1. DOMAIN p.keys = DOMAIN m.keys /\ Indexed(m)
  BY DEF Pair, StoresAlike, MemoryOK, Tables
<1>2. \A id \in DOMAIN m.keys : HashOf(m, id) = p.keys[id].column.hash  BY HashesAlike
<1>3. Postgres!WithHash(p, hash) = {id \in DOMAIN m.keys : HashOf(m, id) = hash}
  BY <1>1, <1>2 DEF Postgres!WithHash
<1> QED  BY <1>1, <1>3 DEF Indexed

LEMMA GetKeyByHashAgree ==
    ASSUME NEW m, NEW p, Pair(m, p), NEW r
    PROVE  Agree("GetKeyByHash", m, Memory!GetKeyByHash(m, r), Postgres!GetKeyByHash(p, r))
<1>1. "GetKeyByHash" \notin ListOps \cup {"DecrementRemainingUses"}  BY DEF ListOps
<1>2. CASE r.arg \in DOMAIN m.hashIndex
  <2>1. m.hashIndex[r.arg] \in DOMAIN m.keys  BY <1>2 DEF Pair, MemoryOK, Indexed
  <2>2. Postgres!GetKeyByHash(p, r) = Postgres!Select(p, "keys", {m.hashIndex[r.arg]})
    BY <1>2, IndexesAlike DEF Postgres!GetKeyByHash
  <2>3. Memory!GetKeyByHash(m, r) = Memory!Get(m, "keys", m.hashIndex[r.arg])
    BY <1>2 DEF Memory!GetKeyByHash
  <2>4. "keys" \in Tables  BY DEF Tables
  <2> QED  BY <1>1, <2>1, <2>2, <2>3, <2>4, FoundAgree
<1>3. CASE r.arg \notin DOMAIN m.hashIndex
  <2>1. Postgres!GetKeyByHash(p, r) = Postgres!Refuse(p, "ErrNotFound")
    BY <1>3, IndexesAlike DEF Postgres!GetKeyByHash, Postgres!Select
  <2>2. Memory!GetKeyByHash(m, r) = Memory!Refuse(m, "ErrNotFound")
    BY <1>3 DEF Memory!GetKeyByHash
  <2> QED  BY <1>1, <2>1, <2>2, RefuseAgree
<1> QED  BY <1>2, <1>3

-----------------------------------------------------------------------------
(* Writing a row.                                                           *)

LEMMA StoredWrites ==
    ASSUME NEW m, NEW k, DOMAIN k = StoreFields, HeapOK(k.heap), Grows(m.heap, k.heap),
           \A u \in Tables : k[u] = m[u], NEW t \in Tables, NEW id, NEW row
    PROVE  LET n == Stored(k, t, id, row) IN
           Writes(m, n, t, id, row) /\ n.heap = k.heap /\ n.hashIndex = k.hashIndex
<1> DEFINE n == Stored(k, t, id, row)
<1>1. t \in StoreFields /\ t # "heap" /\ t # "hashIndex"  BY DEF StoreFields, Tables
<1>2. /\ DOMAIN n = StoreFields /\ n.heap = k.heap /\ n.hashIndex = k.hashIndex
      /\ n[t] = Put(k[t], id, row)
  BY <1>1 DEF Stored, StoreFields
<1>3. \A u \in Tables \ {t} : n[u] = m[u]  BY DEF Stored, Tables, StoreFields
<1>4. k[t] = m[t]  OBVIOUS
<1> HIDE DEF n
<1>5. /\ DOMAIN n[t] = DOMAIN m[t] \cup {id}
      /\ \A i \in DOMAIN n[t] : n[t][i] = IF i = id THEN row ELSE m[t][i]
  BY <1>2, <1>4 DEF Put
<1> QED  BY <1>2, <1>3, <1>5 DEF Writes, n

LEMMA StoredForms ==
    ASSUME NEW k, NEW t, NEW id, NEW row
    PROVE  /\ Memory!Stored(k, t, id, row) = Stored(k, t, id, row)
           /\ Postgres!Stored(k, t, id, row) = Stored(k, t, id, row)
BY DEF Memory!Stored, Memory!Put, Postgres!Stored, Postgres!Put, Stored, Put

\* SameFields, of the parts of two views.
FieldsAlike(plain, c, pplain, col) ==
    /\ \A f \in DOMAIN plain :
          IF f \in TimeFields
          THEN Micro(plain[f]) = Micro(pplain[f]) \/ (f = "updatedAt" /\ Revoked(plain))
          ELSE plain[f] = pplain[f]
    /\ \A f \in DOMAIN c :
          IF f \in TimeFields THEN Micro(c[f]) = Micro(col[f])
          ELSE Seen(f, c[f]) = Seen(f, col[f])

LEMMA FieldNames ==
    ASSUME NEW t
    PROVE  /\ PlainFields(t) \cap RefFields(t) = {}
           /\ "updatedAt" \in PlainFields(t) /\ "createdAt" \in PlainFields(t)
           /\ "enabled" \notin RefFields(t) /\ "updatedAt" \notin RefFields(t)
           /\ "keys" \notin PlainFields(t) \cup RefFields(t)
           /\ "id" \in PlainFields(t)
BY DEF PlainFields, RefFields, WorkspaceFields, APIFields, KeyFields, KeyRefs

LEMMA TimesSeen == \A f \in TimeFields : \A c : Seen(f, c) = c
BY DEF TimeFields, Seen, Empty

LEMMA ViewAlike ==
    ASSUME NEW t, NEW plain, NEW c, NEW pplain, NEW col,
           DOMAIN plain = PlainFields(t), DOMAIN pplain = PlainFields(t),
           DOMAIN c = RefFields(t), DOMAIN col = RefFields(t)
    PROVE  SameFields(View(plain, c), View(pplain, col)) <=> FieldsAlike(plain, c, pplain, col)
<1> DEFINE x == View(plain, c)  y == View(pplain, col)
<1>1. DOMAIN x = PlainFields(t) \cup RefFields(t) /\ DOMAIN y = DOMAIN x
  BY DEF View
<1>2. \A f \in PlainFields(t) : x[f] = plain[f] /\ y[f] = pplain[f]  BY DEF View
<1>3. \A f \in RefFields(t) : x[f] = Seen(f, c[f]) /\ y[f] = Seen(f, col[f])
  BY FieldNames DEF View
<1>4. Revoked(x) <=> Revoked(plain)  BY <1>1, <1>2, FieldNames DEF Revoked
<1> HIDE DEF x, y
<1>5. SameFields(x, y) <=>
         /\ \A f \in PlainFields(t) :
               IF f \in TimeFields
               THEN Micro(x[f]) = Micro(y[f]) \/ (f = "updatedAt" /\ Revoked(x))
               ELSE x[f] = y[f]
         /\ \A f \in RefFields(t) :
               IF f \in TimeFields
               THEN Micro(x[f]) = Micro(y[f]) \/ (f = "updatedAt" /\ Revoked(x))
               ELSE x[f] = y[f]
  BY <1>1, FieldNames, Zenon DEF SameFields
<1>6. (\A f \in RefFields(t) :
          IF f \in TimeFields
          THEN Micro(x[f]) = Micro(y[f]) \/ (f = "updatedAt" /\ Revoked(x))
          ELSE x[f] = y[f])
      <=> (\A f \in RefFields(t) :
              IF f \in TimeFields THEN Micro(c[f]) = Micro(col[f])
              ELSE Seen(f, c[f]) = Seen(f, col[f]))
  BY <1>3, FieldNames, TimesSeen
<1>7. (\A f \in PlainFields(t) :
          IF f \in TimeFields
          THEN Micro(x[f]) = Micro(y[f]) \/ (f = "updatedAt" /\ Revoked(x))
          ELSE x[f] = y[f])
      <=> (\A f \in PlainFields(t) :
              IF f \in TimeFields
              THEN Micro(plain[f]) = Micro(pplain[f]) \/ (f = "updatedAt" /\ Revoked(plain))
              ELSE plain[f] = pplain[f])
  BY <1>2, <1>4
<1> QED  BY <1>5, <1>6, <1>7 DEF FieldsAlike, x, y

\* A key's row is written over and its hash stays.
LEMMA UpdatePair ==
    ASSUME NEW m, NEW p, Pair(m, p), NEW id \in DOMAIN m.keys, NEW n, NEW q, NEW row, NEW prow,
           Writes(m, n, "keys", id, row), Writes(p, q, "keys", id, prow),
           n.hashIndex = m.hashIndex,
           StructKept("keys", n.heap, row), RowKept("keys", prow),
           RowsAlike(n.heap, row, prow),
           Contents(n.heap, row.ref)["hash"] = HashOf(m, id),
           \A f \in DOMAIN row.ref :
              \/ row.ref[f] = Nil
              \/ row.ref[f] \in Len(m.heap) + 1 .. Len(n.heap)
              \/ f \in DOMAIN m.keys[id].ref /\ row.ref[f] = m.keys[id].ref[f]
    PROVE  Pair(n, q) /\ NewRefs(m, n) /\ Grows(m.heap, n.heap)
<1>1. "keys" \in Tables /\ "keys" # "apis"  BY DEF Tables
<1>2. MemoryOK(m) /\ HeapOK(m.heap) /\ HeapOK(n.heap) /\ Grows(m.heap, n.heap)
  BY DEF Pair, MemoryOK, Writes
<1>3. /\ DOMAIN n.keys = DOMAIN m.keys
      /\ \A i \in DOMAIN m.keys : n.keys[i] = IF i = id THEN row ELSE m.keys[i]
  BY DEF Writes
<1>4. ASSUME NEW i \in DOMAIN m.keys PROVE HashOf(n, i) = HashOf(m, i)
  <2>1. CASE i = id  BY <1>3, <2>1 DEF HashOf
  <2>2. CASE i # id
    <3>1. StructKept("keys", m.heap, m.keys[i])  BY <1>1, <1>2 DEF MemoryOK
    <3>2. Contents(n.heap, m.keys[i].ref) = Contents(m.heap, m.keys[i].ref)
      BY <1>2, <3>1, KeptGrows
    <3> QED  BY <1>3, <2>2, <3>2 DEF HashOf
  <2> QED  BY <2>1, <2>2
<1>5. Indexed(n)  BY <1>2, <1>3, <1>4, SameHashes
<1>6. Pair(n, q)  BY <1>1, <1>5, WritesPair
<1>7. NewRefs(m, n)
  <2>1. \A f \in DOMAIN row.ref :
           \/ row.ref[f] = Nil
           \/ row.ref[f] \in Len(m.heap) + 1 .. Len(n.heap)
           \/ /\ id \in DOMAIN m["keys"] /\ f \in DOMAIN m["keys"][id].ref
              /\ row.ref[f] = m["keys"][id].ref[f]
    OBVIOUS
  <2> QED  BY <1>1, <2>1, WritesRefs, Zenon
<1> QED  BY <1>2, <1>6, <1>7

-----------------------------------------------------------------------------
(* Calls that write to a key.                                               *)

\* The rows of a key in two alike stores.
KeyPair(m, p, k, j) ==
    /\ HeapOK(m.heap) /\ HeapOK(p.heap) /\ DOMAIN m = StoreFields /\ DOMAIN p = StoreFields
    /\ DOMAIN k = {"plain", "ref"} /\ DOMAIN j = {"plain", "column"}
    /\ DOMAIN k.plain = KeyFields /\ DOMAIN j.plain = KeyFields
    /\ DOMAIN k.ref = KeyRefs /\ DOMAIN j.column = KeyRefs
    /\ k.plain.remaining \in Int /\ k.plain.enabled \in BOOLEAN
    /\ j.plain.remaining \in Int /\ j.plain.enabled \in BOOLEAN
    /\ Within(m.heap, k.ref)
    /\ FieldsAlike(k.plain, Contents(m.heap, k.ref), j.plain, j.column)
    /\ k.plain.remaining = j.plain.remaining /\ k.plain.enabled = j.plain.enabled

LEMMA KeyRows ==
    ASSUME NEW m, NEW p, Pair(m, p), NEW id \in DOMAIN m.keys
    PROVE  id \in DOMAIN p.keys /\ KeyPair(m, p, m.keys[id], p.keys[id])
<1> DEFINE k == m.keys[id]  j == p.keys[id]  c == Contents(m.heap, k.ref)
<1>1. /\ HeapOK(m.heap) /\ HeapOK(p.heap) /\ DOMAIN m = StoreFields /\ DOMAIN p = StoreFields
      /\ id \in DOMAIN p.keys /\ RowsAlike(m.heap, k, j)
      /\ StructKept("keys", m.heap, k) /\ RowKept("keys", j)
  BY DEF Pair, StoresAlike, MemoryOK, PostgresOK, Tables
<1> HIDE DEF k, j
<1>2. PlainFields("keys") = KeyFields /\ RefFields("keys") = KeyRefs
  BY DEF PlainFields, RefFields
<1>3. /\ DOMAIN k = {"plain", "ref"} /\ DOMAIN j = {"plain", "column"}
      /\ DOMAIN k.plain = KeyFields /\ DOMAIN j.plain = KeyFields
      /\ DOMAIN k.ref = KeyRefs /\ DOMAIN j.column = KeyRefs
      /\ k.plain.remaining \in Int /\ k.plain.enabled \in BOOLEAN
      /\ j.plain.remaining \in Int /\ j.plain.enabled \in BOOLEAN
      /\ Within(m.heap, k.ref)
  BY <1>1, <1>2 DEF StructKept, RowKept, PlainOK
<1>4. DOMAIN c = KeyRefs  BY <1>3 DEF Contents
<1>5. SameFields(View(k.plain, c), View(j.plain, j.column))  BY <1>1 DEF RowsAlike
<1> HIDE DEF c
<1>6. FieldsAlike(k.plain, c, j.plain, j.column)  BY <1>2, <1>3, <1>4, <1>5, ViewAlike
<1>7. k.plain.remaining = j.plain.remaining /\ k.plain.enabled = j.plain.enabled
  BY <1>3, <1>6 DEF FieldsAlike, KeyFields, TimeFields
<1> QED  BY <1>1, <1>3, <1>6, <1>7 DEF KeyPair, k, j, c

\* Only plain fields change.
LEMMA PlainUpdate ==
    ASSUME NEW m, NEW p, Pair(m, p), NEW id \in DOMAIN m.keys, NEW n, NEW q, NEW row, NEW prow,
           Writes(m, n, "keys", id, row), Writes(p, q, "keys", id, prow),
           n.hashIndex = m.hashIndex, n.heap = m.heap,
           DOMAIN row = {"plain", "ref"}, row.ref = m.keys[id].ref, PlainOK("keys", row.plain),
           DOMAIN prow = {"plain", "column"}, prow.column = p.keys[id].column,
           PlainOK("keys", prow.plain),
           \A f \in KeyFields :
              IF f \in TimeFields
              THEN \/ Micro(row.plain[f]) = Micro(prow.plain[f])
                   \/ f = "updatedAt" /\ Revoked(row.plain)
              ELSE row.plain[f] = prow.plain[f]
    PROVE  Pair(n, q) /\ NewRefs(m, n) /\ Grows(m.heap, n.heap)
<1> DEFINE k == m.keys[id]  j == p.keys[id]  c == Contents(m.heap, k.ref)
<1>0. KeyPair(m, p, k, j)  BY KeyRows
<1>1. row.ref = k.ref /\ prow.column = j.column  OBVIOUS
<1>2. Contents(n.heap, row.ref) = c  BY <1>1
<1>3. Contents(n.heap, row.ref)["hash"] = HashOf(m, id)  BY <1>2 DEF HashOf
<1>4. \A f \in DOMAIN row.ref : f \in DOMAIN m.keys[id].ref /\ row.ref[f] = m.keys[id].ref[f]
  BY <1>1
<1> HIDE DEF k, j
<1>5. /\ DOMAIN k.ref = KeyRefs /\ DOMAIN j.column = KeyRefs /\ Within(m.heap, k.ref)
      /\ FieldsAlike(k.plain, c, j.plain, j.column)
  BY <1>0 DEF KeyPair
<1>6. DOMAIN c = KeyRefs  BY <1>5 DEF Contents
<1>7. PlainFields("keys") = KeyFields /\ RefFields("keys") = KeyRefs
  BY DEF PlainFields, RefFields
<1>8. DOMAIN row.plain = KeyFields /\ DOMAIN prow.plain = KeyFields  BY <1>7 DEF PlainOK
<1> HIDE DEF c
<1>9. FieldsAlike(row.plain, c, prow.plain, j.column)  BY <1>5, <1>8 DEF FieldsAlike
<1>10. SameFields(View(row.plain, c), View(prow.plain, j.column))
  BY <1>5, <1>6, <1>7, <1>8, <1>9, ViewAlike
<1>11. RowsAlike(n.heap, row, prow)  BY <1>1, <1>2, <1>10 DEF RowsAlike
<1>12. StructKept("keys", n.heap, row)  BY <1>1, <1>5, <1>7 DEF StructKept
<1>13. RowKept("keys", prow)  BY <1>1, <1>5, <1>7 DEF RowKept
<1> QED  BY <1>3, <1>4, <1>11, <1>12, <1>13, UpdatePair

LEMMA MicroNow ==
    ASSUME NEW t \in Nat \cup {Nil}
    PROVE  Micro(Micro(t)) = Micro(t) /\ Postgres!Micro(t) = Micro(t)
<1>1. Postgres!Micro(t) = Micro(t)  BY DEF Micro, Postgres!Micro
<1> QED  BY <1>1, MicroFacts

LEMMA DoneAgree ==
    ASSUME NEW m, NEW n, NEW q, Pair(n, q), NewRefs(m, n), Grows(m.heap, n.heap),
           NEW op, op \notin ListOps
    PROVE  Agree(op, m, Memory!Done(n), Postgres!Done(q))
<1>1. Memory!Done(n) = Answer(n, "nil", <<>>, 0) /\ Postgres!Done(q) = Answer(q, "nil", <<>>, 0)
  BY DEF Memory!Done, Memory!Answer, Postgres!Done, Postgres!Answer, Answer
<1> QED  BY <1>1, BareAgree

\* A row of the keys as it was.
LEMMA SelfWrites ==
    ASSUME NEW m, DOMAIN m = StoreFields, HeapOK(m.heap), NEW id \in DOMAIN m.keys
    PROVE  Writes(m, m, "keys", id, m.keys[id])
<1>1. Len(m.heap) \in Nat  BY HeapLen
<1> QED  BY <1>1 DEF Writes, Grows

LEMMA KeyWrites ==
    ASSUME NEW m, DOMAIN m = StoreFields, HeapOK(m.heap), NEW id, NEW row
    PROVE  /\ Writes(m, Stored(m, "keys", id, row), "keys", id, row)
           /\ Stored(m, "keys", id, row).heap = m.heap
           /\ Stored(m, "keys", id, row).hashIndex = m.hashIndex
<1>1. Len(m.heap) \in Nat  BY HeapLen
<1>2. Grows(m.heap, m.heap)  BY <1>1 DEF Grows
<1>3. "keys" \in Tables /\ \A u \in Tables : m[u] = m[u]  BY DEF Tables
<1> QED  BY <1>2, <1>3, StoredWrites

LEMMA RevokeKeyAgree ==
    ASSUME NEW m, NEW p, Pair(m, p), NEW r, NEW s, r.id = s.id, r.now = s.now, r.now \in Nat
    PROVE  Agree("RevokeKey", m, Memory!RevokeKey(m, r), Postgres!RevokeKey(p, s))
<1> DEFINE k == m.keys[r.id]  j == p.keys[r.id]
           row == [k EXCEPT !.plain.enabled = FALSE, !.plain.updatedAt = r.now]
           prow == [j EXCEPT !.plain.enabled = FALSE, !.plain.updatedAt = Postgres!Micro(r.now)]
           n == Stored(m, "keys", r.id, row)  q == Stored(p, "keys", r.id, prow)
<1>1. "RevokeKey" \notin ListOps  BY DEF ListOps
<1>2. DOMAIN m.keys = DOMAIN p.keys  BY DEF Pair, StoresAlike, Tables
<1>3. CASE r.id \notin DOMAIN m.keys
  <2>1. Memory!RevokeKey(m, r) = Memory!Refuse(m, "ErrNotFound")  BY <1>3 DEF Memory!RevokeKey
  <2>2. Postgres!RevokeKey(p, s) = Postgres!Refuse(p, "ErrNotFound")
    BY <1>2, <1>3 DEF Postgres!RevokeKey
  <2> QED  BY <1>1, <2>1, <2>2, RefuseAgree
<1>4. CASE r.id \in DOMAIN m.keys
  <2>1. KeyPair(m, p, k, j)  BY <1>4, KeyRows
  <2>2. Postgres!RevokeKey(p, s) = Postgres!Done(q)
    <3>1. Postgres!RevokeKey(p, s) = Postgres!Done(Postgres!Stored(p, "keys", r.id, prow))
      BY <1>2, <1>4 DEF Postgres!RevokeKey
    <3> QED  BY <3>1, StoredForms
  <2>3. k.plain.enabled => Memory!RevokeKey(m, r) = Memory!Done(n)
    <3>1. k.plain.enabled => Memory!RevokeKey(m, r) =
                               Memory!Done(Memory!Stored(m, "keys", r.id, row))
      BY <1>4 DEF Memory!RevokeKey
    <3> QED  BY <3>1, StoredForms
  <2>4. ~k.plain.enabled => Memory!RevokeKey(m, r) = Memory!Done(m)
    BY <1>4 DEF Memory!RevokeKey
  <2> HIDE DEF k, j
  <2>5. /\ DOMAIN prow = {"plain", "column"} /\ prow.column = j.column
        /\ PlainOK("keys", prow.plain) /\ prow.plain.enabled = FALSE
        /\ \A f \in KeyFields \ {"enabled", "updatedAt"} : prow.plain[f] = j.plain[f]
    BY <2>1 DEF KeyPair, PlainOK, PlainFields, KeyFields
  <2>6. Writes(p, q, "keys", r.id, prow)  BY <2>1, KeyWrites DEF KeyPair
  <2>7. /\ FieldsAlike(k.plain, Contents(m.heap, k.ref), j.plain, j.column)
        /\ DOMAIN k.plain = KeyFields
    BY <2>1 DEF KeyPair
  <2> HIDE DEF q, prow
  <2>8. CASE k.plain.enabled
    <3>1. /\ DOMAIN row = {"plain", "ref"} /\ row.ref = k.ref
          /\ PlainOK("keys", row.plain) /\ row.plain.enabled = FALSE
          /\ \A f \in KeyFields \ {"enabled", "updatedAt"} : row.plain[f] = k.plain[f]
      BY <2>1 DEF KeyPair, PlainOK, PlainFields, KeyFields
    <3>2. Writes(m, n, "keys", r.id, row) /\ n.heap = m.heap /\ n.hashIndex = m.hashIndex
      BY <2>1, KeyWrites DEF KeyPair
    <3> HIDE DEF n, row
    <3>3. Revoked(row.plain)  BY <3>1 DEF Revoked, PlainOK, PlainFields, KeyFields
    <3>4. \A f \in KeyFields :
             IF f \in TimeFields
             THEN \/ Micro(row.plain[f]) = Micro(prow.plain[f])
                  \/ f = "updatedAt" /\ Revoked(row.plain)
             ELSE row.plain[f] = prow.plain[f]
      BY <2>5, <2>7, <3>1, <3>3 DEF FieldsAlike, TimeFields
    <3>5. Pair(n, q) /\ NewRefs(m, n) /\ Grows(m.heap, n.heap)
      <4>1. row.ref = m.keys[r.id].ref /\ prow.column = p.keys[r.id].column
        BY <2>5, <3>1 DEF k, j
      <4> QED  BY <1>4, <2>5, <2>6, <3>1, <3>2, <3>4, <4>1, PlainUpdate
    <3> QED  BY <1>1, <2>2, <2>3, <2>8, <3>5, DoneAgree
  <2>9. CASE ~k.plain.enabled
    <3>1. Writes(m, m, "keys", r.id, k)  BY <1>4, <2>1, SelfWrites DEF KeyPair, k
    <3>2. /\ DOMAIN k = {"plain", "ref"} /\ PlainOK("keys", k.plain)
          /\ k.plain.enabled = FALSE
      BY <2>1, <2>9 DEF KeyPair, PlainOK, PlainFields
    <3>3. Revoked(k.plain)  BY <3>2 DEF Revoked, PlainOK, PlainFields, KeyFields
    <3>4. \A f \in KeyFields :
             IF f \in TimeFields
             THEN Micro(k.plain[f]) = Micro(prow.plain[f]) \/ (f = "updatedAt" /\ Revoked(k.plain))
             ELSE k.plain[f] = prow.plain[f]
      BY <2>5, <2>7, <3>2, <3>3 DEF FieldsAlike, TimeFields
    <3>5. Pair(m, q) /\ NewRefs(m, m) /\ Grows(m.heap, m.heap)
      <4>1. k.ref = m.keys[r.id].ref /\ prow.column = p.keys[r.id].column  BY <2>5 DEF k, j
      <4> QED  BY <1>4, <2>5, <2>6, <3>1, <3>2, <3>4, <4>1, PlainUpdate
    <3> QED  BY <1>1, <2>2, <2>4, <2>9, <3>5, DoneAgree
  <2> QED  BY <2>8, <2>9
<1> QED  BY <1>3, <1>4

LEMMA DecrementRemainingUsesAgree ==
    ASSUME NEW m, NEW p, Pair(m, p), NEW r, NEW s, r.id = s.id, r.now = s.now, r.now \in Nat
    PROVE  Agree("DecrementRemainingUses", m, Memory!DecrementRemainingUses(m, r),
                 Postgres!DecrementRemainingUses(p, s))
<1> DEFINE k == m.keys[r.id]  j == p.keys[r.id]  x == k.plain.remaining
           row == [k EXCEPT !.plain.remaining = x - 1, !.plain.updatedAt = r.now]
           prow == [j EXCEPT !.plain.remaining = x - 1,
                             !.plain.updatedAt = Postgres!Micro(r.now)]
           n == Stored(m, "keys", r.id, row)  q == Stored(p, "keys", r.id, prow)
           M == Memory!DecrementRemainingUses(m, r)
           P == Postgres!DecrementRemainingUses(p, s)
<1>1. "DecrementRemainingUses" \notin ListOps  BY DEF ListOps
<1>2. DOMAIN m.keys = DOMAIN p.keys  BY DEF Pair, StoresAlike, Tables
<1>3. CASE r.id \notin DOMAIN m.keys
  <2>1. M = Memory!Refuse(m, "ErrNotFound")  BY <1>3 DEF Memory!DecrementRemainingUses
  <2>2. P = Postgres!Refuse(p, "ErrNotFound")
    BY <1>2, <1>3 DEF Postgres!DecrementRemainingUses
  <2> QED  BY <1>1, <2>1, <2>2, RefuseAgree
<1>4. CASE r.id \in DOMAIN m.keys
  <2>1. KeyPair(m, p, k, j)  BY <1>4, KeyRows
  <2>2. /\ x \in Int /\ j.plain.remaining = x
        /\ FieldsAlike(k.plain, Contents(m.heap, k.ref), j.plain, j.column)
        /\ DOMAIN k.plain = KeyFields /\ DOMAIN j.plain = KeyFields
    <3> HIDE DEF k, j
    <3> QED  BY <2>1 DEF KeyPair
  <2>3. CASE x < 0
    <3>1. M = Memory!Answer(m, "nil", <<>>, -1)
      BY <1>4, <2>3 DEF Memory!DecrementRemainingUses
    <3>2. P = Postgres!Answer(p, "nil", <<>>, -1)
      BY <1>2, <1>4, <2>2, <2>3 DEF Postgres!DecrementRemainingUses
    <3> QED  BY <1>1, <3>1, <3>2, StaysPair, BareAgree DEF Memory!Answer, Postgres!Answer, Answer
  <2>4. CASE x = 0
    <3>1. M = Memory!Refuse(m, "ErrDepleted")
      BY <1>4, <2>4 DEF Memory!DecrementRemainingUses
    <3>2. P = Postgres!Refuse(p, "ErrDepleted")
      BY <1>2, <1>4, <2>2, <2>4 DEF Postgres!DecrementRemainingUses, Postgres!Refuse
    <3> QED  BY <1>1, <3>1, <3>2, RefuseAgree
  <2>5. CASE x > 0
    <3>1. M = Memory!Answer(n, "nil", <<>>, x - 1)
      <4>1. M = Memory!Answer(Memory!Stored(m, "keys", r.id, row), "nil", <<>>, x - 1)
        BY <1>4, <2>2, <2>5 DEF Memory!DecrementRemainingUses
      <4> QED  BY <4>1, StoredForms
    <3>2. P = Postgres!Answer(q, "nil", <<>>, x - 1)
      <4>1. P = Postgres!Answer(Postgres!Stored(p, "keys", r.id, prow), "nil", <<>>, x - 1)
        BY <1>2, <1>4, <2>2, <2>5 DEF Postgres!DecrementRemainingUses
      <4> QED  BY <4>1, StoredForms
    <3> HIDE DEF k, j, x, M, P
    <3>0. x - 1 \in Int /\ "remaining" \in KeyFields /\ "enabled" \in KeyFields
          /\ "updatedAt" \in KeyFields /\ PlainFields("keys") = KeyFields
      BY <2>2 DEF KeyFields, PlainFields
    <3>3. /\ DOMAIN prow = {"plain", "column"} /\ prow.column = j.column
          /\ PlainOK("keys", prow.plain) /\ prow.plain.remaining = x - 1
          /\ prow.plain.updatedAt = Postgres!Micro(r.now)
          /\ \A f \in KeyFields \ {"remaining", "updatedAt"} : prow.plain[f] = j.plain[f]
      <4>1. DOMAIN j = {"plain", "column"} /\ DOMAIN j.plain = KeyFields /\ j.plain.enabled \in BOOLEAN
        BY <2>1 DEF KeyPair
      <4>2. /\ DOMAIN prow = {"plain", "column"} /\ prow.column = j.column
            /\ DOMAIN prow.plain = KeyFields /\ prow.plain.remaining = x - 1
            /\ prow.plain.updatedAt = Postgres!Micro(r.now)
            /\ \A f \in KeyFields \ {"remaining", "updatedAt"} : prow.plain[f] = j.plain[f]
        BY <3>0, <4>1
      <4> HIDE DEF prow
      <4> QED  BY <3>0, <4>1, <4>2 DEF PlainOK
    <3>4. Writes(p, q, "keys", r.id, prow)  BY <2>1, KeyWrites DEF KeyPair
    <3>5. /\ DOMAIN row = {"plain", "ref"} /\ row.ref = k.ref
          /\ PlainOK("keys", row.plain) /\ row.plain.remaining = x - 1
          /\ row.plain.updatedAt = r.now
          /\ \A f \in KeyFields \ {"remaining", "updatedAt"} : row.plain[f] = k.plain[f]
      <4>1. DOMAIN k = {"plain", "ref"} /\ DOMAIN k.plain = KeyFields /\ k.plain.enabled \in BOOLEAN
        BY <2>1 DEF KeyPair
      <4>2. /\ DOMAIN row = {"plain", "ref"} /\ row.ref = k.ref
            /\ DOMAIN row.plain = KeyFields /\ row.plain.remaining = x - 1
            /\ row.plain.updatedAt = r.now
            /\ \A f \in KeyFields \ {"remaining", "updatedAt"} : row.plain[f] = k.plain[f]
        BY <3>0, <4>1
      <4> HIDE DEF row
      <4> QED  BY <3>0, <4>1, <4>2 DEF PlainOK
    <3>6. Writes(m, n, "keys", r.id, row) /\ n.heap = m.heap /\ n.hashIndex = m.hashIndex
      BY <2>1, KeyWrites DEF KeyPair
    <3> HIDE DEF n, row, q, prow
    <3>7. Micro(row.plain.updatedAt) = Micro(prow.plain.updatedAt)
      BY <3>3, <3>5, MicroNow
    <3>8. \A f \in KeyFields :
             IF f \in TimeFields
             THEN \/ Micro(row.plain[f]) = Micro(prow.plain[f])
                  \/ f = "updatedAt" /\ Revoked(row.plain)
             ELSE row.plain[f] = prow.plain[f]
      BY <2>2, <3>3, <3>5, <3>7 DEF FieldsAlike, TimeFields
    <3>9. row.ref = m.keys[r.id].ref /\ prow.column = p.keys[r.id].column
      BY <3>3, <3>5 DEF k, j
    <3>10. Pair(n, q) /\ NewRefs(m, n) /\ Grows(m.heap, n.heap)
      BY <1>4, <3>3, <3>4, <3>5, <3>6, <3>8, <3>9, PlainUpdate
    <3>11. Agree("DecrementRemainingUses", m, Answer(n, "nil", <<>>, x - 1),
                 Answer(q, "nil", <<>>, x - 1))
      BY <1>1, <3>10, BareAgree
    <3>12. M = Answer(n, "nil", <<>>, x - 1) /\ P = Answer(q, "nil", <<>>, x - 1)
      BY <3>1, <3>2 DEF Memory!Answer, Postgres!Answer, Answer
    <3> QED  BY <3>11, <3>12 DEF M, P
  <2> QED  BY <2>2, <2>3, <2>4, <2>5
<1> QED  BY <1>3, <1>4

\* The times agree to the microsecond.
LEMMA TouchLastVerifiedAgree ==
    ASSUME NEW m, NEW p, Pair(m, p), NEW r, NEW s, r.id = s.id, r.arg = s.arg, r.arg \in Nat
    PROVE  Agree("TouchLastVerified", m, Memory!TouchLastVerified(m, r),
                 Postgres!TouchLastVerified(p, s))
<1> DEFINE k == m.keys[r.id]  j == p.keys[r.id]
           at == Alloc(m.heap, [lastVerifiedAt |-> r.arg])
           row == [k EXCEPT !.ref.lastVerifiedAt = at.ref.lastVerifiedAt]
           prow == [j EXCEPT !.column.lastVerifiedAt = Postgres!Micro(r.arg)]
           n == Stored([m EXCEPT !.heap = at.heap], "keys", r.id, row)
           q == Stored(p, "keys", r.id, prow)
           M == Memory!TouchLastVerified(m, r)
           P == Postgres!TouchLastVerified(p, s)
<1>1. "TouchLastVerified" \notin ListOps  BY DEF ListOps
<1>2. DOMAIN m.keys = DOMAIN p.keys  BY DEF Pair, StoresAlike, Tables
<1>3. CASE r.id \notin DOMAIN m.keys
  <2>1. M = Memory!Refuse(m, "ErrNotFound")  BY <1>3 DEF Memory!TouchLastVerified
  <2>2. P = Postgres!Refuse(p, "ErrNotFound")  BY <1>2, <1>3 DEF Postgres!TouchLastVerified
  <2> QED  BY <1>1, <2>1, <2>2, RefuseAgree
<1>4. CASE r.id \in DOMAIN m.keys
  <2>1. KeyPair(m, p, k, j)  BY <1>4, KeyRows
  <2>2. M = Memory!Done(n)
    <3>1. Memory!Alloc(m.heap, [lastVerifiedAt |-> r.arg]) = at  BY DEF Memory!Alloc, Alloc
    <3> HIDE DEF at
    <3>2. M = Memory!Done(Memory!Stored([m EXCEPT !.heap = at.heap], "keys", r.id, row))
      BY <1>4, <3>1 DEF Memory!TouchLastVerified
    <3> QED  BY <3>2, StoredForms
  <2>3. P = Postgres!Done(q)
    <3>1. P = Postgres!Done(Postgres!Stored(p, "keys", r.id, prow))
      BY <1>2, <1>4 DEF Postgres!TouchLastVerified
    <3> QED  BY <3>1, StoredForms
  <2>4. HashOf(m, r.id) = Contents(m.heap, k.ref)["hash"]  BY DEF HashOf
  <2> HIDE DEF k, j, M, P
  <2>5. HeapOK(m.heap) /\ DOMAIN m = StoreFields  BY <2>1 DEF KeyPair
  <2>6. /\ HeapOK(at.heap) /\ Len(m.heap) \in Nat /\ Len(at.heap) = Len(m.heap) + 1
        /\ Grows(m.heap, at.heap) /\ DOMAIN at.ref = {"lastVerifiedAt"} /\ Within(at.heap, at.ref)
        /\ Contents(at.heap, at.ref) = [lastVerifiedAt |-> r.arg]
        /\ at.ref.lastVerifiedAt \in {Nil, Len(m.heap) + 1}
    <3> DEFINE c == [lastVerifiedAt |-> r.arg]
    <3>1. DOMAIN c = {"lastVerifiedAt"} /\ [f \in DOMAIN c |-> c[f]] = c  OBVIOUS
    <3> HIDE DEF c
    <3>2. /\ HeapOK(at.heap) /\ Len(m.heap) \in Nat /\ Len(at.heap) = Len(m.heap) + 1
          /\ Grows(m.heap, at.heap)
          /\ DOMAIN at.ref = DOMAIN c /\ Within(at.heap, at.ref)
          /\ Contents(at.heap, at.ref) = [f \in DOMAIN c |-> c[f]]
          /\ \A f \in DOMAIN c : at.ref[f] \in {Nil, Len(m.heap) + 1}
      BY <2>5, AllocFacts DEF c
    <3> HIDE DEF at
    <3> QED  BY <3>1, <3>2 DEF c
  <2> HIDE DEF at
  <2>7. at.ref.lastVerifiedAt = Len(m.heap) + 1 /\ at.heap[Len(m.heap) + 1].lastVerifiedAt = r.arg
    <3>1. Contents(at.heap, at.ref).lastVerifiedAt = r.arg  BY <2>6
    <3>2. r.arg # Nil  BY NilAssumption
    <3> QED  BY <2>6, <3>1, <3>2 DEF Contents
  <2>8. OnlyHeap(m, [m EXCEPT !.heap = at.heap]) /\ [m EXCEPT !.heap = at.heap].heap = at.heap
    BY <2>5, <2>6, HeapSet
  <2>9. Writes(m, n, "keys", r.id, row) /\ n.heap = at.heap /\ n.hashIndex = m.hashIndex
    <3> DEFINE l == [m EXCEPT !.heap = at.heap]
    <3> HIDE DEF l, row
    <3>1. /\ DOMAIN l = StoreFields /\ HeapOK(l.heap) /\ Grows(m.heap, l.heap)
          /\ \A u \in Tables : l[u] = m[u] /\ l.hashIndex = m.hashIndex /\ l.heap = at.heap
      BY <2>8 DEF OnlyHeap, l
    <3>2. "keys" \in Tables  BY DEF Tables
    <3>3. LET N == Stored(l, "keys", r.id, row) IN
          Writes(m, N, "keys", r.id, row) /\ N.heap = l.heap /\ N.hashIndex = l.hashIndex
      BY <3>1, <3>2, StoredWrites
    <3>4. n = Stored(l, "keys", r.id, row)  BY DEF l
    <3> HIDE DEF n
    <3> QED  BY <3>1, <3>2, <3>3, <3>4
  <2>10. /\ DOMAIN row = {"plain", "ref"} /\ row.plain = k.plain /\ DOMAIN row.ref = KeyRefs
         /\ row.ref.lastVerifiedAt = Len(m.heap) + 1
         /\ \A f \in KeyRefs \ {"lastVerifiedAt"} : row.ref[f] = k.ref[f]
    BY <2>1, <2>7 DEF KeyPair, KeyRefs
  <2>11. /\ DOMAIN prow = {"plain", "column"} /\ prow.plain = j.plain
         /\ DOMAIN prow.column = KeyRefs /\ prow.column.lastVerifiedAt = Postgres!Micro(r.arg)
         /\ \A f \in KeyRefs \ {"lastVerifiedAt"} : prow.column[f] = j.column[f]
    BY <2>1 DEF KeyPair, KeyRefs
  <2>12. Writes(p, q, "keys", r.id, prow)  BY <2>1, KeyWrites DEF KeyPair
  <2> HIDE DEF n, row, q, prow
  <2> DEFINE c == Contents(m.heap, k.ref)  d == Contents(n.heap, row.ref)
  <2>13. Within(n.heap, row.ref)
    <3>1. Within(n.heap, k.ref)
      BY <2>1, <2>5, <2>6, <2>9, HeapLen, GrowsKeeps DEF KeyPair
    <3>2. "lastVerifiedAt" \in DOMAIN n.heap[Len(m.heap) + 1] /\ Len(m.heap) + 1 \in 1 .. Len(n.heap)
      BY <2>6, <2>7, <2>9, NilAssumption DEF Within
    <3> QED  BY <2>1, <2>10, <3>1, <3>2 DEF Within, KeyPair
  <2>14. /\ DOMAIN d = KeyRefs /\ d.lastVerifiedAt = r.arg
         /\ \A f \in KeyRefs \ {"lastVerifiedAt"} : d[f] = c[f]
    <3>1. Contents(n.heap, k.ref) = c
      BY <2>1, <2>5, <2>6, <2>9, HeapLen, GrowsKeeps DEF KeyPair
    <3>2. Len(m.heap) + 1 # Nil  BY <2>6, NilAssumption
    <3>3. DOMAIN k.ref = KeyRefs  BY <2>1 DEF KeyPair
    <3>4. \A f \in KeyRefs \ {"lastVerifiedAt"} : d[f] = Contents(n.heap, k.ref)[f]
      BY <2>10, <3>3 DEF Contents
    <3>5. DOMAIN d = KeyRefs  BY <2>10 DEF Contents
    <3>6. d.lastVerifiedAt = r.arg
      BY <2>7, <2>9, <2>10, <3>2 DEF Contents, KeyRefs
    <3> QED  BY <3>1, <3>4, <3>5, <3>6
  <2>15. d["hash"] = HashOf(m, r.id)
    BY <2>4, <2>14 DEF KeyRefs
  <2>16. /\ FieldsAlike(k.plain, c, j.plain, j.column) /\ DOMAIN c = KeyRefs
         /\ DOMAIN k.plain = KeyFields /\ DOMAIN j.plain = KeyFields
         /\ PlainOK("keys", k.plain) /\ PlainOK("keys", j.plain)
    BY <2>1 DEF KeyPair, PlainOK, PlainFields, Contents
  <2> HIDE DEF c, d
  <2>17. FieldsAlike(row.plain, d, prow.plain, prow.column)
    BY <2>10, <2>11, <2>14, <2>16, MicroNow DEF FieldsAlike, TimeFields
  <2>18. PlainFields("keys") = KeyFields /\ RefFields("keys") = KeyRefs
    BY DEF PlainFields, RefFields
  <2>19. SameFields(View(row.plain, d), View(prow.plain, prow.column))
    BY <2>10, <2>11, <2>14, <2>16, <2>17, <2>18, ViewAlike
  <2>20. RowsAlike(n.heap, row, prow)  BY <2>19 DEF RowsAlike, d
  <2>21. StructKept("keys", n.heap, row) /\ RowKept("keys", prow)
    BY <2>10, <2>11, <2>13, <2>16, <2>18 DEF StructKept, RowKept
  <2>22. \A f \in DOMAIN row.ref :
            \/ row.ref[f] = Nil
            \/ row.ref[f] \in Len(m.heap) + 1 .. Len(n.heap)
            \/ f \in DOMAIN m.keys[r.id].ref /\ row.ref[f] = m.keys[r.id].ref[f]
    <3>1. DOMAIN k.ref = KeyRefs  BY <2>1 DEF KeyPair
    <3> QED  BY <2>6, <2>9, <2>10, <3>1 DEF k
  <2>23. Contents(n.heap, row.ref)["hash"] = HashOf(m, r.id)  BY <2>15 DEF d
  <2>24. Pair(n, q) /\ NewRefs(m, n) /\ Grows(m.heap, n.heap)
    BY <1>4, <2>9, <2>12, <2>20, <2>21, <2>22, <2>23, UpdatePair
  <2> QED  BY <1>1, <2>2, <2>3, <2>24, DoneAgree DEF M, P
<1> QED  BY <1>3, <1>4

\* The index moves with the hash.
LEMMA MovedIndex ==
    ASSUME NEW m, MemoryOK(m), NEW id \in DOMAIN m.keys, NEW new,
           ~(new \in DOMAIN m.hashIndex /\ m.hashIndex[new] # id),
           NEW n, DOMAIN n.keys = DOMAIN m.keys, HashOf(n, id) = new,
           \A i \in DOMAIN m.keys \ {id} : HashOf(n, i) = HashOf(m, i),
           DOMAIN n.hashIndex = (DOMAIN m.hashIndex \ {HashOf(m, id)}) \cup {new},
           \A h \in DOMAIN n.hashIndex : n.hashIndex[h] = IF h = new THEN id ELSE m.hashIndex[h]
    PROVE  Indexed(n)
<1>1. Indexed(m)  BY DEF MemoryOK
<1>2. ASSUME NEW i \in DOMAIN m.keys
      PROVE  HashOf(n, i) \in DOMAIN n.hashIndex /\ n.hashIndex[HashOf(n, i)] = i
  <2>1. CASE i = id  BY <2>1
  <2>2. CASE i # id
    <3>1. /\ HashOf(n, i) = HashOf(m, i) /\ HashOf(m, i) \in DOMAIN m.hashIndex
          /\ m.hashIndex[HashOf(m, i)] = i
      BY <1>1, <2>2 DEF Indexed
    <3>2. HashOf(m, i) # HashOf(m, id) /\ HashOf(m, i) # new  BY <1>1, <2>2, <3>1 DEF Indexed
    <3> QED  BY <3>1, <3>2
  <2> QED  BY <2>1, <2>2
<1>3. ASSUME NEW h \in DOMAIN n.hashIndex
      PROVE  n.hashIndex[h] \in DOMAIN m.keys /\ HashOf(n, n.hashIndex[h]) = h
  <2>1. CASE h = new  BY <2>1
  <2>2. CASE h # new
    <3>1. /\ h \in DOMAIN m.hashIndex /\ h # HashOf(m, id) /\ n.hashIndex[h] = m.hashIndex[h]
      BY <2>2
    <3>2. m.hashIndex[h] \in DOMAIN m.keys /\ HashOf(m, m.hashIndex[h]) = h
      BY <1>1, <3>1 DEF Indexed
    <3>3. m.hashIndex[h] # id  BY <3>1, <3>2
    <3> QED  BY <3>1, <3>2, <3>3
  <2> QED  BY <2>1, <2>2
<1> QED  BY <1>2, <1>3 DEF Indexed

\* One reference of a key leads to a new block.
LEMMA OneRef ==
    ASSUME NEW h, NEW g, HeapOK(h), HeapOK(g), Grows(h, g), NEW old, Within(h, old),
           NEW new, DOMAIN new = DOMAIN old, NEW f \in DOMAIN old,
           \A e \in DOMAIN old \ {f} : new[e] = old[e],
           new[f] = Nil \/ (new[f] \in 1 .. Len(g) /\ f \in DOMAIN g[new[f]])
    PROVE  /\ Within(g, new) /\ DOMAIN Contents(g, new) = DOMAIN old
           /\ Contents(g, new)[f] = IF new[f] = Nil THEN Nil ELSE g[new[f]][f]
           /\ \A e \in DOMAIN old \ {f} : Contents(g, new)[e] = Contents(h, old)[e]
<1>1. Len(h) \in Nat /\ Len(g) \in Nat  BY HeapLen
<1>2. Within(g, old) /\ Contents(g, old) = Contents(h, old)  BY <1>1, GrowsKeeps
<1>3. Within(g, new)  BY <1>2 DEF Within
<1>4. /\ DOMAIN Contents(g, new) = DOMAIN old
      /\ Contents(g, new)[f] = IF new[f] = Nil THEN Nil ELSE g[new[f]][f]
      /\ \A e \in DOMAIN old \ {f} : Contents(g, new)[e] = Contents(g, old)[e]
  BY DEF Contents
<1> QED  BY <1>2, <1>3, <1>4

LEMMA RotateKeyAgree ==
    ASSUME NEW m, NEW p, Pair(m, p), NEW r, NEW s, r.id = s.id, r.now = s.now, r.now \in Nat,
           DOMAIN r.v.ref = {"hash"}, Within(m.heap, r.v.ref),
           Contents(m.heap, r.v.ref) = Contents(p.heap, s.v.ref)
    PROVE  Agree("RotateKey", m, Memory!RotateKey(m, r), Postgres!RotateKey(p, s))
<1> DEFINE k == m.keys[r.id]  j == p.keys[r.id]
           new == Contents(m.heap, r.v.ref).hash
           copy == Alloc(m.heap, Contents(m.heap, r.v.ref))
           rest == [h \in DOMAIN m.hashIndex \ {Contents(m.heap, k.ref).hash} |-> m.hashIndex[h]]
           row == [k EXCEPT !.ref.hash = copy.ref.hash, !.plain.updatedAt = r.now]
           prow == [j EXCEPT !.column.hash = new, !.plain.updatedAt = Postgres!Micro(r.now)]
           l == [m EXCEPT !.hashIndex = Put(rest, new, r.id), !.heap = copy.heap]
           n == Stored(l, "keys", r.id, row)
           q == Stored(p, "keys", r.id, prow)
           M == Memory!RotateKey(m, r)
           P == Postgres!RotateKey(p, s)
           conflict == new \in DOMAIN m.hashIndex /\ m.hashIndex[new] # r.id
<1>1. "RotateKey" \notin ListOps /\ "RotateKey" \notin ListOps \cup {"DecrementRemainingUses"}
  BY DEF ListOps
<1>2. DOMAIN m.keys = DOMAIN p.keys  BY DEF Pair, StoresAlike, Tables
<1>3. CASE r.id \notin DOMAIN m.keys
  <2>1. M = Memory!Refuse(m, "ErrNotFound")  BY <1>3 DEF Memory!RotateKey
  <2>2. P = Postgres!Refuse(p, "ErrNotFound")
    <3>1. Postgres!Existing(p, "keys", s.id) = {}  BY <1>2, <1>3 DEF Postgres!Existing
    <3>2. P = Postgres!GetKeyByID(p, s)  BY <1>2, <1>3 DEF Postgres!RotateKey
    <3> QED  BY <3>1, <3>2 DEF Postgres!GetKeyByID, Postgres!Select
  <2> QED  BY <1>1, <2>1, <2>2, RefuseAgree
<1>4. Memory!Contents(m.heap, r.v.ref) = Contents(m.heap, r.v.ref)
      /\ Memory!Contents(m.heap, k.ref) = Contents(m.heap, k.ref)
      /\ Postgres!Contents(p.heap, s.v.ref) = Contents(p.heap, s.v.ref)
  BY DEF Memory!Contents, Postgres!Contents, Contents
<1>5. Postgres!isUniqueViolation(p, s.id, new) <=> conflict
  BY IndexesAlike DEF Postgres!isUniqueViolation
<1>6. CASE r.id \in DOMAIN m.keys /\ conflict
  <2>1. M = Memory!Refuse(m, "ErrConflict")  BY <1>4, <1>6 DEF Memory!RotateKey
  <2>2. P = Postgres!Refuse(p, "ErrConflict")
    BY <1>2, <1>4, <1>5, <1>6 DEF Postgres!RotateKey
  <2> QED  BY <1>1, <2>1, <2>2, RefuseAgree
<1>7. CASE r.id \in DOMAIN m.keys /\ ~conflict
  <2>1. KeyPair(m, p, k, j)  BY <1>7, KeyRows
  <2>2. M = Memory!Get(n, "keys", r.id)
    <3>1. Memory!CopiedHash(m.heap, r.v.ref) = copy
      BY <1>4 DEF Memory!CopiedHash, Memory!Alloc, Alloc
    <3>2. Memory!Put(rest, new, r.id) = Put(rest, new, r.id)  BY DEF Memory!Put, Put
    <3> HIDE DEF copy
    <3>3. M = Memory!Get(Memory!Stored([m EXCEPT !.hashIndex = Memory!Put(rest, new, r.id),
                                                 !.heap = copy.heap], "keys", r.id, row),
                         "keys", r.id)
      BY <1>4, <1>7, <3>1 DEF Memory!RotateKey
    <3>4. M = Memory!Get(Memory!Stored(l, "keys", r.id, row), "keys", r.id)  BY <3>2, <3>3
    <3> HIDE DEF l, row, M
    <3> QED  BY <3>4, StoredForms
  <2>3. P = Postgres!Select(q, "keys", Postgres!Existing(q, "keys", r.id))
    <3>1. P = Postgres!GetKeyByID(Postgres!Stored(p, "keys", r.id, prow), s)
      BY <1>2, <1>4, <1>5, <1>7 DEF Postgres!RotateKey
    <3> QED  BY <3>1, StoredForms DEF Postgres!GetKeyByID
  <2>4. HashOf(m, r.id) = Contents(m.heap, k.ref).hash  BY DEF HashOf
  <2>5. ~conflict  BY <1>7
  <2> HIDE DEF k, j, M, P
  <2>6. HeapOK(m.heap) /\ DOMAIN m = StoreFields /\ MemoryOK(m)  BY <2>1 DEF KeyPair, Pair
  <2> DEFINE lit == Contents(m.heap, r.v.ref)
  <2>7. DOMAIN lit = {"hash"} /\ [f \in DOMAIN lit |-> lit[f]] = lit  BY DEF Contents
  <2>8. /\ HeapOK(copy.heap) /\ Len(m.heap) \in Nat /\ Len(copy.heap) = Len(m.heap) + 1
        /\ Grows(m.heap, copy.heap) /\ DOMAIN copy.ref = {"hash"}
        /\ Within(copy.heap, copy.ref) /\ Contents(copy.heap, copy.ref) = lit
        /\ copy.ref.hash \in {Nil, Len(m.heap) + 1}
    <3> HIDE DEF lit
    <3>1. /\ HeapOK(copy.heap) /\ Len(m.heap) \in Nat /\ Len(copy.heap) = Len(m.heap) + 1
          /\ Grows(m.heap, copy.heap)
          /\ DOMAIN copy.ref = DOMAIN lit /\ Within(copy.heap, copy.ref)
          /\ Contents(copy.heap, copy.ref) = [f \in DOMAIN lit |-> lit[f]]
          /\ \A f \in DOMAIN lit : copy.ref[f] \in {Nil, Len(m.heap) + 1}
      BY <2>6, AllocFacts DEF lit
    <3> HIDE DEF copy
    <3> QED  BY <2>7, <3>1
  <2> HIDE DEF copy
  <2>9. /\ copy.ref.hash = Nil
           \/ (copy.ref.hash \in 1 .. Len(copy.heap) /\ "hash" \in DOMAIN copy.heap[copy.ref.hash])
        /\ new = IF copy.ref.hash = Nil THEN Nil ELSE copy.heap[copy.ref.hash].hash
    <3>1. new = Contents(copy.heap, copy.ref).hash  BY <2>8
    <3> QED  BY <2>8, <3>1 DEF Contents, Within
  <2>10. /\ DOMAIN l = StoreFields /\ l.heap = copy.heap /\ l.hashIndex = Put(rest, new, r.id)
         /\ \A u \in Tables : l[u] = m[u]
    BY <2>6 DEF StoreFields, Tables
  <2>11. /\ DOMAIN row = {"plain", "ref"} /\ DOMAIN row.ref = KeyRefs
         /\ row.ref.hash = copy.ref.hash
         /\ \A f \in KeyRefs \ {"hash"} : row.ref[f] = k.ref[f]
         /\ DOMAIN row.plain = KeyFields /\ row.plain.updatedAt = r.now
         /\ \A f \in KeyFields \ {"updatedAt"} : row.plain[f] = k.plain[f]
    BY <2>1 DEF KeyPair, KeyRefs, KeyFields
  <2>12. /\ DOMAIN prow = {"plain", "column"} /\ DOMAIN prow.column = KeyRefs
         /\ prow.column.hash = new
         /\ \A f \in KeyRefs \ {"hash"} : prow.column[f] = j.column[f]
         /\ DOMAIN prow.plain = KeyFields /\ prow.plain.updatedAt = Postgres!Micro(r.now)
         /\ \A f \in KeyFields \ {"updatedAt"} : prow.plain[f] = j.plain[f]
    <3> HIDE DEF new
    <3> QED  BY <2>1 DEF KeyPair, KeyRefs, KeyFields
  <2>13. Writes(p, q, "keys", r.id, prow)  BY <2>1, KeyWrites DEF KeyPair
  <2> HIDE DEF row, prow, q
  <2>14. Writes(m, n, "keys", r.id, row) /\ n.heap = copy.heap /\ n.hashIndex = Put(rest, new, r.id)
    <3> HIDE DEF l
    <3>1. "keys" \in Tables  BY DEF Tables
    <3> QED  BY <2>8, <2>10, <3>1, StoredWrites
  <2> HIDE DEF n, l
  <2> DEFINE c == Contents(m.heap, k.ref)  d == Contents(n.heap, row.ref)
  <2>15. /\ Within(n.heap, row.ref) /\ DOMAIN d = KeyRefs /\ d.hash = new
         /\ \A f \in KeyRefs \ {"hash"} : d[f] = c[f]
    <3>1. DOMAIN k.ref = KeyRefs /\ Within(m.heap, k.ref) /\ "hash" \in KeyRefs
      BY <2>1 DEF KeyPair, KeyRefs
    <3> QED  BY <2>6, <2>8, <2>9, <2>11, <2>14, <3>1, OneRef
  <2>16. /\ FieldsAlike(k.plain, c, j.plain, j.column) /\ DOMAIN c = KeyRefs
         /\ DOMAIN k.plain = KeyFields /\ DOMAIN j.plain = KeyFields
         /\ k.plain.remaining \in Int /\ k.plain.enabled \in BOOLEAN
         /\ j.plain.remaining \in Int /\ j.plain.enabled \in BOOLEAN
    BY <2>1 DEF KeyPair, Contents
  <2>17. PlainFields("keys") = KeyFields /\ RefFields("keys") = KeyRefs
    BY DEF PlainFields, RefFields
  <2>18. PlainOK("keys", row.plain) /\ PlainOK("keys", prow.plain)
    BY <2>11, <2>12, <2>16, <2>17 DEF PlainOK, KeyFields
  <2>19. HashOf(n, r.id) = new
    BY <1>7, <2>14, <2>15 DEF HashOf, Writes
  <2>20. RowsAlike(n.heap, row, prow)
    <3> HIDE DEF c, d, new
    <3>1. Micro(row.plain.updatedAt) = Micro(prow.plain.updatedAt)
      BY <2>11, <2>12, MicroNow
    <3>2. FieldsAlike(row.plain, d, prow.plain, prow.column)
      <4>1. Revoked(row.plain) <=> Revoked(k.plain)  BY <2>11, <2>16 DEF Revoked, KeyFields
      <4> QED  BY <2>11, <2>12, <2>15, <2>16, <3>1, <4>1 DEF FieldsAlike, TimeFields
    <3>3. SameFields(View(row.plain, d), View(prow.plain, prow.column))
      BY <2>11, <2>12, <2>15, <2>16, <2>17, <3>2, ViewAlike
    <3> QED  BY <3>3 DEF RowsAlike, d
  <2>21. StructKept("keys", n.heap, row) /\ RowKept("keys", prow)
    BY <2>11, <2>12, <2>15, <2>17, <2>18 DEF StructKept, RowKept
  <2>22. Indexed(n)
    <3>1. DOMAIN n.keys = DOMAIN m.keys  BY <1>7, <2>14 DEF Writes
    <3>2. ASSUME NEW i \in DOMAIN m.keys \ {r.id} PROVE HashOf(n, i) = HashOf(m, i)
      <4>1. StructKept("keys", m.heap, m.keys[i])  BY <2>6 DEF MemoryOK, Tables
      <4>2. Contents(n.heap, m.keys[i].ref) = Contents(m.heap, m.keys[i].ref)
        BY <2>6, <2>8, <2>14, <4>1, KeptGrows
      <4>3. n.keys[i] = m.keys[i]  BY <2>14 DEF Writes
      <4> QED  BY <4>2, <4>3 DEF HashOf
    <3>3. /\ DOMAIN n.hashIndex = (DOMAIN m.hashIndex \ {HashOf(m, r.id)}) \cup {new}
          /\ \A h \in DOMAIN n.hashIndex :
                n.hashIndex[h] = IF h = new THEN r.id ELSE m.hashIndex[h]
      <4> HIDE DEF new
      <4>1. DOMAIN rest = DOMAIN m.hashIndex \ {HashOf(m, r.id)}
            /\ \A h \in DOMAIN rest : rest[h] = m.hashIndex[h]
        BY <2>4
      <4> HIDE DEF rest
      <4> QED  BY <2>14, <4>1 DEF Put
    <3> HIDE DEF new
    <3> QED  BY <1>7, <2>5, <2>6, <2>19, <3>1, <3>2, <3>3, MovedIndex
  <2>23. \A f \in DOMAIN row.ref :
            \/ row.ref[f] = Nil
            \/ row.ref[f] \in Len(m.heap) + 1 .. Len(n.heap)
            \/ /\ r.id \in DOMAIN m["keys"] /\ f \in DOMAIN m["keys"][r.id].ref
               /\ row.ref[f] = m["keys"][r.id].ref[f]
    <3>1. DOMAIN k.ref = KeyRefs  BY <2>1 DEF KeyPair
    <3> QED  BY <1>7, <2>8, <2>11, <2>14, <3>1 DEF k
  <2>24. "keys" \in Tables /\ "keys" # "apis"  BY DEF Tables
  <2>25. Pair(n, q)
    BY <2>13, <2>14, <2>20, <2>21, <2>22, <2>24, WritesPair
  <2>26. NewRefs(m, n)  BY <2>14, <2>23, <2>24, WritesRefs, Zenon
  <2>27. Agree("RotateKey", n, M, P)  BY <1>1, <2>2, <2>3, <2>24, <2>25, GetAgree
  <2>28. HeapOK(n.heap) /\ Grows(m.heap, n.heap)  BY <2>8, <2>14
  <2> QED  BY <2>6, <2>26, <2>27, <2>28, AgreeAfter DEF M, P
<1> QED  BY <1>3, <1>6, <1>7

-----------------------------------------------------------------------------
(* Creations.                                                               *)

LEMMA WrittenFields ==
    /\ \A f, c : f \notin TimeFields \cup {"permissions", "metadata"} => Postgres!Written(f, c) = c
    /\ \A f, c : f \notin TimeFields => Seen(f, Postgres!Written(f, c)) = Seen(f, c)
    /\ \A f \in TimeFields : \A c \in Nat \cup {Nil} : Micro(Postgres!Written(f, c)) = Micro(c)
<1>1. \A f, c : f \notin TimeFields \cup {"permissions", "metadata"} => Postgres!Written(f, c) = c
  BY DEF Postgres!Written, Postgres!Times, TimeFields
<1>2. ASSUME NEW f, NEW c, f \notin TimeFields PROVE Seen(f, Postgres!Written(f, c)) = Seen(f, c)
  <2>1. CASE f = "permissions"
    <3>1. Postgres!Written(f, c) = IF c = Nil THEN Empty.permissions ELSE c
      BY <2>1 DEF Postgres!Written, Postgres!Times, Postgres!nonNilStrings, Postgres!Empty, Empty
    <3> QED  BY <2>1, <3>1 DEF Seen, Empty
  <2>2. CASE f = "metadata"
    <3>1. Postgres!Written(f, c) = IF c = Nil THEN Empty.metadata ELSE c
      BY <2>2 DEF Postgres!Written, Postgres!Times, Postgres!marshalMetadata, Postgres!Empty, Empty
    <3> QED  BY <2>2, <3>1 DEF Seen, Empty
  <2>3. CASE f \notin {"permissions", "metadata"}
    <3>1. Postgres!Written(f, c) = c  BY <1>1, <1>2, <2>3
    <3> QED  BY <3>1
  <2> QED  BY <2>1, <2>2, <2>3
<1>3. ASSUME NEW f \in TimeFields, NEW c \in Nat \cup {Nil}
      PROVE  Micro(Postgres!Written(f, c)) = Micro(c)
  <2>1. Postgres!Written(f, c) = Postgres!Micro(c)
    BY DEF Postgres!Written, Postgres!Times, TimeFields
  <2> QED  BY <2>1, MicroNow
<1> QED  BY <1>1, <1>2, <1>3

\* A row reads as what was written to it.
LEMMA WrittenAlike ==
    ASSUME NEW t \in Tables, NEW plain, PlainOK(t, plain),
           plain.createdAt \in Nat, plain.updatedAt \in Nat,
           NEW c, DOMAIN c = RefFields(t),
           \A f \in RefFields(t) \cap TimeFields : c[f] \in Nat \cup {Nil}
    PROVE  LET row == Postgres!Row(plain, c) IN
           RowKept(t, row) /\ SameFields(View(plain, c), View(row.plain, row.column))
<1> DEFINE row == Postgres!Row(plain, c)
<1>1. DOMAIN plain = PlainFields(t)  BY DEF PlainOK
<1>2. /\ DOMAIN row = {"plain", "column"}
      /\ DOMAIN row.plain = PlainFields(t) /\ DOMAIN row.column = RefFields(t)
      /\ \A f \in PlainFields(t) : row.plain[f] = Postgres!Written(f, plain[f])
      /\ \A f \in RefFields(t) : row.column[f] = Postgres!Written(f, c[f])
  BY <1>1 DEF Postgres!Row
<1> HIDE DEF row
<1>3. \A f \in PlainFields(t) : f \notin {"permissions", "metadata", "expiresAt", "lastVerifiedAt"}
  BY DEF PlainFields, WorkspaceFields, APIFields, KeyFields
<1>4. PlainOK(t, row.plain)
  <2>1. t = "keys" => row.plain.remaining = plain.remaining /\ row.plain.enabled = plain.enabled
    BY <1>2, WrittenFields DEF TimeFields, PlainFields, KeyFields
  <2> QED  BY <1>2, <2>1 DEF PlainOK
<1>5. RowKept(t, row)  BY <1>2, <1>4 DEF RowKept
<1>6. \A f \in DOMAIN plain :
         IF f \in TimeFields THEN Micro(plain[f]) = Micro(row.plain[f])
         ELSE plain[f] = row.plain[f]
  <2> SUFFICES ASSUME NEW f \in PlainFields(t)
               PROVE  IF f \in TimeFields THEN Micro(plain[f]) = Micro(row.plain[f])
                      ELSE plain[f] = row.plain[f]
    BY <1>1
  <2>1. CASE f \in TimeFields
    <3>1. plain[f] \in Nat \cup {Nil}  BY <1>3, <2>1 DEF TimeFields
    <3> QED  BY <1>2, <2>1, <3>1, WrittenFields
  <2>2. CASE f \notin TimeFields  BY <1>2, <1>3, <2>2, WrittenFields
  <2> QED  BY <2>1, <2>2
<1>7. \A f \in DOMAIN c :
         IF f \in TimeFields THEN Micro(c[f]) = Micro(row.column[f])
         ELSE Seen(f, c[f]) = Seen(f, row.column[f])
  BY <1>2, WrittenFields
<1>8. FieldsAlike(plain, c, row.plain, row.column)  BY <1>6, <1>7 DEF FieldsAlike
<1>9. SameFields(View(plain, c), View(row.plain, row.column))  BY <1>1, <1>2, <1>8, ViewAlike
<1> QED  BY <1>5, <1>9 DEF row

\* A clone: a block of its own that looks like the original.
CloneOf(h, ref, plain, g) ==
    /\ HeapOK(g.heap) /\ Len(h) \in Nat /\ Len(g.heap) = Len(h) + 1 /\ Grows(h, g.heap)
    /\ DOMAIN g.ref = DOMAIN ref /\ Within(g.heap, g.ref)
    /\ \A f \in DOMAIN ref : g.ref[f] \in {Nil, Len(h) + 1}
    /\ Contents(g.heap, g.ref) = Memory!Copy(h, ref)
    /\ View(plain, Contents(g.heap, g.ref)) = View(plain, Contents(h, ref))

LEMMA CloneFacts ==
    ASSUME NEW h, HeapOK(h), NEW ref, NEW plain
    PROVE  CloneOf(h, ref, plain, Memory!cloneKey(h, ref))
<1> DEFINE c == Memory!Copy(h, ref)  g == Alloc(h, c)
<1>1. /\ DOMAIN c = DOMAIN ref /\ [f \in DOMAIN ref |-> c[f]] = c
      /\ View(plain, c) = View(plain, Contents(h, ref))
  BY CopyView
<1> HIDE DEF c
<1>2. /\ HeapOK(g.heap) /\ Len(h) \in Nat /\ Len(g.heap) = Len(h) + 1 /\ Grows(h, g.heap)
      /\ DOMAIN g.ref = DOMAIN c /\ Within(g.heap, g.ref)
      /\ Contents(g.heap, g.ref) = [f \in DOMAIN c |-> c[f]]
      /\ \A f \in DOMAIN c : g.ref[f] \in {Nil, Len(h) + 1}
  BY AllocFacts
<1>3. Memory!cloneKey(h, ref) = g  BY MemoryClone DEF c
<1> HIDE DEF g
<1>4. /\ HeapOK(g.heap) /\ Len(h) \in Nat /\ Len(g.heap) = Len(h) + 1 /\ Grows(h, g.heap)
      /\ DOMAIN g.ref = DOMAIN ref /\ Within(g.heap, g.ref)
      /\ \A f \in DOMAIN ref : g.ref[f] \in {Nil, Len(h) + 1}
      /\ Contents(g.heap, g.ref) = c
      /\ View(plain, Contents(g.heap, g.ref)) = View(plain, Contents(h, ref))
  BY <1>1, <1>2
<1> QED  BY <1>3, <1>4 DEF CloneOf, c

\* memory keeps a copy and gives away another.
Cloned(m, n, r, plain, row, v) ==
    /\ HeapOK(n.heap) /\ Len(m.heap) \in Nat /\ Len(n.heap) = Len(m.heap) + 2
    /\ DOMAIN row = {"plain", "ref"} /\ row.plain = plain /\ v.plain = plain
    /\ DOMAIN row.ref = DOMAIN r.v.ref /\ DOMAIN v.ref = DOMAIN r.v.ref
    /\ Within(n.heap, row.ref)
    /\ \A f \in DOMAIN row.ref : row.ref[f] \in {Nil, Len(m.heap) + 1}
    /\ \A f \in DOMAIN v.ref : v.ref[f] \in {Nil, Len(m.heap) + 2}
    /\ Contents(n.heap, row.ref) = Memory!Copy(m.heap, r.v.ref)
    /\ View(plain, Contents(n.heap, row.ref)) = View(plain, Contents(m.heap, r.v.ref))
    /\ View(plain, Contents(n.heap, v.ref)) = View(plain, Contents(m.heap, r.v.ref))

LEMMA CreateForm ==
    ASSUME NEW m, HeapOK(m.heap), NEW l, DOMAIN l = StoreFields, l.heap = m.heap,
           \A u \in Tables : l[u] = m[u], NEW t \in Tables, NEW r
    PROVE  \E n, row, v :
              /\ Memory!Create(l, t, r) = Give(n, v)
              /\ Writes(m, n, t, r.id, row) /\ n.hashIndex = l.hashIndex
              /\ Cloned(m, n, r, Stamped([r.v.plain EXCEPT !.id = r.id], r.now), row, v)
<1> DEFINE plain == Stamped([r.v.plain EXCEPT !.id = r.id], r.now)
           kept == Memory!cloneKey(m.heap, r.v.ref)
           given == Memory!cloneKey(kept.heap, kept.ref)
           row == [plain |-> plain, ref |-> kept.ref]
           v == [plain |-> plain, ref |-> given.ref]
           k == [l EXCEPT !.heap = given.heap]
           n == Stored(k, t, r.id, row)
<1>1. Memory!Create(l, t, r) = Give(n, v)
  <2>1. Memory!Stamped([r.v.plain EXCEPT !.id = r.id], r.now) = plain
    BY DEF Memory!Stamped, Stamped
  <2> HIDE DEF plain
  <2>2. Memory!Create(l, t, r) = Memory!Give(Memory!Stored(k, t, r.id, row), v)
    BY <2>1 DEF Memory!Create
  <2> HIDE DEF k, row, v
  <2>3. Memory!Create(l, t, r) = Memory!Give(n, v)  BY <2>2, StoredForms
  <2> QED  BY <2>3 DEF Memory!Give, Memory!Answer, Give, Answer
<1> HIDE DEF plain
<1>2. CloneOf(m.heap, r.v.ref, plain, kept)  BY CloneFacts
<1> HIDE DEF kept
<1>3. CloneOf(kept.heap, kept.ref, plain, given)
  <2>1. HeapOK(kept.heap)  BY <1>2 DEF CloneOf
  <2> QED  BY <2>1, CloneFacts
<1> HIDE DEF given
<1>4. Len(kept.heap) \in Nat /\ Len(given.heap) \in Nat  BY <1>2, <1>3 DEF CloneOf
<1>5. Within(given.heap, kept.ref)
      /\ Contents(given.heap, kept.ref) = Contents(kept.heap, kept.ref)
  BY <1>2, <1>3, <1>4, GrowsKeeps DEF CloneOf
<1>6. Grows(m.heap, given.heap)  BY <1>2, <1>3, GrowsTrans DEF CloneOf
<1>7. OnlyHeap(l, k) /\ k.heap = given.heap  BY <1>3, <1>6, HeapSet DEF CloneOf
<1>8. Writes(m, n, t, r.id, row) /\ n.heap = given.heap /\ n.hashIndex = l.hashIndex
  <2> HIDE DEF row
  <2>1. /\ DOMAIN k = StoreFields /\ HeapOK(k.heap) /\ Grows(m.heap, k.heap)
        /\ (\A u \in Tables : k[u] = m[u]) /\ k.hashIndex = l.hashIndex
    BY <1>3, <1>6, <1>7 DEF OnlyHeap, CloneOf
  <2> HIDE DEF k
  <2> QED  BY <1>7, <2>1, StoredWrites
<1>9. DOMAIN row = {"plain", "ref"} /\ row.plain = plain /\ row.ref = kept.ref
      /\ v.plain = plain /\ v.ref = given.ref
  OBVIOUS
<1> HIDE DEF n, row, v, k
<1>10. Cloned(m, n, r, plain, row, v)
  <2>1. Len(given.heap) = Len(m.heap) + 2  BY <1>2, <1>3 DEF CloneOf
  <2>2. Len(kept.heap) + 1 = Len(m.heap) + 2  BY <1>2 DEF CloneOf
  <2> QED  BY <1>2, <1>3, <1>5, <1>8, <1>9, <2>1, <2>2 DEF Cloned, CloneOf
<1> QED  BY <1>1, <1>8, <1>10 DEF plain

\* A new hash is added to the index.
LEMMA AddedIndex ==
    ASSUME NEW m, MemoryOK(m), NEW id, id \notin DOMAIN m.keys, NEW hash,
           hash \notin DOMAIN m.hashIndex,
           NEW n, DOMAIN n.keys = DOMAIN m.keys \cup {id}, HashOf(n, id) = hash,
           \A i \in DOMAIN m.keys : HashOf(n, i) = HashOf(m, i),
           DOMAIN n.hashIndex = DOMAIN m.hashIndex \cup {hash},
           \A h \in DOMAIN n.hashIndex : n.hashIndex[h] = IF h = hash THEN id ELSE m.hashIndex[h]
    PROVE  Indexed(n)
<1>1. Indexed(m)  BY DEF MemoryOK
<1> QED  BY <1>1 DEF Indexed

\* What a creation adds to the tables.
Adds(m, n, t, id) ==
    \A u \in Tables : DOMAIN n[u] = IF u = t THEN DOMAIN m[u] \cup {id} ELSE DOMAIN m[u]

\* The index memory leaves after one.
IndexAfter(m, index, t, id, hash) ==
    IF t = "keys"
    THEN /\ hash \notin DOMAIN m.hashIndex
         /\ DOMAIN index = DOMAIN m.hashIndex \cup {hash}
         /\ \A h \in DOMAIN index : index[h] = IF h = hash THEN id ELSE m.hashIndex[h]
    ELSE index = m.hashIndex

\* The same struct is passed to both drivers.
SameStruct(m, p, r, s, t) ==
    /\ r.id = s.id /\ r.now = s.now /\ r.now \in Nat /\ r.v.plain = s.v.plain
    /\ PlainOK(t, r.v.plain) /\ DOMAIN r.v.ref = RefFields(t)
    /\ Within(m.heap, r.v.ref) /\ Contents(m.heap, r.v.ref) = Contents(p.heap, s.v.ref)
    /\ \A f \in RefFields(t) \cap TimeFields :
          Contents(m.heap, r.v.ref)[f] \in Nat \cup {Nil}

LEMMA CreateAgree ==
    ASSUME NEW m, NEW p, Pair(m, p), NEW t \in Tables, NEW r, NEW s, SameStruct(m, p, r, s, t),
           t = "keys" => r.id \notin DOMAIN m.keys,
           t = "apis" => r.v.plain.workspace \in DOMAIN m.workspaces,
           NEW l, DOMAIN l = StoreFields, l.heap = m.heap, \A u \in Tables : l[u] = m[u],
           IndexAfter(m, l.hashIndex, t, r.id, Contents(m.heap, r.v.ref)["hash"]),
           NEW op, op \notin ListOps \cup {"DecrementRemainingUses"}
    PROVE  /\ Agree(op, m, Memory!Create(l, t, r), Postgres!Insert(p, t, s))
           /\ Memory!Create(l, t, r).err = "nil"
           /\ Adds(m, Memory!Create(l, t, r).s, t, r.id)
<1> DEFINE plain == Stamped([r.v.plain EXCEPT !.id = r.id], r.now)
           c == Contents(m.heap, r.v.ref)
           prow == Postgres!Row(plain, c)
           q == Stored(p, t, r.id, prow)  w == [plain |-> plain, ref |-> s.v.ref]
<1>1. /\ MemoryOK(m) /\ PostgresOK(p) /\ HeapOK(m.heap) /\ HeapOK(p.heap)
      /\ DOMAIN p = StoreFields
  BY DEF Pair, MemoryOK, PostgresOK
<1>2. PICK n, row, v :
         /\ Memory!Create(l, t, r) = Give(n, v)
         /\ Writes(m, n, t, r.id, row) /\ n.hashIndex = l.hashIndex
         /\ Cloned(m, n, r, plain, row, v)
  BY <1>1, CreateForm
<1>3. Postgres!Insert(p, t, s) = Give(q, w)
  <2>1. Postgres!Stamped([s.v.plain EXCEPT !.id = s.id], s.now) = plain
    BY DEF Postgres!Stamped, Stamped, SameStruct
  <2>2. Postgres!Contents(p.heap, s.v.ref) = c
    BY DEF Postgres!Contents, Contents, SameStruct
  <2>3. s.id = r.id  BY DEF SameStruct
  <2> HIDE DEF plain, c
  <2>4. Postgres!Insert(p, t, s) = Postgres!Give(Postgres!Stored(p, t, r.id, prow), w)
    BY <2>1, <2>2, <2>3 DEF Postgres!Insert
  <2> HIDE DEF prow, w
  <2> QED  BY <2>4, StoredForms DEF Postgres!Give, Postgres!Answer, Give, Answer
<1>4. /\ PlainOK(t, plain) /\ plain.createdAt \in Nat /\ plain.updatedAt \in Nat
      /\ t = "apis" => plain.workspace = r.v.plain.workspace
  <2>1. PlainOK(t, r.v.plain) /\ r.now \in Nat  BY DEF SameStruct
  <2>2. DOMAIN r.v.plain = PlainFields(t)  BY <2>1 DEF PlainOK
  <2> DEFINE g == [r.v.plain EXCEPT !.id = r.id]
  <2>3. DOMAIN g = PlainFields(t) /\ \A f \in PlainFields(t) \ {"id"} : g[f] = r.v.plain[f]
    BY <2>2
  <2> HIDE DEF g
  <2>4. /\ DOMAIN plain = PlainFields(t) /\ plain.createdAt = r.now /\ plain.updatedAt = r.now
        /\ \A f \in PlainFields(t) \ {"createdAt", "updatedAt"} : plain[f] = g[f]
    BY <2>3, FieldNames DEF Stamped, g
  <2>5. t = "keys" => plain.remaining = r.v.plain.remaining /\ plain.enabled = r.v.plain.enabled
    BY <2>3, <2>4 DEF PlainFields, KeyFields
  <2>6. t = "apis" => plain.workspace = r.v.plain.workspace
    BY <2>3, <2>4 DEF PlainFields, APIFields
  <2> HIDE DEF plain
  <2> QED  BY <2>1, <2>4, <2>5, <2>6 DEF PlainOK
<1> HIDE DEF plain
<1>5. DOMAIN c = RefFields(t)  BY DEF SameStruct, Contents
<1>6. \A f \in RefFields(t) \cap TimeFields : c[f] \in Nat \cup {Nil}  BY DEF SameStruct
<1>7. RowKept(t, prow) /\ SameFields(View(plain, c), View(prow.plain, prow.column))
  <2> HIDE DEF c
  <2> QED  BY <1>4, <1>5, <1>6, WrittenAlike
<1>8. Writes(p, q, t, r.id, prow) /\ q.heap = p.heap
  <2>1. Grows(p.heap, p.heap)  BY <1>1, HeapLen DEF Grows
  <2> HIDE DEF prow
  <2> QED  BY <1>1, <2>1, StoredWrites
<1>9. w.plain = plain /\ w.ref = s.v.ref  OBVIOUS
<1> HIDE DEF prow, q, w
<1>10. StructKept(t, n.heap, row)
  BY <1>2, <1>4 DEF Cloned, StructKept, SameStruct
<1>11. RowsAlike(n.heap, row, prow)
  <2>1. View(row.plain, Contents(n.heap, row.ref)) = View(plain, c)  BY <1>2 DEF Cloned
  <2> QED  BY <1>7, <2>1 DEF RowsAlike
<1>12. Grows(m.heap, n.heap) /\ HeapOK(n.heap)  BY <1>2 DEF Writes
<1>13. Indexed(n)
  <2>1. CASE t # "keys"
    <3>1. n.hashIndex = m.hashIndex  BY <1>2, <2>1 DEF IndexAfter
    <3>2. t \in Tables \ {"keys"}  BY <2>1
    <3> QED  BY <1>1, <1>2, <3>1, <3>2, OtherTable
  <2>2. CASE t = "keys"
    <3>1. IndexAfter(m, n.hashIndex, "keys", r.id, c["hash"])  BY <1>2, <2>2
    <3>2. HashOf(n, r.id) = c["hash"]
      <4>1. n.keys[r.id] = row  BY <1>2, <2>2 DEF Writes
      <4>2. Contents(n.heap, row.ref) = Memory!Copy(m.heap, r.v.ref)  BY <1>2 DEF Cloned
      <4>3. "hash" \in DOMAIN r.v.ref  BY <2>2 DEF SameStruct, RefFields, KeyRefs
      <4>4. Memory!Copy(m.heap, r.v.ref)["hash"] = Memory!Copied("hash", c["hash"])
        BY <4>3 DEF Memory!Copy, Memory!Contents, Contents
      <4>5. Memory!Copied("hash", c["hash"]) = c["hash"]
        BY DEF Memory!Copied, Memory!Empty
      <4> QED  BY <4>1, <4>2, <4>4, <4>5 DEF HashOf
    <3>3. DOMAIN n.keys = DOMAIN m.keys \cup {r.id} /\ r.id \notin DOMAIN m.keys
      BY <1>2, <2>2 DEF Writes
    <3>4. ASSUME NEW i \in DOMAIN m.keys PROVE HashOf(n, i) = HashOf(m, i)
      <4>1. StructKept("keys", m.heap, m.keys[i])  BY <1>1 DEF MemoryOK, Tables
      <4>2. Contents(n.heap, m.keys[i].ref) = Contents(m.heap, m.keys[i].ref)
        BY <1>1, <1>12, <4>1, KeptGrows
      <4>3. n.keys[i] = m.keys[i]  BY <1>2, <2>2, <3>3 DEF Writes
      <4> QED  BY <4>2, <4>3 DEF HashOf
    <3> HIDE DEF c
    <3> QED  BY <1>1, <3>1, <3>2, <3>3, <3>4, AddedIndex DEF IndexAfter
  <2> QED  BY <2>1, <2>2
<1>14. t = "apis" => row.plain.workspace \in DOMAIN m.workspaces
  BY <1>2, <1>4 DEF Cloned
<1>15. Pair(n, q)  BY <1>2, <1>7, <1>8, <1>10, <1>11, <1>13, <1>14, WritesPair
<1>16. NewRefs(m, n)
  <2>1. \A f \in DOMAIN row.ref :
           row.ref[f] = Nil \/ row.ref[f] \in Len(m.heap) + 1 .. Len(n.heap)
    BY <1>2 DEF Cloned
  <2> QED  BY <1>2, <2>1, WritesRefs
<1>17. Agree(op, m, Give(n, v), Give(q, w))
  <2> DEFINE B == Len(m.heap) + 2
  <2>1. B \in Len(m.heap) + 1 .. Len(n.heap)  BY <1>2 DEF Cloned
  <2>2. \A f \in DOMAIN v.ref : v.ref[f] \in {Nil, B}  BY <1>2 DEF Cloned
  <2>3. DOMAIN v.plain = PlainFields(t) /\ DOMAIN v.ref = RefFields(t)
    BY <1>2, <1>4 DEF Cloned, PlainOK, SameStruct
  <2>4. ASSUME NEW u \in Tables, NEW i \in DOMAIN n[u], NEW f \in DOMAIN n[u][i].ref
        PROVE  n[u][i].ref[f] # B
    <3>1. Len(m.heap) \in Nat /\ B # Nil  BY <1>2, NilAssumption DEF Cloned
    <3>2. CASE u = t /\ i = r.id
      <4>1. n[u][i] = row  BY <1>2, <3>2 DEF Writes
      <4>2. row.ref[f] \in {Nil, Len(m.heap) + 1}  BY <1>2, <4>1 DEF Cloned
      <4> QED  BY <3>1, <4>1, <4>2
    <3>3. CASE ~(u = t /\ i = r.id)
      <4>1. i \in DOMAIN m[u] /\ n[u][i] = m[u][i]
        <5>1. CASE u = t  BY <1>2, <3>3, <5>1 DEF Writes
        <5>2. CASE u # t  BY <1>2, <5>2 DEF Writes
        <5> QED  BY <5>1, <5>2
      <4>2. m[u][i].ref[f] = Nil \/ m[u][i].ref[f] \in 1 .. Len(m.heap)
        BY <1>1, <4>1, RefsBelow
      <4> QED  BY <3>1, <4>1, <4>2
    <3> QED  BY <3>2, <3>3
  <2>5. SameFields(View(v.plain, Contents(n.heap, v.ref)), View(w.plain, Contents(q.heap, w.ref)))
    <3>1. View(v.plain, Contents(n.heap, v.ref)) = View(plain, c)  BY <1>2 DEF Cloned
    <3>2. View(w.plain, Contents(q.heap, w.ref)) = View(plain, c)
      BY <1>8, <1>9 DEF SameStruct
    <3>3. \A x : SameFields(x, x)  BY DEF SameFields
    <3> QED  BY <3>1, <3>2, <3>3
  <2> HIDE DEF B
  <2> QED  BY <1>12, <1>15, <1>16, <2>1, <2>2, <2>3, <2>4, <2>5, GiveAgree
<1>18. Memory!Create(l, t, r).err = "nil" /\ Memory!Create(l, t, r).s = n
  BY <1>2 DEF Give, Answer
<1>19. Adds(m, n, t, r.id)  BY <1>2 DEF Writes, Adds
<1> QED  BY <1>2, <1>3, <1>17, <1>18, <1>19

\* The tables keep their IDs.
Kept(m, n) == \A u \in Tables : DOMAIN n[u] = DOMAIN m[u]

Tracks(m, a, t, id) == IF a.err = "nil" THEN Adds(m, a.s, t, id) ELSE Kept(m, a.s)

LEMMA RefuseTracks ==
    ASSUME NEW m, NEW err, err # "nil", NEW t, NEW id
    PROVE  Tracks(m, Memory!Refuse(m, err), t, id) /\ Memory!Refuse(m, err).err = err
BY DEF Tracks, Kept, Memory!Refuse, Memory!Answer

LEMMA CreateWorkspaceAgree ==
    ASSUME NEW m, NEW p, Pair(m, p), NEW r, NEW s, SameStruct(m, p, r, s, "workspaces")
    PROVE  /\ Agree("CreateWorkspace", m, Memory!CreateWorkspace(m, r),
                    Postgres!CreateWorkspace(p, s))
           /\ Memory!CreateWorkspace(m, r).err = "nil"
           /\ Tracks(m, Memory!CreateWorkspace(m, r), "workspaces", r.id)
<1>1. DOMAIN m = StoreFields  BY DEF Pair, MemoryOK
<1>2. "workspaces" \in Tables /\ "CreateWorkspace" \notin ListOps \cup {"DecrementRemainingUses"}
      /\ "workspaces" # "keys" /\ "workspaces" # "apis"
  BY DEF Tables, ListOps
<1>3. IndexAfter(m, m.hashIndex, "workspaces", r.id, Contents(m.heap, r.v.ref)["hash"])
  BY DEF IndexAfter
<1>4. \A u \in Tables : m[u] = m[u]  OBVIOUS
<1>5. /\ Agree("CreateWorkspace", m, Memory!Create(m, "workspaces", r),
               Postgres!Insert(p, "workspaces", s))
      /\ Memory!Create(m, "workspaces", r).err = "nil"
      /\ Adds(m, Memory!Create(m, "workspaces", r).s, "workspaces", r.id)
  BY <1>1, <1>2, <1>3, <1>4, CreateAgree
<1> QED  BY <1>5 DEF Memory!CreateWorkspace, Postgres!CreateWorkspace, Tracks

LEMMA CreateAPIAgree ==
    ASSUME NEW m, NEW p, Pair(m, p), NEW r, NEW s, SameStruct(m, p, r, s, "apis")
    PROVE  /\ Agree("CreateAPI", m, Memory!CreateAPI(m, r), Postgres!CreateAPI(p, s))
           /\ r.v.plain.workspace \in DOMAIN m.workspaces => Memory!CreateAPI(m, r).err = "nil"
           /\ Tracks(m, Memory!CreateAPI(m, r), "apis", r.id)
<1>1. DOMAIN m = StoreFields /\ DOMAIN m.workspaces = DOMAIN p.workspaces
  BY DEF Pair, MemoryOK, StoresAlike, Tables
<1>2. "apis" \in Tables /\ "CreateAPI" \notin ListOps \cup {"DecrementRemainingUses"}
      /\ "apis" # "keys" /\ "CreateAPI" \notin ListOps
  BY DEF Tables, ListOps
<1>3. Postgres!isFKViolation(p, s.v.plain) <=> r.v.plain.workspace \notin DOMAIN m.workspaces
  <2>1. s.v.plain = r.v.plain /\ "api" \notin DOMAIN r.v.plain
    BY DEF SameStruct, PlainOK, PlainFields, APIFields
  <2> QED  BY <1>1, <2>1 DEF Postgres!isFKViolation
<1>4. CASE r.v.plain.workspace \notin DOMAIN m.workspaces
  <2>1. Memory!CreateAPI(m, r) = Memory!Refuse(m, "ErrNotFound")
    BY <1>4 DEF Memory!CreateAPI
  <2>2. Postgres!CreateAPI(p, s) = Postgres!Refuse(p, "ErrNotFound")
    BY <1>3, <1>4 DEF Postgres!CreateAPI
  <2> QED  BY <1>2, <1>4, <2>1, <2>2, RefuseAgree, RefuseTracks
<1>5. CASE r.v.plain.workspace \in DOMAIN m.workspaces
  <2>1. IndexAfter(m, m.hashIndex, "apis", r.id, Contents(m.heap, r.v.ref)["hash"])
    BY DEF IndexAfter
  <2>2. \A u \in Tables : m[u] = m[u]  OBVIOUS
  <2>3. /\ Agree("CreateAPI", m, Memory!Create(m, "apis", r), Postgres!Insert(p, "apis", s))
        /\ Memory!Create(m, "apis", r).err = "nil"
        /\ Adds(m, Memory!Create(m, "apis", r).s, "apis", r.id)
    BY <1>1, <1>2, <1>5, <2>1, <2>2, CreateAgree
  <2>4. Memory!CreateAPI(m, r) = Memory!Create(m, "apis", r)  BY <1>5 DEF Memory!CreateAPI
  <2>5. Postgres!CreateAPI(p, s) = Postgres!Insert(p, "apis", s)
    BY <1>3, <1>5 DEF Postgres!CreateAPI
  <2> QED  BY <2>3, <2>4, <2>5 DEF Tracks
<1> QED  BY <1>4, <1>5

\* Each driver looks at the hash and at the API in an order of its own, so
\* the two answers are the same when at most one of them is wrong.
LEMMA CreateKeyAgree ==
    ASSUME NEW m, NEW p, Pair(m, p), NEW r, NEW s, SameStruct(m, p, r, s, "keys"),
           r.id \notin DOMAIN m.keys,
           \/ r.v.plain.api \in DOMAIN m.apis /\ r.v.plain.workspace \in DOMAIN m.workspaces
           \/ r.v.plain.api \notin DOMAIN m.apis /\ DOMAIN m.keys = {}
    PROVE  /\ Agree("CreateKey", m, Memory!CreateKey(m, r), Postgres!CreateKey(p, s))
           /\ Tracks(m, Memory!CreateKey(m, r), "keys", r.id)
<1> DEFINE hash == Contents(m.heap, r.v.ref)["hash"]
           l == [m EXCEPT !.hashIndex = Put(@, hash, r.id)]
<1>1. /\ DOMAIN m = StoreFields /\ DOMAIN m.workspaces = DOMAIN p.workspaces
      /\ DOMAIN m.apis = DOMAIN p.apis /\ Indexed(m)
  BY DEF Pair, MemoryOK, StoresAlike, Tables
<1>2. "keys" \in Tables /\ "CreateKey" \notin ListOps \cup {"DecrementRemainingUses"}
      /\ "apis" # "keys" /\ "CreateKey" \notin ListOps
  BY DEF Tables, ListOps
<1>3. Memory!Contents(m.heap, r.v.ref).hash = hash /\ Postgres!Contents(p.heap, s.v.ref).hash = hash
  BY DEF SameStruct, Contents, Memory!Contents, Postgres!Contents
<1>4. Postgres!isUniqueViolation(p, s.id, hash) <=> hash \in DOMAIN m.hashIndex
  <2>1. hash \in DOMAIN m.hashIndex => m.hashIndex[hash] # s.id
    BY <1>1 DEF Indexed, SameStruct
  <2> HIDE DEF hash
  <2> QED  BY <2>1, IndexesAlike DEF Postgres!isUniqueViolation
<1>5. Postgres!isFKViolation(p, s.v.plain) <=>
         \/ r.v.plain.workspace \notin DOMAIN m.workspaces
         \/ r.v.plain.api \notin DOMAIN m.apis
  <2>1. s.v.plain = r.v.plain /\ "api" \in DOMAIN r.v.plain
    BY DEF SameStruct, PlainOK, PlainFields, KeyFields
  <2> QED  BY <1>1, <2>1 DEF Postgres!isFKViolation
<1> HIDE DEF hash
<1>6. CASE r.v.plain.api \notin DOMAIN m.apis
  <2>1. hash \notin DOMAIN m.hashIndex  BY <1>1, <1>6 DEF Indexed
  <2>2. Memory!CreateKey(m, r) = Memory!Refuse(m, "ErrNotFound")
    BY <1>6 DEF Memory!CreateKey
  <2>3. Postgres!CreateKey(p, s) = Postgres!Refuse(p, "ErrNotFound")
    BY <1>3, <1>4, <1>5, <1>6, <2>1 DEF Postgres!CreateKey
  <2> QED  BY <1>2, <2>2, <2>3, RefuseAgree, RefuseTracks
<1>7. CASE r.v.plain.api \in DOMAIN m.apis /\ hash \in DOMAIN m.hashIndex
  <2>1. Memory!CreateKey(m, r) = Memory!Refuse(m, "ErrConflict")
    BY <1>3, <1>7 DEF Memory!CreateKey
  <2>2. Postgres!CreateKey(p, s) = Postgres!Refuse(p, "ErrConflict")
    BY <1>3, <1>4, <1>7 DEF Postgres!CreateKey
  <2> QED  BY <1>2, <2>1, <2>2, RefuseAgree, RefuseTracks
<1>8. CASE r.v.plain.api \in DOMAIN m.apis /\ hash \notin DOMAIN m.hashIndex
  <2>1. Memory!CreateKey(m, r) = Memory!Create(l, "keys", r)
    <3>1. Memory!Put(m.hashIndex, hash, r.id) = Put(m.hashIndex, hash, r.id)
      BY DEF Memory!Put, Put
    <3>2. Memory!CreateKey(m, r) =
            Memory!Create([m EXCEPT !.hashIndex = Memory!Put(@, hash, r.id)], "keys", r)
      BY <1>3, <1>8 DEF Memory!CreateKey
    <3> QED  BY <3>1, <3>2
  <2>2. Postgres!CreateKey(p, s) = Postgres!Insert(p, "keys", s)
    BY <1>3, <1>4, <1>5, <1>8 DEF Postgres!CreateKey
  <2>3. /\ DOMAIN l = StoreFields /\ l.heap = m.heap /\ l.hashIndex = Put(m.hashIndex, hash, r.id)
        /\ \A u \in Tables : l[u] = m[u]
    BY <1>1 DEF StoreFields, Tables
  <2> HIDE DEF l
  <2>4. IndexAfter(m, l.hashIndex, "keys", r.id, hash)  BY <1>8, <2>3 DEF IndexAfter, Put
  <2>5. /\ Agree("CreateKey", m, Memory!Create(l, "keys", r), Postgres!Insert(p, "keys", s))
        /\ Memory!Create(l, "keys", r).err = "nil"
        /\ Adds(m, Memory!Create(l, "keys", r).s, "keys", r.id)
    BY <1>2, <2>3, <2>4, CreateAgree DEF hash
  <2> QED  BY <2>1, <2>2, <2>5 DEF Tracks
<1> QED  BY <1>6, <1>7, <1>8

-----------------------------------------------------------------------------
(* Listings.                                                                *)

\* Copies of several structs, each in a block of its own.
ManyOf(h, n, all, a) ==
    /\ HeapOK(a.heap) /\ Len(h) \in Nat /\ Len(a.heap) = Len(h) + n /\ Grows(h, a.heap)
    /\ \A i \in 1 .. n :
          /\ DOMAIN a.refs[i] = DOMAIN all[i] /\ Within(a.heap, a.refs[i])
          /\ Contents(a.heap, a.refs[i]) = [f \in DOMAIN all[i] |-> all[i][f]]
          /\ \A f \in DOMAIN all[i] : a.refs[i][f] \in {Nil, Len(h) + i}

LEMMA ManyForm ==
    ASSUME NEW h, HeapOK(h), NEW all, NEW n \in Nat, all = [i \in 1 .. n |-> all[i]]
    PROVE  ManyOf(h, n, all, AllocAll(h, all))
<1> DEFINE a == AllocAll(h, all)
<1>1. /\ HeapOK(a.heap) /\ Len(h) \in Nat /\ Len(a.heap) = Len(h) + n
      /\ Grows(h, a.heap)
      /\ \A i \in 1 .. n :
            /\ DOMAIN a.refs[i] = DOMAIN all[i] /\ Within(a.heap, a.refs[i])
            /\ Contents(a.heap, a.refs[i]) = [f \in DOMAIN all[i] |-> all[i][f]]
            /\ \A f \in DOMAIN all[i] : a.refs[i][f] \in {Nil, Len(h) + i}
  BY AllocAllFacts, Zenon
<1> HIDE DEF a
<1>2. ManyOf(h, n, all, a)  BY <1>1 DEF ManyOf
<1> QED  BY <1>2 DEF a

LEMMA ManyFacts ==
    ASSUME NEW h, HeapOK(h), NEW S, NEW n \in Nat, NEW all, all \in [1 .. n -> S]
    PROVE  ManyOf(h, n, all, AllocAll(h, all))
<1>1. all = [i \in 1 .. n |-> all[i]]  OBVIOUS
<1> QED  BY ONLY HeapOK(h), n \in Nat, <1>1, ManyForm, Zenon

\* The drivers' definitions are those of Listing.
LEMMA Cardinalities ==
    ASSUME NEW S
    PROVE  Memory!Cardinality(S) = Cardinality(S) /\ Postgres!Cardinality(S) = Cardinality(S)
BY DEF Memory!Cardinality, Postgres!Cardinality, Cardinality

LEMMA MemorysPage == ASSUME NEW rows, NEW q PROVE Memory!MemoryPage(rows, q) = MemoryPage(rows, q)
<1>1. \A S : Memory!Sorted(S) = Sorted(S)  BY DEF Memory!Sorted, Sorted, Memory!Cardinality, Cardinality
<1>2. Memory!Matching(rows, q) = Matching(rows, q)
  BY DEF Memory!Matching, Memory!Matches, Matching, Matches
<1>3. \A ids, x : Memory!Start(ids, x) = Start(ids, x)
  <2>1. \A ids, x : Memory!SearchStrings(ids, x) = SearchStrings(ids, x)
    BY Cardinalities DEF Memory!SearchStrings, SearchStrings
  <2> QED  BY <2>1 DEF Memory!Start, Memory!NoToken, Start, NoToken
<1>4. \A ids, end : Memory!NextToken(ids, end) = NextToken(ids, end)
  BY DEF Memory!NextToken, Memory!NoToken, NextToken, NoToken
<1>5. \A n : Memory!PageSize(n) = PageSize(n)  BY DEF Memory!PageSize, PageSize
<1> QED  BY <1>1, <1>2, <1>3, <1>4, <1>5 DEF Memory!MemoryPage, MemoryPage

LEMMA PostgresesPage ==
    ASSUME NEW rows, NEW q PROVE Postgres!PostgresPage(rows, q) = PostgresPage(rows, q)
<1>1. \A S : Postgres!Sorted(S) = Sorted(S)  BY DEF Postgres!Sorted, Sorted, Postgres!Cardinality, Cardinality
<1>2. Postgres!Matching(rows, q) = Matching(rows, q)
  BY DEF Postgres!Matching, Postgres!Matches, Matching, Matches
<1>3. \A out, size : Postgres!Truncated(out, size) = Truncated(out, size)
  BY DEF Postgres!Truncated, Postgres!NoToken, Truncated, NoToken
<1>4. \A n : Postgres!PageSize(n) = PageSize(n)  BY DEF Postgres!PageSize, PageSize
<1> QED
  BY <1>1, <1>2, <1>3, <1>4, Cardinalities DEF Postgres!PostgresPage, PostgresPage, Postgres!NoToken, NoToken

Plains(s) == [id \in DOMAIN s.keys |-> s.keys[id].plain]

\* Both drivers find the same page.
LEMMA SamePage ==
    ASSUME NEW m, NEW p, Pair(m, p), IsFiniteSet(DOMAIN m.keys),
           DOMAIN m.keys \subseteq Nat \ {NoToken}, NEW q, q.token \in Nat, q.size \in Int
    PROVE  LET page == Memory!MemoryPage(Plains(m), q) IN
           /\ Postgres!PostgresPage(Plains(p), q) = page
           /\ page.ids \in Seq(DOMAIN m.keys) /\ page.next \in Nat
<1> DEFINE A == Ahead(Plains(m), q)  page == Truncated(Sorted(A), PageSize(q.size))
<1>1. DOMAIN Plains(m) = DOMAIN m.keys /\ DOMAIN Plains(p) = DOMAIN m.keys
  BY DEF Plains, Pair, StoresAlike, Tables
<1>2. ASSUME NEW id \in DOMAIN m.keys
      PROVE  /\ Plains(m)[id].api = Plains(p)[id].api
             /\ Plains(m)[id].owner = Plains(p)[id].owner
  <2> DEFINE k == m.keys[id]  j == p.keys[id]
  <2>1. KeyPair(m, p, k, j)  BY KeyRows
  <2>2. Plains(m)[id] = k.plain /\ Plains(p)[id] = j.plain  BY <1>1 DEF Plains
  <2> HIDE DEF k, j
  <2>3. k.plain.api = j.plain.api /\ k.plain.owner = j.plain.owner
    BY <2>1 DEF KeyPair, FieldsAlike, KeyFields, TimeFields
  <2> QED  BY <2>2, <2>3
<1>3. Matching(Plains(p), q) = Matching(Plains(m), q)  BY <1>1, <1>2 DEF Matching, Matches
<1>4. Ahead(Plains(p), q) = A  BY <1>3 DEF Ahead
<1>5. Memory!MemoryPage(Plains(m), q) = page  BY <1>1, MemorysPage, MemoryPages
<1>6. Postgres!PostgresPage(Plains(p), q) = page
  BY <1>1, <1>4, PostgresesPage, PostgresPages
<1>7. A \in SUBSET DOMAIN m.keys  BY <1>1 DEF Ahead, Above, Matching
<1>8. IsFiniteSet(A) /\ A \in SUBSET (Nat \ {NoToken})  BY <1>7, FS_Subset
<1> HIDE DEF A
<1>9. PageSize(q.size) \in Nat \ {0}  BY PageSizeFacts
<1>10. page.ids \in Seq(A) /\ (page.next # NoToken => page.next \in A)
  BY <1>8, <1>9, PageFacts
<1>11. page.next \in Nat  BY <1>8, <1>10 DEF NoToken
<1>12. page.ids \in Seq(DOMAIN m.keys)  BY <1>7, <1>10
<1> QED  BY <1>5, <1>6, <1>11, <1>12

\* The structs of a page, each in a block of its own.
PageOf(h, g, n, structs) ==
    /\ HeapOK(g) /\ Grows(h, g) /\ Len(h) \in Nat /\ Len(g) = Len(h) + n
    /\ DOMAIN structs = 1 .. n
    /\ \A i \in 1 .. n : \A f \in DOMAIN structs[i].ref :
          structs[i].ref[f] \in {Nil, Len(h) + i}

ViewOf(heap, v) == View(v.plain, Contents(heap, v.ref))

LEMMA MemoryListForm ==
    ASSUME NEW m, MemoryOK(m), NEW r, NEW page, page = Memory!MemoryPage(Plains(m), r.arg),
           NEW n \in Nat, DOMAIN page.ids = 1 .. n
    PROVE  \E h, structs :
              /\ Memory!ListKeys(m, r) = Answer([m EXCEPT !.heap = h], "nil", structs, page.next)
              /\ PageOf(m.heap, h, n, structs)
              /\ \A i \in 1 .. n : ViewOf(h, structs[i]) = ViewOf(m.heap, m.keys[page.ids[i]])
<1> DEFINE k == [i \in 1 .. n |-> m.keys[page.ids[i]]]
           all == [i \in 1 .. n |-> Memory!Copy(m.heap, k[i].ref)]
           g == AllocAll(m.heap, all)
           structs == [i \in 1 .. n |-> [plain |-> k[i].plain, ref |-> g.refs[i]]]
<1>1. Memory!ListKeys(m, r) = Answer([m EXCEPT !.heap = g.heap], "nil", structs, page.next)
  <2>1. [id \in DOMAIN m.keys |-> m.keys[id].plain] = Plains(m)  BY DEF Plains
  <2>2. [i \in DOMAIN page.ids |-> m.keys[page.ids[i]]] = k  OBVIOUS
  <2> HIDE DEF k
  <2>3. DOMAIN k = 1 .. n  BY DEF k
  <2>4. [i \in DOMAIN k |-> Memory!Copy(m.heap, k[i].ref)] = all  BY <2>3
  <2> HIDE DEF all
  <2>5. Memory!AllocAll(m.heap, all) = g  BY DEF Memory!AllocAll, AllocAll
  <2> HIDE DEF g
  <2>6. [i \in DOMAIN k |-> [plain |-> k[i].plain, ref |-> g.refs[i]]] = structs  BY <2>3
  <2> HIDE DEF structs
  <2>7. Memory!ListKeys(m, r) =
          Memory!Answer([m EXCEPT !.heap = g.heap], "nil", structs, page.next)
    BY <2>1, <2>2, <2>4, <2>5, <2>6 DEF Memory!ListKeys
  <2> QED  BY <2>7 DEF Memory!Answer, Answer
<1>2. ManyOf(m.heap, n, all, g)
  <2> DEFINE S == {all[i] : i \in 1 .. n}
  <2>1. HeapOK(m.heap)  BY DEF MemoryOK
  <2>2. \A i \in 1 .. n : all[i] \in S  OBVIOUS
  <2>3. all = [i \in 1 .. n |-> all[i]]  OBVIOUS
  <2> HIDE DEF all, S
  <2>4. all \in [1 .. n -> S]  BY <2>2, <2>3
  <2> QED  BY <2>1, <2>4, ManyFacts
<1>3. \A i \in 1 .. n : all[i] = Memory!Copy(m.heap, k[i].ref) /\ k[i] = m.keys[page.ids[i]]
  OBVIOUS
<1>4. DOMAIN structs = 1 .. n /\ \A i \in 1 .. n : structs[i].plain = k[i].plain
                                                   /\ structs[i].ref = g.refs[i]
  <2> HIDE DEF k, g
  <2> QED  OBVIOUS
<1> HIDE DEF k, all, g, structs
<1>5. PageOf(m.heap, g.heap, n, structs)  BY <1>2, <1>4 DEF ManyOf, PageOf
<1>6. ASSUME NEW i \in 1 .. n
      PROVE  ViewOf(g.heap, structs[i]) = ViewOf(m.heap, m.keys[page.ids[i]])
  <2>1. Contents(g.heap, structs[i].ref) = [f \in DOMAIN all[i] |-> all[i][f]]
    BY <1>2, <1>4 DEF ManyOf
  <2>2. /\ [f \in DOMAIN all[i] |-> all[i][f]] = all[i]
        /\ View(k[i].plain, all[i]) = View(k[i].plain, Contents(m.heap, k[i].ref))
    BY <1>3, CopyView
  <2> QED  BY <1>3, <1>4, <2>1, <2>2 DEF ViewOf
<1> QED  BY <1>1, <1>5, <1>6

LEMMA PostgresListForm ==
    ASSUME NEW p, PostgresOK(p), NEW r, NEW page, page = Postgres!PostgresPage(Plains(p), r.arg),
           NEW n \in Nat, DOMAIN page.ids = 1 .. n
    PROVE  \E h, structs :
              /\ Postgres!ListKeys(p, r) = Answer([p EXCEPT !.heap = h], "nil", structs, page.next)
              /\ PageOf(p.heap, h, n, structs)
              /\ \A i \in 1 .. n :
                    ViewOf(h, structs[i]) = View(p.keys[page.ids[i]].plain,
                                                 p.keys[page.ids[i]].column)
<1> DEFINE k == [i \in 1 .. n |-> p.keys[page.ids[i]]]
           all == [i \in 1 .. n |->
                     [f \in DOMAIN k[i].column |-> Postgres!Scanned(f, k[i].column[f])]]
           g == AllocAll(p.heap, all)
           structs == [i \in 1 .. n |-> [plain |-> k[i].plain, ref |-> g.refs[i]]]
<1>1. Postgres!ListKeys(p, r) = Answer([p EXCEPT !.heap = g.heap], "nil", structs, page.next)
  <2>1. [id \in DOMAIN p.keys |-> p.keys[id].plain] = Plains(p)  BY DEF Plains
  <2>2. [i \in DOMAIN page.ids |-> p.keys[page.ids[i]]] = k  OBVIOUS
  <2> HIDE DEF k
  <2>3. DOMAIN k = 1 .. n  BY DEF k
  <2>4. [i \in DOMAIN k |->
           [f \in DOMAIN k[i].column |-> Postgres!Scanned(f, k[i].column[f])]] = all
    BY <2>3
  <2> HIDE DEF all
  <2>5. Postgres!AllocAll(p.heap, all) = g  BY DEF Postgres!AllocAll, AllocAll
  <2> HIDE DEF g
  <2>6. [i \in DOMAIN k |-> [plain |-> k[i].plain, ref |-> g.refs[i]]] = structs  BY <2>3
  <2> HIDE DEF structs
  <2>7. Postgres!Read(p.heap, k) = [heap |-> g.heap, out |-> structs]
    BY <2>4, <2>5, <2>6 DEF Postgres!Read
  <2>8. Postgres!Read(p.heap, k).heap = g.heap /\ Postgres!Read(p.heap, k).out = structs
    BY <2>7
  <2>9. Postgres!ListKeys(p, r) =
          Postgres!Answer([p EXCEPT !.heap = g.heap], "nil", structs, page.next)
    BY <2>1, <2>2, <2>8 DEF Postgres!ListKeys
  <2> QED  BY <2>9 DEF Postgres!Answer, Answer
<1>2. ManyOf(p.heap, n, all, g)
  <2> DEFINE S == {all[i] : i \in 1 .. n}
  <2>1. HeapOK(p.heap)  BY DEF PostgresOK
  <2>2. \A i \in 1 .. n : all[i] \in S  OBVIOUS
  <2>3. all = [i \in 1 .. n |-> all[i]]  OBVIOUS
  <2> HIDE DEF all, S
  <2>4. all \in [1 .. n -> S]  BY <2>2, <2>3
  <2> QED  BY <2>1, <2>4, ManyFacts
<1>3. \A i \in 1 .. n :
         /\ all[i] = [f \in DOMAIN k[i].column |-> Postgres!Scanned(f, k[i].column[f])]
         /\ k[i] = p.keys[page.ids[i]]
  OBVIOUS
<1>4. DOMAIN structs = 1 .. n /\ \A i \in 1 .. n : structs[i].plain = k[i].plain
                                                   /\ structs[i].ref = g.refs[i]
  <2> HIDE DEF k, g
  <2> QED  OBVIOUS
<1> HIDE DEF k, all, g, structs
<1>5. PageOf(p.heap, g.heap, n, structs)  BY <1>2, <1>4 DEF ManyOf, PageOf
<1>6. ASSUME NEW i \in 1 .. n
      PROVE  ViewOf(g.heap, structs[i]) = View(p.keys[page.ids[i]].plain,
                                               p.keys[page.ids[i]].column)
  <2>1. Contents(g.heap, structs[i].ref) = [f \in DOMAIN all[i] |-> all[i][f]]
    BY <1>2, <1>4 DEF ManyOf
  <2>2. [f \in DOMAIN all[i] |-> all[i][f]] = all[i]  BY <1>3
  <2>3. View(k[i].plain, all[i]) = View(k[i].plain, k[i].column)
    <3> DEFINE col == k[i].column  plain == k[i].plain
    <3> HIDE DEF col, plain
    <3>1. View(plain, [f \in DOMAIN col |-> Postgres!Scanned(f, col[f])]) = View(plain, col)
      BY ScannedView
    <3>2. all[i] = [f \in DOMAIN col |-> Postgres!Scanned(f, col[f])]  BY <1>3 DEF col
    <3>3. View(plain, all[i]) = View(plain, col)  BY <3>1, <3>2
    <3> QED  BY <3>3 DEF col, plain
  <2> QED  BY <1>3, <1>4, <2>1, <2>2, <2>3 DEF ViewOf
<1> QED  BY <1>1, <1>5, <1>6

LEMMA PageLength ==
    ASSUME NEW ids, NEW S, ids \in Seq(S)
    PROVE  Len(ids) \in Nat /\ DOMAIN ids = 1 .. Len(ids) /\ \A i \in 1 .. Len(ids) : ids[i] \in S
OBVIOUS

LEMMA ListKeysAgree ==
    ASSUME NEW m, NEW p, Pair(m, p), IsFiniteSet(DOMAIN m.keys),
           DOMAIN m.keys \subseteq Nat \ {NoToken}, NEW r, NEW s, r.arg = s.arg,
           r.arg.token \in Nat, r.arg.size \in Int, NEW op \in ListOps
    PROVE  /\ Agree(op, m, Memory!ListKeys(m, r), Postgres!ListKeys(p, s))
           /\ Memory!ListKeys(m, r).num \in Nat
           /\ Kept(m, Memory!ListKeys(m, r).s)
<1> DEFINE page == Memory!MemoryPage(Plains(m), r.arg)  n == Len(page.ids)
           a == Memory!ListKeys(m, r)  b == Postgres!ListKeys(p, s)
<1>1. /\ Postgres!PostgresPage(Plains(p), s.arg) = page
      /\ page.ids \in Seq(DOMAIN m.keys) /\ page.next \in Nat
  BY SamePage
<1> HIDE DEF page
<1>2. n \in Nat /\ DOMAIN page.ids = 1 .. n /\ \A i \in 1 .. n : page.ids[i] \in DOMAIN m.keys
  BY <1>1, PageLength
<1>3. MemoryOK(m) /\ PostgresOK(p) /\ DOMAIN m = StoreFields /\ DOMAIN p = StoreFields
  BY DEF Pair, MemoryOK, PostgresOK
<1> HIDE DEF n
<1>4. PICK h, ms :
         /\ a = Answer([m EXCEPT !.heap = h], "nil", ms, page.next)
         /\ PageOf(m.heap, h, n, ms)
         /\ \A i \in 1 .. n : ViewOf(h, ms[i]) = ViewOf(m.heap, m.keys[page.ids[i]])
  BY <1>2, <1>3, MemoryListForm DEF page
<1>5. PICK g, ps :
         /\ b = Answer([p EXCEPT !.heap = g], "nil", ps, page.next)
         /\ PageOf(p.heap, g, n, ps)
         /\ \A i \in 1 .. n : ViewOf(g, ps[i]) = View(p.keys[page.ids[i]].plain,
                                                      p.keys[page.ids[i]].column)
  <2>1. page = Postgres!PostgresPage(Plains(p), s.arg)  BY <1>1
  <2>2. n \in Nat /\ DOMAIN page.ids = 1 .. n /\ PostgresOK(p)  BY <1>2, <1>3
  <2> QED  BY ONLY <2>1, <2>2, PostgresListForm
<1> DEFINE mn == [m EXCEPT !.heap = h]  pn == [p EXCEPT !.heap = g]
<1>6. OnlyHeap(m, mn) /\ mn.heap = h /\ OnlyHeap(p, pn) /\ pn.heap = g
  BY <1>3, <1>4, <1>5, HeapSet DEF PageOf
<1>7. /\ a.s = mn /\ a.err = "nil" /\ a.structs = ms /\ a.num = page.next
      /\ b.s = pn /\ b.err = "nil" /\ b.structs = ps /\ b.num = page.next
  BY <1>4, <1>5 DEF Answer
<1> HIDE DEF mn, pn, a, b
<1>8. Pair(mn, pn) /\ NewRefs(m, mn)  BY <1>6, OnlyHeapPair
<1>9. Grows(m.heap, h) /\ Len(m.heap) \in Nat /\ Len(h) = Len(m.heap) + n  BY <1>4 DEF PageOf
<1>10. \A c \in OutCells(a) : c[1] \in Len(m.heap) + 1 .. Len(h)
  <2> SUFFICES ASSUME NEW c \in OutCells(a) PROVE c[1] \in Len(m.heap) + 1 .. Len(h)
    OBVIOUS
  <2>1. PICK i \in 1 .. n : c \in Cells(ms[i].ref)  BY <1>4, <1>7 DEF OutCells, PageOf
  <2>2. PICK f \in DOMAIN ms[i].ref : ms[i].ref[f] # Nil /\ c = <<ms[i].ref[f], f>>
    BY <2>1 DEF Cells
  <2>3. ms[i].ref[f] = Len(m.heap) + i  BY <1>4, <2>2 DEF PageOf
  <2>4. c[1] = Len(m.heap) + i  BY <2>2, <2>3
  <2> QED  BY <1>2, <1>9, <2>4
<1>11. Apart(mn, OutCells(a))
  <2> SUFFICES ASSUME NEW u \in Tables, NEW id \in DOMAIN m[u], NEW f \in DOMAIN m[u][id].ref,
                      m[u][id].ref[f] # Nil
               PROVE  <<m[u][id].ref[f], f>> \notin OutCells(a)
    BY <1>6 DEF Apart, OnlyHeap
  <2>1. m[u][id].ref[f] \in 1 .. Len(m.heap)  BY <1>3, RefsBelow
  <2>2. <<m[u][id].ref[f], f>>[1] \notin Len(m.heap) + 1 .. Len(h)  BY <1>9, <2>1
  <2> QED  BY <1>10, <2>2
<1>12. Alike(Fields(op, a), Fields(op, b))
  <2> DEFINE mk == [i \in 1 .. n |-> ViewOf(h, ms[i])]  pk == [i \in 1 .. n |-> ViewOf(g, ps[i])]
             x == [keys |-> mk, next |-> page.next]  y == [keys |-> pk, next |-> page.next]
  <2>1. op # "DecrementRemainingUses"  BY DEF ListOps
  <2>2. DOMAIN ms = 1 .. n /\ DOMAIN ps = 1 .. n  BY <1>4, <1>5 DEF PageOf
  <2>3. [i \in DOMAIN a.structs |->
           View(a.structs[i].plain, Contents(a.s.heap, a.structs[i].ref))] = mk
    BY <1>6, <1>7, <2>2 DEF ViewOf
  <2>4. [i \in DOMAIN b.structs |->
           View(b.structs[i].plain, Contents(b.s.heap, b.structs[i].ref))] = pk
    BY <1>6, <1>7, <2>2 DEF ViewOf
  <2>5. \A i \in 1 .. n : SameFields(mk[i], pk[i])
    <3> SUFFICES ASSUME NEW i \in 1 .. n PROVE SameFields(mk[i], pk[i])  OBVIOUS
    <3>1. page.ids[i] \in DOMAIN m.keys  BY <1>2
    <3>2. RowsAlike(m.heap, m.keys[page.ids[i]], p.keys[page.ids[i]])
      BY <3>1 DEF Pair, StoresAlike, Tables
    <3> QED  BY <1>4, <1>5, <3>2 DEF RowsAlike, ViewOf
  <2>6. Len(mk) = n /\ Len(pk) = n /\ DOMAIN mk = 1 .. n
    <3> DEFINE S == {mk[i] : i \in 1 .. n} \cup {pk[i] : i \in 1 .. n}
    <3>1. mk = [i \in 1 .. n |-> mk[i]] /\ pk = [i \in 1 .. n |-> pk[i]]  OBVIOUS
    <3>2. \A i \in 1 .. n : mk[i] \in S /\ pk[i] \in S  OBVIOUS
    <3> HIDE DEF mk, pk, S
    <3>3. mk \in [1 .. n -> S] /\ pk \in [1 .. n -> S]  BY <3>1, <3>2
    <3> QED  BY <1>2, <3>3
  <2> HIDE DEF mk, pk
  <2>7. Fields(op, a) = x /\ Fields(op, b) = y  BY <1>7, <2>1, <2>3, <2>4 DEF Fields
  <2>8. SameFields(x, y)  BY DEF SameFields, TimeFields
  <2>9. x.keys = mk /\ y.keys = pk  OBVIOUS
  <2> HIDE DEF x, y
  <2> QED  BY <2>5, <2>6, <2>7, <2>8, <2>9 DEF Alike
<1>13. Agree(op, m, a, b)
  BY <1>6, <1>7, <1>8, <1>9, <1>10, <1>11, <1>12 DEF Agree
<1>14. Kept(m, a.s)  BY <1>6, <1>7 DEF Kept, OnlyHeap
<1> QED  BY <1>1, <1>7, <1>13, <1>14 DEF a, b

-----------------------------------------------------------------------------
(* Only creations add to the tables.                                        *)

LEMMA KeptSelf ==
    ASSUME NEW m, NEW err, NEW structs, NEW num
    PROVE  Memory!Answer(m, err, structs, num).s = m /\ Kept(m, m)
BY DEF Memory!Answer, Kept

LEMMA KeptStored ==
    ASSUME NEW m, DOMAIN m = StoreFields, NEW h, NEW i, NEW id \in DOMAIN m.keys, NEW row
    PROVE  /\ Kept(m, Memory!Stored(m, "keys", id, row))
           /\ Kept(m, Memory!Stored([m EXCEPT !.heap = h], "keys", id, row))
           /\ Kept(m, Memory!Stored([m EXCEPT !.hashIndex = i, !.heap = h], "keys", id, row))
           /\ DOMAIN Memory!Stored([m EXCEPT !.hashIndex = i, !.heap = h], "keys", id, row)
                 = StoreFields
<1> DEFINE l == [m EXCEPT !.heap = h]  k == [m EXCEPT !.hashIndex = i, !.heap = h]
<1>1. DOMAIN l = StoreFields /\ \A u \in Tables : l[u] = m[u]  BY DEF StoreFields, Tables
<1>2. DOMAIN k = StoreFields /\ \A u \in Tables : k[u] = m[u]  BY DEF StoreFields, Tables
<1>3. ASSUME NEW x, DOMAIN x = StoreFields, \A u \in Tables : x[u] = m[u]
      PROVE  /\ Kept(m, Memory!Stored(x, "keys", id, row))
             /\ DOMAIN Memory!Stored(x, "keys", id, row) = StoreFields
  <2> DEFINE n == Memory!Stored(x, "keys", id, row)
  <2>1. x.keys = m.keys  BY <1>3 DEF Tables
  <2>2. DOMAIN n.keys = DOMAIN m.keys
    BY <1>3, <2>1 DEF Memory!Stored, Memory!Put, StoreFields
  <2>3. \A u \in Tables \ {"keys"} : n[u] = m[u]
    BY <1>3 DEF Memory!Stored, StoreFields, Tables
  <2>4. DOMAIN n = StoreFields  BY <1>3 DEF Memory!Stored
  <2> HIDE DEF n
  <2>5. Kept(m, n)  BY <2>2, <2>3 DEF Kept
  <2> QED  BY <2>4, <2>5 DEF n
<1>4. \A u \in Tables : m[u] = m[u]  OBVIOUS
<1> HIDE DEF l, k
<1>5. /\ Kept(m, Memory!Stored(m, "keys", id, row)) /\ Kept(m, Memory!Stored(l, "keys", id, row))
      /\ Kept(m, Memory!Stored(k, "keys", id, row))
      /\ DOMAIN Memory!Stored(k, "keys", id, row) = StoreFields
  BY <1>1, <1>2, <1>3, <1>4
<1> QED  BY <1>5 DEF l, k

LEMMA KeptGet ==
    ASSUME NEW m, DOMAIN m = StoreFields, NEW t, NEW id
    PROVE  Kept(m, Memory!Get(m, t, id).s)
<1>1. CASE id \notin DOMAIN m[t]
  BY <1>1, KeptSelf DEF Memory!Get, Memory!Refuse
<1>2. CASE id \in DOMAIN m[t]
  <2> DEFINE h == Memory!cloneKey(m.heap, m[t][id].ref).heap
  <2>1. Memory!Get(m, t, id).s = [m EXCEPT !.heap = h]
    BY <1>2 DEF Memory!Get, Memory!Give, Memory!Answer
  <2>2. \A u \in Tables : [m EXCEPT !.heap = h][u] = m[u]  BY DEF Tables, StoreFields
  <2> QED  BY <2>1, <2>2 DEF Kept
<1> QED  BY <1>1, <1>2

LEMMA KeptCalls ==
    ASSUME NEW m, DOMAIN m = StoreFields, NEW r
    PROVE  /\ Kept(m, Memory!RevokeKey(m, r).s)
           /\ Kept(m, Memory!TouchLastVerified(m, r).s)
           /\ Kept(m, Memory!DecrementRemainingUses(m, r).s)
           /\ Kept(m, Memory!RotateKey(m, r).s)
<1>1. CASE r.id \notin DOMAIN m.keys
  BY <1>1, KeptSelf DEF Memory!RevokeKey, Memory!TouchLastVerified,
     Memory!DecrementRemainingUses, Memory!RotateKey, Memory!Refuse
<1>2. CASE r.id \in DOMAIN m.keys
  <2>1. \A row, h : /\ Kept(m, Memory!Stored(m, "keys", r.id, row))
                    /\ Kept(m, Memory!Stored([m EXCEPT !.heap = h], "keys", r.id, row))
    BY <1>2, KeptStored
  <2>2. \A n : Memory!Done(n).s = n  BY DEF Memory!Done, Memory!Answer
  <2>3. Kept(m, Memory!RevokeKey(m, r).s)
    <3> DEFINE row == [m.keys[r.id] EXCEPT !.plain.enabled = FALSE, !.plain.updatedAt = r.now]
    <3>1. \/ Memory!RevokeKey(m, r) = Memory!Done(m)
          \/ Memory!RevokeKey(m, r) = Memory!Done(Memory!Stored(m, "keys", r.id, row))
      BY <1>2 DEF Memory!RevokeKey
    <3> HIDE DEF row
    <3>2. Kept(m, m)  BY DEF Kept
    <3> QED  BY <2>1, <2>2, <3>1, <3>2
  <2>4. Kept(m, Memory!TouchLastVerified(m, r).s)
    <3> DEFINE at == Memory!Alloc(m.heap, [lastVerifiedAt |-> r.arg])
               row == [m.keys[r.id] EXCEPT !.ref.lastVerifiedAt = at.ref.lastVerifiedAt]
               n == Memory!Stored([m EXCEPT !.heap = at.heap], "keys", r.id, row)
    <3>1. Memory!TouchLastVerified(m, r) = Memory!Done(n)  BY <1>2 DEF Memory!TouchLastVerified
    <3>2. Kept(m, n)
      <4> HIDE DEF row
      <4> QED  BY <2>1
    <3> HIDE DEF n
    <3> QED  BY <2>2, <3>1, <3>2
  <2>5. Kept(m, Memory!DecrementRemainingUses(m, r).s)
    <3> DEFINE x == m.keys[r.id].plain.remaining
               row == [m.keys[r.id] EXCEPT !.plain.remaining = x - 1, !.plain.updatedAt = r.now]
               n == Memory!Stored(m, "keys", r.id, row)
    <3>1. \/ Memory!DecrementRemainingUses(m, r) = Memory!Answer(m, "nil", <<>>, -1)
          \/ Memory!DecrementRemainingUses(m, r) = Memory!Refuse(m, "ErrDepleted")
          \/ Memory!DecrementRemainingUses(m, r) = Memory!Answer(n, "nil", <<>>, x - 1)
      BY <1>2 DEF Memory!DecrementRemainingUses
    <3>2. Kept(m, n)
      <4> HIDE DEF row
      <4> QED  BY <2>1
    <3> HIDE DEF n
    <3> QED  BY <3>1, <3>2, KeptSelf DEF Memory!Refuse
  <2>6. Kept(m, Memory!RotateKey(m, r).s)
    <3> DEFINE new == Memory!Contents(m.heap, r.v.ref).hash
               k == m.keys[r.id]
               copy == Memory!CopiedHash(m.heap, r.v.ref)
               rest == [h \in DOMAIN m.hashIndex \ {Memory!Contents(m.heap, k.ref).hash}
                          |-> m.hashIndex[h]]
               index == Memory!Put(rest, new, r.id)
               row == [k EXCEPT !.ref.hash = copy.ref.hash, !.plain.updatedAt = r.now]
               n == Memory!Stored([m EXCEPT !.hashIndex = index, !.heap = copy.heap],
                                  "keys", r.id, row)
    <3>1. \/ Memory!RotateKey(m, r) = Memory!Refuse(m, "ErrConflict")
          \/ Memory!RotateKey(m, r) = Memory!Get(n, "keys", r.id)
      BY <1>2 DEF Memory!RotateKey
    <3>2. Kept(m, n) /\ DOMAIN n = StoreFields
      <4> HIDE DEF row, index, copy
      <4> QED  BY <1>2, KeptStored
    <3> HIDE DEF n
    <3>3. Kept(n, Memory!Get(n, "keys", r.id).s)  BY <3>2, KeptGet
    <3>4. Kept(m, Memory!Get(n, "keys", r.id).s)  BY <3>2, <3>3 DEF Kept
    <3> QED  BY <3>1, <3>4, KeptSelf DEF Memory!Refuse
  <2> QED  BY <2>3, <2>4, <2>5, <2>6
<1> QED  BY <1>1, <1>2

-----------------------------------------------------------------------------
(* One call, to both drivers.                                               *)

SameCall(m, p, r, s) ==
    /\ r.op = s.op /\ r.id = s.id /\ r.now = s.now /\ r.now \in Nat /\ r.arg = s.arg
    /\ r.v.plain = s.v.plain
    /\ Within(m.heap, r.v.ref) /\ Contents(m.heap, r.v.ref) = Contents(p.heap, s.v.ref)

StructPassed(m, r, t) ==
    /\ PlainOK(t, r.v.plain) /\ DOMAIN r.v.ref = RefFields(t)
    /\ \A f \in RefFields(t) \cap TimeFields :
          Contents(m.heap, r.v.ref)[f] \in Nat \cup {Nil}

Ops == {"CreateWorkspace", "GetWorkspace", "CreateAPI", "GetAPI", "CreateKey", "GetKeyByID",
        "GetKeyByHash", "RevokeKey", "RotateKey", "ListKeys", "Walk", "TouchLastVerified",
        "DecrementRemainingUses"}

CallOK(m, r) ==
    /\ r.op \in Ops
    /\ r.op = "CreateWorkspace" => StructPassed(m, r, "workspaces")
    /\ r.op = "CreateAPI" => StructPassed(m, r, "apis")
    /\ r.op = "CreateKey" =>
          /\ StructPassed(m, r, "keys") /\ r.id \notin DOMAIN m.keys
          /\ \/ r.v.plain.api \in DOMAIN m.apis /\ r.v.plain.workspace \in DOMAIN m.workspaces
             \/ r.v.plain.api \notin DOMAIN m.apis /\ DOMAIN m.keys = {}
    /\ r.op = "RotateKey" => DOMAIN r.v.ref = {"hash"}
    /\ r.op = "TouchLastVerified" => r.arg \in Nat
    /\ r.op \in ListOps =>
          /\ IsFiniteSet(DOMAIN m.keys) /\ DOMAIN m.keys \subseteq Nat \ {NoToken}
          /\ r.arg.token \in Nat /\ r.arg.size \in Int

\* What becomes of the tables.
Effect(m, r, a) ==
    CASE r.op = "CreateWorkspace" -> a.err = "nil" /\ Tracks(m, a, "workspaces", r.id)
      [] r.op = "CreateAPI" ->
            /\ r.v.plain.workspace \in DOMAIN m.workspaces => a.err = "nil"
            /\ Tracks(m, a, "apis", r.id)
      [] r.op = "CreateKey" -> Tracks(m, a, "keys", r.id)
      [] r.op \in ListOps -> Kept(m, a.s) /\ a.num \in Nat
      [] OTHER -> Kept(m, a.s)

LEMMA CallAgree ==
    ASSUME NEW m, NEW p, Pair(m, p), NEW r, NEW s, SameCall(m, p, r, s), CallOK(m, r)
    PROVE  Agree(r.op, m, MemoryCall(m, r), PostgresCall(p, s)) /\ Effect(m, r, MemoryCall(m, r))
<1> USE DEF ListOps
<1>0. /\ DOMAIN m = StoreFields /\ r.op = s.op /\ r.id = s.id /\ r.now = s.now /\ r.now \in Nat
      /\ r.arg = s.arg
  BY DEF Pair, MemoryOK, SameCall
<1>1. "workspaces" \in Tables /\ "apis" \in Tables /\ "keys" \in Tables  BY DEF Tables
<1>2. CASE r.op = "CreateWorkspace"
  <2>1. SameStruct(m, p, r, s, "workspaces")
    BY <1>2 DEF SameStruct, SameCall, CallOK, StructPassed
  <2>2. /\ MemoryCall(m, r) = Memory!CreateWorkspace(m, r)
        /\ PostgresCall(p, s) = Postgres!CreateWorkspace(p, s)
    BY <1>0, <1>2 DEF MemoryCall, PostgresCall
  <2> QED  BY <1>2, <2>1, <2>2, CreateWorkspaceAgree DEF Effect
<1>3. CASE r.op = "CreateAPI"
  <2>1. SameStruct(m, p, r, s, "apis")
    BY <1>3 DEF SameStruct, SameCall, CallOK, StructPassed
  <2>2. /\ MemoryCall(m, r) = Memory!CreateAPI(m, r)
        /\ PostgresCall(p, s) = Postgres!CreateAPI(p, s)
    BY <1>0, <1>3 DEF MemoryCall, PostgresCall
  <2> QED  BY <1>3, <2>1, <2>2, CreateAPIAgree DEF Effect
<1>4. CASE r.op = "CreateKey"
  <2>1. SameStruct(m, p, r, s, "keys")
    BY <1>4 DEF SameStruct, SameCall, CallOK, StructPassed
  <2>2. /\ MemoryCall(m, r) = Memory!CreateKey(m, r)
        /\ PostgresCall(p, s) = Postgres!CreateKey(p, s)
    BY <1>0, <1>4 DEF MemoryCall, PostgresCall
  <2>3. /\ r.id \notin DOMAIN m.keys
        /\ \/ r.v.plain.api \in DOMAIN m.apis /\ r.v.plain.workspace \in DOMAIN m.workspaces
           \/ r.v.plain.api \notin DOMAIN m.apis /\ DOMAIN m.keys = {}
    BY <1>4 DEF CallOK
  <2> QED  BY <1>4, <2>1, <2>2, <2>3, CreateKeyAgree DEF Effect
<1>5. CASE r.op = "GetWorkspace"
  <2>1. /\ MemoryCall(m, r) = Memory!Get(m, "workspaces", r.id)
        /\ PostgresCall(p, s) =
             Postgres!Select(p, "workspaces", Postgres!Existing(p, "workspaces", r.id))
    BY <1>0, <1>5 DEF MemoryCall, PostgresCall, Memory!GetWorkspace, Postgres!GetWorkspace
  <2> QED  BY <1>0, <1>1, <1>5, <2>1, GetAgree, KeptGet DEF Effect
<1>6. CASE r.op = "GetAPI"
  <2>1. /\ MemoryCall(m, r) = Memory!Get(m, "apis", r.id)
        /\ PostgresCall(p, s) = Postgres!Select(p, "apis", Postgres!Existing(p, "apis", r.id))
    BY <1>0, <1>6 DEF MemoryCall, PostgresCall, Memory!GetAPI, Postgres!GetAPI
  <2> QED  BY <1>0, <1>1, <1>6, <2>1, GetAgree, KeptGet DEF Effect
<1>7. CASE r.op = "GetKeyByID"
  <2>1. /\ MemoryCall(m, r) = Memory!Get(m, "keys", r.id)
        /\ PostgresCall(p, s) = Postgres!Select(p, "keys", Postgres!Existing(p, "keys", r.id))
    BY <1>0, <1>7 DEF MemoryCall, PostgresCall, Memory!GetKeyByID, Postgres!GetKeyByID
  <2> QED  BY <1>0, <1>1, <1>7, <2>1, GetAgree, KeptGet DEF Effect
<1>8. CASE r.op = "GetKeyByHash"
  <2>1. /\ MemoryCall(m, r) = Memory!GetKeyByHash(m, r)
        /\ PostgresCall(p, s) = Postgres!GetKeyByHash(p, r)
    BY <1>0, <1>8 DEF MemoryCall, PostgresCall, Postgres!GetKeyByHash
  <2>2. Kept(m, Memory!GetKeyByHash(m, r).s)
    BY <1>0, KeptGet, KeptSelf DEF Memory!GetKeyByHash, Memory!Refuse
  <2> QED  BY <1>8, <2>1, <2>2, GetKeyByHashAgree DEF Effect
<1>9. CASE r.op = "RevokeKey"
  <2>1. /\ MemoryCall(m, r) = Memory!RevokeKey(m, r)
        /\ PostgresCall(p, s) = Postgres!RevokeKey(p, s)
    BY <1>0, <1>9 DEF MemoryCall, PostgresCall
  <2> QED  BY <1>0, <1>9, <2>1, RevokeKeyAgree, KeptCalls DEF Effect
<1>10. CASE r.op = "RotateKey"
  <2>1. /\ MemoryCall(m, r) = Memory!RotateKey(m, r)
        /\ PostgresCall(p, s) = Postgres!RotateKey(p, s)
    BY <1>0, <1>10 DEF MemoryCall, PostgresCall
  <2>2. /\ DOMAIN r.v.ref = {"hash"} /\ Within(m.heap, r.v.ref)
        /\ Contents(m.heap, r.v.ref) = Contents(p.heap, s.v.ref)
    BY <1>10 DEF CallOK, SameCall
  <2> QED  BY <1>0, <1>10, <2>1, <2>2, RotateKeyAgree, KeptCalls DEF Effect
<1>11. CASE r.op = "TouchLastVerified"
  <2>1. /\ MemoryCall(m, r) = Memory!TouchLastVerified(m, r)
        /\ PostgresCall(p, s) = Postgres!TouchLastVerified(p, s)
    BY <1>0, <1>11 DEF MemoryCall, PostgresCall
  <2>2. r.arg \in Nat  BY <1>11 DEF CallOK
  <2> QED  BY <1>0, <1>11, <2>1, <2>2, TouchLastVerifiedAgree, KeptCalls DEF Effect
<1>12. CASE r.op = "DecrementRemainingUses"
  <2>1. /\ MemoryCall(m, r) = Memory!DecrementRemainingUses(m, r)
        /\ PostgresCall(p, s) = Postgres!DecrementRemainingUses(p, s)
    BY <1>0, <1>12 DEF MemoryCall, PostgresCall
  <2> QED  BY <1>0, <1>12, <2>1, DecrementRemainingUsesAgree, KeptCalls DEF Effect
<1>13. CASE r.op \in ListOps
  <2>1. /\ MemoryCall(m, r) = Memory!ListKeys(m, r)
        /\ PostgresCall(p, s) = Postgres!ListKeys(p, s)
    BY <1>0, <1>13 DEF MemoryCall, PostgresCall
  <2>2. /\ IsFiniteSet(DOMAIN m.keys) /\ DOMAIN m.keys \subseteq Nat \ {NoToken}
        /\ r.arg.token \in Nat /\ r.arg.size \in Int
    BY <1>13 DEF CallOK
  <2>3. /\ Agree(r.op, m, Memory!ListKeys(m, r), Postgres!ListKeys(p, s))
        /\ Memory!ListKeys(m, r).num \in Nat
        /\ Kept(m, Memory!ListKeys(m, r).s)
    BY <1>0, <1>13, <2>2, ListKeysAgree
  <2> QED  BY <1>13, <2>1, <2>3 DEF Effect
<1> QED
  BY <1>2, <1>3, <1>4, <1>5, <1>6, <1>7, <1>8, <1>9, <1>10, <1>11, <1>12, <1>13 DEF CallOK, Ops

-----------------------------------------------------------------------------
(* One request, made of both drivers.                                       *)

mem == stores["memory"]
pg == stores["postgres"]

TypeInv ==
    /\ test \in 1 .. Session /\ pc \in Nat \ {0}
    /\ now \in Nat /\ token \in Nat
    /\ made \in Seq(Nat \ {0}) /\ DOMAIN mem.keys = {made[i] : i \in DOMAIN made}

\* What callers hold is there, and is not the store's.
HeldInv ==
    /\ \A d \in Drivers : held[d].in \subseteq held[d].all /\ held[d].out \subseteq held[d].all
    /\ \A c \in held["memory"].all : c[1] \in 1 .. Len(mem.heap)
    /\ Apart(mem, held["memory"].all)

\* A key is created under an API there is, or before there is any; a test
\* that starts after the first key has created one.
ReadyFor(r) ==
    /\ r.op = "CreateKey" =>
          \/ r.lit.plain.api \in DOMAIN mem.apis /\ r.lit.plain.workspace \in DOMAIN mem.workspaces
          \/ DOMAIN mem.apis = {} /\ made = <<>>
    /\ r.op \in ListOps /\ r.arg.token = "afterFirst" => made # <<>>

\* The call made of a request.
CallOf(r, id, ref) ==
    [op |-> r.op, now |-> now, v |-> [plain |-> r.lit.plain, ref |-> ref],
     id |-> IF r.op \in KeyOps /\ r.id # Missing THEN made[r.id]
            ELSE IF id # Missing THEN id ELSE r.id,
     arg |-> IF r.op \in ListOps THEN [r.arg EXCEPT !.token = TokenOf(@)] ELSE r.arg]

Passed(s, r) == Alloc(s.heap, r.lit.contents)
WithHeap(s, h) == [s EXCEPT !.heap = h]
InMemory(r, id) ==
    MemoryCall(WithHeap(mem, Passed(mem, r).heap), CallOf(r, id, Passed(mem, r).ref))
InPostgres(r, id) ==
    PostgresCall(WithHeap(pg, Passed(pg, r).heap), CallOf(r, id, Passed(pg, r).ref))

LEMMA CallForms ==
    ASSUME NEW r, NEW id
    PROVE  /\ Call("memory", r, id).in = Cells(Passed(mem, r).ref)
           /\ Call("memory", r, id).answer = InMemory(r, id)
           /\ Call("postgres", r, id).answer = InPostgres(r, id)
BY DEF Call, InMemory, InPostgres, Passed, WithHeap, CallOf, mem, pg

\* The IDs of the keys made so far.
LEMMA MadeFacts ==
    ASSUME made \in Seq(Nat \ {0})
    PROVE  LET K == {made[i] : i \in DOMAIN made} IN
           /\ IsFiniteSet(K) /\ K \in SUBSET (Nat \ {NoToken})
           /\ made # <<>> => Sorted(K)[1] \in Nat
<1> DEFINE K == {made[i] : i \in DOMAIN made}
<1>1. Len(made) \in Nat /\ DOMAIN made = 1 .. Len(made) /\ \A i \in DOMAIN made : made[i] \in Nat \ {0}
  OBVIOUS
<1>2. IsFiniteSet(DOMAIN made)  BY <1>1, FS_Interval
<1>3. IsFiniteSet(K)
  <2> DEFINE S == DOMAIN made
  <2>1. made \in Surjection(S, K)
    <3>1. made \in [S -> K] /\ \A k \in K : \E i \in S : made[i] = k  OBVIOUS
    <3> QED  BY <3>1, Zenon DEF Surjection
  <2> HIDE DEF K, S
  <2> QED  BY <1>2, <2>1, FS_Surjection DEF S
<1>4. K \in SUBSET (Nat \ {NoToken}) /\ K \in SUBSET Nat  BY <1>1 DEF NoToken
<1>5. ASSUME made # <<>> PROVE Sorted(K)[1] \in Nat
  <2>1. 1 \in DOMAIN made  BY <1>1, <1>5
  <2>2. made[1] \in K  BY <2>1
  <2> HIDE DEF K
  <2>3. Cardinality(K) \in Nat /\ Sorted(K) \in [1 .. Cardinality(K) -> K]
        /\ Rank(K, made[1]) + 1 \in 1 .. Cardinality(K)
    BY <1>3, <1>4, <2>2, SortedFacts
  <2>4. 1 \in 1 .. Cardinality(K)  BY <2>3
  <2> QED  BY <1>4, <2>3, <2>4
<1> QED  BY <1>3, <1>4, <1>5

LEMMA TokenFacts ==
    ASSUME made \in Seq(Nat \ {0}), token \in Nat, NEW t, t = "afterFirst" => made # <<>>
    PROVE  TokenOf(t) \in Nat
<1> DEFINE K == {made[i] : i \in DOMAIN made}
<1>1. made # <<>> => Sorted(K)[1] \in Nat  BY MadeFacts
<1> HIDE DEF K
<1>2. TokenOf(t) = IF t = "next" THEN token
                   ELSE IF t = "afterFirst" THEN Sorted(K)[1] + 1 ELSE NoToken
  BY DEF TokenOf, K
<1> QED  BY <1>1, <1>2 DEF NoToken

LEMMA NewKeyFacts ==
    ASSUME IsFiniteSet(DOMAIN Script), NEW id \in NewIDs("CreateKey")
    PROVE  id \in Nat \ {0} /\ id \notin {made[i] : i \in DOMAIN made}
<1> DEFINE C == {j \in DOMAIN Script : Script[j].req.op = "CreateKey"}
           N == IF test = Session THEN 2 ELSE Cardinality(C)
<1>1. IsFiniteSet(C)  
  <2>1. C \in SUBSET DOMAIN Script  OBVIOUS
  <2> QED  BY <2>1, FS_Subset
<1>2. N \in Nat  BY <1>1, FS_CardinalityType
<1>3. id \in {2 * i : i \in 1 .. N} /\ id \notin {made[i] : i \in DOMAIN made}
  BY DEF NewIDs, NewKeyIDs
<1> HIDE DEF N
<1> QED  BY <1>2, <1>3

\* The store with what the caller passes in.
LEMMA PassedFacts ==
    ASSUME NEW s, DOMAIN s = StoreFields, HeapOK(s.heap), NEW r
    PROVE  LET a == Passed(s, r)  n == WithHeap(s, a.heap) IN
           /\ OnlyHeap(s, n) /\ n.heap = a.heap /\ Len(s.heap) \in Nat
           /\ Len(n.heap) = Len(s.heap) + 1
           /\ DOMAIN a.ref = DOMAIN r.lit.contents /\ Within(n.heap, a.ref)
           /\ Contents(n.heap, a.ref) = [f \in DOMAIN r.lit.contents |-> r.lit.contents[f]]
           /\ \A f \in DOMAIN r.lit.contents : a.ref[f] \in {Nil, Len(s.heap) + 1}
<1> DEFINE c == r.lit.contents  h == s.heap  a == Alloc(h, c)  n == WithHeap(s, a.heap)
<1>1. /\ HeapOK(a.heap) /\ Len(h) \in Nat /\ Len(a.heap) = Len(h) + 1
      /\ Grows(h, a.heap)
      /\ DOMAIN a.ref = DOMAIN c /\ Within(a.heap, a.ref)
      /\ Contents(a.heap, a.ref) = [f \in DOMAIN c |-> c[f]]
      /\ \A f \in DOMAIN c : a.ref[f] \in {Nil, Len(h) + 1}
  <2> HIDE DEF h, c
  <2>1. HeapOK(h)  BY DEF h
  <2> QED  BY <2>1, AllocFacts
<1>2. OnlyHeap(s, n) /\ n.heap = a.heap
  <2> HIDE DEF a
  <2> QED  BY <1>1, HeapSet DEF WithHeap
<1>3. Passed(s, r) = a  BY DEF Passed
<1> HIDE DEF a, n, h, c
<1>4. n = WithHeap(s, a.heap) /\ h = s.heap /\ c = r.lit.contents  BY DEF n, h, c
<1> QED  BY <1>1, <1>2, <1>3, <1>4

\* A reference field leads to what the caller put there.
Holds(heap, ref, contents) ==
    /\ DOMAIN ref = DOMAIN contents
    /\ Contents(heap, ref) = [f \in DOMAIN contents |-> contents[f]]

LEMMA CallIsOK ==
    ASSUME TypeInv, MemoryOK(mem), IsFiniteSet(DOMAIN Script),
           NEW r, RequestOK(r), r.op # "Mutate", ReadyFor(r), NEW id \in NewIDs(r.op),
           NEW n, OnlyHeap(mem, n), NEW ref, Holds(n.heap, ref, r.lit.contents)
    PROVE  /\ CallOK(n, CallOf(r, id, ref)) /\ CallOf(r, id, ref).op = r.op
           /\ CallOf(r, id, ref).v.plain = r.lit.plain
           /\ r.op \notin KeyOps /\ id # Missing => CallOf(r, id, ref).id = id
           /\ r.op = "CreateKey" => id # Missing /\ id \in Nat \ {0}
<1> DEFINE c == CallOf(r, id, ref)
<1>1. /\ c.op = r.op /\ c.v.plain = r.lit.plain /\ c.v.ref = ref
      /\ c.id = IF r.op \in KeyOps /\ r.id # Missing THEN made[r.id]
                ELSE IF id # Missing THEN id ELSE r.id
      /\ c.arg = IF r.op \in ListOps THEN [r.arg EXCEPT !.token = TokenOf(@)] ELSE r.arg
  BY DEF CallOf
<1> HIDE DEF c
<1>2. n.keys = mem.keys /\ n.apis = mem.apis /\ n.workspaces = mem.workspaces
  BY DEF OnlyHeap, Tables
<1>3. /\ r.op \in Ops /\ DOMAIN ref = DOMAIN r.lit.contents
      /\ Contents(n.heap, ref) = [f \in DOMAIN r.lit.contents |-> r.lit.contents[f]]
  BY DEF RequestOK, Ops, Holds
<1>4. r.op \notin KeyOps /\ id # Missing => c.id = id  BY <1>1
<1>5. CASE r.op = "CreateWorkspace"
  <2>1. StructPassed(n, c, "workspaces")
    BY <1>1, <1>3, <1>5 DEF StructPassed, RequestOK, StructOK, PlainOK, PlainFields, RefFields, TimeFields
  <2> QED  BY <1>1, <1>3, <1>4, <1>5, <2>1 DEF CallOK, ListOps, c
<1>6. CASE r.op = "CreateAPI"
  <2>1. StructPassed(n, c, "apis")
    BY <1>1, <1>3, <1>6 DEF StructPassed, RequestOK, StructOK, PlainOK, PlainFields, RefFields, TimeFields
  <2> QED  BY <1>1, <1>3, <1>4, <1>6, <2>1 DEF CallOK, ListOps, c
<1>7. CASE r.op = "CreateKey"
  <2>1. /\ DOMAIN r.lit.plain = KeyFields /\ DOMAIN r.lit.contents = KeyRefs
        /\ r.lit.plain.remaining \in Int /\ r.lit.plain.enabled \in BOOLEAN
        /\ \A f \in {"expiresAt", "lastVerifiedAt"} : r.lit.contents[f] \in Nat \cup {Nil}
    BY <1>7 DEF RequestOK, StructOK
  <2>2. \A f \in KeyRefs \cap TimeFields : Contents(n.heap, ref)[f] \in Nat \cup {Nil}
    <3>1. KeyRefs \cap TimeFields = {"expiresAt", "lastVerifiedAt"}  BY DEF KeyRefs, TimeFields
    <3>2. \A f \in KeyRefs : Contents(n.heap, ref)[f] = r.lit.contents[f]  BY <1>3, <2>1
    <3> QED  BY <2>1, <3>1, <3>2
  <2>3. StructPassed(n, c, "keys")
    BY <1>1, <1>3, <2>1, <2>2 DEF StructPassed, PlainOK, PlainFields, RefFields
  <2>4. id \in NewIDs("CreateKey")  BY <1>7
  <2>5. id \in Nat \ {0} /\ id \notin DOMAIN mem.keys  BY <2>4, NewKeyFacts DEF TypeInv
  <2>6. id # Missing /\ c.id = id  BY <1>4, <1>7, <2>5 DEF Missing, KeyOps
  <2>7. \/ r.lit.plain.api \in DOMAIN n.apis /\ r.lit.plain.workspace \in DOMAIN n.workspaces
        \/ r.lit.plain.api \notin DOMAIN n.apis /\ DOMAIN n.keys = {}
    BY <1>2, <1>7 DEF ReadyFor, TypeInv
  <2> QED  BY <1>1, <1>2, <1>3, <1>4, <1>7, <2>3, <2>5, <2>6, <2>7 DEF CallOK, ListOps, c
<1>8. CASE r.op \in ListOps
  <2>1. DOMAIN r.arg = {"api", "owner", "size", "token"} /\ r.arg.size \in Int
    BY <1>8 DEF RequestOK, ListOps
  <2>2. c.arg.size = r.arg.size /\ c.arg.token = TokenOf(r.arg.token)  BY <1>1, <1>8, <2>1
  <2>3. TokenOf(r.arg.token) \in Nat  BY <1>8, TokenFacts DEF ReadyFor, TypeInv
  <2>4. IsFiniteSet(DOMAIN n.keys) /\ DOMAIN n.keys \subseteq Nat \ {NoToken}
    BY <1>2, MadeFacts DEF TypeInv
  <2> QED  BY <1>1, <1>3, <1>4, <1>8, <2>1, <2>2, <2>3, <2>4 DEF CallOK, ListOps, c
<1>9. CASE r.op \in Ops \ ({"CreateWorkspace", "CreateAPI", "CreateKey"} \cup ListOps)
  <2>1. /\ r.op = "RotateKey" => DOMAIN r.lit.contents = {"hash"}
        /\ r.op = "TouchLastVerified" => r.arg \in Nat
    BY DEF RequestOK
  <2> QED  BY <1>1, <1>3, <1>4, <1>9, <2>1 DEF CallOK, c
<1> QED  BY <1>3, <1>5, <1>6, <1>7, <1>8, <1>9

LEMMA EffectAfter ==
    ASSUME NEW m, NEW n, OnlyHeap(m, n), NEW c, NEW a, Effect(n, c, a)
    PROVE  Effect(m, c, a)
<1>1. \A t \in Tables : n[t] = m[t]  BY DEF OnlyHeap
<1>2. n.workspaces = m.workspaces  BY <1>1 DEF Tables
<1>3. \A s : Kept(n, s) => Kept(m, s)  BY <1>1 DEF Kept
<1>4. \A s, t, id : Adds(n, s, t, id) => Adds(m, s, t, id)  BY <1>1 DEF Adds
<1>5. \A t, id : Tracks(n, a, t, id) => Tracks(m, a, t, id)  BY <1>3, <1>4 DEF Tracks
<1> QED  BY <1>2, <1>3, <1>5 DEF Effect

\* Both drivers answer alike, and what the caller passed in stays its own.
LEMMA AskedAgree ==
    ASSUME TypeInv, Pair(mem, pg), IsFiniteSet(DOMAIN Script),
           NEW r, RequestOK(r), r.op # "Mutate", ReadyFor(r), NEW id \in NewIDs(r.op)
    PROVE  LET a == InMemory(r, id)  in == Cells(Passed(mem, r).ref) IN
           /\ Agree(r.op, mem, a, InPostgres(r, id))
           /\ Effect(mem, CallOf(r, id, Passed(mem, r).ref), a)
           /\ Len(mem.heap) + 1 <= Len(a.s.heap)
           /\ \A c \in in : c[1] = Len(mem.heap) + 1
           /\ Apart(a.s, in)
<1> DEFINE c == r.lit.contents  i == Passed(mem, r)  j == Passed(pg, r)
           n == WithHeap(mem, i.heap)  q == WithHeap(pg, j.heap)
           x == CallOf(r, id, i.ref)  y == CallOf(r, id, j.ref)
           a == InMemory(r, id)  b == InPostgres(r, id)
<1>1. MemoryOK(mem) /\ PostgresOK(pg) /\ DOMAIN mem = StoreFields /\ DOMAIN pg = StoreFields
      /\ HeapOK(mem.heap) /\ HeapOK(pg.heap)
  BY DEF Pair, MemoryOK, PostgresOK
<1>2. /\ OnlyHeap(mem, n) /\ n.heap = i.heap /\ Len(mem.heap) \in Nat
      /\ Len(n.heap) = Len(mem.heap) + 1
      /\ DOMAIN i.ref = DOMAIN c /\ Within(n.heap, i.ref)
      /\ Contents(n.heap, i.ref) = [f \in DOMAIN c |-> c[f]]
      /\ \A f \in DOMAIN c : i.ref[f] \in {Nil, Len(mem.heap) + 1}
  <2> QED  BY <1>1, PassedFacts
<1>3. /\ OnlyHeap(pg, q) /\ DOMAIN j.ref = DOMAIN c
      /\ Contents(q.heap, j.ref) = [f \in DOMAIN c |-> c[f]]
  <2> QED  BY <1>1, PassedFacts
<1> HIDE DEF i, j, n, q, c
<1>4. Pair(n, q) /\ NewRefs(mem, n)
  <2> QED  BY <1>2, <1>3, OnlyHeapPair
<1>5. CallOK(n, x) /\ x.op = r.op
  <2>1. Holds(n.heap, i.ref, r.lit.contents)  BY <1>2 DEF c, Holds
  <2>2. OnlyHeap(mem, n) /\ MemoryOK(mem)  BY <1>1, <1>2
  <2> QED  BY <2>1, <2>2, CallIsOK
<1>6. SameCall(n, q, x, y)
  <2>1. x.v.ref = i.ref /\ y.v.ref = j.ref /\ x.now = now /\ x.op = y.op /\ x.id = y.id
        /\ x.now = y.now /\ x.arg = y.arg /\ x.v.plain = y.v.plain
    BY DEF CallOf
  <2> HIDE DEF x, y
  <2>2. now \in Nat  BY DEF TypeInv
  <2> QED  BY <1>2, <1>3, <2>1, <2>2 DEF SameCall
<1> HIDE DEF x, y
<1>7. a = MemoryCall(n, x) /\ b = PostgresCall(q, y)
  BY DEF InMemory, InPostgres, n, q, x, y, i, j
<1> HIDE DEF a, b
<1>8. Agree(r.op, n, a, b) /\ Effect(n, x, a)
  BY <1>4, <1>5, <1>6, <1>7, CallAgree
<1>9. HeapOK(n.heap) /\ Grows(mem.heap, n.heap)  BY <1>2 DEF OnlyHeap
<1>10. Agree(r.op, mem, a, b)
  <2> QED  BY <1>1, <1>4, <1>8, <1>9, AgreeAfter
<1>11. Effect(mem, x, a)
  <2> QED  BY <1>2, <1>8, EffectAfter
<1>12. Len(a.s.heap) \in Nat /\ Len(mem.heap) + 1 <= Len(a.s.heap)
  <2>1. HeapOK(a.s.heap) /\ Grows(n.heap, a.s.heap)  BY <1>8 DEF Agree, Pair, MemoryOK
  <2>2. Len(a.s.heap) \in Nat  BY <2>1, HeapLen
  <2> QED  BY <1>2, <2>1, <2>2 DEF Grows
<1>13. \A e \in Cells(i.ref) : e[1] = Len(mem.heap) + 1
  <2>1. \A e \in Cells(i.ref) : \E f \in DOMAIN i.ref : i.ref[f] # Nil /\ e = <<i.ref[f], f>>
    BY DEF Cells
  <2> QED  BY <1>2, <2>1
<1>14. Apart(a.s, Cells(i.ref))
  <2> SUFFICES ASSUME NEW t \in Tables, NEW k \in DOMAIN a.s[t], NEW f \in DOMAIN a.s[t][k].ref,
                      a.s[t][k].ref[f] # Nil
               PROVE  a.s[t][k].ref[f] # Len(mem.heap) + 1
    <3>1. \A e1, f : <<e1, f>> \in Cells(i.ref) => e1 = Len(mem.heap) + 1  BY <1>13
    <3> QED  BY <3>1 DEF Apart
  <2> DEFINE ref == a.s[t][k].ref[f]
  <2>1. \/ ref \in Len(n.heap) + 1 .. Len(a.s.heap)
        \/ k \in DOMAIN n[t] /\ f \in DOMAIN n[t][k].ref /\ ref = n[t][k].ref[f]
    BY <1>8 DEF Agree, NewRefs
  <2>2. n[t] = mem[t]  BY <1>2 DEF OnlyHeap
  <2>3. \/ ref \in Len(mem.heap) + 2 .. Len(a.s.heap)
        \/ ref \in 1 .. Len(mem.heap)
    <3>1. CASE k \in DOMAIN n[t] /\ f \in DOMAIN n[t][k].ref /\ ref = n[t][k].ref[f]
      BY <1>1, <2>2, <3>1, RefsBelow
    <3> QED  BY <1>2, <1>12, <2>1, <3>1
  <2> QED  BY <1>2, <1>12, <2>3
<1> QED  BY <1>10, <1>11, <1>12, <1>13, <1>14 DEF a, b, x, i

\* Ask, with the two drivers apart.
AskedWith(r, id) ==
    LET a == InMemory(r, id)
        b == InPostgres(r, id)
        in == Cells(Passed(mem, r).ref)
    IN /\ mem' = a.s /\ pg' = b.s
       /\ answer'["memory"] = [err |-> a.err, fields |-> Fields(r.op, a)]
       /\ answer'["postgres"] = [err |-> b.err, fields |-> Fields(r.op, b)]
       /\ held'["memory"] = [in |-> in, out |-> OutCells(a),
                             all |-> held["memory"].all \cup in \cup OutCells(a)]
       /\ \A d \in Drivers : held'[d].in \subseteq held'[d].all /\ held'[d].out \subseteq held'[d].all
       /\ token' = IF r.op \in ListOps THEN a.num ELSE token
       /\ made' = IF r.op = "CreateKey" /\ a.err = "nil" THEN Append(made, id) ELSE made
       /\ now' = now + 1

LEMMA AskForm ==
    ASSUME NEW r, Ask(r)
    PROVE  \E id \in NewIDs(r.op) : AskedWith(r, id)
<1>1. PICK id \in NewIDs(r.op) :
        LET call == [d \in Drivers |-> Call(d, r, id)]
            a == [d \in Drivers |-> call[d].answer]
            ids == IF r.op = "CreateKey" /\ a["memory"].err = "nil"
                   THEN Append(made, id) ELSE made
        IN /\ stores' = [d \in Drivers |-> a[d].s]
           /\ answer' = [d \in Drivers |-> [err |-> a[d].err, fields |-> Fields(r.op, a[d])]]
           /\ held' = [d \in Drivers |->
                         LET out == OutCells(a[d]) IN
                         [in |-> call[d].in, out |-> out,
                          all |-> held[d].all \cup call[d].in \cup out]]
           /\ token' = IF r.op \in ListOps THEN a["memory"].num ELSE token
           /\ made' = ids
           /\ now' = now + 1
  BY Zenon DEF Ask
<1> DEFINE a(d) == Call(d, r, id).answer  in(d) == Call(d, r, id).in
<1>2. /\ stores' = [d \in Drivers |-> a(d).s]
      /\ answer' = [d \in Drivers |-> [err |-> a(d).err, fields |-> Fields(r.op, a(d))]]
      /\ held' = [d \in Drivers |-> [in |-> in(d), out |-> OutCells(a(d)),
                                     all |-> held[d].all \cup in(d) \cup OutCells(a(d))]]
      /\ token' = IF r.op \in ListOps THEN a("memory").num ELSE token
      /\ made' = IF r.op = "CreateKey" /\ a("memory").err = "nil" THEN Append(made, id) ELSE made
      /\ now' = now + 1
  BY <1>1 DEF Drivers
<1> HIDE DEF a, in
<1>3. /\ in("memory") = Cells(Passed(mem, r).ref)
      /\ a("memory") = InMemory(r, id) /\ a("postgres") = InPostgres(r, id)
  BY CallForms DEF a, in
<1>4. \A d \in Drivers : held'[d].in \subseteq held'[d].all /\ held'[d].out \subseteq held'[d].all
  BY <1>2
<1>5. "memory" \in Drivers /\ "postgres" \in Drivers  BY DEF Drivers
<1>6. AskedWith(r, id)  BY <1>2, <1>3, <1>4, <1>5 DEF AskedWith, mem, pg
<1> QED  BY <1>6

\* What a request does to the tables and the list of the keys made.
Outcome(r) ==
    LET W == DOMAIN mem.workspaces
        A == DOMAIN mem.apis
    IN /\ W \subseteq DOMAIN mem'.workspaces /\ A \subseteq DOMAIN mem'.apis
       /\ made # <<>> => made' # <<>>
       /\ r.op = "CreateWorkspace" /\ Cardinality(W) + 1 # Missing =>
             DOMAIN mem'.workspaces = W \cup {Cardinality(W) + 1} /\ DOMAIN mem'.apis = A
       /\ r.op = "CreateAPI" /\ r.lit.plain.workspace \in W /\ Cardinality(A) + 1 # Missing =>
             DOMAIN mem'.workspaces = W /\ DOMAIN mem'.apis = A \cup {Cardinality(A) + 1}
       /\ r.op = "CreateKey" /\ answer'["memory"].err = "nil" => made' # <<>>
       /\ r.op \in ListOps =>
             DOMAIN mem'.workspaces = W /\ DOMAIN mem'.apis = A /\ made' = made

Stays ==
    /\ now' \in Nat /\ token' \in Nat /\ made' \in Seq(Nat \ {0})
    /\ DOMAIN mem'.keys = {made'[i] : i \in DOMAIN made'}
    /\ Pair(mem', pg') /\ HeldInv' /\ AnsweredAlike'

LEMMA AppendFacts ==
    ASSUME NEW S, NEW s \in Seq(S), NEW x \in S
    PROVE  /\ Append(s, x) \in Seq(S) /\ Append(s, x) # <<>>
           /\ {Append(s, x)[i] : i \in DOMAIN Append(s, x)} = {s[i] : i \in DOMAIN s} \cup {x}
<1> DEFINE n == Append(s, x)
<1>1. /\ n \in Seq(S) /\ Len(n) = Len(s) + 1 /\ DOMAIN s = 1 .. Len(s) /\ Len(s) \in Nat
      /\ DOMAIN n = 1 .. Len(s) + 1 /\ n[Len(s) + 1] = x
      /\ \A i \in DOMAIN s : n[i] = s[i]
  OBVIOUS
<1> HIDE DEF n
<1>2. n # <<>>  BY <1>1
<1>3. DOMAIN n = DOMAIN s \cup {Len(s) + 1}  BY <1>1
<1>4. {n[i] : i \in DOMAIN n} = {s[i] : i \in DOMAIN s} \cup {x}  BY <1>1, <1>3
<1> QED  BY <1>1, <1>2, <1>4 DEF n

LEMMA AskStep ==
    ASSUME TypeInv, Pair(mem, pg), HeldInv, IsFiniteSet(DOMAIN Script),
           NEW r, RequestOK(r), r.op # "Mutate", ReadyFor(r), Ask(r)
    PROVE  Stays /\ Outcome(r)
<1>1. PICK id \in NewIDs(r.op) : AskedWith(r, id)  BY AskForm
<1> DEFINE a == InMemory(r, id)  b == InPostgres(r, id)  in == Cells(Passed(mem, r).ref)
           c == CallOf(r, id, Passed(mem, r).ref)
<1>2. /\ Agree(r.op, mem, a, b)
      /\ Effect(mem, c, a)
      /\ Len(mem.heap) + 1 <= Len(a.s.heap)
      /\ \A e \in in : e[1] = Len(mem.heap) + 1
      /\ Apart(a.s, in)
  BY AskedAgree
<1>3. /\ mem' = a.s /\ pg' = b.s
      /\ answer'["memory"] = [err |-> a.err, fields |-> Fields(r.op, a)]
      /\ answer'["postgres"] = [err |-> b.err, fields |-> Fields(r.op, b)]
      /\ held'["memory"] = [in |-> in, out |-> OutCells(a),
                            all |-> held["memory"].all \cup in \cup OutCells(a)]
      /\ \A d \in Drivers : held'[d].in \subseteq held'[d].all /\ held'[d].out \subseteq held'[d].all
      /\ token' = IF r.op \in ListOps THEN a.num ELSE token
      /\ made' = IF r.op = "CreateKey" /\ a.err = "nil" THEN Append(made, id) ELSE made
      /\ now' = now + 1
  BY <1>1 DEF AskedWith
<1>4. /\ c.op = r.op /\ c.v.plain = r.lit.plain
      /\ r.op \notin KeyOps /\ id # Missing => c.id = id
      /\ r.op = "CreateKey" => id # Missing /\ id \in Nat \ {0}
  <2>1. MemoryOK(mem) /\ DOMAIN mem = StoreFields /\ HeapOK(mem.heap)  BY DEF Pair, MemoryOK
  <2> DEFINE n == WithHeap(mem, Passed(mem, r).heap)
  <2>2. OnlyHeap(mem, n) /\ Holds(n.heap, Passed(mem, r).ref, r.lit.contents)
    BY <2>1, PassedFacts DEF Holds
  <2> HIDE DEF n
  <2> QED  BY <2>1, <2>2, CallIsOK
<1> HIDE DEF a, b, in, c
<1>5. Pair(mem', pg')  BY <1>2, <1>3 DEF Agree
<1>6. AnsweredAlike'  BY <1>2, <1>3 DEF Agree, AnsweredAlike
<1>7. HeldInv'
  <2>1. Len(mem.heap) \in Nat /\ Len(a.s.heap) \in Nat
    <3>1. HeapOK(mem.heap) /\ HeapOK(a.s.heap)  BY <1>2 DEF Agree, Pair, MemoryOK
    <3> QED  BY <3>1, HeapLen
  <2>2. held'["memory"].all = held["memory"].all \cup in \cup OutCells(a)  BY <1>3
  <2>3. \A e \in held["memory"].all : e[1] \in 1 .. Len(mem.heap)  BY DEF HeldInv
  <2>4. \A e \in held'["memory"].all : e[1] \in 1 .. Len(a.s.heap)
    BY <1>2, <2>1, <2>2, <2>3 DEF Agree
  <2>5. Apart(a.s, held["memory"].all)
    <3> SUFFICES ASSUME NEW t \in Tables, NEW k \in DOMAIN a.s[t], NEW f \in DOMAIN a.s[t][k].ref,
                        a.s[t][k].ref[f] # Nil
                 PROVE  <<a.s[t][k].ref[f], f>> \notin held["memory"].all
      BY DEF Apart
    <3> DEFINE ref == a.s[t][k].ref[f]
    <3>1. \/ ref \in Len(mem.heap) + 1 .. Len(a.s.heap)
          \/ k \in DOMAIN mem[t] /\ f \in DOMAIN mem[t][k].ref /\ ref = mem[t][k].ref[f]
      BY <1>2 DEF Agree, NewRefs
    <3> HIDE DEF ref
    <3>2. CASE ref \in Len(mem.heap) + 1 .. Len(a.s.heap)
      <4>1. \A e \in held["memory"].all : e[1] # ref  BY <2>1, <2>3, <3>2
      <4>2. <<ref, f>>[1] = ref  OBVIOUS
      <4> QED  BY <4>1, <4>2 DEF ref
    <3>3. CASE k \in DOMAIN mem[t] /\ f \in DOMAIN mem[t][k].ref /\ ref = mem[t][k].ref[f]
      <4>1. ref # Nil  BY DEF ref
      <4> QED  BY <3>3, <4>1 DEF HeldInv, Apart, ref
    <3> QED  BY <3>1, <3>2, <3>3
  <2>6. Apart(a.s, OutCells(a))  BY <1>2 DEF Agree
  <2>7. Apart(a.s, held'["memory"].all)  BY <1>2, <2>2, <2>5, <2>6 DEF Apart
  <2> QED  BY <1>3, <2>4, <2>7 DEF HeldInv
<1>8. now' \in Nat  BY <1>3 DEF TypeInv
<1>9. token' \in Nat
  <2>1. r.op \in ListOps => a.num \in Nat
    BY <1>2, <1>4 DEF Effect, ListOps
  <2> QED  BY <1>3, <2>1 DEF TypeInv
<1>10. /\ made' \in Seq(Nat \ {0})
       /\ made # <<>> => made' # <<>>
       /\ DOMAIN a.s.keys = {made'[i] : i \in DOMAIN made'}
       /\ r.op = "CreateKey" /\ a.err = "nil" => made' # <<>>
  <2>1. made \in Seq(Nat \ {0}) /\ DOMAIN mem.keys = {made[i] : i \in DOMAIN made}
    BY DEF TypeInv
  <2>2. CASE r.op = "CreateKey" /\ a.err = "nil"
    <3>1. DOMAIN a.s.keys = DOMAIN mem.keys \cup {id}
      <4>1. c.op = "CreateKey" /\ c.id = id  BY <1>4, <2>2 DEF KeyOps
      <4>2. Tracks(mem, a, "keys", id)  BY <1>2, <4>1 DEF Effect, ListOps
      <4>3. Adds(mem, a.s, "keys", id)  BY <2>2, <4>2 DEF Tracks
      <4> QED  BY <4>3 DEF Adds, Tables
    <3>2. made' = Append(made, id) /\ id \in Nat \ {0}  BY <1>3, <1>4, <2>2
    <3>3. /\ Append(made, id) \in Seq(Nat \ {0}) /\ Append(made, id) # <<>>
          /\ {Append(made, id)[i] : i \in DOMAIN Append(made, id)} =
                {made[i] : i \in DOMAIN made} \cup {id}
      BY ONLY <2>1, <3>2, AppendFacts
    <3> QED  BY <2>1, <3>1, <3>2, <3>3
  <2>3. CASE ~(r.op = "CreateKey" /\ a.err = "nil")
    <3>1. DOMAIN a.s["keys"] = DOMAIN mem["keys"]
      BY <1>2, <1>4, <2>3 DEF Effect, Tracks, Adds, Kept, Tables
    <3> QED  BY <1>3, <2>1, <2>3, <3>1
  <2> QED  BY <2>2, <2>3
<1>11. Stays
  <2>1. DOMAIN mem'.keys = {made'[i] : i \in DOMAIN made'}  BY <1>3, <1>10
  <2>2. made' \in Seq(Nat \ {0})  BY <1>10
  <2> QED  BY <1>5, <1>6, <1>7, <1>8, <1>9, <2>1, <2>2, Zenon DEF Stays
<1>12. Outcome(r)
  <2>1. DOMAIN mem["workspaces"] \subseteq DOMAIN a.s["workspaces"]
        /\ DOMAIN mem["apis"] \subseteq DOMAIN a.s["apis"]
    BY <1>2, <1>4 DEF Effect, Tracks, Adds, Kept, Tables
  <2>2. r.op = "CreateWorkspace" /\ Cardinality(DOMAIN mem.workspaces) + 1 # Missing =>
          /\ DOMAIN a.s["workspaces"] = DOMAIN mem["workspaces"]
                                          \cup {Cardinality(DOMAIN mem.workspaces) + 1}
          /\ DOMAIN a.s["apis"] = DOMAIN mem["apis"]
    <3>1. r.op = "CreateWorkspace" => id = Cardinality(DOMAIN mem.workspaces) + 1
      BY DEF NewIDs, mem
    <3>2. ASSUME r.op = "CreateWorkspace", Cardinality(DOMAIN mem.workspaces) + 1 # Missing
          PROVE  Adds(mem, a.s, "workspaces", Cardinality(DOMAIN mem.workspaces) + 1)
      <4>1. c.op = "CreateWorkspace" /\ c.id = id  BY <1>4, <3>1, <3>2 DEF KeyOps
      <4>2. a.err = "nil" /\ Tracks(mem, a, "workspaces", id)  BY <1>2, <1>4, <3>2, <4>1 DEF Effect, ListOps
      <4> QED  BY <3>1, <3>2, <4>2 DEF Tracks
    <3> QED  BY <3>2 DEF Adds, Tables
  <2>3. r.op = "CreateAPI" /\ r.lit.plain.workspace \in DOMAIN mem.workspaces
          /\ Cardinality(DOMAIN mem.apis) + 1 # Missing =>
          /\ DOMAIN a.s["workspaces"] = DOMAIN mem["workspaces"]
          /\ DOMAIN a.s["apis"] = DOMAIN mem["apis"] \cup {Cardinality(DOMAIN mem.apis) + 1}
    <3>1. r.op = "CreateAPI" => id = Cardinality(DOMAIN mem.apis) + 1
      BY DEF NewIDs, mem
    <3>2. ASSUME r.op = "CreateAPI", Cardinality(DOMAIN mem.apis) + 1 # Missing,
                 r.lit.plain.workspace \in DOMAIN mem.workspaces
          PROVE  Adds(mem, a.s, "apis", Cardinality(DOMAIN mem.apis) + 1)
      <4>1. c.op = "CreateAPI" /\ c.id = id  BY <1>4, <3>1, <3>2 DEF KeyOps
      <4>2. a.err = "nil" /\ Tracks(mem, a, "apis", id)  BY <1>2, <1>4, <3>2, <4>1 DEF Effect, ListOps
      <4> QED  BY <3>1, <3>2, <4>2 DEF Tracks
    <3> QED  BY <3>2 DEF Adds, Tables
  <2>4. r.op \in ListOps =>
          /\ DOMAIN a.s["workspaces"] = DOMAIN mem["workspaces"]
          /\ DOMAIN a.s["apis"] = DOMAIN mem["apis"] /\ made' = made
    BY <1>2, <1>3, <1>4 DEF Effect, Kept, Tables, ListOps
  <2>5. answer'["memory"].err = a.err  BY <1>3
  <2> QED  BY <1>3, <1>10, <2>1, <2>2, <2>3, <2>4, <2>5 DEF Outcome
<1> QED  BY <1>11, <1>12

-----------------------------------------------------------------------------
(* The scripts.                                                             *)

SeededFirst(s) == Len(s) >= 2 /\ s[1] = seedWorkspace /\ s[2] = seedAPI

SecondAPI(s) ==
    /\ SeededFirst(s) /\ Len(s) >= 3 /\ s[3].req.op = "CreateAPI"
    /\ s[3].req.lit.plain.workspace = 1

KeyFirst(s) == Len(s) >= 3 /\ s[3].req.op = "CreateKey" /\ s[3].err = "nil"

\* A test creates keys under an API it has created, or before any.
Placed(s, i) ==
    /\ s[i].req.op = "CreateKey" =>
          \/ i = 1
          \/ /\ SeededFirst(s) /\ i > 2 /\ s[i].req.lit.plain.workspace = 1
             /\ \/ s[i].req.lit.plain.api = 1
                \/ s[i].req.lit.plain.api = 2 /\ SecondAPI(s) /\ i > 3
    /\ s[i].req.op \in ListOps /\ s[i].req.arg.token = "afterFirst" =>
          KeyFirst(s) /\ i > 3

ScriptOK(s) ==
    /\ Len(s) \in Nat /\ DOMAIN s = 1 .. Len(s)
    /\ \A i \in DOMAIN s : RequestOK(s[i].req) /\ Placed(s, i)

\* A step that fits any place: keys, if there are any, are of the first API.
Simple(k, step) ==
    LET r == step.req IN
    /\ RequestOK(r)
    /\ r.op = "CreateKey" => k = "keys" /\ r.lit.plain.workspace = 1 /\ r.lit.plain.api = 1
    /\ r.op \in ListOps => r.arg.token # "afterFirst"

AllSimple(k, s) ==
    /\ Len(s) \in Nat /\ DOMAIN s = 1 .. Len(s) /\ s = [i \in 1 .. Len(s) |-> s[i]]
    /\ \A i \in 1 .. Len(s) : Simple(k, s[i])

LEMMA OpsDiffer ==
    /\ ListOps = {"ListKeys", "Walk"}
    /\ \A op \in {"GetWorkspace", "GetAPI", "GetKeyByID", "RevokeKey", "DecrementRemainingUses"} :
          op \notin ListOps \cup {"CreateWorkspace", "CreateAPI", "CreateKey", "RotateKey",
                                  "TouchLastVerified", "Mutate"}
BY DEF ListOps

LEMMA TimesAreNat == Soon \in Nat /\ Lately \in Nat
BY PrecisionAssumption DEF Soon, Lately, Hour

LEMMA PlainSteps ==
    ASSUME NEW k, NEW err, NEW want
    PROVE  /\ \A m : Simple(k, Step(newWorkspace(m), err, want))
           /\ \A w, n, m : Simple(k, Step(newAPI(w, n, m), err, want))
           /\ \A op \in {"GetWorkspace", "GetAPI", "GetKeyByID", "RevokeKey",
                         "DecrementRemainingUses"} :
                 \A id : Simple(k, Step(ByID(op, id), err, want))
           /\ \A h : Simple(k, Step(GetKeyByHash(h), err, want))
           /\ \A id, h : Simple(k, Step(RotateKey(id, h), err, want))
           /\ \A id : Simple(k, Step(TouchLastVerified(id, Lately), err, want))
           /\ \A x \in {"in", "out", "all"} : Simple(k, Mutate(x))
           /\ \A size \in Int : \A api, owner, tok : tok # "afterFirst" =>
                 Simple(k, Step(ListKeys(api, owner, size, tok), err, want))
           /\ \A size \in Int : \A api, owner, tok : tok # "afterFirst" =>
                 Simple(k, Step([ListKeys(api, owner, size, tok) EXCEPT !.op = "Walk"], err, want))
<1> USE DEF Simple, Step, Request, RequestOK, StructOK
<1>1. \A m : Simple(k, Step(newWorkspace(m), err, want))
  BY OpsDiffer DEF newWorkspace, WorkspaceFields
<1>2. \A w, n, m : Simple(k, Step(newAPI(w, n, m), err, want))
  BY OpsDiffer DEF newAPI, APIFields
<1>3. \A op \in {"GetWorkspace", "GetAPI", "GetKeyByID", "RevokeKey",
                 "DecrementRemainingUses"} : \A id : Simple(k, Step(ByID(op, id), err, want))
  BY OpsDiffer DEF ByID
<1>4. \A h : Simple(k, Step(GetKeyByHash(h), err, want))  BY OpsDiffer DEF GetKeyByHash
<1>5. \A id, h : Simple(k, Step(RotateKey(id, h), err, want))  BY OpsDiffer DEF RotateKey
<1>6. \A id : Simple(k, Step(TouchLastVerified(id, Lately), err, want))
  BY OpsDiffer, TimesAreNat DEF TouchLastVerified
<1>7. \A x \in {"in", "out", "all"} : Simple(k, Mutate(x))  BY OpsDiffer DEF Mutate, Must
<1>8. \A size \in Int : \A api, owner, tok : tok # "afterFirst" =>
         Simple(k, Step(ListKeys(api, owner, size, tok), err, want))
  BY OpsDiffer DEF ListKeys
<1>9. \A size \in Int : \A api, owner, tok : tok # "afterFirst" =>
         Simple(k, Step([ListKeys(api, owner, size, tok) EXCEPT !.op = "Walk"], err, want))
  BY OpsDiffer DEF ListKeys
<1> HIDE DEF Simple, Step, Request, RequestOK, StructOK
<1> QED  BY <1>1, <1>2, <1>3, <1>4, <1>5, <1>6, <1>7, <1>8, <1>9

LEMMA KeySteps ==
    ASSUME NEW err, NEW want
    PROVE  /\ \A api, w, o, h : RequestOK(newKey(api, w, o, h))
           /\ \A o, h : Simple("keys", Step(newKey(1, 1, o, h), err, want))
           /\ \A h : Simple("keys", Step(UserKey(h), err, want))
           /\ \A n \in Int : \A h : Simple("keys", Step(WithUses(UserKey(h), n), err, want))
           /\ Simple("keys", Step(KeyLike(Full), err, want))
           /\ Simple("keys", Step(KeyLike(Unverified), err, want))
<1>1. ASSUME NEW api, NEW w, NEW o, NEW h PROVE RequestOK(newKey(api, w, o, h))
  <2> DEFINE r == newKey(api, w, o, h)
  <2>1. /\ DOMAIN r = {"op", "id", "lit", "arg"} /\ DOMAIN r.lit = {"plain", "contents"}
        /\ r.op = "CreateKey" /\ DOMAIN r.lit.plain = KeyFields
        /\ r.lit.plain.remaining = -1 /\ r.lit.plain.enabled = TRUE
    BY DEF newKey, Request, KeyFields
  <2>2. /\ DOMAIN r.lit.contents = KeyRefs
        /\ r.lit.contents["expiresAt"] = Nil /\ r.lit.contents["lastVerifiedAt"] = Nil
    BY DEF newKey, Request, KeyRefs
  <2> HIDE DEF r
  <2>3. r.lit.plain.remaining \in Int /\ r.lit.plain.enabled \in BOOLEAN
    <3>1. r.lit.plain.remaining \in Int  BY <2>1
    <3>2. r.lit.plain.enabled \in BOOLEAN  BY <2>1, Zenon
    <3> QED  BY <3>1, <3>2
  <2>4. \A f \in {"expiresAt", "lastVerifiedAt"} : r.lit.contents[f] \in Nat \cup {Nil}  BY <2>2
  <2>5. RequestOK(r)  BY <2>1, <2>2, <2>3, <2>4 DEF RequestOK, StructOK
  <2> QED  BY <2>5 DEF r
<1>2. \A o, h : Simple("keys", Step(newKey(1, 1, o, h), err, want))
  <2>1. \A o, h : LET r == newKey(1, 1, o, h) IN
          r.op = "CreateKey" /\ r.lit.plain.workspace = 1 /\ r.lit.plain.api = 1
    BY DEF newKey, Request
  <2> QED  BY <1>1, <2>1, OpsDiffer DEF Simple, Step
<1>3. \A h : Simple("keys", Step(UserKey(h), err, want))  BY <1>2 DEF UserKey
<1>4. ASSUME NEW n \in Int, NEW h PROVE Simple("keys", Step(WithUses(UserKey(h), n), err, want))
  <2> DEFINE u == UserKey(h)  r == WithUses(u, n)
  <2>1. RequestOK(u) /\ u.op = "CreateKey" /\ u.lit.plain.workspace = 1 /\ u.lit.plain.api = 1
    BY <1>3, OpsDiffer DEF Simple, Step, UserKey, newKey, Request
  <2> HIDE DEF u
  <2>2. /\ DOMAIN u = {"op", "id", "lit", "arg"} /\ DOMAIN u.lit = {"plain", "contents"}
        /\ DOMAIN u.lit.plain = KeyFields /\ DOMAIN u.lit.contents = KeyRefs
        /\ u.lit.plain.enabled \in BOOLEAN
        /\ \A f \in {"expiresAt", "lastVerifiedAt"} : u.lit.contents[f] \in Nat \cup {Nil}
    BY <2>1 DEF RequestOK, StructOK
  <2>3. /\ DOMAIN r = {"op", "id", "lit", "arg"} /\ DOMAIN r.lit = {"plain", "contents"}
        /\ r.op = "CreateKey" /\ DOMAIN r.lit.plain = KeyFields /\ r.lit.contents = u.lit.contents
        /\ r.lit.plain.remaining = n /\ r.lit.plain.enabled = u.lit.plain.enabled
        /\ r.lit.plain.workspace = 1 /\ r.lit.plain.api = 1
    BY <2>1, <2>2 DEF WithUses, KeyFields
  <2> HIDE DEF r
  <2>4. RequestOK(r)  BY <2>2, <2>3 DEF RequestOK, StructOK
  <2>5. Simple("keys", Step(r, err, want))  BY <2>3, <2>4, OpsDiffer DEF Simple, Step
  <2> QED  BY <2>5 DEF r, u
<1>5. ASSUME NEW h, NEW p, NEW at \in Nat \cup {Nil}
      PROVE  Simple("keys", Step(KeyLike(keySnapshot(h, p, at)), err, want))
  <2> DEFINE c == keySnapshot(h, p, at)  u == newKey(1, 1, "user_1", c.hash)  r == KeyLike(c)
  <2>1. /\ DOMAIN c = KeyRefs /\ c["expiresAt"] = Soon /\ c["lastVerifiedAt"] = at
    BY DEF keySnapshot, KeyRefs
  <2> HIDE DEF c
  <2>2. RequestOK(u) /\ u.op = "CreateKey" /\ u.lit.plain.workspace = 1 /\ u.lit.plain.api = 1
    BY <1>2, OpsDiffer DEF Simple, Step, newKey, Request
  <2> HIDE DEF u
  <2>3. /\ DOMAIN u = {"op", "id", "lit", "arg"} /\ DOMAIN u.lit = {"plain", "contents"}
        /\ DOMAIN u.lit.plain = KeyFields
        /\ u.lit.plain.enabled \in BOOLEAN /\ u.lit.plain.remaining \in Int
    BY <2>2 DEF RequestOK, StructOK
  <2>4. r = [u EXCEPT !.lit.contents = c]  BY DEF KeyLike, u
  <2> HIDE DEF r
  <2>5. /\ DOMAIN r = {"op", "id", "lit", "arg"} /\ DOMAIN r.lit = {"plain", "contents"}
        /\ r.op = "CreateKey" /\ r.lit.plain = u.lit.plain /\ r.lit.contents = c
    BY <2>2, <2>3, <2>4
  <2>6. RequestOK(r)  BY <2>1, <2>3, <2>5, TimesAreNat DEF RequestOK, StructOK
  <2>7. Simple("keys", Step(r, err, want))  BY <2>2, <2>5, <2>6, OpsDiffer DEF Simple, Step
  <2> QED  BY <2>7 DEF r, c
<1>6. Simple("keys", Step(KeyLike(Full), err, want)) /\ Simple("keys", Step(KeyLike(Unverified), err, want))
  BY <1>5, TimesAreNat DEF Full, Unverified
<1> QED  BY <1>1, <1>2, <1>3, <1>4, <1>6

LEMMA FewSteps ==
    ASSUME NEW k
    PROVE  /\ \A a : Simple(k, a) => AllSimple(k, <<a>>)
           /\ \A a, b : Simple(k, a) /\ Simple(k, b) => AllSimple(k, <<a, b>>)
           /\ \A a, b, c : Simple(k, a) /\ Simple(k, b) /\ Simple(k, c) => AllSimple(k, <<a, b, c>>)
           /\ \A a, b, c, d : Simple(k, a) /\ Simple(k, b) /\ Simple(k, c) /\ Simple(k, d)
                                 => AllSimple(k, <<a, b, c, d>>)
           /\ \A a, b, c, d, e :
                 Simple(k, a) /\ Simple(k, b) /\ Simple(k, c) /\ Simple(k, d) /\ Simple(k, e)
                    => AllSimple(k, <<a, b, c, d, e>>)
           /\ \A a, b, c, d, e, f :
                 Simple(k, a) /\ Simple(k, b) /\ Simple(k, c) /\ Simple(k, d) /\ Simple(k, e)
                 /\ Simple(k, f) => AllSimple(k, <<a, b, c, d, e, f>>)
BY DEF AllSimple

LEMMA ManyKeys == ASSUME NEW n \in Nat PROVE AllSimple("keys", SomeKeys(n))
<1>1. \A i : Simple("keys", Must(UserKey(<<"h", i>>)))  BY KeySteps DEF Must
<1>2. SomeKeys(n) = [i \in 1 .. n |-> Must(UserKey(<<"h", i>>))]  BY DEF SomeKeys
<1> DEFINE M(i) == Must(UserKey(<<"h", i>>))
<1> HIDE DEF M
<1>3. (\A i : Simple("keys", M(i))) /\ SomeKeys(n) = [i \in 1 .. n |-> M(i)]  BY <1>1, <1>2 DEF M
<1>4. Len(SomeKeys(n)) = n  BY <1>3
<1> QED  BY <1>3, <1>4 DEF AllSimple

LEMMA JoinedSteps ==
    ASSUME NEW k, NEW s, AllSimple(k, s), NEW t, AllSimple(k, t)
    PROVE  /\ AllSimple(k, s \o t) /\ Len(s \o t) = Len(s) + Len(t)
           /\ \A i \in 1 .. Len(s) : (s \o t)[i] = s[i]
           /\ \A i \in 1 .. Len(t) : (s \o t)[Len(s) + i] = t[i]
<1> DEFINE S == {s[i] : i \in 1 .. Len(s)} \cup {t[i] : i \in 1 .. Len(t)}
<1>1. Len(s) \in Nat /\ Len(t) \in Nat /\ s = [i \in 1 .. Len(s) |-> s[i]]
      /\ t = [i \in 1 .. Len(t) |-> t[i]]
  BY DEF AllSimple
<1>2. /\ \A i \in 1 .. Len(s) : s[i] \in S
      /\ \A i \in 1 .. Len(t) : t[i] \in S
      /\ \A x \in S : Simple(k, x)
  BY DEF AllSimple
<1> HIDE DEF S
<1>3. s \in [1 .. Len(s) -> S] /\ t \in [1 .. Len(t) -> S]  BY <1>1, <1>2
<1>4. s \in Seq(S) /\ t \in Seq(S)  BY <1>1, <1>3
<1>5. /\ s \o t \in Seq(S) /\ Len(s \o t) = Len(s) + Len(t)
      /\ \A i \in 1 .. Len(s) + Len(t) :
            (s \o t)[i] = IF i <= Len(s) THEN s[i] ELSE t[i - Len(s)]
  BY <1>4
<1>6. \A i \in 1 .. Len(s) : (s \o t)[i] = s[i]  BY <1>1, <1>5
<1>7. ASSUME NEW i \in 1 .. Len(t) PROVE (s \o t)[Len(s) + i] = t[i]
  <2>1. Len(s) + i \in 1 .. Len(s) + Len(t) /\ ~(Len(s) + i <= Len(s)) /\ Len(s) + i - Len(s) = i
    BY <1>1
  <2> QED  BY <1>5, <2>1
<1>8. AllSimple(k, s \o t)
  <2> DEFINE u == s \o t
  <2>1. u \in Seq(S)  BY <1>5
  <2> HIDE DEF u
  <2>2. Len(u) \in Nat /\ DOMAIN u = 1 .. Len(u) /\ u = [i \in 1 .. Len(u) |-> u[i]]
        /\ \A i \in 1 .. Len(u) : u[i] \in S
    BY <2>1
  <2>3. AllSimple(k, u)  BY <1>2, <2>2 DEF AllSimple
  <2> QED  BY <2>3 DEF u
<1> QED  BY <1>5, <1>6, <1>7, <1>8

\* A test of simple steps is one of the suite's kind: without keys, or seeded.
LEMMA KeylessOK == ASSUME NEW s, AllSimple("none", s) PROVE ScriptOK(s)
BY DEF AllSimple, Simple, ScriptOK, Placed

SeededTest(s) == AllSimple("keys", s) /\ SeededFirst(s)

LEMMA SeededSteps == SeededTest(Seeded)
<1>1. Simple("keys", seedWorkspace) /\ Simple("keys", seedAPI)
  BY PlainSteps DEF seedWorkspace, seedAPI, Must
<1>2. AllSimple("keys", Seeded)  BY <1>1, FewSteps DEF Seeded
<1>3. Len(Seeded) = 2 /\ Seeded[1] = seedWorkspace /\ Seeded[2] = seedAPI  BY DEF Seeded
<1> QED  BY <1>2, <1>3 DEF SeededTest, SeededFirst

LEMMA SeededMore ==
    ASSUME NEW s, SeededTest(s), NEW t, AllSimple("keys", t)
    PROVE  SeededTest(s \o t)
<1>1. /\ AllSimple("keys", s \o t) /\ Len(s \o t) = Len(s) + Len(t)
      /\ \A i \in 1 .. Len(s) : (s \o t)[i] = s[i]
  BY JoinedSteps DEF SeededTest
<1>2. Len(s) \in Nat /\ Len(t) \in Nat  BY DEF SeededTest, AllSimple
<1> QED  BY <1>1, <1>2 DEF SeededTest, SeededFirst

LEMMA SeededOK == ASSUME NEW s, SeededTest(s) PROVE ScriptOK(s)
<1>1. /\ Len(s) \in Nat /\ DOMAIN s = 1 .. Len(s) /\ SeededFirst(s)
      /\ \A i \in 1 .. Len(s) : Simple("keys", s[i])
  BY DEF SeededTest, AllSimple
<1>2. s[1].req.op = "CreateWorkspace" /\ s[2].req.op = "CreateAPI"
  BY <1>1 DEF SeededFirst, seedWorkspace, seedAPI, Must, Step, newWorkspace, newAPI, Request
<1>3. ASSUME NEW i \in DOMAIN s PROVE RequestOK(s[i].req) /\ Placed(s, i)
  <2>1. s[i].req.op = "CreateKey" => i > 2  BY <1>1, <1>2
  <2> QED  BY <1>1, <2>1 DEF Simple, Placed
<1> QED  BY <1>1, <1>3 DEF ScriptOK

LEMMA SeededThen == ASSUME NEW t, AllSimple("keys", t) PROVE ScriptOK(Seeded \o t)
BY SeededSteps, SeededMore, SeededOK

LEMMA UsesSteps ==
    ASSUME NEW h, NEW err, NEW want
    PROVE  \A n \in {-1, 0, 3} : Simple("keys", Step(WithUses(UserKey(h), n), err, want))
<1>1. \A n \in {-1, 0, 3} : n \in Int  OBVIOUS
<1>2. \A n \in Int : Simple("keys", Step(WithUses(UserKey(h), n), err, want))
  BY KeySteps, Zenon
<1> QED  BY <1>1, <1>2, Zenon

LEMMA SeedSteps == \A k : Simple(k, seedWorkspace) /\ Simple(k, seedAPI)
BY PlainSteps DEF seedWorkspace, seedAPI, Must

LEMMA KeylessTests ==
    /\ ScriptOK(testWorkspaceCreateAndGet)
    /\ ScriptOK(testWorkspaceGetNotFound)
    /\ ScriptOK(testWorkspaceMetadataIsIsolated)
    /\ ScriptOK(testAPICreateRequiresWorkspace)
    /\ ScriptOK(testAPICreateAndGet)
    /\ ScriptOK(testAPIGetNotFound)
    /\ ScriptOK(testAPIMetadataIsIsolated)
    /\ ScriptOK(testKeyGetByHashUnknown)
    /\ ScriptOK(testKeyGetByIDUnknown)
    /\ ScriptOK(testKeyRevokeUnknownReturnsNotFound)
    /\ ScriptOK(testKeyRotateUnknownReturnsNotFound)
    /\ ScriptOK(testKeyListUnknownAPIIsEmpty)
    /\ ScriptOK(testKeyTouchLastVerifiedUnknownReturnsNotFound)
    /\ ScriptOK(testKeyDecrementUnknownReturnsNotFound)
<1> USE DEF Must, Got, Fails, Anyhow
<1>1. ScriptOK(testWorkspaceCreateAndGet)
  BY PlainSteps, SeedSteps, FewSteps, KeylessOK DEF testWorkspaceCreateAndGet
<1>2. ScriptOK(testWorkspaceGetNotFound)
  BY PlainSteps, SeedSteps, FewSteps, KeylessOK DEF testWorkspaceGetNotFound
<1>3. ScriptOK(testWorkspaceMetadataIsIsolated)
  BY PlainSteps, SeedSteps, FewSteps, KeylessOK DEF testWorkspaceMetadataIsIsolated
<1>4. ScriptOK(testAPICreateRequiresWorkspace)
  BY PlainSteps, SeedSteps, FewSteps, KeylessOK DEF testAPICreateRequiresWorkspace
<1>5. ScriptOK(testAPICreateAndGet)
  BY PlainSteps, SeedSteps, FewSteps, KeylessOK DEF testAPICreateAndGet
<1>6. ScriptOK(testAPIGetNotFound)
  BY PlainSteps, SeedSteps, FewSteps, KeylessOK DEF testAPIGetNotFound
<1>7. ScriptOK(testAPIMetadataIsIsolated)
  BY PlainSteps, SeedSteps, FewSteps, KeylessOK DEF testAPIMetadataIsIsolated
<1>8. ScriptOK(testKeyGetByHashUnknown)
  BY PlainSteps, SeedSteps, FewSteps, KeylessOK DEF testKeyGetByHashUnknown
<1>9. ScriptOK(testKeyGetByIDUnknown)
  BY PlainSteps, SeedSteps, FewSteps, KeylessOK DEF testKeyGetByIDUnknown
<1>10. ScriptOK(testKeyRevokeUnknownReturnsNotFound)
  BY PlainSteps, SeedSteps, FewSteps, KeylessOK DEF testKeyRevokeUnknownReturnsNotFound
<1>11. ScriptOK(testKeyRotateUnknownReturnsNotFound)
  BY PlainSteps, SeedSteps, FewSteps, KeylessOK DEF testKeyRotateUnknownReturnsNotFound
<1>12. ScriptOK(testKeyListUnknownAPIIsEmpty)
  BY PlainSteps, SeedSteps, FewSteps, KeylessOK DEF testKeyListUnknownAPIIsEmpty
<1>13. ScriptOK(testKeyTouchLastVerifiedUnknownReturnsNotFound)
  BY PlainSteps, SeedSteps, FewSteps, KeylessOK DEF testKeyTouchLastVerifiedUnknownReturnsNotFound
<1>14. ScriptOK(testKeyDecrementUnknownReturnsNotFound)
  BY PlainSteps, SeedSteps, FewSteps, KeylessOK DEF testKeyDecrementUnknownReturnsNotFound
<1> QED
  BY <1>1, <1>2, <1>3, <1>4, <1>5, <1>6, <1>7, <1>8, <1>9, <1>10, <1>11, <1>12, <1>13, <1>14

LEMMA SeededTests ==
    /\ ScriptOK(testKeyCreateAndLookup)
    /\ ScriptOK(testKeyCreatePreservesAllFields)
    /\ ScriptOK(testKeyInputMutationDoesNotChangeStoredKey)
    /\ ScriptOK(testKeyLookupMutationDoesNotChangeStoredKey)
    /\ ScriptOK(testKeyListMutationDoesNotChangeStoredKey)
    /\ ScriptOK(testKeyListPreservesAllFields)
    /\ ScriptOK(testKeyCreateRejectsDuplicateHash)
    /\ ScriptOK(testKeyRevoke)
    /\ ScriptOK(testKeyRevokeIsIdempotent)
    /\ ScriptOK(testKeyRotate)
    /\ ScriptOK(testKeyRotateRejectsDuplicateHash)
    /\ ScriptOK(testKeyListFilterByOwner)
    /\ ScriptOK(testKeyTouchLastVerified)
    /\ ScriptOK(testKeyDecrementRemainingUses)
    /\ ScriptOK(testKeyDecrementUnlimitedIsNoop)
    /\ ScriptOK(testKeyDecrementDepletedReturnsErrDepleted)
<1> USE DEF Must, Got, Fails, Anyhow, Decrement
<1>1. ScriptOK(testKeyCreateAndLookup)
  BY PlainSteps, KeySteps, FewSteps, SeededThen DEF testKeyCreateAndLookup
<1>2. ScriptOK(testKeyCreatePreservesAllFields)
  BY PlainSteps, KeySteps, FewSteps, SeededThen DEF testKeyCreatePreservesAllFields
<1>3. ScriptOK(testKeyInputMutationDoesNotChangeStoredKey)
  BY PlainSteps, KeySteps, FewSteps, SeededThen DEF testKeyInputMutationDoesNotChangeStoredKey
<1>4. ScriptOK(testKeyLookupMutationDoesNotChangeStoredKey)
  BY PlainSteps, KeySteps, FewSteps, SeededThen DEF testKeyLookupMutationDoesNotChangeStoredKey
<1>5. ScriptOK(testKeyListMutationDoesNotChangeStoredKey)
  BY PlainSteps, KeySteps, FewSteps, SeededThen DEF testKeyListMutationDoesNotChangeStoredKey
<1>6. ScriptOK(testKeyListPreservesAllFields)
  BY PlainSteps, KeySteps, FewSteps, SeededThen DEF testKeyListPreservesAllFields
<1>7. ScriptOK(testKeyCreateRejectsDuplicateHash)
  BY PlainSteps, KeySteps, FewSteps, SeededThen DEF testKeyCreateRejectsDuplicateHash
<1>8. ScriptOK(testKeyRevoke)
  BY PlainSteps, KeySteps, FewSteps, SeededThen DEF testKeyRevoke
<1>9. ScriptOK(testKeyRevokeIsIdempotent)
  BY PlainSteps, KeySteps, FewSteps, SeededThen DEF testKeyRevokeIsIdempotent
<1>10. ScriptOK(testKeyRotate)
  BY PlainSteps, KeySteps, FewSteps, SeededThen DEF testKeyRotate
<1>11. ScriptOK(testKeyRotateRejectsDuplicateHash)
  BY PlainSteps, KeySteps, FewSteps, SeededThen DEF testKeyRotateRejectsDuplicateHash
<1>12. ScriptOK(testKeyListFilterByOwner)
  <2>1. Simple("keys", Anyhow(UserKey("70")))  BY KeySteps
  <2>2. Simple("keys", Anyhow(newKey(1, 1, "user_2", "71")))  BY KeySteps
  <2>3. Simple("keys", Anyhow(UserKey("72")))  BY KeySteps
  <2>4. Simple("keys", Got(ListKeys(1, "user_1", 100, "none"), [len |-> 2, owners |-> {"user_1"}]))
    BY PlainSteps
  <2>5. AllSimple("keys",
          <<Anyhow(UserKey("70")), Anyhow(newKey(1, 1, "user_2", "71")), Anyhow(UserKey("72")),
            Got(ListKeys(1, "user_1", 100, "none"), [len |-> 2, owners |-> {"user_1"}])>>)
    BY <2>1, <2>2, <2>3, <2>4, FewSteps
  <2> QED  BY <2>5, SeededThen DEF testKeyListFilterByOwner
<1>13. ScriptOK(testKeyTouchLastVerified)
  BY PlainSteps, KeySteps, FewSteps, SeededThen DEF testKeyTouchLastVerified
<1>14. ScriptOK(testKeyDecrementRemainingUses)
  <2>1. Simple("keys", Must(WithUses(UserKey("a0"), 3)))  BY UsesSteps
  <2>2. Simple("keys", Decrement("nil", 2))  BY PlainSteps
  <2>3. Simple("keys", Decrement("any", 1))  BY PlainSteps
  <2>4. Simple("keys", Decrement("any", 0))  BY PlainSteps
  <2>5. AllSimple("keys", <<Must(WithUses(UserKey("a0"), 3)), Decrement("nil", 2),
                            Decrement("any", 1), Decrement("any", 0)>>)
    BY <2>1, <2>2, <2>3, <2>4, FewSteps
  <2> QED  BY <2>5, SeededThen DEF testKeyDecrementRemainingUses
<1>15. ScriptOK(testKeyDecrementUnlimitedIsNoop)
  <2>1. Simple("keys", Anyhow(WithUses(UserKey("b0"), -1)))  BY UsesSteps
  <2>2. Simple("keys", Decrement("nil", -1))  BY PlainSteps
  <2>3. AllSimple("keys", <<Anyhow(WithUses(UserKey("b0"), -1)), Decrement("nil", -1)>>)
    BY <2>1, <2>2, FewSteps
  <2> QED  BY <2>3, SeededThen DEF testKeyDecrementUnlimitedIsNoop
<1>16. ScriptOK(testKeyDecrementDepletedReturnsErrDepleted)
  <2>1. Simple("keys", Must(WithUses(UserKey("b1"), 0)))  BY UsesSteps
  <2>2. Simple("keys", Decrement("ErrDepleted", 0))  BY PlainSteps
  <2>3. Simple("keys", Got(ByID("GetKeyByID", 1), [remaining |-> 0]))  BY PlainSteps
  <2>4. AllSimple("keys", <<Must(WithUses(UserKey("b1"), 0)), Decrement("ErrDepleted", 0),
                            Got(ByID("GetKeyByID", 1), [remaining |-> 0])>>)
    BY <2>1, <2>2, <2>3, FewSteps
  <2> QED  BY <2>4, SeededThen DEF testKeyDecrementDepletedReturnsErrDepleted
<1> QED
  BY <1>1, <1>2, <1>3, <1>4, <1>5, <1>6, <1>7, <1>8, <1>9, <1>10, <1>11, <1>12, <1>13, <1>14, <1>15, <1>16

\* The tests that differ: a key of no API, a second API, many keys, and a
\* token made up from the first ID.
LEMMA RequiresAPITest == ScriptOK(testKeyCreateRequiresAPI)
<1> DEFINE a == Fails(newKey(Missing, Missing, "user_1", "abc"), "ErrNotFound")
<1>1. RequestOK(a.req) /\ a.req.op = "CreateKey"
  BY KeySteps DEF Fails, Step, newKey, Request
<1> HIDE DEF a
<1>2. testKeyCreateRequiresAPI = <<a>>  BY DEF testKeyCreateRequiresAPI, a
<1>3. ScriptOK(<<a>>)  BY <1>1, OpsDiffer DEF ScriptOK, Placed
<1> QED  BY <1>2, <1>3

LEMMA PagingTests == ScriptOK(testKeyListPaginates) /\ ScriptOK(testKeyListDefaultsPageSize)
<1> USE DEF Got
<1>1. \A n \in Nat : SeededTest(Seeded \o SomeKeys(n))  BY SeededSteps, ManyKeys, SeededMore
<1>2. ScriptOK(testKeyListPaginates)
  <2> DEFINE a == Got([ListKeys(1, AnyOwner, 2, "next") EXCEPT !.op = "Walk"], [count |-> 5])
  <2>1. Simple("keys", a)  BY PlainSteps
  <2> HIDE DEF a
  <2>2. AllSimple("keys", <<a>>)  BY <2>1, FewSteps
  <2>3. testKeyListPaginates = (Seeded \o SomeKeys(5)) \o <<a>>  BY DEF testKeyListPaginates, a
  <2> QED  BY <1>1, <2>2, <2>3, SeededMore, SeededOK
<1>3. ScriptOK(testKeyListDefaultsPageSize)
  <2> DEFINE a == Got(ListKeys(1, AnyOwner, 0, "none"), [len |-> DefaultPageSize, more |-> TRUE])
             b == Got(ListKeys(1, AnyOwner, 0, "next"), [len |-> LastPage, more |-> FALSE])
  <2>1. Simple("keys", a) /\ Simple("keys", b)  BY PlainSteps
  <2> HIDE DEF a, b
  <2>2. AllSimple("keys", <<a, b>>)  BY <2>1, FewSteps
  <2>3. DefaultPageSize + LastPage \in Nat  BY PageSizeAssumption, LastPageAssumption
  <2>4. testKeyListDefaultsPageSize = (Seeded \o SomeKeys(DefaultPageSize + LastPage)) \o <<a, b>>
    BY DEF testKeyListDefaultsPageSize, a, b
  <2> QED  BY <1>1, <2>2, <2>3, <2>4, SeededMore, SeededOK
<1> QED  BY <1>2, <1>3

\* A seeded test and steps of another kind.
LEMMA SeededAnd ==
    ASSUME NEW s, SeededTest(s), NEW x
    PROVE  LET n == s \o <<x>> IN
           /\ Len(s) \in Nat /\ Len(n) = Len(s) + 1 /\ DOMAIN n = 1 .. Len(s) + 1
           /\ n[Len(s) + 1] = x /\ \A i \in 1 .. Len(s) : n[i] = s[i] /\ Simple("keys", n[i])
           /\ SeededFirst(n)
<1> DEFINE S == {s[i] : i \in 1 .. Len(s)} \cup {x}  n == s \o <<x>>
<1>1. Len(s) \in Nat /\ s = [i \in 1 .. Len(s) |-> s[i]] /\ SeededFirst(s)
      /\ \A i \in 1 .. Len(s) : Simple("keys", s[i])
  BY DEF SeededTest, AllSimple
<1>2. x \in S /\ \A i \in 1 .. Len(s) : s[i] \in S  OBVIOUS
<1> HIDE DEF S
<1>3. s \in [1 .. Len(s) -> S]  BY <1>1, <1>2
<1>4. s \in Seq(S)  BY <1>1, <1>3
<1>5. Len(n) = Len(s) + 1 /\ DOMAIN n = 1 .. Len(s) + 1 /\ n[Len(s) + 1] = x
      /\ \A i \in 1 .. Len(s) : n[i] = s[i]
  BY <1>1, <1>2, <1>4
<1> HIDE DEF n
<1>6. SeededFirst(n)  BY <1>1, <1>5 DEF SeededFirst
<1> QED  BY <1>1, <1>5, <1>6 DEF n

LEMMA PageTokenTest == ScriptOK(testKeyListPageTokenCanSkipToInsertionPoint)
<1> DEFINE s == Seeded \o SomeKeys(3)
           a == Got(ListKeys(1, AnyOwner, 10, "afterFirst"), [len |-> 2, allButFirst |-> TRUE])
           n == s \o <<a>>
<1>1. AllSimple("keys", SomeKeys(3)) /\ AllSimple("keys", Seeded) /\ Len(Seeded) = 2
      /\ Len(SomeKeys(3)) = 3 /\ SomeKeys(3)[1] = Must(UserKey(<<"h", 1>>))
  <2>1. AllSimple("keys", SomeKeys(3)) /\ AllSimple("keys", Seeded)
    BY ManyKeys, SeededSteps DEF SeededTest
  <2>2. Len(Seeded) = 2  BY DEF Seeded
  <2>3. Len(SomeKeys(3)) = 3 /\ SomeKeys(3)[1] = Must(UserKey(<<"h", 1>>))  BY DEF SomeKeys
  <2> QED  BY <2>1, <2>2, <2>3
<1>2. SeededTest(s)  BY <1>1, SeededSteps, SeededMore
<1>3. Len(s) = 5 /\ s[3] = Must(UserKey(<<"h", 1>>))
  <2>1. /\ Len(s) = Len(Seeded) + Len(SomeKeys(3))
        /\ \A i \in 1 .. Len(SomeKeys(3)) : s[Len(Seeded) + i] = SomeKeys(3)[i]
    <3>1. ASSUME NEW x, NEW y, AllSimple("keys", x), AllSimple("keys", y)
          PROVE  /\ Len(x \o y) = Len(x) + Len(y)
                 /\ \A i \in 1 .. Len(y) : (x \o y)[Len(x) + i] = y[i]
      BY ONLY <3>1, JoinedSteps
    <3>2. AllSimple("keys", Seeded) /\ AllSimple("keys", SomeKeys(3))  BY <1>1
    <3> QED  BY ONLY <3>1, <3>2, Zenon
  <2> HIDE DEF s
  <2>2. Len(s) = 5 /\ s[2 + 1] = SomeKeys(3)[1]  BY <1>1, <2>1
  <2> QED  BY <1>1, <2>2
<1>4. RequestOK(a.req) /\ a.req.op = "ListKeys"
  BY DEF Got, Step, ListKeys, Request, RequestOK, StructOK
<1>5. testKeyListPageTokenCanSkipToInsertionPoint = n
  BY DEF testKeyListPageTokenCanSkipToInsertionPoint
<1> HIDE DEF s, a
<1>6. /\ Len(n) = 6 /\ DOMAIN n = 1 .. 6 /\ n[6] = a /\ SeededFirst(n)
      /\ \A i \in 1 .. 5 : n[i] = s[i] /\ Simple("keys", n[i])
  <2>1. /\ Len(s) \in Nat /\ Len(n) = Len(s) + 1 /\ DOMAIN n = 1 .. Len(s) + 1
        /\ n[Len(s) + 1] = a /\ \A i \in 1 .. Len(s) : n[i] = s[i] /\ Simple("keys", n[i])
        /\ SeededFirst(n)
    BY <1>2, SeededAnd
  <2> HIDE DEF n
  <2> QED  BY <1>3, <2>1
<1> HIDE DEF n
<1>7. KeyFirst(n)
  <2>1. s[3].err = "nil" /\ s[3].req.op = "CreateKey"
    BY <1>3 DEF Must, Step, UserKey, newKey, Request
  <2> QED  BY <1>6, <2>1 DEF KeyFirst
<1>8. n[1].req.op = "CreateWorkspace" /\ n[2].req.op = "CreateAPI"
  BY <1>6 DEF SeededFirst, seedWorkspace, seedAPI, Must, Step, newWorkspace, newAPI, Request
<1>9. ASSUME NEW i \in DOMAIN n PROVE RequestOK(n[i].req) /\ Placed(n, i)
  <2>1. CASE i = 6  BY <1>4, <1>6, <1>7, <2>1, OpsDiffer DEF Placed
  <2>2. CASE i \in 1 .. 5
    <3>1. n[i].req.op = "CreateKey" => i > 2  BY <1>8, <2>2
    <3> QED  BY <1>6, <2>2, <3>1 DEF Simple, Placed
  <2> QED  BY <1>6, <2>1, <2>2
<1> QED  BY <1>5, <1>6, <1>9 DEF ScriptOK

LEMMA ListByAPITest == ScriptOK(testKeyListByAPI)
<1> DEFINE a == Anyhow(newAPI(1, "staging", Nil))
           b == Anyhow(UserKey("60"))
           c == Anyhow(newKey(1, 1, "user_2", "61"))
           d == Anyhow(newKey(2, 1, "user_1", "62"))
           e == Got(ListKeys(1, AnyOwner, 100, "none"), [len |-> 2, apis |-> {1}])
           t == <<a, b, c, d, e>>
           n == Seeded \o t
<1>1. /\ Simple("keys", a) /\ Simple("keys", b) /\ Simple("keys", c) /\ Simple("keys", e)
      /\ Simple("keys", seedWorkspace) /\ Simple("keys", seedAPI)
  <2>1. Simple("keys", a) /\ Simple("keys", e)  BY PlainSteps DEF Anyhow, Got
  <2>2. Simple("keys", b)  BY KeySteps DEF Anyhow
  <2>3. Simple("keys", c)  BY KeySteps DEF Anyhow
  <2> QED  BY <2>1, <2>2, <2>3, SeedSteps
<1>2. a.req.op = "CreateAPI" /\ a.req.lit.plain.workspace = 1
  BY DEF Anyhow, Step, newAPI, Request
<1>3. /\ RequestOK(d.req) /\ d.req.op = "CreateKey" /\ d.req.lit.plain.workspace = 1
      /\ d.req.lit.plain.api = 2
  BY KeySteps DEF Anyhow, Step, newKey, Request
<1>4. testKeyListByAPI = n  BY DEF testKeyListByAPI
<1> HIDE DEF a, b, c, d, e
<1>5. /\ t = [i \in 1 .. 5 |-> t[i]] /\ t[1] = a /\ t[2] = b /\ t[3] = c /\ t[4] = d /\ t[5] = e
  OBVIOUS
<1> HIDE DEF t
<1>6. /\ Len(n) = 7 /\ DOMAIN n = 1 .. 7 /\ n[1] = seedWorkspace /\ n[2] = seedAPI /\ n[3] = a
      /\ n[4] = b /\ n[5] = c /\ n[6] = d /\ n[7] = e
  <2>1. Seeded \in Seq({seedWorkspace, seedAPI}) /\ Len(Seeded) = 2
        /\ Seeded[1] = seedWorkspace /\ Seeded[2] = seedAPI
    BY DEF Seeded
  <2>2. HeapOK(Seeded)  BY <2>1, HeapFacts
  <2>3. /\ HeapOK(n) /\ Len(Seeded) \in Nat /\ Len(n) = Len(Seeded) + 5
        /\ Grows(Seeded, n)
        /\ \A i \in 1 .. 5 : n[Len(Seeded) + i] = t[i]
    <3>1. t = [i \in 1 .. 5 |-> t[i]] /\ 5 \in Nat  BY <1>5
    <3> QED  BY ONLY <2>2, <3>1, ConcatFacts, Zenon
  <2> HIDE DEF n
  <2>4. n[1] = Seeded[1] /\ n[2] = Seeded[2]  BY <2>1, <2>3 DEF Grows
  <2>5. n[2 + 1] = a /\ n[2 + 2] = b /\ n[2 + 3] = c /\ n[2 + 4] = d /\ n[2 + 5] = e
    BY <1>5, <2>1, <2>3
  <2>6. Len(n) = 7 /\ DOMAIN n = 1 .. 7  BY <2>1, <2>3, HeapLen
  <2> QED  BY <2>1, <2>4, <2>5, <2>6
<1> HIDE DEF n
<1>7. SeededFirst(n) /\ SecondAPI(n)  BY <1>2, <1>6 DEF SeededFirst, SecondAPI
<1>8. n[1].req.op = "CreateWorkspace" /\ n[2].req.op = "CreateAPI"
  BY <1>6 DEF seedWorkspace, seedAPI, Must, Step, newWorkspace, newAPI, Request
<1>9. ASSUME NEW i \in DOMAIN n PROVE RequestOK(n[i].req) /\ Placed(n, i)
  <2>1. CASE i = 6  BY <1>3, <1>6, <1>7, <2>1, OpsDiffer DEF Placed
  <2>2. CASE i # 6
    <3>1. Simple("keys", n[i])  BY <1>1, <1>6, <2>2
    <3>2. n[i].req.op = "CreateKey" => i > 2  BY <1>6, <1>8
    <3> QED  BY <1>7, <3>1, <3>2 DEF Simple, Placed
  <2> QED  BY <2>1, <2>2
<1>10. ScriptOK(n)  BY <1>6, <1>9 DEF ScriptOK
<1> QED  BY <1>4, <1>10

\* Every test, and what a session starts with.
LEMMA SuiteOK == Len(Run) = 35 /\ \A n \in 1 .. 35 : ScriptOK(Run[n])
<1>1. Len(Run) = 35  BY DEF Run
<1>2. \A n \in 1 .. 35 : ScriptOK(Run[n])
  BY KeylessTests, SeededTests, RequiresAPITest, PagingTests, PageTokenTest, ListByAPITest DEF Run
<1> QED  BY <1>1, <1>2

LEMMA SessionOK == ScriptOK(SessionStart)
BY KeySteps, FewSteps, SeededThen DEF SessionStart, Must

LEMMA ScriptFacts ==
    ASSUME test \in 1 .. Session
    PROVE  ScriptOK(Script) /\ IsFiniteSet(DOMAIN Script)
<1>1. ScriptOK(Script)
  <2>1. CASE test = Session  BY <2>1, SessionOK DEF Script
  <2>2. CASE test # Session
    <3>1. test \in 1 .. 35  BY <2>2, SuiteOK DEF Session
    <3> QED  BY <2>2, <3>1, SuiteOK DEF Script
  <2> QED  BY <2>1, <2>2
<1> QED  BY <1>1, FS_Interval DEF ScriptOK

-----------------------------------------------------------------------------
(* Callers write.                                                           *)

Scribbled(s, cells) == [s EXCEPT !.heap = mutateKeyValue(@, cells)]

\* A store nobody holds a reference of does not notice.
LEMMA ScribbledPair ==
    ASSUME NEW m, NEW p, Pair(m, p), NEW c, Apart(m, c), NEW d
    PROVE  /\ Pair(Scribbled(m, c), Scribbled(p, d))
           /\ Len(Scribbled(m, c).heap) = Len(m.heap)
           /\ \A t \in Tables : Scribbled(m, c)[t] = m[t]
<1> DEFINE n == Scribbled(m, c)  q == Scribbled(p, d)
<1>1. /\ MemoryOK(m) /\ PostgresOK(p) /\ StoresAlike(m, p) /\ HeapOK(m.heap) /\ HeapOK(p.heap)
      /\ DOMAIN m = StoreFields /\ DOMAIN p = StoreFields
  BY DEF Pair, MemoryOK, PostgresOK
<1>2. /\ DOMAIN n = StoreFields /\ n.heap = mutateKeyValue(m.heap, c)
      /\ n.hashIndex = m.hashIndex /\ n.keys = m.keys /\ n.apis = m.apis
      /\ n.workspaces = m.workspaces
      /\ \A t \in Tables : n[t] = m[t]
  BY <1>1 DEF Scribbled, StoreFields, Tables
<1>3. /\ DOMAIN q = StoreFields /\ q.heap = mutateKeyValue(p.heap, d)
      /\ \A t \in Tables : q[t] = p[t]
  BY <1>1 DEF Scribbled, StoreFields, Tables
<1> HIDE DEF n, q
<1>4. /\ HeapOK(n.heap) /\ Len(n.heap) = Len(m.heap)
      /\ \A ref : Within(m.heap, ref)
                  /\ (\A f \in DOMAIN ref : ref[f] = Nil \/ <<ref[f], f>> \notin c)
            => Within(n.heap, ref) /\ Contents(n.heap, ref) = Contents(m.heap, ref)
  BY <1>1, <1>2, MutateKeeps
<1>5. HeapOK(q.heap)  BY <1>1, <1>3, MutateKeeps
<1>6. ASSUME NEW t \in Tables, NEW id \in DOMAIN m[t]
      PROVE  /\ StructKept(t, n.heap, m[t][id])
             /\ Contents(n.heap, m[t][id].ref) = Contents(m.heap, m[t][id].ref)
  <2>1. StructKept(t, m.heap, m[t][id])  BY <1>1 DEF MemoryOK
  <2>2. Within(m.heap, m[t][id].ref)  BY <2>1 DEF StructKept
  <2>3. \A f \in DOMAIN m[t][id].ref :
           m[t][id].ref[f] = Nil \/ <<m[t][id].ref[f], f>> \notin c
    BY DEF Apart
  <2>4. Within(n.heap, m[t][id].ref)
        /\ Contents(n.heap, m[t][id].ref) = Contents(m.heap, m[t][id].ref)
    BY <1>4, <2>2, <2>3
  <2> QED  BY <2>1, <2>4 DEF StructKept
<1>7. \A id \in DOMAIN m.keys : HashOf(n, id) = HashOf(m, id)
  BY <1>2, <1>6 DEF HashOf, Tables
<1>8. Indexed(n)
  <2>1. Indexed(m)  BY <1>1 DEF MemoryOK
  <2> QED  BY <1>2, <1>7, <2>1 DEF Indexed
<1>9. MemoryOK(n)
  <2>1. \A t \in Tables : \A id \in DOMAIN n[t] : StructKept(t, n.heap, n[t][id])
    BY <1>2, <1>6
  <2>2. \A id \in DOMAIN n.apis : n.apis[id].plain.workspace \in DOMAIN n.workspaces
    BY <1>1, <1>2 DEF MemoryOK
  <2> QED  BY <1>2, <1>4, <1>8, <2>1, <2>2 DEF MemoryOK
<1>10. PostgresOK(q)  BY <1>1, <1>3, <1>5 DEF PostgresOK
<1>11. StoresAlike(n, q)
  <2>1. ASSUME NEW t \in Tables, NEW id \in DOMAIN n[t]
        PROVE  RowsAlike(n.heap, n[t][id], q[t][id])
    <3>1. RowsAlike(m.heap, m[t][id], p[t][id])  BY <1>1, <1>2, <2>1 DEF StoresAlike
    <3> QED  BY <1>2, <1>3, <1>6, <3>1 DEF RowsAlike
  <2> QED  BY <1>1, <1>2, <1>3, <2>1 DEF StoresAlike
<1> QED  BY <1>2, <1>4, <1>9, <1>10, <1>11 DEF Pair, n, q

LEMMA WriteStep ==
    ASSUME TypeInv, Pair(mem, pg), HeldInv, AnsweredAlike,
           NEW what \in {"in", "out", "all"}, Write(what)
    PROVE  /\ Stays /\ made' = made
           /\ mem'.workspaces = mem.workspaces /\ mem'.apis = mem.apis
<1> DEFINE c == held["memory"][what]  d == held["postgres"][what]
<1>1. /\ mem' = Scribbled(mem, c) /\ pg' = Scribbled(pg, d)
      /\ held' = held /\ answer' = answer /\ token' = token /\ made' = made /\ now' = now
  BY DEF Write, Drivers, Scribbled, mem, pg
<1>2. c \subseteq held["memory"].all
  <2>1. held["memory"].in \subseteq held["memory"].all /\ held["memory"].out \subseteq held["memory"].all
    BY DEF HeldInv, Drivers
  <2> QED  BY <2>1
<1> HIDE DEF c, d
<1>3. Apart(mem, c)  BY <1>2 DEF HeldInv, Apart
<1>4. /\ Pair(mem', pg') /\ Len(mem'.heap) = Len(mem.heap)
      /\ \A t \in Tables : mem'[t] = mem[t]
  BY <1>1, <1>3, ScribbledPair
<1>5. HeldInv'
  <2>1. Apart(mem', held["memory"].all)  BY <1>4 DEF HeldInv, Apart
  <2> QED  BY <1>1, <1>4, <2>1 DEF HeldInv
<1>6. AnsweredAlike'  BY <1>1 DEF AnsweredAlike
<1>7. mem'["keys"] = mem["keys"] /\ mem'["workspaces"] = mem["workspaces"]
      /\ mem'["apis"] = mem["apis"]
  BY <1>4 DEF Tables
<1>8. /\ now' \in Nat /\ token' \in Nat /\ made' \in Seq(Nat \ {0})
      /\ DOMAIN mem'.keys = {made'[i] : i \in DOMAIN made'}
  BY <1>1, <1>7 DEF TypeInv
<1>9. Stays  BY <1>4, <1>5, <1>6, <1>8, Zenon DEF Stays
<1> QED  BY <1>1, <1>7, <1>9

-----------------------------------------------------------------------------
(* A new store.                                                             *)

LEMMA FreshPair ==
    /\ Pair(NewStore, NewStore) /\ Apart(NewStore, {})
    /\ DOMAIN NewStore.workspaces = {} /\ DOMAIN NewStore.apis = {} /\ DOMAIN NewStore.keys = {}
<1>1. /\ DOMAIN NewStore = StoreFields /\ NewStore.heap = <<>> /\ DOMAIN NewStore.hashIndex = {}
      /\ DOMAIN NewStore.workspaces = {} /\ DOMAIN NewStore.apis = {} /\ DOMAIN NewStore.keys = {}
  BY DEF NewStore, StoreFields
<1> DEFINE s == NewStore
<1> HIDE DEF s
<1>2. \A t \in Tables : DOMAIN s[t] = {}  BY <1>1 DEF Tables, s
<1>3. HeapOK(s.heap)
  <2>1. <<>> \in Seq({})  OBVIOUS
  <2> QED  BY <1>1, <2>1, HeapFacts DEF s
<1>4. DOMAIN s = StoreFields /\ DOMAIN s.hashIndex = {} /\ DOMAIN s.keys = {} /\ DOMAIN s.apis = {}
  BY <1>1 DEF s
<1>5. Indexed(s)  BY <1>4 DEF Indexed
<1>6. MemoryOK(s)  BY <1>2, <1>3, <1>4, <1>5 DEF MemoryOK
<1>7. PostgresOK(s)  BY <1>2, <1>3, <1>4 DEF PostgresOK
<1>8. StoresAlike(s, s) /\ Apart(s, {})  BY <1>2 DEF StoresAlike, Apart
<1> QED  BY <1>1, <1>6, <1>7, <1>8 DEF Pair, s

-----------------------------------------------------------------------------
(* The invariant.                                                           *)

\* What the steps so far have created.
Progress ==
    LET W == DOMAIN mem.workspaces
        A == DOMAIN mem.apis
    IN pc \in DOMAIN Script =>
        /\ pc = 1 => W = {} /\ A = {} /\ made = <<>>
        /\ SeededFirst(Script) =>
              /\ pc = 2 => W = {1} /\ A = {}
              /\ pc = 3 => W = {1} /\ A = {1}
              /\ pc > 3 => 1 \in W /\ 1 \in A
        /\ SecondAPI(Script) /\ pc > 3 => 2 \in A
        /\ KeyFirst(Script) /\ pc > 3 => made # <<>>

Inv == TypeInv /\ Pair(mem, pg) /\ HeldInv /\ Progress /\ AnsweredAlike

LEMMA InitInv == Init => Inv
<1> SUFFICES ASSUME Init PROVE Inv  OBVIOUS
<1>1. /\ mem = NewStore /\ pg = NewStore
      /\ \A d \in Drivers : held[d].in = {} /\ held[d].out = {} /\ held[d].all = {}
      /\ answer["memory"].err = "nil" /\ answer["postgres"].err = "nil"
      /\ answer["memory"].fields = None /\ answer["postgres"].fields = None
  BY DEF Init, mem, pg, NewSession, NothingHeld, NoAnswer, Drivers
<1>2. "memory" \in Drivers  BY DEF Drivers
<1>3. /\ test = 1 /\ pc = 1 /\ token = 0 /\ made = <<>> /\ now = 1  BY DEF Init, NoToken
<1>4. TypeInv
  <2>1. test \in 1 .. Session  BY <1>3, SuiteOK DEF Session
  <2>2. made \in Seq(Nat \ {0}) /\ {made[i] : i \in DOMAIN made} = {}  BY <1>3
  <2>3. DOMAIN mem.keys = {}  BY <1>1, FreshPair
  <2> QED  BY <1>3, <2>1, <2>2, <2>3 DEF TypeInv
<1>5. Pair(mem, pg)  BY <1>1, FreshPair
<1>6. HeldInv  BY <1>1, <1>2, FreshPair DEF HeldInv
<1>7. Progress  BY <1>1, <1>3, FreshPair DEF Progress
<1>8. AnsweredAlike
  <2>1. Alike(None, None)
    <3>1. "keys" \notin DOMAIN None  BY DEF None
    <3> QED  BY <3>1, AlikeSelf
  <2> QED  BY <1>1, <2>1 DEF AnsweredAlike
<1> QED  BY <1>4, <1>5, <1>6, <1>7, <1>8 DEF Inv

LEMMA NextTestInv == ASSUME Inv, NextTest PROVE Inv'
<1>1. /\ mem' = NewStore /\ pg' = NewStore
      /\ \A d \in Drivers : held'[d].in = {} /\ held'[d].out = {} /\ held'[d].all = {}
      /\ answer'["memory"].err = "nil" /\ answer'["postgres"].err = "nil"
      /\ answer'["memory"].fields = None /\ answer'["postgres"].fields = None
  BY DEF NextTest, mem, pg, NewSession, NothingHeld, NoAnswer, Drivers
<1>2. "memory" \in Drivers  BY DEF Drivers
<1>3. /\ test # Session /\ test' = test + 1 /\ pc' = 1 /\ token' = 0 /\ made' = <<>> /\ now' = 1
  BY DEF NextTest, NoToken
<1>4. TypeInv'
  <2>1. test' \in 1 .. Session  BY <1>3, SuiteOK DEF Session, Inv, TypeInv
  <2>2. made' \in Seq(Nat \ {0}) /\ {made'[i] : i \in DOMAIN made'} = {}  BY <1>3
  <2>3. DOMAIN mem'.keys = {}  BY <1>1, FreshPair
  <2> QED  BY <1>3, <2>1, <2>2, <2>3 DEF TypeInv, Session
<1>5. Pair(mem, pg)'  BY <1>1, FreshPair
<1>6. HeldInv'  BY <1>1, <1>2, FreshPair DEF HeldInv
<1>7. Progress'  BY <1>1, <1>3, FreshPair DEF Progress
<1>8. AnsweredAlike'
  <2>1. Alike(None, None)
    <3>1. "keys" \notin DOMAIN None  BY DEF None
    <3> QED  BY <3>1, AlikeSelf
  <2> QED  BY <1>1, <2>1 DEF AnsweredAlike
<1> QED  BY <1>4, <1>5, <1>6, <1>7, <1>8 DEF Inv

\* What is left to show of a step that stays in its test or session.
LEMMA StaysInv ==
    ASSUME Inv, Stays, test' = test, pc' \in Nat \ {0}, Progress'
    PROVE  Inv'
<1>1. test' \in 1 .. Session  BY DEF Inv, TypeInv
<1>2. TypeInv'  BY <1>1, Zenon DEF Stays, TypeInv, Session
<1> QED  BY <1>2 DEF Stays, Inv

\* A test's request comes when it should.
LEMMA TestReady ==
    ASSUME Inv, pc \in DOMAIN Script
    PROVE  RequestOK(Script[pc].req) /\ ReadyFor(Script[pc].req)
<1>1. ScriptOK(Script)  BY ScriptFacts DEF Inv, TypeInv
<1>2. RequestOK(Script[pc].req) /\ Placed(Script, pc)  BY <1>1 DEF ScriptOK
<1>3. pc \in Nat \ {0} /\ Progress  BY DEF Inv, TypeInv
<1>4. ASSUME Script[pc].req.op = "CreateKey"
      PROVE  LET r == Script[pc].req IN
             \/ r.lit.plain.api \in DOMAIN mem.apis /\ r.lit.plain.workspace \in DOMAIN mem.workspaces
             \/ DOMAIN mem.apis = {} /\ made = <<>>
  <2>1. CASE pc = 1  BY <1>3, <2>1 DEF Progress
  <2>2. CASE pc # 1
    <3>1. /\ SeededFirst(Script) /\ pc > 2 /\ Script[pc].req.lit.plain.workspace = 1
          /\ \/ Script[pc].req.lit.plain.api = 1
             \/ Script[pc].req.lit.plain.api = 2 /\ SecondAPI(Script) /\ pc > 3
      BY <1>2, <1>4, <2>2 DEF Placed
    <3>2. 1 \in DOMAIN mem.workspaces /\ 1 \in DOMAIN mem.apis
      BY <1>3, <3>1 DEF Progress
    <3>3. SecondAPI(Script) /\ pc > 3 => 2 \in DOMAIN mem.apis  BY <1>3 DEF Progress
    <3> QED  BY <3>1, <3>2, <3>3
  <2> QED  BY <2>1, <2>2
<1>5. Script[pc].req.op \in ListOps /\ Script[pc].req.arg.token = "afterFirst" => made # <<>>
  BY <1>2, <1>3 DEF Placed, Progress
<1> QED  BY <1>2, <1>4, <1>5 DEF ReadyFor

\* The next step of the same test.
LEMMA AdvanceProgress ==
    ASSUME Inv, pc \in DOMAIN Script, test' = test, pc' = pc + 1,
           NEW r, r = Script[pc].req, Outcome(r),
           r.op = "CreateKey" /\ Script[pc].err = "nil" => answer'["memory"].err = "nil"
    PROVE  Progress'
<1> DEFINE W == DOMAIN mem.workspaces  A == DOMAIN mem.apis
           X == DOMAIN mem'.workspaces  Y == DOMAIN mem'.apis
<1>1. Script' = Script  BY DEF Script, Session
<1>2. pc \in Nat \ {0} /\ Progress  BY DEF Inv, TypeInv
<1>3. /\ W \subseteq X /\ A \subseteq Y
      /\ made # <<>> => made' # <<>>
      /\ r.op = "CreateWorkspace" /\ Cardinality(W) + 1 # Missing =>
            X = W \cup {Cardinality(W) + 1} /\ Y = A
      /\ r.op = "CreateAPI" /\ r.lit.plain.workspace \in W /\ Cardinality(A) + 1 # Missing =>
            X = W /\ Y = A \cup {Cardinality(A) + 1}
      /\ r.op = "CreateKey" /\ answer'["memory"].err = "nil" => made' # <<>>
  BY DEF Outcome
<1>4. /\ pc = 1 => W = {} /\ A = {} /\ made = <<>>
      /\ SeededFirst(Script) =>
            /\ pc = 2 => W = {1} /\ A = {}
            /\ pc = 3 => W = {1} /\ A = {1}
            /\ pc > 3 => 1 \in W /\ 1 \in A
      /\ SecondAPI(Script) /\ pc > 3 => 2 \in A
      /\ KeyFirst(Script) /\ pc > 3 => made # <<>>
  BY <1>2 DEF Progress
<1>5. Cardinality({}) = 0 /\ Cardinality({1}) = 1  BY FS_EmptySet, FS_Singleton
<1> HIDE DEF W, A, X, Y
<1>6. SeededFirst(Script) =>
        /\ pc = 1 => X = {1} /\ Y = {}
        /\ pc = 2 => X = {1} /\ Y = {1}
        /\ pc >= 3 => 1 \in X /\ 1 \in Y
  <2> SUFFICES ASSUME SeededFirst(Script)
               PROVE  /\ pc = 1 => X = {1} /\ Y = {}
                      /\ pc = 2 => X = {1} /\ Y = {1}
                      /\ pc >= 3 => 1 \in X /\ 1 \in Y
    OBVIOUS
  <2>1. Script[1].req.op = "CreateWorkspace" /\ Script[2].req.op = "CreateAPI"
        /\ Script[2].req.lit.plain.workspace = 1
    BY DEF SeededFirst, seedWorkspace, seedAPI, Must, Step, newWorkspace, newAPI, Request
  <2>2. ASSUME pc = 1 PROVE X = {1} /\ Y = {}
    <3>1. r.op = "CreateWorkspace" /\ W = {} /\ A = {}  BY <1>4, <2>1, <2>2
    <3>2. Cardinality(W) + 1 = 1 /\ 1 # Missing  BY <1>5, <3>1 DEF Missing
    <3>3. X = W \cup {1} /\ Y = A  BY <1>3, <3>1, <3>2
    <3> QED  BY <3>1, <3>3
  <2>3. ASSUME pc = 2 PROVE X = {1} /\ Y = {1}
    <3>1. r.op = "CreateAPI" /\ r.lit.plain.workspace = 1 /\ W = {1} /\ A = {}
      BY <1>4, <2>1, <2>3
    <3>2. Cardinality(A) + 1 = 1 /\ 1 # Missing  BY <1>5, <3>1 DEF Missing
    <3>3. X = W /\ Y = A \cup {1}  BY <1>3, <3>1, <3>2
    <3> QED  BY <3>1, <3>3
  <2>4. ASSUME pc >= 3 PROVE 1 \in X /\ 1 \in Y
    <3>1. pc = 3 \/ pc > 3  BY <1>2, <2>4
    <3> QED  BY <1>3, <1>4, <3>1
  <2> QED  BY <2>2, <2>3, <2>4
<1>7. SecondAPI(Script) /\ pc >= 3 => 2 \in Y
  <2> SUFFICES ASSUME SecondAPI(Script), pc >= 3 PROVE 2 \in Y  OBVIOUS
  <2>1. CASE pc = 3
    <3>1. r.op = "CreateAPI" /\ r.lit.plain.workspace = 1 /\ W = {1} /\ A = {1}
      BY <1>4, <2>1 DEF SecondAPI
    <3> QED  BY <1>3, <1>5, <3>1 DEF Missing
  <2>2. CASE pc > 3  BY <1>3, <1>4, <2>2
  <2> QED  BY <1>2, <2>1, <2>2
<1>8. KeyFirst(Script) /\ pc >= 3 => made' # <<>>
  <2> SUFFICES ASSUME KeyFirst(Script), pc >= 3 PROVE made' # <<>>  OBVIOUS
  <2>1. CASE pc = 3  BY <1>3, <2>1 DEF KeyFirst
  <2>2. CASE pc > 3  BY <1>3, <1>4, <2>2
  <2> QED  BY <1>2, <2>1, <2>2
<1>9. pc + 1 # 1 /\ (pc + 1 = 2 => pc = 1) /\ (pc + 1 = 3 => pc = 2) /\ (pc + 1 > 3 => pc >= 3)
  BY <1>2
<1> QED  BY <1>1, <1>6, <1>7, <1>8, <1>9 DEF Progress, X, Y

\* Out of the script there is nothing to show.
LEMMA NoProgress ==
    ASSUME Inv, test' = test, pc' \in Nat, pc' > Len(Script)
    PROVE  Progress'
<1>1. Script' = Script  BY DEF Script, Session
<1>2. Len(Script) \in Nat /\ DOMAIN Script = 1 .. Len(Script)  BY ScriptFacts DEF Inv, TypeInv, ScriptOK
<1>3. pc' \notin DOMAIN Script'  BY <1>1, <1>2
<1> QED  BY <1>3 DEF Progress

LEMMA TestStepInv == ASSUME Inv, TestStep PROVE Inv'
<1> DEFINE step == Script[pc]  r == step.req
<1>1. /\ pc \in DOMAIN Script /\ test' = test
      /\ \/ /\ r.op = "Mutate" /\ Write(r.arg) /\ pc' = pc + 1
         \/ /\ r.op \notin {"Mutate", "Walk"} /\ Ask(r)
            /\ LET bad == {d \in Drivers : ~Expected(step, answer'[d], made')}
               IN pc' = IF bad = {} THEN pc + 1 ELSE Len(Script) + 1
  BY DEF TestStep
<1>2. TypeInv /\ Pair(mem, pg) /\ HeldInv /\ AnsweredAlike /\ pc \in Nat \ {0}
  BY DEF Inv, TypeInv
<1>3. ScriptOK(Script) /\ IsFiniteSet(DOMAIN Script) /\ Len(Script) \in Nat
  BY <1>2, ScriptFacts DEF TypeInv, ScriptOK
<1>4. RequestOK(r) /\ ReadyFor(r)  BY <1>1, TestReady
<1> HIDE DEF r
<1>5. CASE r.op = "Mutate" /\ Write(r.arg) /\ pc' = pc + 1
  <2>1. r.arg \in {"in", "out", "all"}  BY <1>4, <1>5 DEF RequestOK
  <2>2. /\ Stays /\ made' = made
        /\ mem'.workspaces = mem.workspaces /\ mem'.apis = mem.apis
    BY <1>2, <1>5, <2>1, WriteStep
  <2>3. Outcome(r)  BY <1>5, <2>2 DEF Outcome, ListOps
  <2>4. Progress'  BY <1>1, <1>5, <2>3, AdvanceProgress DEF r
  <2> QED  BY <1>1, <1>2, <1>5, <2>2, <2>4, StaysInv
<1>6. CASE /\ r.op \notin {"Mutate", "Walk"} /\ Ask(r)
           /\ LET bad == {d \in Drivers : ~Expected(step, answer'[d], made')}
              IN pc' = IF bad = {} THEN pc + 1 ELSE Len(Script) + 1
  <2>1. Stays /\ Outcome(r)  BY <1>2, <1>3, <1>4, <1>6, AskStep
  <2>2. \/ pc' = pc + 1 /\ Expected(step, answer'["memory"], made')
        \/ pc' = Len(Script) + 1
    BY <1>6 DEF Drivers
  <2>3. CASE pc' = pc + 1 /\ Expected(step, answer'["memory"], made')
    <3>1. step.err = "nil" => answer'["memory"].err = "nil"  BY <2>3 DEF Expected
    <3>2. Progress'  BY <1>1, <2>1, <2>3, <3>1, AdvanceProgress DEF r
    <3> QED  BY <1>1, <1>2, <2>1, <2>3, <3>2, StaysInv
  <2>4. CASE pc' = Len(Script) + 1
    <3>1. pc' \in Nat \ {0} /\ pc' > Len(Script)  BY <1>3, <2>4
    <3>2. Progress'  BY <1>1, <3>1, NoProgress
    <3> QED  BY <1>1, <2>1, <3>1, <3>2, StaysInv
  <2> QED  BY <2>2, <2>3, <2>4
<1> QED  BY <1>1, <1>5, <1>6

LEMMA TestPageInv == ASSUME Inv, TestPage PROVE Inv'
<1> DEFINE r == Script[pc].req
<1>1. /\ pc \in DOMAIN Script /\ test' = test /\ r.op = "Walk" /\ Ask(r)
      /\ pc' = pc + 1 \/ pc' = pc
  BY DEF TestPage
<1>2. TypeInv /\ Pair(mem, pg) /\ HeldInv /\ AnsweredAlike /\ pc \in Nat \ {0}
  BY DEF Inv, TypeInv
<1>3. IsFiniteSet(DOMAIN Script)  BY <1>2, ScriptFacts DEF TypeInv
<1>4. RequestOK(r) /\ ReadyFor(r)  BY <1>1, TestReady
<1> HIDE DEF r
<1>5. Stays /\ Outcome(r)  BY <1>1, <1>2, <1>3, <1>4, AskStep
<1>6. CASE pc' = pc + 1
  <2>1. Progress'  BY <1>1, <1>5, <1>6, AdvanceProgress DEF r
  <2> QED  BY <1>1, <1>2, <1>5, <1>6, <2>1, StaysInv
<1>7. CASE pc' = pc
  <2>1. Script' = Script  BY <1>1 DEF Script, Session
  <2>2. DOMAIN mem'.workspaces = DOMAIN mem.workspaces /\ DOMAIN mem'.apis = DOMAIN mem.apis
        /\ made' = made
    BY <1>1, <1>5 DEF Outcome, ListOps
  <2>3. Progress  BY DEF Inv
  <2>4. Progress'  BY <1>7, <2>1, <2>2, <2>3 DEF Progress
  <2> QED  BY <1>1, <1>2, <1>5, <1>7, <2>4, StaysInv
<1> QED  BY <1>1, <1>6, <1>7

LEMMA SessionStepInv == ASSUME Inv, NEW r \in SessionSteps, SessionStep(r) PROVE Inv'
<1>1. /\ test' = test /\ pc \notin DOMAIN Script /\ pc' = pc + 1
      /\ r.op = "CreateKey" => OfItsAPI(r.lit.plain)
      /\ IF r.op = "Mutate" THEN Write(r.arg) ELSE Ask(r)
  BY DEF SessionStep
<1>2. TypeInv /\ Pair(mem, pg) /\ HeldInv /\ AnsweredAlike /\ pc \in Nat \ {0}
  BY DEF Inv, TypeInv
<1>3. IsFiniteSet(DOMAIN Script) /\ Len(Script) \in Nat /\ DOMAIN Script = 1 .. Len(Script)
  BY <1>2, ScriptFacts DEF TypeInv, ScriptOK
<1>4. RequestOK(r) /\ r.op # "Walk" /\ (r.op = "ListKeys" => r.arg.token \in {"none", "next"})
  BY SessionAssumption
<1>5. Progress' /\ pc' \in Nat \ {0}
  <2>1. pc' \in Nat \ {0} /\ pc' > Len(Script)  BY <1>1, <1>2, <1>3
  <2> QED  BY <1>1, <2>1, NoProgress
<1>6. CASE r.op = "Mutate"
  <2>1. r.arg \in {"in", "out", "all"} /\ Write(r.arg)  BY <1>1, <1>4, <1>6 DEF RequestOK
  <2>2. Stays  BY <1>2, <2>1, WriteStep
  <2> QED  BY <1>1, <1>5, <2>2, StaysInv
<1>7. CASE r.op # "Mutate"
  <2>1. r.op = "CreateKey" => /\ r.lit.plain.api \in DOMAIN mem.apis
                              /\ r.lit.plain.workspace \in DOMAIN mem.workspaces
    BY <1>1, <1>2 DEF OfItsAPI, Pair, MemoryOK, mem
  <2>2. ReadyFor(r)  BY <1>4, <2>1 DEF ReadyFor, ListOps
  <2>3. Ask(r)  BY <1>1, <1>7
  <2>4. Stays  BY <1>2, <1>3, <1>4, <1>7, <2>2, <2>3, AskStep
  <2> QED  BY <1>1, <1>5, <2>4, StaysInv
<1> QED  BY <1>6, <1>7

LEMMA InvNext == Inv /\ [Next]_vars => Inv'
<1> SUFFICES ASSUME Inv, [Next]_vars PROVE Inv'  OBVIOUS
<1>1. CASE TestStep  BY <1>1, TestStepInv
<1>2. CASE TestPage  BY <1>2, TestPageInv
<1>3. CASE NextTest  BY <1>3, NextTestInv
<1>4. ASSUME NEW r \in SessionSteps, SessionStep(r) PROVE Inv'  BY <1>4, SessionStepInv
<1>5. CASE UNCHANGED vars
  BY <1>5
  DEF vars, Inv, TypeInv, HeldInv, Progress, AnsweredAlike, mem, pg, Script, Session
<1> QED  BY <1>1, <1>2, <1>3, <1>4, <1>5 DEF Next

LEMMA InvStored == Inv => StoredAlike
<1> SUFFICES ASSUME Inv PROVE StoredAlike  OBVIOUS
<1>1. StoresAlike(mem, pg)  BY DEF Inv, Pair
<1> QED  BY <1>1 DEF StoresAlike, RowsAlike, StoredAlike, Tables, mem, pg

\* Whatever sequence of calls is made, in the tests or in any session, and
\* whatever callers write through references they passed to the drivers or
\* were given by them, memory and Postgres hold the same workspaces, APIs and
\* keys: memory's clones keep every stored reference out of callers' hands,
\* and the columns keep what its structs do, up to the clock's precision.
THEOREM StoresStayAlike == Spec => []StoredAlike
<1>1. Init => Inv  BY InitInv
<1>2. Inv /\ [Next]_vars => Inv'  BY InvNext
<1>3. Inv => StoredAlike  BY InvStored
<1> QED  BY <1>1, <1>2, <1>3, PTL DEF Spec

\* Every call of every such sequence gets the same error and the same fields
\* from both drivers, listings and their page tokens included, so a program
\* cannot tell which driver it runs on but by the clock and by UpdatedAt of a
\* key revoked twice.
THEOREM AnswersStayAlike == Spec => []AnsweredAlike
<1>1. Init => Inv  BY InitInv
<1>2. Inv /\ [Next]_vars => Inv'  BY InvNext
<1>3. Inv => AnsweredAlike  BY DEF Inv
<1> QED  BY <1>1, <1>2, <1>3, PTL DEF Spec

=============================================================================
