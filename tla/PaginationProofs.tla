-------------------------- MODULE PaginationProofs --------------------------
(* Walking through the pages of a listing loses, repeats and misorders      *)
(* nothing, and the two drivers page alike, for every set of key IDs, every *)
(* page size and every number of keys.                                      *)
EXTENDS Pagination, ListingProofs

-----------------------------------------------------------------------------
(* The walk.                                                                *)

\* A restart forgets keys and changes none.
Stored ==
    /\ IsFiniteSet(DOMAIN issued)
    /\ \A id \in DOMAIN rows : rows[id] = issued[id]

OwedMatch == \A id \in owed : Matches(rows[id], query)

\* The token is at or behind everything listed, and what was listed was a key.
Passed ==
    /\ phase = "walking" => \A i \in DOMAIN listed : listed[i] <= token
    /\ \A i \in DOMAIN listed : listed[i] \in DOMAIN issued

Inv ==
    /\ TypeOK /\ Stored /\ OwedMatch /\ Passed
    /\ PagesInOrder /\ NothingSkipped /\ TokenPromisesMore

LEMMA TableFacts ==
    ASSUME TypeOK, Stored
    PROVE  /\ DOMAIN issued \subseteq Nat \ {NoToken}
           /\ DOMAIN rows \subseteq Nat \ {NoToken} /\ IsFiniteSet(DOMAIN rows)
           /\ \A q : Matching(rows, q) \subseteq Matching(issued, q)
<1>1. DOMAIN rows \in SUBSET DOMAIN issued /\ DOMAIN issued \subseteq Nat \ {NoToken}
  BY KeyIDsAssumption DEF TypeOK
<1>2. IsFiniteSet(DOMAIN rows)  BY <1>1, FS_Subset DEF Stored
<1>3. \A q : Matching(rows, q) \subseteq Matching(issued, q)
  BY <1>1 DEF Matching, Stored
<1> QED  BY <1>1, <1>2, <1>3

\* What the handler gets from either driver.
LEMMA WalkPage ==
    ASSUME TypeOK, Stored
    PROVE  LET A == Above(Matching(rows, query), token)  page == Page(Request)
               Holds(x) == \E i \in 1 .. Len(page.ids) : page.ids[i] = x
           IN /\ A \subseteq DOMAIN rows /\ page.ids \in Seq(A)
              /\ \A i, j \in 1 .. Len(page.ids) : i < j => page.ids[i] < page.ids[j]
              /\ page.next = NoToken => \A x \in A : Holds(x)
              /\ page.next # NoToken =>
                    /\ page.next \in A /\ \E x \in A : x > page.next
                    /\ \A i \in 1 .. Len(page.ids) : page.ids[i] <= page.next
                    /\ \A x \in A : x <= page.next => Holds(x)
<1> DEFINE q == Request  A == Above(Matching(rows, query), token)
<1>1. q.token = token /\ token \in Nat /\ q.size = query.size /\ query.size \in Int
  BY KeyIDsAssumption, QueriesAssumption DEF Request, TypeOK, NoToken
<1>2. Matching(rows, q) = Matching(rows, query)  BY DEF Matching, Matches, Request
<1>3. Ahead(rows, q) = A  BY <1>1, <1>2 DEF Ahead
<1>4. A \subseteq DOMAIN rows /\ IsFiniteSet(A) /\ A \in SUBSET (Nat \ {NoToken})
  <2>1. A \in SUBSET DOMAIN rows  BY DEF Above, Matching
  <2> QED  BY <2>1, TableFacts, FS_Subset
<1> HIDE DEF q, A
<1>5. q.token \in Nat /\ q.size \in Int  BY <1>1
<1>6. Page(q) = Truncated(Sorted(A), PageSize(query.size))
  BY <1>1, <1>3, <1>5, TableFacts, MemoryPages, PostgresPages DEF Page
<1>7. PageSize(query.size) \in Nat \ {0}  BY <1>1, PageSizeFacts
<1> DEFINE n == PageSize(query.size)
<1> HIDE DEF n
<1>8. Page(q) = Truncated(Sorted(A), n) /\ n \in Nat \ {0}  BY <1>6, <1>7 DEF n
<1> DEFINE page == Truncated(Sorted(A), n)
<1>9. /\ page.ids \in Seq(A)
      /\ \A i, j \in 1 .. Len(page.ids) : i < j => page.ids[i] < page.ids[j]
      /\ page.next = NoToken => \A x \in A : \E i \in 1 .. Len(page.ids) : page.ids[i] = x
      /\ page.next # NoToken =>
            /\ page.next \in A /\ \E x \in A : x > page.next
            /\ \A i \in 1 .. Len(page.ids) : page.ids[i] <= page.next
            /\ \A x \in A : x <= page.next => \E i \in 1 .. Len(page.ids) : page.ids[i] = x
  BY <1>4, <1>8, PageFacts
<1>10. page = Page(Request)  BY <1>8 DEF q
<1> HIDE DEF page
<1> QED  BY <1>4, <1>9, <1>10 DEF A

LEMMA InvInit == Init => Inv
<1> SUFFICES ASSUME Init PROVE Inv  OBVIOUS
<1>1. DOMAIN rows = {} /\ DOMAIN issued = {} /\ DOMAIN listed = {} /\ Len(listed) = 0
  BY DEF Init
<1>2. TypeOK
  <2>1. rows \in [DOMAIN rows -> Rows] /\ issued \in [DOMAIN issued -> Rows]
    BY <1>1 DEF Init
  <2> QED  BY <1>1, <2>1, RetriesAssumption DEF Init, TypeOK
<1>3. Stored  BY <1>1, FS_EmptySet DEF Stored
<1>4. OwedMatch /\ Passed /\ PagesInOrder /\ NothingSkipped /\ TokenPromisesMore
  BY <1>1 DEF Init, OwedMatch, Passed, PagesInOrder, NothingSkipped, TokenPromisesMore
<1> QED  BY <1>2, <1>3, <1>4 DEF Inv

LEMMA CreateKeyInv ==
    ASSUME Inv, NEW id \in KeyIDs, NEW r \in Rows, CreateKey(id, r)
    PROVE  Inv'
<1>1. /\ id \notin DOMAIN issued /\ id \notin DOMAIN rows
      /\ UNCHANGED <<driver, phase, query, token, listed, retries>>
  BY DEF CreateKey, Inv, TypeOK
<1>2. /\ DOMAIN rows' = DOMAIN rows \cup {id} /\ DOMAIN issued' = DOMAIN issued \cup {id}
      /\ rows'[id] = r /\ issued'[id] = r
      /\ \A i \in DOMAIN rows : rows'[i] = rows[i]
      /\ \A i \in DOMAIN issued : issued'[i] = issued[i]
  BY <1>1 DEF CreateKey, Put
<1>3. rows' \in [DOMAIN rows' -> Rows] /\ issued' \in [DOMAIN issued' -> Rows]
  <2>1. rows' = [i \in DOMAIN rows' |-> rows'[i]] /\ issued' = [i \in DOMAIN issued' |-> issued'[i]]
    BY <1>2 DEF CreateKey, Put
  <2>2. (\A i \in DOMAIN rows : rows[i] \in Rows) /\ \A i \in DOMAIN issued : issued[i] \in Rows
    BY DEF Inv, TypeOK
  <2>3. (\A i \in DOMAIN rows' : rows'[i] \in Rows) /\ \A i \in DOMAIN issued' : issued'[i] \in Rows
    BY <1>2, <2>2
  <2> QED  BY <2>1, <2>3
<1>4. owed' \subseteq owed \cup {id}
  BY DEF CreateKey
<1>5. id \in owed' /\ id \notin owed => phase = "walking" /\ Matches(r, query) /\ id > token
  BY DEF CreateKey
<1>6. owed \subseteq DOMAIN rows /\ id \notin owed  BY <1>1 DEF Inv, TypeOK
<1>7. TypeOK'
  BY <1>1, <1>2, <1>3, <1>4, <1>6 DEF Inv, TypeOK
<1>8. Stored'
  <2>1. IsFiniteSet(DOMAIN issued')  BY <1>2, FS_AddElement DEF Inv, Stored
  <2>2. \A i \in DOMAIN rows : rows[i] = issued[i] /\ i \in DOMAIN issued
    BY DEF Inv, Stored, TypeOK
  <2> QED  BY <1>2, <2>1, <2>2 DEF Stored
<1>9. OwedMatch'  BY <1>1, <1>2, <1>4, <1>5, <1>6 DEF Inv, OwedMatch
<1>10. Passed'  BY <1>1, <1>2 DEF Inv, Passed
<1>11. PagesInOrder'  BY <1>1, <1>2 DEF Inv, Passed, PagesInOrder
<1>12. NothingSkipped'
  <2>1. id \in owed' => phase = "walking" /\ ~(id <= token)
    <3>1. id \in Nat /\ token \in Nat  BY KeyIDsAssumption DEF Inv, TypeOK, NoToken
    <3> QED  BY <1>5, <1>6, <3>1
  <2> QED  BY <1>1, <1>4, <2>1 DEF Inv, NothingSkipped
<1>13. TokenPromisesMore'
  <2>1. Matching(issued, query) \subseteq Matching(issued, query)'
    BY <1>1, <1>2 DEF Matching
  <2> QED  BY <1>1, <2>1 DEF Inv, TokenPromisesMore
<1> QED  BY <1>7, <1>8, <1>9, <1>10, <1>11, <1>12, <1>13 DEF Inv

LEMMA StartWalkInv ==
    ASSUME Inv, NEW q \in Queries, StartWalk(q)
    PROVE  Inv'
<1>1. DOMAIN listed' = {} /\ Len(listed') = 0 /\ listed' \in Seq(KeyIDs)  BY DEF StartWalk
<1>2. owed' \subseteq DOMAIN rows /\ \A id \in owed' : Matches(rows[id], q)
  BY DEF StartWalk, Matching
<1>3. \A id \in owed' : ~(id <= NoToken)
  <2>1. \A id \in owed' : id \in Nat /\ id # 0
    BY <1>2, KeyIDsAssumption DEF Inv, TypeOK, NoToken
  <2> QED  BY <2>1 DEF NoToken
<1>4. TypeOK'  BY <1>1, <1>2, RetriesAssumption DEF Inv, TypeOK, StartWalk
<1>5. Stored' /\ OwedMatch' /\ Passed'
  BY <1>1, <1>2 DEF Inv, Stored, OwedMatch, Passed, StartWalk
<1>6. PagesInOrder' /\ TokenPromisesMore'
  BY <1>1 DEF PagesInOrder, TokenPromisesMore, StartWalk
<1>7. NothingSkipped'  BY <1>3 DEF NothingSkipped, StartWalk
<1> QED  BY <1>4, <1>5, <1>6, <1>7 DEF Inv

LEMMA ListKeysInv ==
    ASSUME Inv, ListKeys
    PROVE  Inv'
<1> DEFINE A == Above(Matching(rows, query), token)  page == Page(Request)
           p == page.ids  next == page.next  L == Len(listed)
<1>1. /\ phase = "walking" /\ listed' = listed \o p /\ token' = next
      /\ phase' = IF next = NoToken THEN "done" ELSE "walking"
      /\ UNCHANGED <<driver, rows, issued, query, owed, retries>>
  BY DEF ListKeys
<1>2. /\ A \subseteq DOMAIN rows /\ p \in Seq(A)
      /\ \A i, j \in 1 .. Len(p) : i < j => p[i] < p[j]
      /\ next = NoToken => \A x \in A : \E i \in 1 .. Len(p) : p[i] = x
      /\ next # NoToken =>
            /\ next \in A /\ \E x \in A : x > next
            /\ \A i \in 1 .. Len(p) : p[i] <= next
            /\ \A x \in A : x <= next => \E i \in 1 .. Len(p) : p[i] = x
  BY WalkPage DEF Inv
<1>3. \A x \in A : x \in Matching(rows, query) /\ x > token  BY DEF Above
<1>4. \A x \in Matching(rows, query) : x > token => x \in A  BY DEF Above
<1> HIDE DEF A, page
<1>5. DOMAIN rows \subseteq KeyIDs /\ DOMAIN rows \subseteq DOMAIN issued
      /\ listed \in Seq(KeyIDs) /\ KeyIDs \subseteq Nat /\ token \in Nat
  BY KeyIDsAssumption DEF Inv, TypeOK, NoToken
<1>6. p \in Seq(KeyIDs)  BY <1>2, <1>5, SeqMonotonic
<1>7. /\ listed' \in Seq(KeyIDs) /\ Len(listed') = L + Len(p)
      /\ \A i \in 1 .. L + Len(p) :
            listed'[i] = IF i <= L THEN listed[i] ELSE p[i - L]
  BY <1>1, <1>5, <1>6, ConcatProperties
<1>8. L \in Nat /\ Len(p) \in Nat /\ DOMAIN listed = 1 .. L /\ DOMAIN p = 1 .. Len(p)
      /\ DOMAIN listed' = 1 .. L + Len(p)
  BY <1>5, <1>6, <1>7, LenProperties
<1> HIDE DEF p, next, L
<1>behind. \A i \in 1 .. L : listed[i] \in Nat /\ listed[i] <= token
  <2>1. \A i \in 1 .. L : listed[i] \in KeyIDs  BY <1>5, ElementOfSeq DEF L
  <2> QED  BY <1>1, <1>5, <1>8, <2>1 DEF Inv, Passed
<1>9. \A i \in 1 .. L : listed'[i] = listed[i] /\ i \in DOMAIN listed'  BY <1>7, <1>8
<1>10. \A i \in 1 .. Len(p) : listed'[L + i] = p[i] /\ L + i \in DOMAIN listed'
  <2>1. \A i \in 1 .. Len(p) : L + i \in 1 .. L + Len(p) /\ ~(L + i <= L) /\ (L + i) - L = i
    BY <1>8
  <2> QED  BY <1>7, <1>8, <2>1
<1>11. \A i \in 1 .. L + Len(p) :
          \/ i \in 1 .. L /\ listed'[i] = listed[i]
          \/ i - L \in 1 .. Len(p) /\ listed'[i] = p[i - L]
  <2>1. \A i \in 1 .. L + Len(p) : IF i <= L THEN i \in 1 .. L ELSE i - L \in 1 .. Len(p)
    BY <1>8
  <2> QED  BY <1>7, <2>1
<1>12. \A i \in 1 .. Len(p) : p[i] \in A /\ p[i] > token /\ p[i] \in Matching(rows, query)
  <2>1. \A i \in 1 .. Len(p) : p[i] \in A  BY <1>2, ElementOfSeq
  <2> QED  BY <1>3, <2>1
<1>13. Matching(rows, query) \subseteq Matching(issued, query)  BY TableFacts DEF Inv
<1>14. TypeOK'
  <2>1. next \in KeyIDs \cup {NoToken}  BY <1>2, <1>5
  <2> QED  BY <1>1, <1>7, <2>1 DEF Inv, TypeOK
<1>15. Stored' /\ OwedMatch'  BY <1>1 DEF Inv, Stored, OwedMatch
<1>16. Passed'
  <2>1. ASSUME NEW i \in DOMAIN listed' PROVE listed'[i] \in DOMAIN issued
    <3>1. CASE i \in 1 .. L /\ listed'[i] = listed[i]  BY <1>8, <3>1 DEF Inv, Passed
    <3>2. CASE i - L \in 1 .. Len(p) /\ listed'[i] = p[i - L]
      BY <1>2, <1>5, <1>12, <3>2
    <3> QED  BY <1>8, <1>11, <3>1, <3>2
  <2>2. ASSUME phase' = "walking", NEW i \in DOMAIN listed' PROVE listed'[i] <= token'
    <3>1. next # NoToken /\ next \in A /\ next > token /\ next \in Nat
      BY <1>1, <1>2, <1>3, <1>5, <2>2
    <3>2. CASE i \in 1 .. L /\ listed'[i] = listed[i]
      <4>1. listed[i] <= token /\ listed[i] \in Nat
        BY <1>behind, <3>2
      <4> QED  BY <1>1, <1>5, <3>1, <3>2, <4>1
    <3>3. CASE i - L \in 1 .. Len(p) /\ listed'[i] = p[i - L]
      BY <1>1, <1>2, <3>1, <3>3
    <3> QED  BY <1>8, <1>11, <3>2, <3>3
  <2> QED  BY <1>1, <2>1, <2>2 DEF Passed
<1>17. PagesInOrder'
  <2>1. ASSUME NEW i \in DOMAIN listed' PROVE Matches(issued[listed'[i]], query)
    <3>1. CASE i \in 1 .. L /\ listed'[i] = listed[i]  BY <1>8, <3>1 DEF Inv, PagesInOrder
    <3>2. CASE i - L \in 1 .. Len(p) /\ listed'[i] = p[i - L]
      BY <1>12, <1>13, <3>2 DEF Matching
    <3> QED  BY <1>8, <1>11, <3>1, <3>2
  <2>2. ASSUME NEW i \in 1 .. Len(listed') - 1 PROVE listed'[i] < listed'[i + 1]
    <3>1. i \in 1 .. L + Len(p) - 1 /\ i \in Nat  BY <1>7, <1>8, <2>2
    <3>2. CASE i + 1 <= L
      <4>1. i \in 1 .. L - 1 /\ i \in 1 .. L /\ i + 1 \in 1 .. L  BY <1>8, <3>1, <3>2
      <4>2. listed[i] < listed[i + 1]  BY <4>1 DEF Inv, PagesInOrder, L
      <4> QED  BY <1>9, <4>1, <4>2
    <3>3. CASE i = L
      <4>1. i \in 1 .. L /\ 1 \in 1 .. Len(p)  BY <1>8, <3>1, <3>3
      <4>2. listed[i] <= token /\ listed[i] \in Nat
        BY <1>behind, <4>1
      <4>3. p[1] > token /\ p[1] \in Nat  BY <1>2, <1>5, <1>12, <4>1
      <4>4. listed'[i] = listed[i] /\ listed'[i + 1] = p[1]  BY <1>9, <1>10, <3>3, <4>1
      <4> QED  BY <1>5, <4>2, <4>3, <4>4
    <3>4. CASE i > L
      <4> DEFINE j == i - L
      <4>1. j \in 1 .. Len(p) /\ j + 1 \in 1 .. Len(p) /\ j < j + 1
            /\ L + j = i /\ L + (j + 1) = i + 1
        BY <1>8, <3>1, <3>4
      <4> HIDE DEF j
      <4>2. p[j] < p[j + 1]  BY <1>2, <4>1
      <4>3. listed'[L + j] = p[j] /\ listed'[L + (j + 1)] = p[j + 1]  BY <1>10, <4>1
      <4> QED  BY <4>1, <4>2, <4>3
    <3> QED  BY <1>8, <3>1, <3>2, <3>3, <3>4
  <2> QED  BY <1>1, <2>1, <2>2 DEF PagesInOrder
<1>18. NothingSkipped'
  <2>1. ASSUME NEW id \in owed, phase' = "done" \/ (phase' = "walking" /\ id <= token')
        PROVE  \E i \in DOMAIN listed' : listed'[i] = id
    <3>1. id \in Matching(rows, query) /\ id \in Nat
      BY <1>5 DEF Inv, TypeOK, OwedMatch, Matching
    <3>2. CASE id <= token
      <4>1. \E i \in DOMAIN listed : listed[i] = id  BY <1>1, <3>2 DEF Inv, NothingSkipped
      <4> QED  BY <1>8, <1>9, <4>1
    <3>3. CASE ~(id <= token)
      <4>1. id \in A  BY <1>4, <1>5, <3>1, <3>3
      <4>2. \E i \in 1 .. Len(p) : p[i] = id  BY <1>1, <1>2, <2>1, <4>1
      <4> QED  BY <1>10, <4>2
    <3> QED  BY <3>2, <3>3
  <2> QED  BY <1>1, <2>1 DEF NothingSkipped
<1>19. TokenPromisesMore'
  <2>1. ASSUME next # NoToken PROVE \E id \in Matching(issued, query) : id > next
    BY <1>2, <1>3, <1>13, <2>1
  <2> QED  BY <1>1, <2>1 DEF TokenPromisesMore, Matching
<1> QED  BY <1>14, <1>15, <1>16, <1>17, <1>18, <1>19 DEF Inv

LEMMA OtherInv ==
    ASSUME Inv, InvalidArgument \/ PageLost \/ Restart \/ UNCHANGED vars
    PROVE  Inv'
<1>1. CASE InvalidArgument
  BY <1>1 DEF InvalidArgument, Inv, TypeOK, Stored, OwedMatch, Passed, PagesInOrder,
              NothingSkipped, TokenPromisesMore, Matching
<1>2. CASE PageLost
  <2>1. retries' \in 0 .. MaxRetries  BY <1>2, RetriesAssumption DEF PageLost, Inv, TypeOK
  <2> QED  BY <1>2, <2>1 DEF PageLost, Inv, TypeOK, Stored, OwedMatch, Passed, PagesInOrder,
                             NothingSkipped, TokenPromisesMore, Matching
<1>3. CASE Restart
  <2>1. DOMAIN rows' = {} /\ rows' \in [DOMAIN rows' -> Rows] /\ owed' = {}
    BY <1>3 DEF Restart
  <2> QED  BY <1>3, <2>1 DEF Restart, Inv, TypeOK, Stored, OwedMatch, Passed, PagesInOrder,
                             NothingSkipped, TokenPromisesMore, Matching
<1>4. CASE UNCHANGED vars
  BY <1>4 DEF vars, Inv, TypeOK, Stored, OwedMatch, Passed, PagesInOrder,
              NothingSkipped, TokenPromisesMore, Matching
<1> QED  BY <1>1, <1>2, <1>3, <1>4

LEMMA InvStep == Inv /\ [Next]_vars => Inv'
BY CreateKeyInv, StartWalkInv, ListKeysInv, OtherInv DEF Next

LEMMA Safe == Spec => []Inv
BY InvInit, InvStep, PTL DEF Spec

-----------------------------------------------------------------------------
(* What it means.                                                           *)

\* Every reachable state of the walk is of the right type: a token is a key's
\* ID or empty, and what a walk is owed is stored.
THEOREM TypeCorrect == Spec => []TypeOK
<1>1. Inv => TypeOK  BY DEF Inv
<1> QED  BY <1>1, Safe, PTL

\* A caller that follows the tokens gets every key that was there when it
\* began, or was created ahead of it since, however many pages that takes
\* and whichever of them it had to ask for again.
THEOREM AllListed == Spec => []NothingSkipped
<1>1. Inv => NothingSkipped  BY DEF Inv
<1> QED  BY <1>1, Safe, PTL

\* It gets each of them once, in the order of the IDs, and no key of another
\* API or owner, across page boundaries and whatever is created meanwhile.
THEOREM ListedInOrder == Spec => []PagesInOrder
<1>1. Inv => PagesInOrder  BY DEF Inv
<1> QED  BY <1>1, Safe, PTL

\* A full last page carries no token: ListKeys hands one out only when it
\* knows of a further key.
THEOREM TokensKept == Spec => []TokenPromisesMore
<1>1. Inv => TokenPromisesMore  BY DEF Inv
<1> QED  BY <1>1, Safe, PTL

\* The memory driver's sort, search and slice and the Postgres driver's
\* WHERE, ORDER BY and LIMIT give the same page of the same keys for every
\* query, page size and token, the tokens no driver ever gave out included.
THEOREM DriversPageAlike == Spec => []DriversAgree
<1>1. ASSUME Inv PROVE DriversAgree
  <2> SUFFICES ASSUME NEW q \in Queries, NEW t \in KeyIDs \cup {NoToken}, NEW extra \in {0, 1}
               PROVE  LET r == [api |-> q.api, owner |-> q.owner, size |-> q.size,
                                token |-> t + extra]
                      IN  MemoryPage(rows, r) = PostgresPage(rows, r)
    BY DEF DriversAgree
  <2> DEFINE r == [api |-> q.api, owner |-> q.owner, size |-> q.size, token |-> t + extra]
  <2>1. r.token \in Nat /\ r.size \in Int
    BY KeyIDsAssumption, QueriesAssumption DEF NoToken
  <2> HIDE DEF r
  <2>2. IsFiniteSet(DOMAIN rows) /\ DOMAIN rows \subseteq Nat \ {NoToken}
    BY <1>1, TableFacts DEF Inv
  <2>3. MemoryPage(rows, r) = PostgresPage(rows, r)
    BY <2>1, <2>2, MemoryPages, PostgresPages
  <2> QED  BY <2>3 DEF r
<1>2. Inv => DriversAgree  BY <1>1
<1> QED  BY <1>2, Safe, PTL

=============================================================================
