------------------------------ MODULE Listing -------------------------------
(***************************************************************************)
(* ListKeys of both drivers: what one call returns for the keys stored at   *)
(* that instant (memory holds its mutex, Postgres reads one snapshot).      *)
(* Key IDs are positive integers in the order the driver sorts them in; a   *)
(* page token is any number, the empty one 0.  Of a key the listing looks   *)
(* at the ID, the API and the owner.                                        *)
(***************************************************************************)
EXTENDS Integers, FiniteSets, Sequences

CONSTANTS DefaultPageSize,    \* what a page size <= 0 stands for (50)
          AnyOwner            \* an empty OwnerPrincipalID: no filter

ASSUME PageSizeAssumption == DefaultPageSize \in Nat \ {0}

NoToken == 0

PageSize(n) == IF n <= 0 THEN DefaultPageSize ELSE n

Matches(row, q) ==
    row.api = q.api /\ (q.owner = AnyOwner \/ row.owner = q.owner)

Matching(rows, q) == {id \in DOMAIN rows : Matches(rows[id], q)}

\* The IDs of S in ascending order.
Sorted(S) ==
    [i \in 1 .. Cardinality(S) |->
        CHOOSE x \in S : Cardinality({y \in S : y < x}) = i - 1]

\* sort.SearchStrings: how many of the sorted ids are below the token.
SearchStrings(ids, token) == Cardinality({i \in 1 .. Len(ids) : ids[i] < token})

\* Mutant: a token that is itself a key's ID is not stepped over.
StartAtToken(ids, token) ==
    IF token = NoToken THEN 0 ELSE SearchStrings(ids, token)

\* The index after which the page starts.
Start(ids, token) ==
    LET i == SearchStrings(ids, token) IN
    IF token = NoToken THEN 0
    ELSE IF i < Len(ids) /\ ids[i + 1] = token THEN i + 1
    ELSE i

\* Mutant: a token even when the page ends with the last key.
EagerToken(ids, end) == IF end <= Len(ids) /\ end > 0 THEN ids[end] ELSE NoToken

\* Mutant: the token is an offset.
OffsetToken(ids, end) == IF end < Len(ids) THEN end ELSE NoToken

NextToken(ids, end) == IF end < Len(ids) THEN ids[end] ELSE NoToken

\* memory: filter, sort, find the token, slice.
MemoryPage(rows, q) ==
    LET ids == Sorted(Matching(rows, q))
        start == Start(ids, q.token)
        wanted == start + PageSize(q.size)
        end == IF wanted > Len(ids) THEN Len(ids) ELSE wanted
    IN [ids |-> SubSeq(ids, start + 1, end), next |-> NextToken(ids, end)]

\* Mutant: the extra row's ID is the token.
TokenOfExtra(out, size) ==
    IF Len(out) > size
    THEN [ids |-> SubSeq(out, 1, size), next |-> out[size + 1]]
    ELSE [ids |-> out, next |-> NoToken]

\* One row more than asked for was fetched: it only shows that there is more.
Truncated(out, size) ==
    IF Len(out) > size
    THEN [ids |-> SubSeq(out, 1, size), next |-> out[size]]
    ELSE [ids |-> out, next |-> NoToken]

\* postgres: WHERE, ORDER BY and LIMIT size + 1 in one SELECT.
PostgresPage(rows, q) ==
    LET size == PageSize(q.size)
        after == {id \in Matching(rows, q) : q.token = NoToken \/ id > q.token}
        fetched == {id \in after : Cardinality({x \in after : x < id}) < size + 1}
    IN Truncated(Sorted(fetched), size)

=============================================================================
