----------------------------- MODULE Pagination -----------------------------
(***************************************************************************)
(* A caller follows NextPageToken from page to page through the ListKeys    *)
(* handler while keys are created under IDs anywhere in the order           *)
(* (uuid.NewString), answers get lost, the driver fails and the memory      *)
(* store is restarted empty.  Keys are never deleted, and rotating or       *)
(* revoking one changes nothing a listing looks at.                         *)
(***************************************************************************)
EXTENDS Listing

CONSTANTS KeyIDs,
          Rows,         \* the keys created: api and owner
          Queries,      \* the listings asked for: api, owner and page size
          NoAPI,        \* an empty api_id
          MaxRetries    \* bound on the pages that are asked for again

ASSUME KeyIDsAssumption == KeyIDs \subseteq Nat \ {NoToken}

ASSUME QueriesAssumption == \A q \in Queries : q.size \in Int

ASSUME RetriesAssumption == MaxRetries \in Nat

VARIABLES driver,     \* "memory" or "postgres"
          rows,       \* the stored keys: id -> [api, owner]
          issued,     \* every key ever created, those a restart lost included
          phase,      \* of the walk: "idle", "walking", "done" or "rejected"
          query, token,
          listed,     \* the IDs of all the pages so far
          owed,       \* the keys this walk has to list
          retries

vars == <<driver, rows, issued, phase, query, token, listed, owed, retries>>

Init ==
    /\ driver \in {"memory", "postgres"}
    /\ rows = <<>> /\ issued = <<>>
    /\ phase = "idle" /\ query \in Queries /\ token = NoToken
    /\ listed = <<>> /\ owed = {} /\ retries = 0

Put(table, id, row) ==
    [i \in DOMAIN table \cup {id} |-> IF i = id THEN row ELSE table[i]]

\* A key created while a walk is under way: the walk owes it if its ID is
\* still ahead.
CreateKey(id, row) ==
    /\ id \notin DOMAIN issued
    /\ rows' = Put(rows, id, row)
    /\ issued' = Put(issued, id, row)
    /\ owed' = IF phase = "walking" /\ Matches(row, query) /\ id > token
               THEN owed \cup {id} ELSE owed
    /\ UNCHANGED <<driver, phase, query, token, listed, retries>>

StartWalk(q) ==
    /\ phase # "walking"
    /\ phase' = "walking" /\ query' = q
    /\ token' = NoToken /\ listed' = <<>> /\ retries' = 0
    /\ owed' = Matching(rows, q)
    /\ UNCHANGED <<driver, rows, issued>>

\* The handler refuses an empty api_id.
InvalidArgument ==
    /\ phase = "walking" /\ query.api = NoAPI
    /\ phase' = "rejected"
    /\ UNCHANGED <<driver, rows, issued, query, token, listed, owed, retries>>

Page(q) ==
    IF driver = "memory" THEN MemoryPage(rows, q) ELSE PostgresPage(rows, q)

Request == [api |-> query.api, owner |-> query.owner, size |-> query.size,
            token |-> token]

\* Mutant: a listing that finds nothing is not answered.
WaitForKeys ==
    /\ phase = "walking" /\ query.api # NoAPI
    /\ Page(Request).ids # <<>>
    /\ listed' = listed \o Page(Request).ids
    /\ token' = Page(Request).next
    /\ phase' = IF token' = NoToken THEN "done" ELSE "walking"
    /\ UNCHANGED <<driver, rows, issued, query, owed, retries>>

ListKeys ==
    /\ phase = "walking" /\ query.api # NoAPI
    /\ LET page == Page(Request) IN
          /\ listed' = listed \o page.ids
          /\ token' = page.next
          /\ phase' = IF page.next = NoToken THEN "done" ELSE "walking"
    /\ UNCHANGED <<driver, rows, issued, query, owed, retries>>

\* Internal (a driver error), or an answer lost on the way: the page is asked
\* for again under the same token.
PageLost ==
    /\ phase = "walking" /\ query.api # NoAPI
    /\ retries < MaxRetries
    /\ retries' = retries + 1
    /\ UNCHANGED <<driver, rows, issued, phase, query, token, listed, owed>>

\* memory.New: the caller goes on with a token of the keys that were lost.
Restart ==
    /\ driver = "memory" /\ rows # <<>>
    /\ rows' = <<>> /\ owed' = {}
    /\ UNCHANGED <<driver, issued, phase, query, token, listed, retries>>

Next ==
    \/ \E id \in KeyIDs, row \in Rows : CreateKey(id, row)
    \/ \E q \in Queries : StartWalk(q)
    \/ InvalidArgument \/ ListKeys \/ PageLost \/ Restart

\* A request the caller goes on making is answered in the end.
Fairness == WF_vars(ListKeys) /\ WF_vars(InvalidArgument)

Spec == Init /\ [][Next]_vars /\ Fairness

-----------------------------------------------------------------------------
TypeOK ==
    /\ driver \in {"memory", "postgres"}
    /\ DOMAIN rows \subseteq DOMAIN issued /\ DOMAIN issued \subseteq KeyIDs
    /\ issued \in [DOMAIN issued -> Rows] /\ rows \in [DOMAIN rows -> Rows]
    /\ phase \in {"idle", "walking", "done", "rejected"}
    /\ query \in Queries /\ token \in KeyIDs \cup {NoToken}
    /\ listed \in Seq(KeyIDs) /\ owed \subseteq DOMAIN rows
    /\ retries \in 0 .. MaxRetries

\* What has been listed, and what is still owed behind the token: nothing.
\* At the end everything that matched when the walk began, or was created
\* ahead of it, has been listed; only keys created behind the token (and keys
\* a restart lost) may be missing.
NothingSkipped ==
    \A id \in owed :
        phase = "done" \/ (phase = "walking" /\ id <= token)
            => \E i \in DOMAIN listed : listed[i] = id

\* Across all the pages no key comes twice or out of order, and none that the
\* API and owner asked for do not select.
PagesInOrder ==
    /\ \A i \in 1 .. Len(listed) - 1 : listed[i] < listed[i + 1]
    /\ \A i \in DOMAIN listed : Matches(issued[listed[i]], query)

\* A token is only handed out when there is a further key to list: without
\* a restart no walk ends with an empty page.
TokenPromisesMore ==
    phase = "walking" /\ token # NoToken =>
        \E id \in Matching(issued, query) : id > token

\* The two drivers answer every listing alike, whatever token (a key's or
\* not) and page size it names.
DriversAgree ==
    \A q \in Queries, t \in KeyIDs \cup {NoToken}, extra \in {0, 1} :
        LET r == [api |-> q.api, owner |-> q.owner, size |-> q.size,
                  token |-> t + extra]
        IN MemoryPage(rows, r) = PostgresPage(rows, r)

\* A caller that keeps following the tokens reaches the last page.
WalkEnds == phase = "walking" ~> phase # "walking"

=============================================================================
