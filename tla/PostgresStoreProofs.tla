------------------------- MODULE PostgresStoreProofs ------------------------
(* PostgresStore keeps the store contract and its pool, for every set of    *)
(* clients, calls and keys and every size of the pool.                      *)
EXTENDS PostgresStore, TLAPS

-----------------------------------------------------------------------------
(* The inductive invariant.                                                 *)

Connected == {"first", "rows", "second"}
Phases == {"idle", "called", "again", "applied"} \cup Connected

\* What a call can return: a row, a count, the keys of an API.
Lists == UNION {[ids -> Key] : ids \in SUBSET KeyIDs}
Vals == WorkspaceIDs \cup API \cup Key \cup Int \cup Lists \cup {Nil}
Res == [err : Errs, val : Vals]
Call == [phase : Phases, req : Requests \cup {Nil}, res : Res]

CallType == call \in [Clients -> Call]

\* The unique index holds.
KeysOK ==
    /\ DOMAIN keys \subseteq KeyIDs /\ keys \in [DOMAIN keys -> Key]
    /\ \A i, j \in DOMAIN keys : keys[i].hash = keys[j].hash => i = j

APIsOK == \A id \in DOMAIN apis : apis[id] \in API

\* No CreateKey will ever return this ID.
NeverIssued(id) == \A q \in Requests : q.op = "CreateKey" => q.id # id

\* Between its two statements: what the first statement found is still so
\* when the second runs, whatever ran in between.
SecondOK(c) ==
    LET r == call[c].req IN
    /\ r.op \in {"RotateKey", "DecrementRemainingUses"}
    /\ r.id \in DOMAIN keys \/ NeverIssued(r.id)
    /\ r.op = "DecrementRemainingUses" =>
          /\ call[c].res = Contract!NoResponse
          /\ r.id \in DOMAIN keys => keys[r.id].remaining <= 0
    /\ r.op = "RotateKey" =>
          IF r.id \in DOMAIN keys THEN call[c].res.err = "nil"
          ELSE call[c].res = Contract!Response("ErrNotFound", Nil)

CallOK(c) ==
    /\ call[c].phase # "idle" => call[c].req \in Requests
    /\ call[c].phase \in {"idle", "called", "first"} => call[c].res = Contract!NoResponse
    /\ call[c].phase \in {"called", "first"}
          /\ call[c].req.op \in {"RotateKey", "DecrementRemainingUses"}
             => call[c].req.id \in DOMAIN keys \/ NeverIssued(call[c].req.id)
    /\ call[c].phase \in {"again", "second"} => SecondOK(c)
    /\ call[c].phase = "rows" => call[c].res.err = "nil"

\* A key to be created has an ID of its own.
Creating(c) == call[c].phase # "idle" /\ call[c].req.op = "CreateKey"

Fresh ==
    /\ \A c \in Clients : Creating(c) /\ call[c].phase \in {"called", "first"}
                             => call[c].req.id \notin DOMAIN keys
    /\ \A c, d \in Clients : c # d /\ Creating(c) /\ Creating(d)
                             => call[c].req.id # call[d].req.id

Inv ==
    /\ CallType /\ KeysOK /\ ConnectionsReturned
    /\ \A c \in Clients : CallOK(c)
    /\ Fresh

-----------------------------------------------------------------------------
(* What the definitions give.                                               *)

\* The contract's rows are the store's.
LEMMA SameTypes ==
    /\ Contract!API = API /\ Contract!Key = Key
    /\ Contract!Hashes = Hashes /\ Contract!Time = Time
<1>1. Contract!Hashes = Hashes /\ Contract!Time = Time /\ Contract!TimePtr = TimePtr
  BY DEF Contract!Hashes, Hashes, Contract!Plaintexts, Plaintexts, Contract!Hash, Hash,
         Contract!Time, Time, Contract!TimePtr, TimePtr
<1> QED  BY <1>1 DEF Contract!API, API, Contract!Key, Key

LEMMA RequestFacts ==
    ASSUME NEW r \in Requests
    PROVE  /\ r.op = "CreateWorkspace" => r.id \in WorkspaceIDs
           /\ r.op = "CreateAPI" => r.id \in APIIDs /\ r.row \in API
           /\ r.op = "CreateKey" => r.id \in KeyIDs /\ r.row \in Key /\ r.row.hash \in Hashes
           /\ r.op = "RotateKey" => r.id \in KeyIDs /\ r.hash \in Hashes
           /\ r.op = "TouchLastVerified" => r.at \in Time
           /\ r.op = "GetWorkspace" => r.id \in WorkspaceIDs
<1>1. \/ r \in [op : {"CreateWorkspace"}, id : WorkspaceIDs]
      \/ r \in [op : {"CreateAPI"}, id : APIIDs, row : API]
      \/ r \in [op : {"CreateKey"}, id : KeyIDs, row : Key]
      \/ r \in [op : {"RevokeKey", "DecrementRemainingUses", "GetKeyByID"}, id : KeyIDs]
      \/ r \in [op : {"RotateKey"}, id : KeyIDs, hash : Hashes]
      \/ r \in [op : {"TouchLastVerified"}, id : KeyIDs, at : Time]
      \/ r \in [op : {"GetKeyByHash"}, hash : Hashes]
      \/ r \in [op : {"GetWorkspace"}, id : WorkspaceIDs]
      \/ r \in [op : {"GetAPI"}, id : APIIDs]
      \/ r \in [op : {"ListKeys"}, api : APIIDs]
  BY RequestsAssumption, SameTypes DEF Contract!Request
<1>2. \A k \in Key : k.hash \in Hashes  BY DEF Key
<1>3. CASE r \in [op : {"CreateWorkspace"}, id : WorkspaceIDs]  BY <1>3
<1>4. CASE r \in [op : {"CreateAPI"}, id : APIIDs, row : API]  BY <1>4
<1>5. CASE r \in [op : {"CreateKey"}, id : KeyIDs, row : Key]  BY <1>2, <1>5
<1>6. CASE r \in [op : {"RevokeKey", "DecrementRemainingUses", "GetKeyByID"}, id : KeyIDs]
  BY <1>6
<1>7. CASE r \in [op : {"RotateKey"}, id : KeyIDs, hash : Hashes]  BY <1>7
<1>8. CASE r \in [op : {"TouchLastVerified"}, id : KeyIDs, at : Time]  BY <1>8
<1>9. CASE r \in [op : {"GetKeyByHash"}, hash : Hashes]  BY <1>9
<1>10. CASE r \in [op : {"GetWorkspace"}, id : WorkspaceIDs]  BY <1>10
<1>11. CASE r \in [op : {"GetAPI"}, id : APIIDs]  BY <1>11
<1>12. CASE r \in [op : {"ListKeys"}, api : APIIDs]  BY <1>12
<1> QED  BY <1>1, <1>3, <1>4, <1>5, <1>6, <1>7, <1>8, <1>9, <1>10, <1>11, <1>12

LEMMA ValFacts ==
    /\ WorkspaceIDs \subseteq Vals /\ API \subseteq Vals /\ Key \subseteq Vals
    /\ Int \subseteq Vals /\ Nil \in Vals
BY DEF Vals

LEMMA ListFacts ==
    ASSUME DOMAIN keys \subseteq KeyIDs, keys \in [DOMAIN keys -> Key], NEW api
    PROVE  KeysOf(keys, api) \in Vals /\ Contract!KeysOf(keys, api) = KeysOf(keys, api)
<1> DEFINE ids == {i \in DOMAIN keys : keys[i].api = api}
<1>1. ids \in SUBSET KeyIDs /\ KeysOf(keys, api) \in [ids -> Key]  BY DEF KeysOf
<1>2. KeysOf(keys, api) \in Lists
  <2> HIDE DEF ids
  <2> QED  BY <1>1 DEF Lists
<1> QED  BY <1>2 DEF Vals, KeysOf, Contract!KeysOf

LEMMA ResFacts ==
    ASSUME NEW e \in Errs, NEW v \in Vals
    PROVE  /\ Contract!Response(e, v) \in Res /\ Contract!Response(e, v).err = e
           /\ Contract!Response(e, v).val = v
BY DEF Res, Contract!Response

\* A call moves on.
LEMMA MoveCall ==
    ASSUME CallType, NEW c \in Clients, NEW ph \in Phases, NEW rs \in Res,
           call' = [call EXCEPT ![c].phase = ph, ![c].res = rs]
    PROVE  /\ CallType'
           /\ call'[c].phase = ph /\ call'[c].res = rs /\ call'[c].req = call[c].req
           /\ \A d \in Clients \ {c} : call'[d] = call[d]
<1> DEFINE s == [call[c] EXCEPT !.phase = ph, !.res = rs]
<1>1. s \in Call /\ s.phase = ph /\ s.res = rs /\ s.req = call[c].req
  BY DEF CallType, Call
<1>2. call' = [call EXCEPT ![c] = s]  BY DEF CallType
<1> HIDE DEF s
<1> QED  BY <1>1, <1>2 DEF CallType

LEMMA DoneCall ==
    ASSUME CallType, NEW c \in Clients, NEW ph \in Phases, NEW e \in Errs, NEW v \in Vals,
           Done(c, ph, e, v)
    PROVE  call'[c].req = call[c].req /\ call'[c].res = Contract!Response(e, v)
<1> DEFINE rs == Contract!Response(e, v)
<1>1. call' = [call EXCEPT ![c] = [call[c] EXCEPT !.phase = ph, !.res = rs]]
  BY DEF Done, Move, CallType
<1> HIDE DEF rs
<1>2. call'[c] = [call[c] EXCEPT !.phase = ph, !.res = rs]  BY <1>1 DEF CallType
<1>3. call[c] \in Call  BY DEF CallType
<1>4. call'[c].req = call[c].req /\ call'[c].res = rs  BY <1>2, <1>3 DEF Call
<1> QED  BY <1>4 DEF rs

\* A call is made, or is over.
LEMMA SetCall ==
    ASSUME CallType, NEW c \in Clients, NEW s \in Call, call' = [call EXCEPT ![c] = s]
    PROVE  CallType' /\ call'[c] = s /\ \A d \in Clients \ {c} : call'[d] = call[d]
BY DEF CallType

LEMMA KeyFacts ==
    ASSUME NEW k \in Key
    PROVE  /\ \A h \in Hashes :
                 LET x == [k EXCEPT !.hash = h]
                 IN  x \in Key /\ x.hash = h /\ x.remaining = k.remaining
           /\ LET x == [k EXCEPT !.enabled = FALSE]
              IN  x \in Key /\ x.hash = k.hash /\ x.remaining = k.remaining
           /\ \A t \in Time :
                 LET x == [k EXCEPT !.lastVerifiedAt = t]
                 IN  x \in Key /\ x.hash = k.hash /\ x.remaining = k.remaining
           /\ k.remaining > 0 =>
                 LET x == [k EXCEPT !.remaining = @ - 1] IN x \in Key /\ x.hash = k.hash
           /\ k.remaining \in Int
<1>1. k.remaining \in Nat \cup {-1}  BY DEF Key
<1>2. k.remaining > 0 => k.remaining - 1 \in Nat \cup {-1}  BY <1>1
<1>3. \A n \in Nat \cup {-1} : /\ [k EXCEPT !.remaining = n] \in Key
                               /\ [k EXCEPT !.remaining = n].hash = k.hash
  BY DEF Key
<1>4. \A h \in Hashes : /\ [k EXCEPT !.hash = h] \in Key /\ [k EXCEPT !.hash = h].hash = h
                        /\ [k EXCEPT !.hash = h].remaining = k.remaining
  BY DEF Key
<1>5. /\ [k EXCEPT !.enabled = FALSE] \in Key
      /\ [k EXCEPT !.enabled = FALSE].hash = k.hash
      /\ [k EXCEPT !.enabled = FALSE].remaining = k.remaining
  BY DEF Key
<1>6. \A t \in Time : /\ [k EXCEPT !.lastVerifiedAt = t] \in Key
                      /\ [k EXCEPT !.lastVerifiedAt = t].hash = k.hash
                      /\ [k EXCEPT !.lastVerifiedAt = t].remaining = k.remaining
  BY DEF Key, TimePtr
<1> QED  BY <1>1, <1>2, <1>3, <1>4, <1>5, <1>6

-----------------------------------------------------------------------------
(* Each step preserves the invariant.                                       *)

\* What a statement may do to the keys while other calls are between theirs.
Mild ==
    /\ DOMAIN keys \subseteq DOMAIN keys'
    /\ \A i \in DOMAIN keys : keys[i].remaining <= 0 => keys'[i].remaining <= 0
    /\ \A i \in DOMAIN keys' \ DOMAIN keys : ~NeverIssued(i)

\* The calls that do not move stay sound.
LEMMA OthersOK ==
    ASSUME Inv, NEW d \in Clients, call'[d] = call[d], Mild
    PROVE  CallOK(d)'
<1>1. CallOK(d)  BY DEF Inv
<1>2. ASSUME SecondOK(d) PROVE SecondOK(d)'
  <2>1. ~NeverIssued(call[d].req.id)' <=> ~NeverIssued(call[d].req.id)
    BY DEF NeverIssued
  <2>2. call[d].req.id \in DOMAIN keys <=> call[d].req.id \in DOMAIN keys'
    BY <1>2 DEF SecondOK, Mild
  <2> QED  BY <1>2, <2>1, <2>2 DEF SecondOK, Mild
<1>3. NeverIssued(call[d].req.id)' <=> NeverIssued(call[d].req.id)  BY DEF NeverIssued
<1> QED  BY <1>1, <1>2, <1>3 DEF CallOK, Mild

\* A statement has run, or a call has failed, and its connection, if it had
\* one, is given back.
LEMMA StatementInv ==
    ASSUME Inv, NEW c \in Clients, call[c].phase # "idle",
           NEW ph \in {"again", "applied"}, NEW e \in Errs, NEW v \in Vals,
           Done(c, ph, e, v), KeysOK', Mild,
           ph = "again" => SecondOK(c)',
           \/ DOMAIN keys' = DOMAIN keys
           \/ call[c].req.op = "CreateKey" /\ DOMAIN keys' = DOMAIN keys \cup {call[c].req.id}
    PROVE  Inv'
<1> DEFINE rs == Contract!Response(e, v)
<1>1. rs \in Res /\ call[c].req \in Requests  BY ResFacts DEF Inv, CallOK
<1> HIDE DEF rs
<1>2. /\ CallType'
      /\ call'[c].phase = ph /\ call'[c].res = rs /\ call'[c].req = call[c].req
      /\ \A d \in Clients \ {c} : call'[d] = call[d]
  BY <1>1, MoveCall DEF Done, Move, Inv, Phases, rs
<1>3. ConnectionsReturned'  BY <1>2 DEF Inv, Done, ConnectionsReturned
<1>4. ASSUME NEW d \in Clients PROVE CallOK(d)'
  <2>1. CASE d # c  BY <1>2, <2>1, OthersOK
  <2>2. CASE d = c  BY <1>1, <1>2, <2>2 DEF CallOK
  <2> QED  BY <2>1, <2>2
<1>5. Fresh'
  <2>1. \A d \in Clients : Creating(d)' => Creating(d) /\ call'[d].req = call[d].req
    BY <1>2 DEF Creating
  <2>2. \A d \in Clients : call'[d].phase \in {"called", "first"}
                              => d # c /\ call[d].phase = call'[d].phase
    BY <1>2
  <2>3. Creating(c) <=> call[c].req.op = "CreateKey"  BY DEF Creating
  <2>4. ASSUME NEW d \in Clients, Creating(d)', call'[d].phase \in {"called", "first"}
        PROVE  call'[d].req.id \notin DOMAIN keys'
    <3>1. d # c /\ Creating(d) /\ call[d].req.id \notin DOMAIN keys
      BY <2>1, <2>2, <2>4 DEF Inv, Fresh
    <3>2. Creating(c) => call[c].req.id # call[d].req.id  BY <3>1 DEF Inv, Fresh
    <3> QED  BY <2>1, <2>3, <2>4, <3>1, <3>2
  <2>5. ASSUME NEW a \in Clients, NEW b \in Clients, a # b, Creating(a)', Creating(b)'
        PROVE  call'[a].req.id # call'[b].req.id
    BY <2>1, <2>5 DEF Inv, Fresh
  <2> QED  BY <2>4, <2>5 DEF Fresh
<1> QED  BY <1>2, <1>3, <1>4, <1>5 DEF Inv

\* A step that leaves the keys alone and ends the call.
LEMMA ReadInv ==
    ASSUME Inv, NEW c \in Clients, call[c].phase # "idle",
           NEW e \in Errs, NEW v \in Vals, Done(c, "applied", e, v),
           UNCHANGED keys
    PROVE  Inv'
<1>1. KeysOK' /\ Mild  BY DEF Inv, KeysOK, Mild
<1> QED  BY <1>1, StatementInv

\* A statement that changes one row.
LEMMA UpdateInv ==
    ASSUME Inv, NEW c \in Clients, call[c].phase # "idle",
           NEW id \in DOMAIN keys, NEW k \in Key, keys' = [keys EXCEPT ![id] = k],
           \A i \in DOMAIN keys \ {id} : keys[i].hash # k.hash,
           keys[id].remaining <= 0 => k.remaining <= 0,
           NEW ph \in {"again", "applied"}, NEW e \in Errs, NEW v \in Vals, Done(c, ph, e, v),
           ph = "again" => SecondOK(c)'
    PROVE  Inv'
<1>1. /\ DOMAIN keys' = DOMAIN keys /\ keys' \in [DOMAIN keys' -> Key]
      /\ keys'[id] = k /\ \A i \in DOMAIN keys \ {id} : keys'[i] = keys[i]
  BY DEF Inv, KeysOK
<1>2. KeysOK'  BY <1>1 DEF Inv, KeysOK
<1>3. Mild  BY <1>1 DEF Mild
<1> QED  BY <1>1, <1>2, <1>3, StatementInv

LEMMA LookupInv ==
    ASSUME Inv, APIsOK, NEW c \in Clients,
           \/ CreateWorkspace(c) \/ CreateAPI(c) \/ GetWorkspace(c) \/ GetAPI(c)
           \/ GetKeyByID(c) \/ GetKeyByHash(c) \/ RowsRead(c)
           \/ RotateReadBack(c) \/ DecrementReason(c)
    PROVE  Inv'
<1>1. call[c].phase # "idle" /\ UNCHANGED keys
  BY DEF CreateWorkspace, CreateAPI, GetWorkspace, GetAPI, GetKeyByID, GetKeyByHash,
         RowsRead, RotateReadBack, DecrementReason, Running, tables
<1>2. ASSUME NEW e \in Errs, NEW v \in Vals, Done(c, "applied", e, v) PROVE Inv'
  BY <1>1, <1>2, ReadInv
<1>3. {"nil", "ErrNotFound", "ErrDepleted"} \subseteq Errs  BY DEF Errs
<1>4. /\ \A id \in DOMAIN keys : keys[id] \in Vals
      /\ \A id \in DOMAIN apis : apis[id] \in Vals
      /\ Nil \in Vals /\ -1 \in Vals
  BY ValFacts DEF Inv, KeysOK, APIsOK
<1>5. CASE CreateWorkspace(c)  BY <1>2, <1>3, <1>4, <1>5 DEF CreateWorkspace
<1>6. CASE CreateAPI(c)  BY <1>2, <1>3, <1>4, <1>6 DEF CreateAPI
<1>7. CASE GetKeyByID(c)  BY <1>2, <1>3, <1>4, <1>7 DEF GetKeyByID
<1>8. CASE GetKeyByHash(c)
  BY <1>2, <1>3, <1>4, <1>8 DEF GetKeyByHash, KeysWithHash
<1>9. CASE RotateReadBack(c)  BY <1>2, <1>3, <1>4, <1>9 DEF RotateReadBack
<1>10. CASE DecrementReason(c)  BY <1>2, <1>3, <1>4, <1>10 DEF DecrementReason
<1>11. CASE GetWorkspace(c)
  <2>1. call[c].req \in Requests /\ call[c].req.op = "GetWorkspace"
    BY <1>1, <1>11 DEF GetWorkspace, Running, Inv, CallOK
  <2>2. call[c].req.id \in Vals  BY <2>1, RequestFacts, ValFacts
  <2> QED  BY <1>2, <1>3, <1>4, <1>11, <2>2 DEF GetWorkspace
<1>12. CASE GetAPI(c)  BY <1>2, <1>3, <1>4, <1>12 DEF GetAPI
<1>13. CASE RowsRead(c)
  <2>1. call[c].res.val \in Vals  BY DEF Inv, CallType, Call, Res
  <2> QED  BY <1>2, <1>3, <1>13, <2>1 DEF RowsRead
<1> QED  BY <1>5, <1>6, <1>7, <1>8, <1>9, <1>10, <1>11, <1>12, <1>13

LEMMA CreateKeyInv ==
    ASSUME Inv, NEW c \in Clients, CreateKey(c)
    PROVE  Inv'
<1> DEFINE r == call[c].req
<1>1. /\ call[c].phase = "first" /\ r.op = "CreateKey" /\ r \in Requests
  BY DEF CreateKey, Running, Inv, CallOK
<1>2. r.id \in KeyIDs /\ r.row \in Key  BY <1>1, RequestFacts
<1>3. r.id \notin DOMAIN keys  BY <1>1 DEF Inv, Fresh, Creating
<1>4. CASE ~UniqueViolation(r.id, r.row.hash) /\ r.row.api \in DOMAIN apis
  <2>1. keys' = Put(keys, r.id, r.row) /\ Done(c, "applied", "nil", Nil)
    BY <1>4 DEF CreateKey
  <2>2. /\ DOMAIN keys' = DOMAIN keys \cup {r.id} /\ keys'[r.id] = r.row
        /\ \A i \in DOMAIN keys : keys'[i] = keys[i]
    BY <1>3, <2>1 DEF Put
  <2>3. keys' \in [DOMAIN keys' -> Key] /\ DOMAIN keys' \subseteq KeyIDs
    BY <1>2, <1>3, <2>1, <2>2 DEF Put, Inv, KeysOK
  <2>4. \A i \in DOMAIN keys : keys[i].hash # r.row.hash
    BY <1>3, <1>4 DEF UniqueViolation
  <2>5. KeysOK'  BY <2>2, <2>3, <2>4 DEF Inv, KeysOK
  <2>6. Mild  BY <1>1, <2>2 DEF Mild, NeverIssued
  <2> QED  BY <1>1, <2>1, <2>2, <2>5, <2>6, StatementInv, ValFacts DEF Errs
<1>5. CASE UniqueViolation(r.id, r.row.hash) \/ r.row.api \notin DOMAIN apis
  BY <1>1, <1>5, ReadInv, ValFacts DEF CreateKey, Errs
<1> QED  BY <1>4, <1>5

LEMMA RotateKeyInv ==
    ASSUME Inv, NEW c \in Clients, RotateKey(c)
    PROVE  Inv'
<1> DEFINE r == call[c].req
<1>1. /\ call[c].phase = "first" /\ r.op = "RotateKey" /\ r \in Requests
      /\ r.id \in DOMAIN keys \/ NeverIssued(r.id)
  BY DEF RotateKey, Running, Inv, CallOK
<1>2. r.hash \in Hashes  BY <1>1, RequestFacts
<1>3. ASSUME NEW e \in {"nil", "ErrNotFound"}, NEW v \in Vals, Done(c, "again", e, v)
      PROVE  call'[c].req = r /\ call'[c].res = Contract!Response(e, v)
  BY <1>3, DoneCall DEF Inv, Phases, Errs
<1>4. CASE r.id \notin DOMAIN keys
  <2>1. Done(c, "again", "ErrNotFound", Nil) /\ keys' = keys  BY <1>4 DEF RotateKey
  <2>2. call'[c].req = r /\ call'[c].res = Contract!Response("ErrNotFound", Nil)
    BY <1>3, <2>1, ValFacts
  <2>3. NeverIssued(r.id)'  BY <1>1, <1>4, <2>2 DEF NeverIssued
  <2>4. SecondOK(c)'  BY <1>1, <1>4, <2>1, <2>2, <2>3 DEF SecondOK
  <2>5. KeysOK' /\ Mild  BY <2>1 DEF Inv, KeysOK, Mild
  <2> QED  BY <1>1, <2>1, <2>4, <2>5, StatementInv, ValFacts DEF Errs
<1>5. CASE r.id \in DOMAIN keys /\ UniqueViolation(r.id, r.hash)
  <2>1. Done(c, "applied", "ErrConflict", Nil) /\ keys' = keys  BY <1>5 DEF RotateKey
  <2> QED  BY <1>1, <2>1, ReadInv, ValFacts DEF Errs
<1>6. CASE r.id \in DOMAIN keys /\ ~UniqueViolation(r.id, r.hash)
  <2> DEFINE k == [keys[r.id] EXCEPT !.hash = r.hash]
  <2>1. keys[r.id] \in Key  BY <1>6 DEF Inv, KeysOK
  <2>2. k \in Key /\ k.hash = r.hash /\ k.remaining = keys[r.id].remaining
    BY <1>2, <2>1, KeyFacts
  <2>3. keys' = [keys EXCEPT ![r.id] = k] /\ Done(c, "again", "nil", k)
    BY <1>6 DEF RotateKey
  <2> HIDE DEF k
  <2>4. DOMAIN keys' = DOMAIN keys /\ k \in Vals  BY <2>2, <2>3, ValFacts
  <2>5. call'[c].req = r /\ call'[c].res.err = "nil"
    <3>1. call'[c].req = r /\ call'[c].res = Contract!Response("nil", k)
      BY <1>3, <2>3, <2>4
    <3> QED  BY <2>4, <3>1, ResFacts DEF Errs
  <2>6. SecondOK(c)'  BY <1>1, <1>6, <2>4, <2>5 DEF SecondOK
  <2>7. \A i \in DOMAIN keys \ {r.id} : keys[i].hash # k.hash
    BY <1>6, <2>2 DEF UniqueViolation
  <2>8. keys[r.id].remaining <= 0 => k.remaining <= 0  BY <2>2
  <2> QED  BY <1>1, <1>6, <2>2, <2>3, <2>4, <2>6, <2>7, <2>8, UpdateInv DEF Errs
<1> QED  BY <1>4, <1>5, <1>6

LEMMA KeyInv ==
    ASSUME Inv, NEW c \in Clients,
           RevokeKey(c) \/ TouchLastVerified(c) \/ DecrementRemainingUses(c)
    PROVE  Inv'
<1> DEFINE r == call[c].req  id == r.id
<1>1. call[c].phase = "first" /\ call[c].phase # "idle" /\ r \in Requests
  BY DEF RevokeKey, TouchLastVerified, DecrementRemainingUses, Running, Inv, CallOK
<1>2. id \in DOMAIN keys => keys[id] \in Key  BY DEF Inv, KeysOK
\* The row keeps its hash, and gains no credits.
<1>3. ASSUME id \in DOMAIN keys, NEW k \in Key, k.hash = keys[id].hash,
             keys[id].remaining <= 0 => k.remaining <= 0,
             keys' = [keys EXCEPT ![id] = k], NEW v \in Vals, Done(c, "applied", "nil", v)
      PROVE  Inv'
  <2>1. \A i \in DOMAIN keys \ {id} : keys[i].hash # k.hash  BY <1>3 DEF Inv, KeysOK
  <2> QED  BY <1>1, <1>3, <2>1, UpdateInv DEF Errs
<1>4. CASE RevokeKey(c)
  <2>1. CASE id \in DOMAIN keys
    <3> DEFINE k == [keys[id] EXCEPT !.enabled = FALSE]
    <3>1. k \in Key /\ k.hash = keys[id].hash /\ k.remaining = keys[id].remaining
      BY <1>2, <2>1, KeyFacts
    <3>2. keys' = [keys EXCEPT ![id] = k] /\ Done(c, "applied", "nil", Nil)
      BY <1>4, <2>1 DEF RevokeKey
    <3> HIDE DEF k
    <3> QED  BY <1>3, <2>1, <3>1, <3>2, ValFacts
  <2>2. CASE id \notin DOMAIN keys
    BY <1>1, <1>4, <2>2, ReadInv, ValFacts DEF RevokeKey, Errs
  <2> QED  BY <2>1, <2>2
<1>5. CASE TouchLastVerified(c)
  <2>1. CASE id \in DOMAIN keys
    <3> DEFINE k == [keys[id] EXCEPT !.lastVerifiedAt = r.at]
    <3>1. r.at \in Time  BY <1>1, <1>5, RequestFacts DEF TouchLastVerified, Running
    <3>2. k \in Key /\ k.hash = keys[id].hash /\ k.remaining = keys[id].remaining
      BY <1>2, <2>1, <3>1, KeyFacts
    <3>3. keys' = [keys EXCEPT ![id] = k] /\ Done(c, "applied", "nil", Nil)
      BY <1>5, <2>1 DEF TouchLastVerified
    <3> HIDE DEF k
    <3> QED  BY <1>3, <2>1, <3>2, <3>3, ValFacts
  <2>2. CASE id \notin DOMAIN keys
    BY <1>1, <1>5, <2>2, ReadInv, ValFacts DEF TouchLastVerified, Errs
  <2> QED  BY <2>1, <2>2
<1>6. CASE DecrementRemainingUses(c)
  <2>1. r.op = "DecrementRemainingUses" /\ (id \in DOMAIN keys \/ NeverIssued(id))
    BY <1>6 DEF DecrementRemainingUses, Running, Inv, CallOK
  <2>2. CASE id \in DOMAIN keys /\ keys[id].remaining > 0
    <3> DEFINE k == [keys[id] EXCEPT !.remaining = @ - 1]
    <3>1. k \in Key /\ k.hash = keys[id].hash /\ ~(keys[id].remaining <= 0)
      <4>1. k \in Key /\ k.hash = keys[id].hash  BY <1>2, <2>2, KeyFacts
      <4>2. keys[id].remaining \in Int  BY <1>2, <2>2, KeyFacts
      <4> QED  BY <2>2, <4>1, <4>2
    <3>2. keys' = [keys EXCEPT ![id] = k] /\ Done(c, "applied", "nil", keys[id].remaining - 1)
      BY <1>6, <2>2 DEF DecrementRemainingUses
    <3>3. keys[id].remaining - 1 \in Vals
      <4>1. keys[id].remaining \in Int  BY <1>2, <2>2, KeyFacts
      <4>2. keys[id].remaining - 1 \in Int  BY <4>1
      <4> QED  BY <4>2, ValFacts
    <3> HIDE DEF k
    <3> QED  BY <1>3, <2>2, <3>1, <3>2, <3>3
  <2>3. CASE ~(id \in DOMAIN keys /\ keys[id].remaining > 0)
    <3>1. Done(c, "again", "nil", Nil) /\ keys' = keys
      BY <1>6, <2>3 DEF DecrementRemainingUses
    <3>2. call'[c].req = r /\ call'[c].res = Contract!Response("nil", Nil)
      BY <3>1, DoneCall, ValFacts DEF Inv, Phases, Errs
    <3>3. id \in DOMAIN keys => keys[id].remaining <= 0
      <4>1. id \in DOMAIN keys => keys[id].remaining \in Int  BY <1>2, KeyFacts
      <4> QED  BY <2>3, <4>1
    <3>4. NeverIssued(id)' <=> NeverIssued(id)  BY <3>2 DEF NeverIssued
    <3>5. SecondOK(c)'
      BY <2>1, <3>1, <3>2, <3>3, <3>4 DEF SecondOK, Contract!NoResponse
    <3>6. KeysOK' /\ Mild  BY <3>1 DEF Inv, KeysOK, Mild
    <3> QED  BY <1>1, <3>1, <3>5, <3>6, StatementInv, ValFacts DEF Errs
  <2> QED  BY <2>2, <2>3
<1> QED  BY <1>4, <1>5, <1>6

\* A step that leaves the keys alone, and of the calls moves c's only.
LEMMA CallInv ==
    ASSUME Inv, NEW c \in Clients, NEW s \in Call, call' = [call EXCEPT ![c] = s],
           UNCHANGED keys, ConnectionsReturned', CallOK(c)',
           s.phase = "idle" \/ (call[c].phase # "idle" /\ s.req = call[c].req),
           s.phase \in {"called", "first"} => call[c].phase \in {"called", "first"}
    PROVE  Inv'
<1>1. CallType' /\ call'[c] = s /\ \A d \in Clients \ {c} : call'[d] = call[d]
  BY SetCall DEF Inv
<1>2. Mild /\ KeysOK'  BY DEF Mild, Inv, KeysOK
<1>3. ASSUME NEW d \in Clients PROVE CallOK(d)'
  <2>1. CASE d # c  BY <1>1, <1>2, <2>1, OthersOK
  <2> QED  BY <2>1
<1>4. \A d \in Clients : Creating(d)' => Creating(d) /\ call'[d].req = call[d].req
  BY <1>1 DEF Creating
<1>5. Fresh'
  <2>1. ASSUME NEW d \in Clients, Creating(d)', call'[d].phase \in {"called", "first"}
        PROVE  call'[d].req.id \notin DOMAIN keys'
    BY <1>1, <1>4, <2>1 DEF Inv, Fresh
  <2>2. ASSUME NEW a \in Clients, NEW b \in Clients, a # b, Creating(a)', Creating(b)'
        PROVE  call'[a].req.id # call'[b].req.id
    BY <1>4, <2>2 DEF Inv, Fresh
  <2> QED  BY <2>1, <2>2 DEF Fresh
<1> QED  BY <1>1, <1>2, <1>3, <1>5 DEF Inv

\* A call that gets its connection.
LEMMA AcquireInv ==
    ASSUME Inv, NEW c \in Clients, Acquire(c)
    PROVE  Inv'
<1>1. call[c] \in Call /\ CallOK(c)  BY DEF Inv, CallType
<1>2. ASSUME NEW from \in {"called", "again"}, NEW to \in {"first", "second"},
             from = "called" <=> to = "first",
             call[c].phase = from, call' = [call EXCEPT ![c].phase = to]
      PROVE  Inv'
  <2> DEFINE s == [call[c] EXCEPT !.phase = to]
  <2>1. s \in Call /\ s.phase = to /\ s.req = call[c].req /\ s.res = call[c].res
    BY <1>1 DEF Call, Phases, Connected
  <2>2. call' = [call EXCEPT ![c] = s]  BY <1>2 DEF Inv, CallType
  <2> HIDE DEF s
  <2>3. call'[c] = s /\ \A d \in Clients \ {c} : call'[d] = call[d]
    BY <2>1, <2>2, SetCall DEF Inv
  <2>4. ConnectionsReturned'
    BY <1>2, <2>1, <2>3 DEF Inv, Acquire, ConnectionsReturned
  <2>5. keys' = keys  BY DEF Acquire, tables
  <2>6. CallOK(c)'
    <3>1. NeverIssued(call[c].req.id)' <=> NeverIssued(call[c].req.id)
      BY <2>1, <2>3 DEF NeverIssued
    <3>2. SecondOK(c) => SecondOK(c)'  BY <2>1, <2>3, <2>5, <3>1 DEF SecondOK
    <3> QED  BY <1>1, <1>2, <2>1, <2>3, <2>5, <3>1, <3>2 DEF CallOK
  <2> QED  BY <1>2, <2>1, <2>2, <2>4, <2>5, <2>6, CallInv
<1> QED  BY <1>2 DEF Acquire

\* The rows of a ListKeys are open.
LEMMA ListKeysInv ==
    ASSUME Inv, NEW c \in Clients, ListKeys(c)
    PROVE  Inv'
<1> DEFINE rs == Contract!Response("nil", KeysOf(keys, call[c].req.api))
           s == [call[c] EXCEPT !.phase = "rows", !.res = rs]
<1>1. KeysOf(keys, call[c].req.api) \in Vals  BY ListFacts DEF Inv, KeysOK
<1>2. rs \in Res /\ rs.err = "nil"  BY <1>1, ResFacts DEF Errs
<1>3. call[c] \in Call /\ CallOK(c)  BY DEF Inv, CallType
<1>4. call' = [call EXCEPT ![c] = s]  BY DEF ListKeys, Move, Inv, CallType
<1>5. call[c].phase = "first" /\ UNCHANGED <<keys, busy>>
  BY DEF ListKeys, Running, tables
<1> HIDE DEF rs
<1>6. s \in Call /\ s.phase = "rows" /\ s.req = call[c].req /\ s.res = rs
  BY <1>2, <1>3 DEF Call, Phases, Connected
<1> HIDE DEF s
<1>7. call'[c] = s /\ \A d \in Clients \ {c} : call'[d] = call[d]
  BY <1>4, <1>6, SetCall DEF Inv
<1>8. ConnectionsReturned'  BY <1>5, <1>6, <1>7 DEF Inv, ConnectionsReturned
<1>9. CallOK(c)'  BY <1>2, <1>3, <1>5, <1>6, <1>7 DEF CallOK
<1> QED  BY <1>4, <1>5, <1>6, <1>8, <1>9, CallInv

LEMMA ReturnInv ==
    ASSUME Inv, NEW c \in Clients, Return(c)
    PROVE  Inv'
<1> DEFINE s == Contract!NotCalled
<1>1. s \in Call /\ s.phase = "idle" /\ s.res = Contract!NoResponse
  BY ResFacts, ValFacts DEF Contract!NotCalled, Call, Phases, Errs, Contract!NoResponse
<1>2. call' = [call EXCEPT ![c] = s] /\ call[c].phase = "applied"
      /\ UNCHANGED <<keys, busy>>
  BY DEF Return, tables
<1> HIDE DEF s
<1>3. call'[c] = s /\ \A d \in Clients \ {c} : call'[d] = call[d]
  BY <1>1, <1>2, SetCall DEF Inv
<1>4. ConnectionsReturned'  BY <1>1, <1>2, <1>3 DEF Inv, ConnectionsReturned
<1>5. CallOK(c)'  BY <1>1, <1>3 DEF CallOK
<1> QED  BY <1>1, <1>2, <1>4, <1>5, CallInv

LEMMA FailInv ==
    ASSUME Inv, NEW c \in Clients, Fault(c)
    PROVE  Inv'
<1>1. call[c].phase # "idle" /\ UNCHANGED keys /\ Done(c, "applied", "err", Nil)
  BY DEF Fault, FailBefore, FailAfter, DecodeFails, tables
<1> QED  BY <1>1, ReadInv, ValFacts DEF Errs

\* A call as the contract sees it.
Seen(s) ==
    [s EXCEPT !.phase = IF s.phase \in {"idle", "applied"} THEN s.phase
                        ELSE IF \/ s.phase = "rows"
                                \/ s.phase \in {"again", "second"} /\ s.req.op = "RotateKey"
                        THEN "applied" ELSE "called"]

Calls == [c \in Clients |-> [call[c] EXCEPT !.phase = Phase(c)]]

LEMMA SeenFacts ==
    ASSUME NEW s \in Call
    PROVE  /\ Seen(s).req = s.req /\ Seen(s).res = s.res
           /\ Seen(s).phase = "idle" <=> s.phase = "idle"
           /\ s.phase \in {"called", "first"} => Seen(s).phase = "called"
           /\ s.phase \in {"rows", "applied"} => Seen(s).phase = "applied"
           /\ s.phase \in {"again", "second"} =>
                 Seen(s).phase = IF s.req.op = "RotateKey" THEN "applied" ELSE "called"
BY DEF Seen, Call, Phases

LEMMA CallsSeen ==
    ASSUME NEW c \in Clients
    PROVE  Calls[c] = Seen(call[c]) /\ Calls'[c] = Seen(call'[c])
BY DEF Calls, Seen, Phase

LEMMA CallableFacts ==
    ASSUME CallType, NEW r \in Requests, Contract!Callable(r)
    PROVE  /\ r.op = "CreateKey" =>
                 /\ r.id \notin DOMAIN keys
                 /\ \A d \in Clients : Creating(d) => call[d].req.id # r.id
           /\ r.op \in {"RotateKey", "DecrementRemainingUses"} =>
                 r.id \in DOMAIN keys \/ NeverIssued(r.id)
<1>1. \A d \in Clients : call[d] \in Call  BY DEF CallType
<1>2. ASSUME NEW d \in Clients, Calls[d].phase # "idle", Calls[d].req.op = r.op,
             r.op = "CreateKey"
      PROVE  Calls[d].req.id # r.id
  BY <1>2 DEF Contract!Callable, Calls
<1>3. \A d \in Clients : Calls[d] = Seen(call[d])  BY CallsSeen
<1>4. r.op = "CreateKey" => \A d \in Clients : Creating(d) => call[d].req.id # r.id
  BY <1>1, <1>2, <1>3, SeenFacts DEF Creating
<1> QED  BY <1>4 DEF Contract!Callable, NeverIssued

LEMMA InvokeInv ==
    ASSUME Inv, NEW c \in Clients, Invoke(c)
    PROVE  Inv'
<1>1. PICK r \in Requests : /\ Contract!Callable(r)
                            /\ call' = [call EXCEPT ![c].phase = "called", ![c].req = r]
  BY DEF Invoke
<1> DEFINE s == [call[c] EXCEPT !.phase = "called", !.req = r]
<1>2. s \in Call /\ s.phase = "called" /\ s.req = r /\ s.res = call[c].res
  BY DEF Inv, CallType, Call, Phases
<1>3. call' = [call EXCEPT ![c] = s]  BY <1>1 DEF Inv, CallType
<1> HIDE DEF s
<1>4. CallType' /\ call'[c] = s /\ \A d \in Clients \ {c} : call'[d] = call[d]
  BY <1>2, <1>3, SetCall DEF Inv
<1>5. call[c].phase = "idle" /\ UNCHANGED <<keys, busy>>  BY DEF Invoke, tables
<1>6. Mild /\ KeysOK'  BY <1>5 DEF Mild, Inv, KeysOK
<1>8. ConnectionsReturned'  BY <1>2, <1>4, <1>5 DEF Inv, ConnectionsReturned
<1>9. ASSUME NEW d \in Clients PROVE CallOK(d)'
  <2>1. CASE d # c  BY <1>4, <1>6, <2>1, OthersOK
  <2>2. CASE d = c
    <3>1. NeverIssued(r.id)' <=> NeverIssued(r.id)  BY DEF NeverIssued
    <3>2. r.op \in {"RotateKey", "DecrementRemainingUses"} =>
             r.id \in DOMAIN keys \/ NeverIssued(r.id)
      BY <1>1, CallableFacts DEF Inv
    <3>3. call[c].res = Contract!NoResponse  BY <1>5 DEF Inv, CallOK
    <3> QED  BY <1>2, <1>4, <1>5, <2>2, <3>1, <3>2, <3>3 DEF CallOK
  <2> QED  BY <2>1, <2>2
<1>10. Fresh'
  <2>1. \A d \in Clients \ {c} : Creating(d)' <=> Creating(d)  BY <1>4 DEF Creating
  <2>2. Creating(c)' => r.op = "CreateKey" /\ call'[c].req = r
    BY <1>2, <1>4 DEF Creating
  <2>3. Creating(c)' => /\ r.id \notin DOMAIN keys
                        /\ \A d \in Clients : Creating(d) => call[d].req.id # r.id
    BY <1>1, <2>2, CallableFacts DEF Inv
  <2>4. ASSUME NEW d \in Clients, Creating(d)', call'[d].phase \in {"called", "first"}
        PROVE  call'[d].req.id \notin DOMAIN keys'
    BY <1>4, <1>5, <2>1, <2>2, <2>3, <2>4 DEF Inv, Fresh
  <2>5. ASSUME NEW a \in Clients, NEW b \in Clients, a # b, Creating(a)', Creating(b)'
        PROVE  call'[a].req.id # call'[b].req.id
    BY <1>4, <2>1, <2>2, <2>3, <2>5 DEF Inv, Fresh
  <2> QED  BY <2>4, <2>5 DEF Fresh
<1> QED  BY <1>4, <1>6, <1>8, <1>9, <1>10 DEF Inv

LEMMA InvInit == Init => Inv
<1> SUFFICES ASSUME Init PROVE Inv  OBVIOUS
<1>1. /\ Contract!NotCalled \in Call /\ Contract!NotCalled.phase = "idle"
      /\ Contract!NotCalled.res = Contract!NoResponse
  BY ResFacts, ValFacts DEF Contract!NotCalled, Call, Phases, Errs, Contract!NoResponse
<1>2. CallType /\ \A c \in Clients : call[c] = Contract!NotCalled
  BY <1>1 DEF Init, CallType
<1>3. KeysOK  BY DEF Init, KeysOK, EmptyTable
<1>4. ConnectionsReturned  BY <1>1, <1>2 DEF Init, ConnectionsReturned
<1>5. \A c \in Clients : CallOK(c)  BY <1>1, <1>2 DEF CallOK
<1>6. Fresh  BY <1>1, <1>2 DEF Fresh, Creating
<1> QED  BY <1>2, <1>3, <1>4, <1>5, <1>6 DEF Inv

LEMMA InvStep == Inv /\ APIsOK /\ [Next]_vars => Inv'
<1> SUFFICES ASSUME Inv, APIsOK, [Next]_vars PROVE Inv'  OBVIOUS
<1>1. ASSUME NEW c \in Clients, Statement(c) PROVE Inv'
  BY <1>1, LookupInv, CreateKeyInv, RotateKeyInv, KeyInv, ListKeysInv DEF Statement
<1>2. CASE UNCHANGED vars
  <2>1. CallType' /\ KeysOK' /\ Mild /\ \A c \in Clients : call'[c] = call[c]
    BY <1>2 DEF vars, Inv, CallType, KeysOK, Mild
  <2>2. ConnectionsReturned'  BY <1>2 DEF vars, Inv, ConnectionsReturned
  <2>3. \A c \in Clients : CallOK(c)'  BY <2>1, OthersOK
  <2>4. Fresh'  BY <1>2 DEF vars, Inv, Fresh, Creating
  <2> QED  BY <2>1, <2>2, <2>3, <2>4 DEF Inv
<1> QED  BY <1>1, <1>2, InvokeInv, AcquireInv, ReturnInv, FailInv DEF Next, Step

\* Only CreateAPI writes APIs, and what it was given.
LEMMA APIsStep == Inv /\ APIsOK /\ [Next]_vars => APIsOK'
<1> SUFFICES ASSUME Inv, APIsOK, [Next]_vars PROVE APIsOK'  OBVIOUS
<1>1. ASSUME NEW c \in Clients, CreateAPI(c) PROVE APIsOK'
  <2> DEFINE r == call[c].req
  <2>1. r \in Requests /\ r.op = "CreateAPI"
    BY <1>1 DEF CreateAPI, Running, Inv, CallOK
  <2>2. r.row \in API  BY <2>1, RequestFacts
  <2>3. apis' = apis \/ apis' = Put(apis, r.id, r.row)  BY <1>1 DEF CreateAPI
  <2> QED  BY <2>2, <2>3 DEF APIsOK, Put
<1>2. ASSUME UNCHANGED apis PROVE APIsOK'  BY <1>2 DEF APIsOK
<1>3. ASSUME NEW c \in Clients, Statement(c), ~CreateAPI(c) PROVE UNCHANGED apis
  BY <1>3
  DEF Statement, CreateWorkspace, CreateKey, RevokeKey, RotateKey, RotateReadBack,
      TouchLastVerified, DecrementRemainingUses, DecrementReason, GetWorkspace, GetAPI,
      GetKeyByID, GetKeyByHash, ListKeys, RowsRead, tables
<1>4. ASSUME NEW c \in Clients, Invoke(c) \/ Acquire(c) \/ Return(c) \/ Fault(c)
      PROVE  UNCHANGED apis
  BY <1>4 DEF Invoke, Acquire, Return, Fault, FailBefore, FailAfter, DecodeFails, tables
<1>5. CASE UNCHANGED vars  BY <1>2, <1>5 DEF vars
<1> QED  BY <1>1, <1>2, <1>3, <1>4, <1>5 DEF Next, Step

LEMMA Safe == Spec => [](Inv /\ APIsOK)
<1>1. Init => APIsOK  BY DEF Init, APIsOK, EmptyTable
<1> QED  BY <1>1, InvInit, InvStep, APIsStep, PTL DEF Spec

-----------------------------------------------------------------------------
(* What it means.                                                           *)

\* A connection is held exactly by the calls that run a statement or read
\* their rows: on no way out of a method, ListKeys' return in the middle of
\* its rows and every failing one included, is a connection kept, and no
\* method keeps one while it waits for the next.
THEOREM ConnectionsKept == Spec => []ConnectionsReturned
<1>1. Inv => ConnectionsReturned  BY DEF Inv
<1> QED  BY <1>1, Safe, PTL

-----------------------------------------------------------------------------
(* The refinement of the contract, step by step.                            *)

LEMMA CallsFacts ==
    ASSUME CallType, NEW c \in Clients
    PROVE  /\ call[c].phase \in {"called", "first"} => Calls[c].phase = "called"
           /\ call[c].phase \in {"idle", "applied"} => Calls[c].phase = call[c].phase
           /\ call[c].phase = "rows" => Calls[c].phase = "applied"
           /\ call[c].phase \in {"again", "second"} =>
                 Calls[c].phase = IF call[c].req.op = "RotateKey" THEN "applied" ELSE "called"
           /\ Calls[c].req = call[c].req /\ Calls[c].res = call[c].res
<1>1. call[c] \in Call  BY DEF CallType
<1>2. Calls[c] = Seen(call[c])  BY CallsSeen
<1> QED  BY <1>1, <1>2, SeenFacts

LEMMA SetCalls ==
    ASSUME NEW c \in Clients, \A d \in Clients \ {c} : Calls'[d] = Calls[d]
    PROVE  Calls' = [Calls EXCEPT ![c] = Calls'[c]]
<1>1. Calls = [d \in Clients |-> Calls[d]]  BY DEF Calls
<1>2. Calls' = [d \in Clients |-> Calls'[d]]  BY DEF Calls
<1> QED  BY <1>1, <1>2

\* A step that the contract sees as the end of the call's effect ...
LEMMA Answers ==
    ASSUME CallType, NEW c \in Clients, NEW ph \in {"again", "rows", "applied"}, NEW rs \in Res,
           ph = "again" => call[c].req.op = "RotateKey",
           call' = [call EXCEPT ![c].phase = ph, ![c].res = rs]
    PROVE  Calls' = [Calls EXCEPT ![c].phase = "applied", ![c].res = rs]
<1>1. \A d \in Clients : call[d] \in Call  BY DEF CallType
<1>2. ASSUME NEW s \in Call, ph = "again" => s.req.op = "RotateKey"
      PROVE  Seen([s EXCEPT !.phase = ph, !.res = rs])
                = [Seen(s) EXCEPT !.phase = "applied", !.res = rs]
  BY <1>2 DEF Seen, Call
<1>3. call'[c] = [call[c] EXCEPT !.phase = ph, !.res = rs]  BY DEF CallType
<1>4. \A d \in Clients \ {c} : call'[d] = call[d]  BY DEF CallType
<1>5. \A d \in Clients : Calls[d] = Seen(call[d]) /\ Calls'[d] = Seen(call'[d])
  BY CallsSeen
<1>6. Calls'[c] = [Calls[c] EXCEPT !.phase = "applied", !.res = rs]
  BY <1>1, <1>2, <1>3, <1>5
<1>7. \A d \in Clients \ {c} : Calls'[d] = Calls[d]  BY <1>4, <1>5
<1> QED  BY <1>6, <1>7, SetCalls

\* ... and one that it does not see.
LEMMA Unseen ==
    ASSUME CallType, NEW c \in Clients, NEW s \in Call, call' = [call EXCEPT ![c] = s],
           Seen(s) = Seen(call[c])
    PROVE  Calls' = Calls
<1>1. \A d \in Clients : call'[d] = IF d = c THEN s ELSE call[d]  BY DEF CallType
<1>2. \A d \in Clients : Calls[d] = Seen(call[d]) /\ Calls'[d] = Seen(call'[d])
  BY CallsSeen
<1> QED  BY <1>1, <1>2 DEF Calls

LEMMA Answered ==
    ASSUME CallType, NEW c \in Clients, NEW ph \in {"again", "rows", "applied"},
           ph = "again" => call[c].req.op = "RotateKey",
           NEW e \in Errs, NEW v \in Vals, Done(c, ph, e, v) \/ Move(c, ph, e, v)
    PROVE  Contract!Answered(c, e, v)
<1>1. Contract!Response(e, v) \in Res  BY ResFacts
<1>2. call' = [call EXCEPT ![c].phase = ph, ![c].res = Contract!Response(e, v)]
  BY DEF Done, Move
<1>3. Calls' = [Calls EXCEPT ![c].phase = "applied", ![c].res = Contract!Response(e, v)]
  BY <1>1, <1>2, Answers
<1> QED  BY <1>3 DEF Contract!Answered, Calls

\* A statement that writes keys does and reports what the contract says.
LEMMA Writes ==
    ASSUME CallType, NEW c \in Clients, Calls[c].phase = "called",
           NEW ph \in {"again", "applied"}, ph = "again" => call[c].req.op = "RotateKey",
           NEW e \in Errs, NEW v \in Vals, Done(c, ph, e, v),
           call[c].req.op \in Contract!KeyWrites,
           Contract!KeyWrite(apis, keys, call[c].req).table = keys',
           Contract!KeyWrite(apis, keys, call[c].req).err = e,
           Contract!Returned(call[c].req, Contract!KeyWrite(apis, keys, call[c].req)) = v,
           UNCHANGED <<workspaces, apis>>
    PROVE  Contract!Next
<1> DEFINE W == Contract!KeyWrite(apis, keys, Calls[c].req)
<1>1. Calls[c].req = call[c].req  BY CallsFacts
<1>2. Contract!Answered(c, e, v)  BY Answered
<1>3. /\ keys' = W.table /\ Calls[c].req.op \in Contract!KeyWrites
      /\ Contract!Answered(c, W.err, Contract!Returned(Calls[c].req, W))
  <2>1. W = Contract!KeyWrite(apis, keys, call[c].req)  BY <1>1
  <2> HIDE DEF W
  <2>2. W.table = keys' /\ W.err = e /\ Contract!Returned(Calls[c].req, W) = v
    BY <1>1, <2>1
  <2> QED  BY <1>1, <1>2, <2>2 DEF Contract!Answered
<1>4. Contract!Apply(c)  BY <1>3, Zenon DEF Contract!Apply, Calls
<1> QED  BY <1>4 DEF Contract!Next

\* Most writes, and every refused one, return nothing but their error.
LEMMA ReturnsNothing ==
    ASSUME NEW r, NEW res,
           res.err # "nil" \/ r.op \notin {"RotateKey", "DecrementRemainingUses"}
    PROVE  Contract!Returned(r, res) = Nil
BY DEF Contract!Returned

\* What a read reports is what the contract says.
LEMMA Reads ==
    ASSUME CallType, NEW c \in Clients, call[c].phase = "first",
           call[c].req.op \in Contract!Reads, UNCHANGED <<workspaces, apis, keys>>,
           \/ /\ Contract!Found(workspaces, apis, keys, call[c].req) = {}
              /\ Done(c, "applied", "ErrNotFound", Nil)
           \/ \E v \in Vals : /\ v \in Contract!Found(workspaces, apis, keys, call[c].req)
                             /\ \/ Done(c, "applied", "nil", v)
                                \/ Move(c, "rows", "nil", v)
    PROVE  Contract!Next
<1> DEFINE F == Contract!Found(workspaces, apis, keys, Calls[c].req)
<1>1. Calls[c].phase = "called" /\ Calls[c].req = call[c].req  BY CallsFacts
<1>2. \/ F = {} /\ Contract!Answered(c, "ErrNotFound", Nil)
      \/ \E v \in F : Contract!Answered(c, "nil", v)
  BY <1>1, Answered, ValFacts DEF Errs
<1>3. Calls[c].req.op \in Contract!Reads  BY <1>1
<1>4. Contract!Apply(c)  BY <1>1, <1>2, <1>3, Zenon DEF Contract!Apply, Calls
<1> QED  BY <1>4 DEF Contract!Next

LEMMA InvokeRefines ==
    ASSUME Inv, NEW c \in Clients, Invoke(c)
    PROVE  Contract!Next
<1>1. CallType /\ \A d \in Clients : call[d] \in Call  BY DEF Inv, CallType
<1>2. PICK r \in Requests : /\ Contract!Callable(r)
                            /\ call' = [call EXCEPT ![c].phase = "called", ![c].req = r]
  BY DEF Invoke
<1>3. Calls[c].phase = "idle"  BY <1>1, CallsFacts DEF Invoke
<1>4. ASSUME NEW s \in Call
      PROVE  Seen([s EXCEPT !.phase = "called", !.req = r])
                = [Seen(s) EXCEPT !.phase = "called", !.req = r]
  BY DEF Seen, Call
<1>5. call'[c] = [call[c] EXCEPT !.phase = "called", !.req = r]
  BY <1>1, <1>2 DEF CallType
<1>6. \A d \in Clients \ {c} : call'[d] = call[d]  BY <1>1, <1>2 DEF CallType
<1>7. \A d \in Clients : Calls[d] = Seen(call[d]) /\ Calls'[d] = Seen(call'[d])
  BY CallsSeen
<1>8. Calls'[c] = [Calls[c] EXCEPT !.phase = "called", !.req = r]
  BY <1>1, <1>4, <1>5, <1>7
<1>9. \A d \in Clients \ {c} : Calls'[d] = Calls[d]  BY <1>6, <1>7
<1>10. Calls' = [Calls EXCEPT ![c].phase = "called", ![c].req = r]  BY <1>8, <1>9, SetCalls
<1>11. UNCHANGED <<workspaces, apis, keys>>  BY DEF Invoke, tables
<1>12. Contract!Invoke(c)  BY <1>2, <1>3, <1>10, <1>11 DEF Contract!Invoke, Calls
<1> QED  BY <1>12 DEF Contract!Next

LEMMA ReturnRefines ==
    ASSUME Inv, NEW c \in Clients, Return(c)
    PROVE  Contract!Next
<1>1. CallType  BY DEF Inv
<1>2. Calls[c].phase = "applied"  BY <1>1, CallsFacts DEF Return
<1>3. Seen(Contract!NotCalled) = Contract!NotCalled  BY DEF Seen, Contract!NotCalled
<1>4. call'[c] = Contract!NotCalled /\ \A d \in Clients \ {c} : call'[d] = call[d]
  BY <1>1 DEF Return, CallType
<1>5. \A d \in Clients : Calls[d] = Seen(call[d]) /\ Calls'[d] = Seen(call'[d])
  BY CallsSeen
<1>6. Calls' = [Calls EXCEPT ![c] = Contract!NotCalled]  BY <1>3, <1>4, <1>5, SetCalls
<1>7. Contract!Return(c)  BY <1>2, <1>6 DEF Contract!Return, Calls, Return, tables
<1> QED  BY <1>7 DEF Contract!Next

\* Waiting for a connection is not seen.
LEMMA AcquireRefines ==
    ASSUME Inv, NEW c \in Clients, Acquire(c)
    PROVE  UNCHANGED Contract!contractVars
<1>1. CallType /\ call[c] \in Call  BY DEF Inv, CallType
<1>2. ASSUME NEW from \in {"called", "again"}, NEW to \in {"first", "second"},
             from = "called" <=> to = "first",
             call[c].phase = from, call' = [call EXCEPT ![c].phase = to]
      PROVE  UNCHANGED Contract!contractVars
  <2> DEFINE s == [call[c] EXCEPT !.phase = to]
  <2>1. s \in Call /\ Seen(s) = Seen(call[c])
    BY <1>1, <1>2 DEF Call, Phases, Connected, Seen
  <2>2. call' = [call EXCEPT ![c] = s]  BY <1>1, <1>2 DEF CallType
  <2> HIDE DEF s
  <2>3. Calls' = Calls  BY <1>1, <2>1, <2>2, Unseen
  <2> QED  BY <2>3 DEF Acquire, tables, Contract!contractVars, Calls
<1> QED  BY <1>2 DEF Acquire

\* A connection that breaks, or a row that does not decode: the contract's
\* driver error, before the call took effect or after.
LEMMA FailRefines ==
    ASSUME Inv, NEW c \in Clients, Fault(c)
    PROVE  Contract!Next
<1>1. CallType /\ Faults /\ UNCHANGED <<workspaces, apis, keys>>
      /\ Done(c, "applied", "err", Nil)
  BY DEF Inv, Fault, FailBefore, FailAfter, DecodeFails, tables
<1>2. Contract!Answered(c, "err", Nil)  BY <1>1, Answered, ValFacts DEF Errs
<1>3. Calls[c].phase \in {"called", "applied"}
  BY <1>1, CallsFacts DEF Fault, FailBefore, FailAfter, DecodeFails
<1>4. Contract!Fail(c)  BY <1>1, <1>2, <1>3 DEF Contract!Fail, Calls
<1> QED  BY <1>4 DEF Contract!Next

LEMMA TablesRefine ==
    ASSUME Inv, NEW c \in Clients, CreateWorkspace(c) \/ CreateAPI(c)
    PROVE  Contract!Next
<1> DEFINE r == call[c].req  W == Contract!CreateAPIResult(workspaces, apis, r.id, r.row)
<1>1. CallType /\ call[c].phase = "first"
  BY DEF CreateWorkspace, CreateAPI, Running, Inv
<1>2. Calls[c].phase = "called" /\ Calls[c].req = r  BY <1>1, CallsFacts
<1>3. "nil" \in Errs /\ "ErrNotFound" \in Errs  BY DEF Errs
<1>4. CASE CreateWorkspace(c)
  <2>1. Contract!Answered(c, "nil", Nil)
    BY <1>1, <1>3, <1>4, Answered, ValFacts DEF CreateWorkspace
  <2>2. Contract!Apply(c)
    BY <1>2, <1>4, <2>1 DEF Contract!Apply, Calls, CreateWorkspace, Running
  <2> QED  BY <2>2 DEF Contract!Next
<1>5. CASE CreateAPI(c)
  <2>1. ASSUME NEW e \in Errs, Done(c, "applied", e, Nil), W.table = apis', W.err = e
        PROVE  Contract!Next
    <3>1. Contract!Answered(c, e, Nil)  BY <1>1, <2>1, Answered, ValFacts
    <3>2. Contract!Apply(c)
      BY <1>2, <1>5, <2>1, <3>1 DEF Contract!Apply, Calls, CreateAPI, Running
    <3> QED  BY <3>2 DEF Contract!Next
  <2>2. CASE r.row.workspace \notin workspaces
    <3>1. apis' = apis /\ Done(c, "applied", "ErrNotFound", Nil)
      BY <1>5, <2>2 DEF CreateAPI
    <3>2. W.table = apis /\ W.err = "ErrNotFound"
      BY <2>2 DEF Contract!CreateAPIResult, Contract!Result
    <3> QED  BY <1>3, <2>1, <3>1, <3>2
  <2>3. CASE r.row.workspace \in workspaces
    <3>1. apis' = Put(apis, r.id, r.row) /\ Done(c, "applied", "nil", Nil)
      BY <1>5, <2>3 DEF CreateAPI
    <3>2. Contract!Put(apis, r.id, r.row) = Put(apis, r.id, r.row)  BY DEF Contract!Put, Put
    <3>3. W.table = Put(apis, r.id, r.row) /\ W.err = "nil"
      BY <2>3, <3>2 DEF Contract!CreateAPIResult, Contract!Result
    <3> QED  BY <1>3, <2>1, <3>1, <3>3
  <2> QED  BY <2>2, <2>3
<1> QED  BY <1>4, <1>5

\* An INSERT is refused by the unique index exactly when the contract sees
\* the hash taken: the ID is fresh, so the index has no entry of the row's own.
LEMMA CreateKeyRefines ==
    ASSUME Inv, NEW c \in Clients, CreateKey(c)
    PROVE  Contract!Next
<1> DEFINE r == call[c].req  W == Contract!KeyWrite(apis, keys, r)
<1>1. /\ CallType /\ call[c].phase = "first" /\ r.op = "CreateKey"
      /\ UNCHANGED <<workspaces, apis>>
  BY DEF CreateKey, Running, Inv
<1>2. Calls[c].phase = "called" /\ Calls[c].req = r  BY <1>1, CallsFacts
<1>3. ASSUME NEW e \in Errs, Done(c, "applied", e, Nil), W.table = keys', W.err = e
      PROVE  Contract!Next
  <2>1. Contract!Returned(r, W) = Nil
    <3> HIDE DEF W
    <3> QED  BY <1>1, ReturnsNothing
  <2> QED  BY <1>1, <1>2, <1>3, <2>1, Writes, ValFacts DEF Contract!KeyWrites
<1>4. {"nil", "ErrNotFound", "ErrConflict"} \subseteq Errs  BY DEF Errs
<1>5. r.id \notin DOMAIN keys  BY <1>1 DEF Inv, Fresh, Creating
<1>6. UniqueViolation(r.id, r.row.hash) <=> Contract!KeysWithHash(keys, r.row.hash) # {}
  BY <1>5 DEF UniqueViolation, Contract!KeysWithHash
<1>7. W = Contract!CreateKeyResult(apis, keys, r.id, r.row)  BY <1>1 DEF Contract!KeyWrite
<1>8. Contract!Put(keys, r.id, r.row) = Put(keys, r.id, r.row)  BY DEF Contract!Put, Put
<1> HIDE DEF W
<1>9. CASE UniqueViolation(r.id, r.row.hash)
  <2>1. keys' = keys /\ Done(c, "applied", "ErrConflict", Nil)  BY <1>9 DEF CreateKey
  <2>2. CASE r.row.api \in DOMAIN apis
    <3>1. W.table = keys /\ W.err = "ErrConflict"
      BY <1>6, <1>7, <1>9, <2>2 DEF Contract!CreateKeyResult, Contract!Result
    <3> QED  BY <1>3, <1>4, <2>1, <3>1
  <2>3. CASE r.row.api \notin DOMAIN apis
    \* Both constraints are violated; this driver reports the hash.
    <3>1. Contract!Answered(c, "ErrConflict", Nil)  BY <1>1, <1>4, <2>1, Answered, ValFacts
    <3>2. Contract!Apply(c)
      BY <1>1, <1>2, <1>6, <1>9, <2>1, <2>3, <3>1 DEF Contract!Apply, Calls
    <3> QED  BY <3>2 DEF Contract!Next
  <2> QED  BY <2>2, <2>3
<1>10. CASE ~UniqueViolation(r.id, r.row.hash) /\ r.row.api \notin DOMAIN apis
  <2>1. keys' = keys /\ Done(c, "applied", "ErrNotFound", Nil)  BY <1>10 DEF CreateKey
  <2>2. W.table = keys /\ W.err = "ErrNotFound"
    BY <1>7, <1>10 DEF Contract!CreateKeyResult, Contract!Result
  <2> QED  BY <1>3, <1>4, <2>1, <2>2
<1>11. CASE ~UniqueViolation(r.id, r.row.hash) /\ r.row.api \in DOMAIN apis
  <2>1. keys' = Put(keys, r.id, r.row) /\ Done(c, "applied", "nil", Nil)
    BY <1>11 DEF CreateKey
  <2>2. W.table = Put(keys, r.id, r.row) /\ W.err = "nil"
    BY <1>6, <1>7, <1>8, <1>11 DEF Contract!CreateKeyResult, Contract!Result
  <2> QED  BY <1>3, <1>4, <2>1, <2>2
<1> QED  BY <1>9, <1>10, <1>11

LEMMA UpdatesRefine ==
    ASSUME Inv, NEW c \in Clients, RevokeKey(c) \/ TouchLastVerified(c)
    PROVE  Contract!Next
<1> DEFINE r == call[c].req  W == Contract!KeyWrite(apis, keys, r)
<1>1. /\ CallType /\ call[c].phase = "first" /\ r.op \in Contract!KeyWrites
      /\ UNCHANGED <<workspaces, apis>>
  BY DEF RevokeKey, TouchLastVerified, Running, Inv, Contract!KeyWrites
<1>2. Calls[c].phase = "called"  BY <1>1, CallsFacts
<1>3. ASSUME NEW e \in Errs, Done(c, "applied", e, Nil), W.table = keys', W.err = e
      PROVE  Contract!Next
  <2>1. Contract!Returned(r, W) = Nil
    <3>1. r.op \notin {"RotateKey", "DecrementRemainingUses"}
      BY DEF RevokeKey, TouchLastVerified, Running
    <3> HIDE DEF W
    <3> QED  BY <3>1, ReturnsNothing
  <2> QED  BY <1>1, <1>2, <1>3, <2>1, Writes, ValFacts
<1>4. {"nil", "ErrNotFound"} \subseteq Errs  BY DEF Errs
<1>5. CASE RevokeKey(c)
  <2>1. W = Contract!RevokeKeyResult(keys, r.id)
    BY <1>5 DEF Contract!KeyWrite, RevokeKey, Running
  <2> HIDE DEF W
  <2>2. CASE r.id \notin DOMAIN keys
    <3>1. keys' = keys /\ Done(c, "applied", "ErrNotFound", Nil)
      BY <1>5, <2>2 DEF RevokeKey
    <3>2. W.table = keys /\ W.err = "ErrNotFound"
      BY <2>1, <2>2 DEF Contract!RevokeKeyResult, Contract!Result
    <3> QED  BY <1>3, <1>4, <3>1, <3>2
  <2>3. CASE r.id \in DOMAIN keys
    <3>1. keys' = [keys EXCEPT ![r.id].enabled = FALSE] /\ Done(c, "applied", "nil", Nil)
      BY <1>5, <2>3 DEF RevokeKey
    <3>2. W.table = [keys EXCEPT ![r.id].enabled = FALSE] /\ W.err = "nil"
      BY <2>1, <2>3 DEF Contract!RevokeKeyResult, Contract!Result
    <3> QED  BY <1>3, <1>4, <3>1, <3>2
  <2> QED  BY <2>2, <2>3
<1>6. CASE TouchLastVerified(c)
  <2>1. W = Contract!TouchLastVerifiedResult(keys, r.id, r.at)
    BY <1>6 DEF Contract!KeyWrite, TouchLastVerified, Running
  <2> HIDE DEF W
  <2>2. CASE r.id \notin DOMAIN keys
    <3>1. keys' = keys /\ Done(c, "applied", "ErrNotFound", Nil)
      BY <1>6, <2>2 DEF TouchLastVerified
    <3>2. W.table = keys /\ W.err = "ErrNotFound"
      BY <2>1, <2>2 DEF Contract!TouchLastVerifiedResult, Contract!Result
    <3> QED  BY <1>3, <1>4, <3>1, <3>2
  <2>3. CASE r.id \in DOMAIN keys
    <3>1. /\ keys' = [keys EXCEPT ![r.id].lastVerifiedAt = r.at]
          /\ Done(c, "applied", "nil", Nil)
      BY <1>6, <2>3 DEF TouchLastVerified
    <3>2. W.table = [keys EXCEPT ![r.id].lastVerifiedAt = r.at] /\ W.err = "nil"
      BY <2>1, <2>3 DEF Contract!TouchLastVerifiedResult, Contract!Result
    <3> QED  BY <1>3, <1>4, <3>1, <3>2
  <2> QED  BY <2>2, <2>3
<1> QED  BY <1>5, <1>6

\* A step that the contract does not see: it leaves the tables, and the
\* call's answer as the contract knows it.
LEMMA SecondUnseen ==
    ASSUME Inv, NEW c \in Clients,
           NEW ph \in {"again", "applied"}, NEW e \in Errs, NEW v \in Vals, Done(c, ph, e, v),
           call[c].res = Contract!Response(e, v),
           \/ ph = "again" /\ call[c].phase = "first" /\ call[c].req.op # "RotateKey"
           \/ ph = "applied" /\ call[c].phase = "second" /\ call[c].req.op = "RotateKey"
           \/ ph = "applied" /\ call[c].phase = "rows",
           UNCHANGED <<workspaces, apis, keys>>
    PROVE  UNCHANGED Contract!contractVars
<1> DEFINE rs == Contract!Response(e, v)  s == [call[c] EXCEPT !.phase = ph, !.res = rs]
<1>1. CallType /\ call[c] \in Call /\ rs \in Res  BY ResFacts DEF Inv, CallType
<1>2. call' = [call EXCEPT ![c] = s]  BY <1>1 DEF Done, Move, CallType
<1>3. s \in Call /\ Seen(s) = Seen(call[c])
  <2>1. call[c].res = rs  OBVIOUS
  <2> HIDE DEF rs
  <2> QED  BY <1>1, <2>1 DEF Call, Phases, Connected, Seen
<1> HIDE DEF s
<1>4. Calls' = Calls  BY <1>1, <1>2, <1>3, Unseen
<1> QED  BY <1>4 DEF Contract!contractVars, Calls

\* A rotation takes effect with its UPDATE; the SELECT after it reports no
\* other error than the UPDATE settled, but the key as it is by then.
LEMMA RotateRefines ==
    ASSUME Inv, NEW c \in Clients, RotateKey(c) \/ RotateReadBack(c)
    PROVE  Contract!Next \/ UNCHANGED Contract!contractVars
<1> DEFINE r == call[c].req  W == Contract!KeyWrite(apis, keys, r)
<1>1. CallType /\ r.op = "RotateKey" /\ UNCHANGED <<workspaces, apis>>
  BY DEF RotateKey, RotateReadBack, Running, Inv, tables
<1>2. {"nil", "ErrNotFound", "ErrConflict"} \subseteq Errs  BY DEF Errs
<1>3. CASE RotateKey(c)
  <2>1. Calls[c].phase = "called"  BY <1>1, <1>3, CallsFacts DEF RotateKey, Running
  <2>2. ASSUME NEW ph \in {"again", "applied"}, NEW e \in Errs, NEW v \in Vals,
               Done(c, ph, e, v), W.table = keys', W.err = e,
               v = IF e = "nil" THEN keys'[r.id] ELSE Nil
        PROVE  Contract!Next
    <3>1. Contract!Returned(r, W) = v
      <4> HIDE DEF W
      <4> QED  BY <1>1, <2>2 DEF Contract!Returned
    <3> QED  BY <1>1, <2>1, <2>2, <3>1, Writes DEF Contract!KeyWrites
  <2>3. W = Contract!RotateKeyResult(keys, r.id, r.hash)  BY <1>1 DEF Contract!KeyWrite
  <2>4. UniqueViolation(r.id, r.hash) <=> Contract!KeysWithHash(keys, r.hash) \ {r.id} # {}
    BY DEF UniqueViolation, Contract!KeysWithHash
  <2> HIDE DEF W
  <2>5. CASE r.id \notin DOMAIN keys
    <3>1. keys' = keys /\ Done(c, "again", "ErrNotFound", Nil)  BY <1>3, <2>5 DEF RotateKey
    <3>2. W.table = keys /\ W.err = "ErrNotFound"
      BY <2>3, <2>5 DEF Contract!RotateKeyResult, Contract!Result
    <3> QED  BY <1>2, <2>2, <3>1, <3>2, ValFacts
  <2>6. CASE r.id \in DOMAIN keys /\ UniqueViolation(r.id, r.hash)
    <3>1. keys' = keys /\ Done(c, "applied", "ErrConflict", Nil)
      BY <1>3, <2>6 DEF RotateKey
    <3>2. W.table = keys /\ W.err = "ErrConflict"
      BY <2>3, <2>4, <2>6 DEF Contract!RotateKeyResult, Contract!Result
    <3> QED  BY <1>2, <2>2, <3>1, <3>2, ValFacts
  <2>7. CASE r.id \in DOMAIN keys /\ ~UniqueViolation(r.id, r.hash)
    <3> DEFINE k == [keys[r.id] EXCEPT !.hash = r.hash]
    <3>1. keys' = [keys EXCEPT ![r.id] = k] /\ Done(c, "again", "nil", k)
      BY <1>3, <2>7 DEF RotateKey
    <3>2. W.table = [keys EXCEPT ![r.id] = k] /\ W.err = "nil"
      BY <2>3, <2>4, <2>7 DEF Contract!RotateKeyResult, Contract!Result
    <3>3. k \in Vals
      <4>1. keys[r.id] \in Key  BY <2>7 DEF Inv, KeysOK
      <4>2. r \in Requests  BY <1>3 DEF RotateKey, Running, Inv, CallOK
      <4>3. k \in Key  BY <1>1, <4>1, <4>2, KeyFacts, RequestFacts
      <4> HIDE DEF k
      <4> QED  BY <4>3, ValFacts
    <3> HIDE DEF k
    <3>4. keys'[r.id] = k  BY <2>7, <3>1
    <3> QED  BY <1>2, <2>2, <3>1, <3>2, <3>3, <3>4
  <2> QED  BY <2>5, <2>6, <2>7
<1>4. CASE RotateReadBack(c)
  <2>1. SecondOK(c) /\ call[c].phase = "second" /\ keys' = keys
    BY <1>4 DEF RotateReadBack, Inv, CallOK, tables
  <2>2. CASE r.id \in DOMAIN keys
    <3>1. Done(c, "applied", "nil", keys[r.id])  BY <1>4, <2>2 DEF RotateReadBack
    <3>2. keys[r.id] \in Vals  BY <2>2, ValFacts DEF Inv, KeysOK
    <3>3. Contract!Answered(c, "nil", keys[r.id])
      <4>1. PICK v \in Vals : v = keys[r.id]  BY <3>2
      <4>2. Done(c, "applied", "nil", v)  BY <3>1, <4>1 DEF Done, Move
      <4>3. Contract!Answered(c, "nil", v)  BY <1>1, <1>2, <4>2, Answered
      <4> QED  BY <4>1, <4>3 DEF Contract!Answered
    <3>4. /\ Calls[c].phase = "applied" /\ Calls[c].req = r
          /\ Calls[c].res.err = "nil"
      BY <1>1, <2>1, <2>2, CallsFacts DEF SecondOK
    <3>5. Contract!Reread(c)
      BY <1>1, <2>1, <3>3, <3>4 DEF Contract!Reread, Contract!Answered, Calls
    <3> QED  BY <3>5 DEF Contract!Next
  <2>3. CASE r.id \notin DOMAIN keys
    <3>1. Done(c, "applied", "ErrNotFound", Nil)  BY <1>4, <2>3 DEF RotateReadBack
    <3>2. call[c].res = Contract!Response("ErrNotFound", Nil)
      BY <1>1, <2>1, <2>3 DEF SecondOK
    <3> QED  BY <1>1, <1>2, <2>1, <3>1, <3>2, SecondUnseen, ValFacts
  <2> QED  BY <2>2, <2>3
<1> QED  BY <1>3, <1>4

\* A decrement takes effect with its UPDATE if that met a row, and with the
\* SELECT after it if not: nobody adds credits in between.
LEMMA DecrementRefines ==
    ASSUME Inv, NEW c \in Clients, DecrementRemainingUses(c) \/ DecrementReason(c)
    PROVE  Contract!Next \/ UNCHANGED Contract!contractVars
<1> DEFINE r == call[c].req  W == Contract!KeyWrite(apis, keys, r)
<1>1. /\ CallType /\ call[c].phase \in {"first", "second"}
      /\ r.op = "DecrementRemainingUses" /\ UNCHANGED <<workspaces, apis>>
  BY DEF DecrementRemainingUses, DecrementReason, Running, Inv, tables
<1>2. Calls[c].phase = "called"  BY <1>1, CallsFacts
<1>3. ASSUME NEW e \in Errs, NEW v \in Vals, Done(c, "applied", e, v), W.table = keys',
             W.err = e, v = IF e = "nil" THEN keys'[r.id].remaining ELSE Nil
      PROVE  Contract!Next
  <2>1. Contract!Returned(r, W) = v
    <3> HIDE DEF W
    <3> QED  BY <1>1, <1>3 DEF Contract!Returned
  <2> QED  BY <1>1, <1>2, <1>3, <2>1, Writes DEF Contract!KeyWrites
<1>4. W = Contract!DecrementRemainingUsesResult(keys, r.id)  BY <1>1 DEF Contract!KeyWrite
<1>5. {"nil", "ErrNotFound", "ErrDepleted"} \subseteq Errs  BY DEF Errs
<1>6. \A id \in DOMAIN keys : keys[id].remaining \in Nat \cup {-1}
  <2>1. \A id \in DOMAIN keys : keys[id] \in Key  BY DEF Inv, KeysOK
  <2> QED  BY <2>1 DEF Key
<1> HIDE DEF W
<1>7. CASE DecrementRemainingUses(c)
  <2>1. CASE r.id \in DOMAIN keys /\ keys[r.id].remaining > 0
    <3>1. /\ keys' = [keys EXCEPT ![r.id].remaining = @ - 1]
          /\ Done(c, "applied", "nil", keys[r.id].remaining - 1)
      BY <1>7, <2>1 DEF DecrementRemainingUses
    <3>2. W.table = [keys EXCEPT ![r.id].remaining = @ - 1] /\ W.err = "nil"
      BY <1>4, <1>6, <2>1 DEF Contract!DecrementRemainingUsesResult, Contract!Result
    <3>3. keys'[r.id].remaining = keys[r.id].remaining - 1
      <4>1. keys[r.id] \in Key  BY <2>1 DEF Inv, KeysOK
      <4> QED  BY <2>1, <3>1, <4>1 DEF Key
    <3>4. keys[r.id].remaining - 1 \in Vals
      <4>1. keys[r.id].remaining - 1 \in Int  BY <1>6, <2>1
      <4> QED  BY <4>1, ValFacts
    <3> QED  BY <1>3, <1>5, <3>1, <3>2, <3>3, <3>4
  <2>2. CASE ~(r.id \in DOMAIN keys /\ keys[r.id].remaining > 0)
    <3>1. Done(c, "again", "nil", Nil) /\ keys' = keys
      BY <1>7, <2>2 DEF DecrementRemainingUses
    <3>2. call[c].phase = "first" /\ call[c].res = Contract!Response("nil", Nil)
      BY <1>7 DEF DecrementRemainingUses, Running, Inv, CallOK, Contract!NoResponse
    <3> QED  BY <1>1, <1>5, <3>1, <3>2, SecondUnseen, ValFacts
  <2> QED  BY <2>1, <2>2
<1>8. CASE DecrementReason(c)
  <2>1. SecondOK(c) /\ keys' = keys  BY <1>8 DEF DecrementReason, Inv, CallOK, tables
  <2>2. CASE r.id \notin DOMAIN keys
    <3>1. Done(c, "applied", "ErrNotFound", Nil)  BY <1>8, <2>2 DEF DecrementReason
    <3>2. W.table = keys /\ W.err = "ErrNotFound"
      BY <1>4, <2>2 DEF Contract!DecrementRemainingUsesResult, Contract!Result
    <3> QED  BY <1>3, <1>5, <2>1, <3>1, <3>2, ValFacts
  <2>3. CASE r.id \in DOMAIN keys
    <3> DEFINE n == keys[r.id].remaining
               e == IF n < 0 THEN "nil" ELSE "ErrDepleted"
               v == IF n < 0 THEN n ELSE Nil
    <3>1. n <= 0 /\ n \in Nat \cup {-1}  BY <1>1, <1>6, <2>1, <2>3 DEF SecondOK
    <3>2. n < 0 => n = -1  BY <3>1
    <3>3. Done(c, "applied", e, v)  BY <1>8, <2>3, <3>1, <3>2 DEF DecrementReason
    <3>4. W.table = keys /\ W.err = e
      BY <1>4, <2>3, <3>1 DEF Contract!DecrementRemainingUsesResult, Contract!Result
    <3>5. e \in Errs /\ v \in Vals  BY <1>5, <3>2, ValFacts
    <3>6. v = IF e = "nil" THEN keys'[r.id].remaining ELSE Nil  BY <2>1
    <3> HIDE DEF e, v
    <3> QED  BY <1>3, <2>1, <3>3, <3>4, <3>5, <3>6
  <2> QED  BY <2>2, <2>3
<1> QED  BY <1>7, <1>8

\* A lookup by hash finds at most one row, so "the first row" is the contract's.
LEMMA ReadsRefine ==
    ASSUME Inv, APIsOK, NEW c \in Clients,
           GetWorkspace(c) \/ GetAPI(c) \/ GetKeyByID(c) \/ GetKeyByHash(c) \/ ListKeys(c)
    PROVE  Contract!Next
<1> DEFINE r == call[c].req  F == Contract!Found(workspaces, apis, keys, r)
<1>1. /\ CallType /\ call[c].phase = "first" /\ r \in Requests
      /\ r.op \in Contract!Reads /\ UNCHANGED <<workspaces, apis, keys>>
  BY DEF GetWorkspace, GetAPI, GetKeyByID, GetKeyByHash, ListKeys, Running, Inv, CallOK,
         Contract!Reads, tables
<1>2. ASSUME F = {}, Done(c, "applied", "ErrNotFound", Nil) PROVE Contract!Next
  BY <1>1, <1>2, Reads
<1>3. ASSUME NEW v \in Vals, F = {v},
             Done(c, "applied", "nil", v) \/ Move(c, "rows", "nil", v)
      PROVE  Contract!Next
  BY <1>1, <1>3, Reads
<1>4. CASE GetWorkspace(c)
  <2>1. r.op = "GetWorkspace" /\ F = workspaces \cap {r.id}
    BY <1>4 DEF GetWorkspace, Running, Contract!Found
  <2>2. r.id \in Vals  BY <1>1, <2>1, RequestFacts, ValFacts
  <2>3. CASE r.id \in workspaces
    <3>1. F = {r.id} /\ Done(c, "applied", "nil", r.id)  BY <1>4, <2>1, <2>3 DEF GetWorkspace
    <3> QED  BY <1>3, <2>2, <3>1
  <2>4. CASE r.id \notin workspaces
    <3>1. F = {} /\ Done(c, "applied", "ErrNotFound", Nil)
      BY <1>4, <2>1, <2>4 DEF GetWorkspace
    <3> QED  BY <1>2, <3>1
  <2> QED  BY <2>3, <2>4
<1>5. CASE GetAPI(c)
  <2>1. r.op = "GetAPI" /\ F = {apis[id] : id \in DOMAIN apis \cap {r.id}}
    BY <1>5 DEF GetAPI, Running, Contract!Found
  <2>2. CASE r.id \in DOMAIN apis
    <3>1. F = {apis[r.id]} /\ Done(c, "applied", "nil", apis[r.id])
      BY <1>5, <2>1, <2>2 DEF GetAPI
    <3>2. apis[r.id] \in Vals  BY <2>2, ValFacts DEF APIsOK
    <3> QED  BY <1>3, <3>1, <3>2
  <2>3. CASE r.id \notin DOMAIN apis
    <3>1. F = {} /\ Done(c, "applied", "ErrNotFound", Nil)  BY <1>5, <2>1, <2>3 DEF GetAPI
    <3> QED  BY <1>2, <3>1
  <2> QED  BY <2>2, <2>3
<1>6. CASE GetKeyByID(c)
  <2>1. r.op = "GetKeyByID" /\ F = {keys[id] : id \in DOMAIN keys \cap {r.id}}
    BY <1>6 DEF GetKeyByID, Running, Contract!Found
  <2>2. CASE r.id \in DOMAIN keys
    <3>1. F = {keys[r.id]} /\ Done(c, "applied", "nil", keys[r.id])
      BY <1>6, <2>1, <2>2 DEF GetKeyByID
    <3>2. keys[r.id] \in Vals  BY <2>2, ValFacts DEF Inv, KeysOK
    <3> QED  BY <1>3, <3>1, <3>2
  <2>3. CASE r.id \notin DOMAIN keys
    <3>1. F = {} /\ Done(c, "applied", "ErrNotFound", Nil)
      BY <1>6, <2>1, <2>3 DEF GetKeyByID
    <3> QED  BY <1>2, <3>1
  <2> QED  BY <2>2, <2>3
<1>7. CASE GetKeyByHash(c)
  <2> DEFINE found == KeysWithHash(keys, r.hash)
  <2>1. Contract!KeysWithHash(keys, r.hash) = found
    BY DEF Contract!KeysWithHash, KeysWithHash
  <2>2. r.op = "GetKeyByHash" /\ F = {keys[id] : id \in found}
    BY <1>7, <2>1 DEF GetKeyByHash, Running, Contract!Found
  <2>3. CASE found = {}
    <3>1. Done(c, "applied", "ErrNotFound", Nil)  BY <1>7, <2>3 DEF GetKeyByHash
    <3>2. F = {}
      <4> HIDE DEF found
      <4> QED  BY <2>2, <2>3
    <3> QED  BY <1>2, <3>1, <3>2
  <2>4. CASE found # {}
    <3>1. PICK id \in found : Done(c, "applied", "nil", keys[id])
      BY <1>7, <2>4 DEF GetKeyByHash
    <3>2. found = {id} /\ id \in DOMAIN keys  BY <3>1 DEF KeysWithHash, Inv, KeysOK
    <3>3. keys[id] \in Vals  BY <3>2, ValFacts DEF Inv, KeysOK
    <3> HIDE DEF found
    <3>4. F = {keys[id]}  BY <2>2, <3>2
    <3> QED  BY <1>3, <3>1, <3>3, <3>4
  <2> QED  BY <2>3, <2>4
<1>8. CASE ListKeys(c)
  <2>1. r.op = "ListKeys" /\ F = {Contract!KeysOf(keys, r.api)}
    BY <1>8 DEF ListKeys, Running, Contract!Found
  <2>2. KeysOf(keys, r.api) \in Vals /\ F = {KeysOf(keys, r.api)}
    BY <2>1, ListFacts DEF Inv, KeysOK
  <2> QED  BY <1>3, <1>8, <2>2 DEF ListKeys
<1> QED  BY <1>4, <1>5, <1>6, <1>7, <1>8

\* ListKeys has its answer once the query ran; reading the rows is not seen.
LEMMA RowsReadRefines ==
    ASSUME Inv, NEW c \in Clients, RowsRead(c)
    PROVE  UNCHANGED Contract!contractVars
<1>1. /\ call[c].phase = "rows" /\ Done(c, "applied", "nil", call[c].res.val)
      /\ UNCHANGED <<workspaces, apis, keys>>
  BY DEF RowsRead, tables
<1>2. call[c].res \in Res /\ call[c].res.err = "nil"
  BY <1>1 DEF Inv, CallType, Call, CallOK
<1>3. call[c].res = Contract!Response("nil", call[c].res.val) /\ call[c].res.val \in Vals
  BY <1>2 DEF Contract!Response, Res
<1> QED  BY <1>1, <1>3, SecondUnseen DEF Errs

LEMMA InitRefines == Init => Contract!Init
<1> SUFFICES ASSUME Init PROVE Contract!Init  OBVIOUS
<1>1. Seen(Contract!NotCalled) = Contract!NotCalled  BY DEF Seen, Contract!NotCalled
<1>2. \A c \in Clients : Calls[c] = Contract!NotCalled  BY <1>1, CallsSeen DEF Init
<1>3. Calls = [c \in Clients |-> Calls[c]]  BY DEF Calls
<1>4. Calls = [c \in Clients |-> Contract!NotCalled]  BY <1>2, <1>3
<1> QED  BY <1>4 DEF Init, Contract!Init, Calls, EmptyTable, Contract!EmptyTable

LEMMA StepRefines ==
    Inv /\ APIsOK /\ [Next]_vars => [Contract!Next]_Contract!contractVars
<1> SUFFICES ASSUME Inv, APIsOK, [Next]_vars
             PROVE  Contract!Next \/ UNCHANGED Contract!contractVars
  OBVIOUS
<1>1. ASSUME NEW c \in Clients, Statement(c)
      PROVE  Contract!Next \/ UNCHANGED Contract!contractVars
  BY <1>1, TablesRefine, CreateKeyRefines, UpdatesRefine, RotateRefines, DecrementRefines,
     ReadsRefine, RowsReadRefines DEF Statement
<1>2. CASE UNCHANGED vars
  <2>1. \A c \in Clients : Calls'[c] = Calls[c]  BY <1>2, CallsSeen DEF vars
  <2>2. Calls = [c \in Clients |-> Calls[c]] /\ Calls' = [c \in Clients |-> Calls'[c]]
    BY DEF Calls
  <2>3. Calls' = Calls  BY <2>1, <2>2
  <2> QED  BY <1>2, <2>3 DEF vars, Contract!contractVars, Calls
<1> QED  BY <1>1, <1>2, InvokeRefines, AcquireRefines, ReturnRefines, FailRefines
         DEF Next, Step

\* Every method of postgres.Store takes effect at one instant between its
\* call and its return, and its error and what it returns are the contract's
\* for the tables at that instant, or an error of the connection.  The gap
\* between the two statements of DecrementRemainingUses never shows; that of
\* RotateKey shows in nothing but the key it returns, which may be as of a
\* later instant, with the hash of a later rotation.
THEOREM PostgresRefines == Spec => Refines
BY InitRefines, StepRefines, Safe, PTL DEF Spec, Refines, Contract!Spec

=============================================================================
