-------------------------- MODULE MemoryStoreProofs -------------------------
(* MemoryStore keeps the store contract, for every set of clients, calls    *)
(* and keys.                                                                *)
EXTENDS MemoryStore, TLAPS

-----------------------------------------------------------------------------
(* The inductive invariant.                                                 *)

Held == {"locked", "unindexed", "written", "applied"}
Phases == {"idle", "called"} \cup Held

\* What a call can return: a row, a count, the keys of an API.
Lists == UNION {[ids -> Key] : ids \in SUBSET KeyIDs}
Vals == WorkspaceIDs \cup API \cup Key \cup Int \cup Lists \cup {Nil}
Res == [err : Errs, val : Vals]
Call == [phase : Phases, req : Requests \cup {Nil}, res : Res]

CallType == call \in [Clients -> Call]

\* The mutex is held from Lock to Unlock, by the client that locked it; a
\* call has its result once it is written or applied, not before.
CallOK(c) ==
    /\ call[c].phase \in Held <=> mu = c
    /\ call[c].phase # "idle" => call[c].req \in Requests
    /\ call[c].phase \notin {"written", "applied"} => call[c].res = Contract!NoResponse
    /\ call[c].phase = "written" => call[c].res.err = "nil"

\* The index is the inverse of the hashes of these keys.
Indexed(ids) ==
    /\ DOMAIN hashIndex = {keys[i].hash : i \in ids}
    /\ \A i \in ids : hashIndex[keys[i].hash] = i

\* The hash a CreateKey or a RotateKey stores.
NewHash(r) == IF r.op = "CreateKey" THEN r.row.hash ELSE r.hash

\* Between the two writes of a method only the key it is about is missing
\* from the index, and no other key has the hash that will be put there.
Partly(c) ==
    LET r == call[c].req IN
    /\ r.id \in DOMAIN keys /\ NewHash(r) \in Hashes
    /\ Indexed(DOMAIN keys \ {r.id})
    /\ \A i \in DOMAIN keys \ {r.id} : keys[i].hash # NewHash(r)
    /\ r.op \in {"CreateKey", "RotateKey"}
    /\ call[c].phase = "unindexed" => r.op = "RotateKey"
    /\ call[c].phase = "written" => keys[r.id].hash = NewHash(r)

Between(c) == call[c].phase \in {"unindexed", "written"}

IndexOK ==
    /\ (\A c \in Clients : ~Between(c)) => Indexed(DOMAIN keys)
    /\ \A c \in Clients : Between(c) => Partly(c)

\* A key to be created has an ID of its own.
Creating(c) == call[c].phase # "idle" /\ call[c].req.op = "CreateKey"

Fresh ==
    /\ \A c \in Clients : Creating(c) /\ call[c].phase \in {"called", "locked"}
                             => call[c].req.id \notin DOMAIN keys
    /\ \A c, d \in Clients : c # d /\ Creating(c) /\ Creating(d)
                             => call[c].req.id # call[d].req.id

ClockOK == \A id \in DOMAIN keys : updatedAt[id] <= now

Inv ==
    /\ TypeOK /\ CallType /\ ClockOK
    /\ \A c \in Clients : CallOK(c)
    /\ IndexOK /\ Fresh

-----------------------------------------------------------------------------
(* What the definitions give.                                               *)

\* The contract's rows are the store's.
LEMMA SameTypes ==
    /\ Contract!API = API /\ Contract!Key = Key
    /\ Contract!Hashes = Hashes /\ Contract!Time = Time
<1>1. Contract!Hashes = Hashes /\ Contract!Time = Time /\ Contract!TimePtr = TimePtr
  BY DEF Contract!Hashes, Hashes, Contract!Plaintexts, Plaintexts, Contract!Hash, Hash,
         Contract!Time, Time, Contract!TimePtr, TimePtr
<1> QED  BY <1>1 DEF Contract!API, API, Contract!Key, Key

LEMMA RequestFacts ==
    ASSUME NEW r \in Requests
    PROVE  /\ r.op = "CreateWorkspace" => r.id \in WorkspaceIDs
           /\ r.op = "CreateAPI" => r.id \in APIIDs /\ r.row \in API
           /\ r.op = "CreateKey" => r.id \in KeyIDs /\ r.row \in Key /\ r.row.hash \in Hashes
           /\ r.op = "RotateKey" => r.id \in KeyIDs /\ r.hash \in Hashes
           /\ r.op = "TouchLastVerified" => r.at \in Time
           /\ r.op = "GetWorkspace" => r.id \in WorkspaceIDs
<1>1. \/ r \in [op : {"CreateWorkspace"}, id : WorkspaceIDs]
      \/ r \in [op : {"CreateAPI"}, id : APIIDs, row : API]
      \/ r \in [op : {"CreateKey"}, id : KeyIDs, row : Key]
      \/ r \in [op : {"RevokeKey", "DecrementRemainingUses", "GetKeyByID"}, id : KeyIDs]
      \/ r \in [op : {"RotateKey"}, id : KeyIDs, hash : Hashes]
      \/ r \in [op : {"TouchLastVerified"}, id : KeyIDs, at : Time]
      \/ r \in [op : {"GetKeyByHash"}, hash : Hashes]
      \/ r \in [op : {"GetWorkspace"}, id : WorkspaceIDs]
      \/ r \in [op : {"GetAPI"}, id : APIIDs]
      \/ r \in [op : {"ListKeys"}, api : APIIDs]
  BY RequestsAssumption, SameTypes DEF Contract!Request
<1>2. \A k \in Key : k.hash \in Hashes  BY DEF Key
<1>3. CASE r \in [op : {"CreateWorkspace"}, id : WorkspaceIDs]  BY <1>3
<1>4. CASE r \in [op : {"CreateAPI"}, id : APIIDs, row : API]  BY <1>4
<1>5. CASE r \in [op : {"CreateKey"}, id : KeyIDs, row : Key]  BY <1>2, <1>5
<1>6. CASE r \in [op : {"RevokeKey", "DecrementRemainingUses", "GetKeyByID"}, id : KeyIDs]
  BY <1>6
<1>7. CASE r \in [op : {"RotateKey"}, id : KeyIDs, hash : Hashes]  BY <1>7
<1>8. CASE r \in [op : {"TouchLastVerified"}, id : KeyIDs, at : Time]  BY <1>8
<1>9. CASE r \in [op : {"GetKeyByHash"}, hash : Hashes]  BY <1>9
<1>10. CASE r \in [op : {"GetWorkspace"}, id : WorkspaceIDs]  BY <1>10
<1>11. CASE r \in [op : {"GetAPI"}, id : APIIDs]  BY <1>11
<1>12. CASE r \in [op : {"ListKeys"}, api : APIIDs]  BY <1>12
<1> QED  BY <1>1, <1>3, <1>4, <1>5, <1>6, <1>7, <1>8, <1>9, <1>10, <1>11, <1>12

LEMMA ValFacts ==
    /\ WorkspaceIDs \subseteq Vals /\ API \subseteq Vals /\ Key \subseteq Vals
    /\ Int \subseteq Vals /\ Nil \in Vals
BY DEF Vals

LEMMA ListFacts ==
    ASSUME DOMAIN keys \subseteq KeyIDs, keys \in [DOMAIN keys -> Key], NEW api
    PROVE  KeysOf(keys, api) \in Vals /\ Contract!KeysOf(keys, api) = KeysOf(keys, api)
<1> DEFINE ids == {i \in DOMAIN keys : keys[i].api = api}
<1>1. ids \in SUBSET KeyIDs /\ KeysOf(keys, api) \in [ids -> Key]  BY DEF KeysOf
<1>2. KeysOf(keys, api) \in Lists
  <2> HIDE DEF ids
  <2> QED  BY <1>1 DEF Lists
<1> QED  BY <1>2 DEF Vals, KeysOf, Contract!KeysOf

LEMMA ResFacts ==
    ASSUME NEW e \in Errs, NEW v \in Vals
    PROVE  /\ Contract!Response(e, v) \in Res /\ Contract!Response(e, v).err = e
           /\ Contract!Response(e, v).val = v
BY DEF Res, Contract!Response

\* A call moves on.
LEMMA MoveCall ==
    ASSUME CallType, NEW c \in Clients, NEW ph \in Phases, NEW rs \in Res,
           call' = [call EXCEPT ![c].phase = ph, ![c].res = rs]
    PROVE  /\ CallType'
           /\ call'[c].phase = ph /\ call'[c].res = rs /\ call'[c].req = call[c].req
           /\ \A d \in Clients \ {c} : call'[d] = call[d]
<1> DEFINE s == [call[c] EXCEPT !.phase = ph, !.res = rs]
<1>1. s \in Call /\ s.phase = ph /\ s.res = rs /\ s.req = call[c].req
  BY DEF CallType, Call
<1>2. call' = [call EXCEPT ![c] = s]  BY DEF CallType
<1> HIDE DEF s
<1> QED  BY <1>1, <1>2 DEF CallType

\* Under the mutex nobody else is between two writes.
LEMMA Alone ==
    ASSUME Inv, NEW c \in Clients, call[c].phase \in Held
    PROVE  /\ mu = c /\ \A d \in Clients \ {c} : call[d].phase \notin Held
           /\ call[c].phase \in {"locked", "applied"} => Indexed(DOMAIN keys)
           /\ call[c].req \in Requests
BY DEF Inv, CallOK, IndexOK, Between, Held

\* One step of a method that holds the mutex keeps the invariant if the
\* tables and the index are as they should be after it.
LEMMA BodyInv ==
    ASSUME Inv, NEW c \in Clients, call[c].phase \in {"locked", "unindexed", "written"},
           NEW ph \in {"unindexed", "written", "applied"}, NEW rs \in Res,
           ph = "unindexed" => rs = Contract!NoResponse,
           ph = "written" => rs.err = "nil",
           call' = [call EXCEPT ![c].phase = ph, ![c].res = rs],
           UNCHANGED <<mu, now>>,
           TypeOK', ClockOK',
           IF ph = "applied" THEN Indexed(DOMAIN keys)' ELSE Partly(c)',
           \/ DOMAIN keys' = DOMAIN keys
           \/ call[c].req.op = "CreateKey" /\ DOMAIN keys' = DOMAIN keys \cup {call[c].req.id}
    PROVE  Inv'
<1>1. /\ CallType'
      /\ call'[c].phase = ph /\ call'[c].res = rs /\ call'[c].req = call[c].req
      /\ \A d \in Clients \ {c} : call'[d] = call[d]
  BY MoveCall DEF Inv, Phases, Held
<1>2. /\ mu = c /\ call[c].req \in Requests
      /\ \A d \in Clients \ {c} : call[d].phase \notin Held
  BY Alone DEF Held
<1>3. ASSUME NEW d \in Clients PROVE CallOK(d)'
  BY <1>1, <1>2 DEF Inv, CallOK, Held
<1>4. IndexOK'
  <2>1. \A d \in Clients : Between(d)' => d = c  BY <1>1, <1>2 DEF Between, Held
  <2>2. Between(c)' <=> ph # "applied"  BY <1>1 DEF Between
  <2> QED  BY <2>1, <2>2 DEF IndexOK
<1>5. Fresh'
  <2>1. \A d \in Clients : Creating(d)' => Creating(d) /\ call'[d].req = call[d].req
    BY <1>1 DEF Creating
  <2>2. \A d \in Clients : call'[d].phase \in {"called", "locked"} => d # c /\ call[d].phase = call'[d].phase
    BY <1>1
  <2>3. Creating(c) <=> call[c].req.op = "CreateKey"  BY DEF Creating
  <2>4. ASSUME NEW d \in Clients, Creating(d)', call'[d].phase \in {"called", "locked"}
        PROVE  call'[d].req.id \notin DOMAIN keys'
    <3>1. d # c /\ Creating(d) /\ call[d].req.id \notin DOMAIN keys
      BY <2>1, <2>2, <2>4 DEF Inv, Fresh
    <3>2. Creating(c) => call[c].req.id # call[d].req.id  BY <3>1 DEF Inv, Fresh
    <3> QED  BY <2>1, <2>3, <2>4, <3>1, <3>2
  <2>5. ASSUME NEW a \in Clients, NEW b \in Clients, a # b, Creating(a)', Creating(b)'
        PROVE  call'[a].req.id # call'[b].req.id
    BY <2>1, <2>5 DEF Inv, Fresh
  <2> QED  BY <2>4, <2>5 DEF Fresh
<1> QED  BY <1>1, <1>3, <1>4, <1>5 DEF Inv

\* A lookup, or a method that changes nothing.
LEMMA ReadInv ==
    ASSUME Inv, NEW c \in Clients, call[c].phase = "locked",
           NEW e \in Errs, NEW v \in Vals, Move(c, "applied", e, v),
           UNCHANGED tables
    PROVE  Inv'
<1>1. Contract!Response(e, v) \in Res  BY ResFacts
<1>2. Indexed(DOMAIN keys)'  BY Alone DEF Indexed, tables, Held
<1>3. TypeOK' /\ ClockOK'  BY DEF Inv, TypeOK, ClockOK, Move, tables
<1> QED  BY <1>1, <1>2, <1>3, BodyInv DEF Move, tables

LEMMA PutFacts ==
    ASSUME NEW table, NEW id, NEW row
    PROVE  /\ DOMAIN Put(table, id, row) = DOMAIN table \cup {id}
           /\ Put(table, id, row)[id] = row
           /\ \A i \in DOMAIN table \ {id} : Put(table, id, row)[i] = table[i]
           /\ \A T : row \in T /\ table \in [DOMAIN table -> T]
                        => Put(table, id, row) \in [DOMAIN table \cup {id} -> T]
BY DEF Put

LEMMA KeyFacts ==
    ASSUME NEW k \in Key
    PROVE  /\ k.hash \in Hashes
           /\ \A h \in Hashes : [k EXCEPT !.hash = h] \in Key /\ [k EXCEPT !.hash = h].hash = h
           /\ [k EXCEPT !.enabled = FALSE] \in Key
           /\ [k EXCEPT !.enabled = FALSE].hash = k.hash
           /\ \A t \in Time : /\ [k EXCEPT !.lastVerifiedAt = t] \in Key
                              /\ [k EXCEPT !.lastVerifiedAt = t].hash = k.hash
           /\ k.remaining > 0 => /\ [k EXCEPT !.remaining = @ - 1] \in Key
                                 /\ [k EXCEPT !.remaining = @ - 1].hash = k.hash
<1>1. k.hash \in Hashes /\ k.remaining \in Nat \cup {-1}  BY DEF Key
<1>2. k.remaining > 0 => k.remaining - 1 \in Nat \cup {-1}  BY <1>1
<1>3. \A n \in Nat \cup {-1} : /\ [k EXCEPT !.remaining = n] \in Key
                               /\ [k EXCEPT !.remaining = n].hash = k.hash
  BY DEF Key
<1>4. \A h \in Hashes : [k EXCEPT !.hash = h] \in Key /\ [k EXCEPT !.hash = h].hash = h
  BY DEF Key
<1>5. /\ [k EXCEPT !.enabled = FALSE] \in Key
      /\ [k EXCEPT !.enabled = FALSE].hash = k.hash
  BY DEF Key
<1>6. \A t \in Time : /\ [k EXCEPT !.lastVerifiedAt = t] \in Key
                      /\ [k EXCEPT !.lastVerifiedAt = t].hash = k.hash
  BY DEF Key, TimePtr
<1> QED  BY <1>1, <1>2, <1>3, <1>4, <1>5, <1>6

\* A method that changes one key and not its hash.
LEMMA UpdateInv ==
    ASSUME Inv, NEW c \in Clients, call[c].phase = "locked",
           NEW id \in DOMAIN keys, NEW k \in Key, k.hash = keys[id].hash,
           keys' = [keys EXCEPT ![id] = k],
           updatedAt' = updatedAt \/ updatedAt' = [updatedAt EXCEPT ![id] = now],
           NEW v \in Vals, Move(c, "applied", "nil", v),
           UNCHANGED <<workspaces, apis, hashIndex>>
    PROVE  Inv'
<1>1. /\ DOMAIN keys' = DOMAIN keys
      /\ \A i \in DOMAIN keys : keys'[i].hash = keys[i].hash
      /\ keys' \in [DOMAIN keys' -> Key]
  BY DEF Inv, TypeOK
<1>2. /\ updatedAt' \in [DOMAIN keys' -> Time] /\ now' = now /\ now \in Time
      /\ \A i \in DOMAIN keys : updatedAt'[i] = updatedAt[i] \/ updatedAt'[i] = now
  BY <1>1 DEF Inv, TypeOK, Move
<1>3. TypeOK'  BY <1>1, <1>2 DEF Inv, TypeOK, Move
<1>4. ClockOK'  BY <1>1, <1>2 DEF Inv, ClockOK, Time
<1>5. Indexed(DOMAIN keys)'
  <2>1. Indexed(DOMAIN keys)  BY Alone DEF Held
  <2> QED  BY <1>1, <2>1 DEF Indexed
<1>6. Contract!Response("nil", v) \in Res  BY ResFacts DEF Errs
<1> QED  BY <1>1, <1>3, <1>4, <1>5, <1>6, BodyInv DEF Move

-----------------------------------------------------------------------------
(* Each step preserves the invariant.                                       *)

LEMMA TableInv ==
    ASSUME Inv, NEW c \in Clients,
           \/ CreateWorkspace(c) \/ CreateAPI(c) \/ GetWorkspace(c) \/ GetAPI(c)
           \/ GetKeyByID(c) \/ GetKeyByHash(c) \/ ListKeys(c)
    PROVE  Inv'
<1>1. /\ call[c].phase = "locked" /\ call[c].req \in Requests
      /\ Indexed(DOMAIN keys)
  BY Alone
  DEF CreateWorkspace, CreateAPI, GetWorkspace, GetAPI, GetKeyByID, GetKeyByHash, ListKeys,
      Running, Held
<1>2. ASSUME NEW e \in Errs, Move(c, "applied", e, Nil), TypeOK',
             UNCHANGED <<keys, updatedAt, hashIndex>>
      PROVE  Inv'
  <2>1. Contract!Response(e, Nil) \in Res  BY ResFacts, ValFacts
  <2>2. Indexed(DOMAIN keys)' /\ ClockOK'
    BY <1>1, <1>2 DEF Indexed, Inv, ClockOK, Move
  <2> QED  BY <1>1, <1>2, <2>1, <2>2, BodyInv DEF Move
<1>3. CASE CreateWorkspace(c)
  <2>1. TypeOK'
    BY <1>1, <1>3, RequestFacts DEF CreateWorkspace, Running, Inv, TypeOK, Move
  <2> QED  BY <1>2, <1>3, <2>1 DEF CreateWorkspace, Errs
<1>4. CASE CreateAPI(c)
  <2> DEFINE r == call[c].req
  <2>1. r.id \in APIIDs /\ r.row \in API
    BY <1>1, <1>4, RequestFacts DEF CreateAPI, Running
  <2>2. CASE r.row.workspace \notin workspaces
    <3>1. Move(c, "applied", "ErrNotFound", Nil) /\ UNCHANGED tables
      BY <1>4, <2>2 DEF CreateAPI, tables
    <3> QED  BY <1>1, <3>1, ReadInv, ValFacts DEF Errs
  <2>3. CASE r.row.workspace \in workspaces
    <3>1. apis' = Put(apis, r.id, r.row) /\ Move(c, "applied", "nil", Nil)
      BY <1>4, <2>3 DEF CreateAPI
    <3>2. DOMAIN apis' \subseteq APIIDs /\ apis' \in [DOMAIN apis' -> API]
      <4>1. DOMAIN apis' = DOMAIN apis \cup {r.id}  BY <3>1 DEF Put
      <4>2. apis' \in [DOMAIN apis \cup {r.id} -> API]
        BY <2>1, <3>1, PutFacts DEF Inv, TypeOK
      <4> QED  BY <2>1, <4>1, <4>2 DEF Inv, TypeOK
    <3>3. TypeOK'  BY <1>4, <3>1, <3>2 DEF CreateAPI, Inv, TypeOK, Move
    <3> QED  BY <1>2, <1>4, <3>1, <3>3 DEF CreateAPI, Errs
  <2> QED  BY <2>2, <2>3
<1>5. CASE GetKeyByID(c)
  <2>1. \A id \in DOMAIN keys : keys[id] \in Vals  BY ValFacts DEF Inv, TypeOK
  <2> QED  BY <1>1, <1>5, <2>1, ReadInv, ValFacts DEF GetKeyByID, Errs
<1>6. CASE GetKeyByHash(c)
  <2>1. \A h \in DOMAIN hashIndex : keys[hashIndex[h]] \in Key
    BY <1>1 DEF Inv, TypeOK, Indexed
  <2>2. \A h \in DOMAIN hashIndex : keys[hashIndex[h]] \in Vals  BY <2>1, ValFacts
  <2> QED  BY <1>1, <1>6, <2>2, ReadInv, ValFacts DEF GetKeyByHash, Errs
<1>7. CASE GetWorkspace(c)
  <2>1. call[c].req.id \in WorkspaceIDs
    BY <1>1, <1>7, RequestFacts DEF GetWorkspace, Running
  <2>2. call[c].req.id \in Vals  BY <2>1, ValFacts
  <2> QED  BY <1>1, <1>7, <2>2, ReadInv, ValFacts DEF GetWorkspace, Errs
<1>8. CASE GetAPI(c)
  <2>1. \A id \in DOMAIN apis : apis[id] \in Vals  BY ValFacts DEF Inv, TypeOK
  <2> QED  BY <1>1, <1>8, <2>1, ReadInv, ValFacts DEF GetAPI, Errs
<1>9. CASE ListKeys(c)
  <2>1. KeysOf(keys, call[c].req.api) \in Vals  BY ListFacts DEF Inv, TypeOK
  <2> QED  BY <1>1, <1>9, <2>1, ReadInv DEF ListKeys, Errs
<1> QED  BY <1>3, <1>4, <1>5, <1>6, <1>7, <1>8, <1>9

LEMMA KeyInv ==
    ASSUME Inv, NEW c \in Clients,
           RevokeKey(c) \/ TouchLastVerified(c) \/ DecrementRemainingUses(c)
    PROVE  Inv'
<1> DEFINE r == call[c].req  id == r.id
<1>1. call[c].phase = "locked" /\ r \in Requests
  BY Alone DEF RevokeKey, TouchLastVerified, DecrementRemainingUses, Running, Held
<1>2. id \in DOMAIN keys => keys[id] \in Key  BY DEF Inv, TypeOK
<1>3. ASSUME NEW e \in Errs, Move(c, "applied", e, Nil), UNCHANGED tables PROVE Inv'
  BY <1>1, <1>3, ReadInv, ValFacts
<1>4. CASE RevokeKey(c)
  <2>1. CASE id \in DOMAIN keys /\ keys[id].enabled
    <3> DEFINE k == [keys[id] EXCEPT !.enabled = FALSE]
    <3>1. k \in Key /\ k.hash = keys[id].hash  BY <1>2, <2>1, KeyFacts
    <3>2. keys' = [keys EXCEPT ![id] = k]  BY <1>4, <2>1 DEF RevokeKey
    <3> HIDE DEF k
    <3> QED  BY <1>1, <1>4, <2>1, <3>1, <3>2, UpdateInv, ValFacts DEF RevokeKey
  <2>2. CASE ~(id \in DOMAIN keys /\ keys[id].enabled)
    BY <1>3, <1>4, <2>2 DEF RevokeKey, tables, Errs
  <2> QED  BY <2>1, <2>2
<1>5. CASE TouchLastVerified(c)
  <2>1. CASE id \in DOMAIN keys
    <3> DEFINE k == [keys[id] EXCEPT !.lastVerifiedAt = r.at]
    <3>1. r.at \in Time  BY <1>1, <1>5, RequestFacts DEF TouchLastVerified, Running
    <3>2. k \in Key /\ k.hash = keys[id].hash  BY <1>2, <2>1, <3>1, KeyFacts
    <3>3. keys' = [keys EXCEPT ![id] = k]  BY <1>5, <2>1 DEF TouchLastVerified
    <3> HIDE DEF k
    <3> QED  BY <1>1, <1>5, <2>1, <3>2, <3>3, UpdateInv, ValFacts DEF TouchLastVerified
  <2>2. CASE id \notin DOMAIN keys
    BY <1>3, <1>5, <2>2 DEF TouchLastVerified, tables, Errs
  <2> QED  BY <2>1, <2>2
<1>6. CASE DecrementRemainingUses(c)
  <2>1. CASE id \in DOMAIN keys /\ keys[id].remaining > 0
    <3> DEFINE k == [keys[id] EXCEPT !.remaining = @ - 1]
    <3>1. k \in Key /\ k.hash = keys[id].hash  BY <1>2, <2>1, KeyFacts
    <3>2. keys[id].remaining \in Int  BY <1>2, <2>1 DEF Key
    <3>3. keys' = [keys EXCEPT ![id] = k] /\ updatedAt' = [updatedAt EXCEPT ![id] = now]
          /\ Move(c, "applied", "nil", keys[id].remaining - 1)
          /\ UNCHANGED <<workspaces, apis, hashIndex>>
      BY <1>6, <2>1, <3>2 DEF DecrementRemainingUses
    <3>4. keys[id].remaining - 1 \in Int  BY <3>2
    <3>5. keys[id].remaining - 1 \in Vals  BY <3>4, ValFacts
    <3> HIDE DEF k
    <3> QED  BY <1>1, <2>1, <3>1, <3>3, <3>5, UpdateInv
  <2>2. CASE id \in DOMAIN keys /\ keys[id].remaining < 0
    <3>1. -1 \in Vals  BY ValFacts
    <3>2. keys[id].remaining \in Int  BY <1>2, <2>2 DEF Key
    <3>3. Move(c, "applied", "nil", -1) /\ UNCHANGED tables
      BY <1>6, <2>2, <3>2 DEF DecrementRemainingUses, tables
    <3> QED  BY <1>1, <3>1, <3>3, ReadInv DEF Errs
  <2>3. CASE ~(id \in DOMAIN keys /\ (keys[id].remaining > 0 \/ keys[id].remaining < 0))
    BY <1>3, <1>6, <2>3 DEF DecrementRemainingUses, tables, Errs
  <2> QED  BY <2>1, <2>2, <2>3
<1> QED  BY <1>4, <1>5, <1>6

LEMMA CreateKeyInv ==
    ASSUME Inv, NEW c \in Clients, CreateKey(c)
    PROVE  Inv'
<1> DEFINE r == call[c].req
<1>1. /\ call[c].phase = "locked" /\ r.op = "CreateKey" /\ r \in Requests
      /\ Indexed(DOMAIN keys)
  BY Alone DEF CreateKey, Running, Held
<1>2. r.id \in KeyIDs /\ r.row \in Key /\ r.row.hash \in Hashes  BY <1>1, RequestFacts
<1>3. r.id \notin DOMAIN keys  BY <1>1 DEF Inv, Fresh, Creating
<1>4. CASE r.row.api \in DOMAIN apis /\ r.row.hash \notin DOMAIN hashIndex
  <2>1. /\ keys' = Put(keys, r.id, r.row) /\ updatedAt' = Put(updatedAt, r.id, now)
        /\ Move(c, "written", "nil", Nil) /\ UNCHANGED <<workspaces, apis, hashIndex>>
    BY <1>4 DEF CreateKey
  <2>2. /\ DOMAIN keys' = DOMAIN keys \cup {r.id} /\ keys'[r.id] = r.row
        /\ \A i \in DOMAIN keys : keys'[i] = keys[i]
    BY <1>3, <2>1 DEF Put
  <2>3. keys' \in [DOMAIN keys' -> Key] /\ DOMAIN keys' \subseteq KeyIDs
    BY <1>2, <1>3, <2>1, <2>2 DEF Put, Inv, TypeOK
  <2>4. /\ updatedAt' \in [DOMAIN keys' -> Time] /\ updatedAt'[r.id] = now
        /\ \A i \in DOMAIN keys : updatedAt'[i] = updatedAt[i]
    BY <1>3, <2>1, <2>2 DEF Put, Inv, TypeOK
  <2>5. now' = now /\ mu' = mu /\ now \in Nat  BY <2>1 DEF Move, Inv, TypeOK, Time
  <2>6. TypeOK'  BY <2>1, <2>3, <2>4, <2>5 DEF Inv, TypeOK
  <2>7. ClockOK'  BY <2>2, <2>4, <2>5 DEF Inv, ClockOK
  <2>8. /\ Contract!Response("nil", Nil) \in Res
        /\ Contract!Response("nil", Nil).err = "nil"
    BY ResFacts, ValFacts DEF Errs
  <2>9. call'[c].req = r /\ call'[c].phase = "written"
    BY <2>1, <2>8, MoveCall DEF Move, Inv, Phases, Held
  <2>10. Partly(c)'
    <3>1. DOMAIN keys' \ {r.id} = DOMAIN keys  BY <1>3, <2>2
    <3>2. Indexed(DOMAIN keys \ {r.id})'  BY <1>1, <2>1, <2>2, <2>9, <3>1 DEF Indexed
    <3>3. \A i \in DOMAIN keys : keys[i].hash # r.row.hash  BY <1>1, <1>4 DEF Indexed
    <3>4. NewHash(r)' = r.row.hash  BY <1>1, <2>9 DEF NewHash
    <3> QED  BY <1>1, <1>2, <2>2, <2>9, <3>1, <3>2, <3>3, <3>4 DEF Partly
  <2> QED
    BY <1>1, <2>1, <2>2, <2>6, <2>7, <2>8, <2>10, BodyInv DEF Move
<1>5. CASE ~(r.row.api \in DOMAIN apis /\ r.row.hash \notin DOMAIN hashIndex)
  BY <1>1, <1>5, ReadInv, ValFacts DEF CreateKey, tables, Errs
<1> QED  BY <1>4, <1>5

LEMMA RotateKeyInv ==
    ASSUME Inv, NEW c \in Clients, RotateKey(c)
    PROVE  Inv'
<1> DEFINE r == call[c].req
<1>1. /\ call[c].phase = "locked" /\ r.op = "RotateKey" /\ r \in Requests
      /\ Indexed(DOMAIN keys) /\ r.hash \in Hashes
  BY Alone, RequestFacts DEF RotateKey, Running, Held
<1>2. CASE r.id \in DOMAIN keys /\ (r.hash \in DOMAIN hashIndex => hashIndex[r.hash] = r.id)
  <2>1. /\ hashIndex' = Without(hashIndex, keys[r.id].hash)
        /\ Move(c, "unindexed", "nil", Nil) /\ UNCHANGED <<workspaces, apis, keys, updatedAt>>
    BY <1>2 DEF RotateKey
  <2>2. /\ DOMAIN hashIndex' = DOMAIN hashIndex \ {keys[r.id].hash}
        /\ \A h \in DOMAIN hashIndex' : hashIndex'[h] = hashIndex[h]
        /\ hashIndex' \in [DOMAIN hashIndex' -> KeyIDs]
    BY <2>1 DEF Without, Inv, TypeOK
  <2>3. TypeOK' /\ ClockOK'  BY <2>1, <2>2 DEF Inv, TypeOK, ClockOK, Move
  <2>4. Contract!Response("nil", Nil) \in Res  BY ResFacts, ValFacts DEF Errs
  <2>5. call'[c].req = r /\ call'[c].phase = "unindexed"
    BY <2>1, <2>4, MoveCall DEF Move, Inv, Phases, Held
  <2>6. Partly(c)'
    <3>1. \A i \in DOMAIN keys \ {r.id} : keys[i].hash # keys[r.id].hash /\ keys[i].hash # r.hash
      BY <1>1, <1>2 DEF Indexed
    <3>2. Indexed(DOMAIN keys \ {r.id})'
      BY <1>1, <1>2, <2>1, <2>2, <2>5, <3>1 DEF Indexed
    <3>3. NewHash(r)' = r.hash  BY <1>1, <2>5 DEF NewHash
    <3> QED  BY <1>1, <1>2, <2>1, <2>5, <3>1, <3>2, <3>3 DEF Partly
  <2> QED
    BY <1>1, <2>1, <2>3, <2>4, <2>6, BodyInv DEF Move, Contract!NoResponse
<1>3. CASE ~(r.id \in DOMAIN keys /\ (r.hash \in DOMAIN hashIndex => hashIndex[r.hash] = r.id))
  BY <1>1, <1>3, ReadInv, ValFacts DEF RotateKey, tables, Errs
<1> QED  BY <1>2, <1>3

LEMMA RotateWriteInv ==
    ASSUME Inv, NEW c \in Clients, RotateWrite(c)
    PROVE  Inv'
<1> DEFINE r == call[c].req
<1>1. call[c].phase = "unindexed" /\ Partly(c)  BY DEF RotateWrite, Inv, IndexOK, Between
<1>2. /\ r.op = "RotateKey" /\ NewHash(r) = r.hash /\ r.id \in DOMAIN keys /\ r.hash \in Hashes
  BY <1>1 DEF Partly, NewHash
<1> DEFINE k == [keys[r.id] EXCEPT !.hash = r.hash]
<1>3. k \in Key /\ k.hash = r.hash
  <2>1. keys[r.id] \in Key  BY <1>2 DEF Inv, TypeOK
  <2> QED  BY <1>2, <2>1, KeyFacts
<1>4. /\ keys' = [keys EXCEPT ![r.id] = k] /\ updatedAt' = [updatedAt EXCEPT ![r.id] = now]
      /\ Move(c, "written", "nil", k)
  BY DEF RotateWrite
<1> HIDE DEF k
<1>5. /\ DOMAIN keys' = DOMAIN keys /\ keys' \in [DOMAIN keys' -> Key]
      /\ keys'[r.id].hash = r.hash
      /\ \A i \in DOMAIN keys \ {r.id} : keys'[i] = keys[i]
  BY <1>2, <1>3, <1>4 DEF Inv, TypeOK
<1>6. UNCHANGED <<workspaces, apis, hashIndex, mu, now>>
  BY DEF RotateWrite, Move
<1>7. /\ updatedAt' \in [DOMAIN keys' -> Time] /\ now \in Nat
      /\ \A i \in DOMAIN keys : updatedAt'[i] = updatedAt[i] \/ updatedAt'[i] = now
  BY <1>4, <1>5 DEF Inv, TypeOK, Time
<1>8. TypeOK'  BY <1>5, <1>6, <1>7 DEF Inv, TypeOK
<1>9. ClockOK'  BY <1>5, <1>6, <1>7 DEF Inv, ClockOK
<1>10. Contract!Response("nil", k) \in Res /\ Contract!Response("nil", k).err = "nil"
  BY <1>3, ResFacts, ValFacts DEF Errs
<1>11. call'[c].req = r /\ call'[c].phase = "written"
  BY <1>4, <1>10, MoveCall DEF Move, Inv, Phases, Held
<1>12. Partly(c)'
  <2>1. Indexed(DOMAIN keys \ {r.id})'
    BY <1>1, <1>5, <1>6, <1>11 DEF Indexed, Partly
  <2>2. NewHash(r)' = r.hash  BY <1>2, <1>11 DEF NewHash
  <2> QED  BY <1>1, <1>2, <1>5, <1>11, <2>1, <2>2 DEF Partly
<1> QED
  BY <1>1, <1>4, <1>5, <1>6, <1>8, <1>9, <1>10, <1>12, BodyInv DEF Move

LEMMA IndexInv ==
    ASSUME Inv, NEW c \in Clients, Index(c)
    PROVE  Inv'
<1> DEFINE r == call[c].req  h == NewHash(r)
<1>1. call[c].phase = "written" /\ Partly(c)  BY DEF Index, Inv, IndexOK, Between
<1>2. /\ hashIndex' = Put(hashIndex, h, r.id)
      /\ Move(c, "applied", "nil", call[c].res.val)
      /\ UNCHANGED <<workspaces, apis, keys, updatedAt, now>>
  BY DEF Index, Move, NewHash
<1>3. r.id \in DOMAIN keys /\ keys[r.id].hash = h /\ h \in Hashes  BY <1>1 DEF Partly
<1> HIDE DEF h
<1>4. /\ DOMAIN hashIndex' = DOMAIN hashIndex \cup {h} /\ hashIndex'[h] = r.id
      /\ \A g \in DOMAIN hashIndex \ {h} : hashIndex'[g] = hashIndex[g]
      /\ hashIndex' \in [DOMAIN hashIndex' -> KeyIDs]
  BY <1>2, <1>3 DEF Put, Inv, TypeOK
<1>5. TypeOK' /\ ClockOK'  BY <1>2, <1>3, <1>4 DEF Inv, TypeOK, ClockOK, Move
<1>6. Indexed(DOMAIN keys)'
  BY <1>1, <1>2, <1>3, <1>4 DEF Partly, Indexed, h
<1>7. call[c].res.val \in Vals  BY DEF Inv, CallType, Call, Res
<1>8. Contract!Response("nil", call[c].res.val) \in Res  BY <1>7, ResFacts DEF Errs
<1> QED  BY <1>1, <1>2, <1>5, <1>6, <1>8, BodyInv DEF Move

LEMMA LockInv ==
    ASSUME Inv, NEW c \in Clients, Lock(c)
    PROVE  Inv'
<1> DEFINE s == [call[c] EXCEPT !.phase = "locked"]
<1>1. /\ s \in Call /\ s.phase = "locked" /\ s.req = call[c].req /\ s.res = call[c].res
  BY DEF Inv, CallType, Call, Phases, Held
<1>2. call' = [call EXCEPT ![c] = s]  BY DEF Lock, Inv, CallType
<1> HIDE DEF s
<1>3. /\ CallType' /\ call'[c] = s /\ \A d \in Clients \ {c} : call'[d] = call[d]
  BY <1>1, <1>2 DEF Inv, CallType
<1>4. /\ call[c].phase = "called" /\ mu = Nil /\ mu' = c
      /\ UNCHANGED <<workspaces, apis, keys, updatedAt, hashIndex, now>>
  BY DEF Lock, tables
<1>5. \A d \in Clients : call[d].phase \notin Held
  BY <1>4, ClientsAssumption DEF Inv, CallOK
<1>6. TypeOK' /\ ClockOK'  BY <1>4 DEF Inv, TypeOK, ClockOK
<1>7. \A d \in Clients : CallOK(d)'
  BY <1>1, <1>3, <1>4, <1>5 DEF Inv, CallOK, Held
<1>8. IndexOK'
  BY <1>1, <1>3, <1>4, <1>5 DEF Inv, IndexOK, Between, Indexed, Held
<1>9. Fresh'
  <2>1. \A d \in Clients : /\ Creating(d)' <=> Creating(d)
                           /\ call'[d].req = call[d].req
                           /\ call'[d].phase \in {"called", "locked"} <=>
                                 call[d].phase \in {"called", "locked"}
    BY <1>1, <1>3, <1>4 DEF Creating
  <2> QED  BY <1>4, <2>1 DEF Inv, Fresh
<1> QED  BY <1>3, <1>6, <1>7, <1>8, <1>9 DEF Inv

LEMMA UnlockInv ==
    ASSUME Inv, NEW c \in Clients, Unlock(c)
    PROVE  Inv'
<1>1. /\ Contract!NotCalled \in Call /\ Contract!NotCalled.phase = "idle"
      /\ Contract!NotCalled.res = Contract!NoResponse
  BY ResFacts, ValFacts DEF Contract!NotCalled, Call, Phases, Errs, Contract!NoResponse
<1>2. /\ CallType' /\ call'[c] = Contract!NotCalled
      /\ \A d \in Clients \ {c} : call'[d] = call[d]
  BY <1>1 DEF Unlock, Inv, CallType
<1>3. /\ call[c].phase = "applied" /\ mu' = Nil
      /\ UNCHANGED <<workspaces, apis, keys, updatedAt, hashIndex, now>>
  BY DEF Unlock, tables
<1>4. /\ mu = c /\ Indexed(DOMAIN keys)
      /\ \A d \in Clients \ {c} : call[d].phase \notin Held
  BY <1>3, Alone DEF Held
<1>5. TypeOK' /\ ClockOK'  BY <1>3 DEF Inv, TypeOK, ClockOK
<1>6. \A d \in Clients : CallOK(d)'
  BY <1>1, <1>2, <1>3, <1>4, ClientsAssumption DEF Inv, CallOK, Held
<1>7. IndexOK'
  BY <1>1, <1>2, <1>3, <1>4 DEF IndexOK, Between, Indexed, Held
<1>8. Fresh'
  <2>1. \A d \in Clients : /\ Creating(d)' => Creating(d) /\ d # c
                           /\ d # c => call'[d] = call[d]
    BY <1>1, <1>2 DEF Creating
  <2> QED  BY <1>3, <2>1 DEF Inv, Fresh
<1> QED  BY <1>2, <1>5, <1>6, <1>7, <1>8 DEF Inv

\* A call as the contract sees it.
Seen(s) == [s EXCEPT !.phase = Phase(@)]

LEMMA SeenFacts ==
    ASSUME NEW s \in Call
    PROVE  /\ Seen(s).phase = Phase(s.phase) /\ Seen(s).req = s.req /\ Seen(s).res = s.res
           /\ Seen(s).phase = "idle" <=> s.phase = "idle"
BY DEF Seen, Call, Phase, Phases, Held

LEMMA CallableFacts ==
    ASSUME CallType, NEW r \in Requests, Contract!Callable(r), r.op = "CreateKey"
    PROVE  /\ r.id \notin DOMAIN keys
           /\ \A d \in Clients : Creating(d) => call[d].req.id # r.id
<1>1. \A d \in Clients : call[d] \in Call  BY DEF CallType
<1>2. ASSUME NEW d \in Clients, Seen(call[d]).phase # "idle", Seen(call[d]).req.op = r.op
      PROVE  Seen(call[d]).req.id # r.id
  BY <1>2 DEF Contract!Callable, Seen
<1> QED  BY <1>1, <1>2, SeenFacts DEF Contract!Callable, Creating

\* Nobody between two writes moves, and nothing is written.
LEMMA IndexSame ==
    ASSUME IndexOK, UNCHANGED <<keys, hashIndex>>,
           \A d \in Clients : Between(d)' <=> Between(d),
           \A d \in Clients : Between(d) => call'[d] = call[d]
    PROVE  IndexOK'
<1>2. Indexed(DOMAIN keys) => Indexed(DOMAIN keys)'  BY DEF Indexed
<1>3. ASSUME NEW d \in Clients, Between(d)' PROVE Partly(d)'
  <2>1. Partly(d) /\ call'[d] = call[d]  BY <1>3 DEF IndexOK
  <2>2. NewHash(call[d].req)' = NewHash(call[d].req)  BY <2>1 DEF NewHash
  <2>3. Indexed(DOMAIN keys \ {call[d].req.id})'
    BY <2>1 DEF Partly, Indexed
  <2> QED  BY <2>1, <2>2, <2>3 DEF Partly
<1> QED  BY <1>2, <1>3 DEF IndexOK

LEMMA InvokeInv ==
    ASSUME Inv, NEW c \in Clients, Invoke(c)
    PROVE  Inv'
<1>1. PICK r \in Requests : /\ Contract!Callable(r)
                            /\ call' = [call EXCEPT ![c].phase = "called", ![c].req = r]
  BY DEF Invoke
<1> DEFINE s == [call[c] EXCEPT !.phase = "called", !.req = r]
<1>2. s \in Call /\ s.phase = "called" /\ s.req = r /\ s.res = call[c].res
  BY DEF Inv, CallType, Call, Phases, Held
<1>3. call' = [call EXCEPT ![c] = s]  BY <1>1 DEF Inv, CallType
<1> HIDE DEF s
<1>4. /\ CallType' /\ call'[c] = s /\ \A d \in Clients \ {c} : call'[d] = call[d]
  BY <1>2, <1>3 DEF Inv, CallType
<1>5. /\ call[c].phase = "idle"
      /\ UNCHANGED <<workspaces, apis, keys, updatedAt, hashIndex, mu, now>>
  BY DEF Invoke, tables
<1>6. TypeOK' /\ ClockOK'  BY <1>5 DEF Inv, TypeOK, ClockOK
<1>7. \A d \in Clients : CallOK(d)'
  BY <1>2, <1>4, <1>5 DEF Inv, CallOK, Held
<1>8. IndexOK'
  <2>1. \A d \in Clients : Between(d)' => Between(d) /\ call'[d] = call[d]
    BY <1>2, <1>4 DEF Between
  <2>2. \A d \in Clients : Between(d) => Between(d)'
    BY <1>4, <1>5 DEF Between
  <2> QED  BY <1>5, <2>1, <2>2, IndexSame DEF Inv
<1>9. Fresh'
  <2>1. \A d \in Clients \ {c} : Creating(d)' <=> Creating(d)  BY <1>4 DEF Creating
  <2>2. Creating(c)' => r.op = "CreateKey" /\ call'[c].req = r
    BY <1>2, <1>4 DEF Creating
  <2>3. Creating(c)' => /\ r.id \notin DOMAIN keys
                        /\ \A d \in Clients : Creating(d) => call[d].req.id # r.id
    BY <1>1, <2>2, CallableFacts DEF Inv
  <2>4. ASSUME NEW d \in Clients, Creating(d)', call'[d].phase \in {"called", "locked"}
        PROVE  call'[d].req.id \notin DOMAIN keys'
    BY <1>4, <1>5, <2>1, <2>2, <2>3, <2>4 DEF Inv, Fresh
  <2>5. ASSUME NEW a \in Clients, NEW b \in Clients, a # b, Creating(a)', Creating(b)'
        PROVE  call'[a].req.id # call'[b].req.id
    BY <1>4, <2>1, <2>2, <2>3, <2>5 DEF Inv, Fresh
  <2> QED  BY <2>4, <2>5 DEF Fresh
<1> QED  BY <1>4, <1>6, <1>7, <1>8, <1>9 DEF Inv

LEMMA InvInit == Init => Inv
<1> SUFFICES ASSUME Init PROVE Inv  OBVIOUS
<1>1. /\ Contract!NotCalled \in Call /\ Contract!NotCalled.phase = "idle"
      /\ Contract!NotCalled.res = Contract!NoResponse
  BY ResFacts, ValFacts DEF Contract!NotCalled, Call, Phases, Errs, Contract!NoResponse
<1>2. CallType /\ \A c \in Clients : call[c] = Contract!NotCalled
  BY <1>1 DEF Init, CallType
<1>3. TypeOK /\ ClockOK  BY DEF Init, TypeOK, ClockOK, EmptyTable, Time
<1>4. \A c \in Clients : CallOK(c)
  BY <1>1, <1>2, ClientsAssumption DEF Init, CallOK, Held
<1>5. IndexOK  BY <1>1, <1>2 DEF Init, IndexOK, Between, Indexed, EmptyTable
<1>6. Fresh  BY <1>1, <1>2 DEF Fresh, Creating
<1> QED  BY <1>2, <1>3, <1>4, <1>5, <1>6 DEF Inv

LEMMA TickInv == ASSUME Inv, Tick PROVE Inv'
<1>1. UNCHANGED <<workspaces, apis, keys, updatedAt, hashIndex, mu, call>> /\ now' = now + 1
  BY DEF Tick, tables
<1>2. TypeOK' /\ ClockOK'  BY <1>1 DEF Inv, TypeOK, ClockOK, Time
<1>3. CallType' /\ \A c \in Clients : CallOK(c)'  BY <1>1 DEF Inv, CallType, CallOK
<1>4. IndexOK'  BY <1>1, IndexSame DEF Inv, Between
<1>5. Fresh'  BY <1>1 DEF Inv, Fresh, Creating
<1> QED  BY <1>2, <1>3, <1>4, <1>5 DEF Inv

LEMMA InvStep == Inv /\ [Next]_vars => Inv'
<1> SUFFICES ASSUME Inv, [Next]_vars PROVE Inv'  OBVIOUS
<1>1. ASSUME NEW c \in Clients, Step(c) PROVE Inv'
  BY <1>1, LockInv, UnlockInv, TableInv, CreateKeyInv, IndexInv, RotateKeyInv,
     RotateWriteInv, KeyInv DEF Step
<1>2. CASE UNCHANGED vars
  <2>1. TypeOK' /\ ClockOK'  BY <1>2 DEF vars, Inv, TypeOK, ClockOK
  <2>2. CallType' /\ \A c \in Clients : CallOK(c)'  BY <1>2 DEF vars, Inv, CallType, CallOK
  <2>3. IndexOK'  BY <1>2, IndexSame DEF vars, Inv, Between
  <2>4. Fresh'  BY <1>2 DEF vars, Inv, Fresh, Creating
  <2> QED  BY <2>1, <2>2, <2>3, <2>4 DEF Inv
<1> QED  BY <1>1, <1>2, InvokeInv, TickInv DEF Next

LEMMA Safe == Spec => []Inv
BY InvInit, InvStep, PTL DEF Spec

-----------------------------------------------------------------------------
(* What it means.                                                           *)

\* Whenever no method holds the mutex, byHash finds exactly the stored keys
\* under the hashes they have now: CreateKey and RotateKey, which write the
\* two maps one after the other, leave no trace of the state in between.
THEOREM IndexMirrors == Spec => []IndexMirrorsKeys
<1>1. Inv => IndexMirrorsKeys
  <2> SUFFICES ASSUME Inv, mu = Nil PROVE Indexed(DOMAIN keys)
    BY DEF IndexMirrorsKeys, Indexed
  <2>1. \A c \in Clients : ~Between(c)
    BY ClientsAssumption DEF Inv, CallOK, Between, Held
  <2> QED  BY <2>1 DEF Inv, IndexOK
<1> QED  BY <1>1, Safe, PTL

\* UpdatedAt never goes back: whatever is written is the clock as it is under
\* the mutex, and no key's is ahead of it.
THEOREM ClockForward == Spec => UpdatedAtForward
<1>1. ASSUME Inv, Next, NEW id \in DOMAIN keys PROVE updatedAt'[id] >= updatedAt[id]
  <2>1. /\ updatedAt \in [DOMAIN keys -> Nat] /\ now \in Nat
        /\ updatedAt[id] \in Nat /\ updatedAt[id] <= now
    BY <1>1 DEF Inv, TypeOK, ClockOK, Time
  <2>2. \/ updatedAt' = updatedAt
        \/ \E i : updatedAt' = [updatedAt EXCEPT ![i] = now] \/ updatedAt' = Put(updatedAt, i, now)
    BY <1>1 DEF Next, Step, Invoke, Tick, Lock, Unlock, CreateWorkspace, CreateAPI, CreateKey,
                Index, RotateKey, RotateWrite, RevokeKey, TouchLastVerified,
                DecrementRemainingUses, GetWorkspace, GetAPI, GetKeyByID, GetKeyByHash,
                ListKeys, tables
  <2>3. updatedAt'[id] = updatedAt[id] \/ updatedAt'[id] = now
    BY <2>1, <2>2 DEF Put
  <2> QED  BY <2>1, <2>3
<1>2. Inv /\ [Next]_vars => [\A id \in DOMAIN keys : updatedAt'[id] >= updatedAt[id]]_vars
  BY <1>1
<1> QED  BY <1>2, Safe, PTL DEF Spec, UpdatedAtForward

-----------------------------------------------------------------------------
(* The refinement of the contract, step by step.                            *)

\* The contract's calls.
Calls == [c \in Clients |-> [call[c] EXCEPT !.phase = Phase(@)]]

LEMMA CallsFacts ==
    ASSUME CallType, NEW c \in Clients
    PROVE  /\ Calls[c] = Seen(call[c])
           /\ Calls[c].phase = Phase(call[c].phase)
           /\ Calls[c].req = call[c].req /\ Calls[c].res = call[c].res
<1>1. call[c] \in Call  BY DEF CallType
<1>2. Calls[c] = Seen(call[c])  BY DEF Calls, Seen
<1> QED  BY <1>1, <1>2, SeenFacts

\* A step that the contract sees as the end of the call's effect ...
LEMMA Answers ==
    ASSUME CallType, NEW c \in Clients, NEW ph \in {"written", "applied"}, NEW rs \in Res,
           call' = [call EXCEPT ![c].phase = ph, ![c].res = rs]
    PROVE  Calls' = [Calls EXCEPT ![c].phase = "applied", ![c].res = rs]
<1>1. \A d \in Clients : call[d] \in Call  BY DEF CallType
<1>2. ASSUME NEW s \in Call
      PROVE  Seen([s EXCEPT !.phase = ph, !.res = rs])
                = [Seen(s) EXCEPT !.phase = "applied", !.res = rs]
  BY DEF Seen, Call, Phase
<1>3. call'[c] = [call[c] EXCEPT !.phase = ph, !.res = rs]  BY DEF CallType
<1>4. \A d \in Clients \ {c} : call'[d] = call[d]  BY DEF CallType
<1>5. \A d \in Clients : Calls[d] = Seen(call[d]) /\ Calls'[d] = Seen(call'[d])
  BY DEF Calls, Seen
<1>6. Calls'[c] = [Calls[c] EXCEPT !.phase = "applied", !.res = rs]
  BY <1>1, <1>2, <1>3, <1>5
<1>7. \A d \in Clients \ {c} : Calls'[d] = Calls[d]  BY <1>4, <1>5
<1> QED  BY <1>6, <1>7 DEF Calls

\* ... and one that it does not see.
LEMMA Unseen ==
    ASSUME CallType, NEW c \in Clients, NEW s \in Call, call' = [call EXCEPT ![c] = s],
           Phase(s.phase) = Phase(call[c].phase), s.req = call[c].req, s.res = call[c].res
    PROVE  Calls' = Calls
<1>1. \A d \in Clients : call'[d] = IF d = c THEN s ELSE call[d]  BY DEF CallType
<1>2. call[c] \in Call  BY DEF CallType
<1>3. Seen(s) = Seen(call[c])  BY <1>2 DEF Seen, Call
<1>4. \A d \in Clients : Calls[d] = Seen(call[d]) /\ Calls'[d] = Seen(call'[d])
  BY DEF Calls, Seen
<1> QED  BY <1>1, <1>3, <1>4 DEF Calls

LEMMA Answered ==
    ASSUME CallType, NEW c \in Clients, NEW ph \in {"written", "applied"},
           NEW e \in Errs, NEW v \in Vals, Move(c, ph, e, v)
    PROVE  Contract!Answered(c, e, v)
<1>1. Contract!Response(e, v) \in Res  BY ResFacts
<1>2. Calls' = [Calls EXCEPT ![c].phase = "applied", ![c].res = Contract!Response(e, v)]
  BY <1>1, Answers DEF Move
<1> QED  BY <1>2 DEF Contract!Answered, Calls

\* What a write to the keys does and reports is what the contract says.
LEMMA Writes ==
    ASSUME CallType, NEW c \in Clients, call[c].phase \in {"locked", "unindexed"},
           NEW ph \in {"written", "applied"}, NEW e \in Errs, NEW v \in Vals,
           Move(c, ph, e, v), call[c].req.op \in Contract!KeyWrites,
           Contract!KeyWrite(apis, keys, call[c].req).table = keys',
           Contract!KeyWrite(apis, keys, call[c].req).err = e,
           Contract!Returned(call[c].req, Contract!KeyWrite(apis, keys, call[c].req)) = v,
           UNCHANGED <<workspaces, apis>>
    PROVE  Contract!Next
<1> DEFINE W == Contract!KeyWrite(apis, keys, Calls[c].req)
<1>1. Calls[c].phase = "called" /\ Calls[c].req = call[c].req  BY CallsFacts DEF Phase
<1>2. Contract!Answered(c, e, v)  BY Answered
<1>3. /\ keys' = W.table /\ Calls[c].req.op \in Contract!KeyWrites
      /\ Contract!Answered(c, W.err, Contract!Returned(Calls[c].req, W))
  <2>1. W = Contract!KeyWrite(apis, keys, call[c].req)  BY <1>1
  <2> HIDE DEF W
  <2>2. W.table = keys' /\ W.err = e /\ Contract!Returned(Calls[c].req, W) = v
    BY <1>1, <2>1
  <2> QED  BY <1>1, <1>2, <2>2 DEF Contract!Answered
<1>4. Contract!Apply(c)  BY <1>1, <1>3, Zenon DEF Contract!Apply, Calls
<1> QED  BY <1>4 DEF Contract!Next

\* Most writes, and every refused one, return nothing but their error.
LEMMA ReturnsNothing ==
    ASSUME NEW r, NEW res,
           res.err # "nil" \/ r.op \notin {"RotateKey", "DecrementRemainingUses"}
    PROVE  Contract!Returned(r, res) = Nil
BY DEF Contract!Returned

\* What a read reports is what the contract says.
LEMMA Reads ==
    ASSUME CallType, NEW c \in Clients, call[c].phase = "locked",
           call[c].req.op \in Contract!Reads, UNCHANGED <<workspaces, apis, keys>>,
           \/ /\ Contract!Found(workspaces, apis, keys, call[c].req) = {}
              /\ Move(c, "applied", "ErrNotFound", Nil)
           \/ \E v \in Vals : /\ v \in Contract!Found(workspaces, apis, keys, call[c].req)
                             /\ Move(c, "applied", "nil", v)
    PROVE  Contract!Next
<1> DEFINE F == Contract!Found(workspaces, apis, keys, Calls[c].req)
<1>1. Calls[c].phase = "called" /\ Calls[c].req = call[c].req  BY CallsFacts DEF Phase
<1>2. \/ F = {} /\ Contract!Answered(c, "ErrNotFound", Nil)
      \/ \E v \in F : Contract!Answered(c, "nil", v)
  BY <1>1, Answered, ValFacts DEF Errs
<1>3. Calls[c].req.op \in Contract!Reads  BY <1>1
<1>4. Contract!Apply(c)  BY <1>1, <1>2, <1>3, Zenon DEF Contract!Apply, Calls
<1> QED  BY <1>4 DEF Contract!Next

LEMMA InvokeRefines ==
    ASSUME Inv, NEW c \in Clients, Invoke(c)
    PROVE  Contract!Next
<1>1. CallType /\ \A d \in Clients : call[d] \in Call  BY DEF Inv, CallType
<1>2. PICK r \in Requests : /\ Contract!Callable(r)
                            /\ call' = [call EXCEPT ![c].phase = "called", ![c].req = r]
  BY DEF Invoke
<1>3. Calls[c].phase = "idle"  BY <1>1, CallsFacts DEF Invoke, Phase
<1>4. ASSUME NEW s \in Call
      PROVE  Seen([s EXCEPT !.phase = "called", !.req = r])
                = [Seen(s) EXCEPT !.phase = "called", !.req = r]
  BY DEF Seen, Call, Phase
<1>5. call'[c] = [call[c] EXCEPT !.phase = "called", !.req = r]
  BY <1>1, <1>2 DEF CallType
<1>6. \A d \in Clients \ {c} : call'[d] = call[d]  BY <1>1, <1>2 DEF CallType
<1>7. \A d \in Clients : Calls[d] = Seen(call[d]) /\ Calls'[d] = Seen(call'[d])
  BY DEF Calls, Seen
<1>8. Calls'[c] = [Calls[c] EXCEPT !.phase = "called", !.req = r]
  BY <1>1, <1>4, <1>5, <1>7
<1>9. \A d \in Clients \ {c} : Calls'[d] = Calls[d]  BY <1>6, <1>7
<1>10. Calls' = [Calls EXCEPT ![c].phase = "called", ![c].req = r]  BY <1>8, <1>9 DEF Calls
<1>11. UNCHANGED <<workspaces, apis, keys>>  BY DEF Invoke, tables
<1>12. Contract!Invoke(c)  BY <1>2, <1>3, <1>10, <1>11 DEF Contract!Invoke, Calls
<1> QED  BY <1>12 DEF Contract!Next

LEMMA UnlockRefines ==
    ASSUME Inv, NEW c \in Clients, Unlock(c)
    PROVE  Contract!Next
<1>1. CallType  BY DEF Inv
<1>2. Calls[c].phase = "applied"  BY <1>1, CallsFacts DEF Unlock, Phase
<1>3. Seen(Contract!NotCalled) = Contract!NotCalled
  BY DEF Seen, Contract!NotCalled, Phase
<1>4. call'[c] = Contract!NotCalled /\ \A d \in Clients \ {c} : call'[d] = call[d]
  BY <1>1 DEF Unlock, CallType
<1>5. \A d \in Clients : Calls[d] = Seen(call[d]) /\ Calls'[d] = Seen(call'[d])
  BY DEF Calls, Seen
<1>6. Calls' = [Calls EXCEPT ![c] = Contract!NotCalled]  BY <1>3, <1>4, <1>5 DEF Calls
<1>7. Contract!Return(c)  BY <1>2, <1>6 DEF Contract!Return, Calls, Unlock, tables
<1> QED  BY <1>7 DEF Contract!Next

\* Taking the mutex, and writing the index, are not seen.
LEMMA LockIndexRefine ==
    ASSUME Inv, NEW c \in Clients, Lock(c) \/ Index(c)
    PROVE  UNCHANGED Contract!contractVars
<1>1. CallType /\ call[c] \in Call  BY DEF Inv, CallType
<1>2. CASE Lock(c)
  <2> DEFINE s == [call[c] EXCEPT !.phase = "locked"]
  <2>1. /\ s \in Call /\ s.phase = "locked" /\ s.req = call[c].req /\ s.res = call[c].res
    BY <1>1 DEF Call, Phases, Held
  <2>2. call' = [call EXCEPT ![c] = s] /\ call[c].phase = "called"
    BY <1>1, <1>2 DEF Lock, CallType
  <2> HIDE DEF s
  <2>3. Phase(s.phase) = Phase(call[c].phase)  BY <2>1, <2>2 DEF Phase
  <2>4. Calls' = Calls  BY <1>1, <2>1, <2>2, <2>3, Unseen
  <2> QED  BY <1>2, <2>4 DEF Lock, tables, Contract!contractVars, Calls
<1>3. CASE Index(c)
  <2> DEFINE s == [call[c] EXCEPT !.phase = "applied", !.res = call[c].res]
  <2>1. call[c].phase = "written" /\ call[c].res.err = "nil" /\ call[c].res \in Res
    BY <1>1, <1>3 DEF Index, Inv, CallOK, Call
  <2>2. Contract!Response("nil", call[c].res.val) = call[c].res
    BY <2>1 DEF Contract!Response, Res
  <2>3. /\ s \in Call /\ s.phase = "applied" /\ s.req = call[c].req /\ s.res = call[c].res
    BY <1>1, <2>1 DEF Call, Phases, Held
  <2>4. call' = [call EXCEPT ![c] = s]
    BY <1>1, <1>3, <2>2 DEF Index, Move, CallType
  <2> HIDE DEF s
  <2>5. Phase(s.phase) = Phase(call[c].phase)  BY <2>1, <2>3 DEF Phase
  <2>6. Calls' = Calls  BY <1>1, <2>3, <2>4, <2>5, Unseen
  <2> QED  BY <1>3, <2>6 DEF Index, Contract!contractVars, Calls
<1> QED  BY <1>2, <1>3

\* The methods that write keys: the mutex and the index make one step of what
\* the contract says in one.
LEMMA WritesRefine ==
    ASSUME Inv, NEW c \in Clients,
           CreateKey(c) \/ RevokeKey(c) \/ TouchLastVerified(c) \/ DecrementRemainingUses(c)
    PROVE  Contract!Next
<1> DEFINE r == call[c].req  W == Contract!KeyWrite(apis, keys, r)
<1>1. /\ CallType /\ call[c].phase = "locked" /\ r \in Requests /\ Indexed(DOMAIN keys)
      /\ r.op \in Contract!KeyWrites /\ UNCHANGED <<workspaces, apis>>
  BY Alone
  DEF CreateKey, RevokeKey, TouchLastVerified, DecrementRemainingUses, Running, Held, Inv,
      Contract!KeyWrites
<1>2. ASSUME NEW ph \in {"written", "applied"}, NEW e \in Errs, Move(c, ph, e, Nil),
             W.table = keys', W.err = e, e # "nil" \/ r.op # "DecrementRemainingUses"
      PROVE  Contract!Next
  <2>1. r.op # "RotateKey"
    BY DEF CreateKey, RevokeKey, TouchLastVerified, DecrementRemainingUses, Running
  <2>2. Contract!Returned(r, W) = Nil
    <3> HIDE DEF W
    <3> QED  BY <1>2, <2>1, ReturnsNothing
  <2> QED  BY <1>1, <1>2, <2>2, Writes, ValFacts
<1>3. {"nil", "ErrNotFound", "ErrConflict", "ErrDepleted"} \subseteq Errs  BY DEF Errs
<1>4. \A id \in DOMAIN keys : keys[id] \in Key  BY DEF Inv, TypeOK
<1>5. CASE CreateKey(c)
  <2>1. r.op = "CreateKey"  BY <1>5 DEF CreateKey, Running
  <2>2. W = Contract!CreateKeyResult(apis, keys, r.id, r.row)
    BY <2>1 DEF Contract!KeyWrite
  <2>3. Contract!KeysWithHash(keys, r.row.hash) # {} <=> r.row.hash \in DOMAIN hashIndex
    BY <1>1 DEF Contract!KeysWithHash, Indexed
  <2>4. Contract!Put(keys, r.id, r.row) = Put(keys, r.id, r.row)  BY DEF Contract!Put, Put
  <2> HIDE DEF W
  <2>5. CASE r.row.api \notin DOMAIN apis
    <3>1. keys' = keys /\ Move(c, "applied", "ErrNotFound", Nil)
      BY <1>5, <2>5 DEF CreateKey
    <3>2. W.table = keys /\ W.err = "ErrNotFound"
      BY <2>2, <2>5 DEF Contract!CreateKeyResult, Contract!Result
    <3> QED  BY <1>2, <1>3, <3>1, <3>2
  <2>6. CASE r.row.api \in DOMAIN apis /\ r.row.hash \in DOMAIN hashIndex
    <3>1. keys' = keys /\ Move(c, "applied", "ErrConflict", Nil)
      BY <1>5, <2>6 DEF CreateKey
    <3>2. W.table = keys /\ W.err = "ErrConflict"
      BY <2>2, <2>3, <2>6 DEF Contract!CreateKeyResult, Contract!Result
    <3> QED  BY <1>2, <1>3, <3>1, <3>2
  <2>7. CASE r.row.api \in DOMAIN apis /\ r.row.hash \notin DOMAIN hashIndex
    <3>1. keys' = Put(keys, r.id, r.row) /\ Move(c, "written", "nil", Nil)
      BY <1>5, <2>7 DEF CreateKey
    <3>2. W.table = Put(keys, r.id, r.row) /\ W.err = "nil"
      BY <2>2, <2>3, <2>4, <2>7 DEF Contract!CreateKeyResult, Contract!Result
    <3> QED  BY <1>2, <1>3, <2>1, <3>1, <3>2
  <2> QED  BY <2>5, <2>6, <2>7
<1>6. CASE RevokeKey(c)
  <2>1. r.op = "RevokeKey"  BY <1>6 DEF RevokeKey, Running
  <2>2. W = Contract!RevokeKeyResult(keys, r.id)  BY <2>1 DEF Contract!KeyWrite
  <2> HIDE DEF W
  <2>3. CASE r.id \notin DOMAIN keys
    <3>1. keys' = keys /\ Move(c, "applied", "ErrNotFound", Nil)
      BY <1>6, <2>3 DEF RevokeKey
    <3>2. W.table = keys /\ W.err = "ErrNotFound"
      BY <2>2, <2>3 DEF Contract!RevokeKeyResult, Contract!Result
    <3> QED  BY <1>2, <1>3, <3>1, <3>2
  <2>4. CASE r.id \in DOMAIN keys
    <3>1. Move(c, "applied", "nil", Nil)  BY <1>6, <2>4 DEF RevokeKey
    <3>2. keys' = [keys EXCEPT ![r.id].enabled = FALSE]
      \* Of a key that is revoked already this changes nothing.
      <4>1. CASE keys[r.id].enabled  BY <1>6, <2>4, <4>1 DEF RevokeKey
      <4>2. CASE ~keys[r.id].enabled
        <5>1. keys' = keys /\ keys \in [DOMAIN keys -> Key]
          BY <1>6, <2>4, <4>2 DEF RevokeKey, Inv, TypeOK
        <5>2. keys[r.id].enabled = FALSE /\ keys[r.id] \in Key  BY <1>4, <2>4, <4>2 DEF Key
        <5>3. [keys[r.id] EXCEPT !.enabled = FALSE] = keys[r.id]  BY <5>2 DEF Key
        <5>4. [keys EXCEPT ![r.id] = keys[r.id]] = keys  BY <5>1
        <5> QED  BY <5>1, <5>3, <5>4
      <4> QED  BY <4>1, <4>2
    <3>3. W.table = [keys EXCEPT ![r.id].enabled = FALSE] /\ W.err = "nil"
      BY <2>2, <2>4 DEF Contract!RevokeKeyResult, Contract!Result
    <3> QED  BY <1>2, <1>3, <2>1, <3>1, <3>2, <3>3
  <2> QED  BY <2>3, <2>4
<1>7. CASE TouchLastVerified(c)
  <2>1. r.op = "TouchLastVerified"  BY <1>7 DEF TouchLastVerified, Running
  <2>2. W = Contract!TouchLastVerifiedResult(keys, r.id, r.at)
    BY <2>1 DEF Contract!KeyWrite
  <2> HIDE DEF W
  <2>3. CASE r.id \notin DOMAIN keys
    <3>1. keys' = keys /\ Move(c, "applied", "ErrNotFound", Nil)
      BY <1>7, <2>3 DEF TouchLastVerified
    <3>2. W.table = keys /\ W.err = "ErrNotFound"
      BY <2>2, <2>3 DEF Contract!TouchLastVerifiedResult, Contract!Result
    <3> QED  BY <1>2, <1>3, <3>1, <3>2
  <2>4. CASE r.id \in DOMAIN keys
    <3>1. /\ keys' = [keys EXCEPT ![r.id].lastVerifiedAt = r.at]
          /\ Move(c, "applied", "nil", Nil)
      BY <1>7, <2>4 DEF TouchLastVerified
    <3>2. W.table = [keys EXCEPT ![r.id].lastVerifiedAt = r.at] /\ W.err = "nil"
      BY <2>2, <2>4 DEF Contract!TouchLastVerifiedResult, Contract!Result
    <3> QED  BY <2>1, <1>2, <1>3, <3>1, <3>2
  <2> QED  BY <2>3, <2>4
<1>8. CASE DecrementRemainingUses(c)
  <2>1. r.op = "DecrementRemainingUses"  BY <1>8 DEF DecrementRemainingUses, Running
  <2>2. W = Contract!DecrementRemainingUsesResult(keys, r.id)
    BY <2>1 DEF Contract!KeyWrite
  <2> HIDE DEF W
  <2>3. CASE r.id \notin DOMAIN keys
    <3>1. keys' = keys /\ Move(c, "applied", "ErrNotFound", Nil)
      BY <1>8, <2>3 DEF DecrementRemainingUses
    <3>2. W.table = keys /\ W.err = "ErrNotFound"
      BY <2>2, <2>3 DEF Contract!DecrementRemainingUsesResult, Contract!Result
    <3> QED  BY <1>2, <1>3, <3>1, <3>2
  <2>4. ASSUME r.id \in DOMAIN keys, NEW v \in Int, Move(c, "applied", "nil", v),
               W.table = keys', W.err = "nil", W.table[r.id].remaining = v
        PROVE  Contract!Next
    <3>1. Contract!Returned(r, W) = v  BY <2>1, <2>4 DEF Contract!Returned
    <3> QED  BY <1>1, <1>3, <2>4, <3>1, Writes, ValFacts DEF W
  <2>5. ASSUME r.id \in DOMAIN keys PROVE keys[r.id].remaining \in Int
    BY <1>4, <2>5 DEF Key
  <2>6. CASE r.id \in DOMAIN keys /\ keys[r.id].remaining > 0
    <3>1. /\ keys' = [keys EXCEPT ![r.id].remaining = @ - 1]
          /\ Move(c, "applied", "nil", keys[r.id].remaining - 1)
          /\ keys[r.id].remaining - 1 \in Int
      BY <1>8, <2>5, <2>6 DEF DecrementRemainingUses
    <3>2. W.table = [keys EXCEPT ![r.id].remaining = @ - 1] /\ W.err = "nil"
      BY <2>2, <2>5, <2>6 DEF Contract!DecrementRemainingUsesResult, Contract!Result
    <3>3. keys'[r.id].remaining = keys[r.id].remaining - 1
      BY <1>4, <2>6, <3>1 DEF Key
    <3> QED  BY <2>4, <2>6, <3>1, <3>2, <3>3
  <2>7. CASE r.id \in DOMAIN keys /\ keys[r.id].remaining < 0
    <3>1. keys' = keys /\ Move(c, "applied", "nil", -1)
      BY <1>8, <2>5, <2>7 DEF DecrementRemainingUses
    <3>2. W.table = keys /\ W.err = "nil"
      BY <2>2, <2>5, <2>7 DEF Contract!DecrementRemainingUsesResult, Contract!Result
    <3>3. keys[r.id].remaining = -1  BY <1>4, <2>7 DEF Key
    <3> QED  BY <2>4, <2>7, <3>1, <3>2, <3>3
  <2>8. CASE r.id \in DOMAIN keys /\ keys[r.id].remaining = 0
    <3>1. keys' = keys /\ Move(c, "applied", "ErrDepleted", Nil)
      BY <1>8, <2>5, <2>8 DEF DecrementRemainingUses
    <3>2. W.table = keys /\ W.err = "ErrDepleted"
      BY <2>2, <2>5, <2>8 DEF Contract!DecrementRemainingUsesResult, Contract!Result
    <3> QED  BY <1>2, <1>3, <3>1, <3>2
  <2> QED  BY <2>3, <2>5, <2>6, <2>7, <2>8
<1> QED  BY <1>5, <1>6, <1>7, <1>8

\* A rotation takes effect when it writes the key; dropping the old hash
\* from the index before that is not seen.
LEMMA RotateRefines ==
    ASSUME Inv, NEW c \in Clients, RotateKey(c) \/ RotateWrite(c)
    PROVE  Contract!Next \/ UNCHANGED Contract!contractVars
<1> DEFINE r == call[c].req  W == Contract!KeyWrite(apis, keys, r)
<1>1. /\ CallType /\ call[c] \in Call /\ call[c].phase \in {"locked", "unindexed"}
      /\ r.op = "RotateKey" /\ UNCHANGED <<workspaces, apis>>
  BY DEF RotateKey, RotateWrite, Running, Inv, CallType, IndexOK, Between, Partly
<1>2. ASSUME NEW ph \in {"written", "applied"}, NEW e \in Errs, NEW v \in Vals,
             Move(c, ph, e, v), W.table = keys', W.err = e,
             v = IF e = "nil" THEN keys'[r.id] ELSE Nil
      PROVE  Contract!Next
  <2>1. Contract!Returned(r, W) = v
    <3> HIDE DEF W
    <3> QED  BY <1>1, <1>2 DEF Contract!Returned
  <2> QED  BY <1>1, <1>2, <2>1, Writes DEF Contract!KeyWrites
<1>3. W = Contract!RotateKeyResult(keys, r.id, r.hash)  BY <1>1 DEF Contract!KeyWrite
<1>4. {"nil", "ErrNotFound", "ErrConflict"} \subseteq Errs  BY DEF Errs
<1> HIDE DEF W
<1>5. CASE RotateKey(c)
  <2>1. call[c].phase = "locked" /\ Indexed(DOMAIN keys) /\ keys' = keys
    BY <1>5, Alone DEF RotateKey, Running, Held
  <2>2. CASE r.id \notin DOMAIN keys
    <3>1. Move(c, "applied", "ErrNotFound", Nil)  BY <1>5, <2>2 DEF RotateKey
    <3>2. W.table = keys /\ W.err = "ErrNotFound"
      BY <1>3, <2>2 DEF Contract!RotateKeyResult, Contract!Result
    <3> QED  BY <1>2, <1>4, <2>1, <3>1, <3>2, ValFacts
  <2>3. CASE r.id \in DOMAIN keys /\ r.hash \in DOMAIN hashIndex /\ hashIndex[r.hash] # r.id
    <3>1. Move(c, "applied", "ErrConflict", Nil)  BY <1>5, <2>3 DEF RotateKey
    <3>2. Contract!KeysWithHash(keys, r.hash) \ {r.id} # {}
      BY <2>1, <2>3 DEF Contract!KeysWithHash, Indexed
    <3>3. W.table = keys /\ W.err = "ErrConflict"
      BY <1>3, <2>3, <3>2 DEF Contract!RotateKeyResult, Contract!Result
    <3> QED  BY <1>2, <1>4, <2>1, <3>1, <3>3, ValFacts
  <2>4. CASE /\ r.id \in DOMAIN keys
             /\ r.hash \in DOMAIN hashIndex => hashIndex[r.hash] = r.id
    <3> DEFINE s == [call[c] EXCEPT !.phase = "unindexed", !.res = Contract!NoResponse]
    <3>1. Contract!NoResponse \in Res  BY ResFacts, ValFacts DEF Contract!NoResponse, Errs
    <3>2. call[c].res = Contract!NoResponse  BY <2>1 DEF Inv, CallOK
    <3>3. /\ s \in Call /\ s.phase = "unindexed" /\ s.req = call[c].req
          /\ s.res = Contract!NoResponse
      BY <1>1, <3>1 DEF Call, Phases, Held
    <3>4. call' = [call EXCEPT ![c] = s]
      BY <1>1, <1>5, <2>4 DEF RotateKey, Move, CallType, Contract!NoResponse
    <3> HIDE DEF s
    <3>5. Phase(s.phase) = Phase(call[c].phase)  BY <2>1, <3>3 DEF Phase
    <3>6. Calls' = Calls  BY <1>1, <3>2, <3>3, <3>4, <3>5, Unseen
    <3> QED  BY <1>1, <2>1, <3>6 DEF Contract!contractVars, Calls
  <2> QED  BY <2>2, <2>3, <2>4
<1>6. CASE RotateWrite(c)
  <2>1. Partly(c) /\ NewHash(r) = r.hash
    BY <1>1, <1>6 DEF RotateWrite, Inv, IndexOK, Between, NewHash
  <2>2. r.id \in DOMAIN keys /\ Contract!KeysWithHash(keys, r.hash) \ {r.id} = {}
    BY <2>1 DEF Partly, Contract!KeysWithHash
  <2>3. W.table = [keys EXCEPT ![r.id].hash = r.hash] /\ W.err = "nil"
    BY <1>3, <2>2 DEF Contract!RotateKeyResult, Contract!Result
  <2> DEFINE k == [keys[r.id] EXCEPT !.hash = r.hash]
  <2>4. keys' = [keys EXCEPT ![r.id] = k] /\ Move(c, "written", "nil", k)
    BY <1>6 DEF RotateWrite
  <2>5. keys'[r.id] = k /\ k \in Vals
    <3>1. keys[r.id] \in Key /\ r.hash \in Hashes  BY <2>1, <2>2 DEF Inv, TypeOK, Partly
    <3>2. k \in Key  BY <3>1, KeyFacts
    <3> HIDE DEF k
    <3> QED  BY <2>2, <2>4, <3>2, ValFacts
  <2>6. W.table = keys'  BY <2>3, <2>4
  <2> HIDE DEF k
  <2> QED  BY <1>2, <1>4, <2>3, <2>4, <2>5, <2>6
<1> QED  BY <1>5, <1>6

\* A lookup by hash goes through the index, and finds what a search of the
\* keys would.
LEMMA ReadsRefine ==
    ASSUME Inv, NEW c \in Clients,
           GetWorkspace(c) \/ GetAPI(c) \/ GetKeyByID(c) \/ GetKeyByHash(c) \/ ListKeys(c)
    PROVE  Contract!Next
<1> DEFINE r == call[c].req  F == Contract!Found(workspaces, apis, keys, r)
<1>1. /\ CallType /\ call[c].phase = "locked" /\ Indexed(DOMAIN keys) /\ r \in Requests
      /\ r.op \in Contract!Reads /\ UNCHANGED <<workspaces, apis, keys>>
  BY Alone
  DEF GetWorkspace, GetAPI, GetKeyByID, GetKeyByHash, ListKeys, Running, Held, Inv,
      Contract!Reads, tables
<1>2. ASSUME F = {}, Move(c, "applied", "ErrNotFound", Nil) PROVE Contract!Next
  BY <1>1, <1>2, Reads
<1>3. ASSUME NEW v \in Vals, F = {v}, Move(c, "applied", "nil", v) PROVE Contract!Next
  BY <1>1, <1>3, Reads
<1>4. CASE GetWorkspace(c)
  <2>1. r.op = "GetWorkspace" /\ F = workspaces \cap {r.id}
    BY <1>4 DEF GetWorkspace, Running, Contract!Found
  <2>2. r.id \in Vals  BY <1>1, <2>1, RequestFacts, ValFacts
  <2>3. CASE r.id \in workspaces
    <3>1. F = {r.id} /\ Move(c, "applied", "nil", r.id)  BY <1>4, <2>1, <2>3 DEF GetWorkspace
    <3> QED  BY <1>3, <2>2, <3>1
  <2>4. CASE r.id \notin workspaces
    <3>1. F = {} /\ Move(c, "applied", "ErrNotFound", Nil)
      BY <1>4, <2>1, <2>4 DEF GetWorkspace
    <3> QED  BY <1>2, <3>1
  <2> QED  BY <2>3, <2>4
<1>5. CASE GetAPI(c)
  <2>1. r.op = "GetAPI" /\ F = {apis[id] : id \in DOMAIN apis \cap {r.id}}
    BY <1>5 DEF GetAPI, Running, Contract!Found
  <2>2. CASE r.id \in DOMAIN apis
    <3>1. F = {apis[r.id]} /\ Move(c, "applied", "nil", apis[r.id])
      BY <1>5, <2>1, <2>2 DEF GetAPI
    <3>2. apis[r.id] \in Vals  BY <2>2, ValFacts DEF Inv, TypeOK
    <3> QED  BY <1>3, <3>1, <3>2
  <2>3. CASE r.id \notin DOMAIN apis
    <3>1. F = {} /\ Move(c, "applied", "ErrNotFound", Nil)  BY <1>5, <2>1, <2>3 DEF GetAPI
    <3> QED  BY <1>2, <3>1
  <2> QED  BY <2>2, <2>3
<1>6. CASE GetKeyByID(c)
  <2>1. r.op = "GetKeyByID" /\ F = {keys[id] : id \in DOMAIN keys \cap {r.id}}
    BY <1>6 DEF GetKeyByID, Running, Contract!Found
  <2>2. CASE r.id \in DOMAIN keys
    <3>1. F = {keys[r.id]} /\ Move(c, "applied", "nil", keys[r.id])
      BY <1>6, <2>1, <2>2 DEF GetKeyByID
    <3>2. keys[r.id] \in Vals  BY <2>2, ValFacts DEF Inv, TypeOK
    <3> QED  BY <1>3, <3>1, <3>2
  <2>3. CASE r.id \notin DOMAIN keys
    <3>1. F = {} /\ Move(c, "applied", "ErrNotFound", Nil)
      BY <1>6, <2>1, <2>3 DEF GetKeyByID
    <3> QED  BY <1>2, <3>1
  <2> QED  BY <2>2, <2>3
<1>7. CASE GetKeyByHash(c)
  <2> DEFINE found == Contract!KeysWithHash(keys, r.hash)
  <2>1. r.op = "GetKeyByHash" /\ F = {keys[id] : id \in found}
    BY <1>7 DEF GetKeyByHash, Running, Contract!Found
  <2>2. CASE r.hash \in DOMAIN hashIndex
    <3> DEFINE i == hashIndex[r.hash]
    <3>1. found = {i} /\ i \in DOMAIN keys
      BY <1>1, <2>2 DEF Contract!KeysWithHash, Indexed
    <3>2. keys[i] \in Vals  BY <3>1, ValFacts DEF Inv, TypeOK
    <3>3. Move(c, "applied", "nil", keys[i])  BY <1>7, <2>2 DEF GetKeyByHash
    <3> HIDE DEF i, found
    <3>4. F = {keys[i]}  BY <2>1, <3>1
    <3> QED  BY <1>3, <3>2, <3>3, <3>4
  <2>3. CASE r.hash \notin DOMAIN hashIndex
    <3>1. found = {}  BY <1>1, <2>3 DEF Contract!KeysWithHash, Indexed
    <3>2. F = {}
      <4> HIDE DEF found
      <4> QED  BY <2>1, <3>1
    <3>3. Move(c, "applied", "ErrNotFound", Nil)  BY <1>7, <2>3 DEF GetKeyByHash
    <3> QED  BY <1>2, <3>2, <3>3
  <2> QED  BY <2>2, <2>3
<1>8. CASE ListKeys(c)
  <2>1. r.op = "ListKeys" /\ F = {Contract!KeysOf(keys, r.api)}
    BY <1>8 DEF ListKeys, Running, Contract!Found
  <2>2. KeysOf(keys, r.api) \in Vals /\ F = {KeysOf(keys, r.api)}
    BY <2>1, ListFacts DEF Inv, TypeOK
  <2> QED  BY <1>3, <1>8, <2>2 DEF ListKeys
<1> QED  BY <1>4, <1>5, <1>6, <1>7, <1>8

LEMMA TablesRefine ==
    ASSUME Inv, NEW c \in Clients, CreateWorkspace(c) \/ CreateAPI(c)
    PROVE  Contract!Next
<1> DEFINE r == call[c].req  W == Contract!CreateAPIResult(workspaces, apis, r.id, r.row)
<1>1. CallType /\ call[c].phase = "locked"
  BY DEF CreateWorkspace, CreateAPI, Running, Inv
<1>2. Calls[c].phase = "called" /\ Calls[c].req = r  BY <1>1, CallsFacts DEF Phase
<1>3. "nil" \in Errs /\ "ErrNotFound" \in Errs  BY DEF Errs
<1>4. CASE CreateWorkspace(c)
  <2>1. Contract!Answered(c, "nil", Nil)
    BY <1>1, <1>3, <1>4, Answered, ValFacts DEF CreateWorkspace
  <2>2. Contract!Apply(c)
    BY <1>2, <1>4, <2>1 DEF Contract!Apply, Calls, CreateWorkspace, Running
  <2> QED  BY <2>2 DEF Contract!Next
<1>5. CASE CreateAPI(c)
  <2>1. ASSUME NEW e \in Errs, Move(c, "applied", e, Nil), W.table = apis', W.err = e
        PROVE  Contract!Next
    <3>1. Contract!Answered(c, e, Nil)  BY <1>1, <2>1, Answered, ValFacts
    <3>2. Contract!Apply(c)
      BY <1>2, <1>5, <2>1, <3>1 DEF Contract!Apply, Calls, CreateAPI, Running
    <3> QED  BY <3>2 DEF Contract!Next
  <2>2. CASE r.row.workspace \notin workspaces
    <3>1. apis' = apis /\ Move(c, "applied", "ErrNotFound", Nil)
      BY <1>5, <2>2 DEF CreateAPI
    <3>2. W.table = apis /\ W.err = "ErrNotFound"
      BY <2>2 DEF Contract!CreateAPIResult, Contract!Result
    <3> QED  BY <1>3, <2>1, <3>1, <3>2
  <2>3. CASE r.row.workspace \in workspaces
    <3>1. apis' = Put(apis, r.id, r.row) /\ Move(c, "applied", "nil", Nil)
      BY <1>5, <2>3 DEF CreateAPI
    <3>2. Contract!Put(apis, r.id, r.row) = Put(apis, r.id, r.row)  BY DEF Contract!Put, Put
    <3>3. W.table = Put(apis, r.id, r.row) /\ W.err = "nil"
      BY <2>3, <3>2 DEF Contract!CreateAPIResult, Contract!Result
    <3> QED  BY <1>3, <2>1, <3>1, <3>3
  <2> QED  BY <2>2, <2>3
<1> QED  BY <1>4, <1>5

LEMMA InitRefines == Init => Contract!Init
<1> SUFFICES ASSUME Init PROVE Contract!Init  OBVIOUS
<1>1. Seen(Contract!NotCalled) = Contract!NotCalled
  BY DEF Seen, Contract!NotCalled, Phase
<1>2. Calls = [c \in Clients |-> Contract!NotCalled]  BY <1>1 DEF Init, Calls, Seen
<1> QED  BY <1>2 DEF Init, Contract!Init, Calls, EmptyTable, Contract!EmptyTable

LEMMA StepRefines == Inv /\ [Next]_vars => [Contract!Next]_Contract!contractVars
<1> SUFFICES ASSUME Inv, [Next]_vars
             PROVE  Contract!Next \/ UNCHANGED Contract!contractVars
  OBVIOUS
<1>1. ASSUME NEW c \in Clients, Step(c)
      PROVE  Contract!Next \/ UNCHANGED Contract!contractVars
  BY <1>1, LockIndexRefine, UnlockRefines, TablesRefine, WritesRefine, RotateRefines,
     ReadsRefine DEF Step
<1>2. CASE Tick \/ UNCHANGED vars
  BY <1>2 DEF Tick, vars, tables, Contract!contractVars
<1> QED  BY <1>1, <1>2, InvokeRefines DEF Next

\* Every method of memory.Store takes effect at one instant between its call
\* and its return, and its error and what it returns (the rotated key and the
\* uses left included) are the contract's for the tables at that instant,
\* whatever the calls running beside it: the index, written before and after
\* the keys, never shows.
THEOREM MemoryRefines == Spec => Refines
BY InitRefines, StepRefines, Safe, PTL DEF Spec, Refines, Contract!Spec

=============================================================================
