------------------------ MODULE KeychainServerProofs ------------------------
(* Types and credits: theorems about KeychainServer for every value of its  *)
(* constants.                                                               *)
EXTENDS KeychainServer, FiniteSetTheorems, TLAPS

-----------------------------------------------------------------------------
(* What the store's operators return.                                       *)

LEMMA PlaintextType ==
    ASSUME NEW pre \in Prefixes, NEW s \in Secrets
    PROVE  NewPlaintext(pre, s) \in Plaintexts
BY DEF NewPlaintext, Plaintexts

LEMMA HashType ==
    ASSUME NEW pt \in Plaintexts
    PROVE  Hash(pt) \in Hashes
BY DEF Hashes

LEMMA HashInjective ==
    ASSUME NEW x, NEW y, Hash(x) = Hash(y)
    PROVE  x = y
BY DEF Hash

\* A table is well-typed over a set of IDs that may be given out.
KeyTable(ks, ids) == DOMAIN ks \subseteq ids /\ ks \in [DOMAIN ks -> Key]

LEMMA PutType ==
    ASSUME NEW ids, NEW ks, KeyTable(ks, ids), NEW id \in ids, NEW k \in Key
    PROVE  KeyTable(Put(ks, id, k), ids)
BY DEF KeyTable, Put

LEMMA CreateKeyType ==
    ASSUME NEW ids, NEW ks, KeyTable(ks, ids), NEW as, NEW id, NEW k \in Key
    PROVE  LET res == CreateKeyResult(as, ks, id, k) IN
           /\ KeyTable(res.table, ids \cup {id})
           /\ res.err \in Errs
<1>1. KeyTable(ks, ids \cup {id})  BY DEF KeyTable
<1>2. KeyTable(Put(ks, id, k), ids \cup {id})  BY <1>1, PutType
<1> QED  BY <1>1, <1>2 DEF CreateKeyResult, Result, Errs

LEMMA RevokeKeyType ==
    ASSUME NEW ids, NEW ks, KeyTable(ks, ids), NEW id
    PROVE  LET res == RevokeKeyResult(ks, id) IN
           KeyTable(res.table, ids) /\ res.err \in Errs
<1>1. id \in DOMAIN ks => KeyTable([ks EXCEPT ![id].enabled = FALSE], ids)
  BY DEF KeyTable, Key
<1> QED  BY <1>1 DEF RevokeKeyResult, Result, Errs

LEMMA RotateKeyType ==
    ASSUME NEW ids, NEW ks, KeyTable(ks, ids), NEW id, NEW h \in Hashes
    PROVE  LET res == RotateKeyResult(ks, id, h) IN
           KeyTable(res.table, ids) /\ res.err \in Errs
<1>1. id \in DOMAIN ks => KeyTable([ks EXCEPT ![id].hash = h], ids)
  BY DEF KeyTable, Key
<1> QED  BY <1>1 DEF RotateKeyResult, Result, Errs

LEMMA TouchLastVerifiedType ==
    ASSUME NEW ids, NEW ks, KeyTable(ks, ids), NEW id, NEW at \in Time
    PROVE  LET res == TouchLastVerifiedResult(ks, id, at) IN
           KeyTable(res.table, ids) /\ res.err \in Errs
<1>1. id \in DOMAIN ks => KeyTable([ks EXCEPT ![id].lastVerifiedAt = at], ids)
  BY DEF KeyTable, Key, TimePtr
<1> QED  BY <1>1 DEF TouchLastVerifiedResult, Result, Errs

LEMMA DecrementType ==
    ASSUME NEW ids, NEW ks, KeyTable(ks, ids), NEW id
    PROVE  LET res == DecrementRemainingUsesResult(ks, id) IN
           KeyTable(res.table, ids) /\ res.err \in Errs
<1>1. ASSUME id \in DOMAIN ks, ~(ks[id].remaining < 0), ks[id].remaining # 0
      PROVE  KeyTable([ks EXCEPT ![id].remaining = @ - 1], ids)
  BY <1>1 DEF KeyTable, Key
<1> QED  BY <1>1 DEF DecrementRemainingUsesResult, Result, Errs

\* A store call leaves one of two tables behind.
LEMMA StoreCallTable ==
    ASSUME NEW t, NEW n, NEW res, NEW err, StoreCall(t, n, res, err)
    PROVE  n = t \/ n = res.table
BY DEF StoreCall

-----------------------------------------------------------------------------
(* Type correctness.                                                        *)

LEMMA IdleType == Idle \in Frame /\ FrameOK(Idle)
BY DEF Idle, Frame, FrameOK, PCs, VerifyPCs, Time

\* What is said of all frames but depends on other variables only through
\* issued, which never shrinks.
FramesOK == frame \in [Procs -> Frame] /\ \A p \in Procs : FrameOK(frame[p])

LEMMA FramesStep ==
    ASSUME FramesOK, issued \subseteq issued', NEW p \in Procs, NEW f \in Frame,
           FrameOK(f), frame' = [frame EXCEPT ![p] = f]
    PROVE  FramesOK'
<1>1. \A q \in Procs : frame'[q] = IF q = p THEN f ELSE frame[q]
  BY DEF FramesOK
<1>2. \A q \in Procs : FrameOK(frame[q])'
  BY <1>1 DEF FramesOK, FrameOK
<1> QED  BY <1>1, <1>2 DEF FramesOK

LEMMA FramesReturn ==
    ASSUME FramesOK, issued \subseteq issued', NEW p \in Procs,
           frame' = [frame EXCEPT ![p] = Idle]
    PROVE  FramesOK'
BY FramesStep, IdleType

LEMMA FramesSame ==
    ASSUME FramesOK, issued \subseteq issued', UNCHANGED frame
    PROVE  FramesOK'
BY DEF FramesOK, FrameOK

\* TypeOK in terms of the pieces above.
LEMMA TypeSplit ==
    TypeOK <=> /\ workspaces \subseteq WorkspaceIDs
               /\ DOMAIN apis \subseteq APIIDs /\ apis \in [DOMAIN apis -> API]
               /\ KeyTable(keys, issued)
               /\ now \in Time
               /\ FramesOK
               /\ reply \in [rpc : RPCs \cup {"none"}, code : Codes, id : KeyIDs \cup {Nil}]
               /\ quota \in [LimitIDs -> Nat]
               /\ issued \subseteq KeyIDs
               /\ granted \in [KeyIDs -> Nat]
               /\ valids \in [KeyIDs -> Nat]
               /\ admitted \in [LimitIDs -> Nat]
               /\ bound \subseteq Hashes
BY DEF TypeOK, KeyTable, FramesOK

LEMMA TypeNext ==
    ASSUME workspaces' \subseteq WorkspaceIDs,
           DOMAIN apis' \subseteq APIIDs, apis' \in [DOMAIN apis' -> API],
           KeyTable(keys', issued'), now' \in Time, FramesOK',
           reply' \in [rpc : RPCs \cup {"none"}, code : Codes, id : KeyIDs \cup {Nil}],
           quota' \in [LimitIDs -> Nat], issued' \subseteq KeyIDs,
           granted' \in [KeyIDs -> Nat], valids' \in [KeyIDs -> Nat],
           admitted' \in [LimitIDs -> Nat], bound' \subseteq Hashes
    PROVE  TypeOK'
BY DEF TypeOK, KeyTable, FramesOK

LEMMA AnswerType ==
    ASSUME NEW rpc \in RPCs, NEW code \in Codes, NEW id \in KeyIDs \cup {Nil}
    PROVE  Answer(rpc, code, id)
             \in [rpc : RPCs \cup {"none"}, code : Codes, id : KeyIDs \cup {Nil}]
BY DEF Answer

LEMMA CodeType ==
    ASSUME NEW err
    PROVE  mapStoreErr(err) \in Codes
BY DEF mapStoreErr, Codes

\* The step of each handler preserves the type invariant.
LEMMA OneStepType ==
    ASSUME TypeOK,
           \/ InvalidRequest \/ CreateWorkspace \/ CreateApi
           \/ GetWorkspace \/ GetApi \/ GetKey \/ RevokeKey
    PROVE  TypeOK'
<1> USE TypeSplit, TypeNext, FramesSame DEF keyHistory, answerHistory, storeVars
<1>1. CASE InvalidRequest
  <2>1. reply' \in [rpc : RPCs \cup {"none"}, code : Codes, id : KeyIDs \cup {Nil}]
    BY <1>1, AnswerType, ServerAssumption DEF InvalidRequest, Respond, Codes
  <2> QED  BY <1>1, <2>1 DEF InvalidRequest, Respond
<1>2. CASE CreateWorkspace
  <2>1. reply' \in [rpc : RPCs \cup {"none"}, code : Codes, id : KeyIDs \cup {Nil}]
    BY <1>2, AnswerType, CodeType DEF CreateWorkspace, Respond, RPCs
  <2>2. workspaces' \subseteq WorkspaceIDs
    BY <1>2 DEF CreateWorkspace, StoreCall, Result
  <2> QED  BY <1>2, <2>1, <2>2 DEF CreateWorkspace, Respond
<1>3. CASE CreateApi
  <2>1. reply' \in [rpc : RPCs \cup {"none"}, code : Codes, id : KeyIDs \cup {Nil}]
    BY <1>3, AnswerType, CodeType DEF CreateApi, Respond, RPCs
  <2>2. DOMAIN apis' \subseteq APIIDs /\ apis' \in [DOMAIN apis' -> API]
    BY <1>3 DEF CreateApi, StoreCall, CreateAPIResult, Result, Put
  <2> QED  BY <1>3, <2>1, <2>2 DEF CreateApi, Respond
<1>4. ASSUME NEW rpc \in RPCs, NEW ids, NEW existing, Get(rpc, ids, existing)
      PROVE  TypeOK'
  <2>1. reply' \in [rpc : RPCs \cup {"none"}, code : Codes, id : KeyIDs \cup {Nil}]
    BY <1>4, AnswerType, CodeType DEF Get, Respond
  <2> QED  BY <1>4, <2>1 DEF Get, Respond
<1>5. CASE GetWorkspace \/ GetApi \/ GetKey
  BY <1>4, <1>5 DEF GetWorkspace, GetApi, GetKey, RPCs
<1>6. CASE RevokeKey
  <2>1. reply' \in [rpc : RPCs \cup {"none"}, code : Codes, id : KeyIDs \cup {Nil}]
    BY <1>6, AnswerType, CodeType DEF RevokeKey, Respond, RPCs
  <2>2. KeyTable(keys', issued)
    BY <1>6, RevokeKeyType, StoreCallTable DEF RevokeKey
  <2> QED  BY <1>6, <2>1, <2>2 DEF RevokeKey, Respond
<1> QED  BY <1>1, <1>2, <1>3, <1>5, <1>6

LEMMA ReturnType ==
    ASSUME TypeOK, issued \subseteq issued', NEW p \in Procs, NEW rpc \in RPCs,
           NEW code \in Codes, NEW id \in KeyIDs \cup {Nil}, Return(p, rpc, code, id)
    PROVE  /\ FramesOK'
           /\ reply' \in [rpc : RPCs \cup {"none"}, code : Codes, id : KeyIDs \cup {Nil}]
BY TypeSplit, AnswerType, FramesReturn DEF Return

LEMMA CreateKeyStepType ==
    ASSUME TypeOK, NEW p \in Procs, CreateKey(p)
    PROVE  TypeOK'
<1> USE DEF storeVars, keyHistory, answerHistory
<1>1. ASSUME NEW code \in Codes, Return(p, "CreateKey", code, Nil)
      PROVE  TypeOK'
  BY <1>1, ReturnType, TypeSplit, TypeNext DEF CreateKey, RPCs
<1>2. ASSUME NEW api \in DOMAIN apis, NEW id \in FreshKeyIDs, NEW s \in FreshSecrets,
             NEW r \in KeyRequests, UNCHANGED reply,
             frame' = [frame EXCEPT ![p] =
                 [Idle EXCEPT !.pc = "c_store", !.id = id,
                              !.plaintext = NewPlaintext(apis[api].prefix, s),
                              !.key = NewKey(api, NewPlaintext(apis[api].prefix, s), r)]]
      PROVE  TypeOK'
  <2> DEFINE pt == NewPlaintext(apis[api].prefix, s)
             k  == NewKey(api, pt, r)
             f  == [Idle EXCEPT !.pc = "c_store", !.id = id, !.plaintext = pt, !.key = k]
  <2>1. apis[api] \in API /\ api \in APIIDs  BY TypeSplit
  <2>2. pt \in Plaintexts
    BY <2>1, PlaintextType DEF API, FreshSecrets
  <2>3. Hash(pt) \in Hashes  BY <2>2, HashType
  <2> HIDE DEF pt
  <2>4. k \in Key /\ k.hash = Hash(pt) /\ k.remaining # 0
    BY <2>1, <2>3, ServerAssumption DEF NewKey, NormalizeRemaining, Key, API, TimePtr
  <2> HIDE DEF k
  <2>5. id \in KeyIDs  BY DEF FreshKeyIDs
  <2>6. f \in Frame /\ FrameOK(f)
    BY <2>2, <2>4, <2>5 DEF Idle, Frame, FrameOK, PCs, VerifyPCs, Time
  <2>7. frame' = [frame EXCEPT ![p] = f]  BY <1>2 DEF pt, k
  <2> HIDE DEF f
  <2>8. UNCHANGED <<storeVars, now, quota, keyHistory, answerHistory, reply>>
    BY <1>2 DEF CreateKey
  <2>9. FramesOK'  BY <2>6, <2>7, <2>8, FramesStep, TypeSplit
  <2> QED  BY <2>8, <2>9, TypeSplit, TypeNext
<1>3. PICK api \in APIIDs :
          \/ Return(p, "CreateKey", "NotFound", Nil)
          \/ /\ api \in DOMAIN apis
             /\ \E id \in FreshKeyIDs, s \in FreshSecrets, r \in KeyRequests :
                   frame' = [frame EXCEPT ![p] =
                      [Idle EXCEPT !.pc = "c_store", !.id = id,
                         !.plaintext = NewPlaintext(apis[api].prefix, s),
                         !.key = NewKey(api, NewPlaintext(apis[api].prefix, s), r)]]
             /\ UNCHANGED reply
          \/ Return(p, "CreateKey", "Internal", Nil)
  BY Zenon DEF CreateKey
<1>4. {"NotFound", "Internal"} \subseteq Codes  BY DEF Codes
<1> QED  BY <1>1, <1>2, <1>3, <1>4

LEMMA CreateKeyStoreType ==
    ASSUME TypeOK, NEW p \in Procs, CreateKeyStore(p)
    PROVE  TypeOK'
<1> DEFINE id == frame[p].id
           k  == frame[p].key
<1>1. id \in KeyIDs /\ k \in Key /\ k.hash \in Hashes
  BY TypeSplit DEF CreateKeyStore, FramesOK, FrameOK, Key
<1>2. PICK err \in Errs :
          /\ StoreCall(keys, keys', CreateKeyResult(apis, keys, id, k), err)
          /\ Return(p, "CreateKey", mapStoreErr(err), Nil)
          /\ IF keys' = keys THEN UNCHANGED keyHistory ELSE RecordIssue(id, k)
  BY DEF CreateKeyStore
<1> HIDE DEF id, k
<1>3. KeyTable(keys', issued \cup {id}) /\ (keys' = keys => KeyTable(keys', issued))
  <2> DEFINE res == CreateKeyResult(apis, keys, id, k)
  <2>1. KeyTable(res.table, issued \cup {id})
    BY <1>1, CreateKeyType, TypeSplit
  <2> HIDE DEF res
  <2>2. KeyTable(keys, issued)  BY TypeSplit
  <2>3. KeyTable(keys, issued \cup {id})  BY <2>2 DEF KeyTable
  <2>4. keys' = keys \/ keys' = res.table  BY <1>2, StoreCallTable DEF res
  <2> QED  BY <2>1, <2>2, <2>3, <2>4
<1>4. (IF k.remaining > 0 THEN k.remaining ELSE 0) \in Nat
  BY <1>1 DEF Key
<1>5. /\ KeyTable(keys', issued') /\ issued \subseteq issued' /\ issued' \subseteq KeyIDs
      /\ granted' \in [KeyIDs -> Nat] /\ bound' \subseteq Hashes
  <2>1. CASE keys' = keys
    BY <2>1, <1>2, <1>3, TypeSplit DEF keyHistory
  <2>2. CASE keys' # keys
    BY <2>2, <1>1, <1>2, <1>3, <1>4, TypeSplit DEF RecordIssue
  <2> QED  BY <2>1, <2>2
<1>6. /\ FramesOK'
      /\ reply' \in [rpc : RPCs \cup {"none"}, code : Codes, id : KeyIDs \cup {Nil}]
  BY <1>2, <1>5, ReturnType, CodeType DEF RPCs
<1>7. UNCHANGED <<workspaces, apis, now, quota, answerHistory>>
  BY DEF CreateKeyStore
<1> QED  BY <1>5, <1>6, <1>7, TypeSplit, TypeNext DEF answerHistory

LEMMA RotateStepsType ==
    ASSUME TypeOK, NEW p \in Procs,
           RotateKey(p) \/ RotateKeyMaterial(p) \/ RotateKeyStore(p)
    PROVE  TypeOK'
<1> USE DEF storeVars, keyHistory, answerHistory
<1>1. ASSUME NEW code \in Codes, Return(p, "RotateKey", code, Nil),
             UNCHANGED <<storeVars, now, quota, keyHistory, answerHistory>>
      PROVE  TypeOK'
  BY <1>1, ReturnType, TypeSplit, TypeNext DEF RPCs
<1>2. ASSUME NEW f \in Frame, FrameOK(f), frame' = [frame EXCEPT ![p] = f],
             UNCHANGED <<storeVars, now, quota, keyHistory, answerHistory, reply>>
      PROVE  TypeOK'
  <2>1. FramesOK'  BY <1>2, FramesStep, TypeSplit
  <2> QED  BY <1>2, <2>1, TypeSplit, TypeNext
<1>3. CASE RotateKey(p)
  <2>1. ASSUME NEW id \in DOMAIN keys, UNCHANGED reply,
               frame' = [frame EXCEPT ![p] =
                  [Idle EXCEPT !.pc = "r_api", !.id = id, !.key = keys[id]]]
        PROVE  TypeOK'
    <3> DEFINE f == [Idle EXCEPT !.pc = "r_api", !.id = id, !.key = keys[id]]
    <3>1. id \in issued /\ id \in KeyIDs /\ keys[id] \in Key  BY TypeSplit DEF KeyTable
    <3>2. f \in Frame /\ FrameOK(f)
      BY <3>1 DEF Idle, Frame, FrameOK, PCs, VerifyPCs, Time
    <3> HIDE DEF f
    <3> QED  BY <2>1, <3>2, <1>2, <1>3 DEF RotateKey, f
  <2> QED  BY <1>1, <1>3, <2>1 DEF RotateKey, Codes
<1>4. CASE RotateKeyMaterial(p)
  <2>1. ASSUME NEW api \in DOMAIN apis, NEW s \in FreshSecrets, UNCHANGED reply,
               frame' = [frame EXCEPT ![p].pc = "r_store", ![p].key = Nil,
                            ![p].plaintext = NewPlaintext(apis[api].prefix, s)]
        PROVE  TypeOK'
    <3> DEFINE pt == NewPlaintext(apis[api].prefix, s)
               f == [frame[p] EXCEPT !.pc = "r_store", !.key = Nil, !.plaintext = pt]
    <3>1. pt \in Plaintexts
      BY PlaintextType, TypeSplit DEF API, FreshSecrets
    <3> HIDE DEF pt
    <3>2. frame[p] \in Frame /\ frame[p].id \in issued
      BY <1>4, TypeSplit DEF RotateKeyMaterial, FramesOK, FrameOK
    <3>3. f \in Frame /\ FrameOK(f)
      BY <3>1, <3>2 DEF Frame, FrameOK, PCs, VerifyPCs
    <3>4. frame' = [frame EXCEPT ![p] = f]
      BY <2>1, <3>2 DEF pt
    <3> HIDE DEF f
    <3> QED  BY <2>1, <3>3, <3>4, <1>2, <1>4 DEF RotateKeyMaterial
  <2> QED  BY <1>1, <1>4, <2>1 DEF RotateKeyMaterial, Codes
<1>5. CASE RotateKeyStore(p)
  <2> DEFINE id == frame[p].id
             h  == Hash(frame[p].plaintext)
  <2>1. h \in Hashes
    BY <1>5, HashType, TypeSplit DEF RotateKeyStore, FramesOK, FrameOK
  <2>2. PICK err \in Errs :
           /\ StoreCall(keys, keys', RotateKeyResult(keys, id, h), err)
           /\ Return(p, "RotateKey", mapStoreErr(err), Nil)
           /\ bound' = IF keys' = keys THEN bound ELSE bound \cup {h}
    BY <1>5 DEF RotateKeyStore
  <2> HIDE DEF id, h
  <2>3. UNCHANGED <<workspaces, apis, now, quota, issued, granted, answerHistory>>
    BY <1>5 DEF RotateKeyStore
  <2>4. KeyTable(keys', issued')
    BY <2>1, <2>2, <2>3, RotateKeyType, StoreCallTable, TypeSplit
  <2>5. /\ FramesOK'
        /\ reply' \in [rpc : RPCs \cup {"none"}, code : Codes, id : KeyIDs \cup {Nil}]
    BY <2>2, <2>3, ReturnType, CodeType DEF RPCs
  <2>6. bound' \subseteq Hashes  BY <2>1, <2>2, TypeSplit
  <2> QED  BY <2>3, <2>4, <2>5, <2>6, TypeSplit, TypeNext
<1> QED  BY <1>3, <1>4, <1>5

\* Proceed leaves the handler at the decrement or at the touch.
LEMMA ProceedType ==
    ASSUME TypeOK, NEW p \in Procs, issued' = issued,
           frame[p].pc \in {"v_check", "v_limit"}, Proceed(p)
    PROVE  FramesOK' /\ reply' = reply
<1>1. frame[p] \in Frame /\ FrameOK(frame[p]) /\ now \in Time
  BY TypeSplit DEF FramesOK
<1>2. CASE frame' = [frame EXCEPT ![p].pc = "v_decr"]
  <2> DEFINE f == [frame[p] EXCEPT !.pc = "v_decr"]
  <2>1. f \in Frame /\ FrameOK(f)
    BY <1>1 DEF Frame, FrameOK, PCs, VerifyPCs
  <2>2. frame' = [frame EXCEPT ![p] = f]  BY <1>2
  <2> HIDE DEF f
  <2> QED  BY <2>1, <2>2, FramesStep, TypeSplit DEF Proceed
<1>3. CASE frame' = [frame EXCEPT ![p].pc = "v_touch", ![p].at = now]
  <2> DEFINE f == [frame[p] EXCEPT !.pc = "v_touch", !.at = now]
  <2>1. f \in Frame /\ FrameOK(f)
    BY <1>1 DEF Frame, FrameOK, PCs, VerifyPCs
  <2>2. frame' = [frame EXCEPT ![p] = f]  BY <1>3
  <2> HIDE DEF f
  <2> QED  BY <2>1, <2>2, FramesStep, TypeSplit DEF Proceed
<1> QED  BY <1>2, <1>3 DEF Proceed

LEMMA ChargedType ==
    ASSUME quota \in [LimitIDs -> Nat], NEW refs \in SUBSET LimitIDs, NEW c \in Int
    PROVE  Charged(Allowed(refs, limitCost(c)), limitCost(c)) \in [LimitIDs -> Nat]
<1> DEFINE d == limitCost(c)
<1>1. d \in Nat  BY DEF limitCost
<1> HIDE DEF d
<1>2. \A l \in Allowed(refs, d) : quota[l] - d \in Nat
  BY <1>1 DEF Allowed
<1>3. Charged(Allowed(refs, d), d) \in [LimitIDs -> Nat]  BY <1>2 DEF Charged
<1> QED  BY <1>3 DEF d

LEMMA VerifyStepsType ==
    ASSUME TypeOK, NEW p \in Procs, VerifyKey(p) \/ VerifyStep(p)
    PROVE  TypeOK'
<1> USE DEF storeVars, keyHistory, answerHistory
<1> DEFINE Rest == UNCHANGED <<storeVars, now, keyHistory, answerHistory>>
           Replies == [rpc : RPCs \cup {"none"}, code : Codes, id : KeyIDs \cup {Nil}]
<1>0. /\ frame[p] \in Frame /\ FrameOK(frame[p])
      /\ frame[p].id \in KeyIDs \cup {Nil}
      /\ "VerifyKey" \in RPCs
  BY TypeSplit DEF FramesOK, Frame, RPCs
<1>1. ASSUME Rest, quota' \in [LimitIDs -> Nat], NEW code \in Codes,
             NEW id \in KeyIDs \cup {Nil}, Return(p, "VerifyKey", code, id)
      PROVE  TypeOK'
  BY <1>0, <1>1, ReturnType, TypeSplit, TypeNext
<1>2. ASSUME Rest, quota' \in [LimitIDs -> Nat], FramesOK', UNCHANGED reply
      PROVE  TypeOK'
  BY <1>2, TypeSplit, TypeNext
<1>3. CASE VerifyKey(p)
  <2>1. ASSUME NEW plaintext \in Plaintexts, NEW r \in VerifyRequests, UNCHANGED reply,
               frame' = [frame EXCEPT ![p] =
                 [Idle EXCEPT !.pc = "v_lookup", !.plaintext = plaintext,
                              !.req = r, !.doomed = DeadHash(Hash(plaintext))]]
        PROVE  TypeOK'
    <3> DEFINE f == [Idle EXCEPT !.pc = "v_lookup", !.plaintext = plaintext,
                                 !.req = r, !.doomed = DeadHash(Hash(plaintext))]
    <3>1. DeadHash(Hash(plaintext)) \in BOOLEAN  BY DEF DeadHash
    <3>2. f \in Frame /\ FrameOK(f)
      BY <3>1 DEF Idle, Frame, FrameOK, PCs, VerifyPCs, Time
    <3>3. frame' = [frame EXCEPT ![p] = f]  BY <2>1
    <3> HIDE DEF f
    <3>4. FramesOK'  BY <1>3, <3>2, <3>3, FramesStep, TypeSplit DEF VerifyKey
    <3> QED  BY <1>2, <1>3, <2>1, <3>4, TypeSplit DEF VerifyKey
  <2>2. "NOT_FOUND" \in Codes  BY DEF Codes
  <2> QED  BY <1>1, <1>3, <2>1, <2>2, TypeSplit DEF VerifyKey, Validate
<1>4. CASE VerifyLookup(p)
  <2>1. ASSUME NEW id \in Hashed(Hash(frame[p].plaintext)), UNCHANGED reply,
               frame' = [frame EXCEPT ![p].pc = "v_check", ![p].id = id,
                                      ![p].key = keys[id]]
        PROVE  TypeOK'
    <3> DEFINE f == [frame[p] EXCEPT !.pc = "v_check", !.id = id, !.key = keys[id]]
    <3>1. id \in issued /\ id \in KeyIDs /\ keys[id] \in Key
      BY TypeSplit DEF KeyTable, Hashed, KeysWithHash
    <3>2. f \in Frame /\ FrameOK(f)
      BY <1>0, <1>4, <3>1 DEF VerifyLookup, Frame, FrameOK, PCs, VerifyPCs
    <3>3. frame' = [frame EXCEPT ![p] = f]  BY <2>1
    <3> HIDE DEF f
    <3>4. FramesOK'  BY <1>4, <3>2, <3>3, FramesStep, TypeSplit DEF VerifyLookup
    <3> QED  BY <1>2, <1>4, <2>1, <3>4, TypeSplit DEF VerifyLookup
  <2>2. {"NOT_FOUND", "Internal"} \subseteq Codes  BY DEF Codes
  <2> QED  BY <1>1, <1>4, <2>1, <2>2, TypeSplit DEF VerifyLookup
<1>5. CASE VerifyCheck(p)
  <2>1. Rest /\ quota' \in [LimitIDs -> Nat]  BY <1>5, TypeSplit DEF VerifyCheck
  <2>2. Verdict(frame[p]) = "pass" \/ Verdict(frame[p]) \in Codes
    BY DEF Verdict, Codes
  <2>3. "FailedPrecondition" \in Codes  BY DEF Codes
  <2>4. CASE Proceed(p)
    BY <1>2, <1>5, <2>1, <2>4, ProceedType DEF VerifyCheck
  <2>5. CASE frame' = [frame EXCEPT ![p].pc = "v_limit"] /\ UNCHANGED reply
    <3> DEFINE f == [frame[p] EXCEPT !.pc = "v_limit"]
    <3>1. f \in Frame /\ FrameOK(f)
      BY <1>0, <1>5 DEF VerifyCheck, Frame, FrameOK, PCs, VerifyPCs
    <3>2. frame' = [frame EXCEPT ![p] = f]  BY <2>5
    <3> HIDE DEF f
    <3>3. FramesOK'  BY <2>1, <3>1, <3>2, FramesStep, TypeSplit
    <3> QED  BY <1>2, <2>1, <2>5, <3>3
  <2> HIDE DEF Rest
  <2> QED  BY <1>0, <1>1, <1>5, <2>1, <2>2, <2>3, <2>4, <2>5 DEF VerifyCheck
<1>6. CASE VerifyLimit(p)
  <2> DEFINE cost == limitCost(frame[p].req.cost)
             allowed == Allowed(frame[p].key.limitRefs, cost)
  <2>1. Rest  BY <1>6 DEF VerifyLimit
  <2>2. frame[p].key.limitRefs \in SUBSET LimitIDs /\ frame[p].req.cost \in Int
    BY <1>0, <1>6, ServerAssumption DEF VerifyLimit, FrameOK, VerifyPCs, Key
  <2>3. Charged(allowed, cost) \in [LimitIDs -> Nat]
    BY <2>2, ChargedType, TypeSplit
  <2> HIDE DEF cost, allowed
  <2>4. {"RATE_LIMITED", "Unavailable"} \subseteq Codes  BY DEF Codes
  <2>5. quota' \in [LimitIDs -> Nat]
    BY <1>6, <2>3, TypeSplit DEF VerifyLimit, cost, allowed
  <2>6. CASE Proceed(p)
    BY <1>2, <1>6, <2>1, <2>5, <2>6, ProceedType DEF VerifyLimit
  <2>7. \/ Proceed(p)
        \/ Return(p, "VerifyKey", "RATE_LIMITED", frame[p].id)
        \/ Return(p, "VerifyKey", "Unavailable", Nil)
    BY <1>6 DEF VerifyLimit
  <2> HIDE DEF Rest
  <2> QED  BY <1>0, <1>1, <2>1, <2>4, <2>5, <2>6, <2>7
<1>7. CASE VerifyDecrement(p)
  <2> DEFINE res == DecrementRemainingUsesResult(keys, frame[p].id)
  <2>1. UNCHANGED <<workspaces, apis, now, quota, keyHistory, answerHistory>>
    BY <1>7 DEF VerifyDecrement
  <2>2. KeyTable(res.table, issued)  BY DecrementType, TypeSplit
  <2> HIDE DEF res
  <2>3. KeyTable(keys', issued')
    BY <1>7, <2>1, <2>2, StoreCallTable, TypeSplit DEF VerifyDecrement, res
  <2>4. {"DEPLETED", "Internal"} \subseteq Codes  BY DEF Codes
  <2>5. CASE /\ frame' = [frame EXCEPT ![p].pc = "v_touch", ![p].at = now]
             /\ UNCHANGED reply
    <3> DEFINE f == [frame[p] EXCEPT !.pc = "v_touch", !.at = now]
    <3>1. f \in Frame /\ FrameOK(f)
      BY <1>0, <1>7, TypeSplit DEF VerifyDecrement, Frame, FrameOK, PCs, VerifyPCs
    <3>2. frame' = [frame EXCEPT ![p] = f]  BY <2>5
    <3> HIDE DEF f
    <3>3. FramesOK'  BY <2>1, <3>1, <3>2, FramesStep, TypeSplit
    <3> QED  BY <2>1, <2>3, <2>5, <3>3, TypeSplit, TypeNext
  <2>6. ASSUME NEW code \in Codes, NEW id \in KeyIDs \cup {Nil},
               Return(p, "VerifyKey", code, id)
        PROVE  TypeOK'
    BY <1>0, <2>1, <2>3, <2>6, ReturnType, TypeSplit, TypeNext
  <2>7. \/ /\ frame' = [frame EXCEPT ![p].pc = "v_touch", ![p].at = now]
           /\ UNCHANGED reply
        \/ Return(p, "VerifyKey", "DEPLETED", frame[p].id)
        \/ Return(p, "VerifyKey", "Internal", Nil)
    BY <1>7 DEF VerifyDecrement
  <2> QED  BY <1>0, <2>4, <2>5, <2>6, <2>7
<1>8. CASE VerifyTouch(p)
  <2> DEFINE res == TouchLastVerifiedResult(keys, frame[p].id, frame[p].at)
  <2>1. UNCHANGED <<workspaces, apis, now, quota, keyHistory>>
    BY <1>8 DEF VerifyTouch
  <2>2. KeyTable(res.table, issued)
    BY <1>0, TouchLastVerifiedType, TypeSplit DEF Frame
  <2> HIDE DEF res
  <2>3. KeyTable(keys', issued')
    BY <1>8, <2>1, <2>2, StoreCallTable, TypeSplit DEF VerifyTouch, res
  <2>4. valids' \in [KeyIDs -> Nat]
    <3>1. frame[p].id \in KeyIDs
      BY <1>0, <1>8, TypeSplit DEF VerifyTouch, FrameOK, VerifyPCs
    <3>2. \/ valids' = valids
          \/ valids' = [valids EXCEPT ![frame[p].id] = @ + 1]
      BY <1>8 DEF VerifyTouch
    <3> QED  BY <3>1, <3>2, TypeSplit
  <2>5. admitted' \in [LimitIDs -> Nat]
    <3>1. limitCost(frame[p].req.cost) \in Nat
      BY <1>0, <1>8, ServerAssumption DEF VerifyTouch, FrameOK, VerifyPCs, limitCost
    <3> QED  BY <1>8, <3>1, TypeSplit DEF VerifyTouch
  <2>6. /\ FramesOK'
        /\ reply' \in Replies
    BY <1>0, <1>8, <2>1, ReturnType DEF VerifyTouch, Codes
  <2> QED  BY <2>1, <2>3, <2>4, <2>5, <2>6, TypeSplit, TypeNext
<1> QED  BY <1>3, <1>4, <1>5, <1>6, <1>7, <1>8 DEF VerifyStep

LEMMA RestartType ==
    ASSUME TypeOK, Restart
    PROVE  TypeOK'
<1>1. FramesOK'
  BY IdleType DEF Restart, FramesOK, FrameOK, Idle, VerifyPCs
<1>2. KeyTable(keys', issued')
  BY TypeSplit DEF Restart, KeyTable, EmptyTable, keyHistory, storeVars
<1>3. DOMAIN apis' \subseteq APIIDs /\ apis' \in [DOMAIN apis' -> API]
  BY TypeSplit DEF Restart, EmptyTable, storeVars
<1>4. reply' \in [rpc : RPCs \cup {"none"}, code : Codes, id : KeyIDs \cup {Nil}]
  BY DEF Restart, NoAnswer, Answer, Codes
<1> QED
  BY <1>1, <1>2, <1>3, <1>4, TypeSplit, TypeNext
  DEF Restart, storeVars, keyHistory, answerHistory

LEMMA TypeInit == Init => TypeOK
<1> SUFFICES ASSUME Init PROVE TypeOK  OBVIOUS
<1>1. FramesOK  BY IdleType DEF Init, FramesOK
<1>2. KeyTable(keys, issued)  BY DEF Init, KeyTable, EmptyTable
<1>3. reply \in [rpc : RPCs \cup {"none"}, code : Codes, id : KeyIDs \cup {Nil}]
  BY DEF Init, NoAnswer, Answer, Codes
<1> QED
  BY <1>1, <1>2, <1>3, TypeSplit, ServerAssumption DEF Init, EmptyTable, Time

LEMMA TypeStep == TypeOK /\ [Next]_vars => TypeOK'
<1> SUFFICES ASSUME TypeOK, [Next]_vars PROVE TypeOK'  OBVIOUS
<1>1. CASE Tick
  BY <1>1, TypeSplit, TypeNext, FramesSame
  DEF Tick, storeVars, keyHistory, answerHistory, Time
<1>2. CASE UNCHANGED vars
  BY <1>2, TypeSplit, TypeNext, FramesSame DEF vars
<1> QED
  BY <1>1, <1>2, OneStepType, CreateKeyStepType, CreateKeyStoreType,
     RotateStepsType, VerifyStepsType, RestartType
  DEF Next, HandlerStep

\* Every handler finds the locals it uses set: VerifyKey never decides on a
\* key it has not looked up, counters stay natural numbers, RemainingUses
\* stays a count or "unlimited".
THEOREM TypeCorrect == Spec => []TypeOK
BY TypeInit, TypeStep, PTL DEF Spec

-----------------------------------------------------------------------------
(* What a store call can do to the credits of keys that exist.              *)

\* No key appears, no credit is given, no limited key becomes unlimited.
Lessens(ks, ns) ==
    \A id \in DOMAIN ns :
        /\ id \in DOMAIN ks
        /\ ns[id].remaining <= ks[id].remaining
        /\ ks[id].remaining >= 0 => ns[id].remaining >= 0

LEMMA LessensSame ==
    ASSUME NEW ids, NEW ks, KeyTable(ks, ids)
    PROVE  Lessens(ks, ks)
BY DEF Lessens, KeyTable, Key

LEMMA LessensEmpty ==
    ASSUME NEW ks
    PROVE  Lessens(ks, EmptyTable)
BY DEF Lessens, EmptyTable

LEMMA LessensRevoke ==
    ASSUME NEW ids, NEW ks, KeyTable(ks, ids), NEW id
    PROVE  Lessens(ks, RevokeKeyResult(ks, id).table)
BY LessensSame DEF Lessens, KeyTable, Key, RevokeKeyResult, Result

LEMMA LessensRotate ==
    ASSUME NEW ids, NEW ks, KeyTable(ks, ids), NEW id, NEW h
    PROVE  Lessens(ks, RotateKeyResult(ks, id, h).table)
BY LessensSame DEF Lessens, KeyTable, Key, RotateKeyResult, Result

LEMMA LessensTouch ==
    ASSUME NEW ids, NEW ks, KeyTable(ks, ids), NEW id, NEW at
    PROVE  Lessens(ks, TouchLastVerifiedResult(ks, id, at).table)
BY LessensSame DEF Lessens, KeyTable, Key, TouchLastVerifiedResult, Result

LEMMA LessensDecrement ==
    ASSUME NEW ids, NEW ks, KeyTable(ks, ids), NEW id
    PROVE  Lessens(ks, DecrementRemainingUsesResult(ks, id).table)
BY LessensSame DEF Lessens, KeyTable, Key, DecrementRemainingUsesResult, Result

\* A successful decrement of a limited key takes exactly one credit.
LEMMA DecrementSpends ==
    ASSUME NEW ids, NEW ks, KeyTable(ks, ids), NEW id,
           DecrementRemainingUsesResult(ks, id).err = "nil"
    PROVE  LET n == DecrementRemainingUsesResult(ks, id).table IN
           /\ id \in DOMAIN ks /\ DOMAIN n = DOMAIN ks
           /\ ks[id].remaining >= 0 => n[id].remaining = ks[id].remaining - 1
BY DEF KeyTable, Key, DecrementRemainingUsesResult, Result

-----------------------------------------------------------------------------
(* The inductive invariant.                                                 *)

\* A key on its way into the store has an ID nobody else has or has had.
Fresh ==
    \A p \in Procs : frame[p].pc = "c_store" =>
        /\ frame[p].id \notin issued
        /\ \A q \in Procs \ {p} : frame[q].pc = "c_store" => frame[q].id # frame[p].id

\* Before a key is stored there is nothing to count; afterwards what is left
\* of its grant is in bounds and what is gone covers the answers.
Credit ==
    \A id \in KeyIDs :
        /\ id \notin issued => granted[id] = 0 /\ valids[id] = 0
        /\ granted[id] > 0 =>
              /\ id \in DOMAIN keys => keys[id].remaining \in 0 .. granted[id]
              /\ valids[id] + Cardinality(Paid(id)) <= Spent(id)

CreditInv == TypeOK /\ Fresh /\ Credit

LEMMA CreditImplies == CreditInv => NeverOverspent
<1> SUFFICES ASSUME CreditInv, NEW id \in KeyIDs, granted[id] > 0
             PROVE  /\ valids[id] + Cardinality(Paid(id)) <= Spent(id)
                    /\ Spent(id) <= granted[id]
  BY DEF NeverOverspent
<1>1. granted[id] \in Nat  BY DEF CreditInv, TypeOK
<1> QED  BY <1>1 DEF CreditInv, Credit, Spent

PaidFrame(f) == f.pc = "v_touch" /\ f.key.remaining > 0

LEMMA PaidCount ==
    ASSUME NEW id
    PROVE  /\ IsFiniteSet(Paid(id)) /\ Cardinality(Paid(id)) \in Nat
           /\ IsFiniteSet(Paid(id)') /\ Cardinality(Paid(id)') \in Nat
<1>1. Paid(id) \subseteq Procs /\ Paid(id)' \subseteq Procs  BY DEF Paid
<1> QED  BY <1>1, FS_Subset, FS_CardinalityType, ServerAssumption

LEMMA FreshSame ==
    ASSUME Fresh, UNCHANGED <<frame, issued>>
    PROVE  Fresh'
BY DEF Fresh

LEMMA FreshMove ==
    ASSUME TypeOK, Fresh, issued' = issued, NEW p \in Procs, NEW f,
           frame' = [frame EXCEPT ![p] = f], f.pc # "c_store"
    PROVE  Fresh'
<1>1. \A q \in Procs : frame'[q] = IF q = p THEN f ELSE frame[q]  BY DEF TypeOK
<1> QED  BY <1>1 DEF Fresh

LEMMA PaidMove ==
    ASSUME TypeOK, NEW p \in Procs, NEW f, frame' = [frame EXCEPT ![p] = f],
           ~PaidFrame(frame[p]), ~PaidFrame(f), NEW id
    PROVE  Paid(id)' = Paid(id)
<1>1. \A q \in Procs : frame'[q] = IF q = p THEN f ELSE frame[q]  BY DEF TypeOK
<1> QED  BY <1>1 DEF Paid, PaidFrame

LEMMA CreditQuiet ==
    ASSUME TypeOK, TypeOK', Credit, Lessens(keys, keys'),
           UNCHANGED <<issued, granted, valids>>,
           \A id \in KeyIDs : Paid(id)' \subseteq Paid(id)
    PROVE  Credit'
<1> SUFFICES ASSUME NEW id \in KeyIDs, granted[id] > 0
             PROVE  /\ id \in DOMAIN keys' => keys'[id].remaining \in 0 .. granted[id]
                    /\ valids[id] + Cardinality(Paid(id)') <= Spent(id)'
  BY DEF Credit
<1>1. granted[id] \in Nat /\ valids[id] \in Nat  BY DEF TypeOK
<1>2. id \in DOMAIN keys => keys[id].remaining \in 0 .. granted[id]  BY DEF Credit
<1>3. id \in DOMAIN keys' => keys'[id].remaining \in Int  BY DEF TypeOK, Key
<1>4. id \in DOMAIN keys' => /\ id \in DOMAIN keys
                             /\ keys'[id].remaining <= keys[id].remaining
                             /\ keys'[id].remaining >= 0
  BY <1>2 DEF Lessens
<1>5. Spent(id) <= Spent(id)' /\ Spent(id) \in Int /\ Spent(id)' \in Int
  BY <1>1, <1>2, <1>3, <1>4 DEF Spent
<1>6. Cardinality(Paid(id)) \in Nat /\ Cardinality(Paid(id)') \in Nat
  BY PaidCount
<1>7. valids[id] + Cardinality(Paid(id)) <= Spent(id)  BY DEF Credit
<1>8. Cardinality(Paid(id)') <= Cardinality(Paid(id))  BY PaidCount, FS_Subset
<1> QED  BY <1>1, <1>2, <1>3, <1>4, <1>5, <1>6, <1>7, <1>8

-----------------------------------------------------------------------------
(* Each handler preserves it.                                               *)

\* Steps that leave every handler where it is.
LEMMA CreditStill ==
    ASSUME CreditInv, TypeOK', Lessens(keys, keys'),
           UNCHANGED <<frame, issued, granted, valids>>
    PROVE  Fresh' /\ Credit'
<1>1. \A id \in KeyIDs : Paid(id)' \subseteq Paid(id)
  BY DEF Paid
<1> QED  BY <1>1, FreshSame, CreditQuiet DEF CreditInv

\* Steps of one handler on which no credit depends.
LEMMA CreditMove ==
    ASSUME CreditInv, TypeOK', NEW p \in Procs, NEW f,
           frame' = [frame EXCEPT ![p] = f], f.pc # "c_store",
           ~PaidFrame(frame[p]), ~PaidFrame(f),
           Lessens(keys, keys'), UNCHANGED <<issued, granted, valids>>
    PROVE  Fresh' /\ Credit'
<1>1. ASSUME NEW id \in KeyIDs
      PROVE  Paid(id)' \subseteq Paid(id)
  <2>1. Paid(id)' = Paid(id)  BY PaidMove, Zenon DEF CreditInv
  <2> QED  BY <2>1
<1> QED  BY <1>1, FreshMove, CreditQuiet DEF CreditInv

LEMMA CreditReturn ==
    ASSUME CreditInv, TypeOK', NEW p \in Procs, ~PaidFrame(frame[p]),
           frame' = [frame EXCEPT ![p] = Idle],
           Lessens(keys, keys'), UNCHANGED <<issued, granted, valids>>
    PROVE  Fresh' /\ Credit'
<1>1. Idle.pc = "idle" /\ ~PaidFrame(Idle)  BY DEF Idle, PaidFrame
<1> QED  BY <1>1, CreditMove

LEMMA CreditOneStep ==
    ASSUME CreditInv, TypeOK',
           \/ InvalidRequest \/ CreateWorkspace \/ CreateApi
           \/ GetWorkspace \/ GetApi \/ GetKey \/ RevokeKey \/ Tick
           \/ UNCHANGED vars
    PROVE  Fresh' /\ Credit'
<1>1. KeyTable(keys, issued)  BY TypeSplit DEF CreditInv
<1>2. CASE RevokeKey
  <2>1. Lessens(keys, keys')
    BY <1>1, <1>2, LessensSame, LessensRevoke, StoreCallTable DEF RevokeKey
  <2> QED  BY <1>2, <2>1, CreditStill DEF RevokeKey, Respond, keyHistory, answerHistory
<1>3. CASE keys' = keys /\ UNCHANGED <<frame, issued, granted, valids>>
  BY <1>1, <1>3, LessensSame, CreditStill
<1> QED
  BY <1>2, <1>3
  DEF InvalidRequest, CreateWorkspace, CreateApi, GetWorkspace, GetApi, GetKey, Get,
      Tick, Respond, storeVars, keyHistory, answerHistory, vars

LEMMA CreditRotate ==
    ASSUME CreditInv, TypeOK', NEW p \in Procs,
           RotateKey(p) \/ RotateKeyMaterial(p) \/ RotateKeyStore(p)
    PROVE  Fresh' /\ Credit'
<1>1. KeyTable(keys, issued) /\ frame \in [Procs -> Frame]
  BY TypeSplit DEF CreditInv, FramesOK
<1>2. ~PaidFrame(frame[p]) /\ UNCHANGED <<issued, granted, valids>>
  BY DEF RotateKey, RotateKeyMaterial, RotateKeyStore, PaidFrame, keyHistory, answerHistory
<1>3. Lessens(keys, keys')
  BY <1>1, LessensSame, LessensRotate, StoreCallTable
  DEF RotateKey, RotateKeyMaterial, RotateKeyStore, storeVars
<1>4. CASE frame' = [frame EXCEPT ![p] = Idle]
  BY <1>2, <1>3, <1>4, CreditReturn
<1>5. ASSUME NEW id, frame' = [frame EXCEPT ![p] =
                 [Idle EXCEPT !.pc = "r_api", !.id = id, !.key = keys[id]]]
      PROVE  Fresh' /\ Credit'
  <2> DEFINE f == [Idle EXCEPT !.pc = "r_api", !.id = id, !.key = keys[id]]
  <2>1. f.pc = "r_api"  BY DEF Idle
  <2> HIDE DEF f
  <2> QED  BY <1>2, <1>3, <1>5, <2>1, CreditMove DEF PaidFrame, f
<1>6. ASSUME NEW pt, frame' = [frame EXCEPT ![p].pc = "r_store", ![p].key = Nil,
                                            ![p].plaintext = pt]
      PROVE  Fresh' /\ Credit'
  <2> DEFINE f == [frame[p] EXCEPT !.pc = "r_store", !.key = Nil, !.plaintext = pt]
  <2>1. f.pc = "r_store"  BY <1>1 DEF Frame
  <2>2. frame' = [frame EXCEPT ![p] = f]  BY <1>1, <1>6
  <2> HIDE DEF f
  <2> QED  BY <1>2, <1>3, <2>1, <2>2, CreditMove DEF PaidFrame
<1> QED
  BY <1>4, <1>5, <1>6 DEF RotateKey, RotateKeyMaterial, RotateKeyStore, Return

LEMMA CreditVerify ==
    ASSUME CreditInv, TypeOK', NEW p \in Procs,
           VerifyKey(p) \/ VerifyLookup(p) \/ VerifyCheck(p) \/ VerifyLimit(p)
    PROVE  Fresh' /\ Credit'
<1>1. KeyTable(keys, issued) /\ frame \in [Procs -> Frame]
  BY TypeSplit DEF CreditInv, FramesOK
<1>2. ~PaidFrame(frame[p]) /\ UNCHANGED <<issued, granted, valids>>
  BY DEF VerifyKey, VerifyLookup, VerifyCheck, VerifyLimit, PaidFrame,
         keyHistory, answerHistory
<1>3. Lessens(keys, keys')
  BY <1>1, LessensSame DEF VerifyKey, VerifyLookup, VerifyCheck, VerifyLimit, storeVars
<1>4. ASSUME NEW f, frame' = [frame EXCEPT ![p] = f],
             f.pc \in {"v_lookup", "v_check", "v_limit", "v_decr"}
      PROVE  Fresh' /\ Credit'
  <2>1. ~PaidFrame(f) /\ f.pc # "c_store"  BY <1>4 DEF PaidFrame
  <2> QED  BY <1>2, <1>3, <1>4, <2>1, CreditMove
<1>5. CASE frame' = [frame EXCEPT ![p] = Idle]
  BY <1>2, <1>3, <1>5, CreditReturn
<1>6. CASE VerifyKey(p)
  <2>1. ASSUME NEW pt, NEW r, NEW d,
               frame' = [frame EXCEPT ![p] =
                   [Idle EXCEPT !.pc = "v_lookup", !.plaintext = pt, !.req = r, !.doomed = d]]
        PROVE  Fresh' /\ Credit'
    BY <1>4, <2>1 DEF Idle
  <2> QED  BY <1>5, <1>6, <2>1 DEF VerifyKey, Return
<1>7. CASE VerifyLookup(p)
  <2>1. ASSUME NEW id, frame' = [frame EXCEPT ![p].pc = "v_check", ![p].id = id,
                                              ![p].key = keys[id]]
        PROVE  Fresh' /\ Credit'
    <3> DEFINE f == [frame[p] EXCEPT !.pc = "v_check", !.id = id, !.key = keys[id]]
    <3>1. f.pc = "v_check" /\ frame' = [frame EXCEPT ![p] = f]  BY <1>1, <2>1 DEF Frame
    <3> HIDE DEF f
    <3> QED  BY <1>4, <3>1
  <2> QED  BY <1>5, <1>7, <2>1 DEF VerifyLookup, Return
<1>8. CASE Proceed(p)
  <2>1. CASE frame[p].key.remaining > 0
    <3> DEFINE f == [frame[p] EXCEPT !.pc = "v_decr"]
    <3>1. f.pc = "v_decr" /\ frame' = [frame EXCEPT ![p] = f]
      BY <1>1, <1>8, <2>1 DEF Proceed, Frame
    <3> HIDE DEF f
    <3> QED  BY <1>4, <3>1
  <2>2. CASE ~(frame[p].key.remaining > 0)
    <3> DEFINE f == [frame[p] EXCEPT !.pc = "v_touch", !.at = now]
    <3>1. f.pc = "v_touch" /\ f.key = frame[p].key /\ frame' = [frame EXCEPT ![p] = f]
      BY <1>1, <1>8, <2>2 DEF Proceed, Frame
    <3> HIDE DEF f
    <3>2. ~PaidFrame(f)  BY <2>2, <3>1 DEF PaidFrame
    <3> QED  BY <1>2, <1>3, <3>1, <3>2, CreditMove
  <2> QED  BY <2>1, <2>2
<1>9. CASE frame' = [frame EXCEPT ![p].pc = "v_limit"]
  <2> DEFINE f == [frame[p] EXCEPT !.pc = "v_limit"]
  <2>1. f.pc = "v_limit" /\ frame' = [frame EXCEPT ![p] = f]  BY <1>1, <1>9 DEF Frame
  <2> HIDE DEF f
  <2> QED  BY <1>4, <2>1
<1> QED
  BY <1>5, <1>6, <1>7, <1>8, <1>9 DEF VerifyCheck, VerifyLimit, Return

\* The credit is taken in the step that commits the handler to VALID.
LEMMA CreditDecrement ==
    ASSUME CreditInv, TypeOK', NEW p \in Procs, VerifyDecrement(p)
    PROVE  Fresh' /\ Credit'
<1>0. PICK i \in KeyIDs : i = frame[p].id
  BY TypeSplit DEF CreditInv, FramesOK, VerifyDecrement, FrameOK, VerifyPCs
<1> DEFINE res == DecrementRemainingUsesResult(keys, i)
<1>1. KeyTable(keys, issued) /\ frame \in [Procs -> Frame]
  BY TypeSplit DEF CreditInv, FramesOK
<1>2. ~PaidFrame(frame[p]) /\ UNCHANGED <<issued, granted, valids>>
  BY DEF VerifyDecrement, PaidFrame, keyHistory, answerHistory
<1>3. Lessens(keys, keys')
  BY <1>1, LessensSame, LessensDecrement, StoreCallTable DEF VerifyDecrement
<1>4. CASE frame' = [frame EXCEPT ![p] = Idle]
  BY <1>2, <1>3, <1>4, CreditReturn
<1>5. CASE /\ frame' = [frame EXCEPT ![p].pc = "v_touch", ![p].at = now]
           /\ keys' = res.table /\ res.err = "nil"
  <2> DEFINE f == [frame[p] EXCEPT !.pc = "v_touch", !.at = now]
  <2>1. /\ f.pc = "v_touch" /\ f.id = i /\ f.key = frame[p].key
        /\ frame' = [frame EXCEPT ![p] = f]
    BY <1>0, <1>1, <1>5 DEF Frame
  <2> HIDE DEF f
  <2>2. Fresh'  BY <1>2, <2>1, FreshMove DEF CreditInv
  <2>3. \A q \in Procs : frame'[q] = IF q = p THEN f ELSE frame[q]  BY <1>1, <2>1
  <2>4. \A id : id # i => Paid(id)' = Paid(id)  BY <1>0, <1>2, <2>1, <2>3 DEF Paid, PaidFrame
  <2>5. Paid(i)' \subseteq Paid(i) \cup {p}  BY <2>3 DEF Paid
  <2>6. Cardinality(Paid(i)') <= Cardinality(Paid(i)) + 1
    <3>1. IsFiniteSet(Paid(i) \cup {p})
          /\ Cardinality(Paid(i) \cup {p}) <= Cardinality(Paid(i)) + 1
      BY PaidCount, FS_AddElement
    <3>2. Cardinality(Paid(i)') <= Cardinality(Paid(i) \cup {p})
      BY <2>5, <3>1, FS_Subset
    <3>3. Cardinality(Paid(i) \cup {p}) \in Nat  BY <3>1, FS_CardinalityType
    <3> QED  BY <3>1, <3>2, <3>3, PaidCount
  <2>7. /\ i \in DOMAIN keys /\ DOMAIN keys' = DOMAIN keys
        /\ keys[i].remaining >= 0 => keys'[i].remaining = keys[i].remaining - 1
    BY <1>1, <1>5, DecrementSpends
  <2> SUFFICES ASSUME NEW id \in KeyIDs, granted[id] > 0
               PROVE  /\ id \in DOMAIN keys' => keys'[id].remaining \in 0 .. granted[id]
                      /\ valids[id] + Cardinality(Paid(id)') <= Spent(id)'
    BY <1>2, <2>2 DEF CreditInv, Credit
  <2> HIDE DEF res
  <2>8. granted[id] \in Nat /\ valids[id] \in Nat  BY DEF CreditInv, TypeOK
  <2>9. /\ id \in DOMAIN keys => keys[id].remaining \in 0 .. granted[id]
        /\ valids[id] + Cardinality(Paid(id)) <= Spent(id)
    BY DEF CreditInv, Credit
  <2>10. id \in DOMAIN keys' => keys'[id].remaining \in Int  BY DEF TypeOK, Key
  <2>11. id \in DOMAIN keys' => /\ id \in DOMAIN keys
                                /\ keys'[id].remaining <= keys[id].remaining
                                /\ keys'[id].remaining >= 0
    BY <1>3, <2>9 DEF Lessens
  <2>12. CASE id # i
    <3>1. Paid(id)' = Paid(id)  BY <2>4, <2>12
    <3>2. Spent(id) <= Spent(id)' /\ Spent(id) \in Int /\ Spent(id)' \in Int
      BY <1>2, <2>8, <2>9, <2>10, <2>11 DEF Spent
    <3> QED  BY <2>8, <2>9, <2>10, <2>11, <3>1, <3>2, PaidCount
  <2>13. CASE id = i
    <3>1. Spent(id)' = Spent(id) + 1 /\ Spent(id) \in Int
      BY <1>2, <2>7, <2>8, <2>9, <2>13 DEF Spent
    <3> QED  BY <2>6, <2>8, <2>9, <2>10, <2>11, <2>13, <3>1, PaidCount
  <2> QED  BY <2>12, <2>13
<1> QED
  BY <1>0, <1>4, <1>5 DEF VerifyDecrement, Return, StoreCall

\* The answer turns a handler that is owed a VALID into a VALID given.
LEMMA CreditTouch ==
    ASSUME CreditInv, TypeOK', NEW p \in Procs, VerifyTouch(p)
    PROVE  Fresh' /\ Credit'
<1>0. PICK i \in KeyIDs : i = frame[p].id
  BY TypeSplit DEF CreditInv, FramesOK, VerifyTouch, FrameOK, VerifyPCs
<1>1. KeyTable(keys, issued) /\ frame \in [Procs -> Frame]
  BY TypeSplit DEF CreditInv, FramesOK
<1>2. UNCHANGED <<issued, granted>> /\ frame' = [frame EXCEPT ![p] = Idle]
  BY DEF VerifyTouch, Return, keyHistory
<1>3. Lessens(keys, keys')
  BY <1>1, LessensSame, LessensTouch, StoreCallTable DEF VerifyTouch
<1>4. CASE ~PaidFrame(frame[p])
  <2>1. valids' = valids  BY <1>4 DEF VerifyTouch, PaidFrame
  <2> QED  BY <1>2, <1>3, <1>4, <2>1, CreditReturn
<1>5. CASE PaidFrame(frame[p])
  <2>1. valids' = [valids EXCEPT ![i] = @ + 1]
    BY <1>0, <1>5 DEF VerifyTouch, PaidFrame
  <2>2. Fresh'
    <3>1. Idle.pc # "c_store"  BY DEF Idle
    <3> QED  BY <1>2, <3>1, FreshMove DEF CreditInv
  <2>3. \A q \in Procs : frame'[q] = IF q = p THEN Idle ELSE frame[q]  BY <1>1, <1>2
  <2>4. Idle.pc # "v_touch"  BY DEF Idle
  <2>5. \A id : id # i => Paid(id)' = Paid(id)  BY <1>0, <2>3, <2>4 DEF Paid
  <2>6. Paid(i)' = Paid(i) \ {p} /\ p \in Paid(i)
    BY <1>0, <1>5, <2>3, <2>4 DEF Paid, PaidFrame
  <2>7. Cardinality(Paid(i)') = Cardinality(Paid(i)) - 1
    BY <2>6, PaidCount, FS_RemoveElement
  <2>8. i \in issued
    BY <1>0, TypeSplit DEF CreditInv, FramesOK, VerifyTouch, FrameOK, VerifyPCs
  <2> SUFFICES ASSUME NEW id \in KeyIDs
               PROVE  /\ id \notin issued => granted[id] = 0 /\ valids'[id] = 0
                      /\ granted[id] > 0 =>
                         /\ id \in DOMAIN keys' => keys'[id].remaining \in 0 .. granted[id]
                         /\ valids'[id] + Cardinality(Paid(id)') <= Spent(id)'
    BY <1>2, <2>2 DEF Credit
  <2>9. /\ granted[id] \in Nat /\ valids[id] \in Nat
        /\ valids'[id] = IF id = i THEN valids[id] + 1 ELSE valids[id]
    BY <2>1 DEF CreditInv, TypeOK
  <2>10. id \notin issued => granted[id] = 0 /\ valids'[id] = 0
    BY <2>8, <2>9 DEF CreditInv, Credit
  <2>11. ASSUME granted[id] > 0
         PROVE  /\ id \in DOMAIN keys' => keys'[id].remaining \in 0 .. granted[id]
                /\ valids'[id] + Cardinality(Paid(id)') <= Spent(id)'
    <3>1. /\ id \in DOMAIN keys => keys[id].remaining \in 0 .. granted[id]
          /\ valids[id] + Cardinality(Paid(id)) <= Spent(id)
      BY <2>11 DEF CreditInv, Credit
    <3>2. id \in DOMAIN keys' => keys'[id].remaining \in Int  BY DEF TypeOK, Key
    <3>3. id \in DOMAIN keys' => /\ id \in DOMAIN keys
                                 /\ keys'[id].remaining <= keys[id].remaining
                                 /\ keys'[id].remaining >= 0
      BY <1>3, <3>1 DEF Lessens
    <3>4. Spent(id) <= Spent(id)' /\ Spent(id) \in Int /\ Spent(id)' \in Int
      BY <1>2, <2>9, <3>1, <3>2, <3>3 DEF Spent
    <3>5. valids'[id] + Cardinality(Paid(id)') = valids[id] + Cardinality(Paid(id))
      <4>1. CASE id = i  BY <2>7, <2>9, <4>1, PaidCount
      <4>2. CASE id # i  BY <2>5, <2>9, <4>2
      <4> QED  BY <4>1, <4>2
    <3>6. valids[id] + Cardinality(Paid(id)) \in Int  BY <2>9, PaidCount
    <3> QED  BY <2>9, <3>1, <3>2, <3>3, <3>4, <3>5, <3>6
  <2> QED  BY <2>10, <2>11
<1> QED  BY <1>4, <1>5

LEMMA CreditCreate ==
    ASSUME CreditInv, TypeOK', NEW p \in Procs, CreateKey(p)
    PROVE  Fresh' /\ Credit'
<1>1. KeyTable(keys, issued) /\ frame \in [Procs -> Frame]
  BY TypeSplit DEF CreditInv, FramesOK
<1>2. ~PaidFrame(frame[p]) /\ UNCHANGED <<keys, issued, granted, valids>>
  BY DEF CreateKey, PaidFrame, storeVars, keyHistory, answerHistory
<1>3. Lessens(keys, keys')  BY <1>1, <1>2, LessensSame
<1>4. CASE frame' = [frame EXCEPT ![p] = Idle]
  BY <1>2, <1>3, <1>4, CreditReturn
<1>5. ASSUME NEW id \in FreshKeyIDs, NEW pt, NEW k,
             frame' = [frame EXCEPT ![p] = [Idle EXCEPT !.pc = "c_store", !.id = id,
                                               !.plaintext = pt, !.key = k]]
      PROVE  Fresh' /\ Credit'
  <2> DEFINE f == [Idle EXCEPT !.pc = "c_store", !.id = id, !.plaintext = pt, !.key = k]
  <2>1. f.pc = "c_store" /\ f.id = id /\ frame' = [frame EXCEPT ![p] = f]
    BY <1>5 DEF Idle
  <2> HIDE DEF f
  <2>2. \A q \in Procs : frame'[q] = IF q = p THEN f ELSE frame[q]  BY <1>1, <2>1
  <2>3. Fresh'
    BY <1>2, <2>1, <2>2 DEF Fresh, FreshKeyIDs, CreditInv
  <2>4. ~PaidFrame(f)  BY <2>1 DEF PaidFrame
  <2>5. ASSUME NEW i \in KeyIDs
        PROVE  Paid(i)' \subseteq Paid(i)
    BY <1>2, <2>2, <2>4 DEF Paid, PaidFrame
  <2> QED  BY <1>2, <1>3, <2>3, <2>5, CreditQuiet DEF CreditInv
<1>6. PICK api \in APIIDs :
          \/ frame' = [frame EXCEPT ![p] = Idle]
          \/ \E id \in FreshKeyIDs, s \in FreshSecrets, r \in KeyRequests :
                frame' = [frame EXCEPT ![p] =
                   [Idle EXCEPT !.pc = "c_store", !.id = id,
                      !.plaintext = NewPlaintext(apis[api].prefix, s),
                      !.key = NewKey(api, NewPlaintext(apis[api].prefix, s), r)]]
  BY Zenon DEF CreateKey, Return
<1> QED  BY <1>4, <1>5, <1>6

LEMMA CreditCreateStore ==
    ASSUME CreditInv, TypeOK', NEW p \in Procs, CreateKeyStore(p)
    PROVE  Fresh' /\ Credit'
<1>0. PICK i \in KeyIDs : i = frame[p].id
  BY TypeSplit DEF CreditInv, FramesOK, CreateKeyStore, FrameOK
<1>1. /\ KeyTable(keys, issued) /\ frame \in [Procs -> Frame]
      /\ frame[p].pc = "c_store" /\ frame[p].key \in Key
  BY TypeSplit DEF CreditInv, FramesOK, CreateKeyStore, FrameOK
<1>2. valids' = valids /\ frame' = [frame EXCEPT ![p] = Idle]
  BY DEF CreateKeyStore, Return, answerHistory
<1>3. CASE keys' = keys
  <2>1. UNCHANGED <<issued, granted>> /\ ~PaidFrame(frame[p])
    BY <1>3 DEF CreateKeyStore, keyHistory, PaidFrame
  <2>2. Lessens(keys, keys')  BY <1>1, <1>3, LessensSame
  <2> QED  BY <1>2, <2>1, <2>2, CreditReturn
<1>4. CASE keys' # keys
  <2> DEFINE k == frame[p].key
             n == IF k.remaining > 0 THEN k.remaining ELSE 0
  <2>1. /\ issued' = issued \cup {i}
        /\ granted' = [granted EXCEPT ![i] = n]
        /\ keys' = Put(keys, i, k)
    BY <1>0, <1>4 DEF CreateKeyStore, RecordIssue, StoreCall, CreateKeyResult, Result
  <2>2. \A q \in Procs : frame'[q] = IF q = p THEN Idle ELSE frame[q]  BY <1>1, <1>2
  <2>3. Idle.pc = "idle"  BY DEF Idle
  <2>4. i \notin issued /\ Fresh'
    BY <1>0, <1>1, <2>1, <2>2, <2>3 DEF CreditInv, Fresh
  <2>5. \A id : Paid(id)' = Paid(id)
    BY <1>1, <2>2, <2>3 DEF Paid
  <2>6. Paid(i) = {}
    BY <2>4, TypeSplit DEF CreditInv, FramesOK, FrameOK, VerifyPCs, Paid
  <2> SUFFICES ASSUME NEW id \in KeyIDs
               PROVE  /\ id \notin issued' => granted'[id] = 0 /\ valids[id] = 0
                      /\ granted'[id] > 0 =>
                         /\ id \in DOMAIN keys' => keys'[id].remaining \in 0 .. granted'[id]
                         /\ valids[id] + Cardinality(Paid(id)') <= Spent(id)'
    BY <1>2, <2>4 DEF Credit
  <2>7. CASE id # i
    <3>1. /\ granted'[id] = granted[id]
          /\ id \in DOMAIN keys' <=> id \in DOMAIN keys
          /\ id \in DOMAIN keys => keys'[id] = keys[id]
          /\ id \notin issued' => id \notin issued
      BY <2>1, <2>7 DEF Put, CreditInv, TypeOK
    <3>2. Spent(id)' = Spent(id)  BY <3>1 DEF Spent
    <3>3. Paid(id)' = Paid(id)  BY <2>5
    <3> QED  BY <3>1, <3>2, <3>3 DEF CreditInv, Credit
  <2>8. CASE id = i
    <3>1. id \in issued' /\ id \in DOMAIN keys' /\ keys'[id] = k /\ granted'[id] = n
      BY <2>1, <2>8 DEF Put, CreditInv, TypeOK
    <3>2. k.remaining \in Nat \cup {-1}  BY <1>1 DEF Key
    <3>3. valids[id] = 0  BY <2>4, <2>8 DEF CreditInv, Credit
    <3>4. Cardinality(Paid(id)') = 0  BY <2>5, <2>6, <2>8, FS_EmptySet
    <3> HIDE DEF k
    <3>5. granted'[id] > 0 => Spent(id)' = 0 /\ k.remaining = n  BY <3>1, <3>2 DEF Spent
    <3> QED  BY <3>1, <3>2, <3>3, <3>4, <3>5
  <2> QED  BY <2>7, <2>8
<1> QED  BY <1>3, <1>4

\* A restart forgives what is owed; a memory store also loses what is left.
LEMMA CreditRestart ==
    ASSUME CreditInv, TypeOK', Restart
    PROVE  Fresh' /\ Credit'
<1>1. \A q \in Procs : frame'[q].pc = "idle"  BY DEF Restart, Idle
<1>2. Fresh'  BY <1>1 DEF Fresh
<1>3. \A id \in KeyIDs : Paid(id)' \subseteq Paid(id)  BY <1>1 DEF Paid
<1>4. Lessens(keys, keys')
  BY LessensSame, LessensEmpty, TypeSplit DEF Restart, CreditInv, storeVars
<1>5. UNCHANGED <<issued, granted, valids>>  BY DEF Restart, keyHistory, answerHistory
<1> QED  BY <1>2, <1>3, <1>4, <1>5, CreditQuiet DEF CreditInv

LEMMA CreditInit == Init => CreditInv
<1> SUFFICES ASSUME Init PROVE CreditInv  OBVIOUS
<1>1. Fresh  BY DEF Init, Idle, Fresh
<1>2. Credit  BY DEF Init, Credit
<1> QED  BY <1>1, <1>2, TypeInit DEF CreditInv

LEMMA CreditStep == CreditInv /\ [Next]_vars => CreditInv'
<1> SUFFICES ASSUME CreditInv, [Next]_vars PROVE CreditInv'  OBVIOUS
<1>1. TypeOK'  BY TypeStep DEF CreditInv
<1>2. Fresh' /\ Credit'
  BY <1>1, CreditOneStep, CreditRotate, CreditVerify, CreditDecrement, CreditTouch,
     CreditCreate, CreditCreateStore, CreditRestart
  DEF Next, HandlerStep, VerifyStep
<1> QED  BY <1>1, <1>2 DEF CreditInv

\* However many goroutines race for a limited key's last credits, whatever
\* store answers are lost and whenever the server is restarted, VerifyKey
\* answers VALID at most as often as CreateKey granted uses.
THEOREM CreditsSafe == Spec => []NeverOverspent
BY CreditInit, CreditStep, CreditImplies, PTL DEF Spec

=============================================================================
