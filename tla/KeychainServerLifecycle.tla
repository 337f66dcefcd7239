----------------------- MODULE KeychainServerLifecycle ----------------------
(* How keys change and what that means for the answers of VerifyKey, and    *)
(* what those answers cost (the touch, the credit, the limiter's budget),   *)
(* for every value of the constants of KeychainServer.                      *)
EXTENDS KeychainServerProofs

-----------------------------------------------------------------------------
(* Every write to a stored key is one of the steps Evolves allows.          *)

TableEvolves(ks, ns) ==
    /\ DOMAIN ns \subseteq DOMAIN ks
    /\ \A id \in DOMAIN ns : Evolves(ks[id], ns[id])

LEMMA EvolvesSame ==
    ASSUME NEW k \in Key
    PROVE  Evolves(k, k)
BY DEF Evolves, Key

LEMMA TableSame ==
    ASSUME NEW ids, NEW ks, KeyTable(ks, ids)
    PROVE  TableEvolves(ks, ks)
BY EvolvesSame DEF TableEvolves, KeyTable

LEMMA TableUpdate ==
    ASSUME NEW ids, NEW ks, KeyTable(ks, ids), NEW id \in DOMAIN ks, NEW n,
           Evolves(ks[id], n)
    PROVE  TableEvolves(ks, [ks EXCEPT ![id] = n])
BY EvolvesSame DEF TableEvolves, KeyTable

LEMMA RevokeEvolves ==
    ASSUME NEW ids, NEW ks, KeyTable(ks, ids), NEW id
    PROVE  TableEvolves(ks, RevokeKeyResult(ks, id).table)
<1>1. CASE id \in DOMAIN ks
  <2> DEFINE n == [ks[id] EXCEPT !.enabled = FALSE]
  <2>1. ks[id] \in Key  BY <1>1 DEF KeyTable
  <2>2. Evolves(ks[id], n)  BY <2>1 DEF Evolves, Key
  <2>3. RevokeKeyResult(ks, id).table = [ks EXCEPT ![id] = n]
    BY <1>1 DEF RevokeKeyResult, Result
  <2> HIDE DEF n
  <2> QED  BY <1>1, <2>2, <2>3, TableUpdate
<1>2. CASE id \notin DOMAIN ks
  BY <1>2, TableSame DEF RevokeKeyResult, Result
<1> QED  BY <1>1, <1>2

LEMMA RotateEvolves ==
    ASSUME NEW ids, NEW ks, KeyTable(ks, ids), NEW id, NEW h
    PROVE  TableEvolves(ks, RotateKeyResult(ks, id, h).table)
<1>1. CASE RotateKeyResult(ks, id, h).table # ks
  <2> DEFINE n == [ks[id] EXCEPT !.hash = h]
  <2>1. id \in DOMAIN ks  BY <1>1 DEF RotateKeyResult, Result
  <2>2. ks[id] \in Key  BY <2>1 DEF KeyTable
  <2>3. Evolves(ks[id], n)  BY <2>2 DEF Evolves, Key
  <2>4. RotateKeyResult(ks, id, h).table = [ks EXCEPT ![id] = n]
    BY <1>1, <2>1 DEF RotateKeyResult, Result
  <2> HIDE DEF n
  <2> QED  BY <2>1, <2>3, <2>4, TableUpdate
<1> QED  BY <1>1, TableSame

LEMMA TouchEvolves ==
    ASSUME NEW ids, NEW ks, KeyTable(ks, ids), NEW id, NEW at
    PROVE  TableEvolves(ks, TouchLastVerifiedResult(ks, id, at).table)
<1>1. CASE id \in DOMAIN ks
  <2> DEFINE n == [ks[id] EXCEPT !.lastVerifiedAt = at]
  <2>1. ks[id] \in Key  BY <1>1 DEF KeyTable
  <2>2. Evolves(ks[id], n)  BY <2>1 DEF Evolves, Key
  <2>3. TouchLastVerifiedResult(ks, id, at).table = [ks EXCEPT ![id] = n]
    BY <1>1 DEF TouchLastVerifiedResult, Result
  <2> HIDE DEF n
  <2> QED  BY <1>1, <2>2, <2>3, TableUpdate
<1>2. CASE id \notin DOMAIN ks
  BY <1>2, TableSame DEF TouchLastVerifiedResult, Result
<1> QED  BY <1>1, <1>2

LEMMA DecrementEvolves ==
    ASSUME NEW ids, NEW ks, KeyTable(ks, ids), NEW id
    PROVE  TableEvolves(ks, DecrementRemainingUsesResult(ks, id).table)
<1>1. CASE DecrementRemainingUsesResult(ks, id).table # ks
  <2> DEFINE n == [ks[id] EXCEPT !.remaining = ks[id].remaining - 1]
  <2>1. id \in DOMAIN ks  BY <1>1 DEF DecrementRemainingUsesResult, Result
  <2>2. ks[id] \in Key  BY <2>1 DEF KeyTable
  <2>3. ks[id].remaining > 0
    BY <1>1, <2>1, <2>2 DEF DecrementRemainingUsesResult, Result, Key
  <2>4. Evolves(ks[id], n)  BY <2>2, <2>3 DEF Evolves, Key
  <2>5. DecrementRemainingUsesResult(ks, id).table = [ks EXCEPT ![id] = n]
    BY <1>1, <2>1 DEF DecrementRemainingUsesResult, Result
  <2> HIDE DEF n
  <2> QED  BY <2>1, <2>4, <2>5, TableUpdate
<1> QED  BY <1>1, TableSame

\* What a step does to the keys: it changes some, loses all, or stores a new
\* one under an ID never used before.
KeysStep ==
    \/ TableEvolves(keys, keys')
    \/ \E p \in Procs : /\ frame[p].pc = "c_store" /\ frame[p].id \notin issued
                        /\ frame[p].id \in issued'
                        /\ keys' = Put(keys, frame[p].id, frame[p].key)

LEMMA EveryKeysStep == CreditInv /\ [Next]_vars => KeysStep
<1> SUFFICES ASSUME CreditInv, [Next]_vars PROVE KeysStep  OBVIOUS
<1>1. KeyTable(keys, issued)  BY TypeSplit DEF CreditInv
<1>2. CASE keys' = keys  BY <1>1, <1>2, TableSame DEF KeysStep
<1>3. CASE RevokeKey
  BY <1>1, <1>3, TableSame, RevokeEvolves, StoreCallTable DEF RevokeKey, KeysStep
<1>4. ASSUME NEW p \in Procs, RotateKeyStore(p) PROVE KeysStep
  BY <1>1, <1>4, TableSame, RotateEvolves, StoreCallTable DEF RotateKeyStore, KeysStep
<1>5. ASSUME NEW p \in Procs, VerifyTouch(p) PROVE KeysStep
  BY <1>1, <1>5, TableSame, TouchEvolves, StoreCallTable DEF VerifyTouch, KeysStep
<1>6. ASSUME NEW p \in Procs, VerifyDecrement(p) PROVE KeysStep
  BY <1>1, <1>6, TableSame, DecrementEvolves, StoreCallTable DEF VerifyDecrement, KeysStep
<1>7. ASSUME NEW p \in Procs, CreateKeyStore(p), keys' # keys PROVE KeysStep
  <2>1. keys' = Put(keys, frame[p].id, frame[p].key) /\ frame[p].id \in issued'
    BY <1>7 DEF CreateKeyStore, StoreCall, CreateKeyResult, Result, RecordIssue
  <2>2. frame[p].pc = "c_store" /\ frame[p].id \notin issued
    BY <1>7 DEF CreateKeyStore, CreditInv, Fresh
  <2> QED  BY <2>1, <2>2 DEF KeysStep
<1>8. CASE keys' = EmptyTable  BY <1>8 DEF KeysStep, TableEvolves, EmptyTable
<1> QED
  BY <1>2, <1>3, <1>4, <1>5, <1>6, <1>7, <1>8
  DEF Next, HandlerStep, VerifyStep, InvalidRequest, CreateWorkspace, CreateApi,
      GetWorkspace, GetApi, GetKey, Get, CreateKey, RotateKey, RotateKeyMaterial,
      VerifyKey, VerifyLookup, VerifyCheck, VerifyLimit, Tick, Restart, storeVars, vars

LEMMA StepEvolves ==
    ASSUME CreditInv, [Next]_vars
    PROVE  \A id \in DOMAIN keys \cap DOMAIN keys' : Evolves(keys[id], keys'[id])
<1>1. KeysStep  BY EveryKeysStep
<1>2. CASE TableEvolves(keys, keys')  BY <1>2 DEF TableEvolves
<1>3. ASSUME NEW p \in Procs, frame[p].id \notin issued,
             keys' = Put(keys, frame[p].id, frame[p].key)
      PROVE  \A id \in DOMAIN keys \cap DOMAIN keys' : Evolves(keys[id], keys'[id])
  <2>1. KeyTable(keys, issued)  BY TypeSplit DEF CreditInv
  <2>2. \A id \in DOMAIN keys : keys'[id] = keys[id] /\ keys[id] \in Key
    BY <1>3, <2>1 DEF KeyTable, Put
  <2> QED  BY <2>2, EvolvesSame
<1> QED  BY <1>1, <1>2, <1>3 DEF KeysStep

\* Whichever handlers run against each other and whatever answers they lose,
\* a stored key is only ever rotated, revoked, charged or touched, one at a
\* time: a rotation, which writes two calls after it looked at the key, never
\* undoes a revocation or gives a credit back.
THEOREM KeysOnlyEvolve == Spec => KeyEvolution
<1>1. CreditInv /\ [Next]_vars
        => [\A id \in DOMAIN keys \cap DOMAIN keys' : Evolves(keys[id], keys'[id])]_vars
  BY StepEvolves
<1> QED  BY <1>1, CreditInit, CreditStep, PTL DEF Spec, KeyEvolution

-----------------------------------------------------------------------------
(* A denial decided on a copy of the key is true of the key.                *)

\* n is what became of k: what made k fail its checks makes n fail them.
Follows(k, n) ==
    /\ n.expiresAt = k.expiresAt
    /\ ~k.enabled => ~n.enabled
    /\ k.remaining = 0 => n.remaining = 0

LEMMA FollowsSame ==
    ASSUME NEW k
    PROVE  Follows(k, k)
BY DEF Follows

LEMMA EvolvesFollows ==
    ASSUME NEW j, NEW k \in Key, NEW n \in Key, Follows(j, k), Evolves(k, n)
    PROVE  Follows(j, n)
BY DEF Follows, Evolves, Key

\* The copies VerifyKey decides on.
Copies ==
    \A p \in Procs : frame[p].pc \in VerifyPCs \ {"v_lookup"} =>
        (frame[p].id \in DOMAIN keys => Follows(frame[p].key, keys[frame[p].id]))

\* What a denial says of a key.
DeniedFor(code, k) ==
    /\ code = "REVOKED"  => ~k.enabled
    /\ code = "EXPIRED"  => Expired(k)
    /\ code = "DEPLETED" => k.remaining = 0

DenialInv ==
    /\ CreditInv
    /\ Copies
    /\ reply.id # Nil => reply.id \in issued
    /\ reply.id \in DOMAIN keys => DeniedFor(reply.code, keys[reply.id])

\* Keys that were there before a step have followed from what they were, and
\* the ID of a new one is in nobody's hands.
LEMMA KeysFollow ==
    ASSUME DenialInv, TypeOK', [Next]_vars, NEW id \in issued, id \in DOMAIN keys'
    PROVE  /\ id \in DOMAIN keys
           /\ keys[id] \in Key /\ keys'[id] \in Key
           /\ Evolves(keys[id], keys'[id])
<1>1. KeysStep  BY EveryKeysStep DEF DenialInv
<1>2. KeyTable(keys, issued) /\ KeyTable(keys', issued')
  BY DEF DenialInv, CreditInv, TypeOK, KeyTable
<1>3. id \in DOMAIN keys
  BY <1>1 DEF KeysStep, TableEvolves, Put
<1>4. Evolves(keys[id], keys'[id])  BY <1>3, StepEvolves DEF DenialInv
<1> QED  BY <1>2, <1>3, <1>4 DEF KeyTable

LEMMA IssuedGrows == [Next]_vars => issued \subseteq issued'
BY DEF Next, HandlerStep, VerifyStep, InvalidRequest, CreateWorkspace, CreateApi,
      GetWorkspace, GetApi, GetKey, Get, RevokeKey, CreateKey, CreateKeyStore, RecordIssue,
      RotateKey, RotateKeyMaterial, RotateKeyStore, VerifyKey, VerifyLookup, VerifyCheck,
      VerifyLimit, VerifyDecrement, VerifyTouch, Tick, Restart, keyHistory, vars

LEMMA ClockGrows ==
    ASSUME TypeOK, [Next]_vars
    PROVE  now' \in Time /\ now <= now'
<1>1. now' = now \/ now' = now + 1
  BY DEF Next, HandlerStep, VerifyStep, InvalidRequest, CreateWorkspace, CreateApi,
      GetWorkspace, GetApi, GetKey, Get, RevokeKey, CreateKey, CreateKeyStore,
      RotateKey, RotateKeyMaterial, RotateKeyStore, VerifyKey, VerifyLookup, VerifyCheck,
      VerifyLimit, VerifyDecrement, VerifyTouch, Tick, Restart, vars
<1> QED  BY <1>1 DEF TypeOK, Time

LEMMA ExpiredStays ==
    ASSUME TypeOK, [Next]_vars, NEW k \in Key, NEW n, n.expiresAt = k.expiresAt, Expired(k)
    PROVE  Expired(n)'
BY ClockGrows, NilAssumption DEF Expired, Key, TypeOK, Time, TimePtr

LEMMA DeniedStays ==
    ASSUME TypeOK, [Next]_vars, NEW code, NEW k \in Key, NEW n, Follows(k, n),
           DeniedFor(code, k)
    PROVE  DeniedFor(code, n)'
BY ExpiredStays DEF DeniedFor, Follows

\* What a step does to the frame of one handler, as far as VerifyKey goes.
Passed == {"v_limit", "v_decr", "v_touch"}

Arrives(p) ==
    /\ frame'[p].pc = "v_lookup"
    /\ frame'[p].doomed = DeadHash(Hash(frame'[p].plaintext))
    /\ UNCHANGED <<keys, bound, now>>

LooksUp(p) ==
    /\ frame[p].pc = "v_lookup" /\ frame'[p].pc = "v_check"
    /\ frame'[p].doomed = frame[p].doomed
    /\ frame'[p].id \in Hashed(Hash(frame[p].plaintext))
    /\ frame'[p].key = keys[frame'[p].id]
    /\ UNCHANGED <<keys, now>>

Passes(p) ==
    /\ frame'[p].pc \in Passed
    /\ frame[p].pc \in Passed \/ (frame[p].pc = "v_check" /\ Verdict(frame[p]) = "pass")
    /\ frame'[p].id = frame[p].id /\ frame'[p].key = frame[p].key
    /\ frame'[p].doomed = frame[p].doomed

FrameStep(p) ==
    \/ frame'[p] = frame[p] \/ frame'[p].pc \notin VerifyPCs
    \/ Arrives(p) \/ LooksUp(p) \/ Passes(p)

LEMMA OtherFrames ==
    ASSUME TypeOK, NEW q \in Procs, NEW f, frame' = [frame EXCEPT ![q] = f],
           NEW p \in Procs
    PROVE  frame'[p] = IF p = q THEN f ELSE frame[p]
BY DEF TypeOK

LEMMA ReturnFrames ==
    ASSUME TypeOK, NEW q \in Procs, frame' = [frame EXCEPT ![q] = Idle], NEW p \in Procs
    PROVE  FrameStep(p)
<1>1. Idle.pc \notin VerifyPCs  BY DEF Idle, VerifyPCs
<1> QED  BY <1>1, OtherFrames DEF FrameStep

LEMMA ProceedFrames ==
    ASSUME TypeOK, NEW q \in Procs, Proceed(q), NEW p \in Procs,
           frame[q].pc = "v_limit" \/ (frame[q].pc = "v_check" /\ Verdict(frame[q]) = "pass")
    PROVE  FrameStep(p)
<1>1. frame[q] \in Frame  BY DEF TypeOK
<1>2. PICK f : /\ frame' = [frame EXCEPT ![q] = f]
               /\ f.pc \in Passed /\ f.id = frame[q].id /\ f.key = frame[q].key
               /\ f.doomed = frame[q].doomed
  <2>1. CASE frame' = [frame EXCEPT ![q].pc = "v_decr"]
    <3> DEFINE f == [frame[q] EXCEPT !.pc = "v_decr"]
    <3>1. /\ frame' = [frame EXCEPT ![q] = f]
          /\ f.pc \in Passed /\ f.id = frame[q].id /\ f.key = frame[q].key
          /\ f.doomed = frame[q].doomed
      BY <1>1, <2>1 DEF Frame, Passed
    <3> QED  BY <3>1
  <2>2. CASE frame' = [frame EXCEPT ![q].pc = "v_touch", ![q].at = now]
    <3> DEFINE f == [frame[q] EXCEPT !.pc = "v_touch", !.at = now]
    <3>1. /\ frame' = [frame EXCEPT ![q] = f]
          /\ f.pc \in Passed /\ f.id = frame[q].id /\ f.key = frame[q].key
          /\ f.doomed = frame[q].doomed
      BY <1>1, <2>2 DEF Frame, Passed
    <3> QED  BY <3>1
  <2> QED  BY <2>1, <2>2 DEF Proceed
<1>3. frame'[p] = IF p = q THEN f ELSE frame[p]  BY <1>2, OtherFrames
<1> QED  BY <1>2, <1>3 DEF FrameStep, Passes, Passed

LEMMA VerifyFrames ==
    ASSUME TypeOK, NEW q \in Procs, VerifyKey(q) \/ VerifyStep(q), NEW p \in Procs
    PROVE  FrameStep(p)
<1>1. frame[q] \in Frame  BY DEF TypeOK
<1>2. CASE frame' = [frame EXCEPT ![q] = Idle]  BY <1>2, ReturnFrames
<1>3. CASE VerifyKey(q)
  <2>1. ASSUME NEW pt, NEW r,
               frame' = [frame EXCEPT ![q] =
                   [Idle EXCEPT !.pc = "v_lookup", !.plaintext = pt, !.req = r,
                                !.doomed = DeadHash(Hash(pt))]]
        PROVE  FrameStep(p)
    <3>0. PICK d : d = DeadHash(Hash(pt))  OBVIOUS
    <3> DEFINE f == [Idle EXCEPT !.pc = "v_lookup", !.plaintext = pt, !.req = r, !.doomed = d]
    <3>1. f.pc = "v_lookup" /\ f.plaintext = pt /\ f.doomed = d  BY DEF Idle
    <3>2. frame' = [frame EXCEPT ![q] = f]  BY <2>1, <3>0
    <3> HIDE DEF f
    <3>3. frame'[p] = IF p = q THEN f ELSE frame[p]  BY <3>2, OtherFrames
    <3>4. UNCHANGED <<keys, bound, now>>  BY <1>3 DEF VerifyKey, storeVars, keyHistory
    <3> QED  BY <3>0, <3>1, <3>3, <3>4 DEF FrameStep, Arrives
  <2> QED  BY <1>2, <1>3, <2>1 DEF VerifyKey, Return
<1>4. CASE VerifyLookup(q)
  <2>1. ASSUME NEW id \in Hashed(Hash(frame[q].plaintext)),
               frame' = [frame EXCEPT ![q].pc = "v_check", ![q].id = id,
                                      ![q].key = keys[id]]
        PROVE  FrameStep(p)
    <3> DEFINE f == [frame[q] EXCEPT !.pc = "v_check", !.id = id, !.key = keys[id]]
    <3>1. /\ f.pc = "v_check" /\ f.id = id /\ f.key = keys[id]
          /\ f.doomed = frame[q].doomed /\ frame' = [frame EXCEPT ![q] = f]
      BY <1>1, <2>1 DEF Frame
    <3> HIDE DEF f
    <3>2. frame'[p] = IF p = q THEN f ELSE frame[p]  BY <3>1, OtherFrames
    <3>3. UNCHANGED <<keys, now>> /\ frame[q].pc = "v_lookup"
      BY <1>4 DEF VerifyLookup, storeVars
    <3> QED  BY <3>1, <3>2, <3>3 DEF FrameStep, LooksUp
  <2> QED  BY <1>2, <1>4, <2>1 DEF VerifyLookup, Return
<1>5. CASE VerifyCheck(q)
  <2>1. CASE Verdict(frame[q]) = "pass" /\ frame' = [frame EXCEPT ![q].pc = "v_limit"]
    <3> DEFINE f == [frame[q] EXCEPT !.pc = "v_limit"]
    <3>1. /\ f.pc = "v_limit" /\ f.id = frame[q].id /\ f.key = frame[q].key
          /\ f.doomed = frame[q].doomed /\ frame' = [frame EXCEPT ![q] = f]
      BY <1>1, <2>1 DEF Frame
    <3> HIDE DEF f
    <3>2. frame'[p] = IF p = q THEN f ELSE frame[p]  BY <3>1, OtherFrames
    <3> QED  BY <1>5, <2>1, <3>1, <3>2 DEF VerifyCheck, FrameStep, Passes, Passed
  <2> QED  BY <1>2, <1>5, <2>1, ProceedFrames DEF VerifyCheck, Return
<1>6. CASE VerifyLimit(q)
  BY <1>2, <1>6, ProceedFrames DEF VerifyLimit, Return
<1>7. CASE VerifyDecrement(q)
  <2>1. CASE frame' = [frame EXCEPT ![q].pc = "v_touch", ![q].at = now]
    <3> DEFINE f == [frame[q] EXCEPT !.pc = "v_touch", !.at = now]
    <3>1. /\ f.pc = "v_touch" /\ f.id = frame[q].id /\ f.key = frame[q].key
          /\ f.doomed = frame[q].doomed /\ frame' = [frame EXCEPT ![q] = f]
      BY <1>1, <2>1 DEF Frame
    <3> HIDE DEF f
    <3>2. frame'[p] = IF p = q THEN f ELSE frame[p]  BY <3>1, OtherFrames
    <3> QED  BY <1>7, <3>1, <3>2 DEF VerifyDecrement, FrameStep, Passes, Passed
  <2> QED  BY <1>2, <1>7, <2>1 DEF VerifyDecrement, Return
<1>8. CASE VerifyTouch(q)
  BY <1>2, <1>8 DEF VerifyTouch, Return
<1> QED  BY <1>3, <1>4, <1>5, <1>6, <1>7, <1>8 DEF VerifyStep

LEMMA EveryFrameStep ==
    ASSUME TypeOK, [Next]_vars, NEW p \in Procs
    PROVE  FrameStep(p)
<1>1. CASE frame' = frame  BY <1>1 DEF FrameStep
<1>2. ASSUME NEW q \in Procs, NEW f, frame' = [frame EXCEPT ![q] = f],
             f.pc \notin VerifyPCs
      PROVE  FrameStep(p)
  <2>1. frame'[p] = IF p = q THEN f ELSE frame[p]  BY <1>2, OtherFrames
  <2> QED  BY <1>2, <2>1 DEF FrameStep
<1>3. ASSUME NEW q \in Procs, frame' = [frame EXCEPT ![q] = Idle]
      PROVE  FrameStep(p)
  BY <1>3, ReturnFrames
<1>4. ASSUME NEW q \in Procs, CreateKey(q) PROVE FrameStep(p)
  <2>1. ASSUME NEW id, NEW pt, NEW k,
               frame' = [frame EXCEPT ![q] = [Idle EXCEPT !.pc = "c_store", !.id = id,
                                                 !.plaintext = pt, !.key = k]]
        PROVE  FrameStep(p)
    <3> DEFINE f == [Idle EXCEPT !.pc = "c_store", !.id = id, !.plaintext = pt, !.key = k]
    <3>1. f.pc \notin VerifyPCs  BY DEF Idle, VerifyPCs
    <3> HIDE DEF f
    <3> QED  BY <1>2, <2>1, <3>1 DEF f
  <2>2. PICK api \in APIIDs :
          \/ frame' = [frame EXCEPT ![q] = Idle]
          \/ \E id \in FreshKeyIDs, s \in FreshSecrets, r \in KeyRequests :
                frame' = [frame EXCEPT ![q] =
                   [Idle EXCEPT !.pc = "c_store", !.id = id,
                      !.plaintext = NewPlaintext(apis[api].prefix, s),
                      !.key = NewKey(api, NewPlaintext(apis[api].prefix, s), r)]]
    BY <1>4, Zenon DEF CreateKey, Return
  <2> QED  BY <1>3, <2>1, <2>2
<1>5. ASSUME NEW q \in Procs, RotateKey(q) PROVE FrameStep(p)
  <2>1. ASSUME NEW id, NEW k,
               frame' = [frame EXCEPT ![q] =
                  [Idle EXCEPT !.pc = "r_api", !.id = id, !.key = k]]
        PROVE  FrameStep(p)
    <3> DEFINE f == [Idle EXCEPT !.pc = "r_api", !.id = id, !.key = k]
    <3>1. f.pc \notin VerifyPCs  BY DEF Idle, VerifyPCs
    <3> HIDE DEF f
    <3> QED  BY <1>2, <2>1, <3>1 DEF f
  <2> QED  BY <1>3, <1>5, <2>1 DEF RotateKey, Return
<1>6. ASSUME NEW q \in Procs, RotateKeyMaterial(q) PROVE FrameStep(p)
  <2>1. ASSUME NEW pt, frame' = [frame EXCEPT ![q].pc = "r_store", ![q].key = Nil,
                                              ![q].plaintext = pt]
        PROVE  FrameStep(p)
    <3> DEFINE f == [frame[q] EXCEPT !.pc = "r_store", !.key = Nil, !.plaintext = pt]
    <3>1. frame[q] \in Frame  BY DEF TypeOK
    <3>2. f.pc \notin VerifyPCs /\ frame' = [frame EXCEPT ![q] = f]
      BY <2>1, <3>1 DEF Frame, VerifyPCs
    <3> HIDE DEF f
    <3> QED  BY <1>2, <3>2
  <2> QED  BY <1>3, <1>6, <2>1 DEF RotateKeyMaterial, Return
<1>7. ASSUME NEW q \in Procs, CreateKeyStore(q) \/ RotateKeyStore(q) PROVE FrameStep(p)
  BY <1>3, <1>7 DEF CreateKeyStore, RotateKeyStore, Return
<1>8. CASE Restart  BY <1>8 DEF Restart, Idle, FrameStep, VerifyPCs
<1> QED
  BY <1>1, <1>4, <1>5, <1>6, <1>7, <1>8, VerifyFrames
  DEF Next, HandlerStep, InvalidRequest, CreateWorkspace, CreateApi,
      GetWorkspace, GetApi, GetKey, Get, RevokeKey, Respond, Tick, vars

\* The copies are kept up by KeysFollow and made by LooksUp.
LEMMA CopiesStep ==
    ASSUME DenialInv, TypeOK', [Next]_vars
    PROVE  Copies'
<1> SUFFICES ASSUME NEW p \in Procs, frame'[p].pc \in VerifyPCs \ {"v_lookup"},
                    frame'[p].id \in DOMAIN keys'
             PROVE  Follows(frame'[p].key, keys'[frame'[p].id])
  BY DEF Copies, Follows
<1>1. FrameStep(p)  BY EveryFrameStep DEF DenialInv, CreditInv
<1>2. CASE LooksUp(p)  BY <1>2, FollowsSame DEF LooksUp
<1>3. CASE /\ frame[p].pc \in VerifyPCs \ {"v_lookup"}
           /\ frame'[p].id = frame[p].id /\ frame'[p].key = frame[p].key
  <2>1. frame[p].id \in issued  BY <1>3 DEF DenialInv, CreditInv, TypeOK, FrameOK
  <2>2. /\ frame[p].id \in DOMAIN keys
        /\ keys[frame[p].id] \in Key /\ keys'[frame[p].id] \in Key
        /\ Evolves(keys[frame[p].id], keys'[frame[p].id])
    BY <1>3, <2>1, KeysFollow
  <2>3. Follows(frame[p].key, keys[frame[p].id])  BY <1>3, <2>2 DEF DenialInv, Copies
  <2> QED  BY <1>3, <2>2, <2>3, EvolvesFollows
<1> QED  BY <1>1, <1>2, <1>3 DEF FrameStep, Arrives, Passes, Passed, VerifyPCs

\* What a step does to the last answer.
ReplyStep ==
    \/ reply' = reply \/ reply'.id = Nil
    \/ \E p \in Procs :
          /\ frame[p].pc \in VerifyPCs \ {"v_lookup"} /\ reply'.id = frame[p].id
          /\ \/ reply'.code \notin {"REVOKED", "EXPIRED", "DEPLETED"}
             \/ UNCHANGED <<keys, now>> /\ DeniedFor(reply'.code, frame[p].key)
             \/ /\ reply'.code = "DEPLETED" /\ UNCHANGED <<keys, now>>
                /\ reply'.id \in DOMAIN keys /\ keys[reply'.id].remaining = 0

LEMMA EveryReplyStep ==
    ASSUME TypeOK, [Next]_vars
    PROVE  ReplyStep
<1>1. CASE reply' = reply \/ reply'.id = Nil  BY <1>1 DEF ReplyStep
<1>2. ASSUME NEW rpc, NEW code, reply' = Answer(rpc, code, Nil) PROVE ReplyStep
  BY <1>1, <1>2 DEF Answer
<1>3. ASSUME NEW p \in Procs, NEW code, Return(p, "VerifyKey", code, frame[p].id)
      PROVE  reply'.id = frame[p].id /\ reply'.code = code
  BY <1>3 DEF Return, Answer
<1>4. ASSUME NEW p \in Procs, VerifyCheck(p) PROVE ReplyStep
  <2>1. CASE Verdict(frame[p]) # "pass"
    <3>1. reply'.id = frame[p].id /\ reply'.code = Verdict(frame[p])
      BY <1>3, <1>4, <2>1 DEF VerifyCheck
    <3>2. \/ Verdict(frame[p]) \notin {"REVOKED", "EXPIRED", "DEPLETED"}
          \/ DeniedFor(Verdict(frame[p]), frame[p].key)
      BY DEF Verdict, DeniedFor
    <3>3. frame[p].pc \in VerifyPCs \ {"v_lookup"} /\ UNCHANGED <<keys, now>>
      BY <1>4 DEF VerifyCheck, VerifyPCs, storeVars
    <3> QED  BY <3>1, <3>2, <3>3 DEF ReplyStep
  <2> QED  BY <1>1, <1>2, <1>4, <2>1 DEF VerifyCheck, Proceed, Return
<1>5. ASSUME NEW p \in Procs, VerifyLimit(p) PROVE ReplyStep
  <2>1. CASE Return(p, "VerifyKey", "RATE_LIMITED", frame[p].id)
    BY <1>3, <1>5, <2>1 DEF ReplyStep, VerifyLimit, VerifyPCs
  <2> QED  BY <1>1, <1>2, <1>5, <2>1 DEF VerifyLimit, Proceed, Return
<1>6. ASSUME NEW p \in Procs, VerifyDecrement(p) PROVE ReplyStep
  <2>1. CASE /\ Return(p, "VerifyKey", "DEPLETED", frame[p].id)
             /\ StoreCall(keys, keys',
                          DecrementRemainingUsesResult(keys, frame[p].id), "ErrDepleted")
    <3>1. /\ keys' = keys /\ frame[p].id \in DOMAIN keys
          /\ keys[frame[p].id].remaining = 0
      BY <2>1 DEF StoreCall, DecrementRemainingUsesResult, Result
    <3>2. frame[p].pc \in VerifyPCs \ {"v_lookup"} /\ now' = now
      BY <1>6 DEF VerifyDecrement, VerifyPCs
    <3> QED  BY <1>3, <2>1, <3>1, <3>2 DEF ReplyStep
  <2> QED  BY <1>1, <1>2, <1>6, <2>1 DEF VerifyDecrement, Return
<1>7. ASSUME NEW p \in Procs, VerifyTouch(p) PROVE ReplyStep
  <2>1. Return(p, "VerifyKey", "VALID", frame[p].id)  BY <1>7 DEF VerifyTouch
  <2>2. reply'.id = frame[p].id /\ reply'.code = "VALID"  BY <1>3, <2>1
  <2>3. frame[p].pc \in VerifyPCs \ {"v_lookup"}  BY <1>7 DEF VerifyTouch, VerifyPCs
  <2> QED  BY <2>2, <2>3 DEF ReplyStep
<1>8. ASSUME NEW p \in Procs,
             \/ CreateKey(p) \/ RotateKey(p) \/ VerifyKey(p) \/ CreateKeyStore(p)
             \/ RotateKeyMaterial(p) \/ RotateKeyStore(p) \/ VerifyLookup(p)
      PROVE  ReplyStep
  BY <1>1, <1>2, <1>8
  DEF CreateKey, RotateKey, VerifyKey, CreateKeyStore, RotateKeyMaterial,
      RotateKeyStore, VerifyLookup, Return
<1> QED
  BY <1>1, <1>2, <1>4, <1>5, <1>6, <1>7, <1>8
  DEF Next, HandlerStep, VerifyStep, InvalidRequest, CreateWorkspace, CreateApi,
      GetWorkspace, GetApi, GetKey, Get, RevokeKey, Respond, Tick, Restart, NoAnswer, vars

LEMMA DenialStep == DenialInv /\ [Next]_vars => DenialInv'
<1> SUFFICES ASSUME DenialInv, [Next]_vars PROVE DenialInv'  OBVIOUS
<1>1. CreditInv' /\ TypeOK /\ TypeOK'  BY CreditStep DEF DenialInv, CreditInv
<1>2. Copies'  BY <1>1, CopiesStep
<1>3. ReplyStep /\ issued \subseteq issued'  BY <1>1, EveryReplyStep, IssuedGrows
<1>4. reply'.id # Nil => reply'.id \in issued
  BY <1>1, <1>3 DEF ReplyStep, DenialInv, TypeOK, FrameOK
<1>5. ASSUME reply'.id \in DOMAIN keys'
      PROVE  DeniedFor(reply.code, keys[reply.id])'
  <2>1. reply'.id \in KeyIDs  BY <1>1, <1>5 DEF TypeOK
  <2>2. PICK i \in KeyIDs : i = reply'.id  BY <2>1
  <2>3. PICK c : c = reply'.code  OBVIOUS
  <2>4. PICK n : n = keys'[i]  OBVIOUS
  <2>5. i \in issued  BY <1>4, <2>2, NilAssumption
  <2>6. /\ i \in DOMAIN keys /\ keys[i] \in Key
        /\ Evolves(keys[i], n) /\ n \in Key
    BY <1>1, <1>5, <2>2, <2>4, <2>5, KeysFollow
  <2>7. PICK k \in Key : k = keys[i]  BY <2>6
  <2>8. Follows(k, n)  BY <2>6, <2>7, FollowsSame, EvolvesFollows
  <2>9. CASE reply' = reply
    <3>1. DeniedFor(c, k)  BY <2>2, <2>3, <2>6, <2>7, <2>9 DEF DenialInv
    <3>2. DeniedFor(c, n)'  BY <1>1, <2>8, <3>1, DeniedStays
    <3> QED  BY <2>2, <2>3, <2>4, <3>2 DEF DeniedFor, Expired
  <2>10. CASE c \notin {"REVOKED", "EXPIRED", "DEPLETED"}
    BY <2>3, <2>10 DEF DeniedFor
  <2>11. ASSUME NEW p \in Procs, frame[p].pc \in VerifyPCs \ {"v_lookup"},
                i = frame[p].id, UNCHANGED <<keys, now>>, DeniedFor(c, frame[p].key)
         PROVE  DeniedFor(reply.code, keys[reply.id])'
    <3>1. frame[p].key \in Key  BY <1>1, <2>11 DEF TypeOK, FrameOK
    <3>2. PICK j \in Key : j = frame[p].key  BY <3>1
    <3>3. Follows(j, k)  BY <2>6, <2>7, <2>11, <3>2 DEF DenialInv, Copies
    <3>4. Follows(j, n)  BY <2>6, <2>7, <3>3, EvolvesFollows
    <3>5. DeniedFor(c, n)'  BY <1>1, <2>11, <3>2, <3>4, DeniedStays
    <3> QED  BY <2>2, <2>3, <2>4, <3>5 DEF DeniedFor, Expired
  <2>12. CASE c = "DEPLETED" /\ UNCHANGED <<keys, now>> /\ keys[i].remaining = 0
    BY <2>2, <2>3, <2>12 DEF DeniedFor
  <2>13. reply'.id # Nil  BY <2>2, NilAssumption
  <2> QED  BY <1>3, <2>2, <2>3, <2>9, <2>10, <2>11, <2>12, <2>13 DEF ReplyStep
<1>6. (reply.id \in DOMAIN keys => DeniedFor(reply.code, keys[reply.id]))'
  BY <1>5 DEF DeniedFor, Expired
<1> QED  BY <1>1, <1>2, <1>3, <1>4, <1>6 DEF DenialInv

LEMMA DenialInit == Init => DenialInv
<1> SUFFICES ASSUME Init PROVE DenialInv  OBVIOUS
<1>1. Copies  BY DEF Init, Idle, Copies, VerifyPCs
<1>2. reply.id = Nil /\ DOMAIN keys = {}  BY DEF Init, NoAnswer, Answer, EmptyTable
<1> QED  BY <1>1, <1>2, CreditInit DEF DenialInv

LEMMA DenialImplies == DenialInv => DenialIsFinal
BY DEF DenialInv, DeniedFor, DenialIsFinal

\* VerifyKey decides on a copy that may be old by the time the answer leaves:
\* a REVOKED, EXPIRED or DEPLETED answer is true of the stored key all the
\* same, then and from then on.
THEOREM DenialsTrue == Spec => []DenialIsFinal
BY DenialInit, DenialStep, DenialImplies, PTL DEF Spec

-----------------------------------------------------------------------------
(* A plaintext identifies at most one key.                                  *)

\* Handlers that hold key material they are about to store.
Material(f) == f.pc \in {"c_store", "r_store"}

\* What a step does to the stored hashes: it sets none, or one, that no other
\* key has, to what a handler holds.
HashStep ==
    \/ \A id \in DOMAIN keys' : id \in DOMAIN keys /\ keys'[id].hash = keys[id].hash
    \/ \E p \in Procs, id \in DOMAIN keys' :
          /\ Material(frame[p]) /\ keys'[id].hash = Hash(frame[p].plaintext)
          /\ keys'[id].hash \in bound'
          /\ KeysWithHash(keys, keys'[id].hash) \subseteq {id}
          /\ \A j \in DOMAIN keys' \ {id} : j \in DOMAIN keys /\ keys'[j] = keys[j]

LEMMA EveryHashStep ==
    ASSUME TypeOK, [Next]_vars
    PROVE  HashStep
<1>1. KeyTable(keys, issued)  BY TypeSplit
<1>2. CASE keys' = keys \/ keys' = EmptyTable  BY <1>2 DEF HashStep, EmptyTable
<1>3. CASE RevokeKey
  BY <1>1, <1>3, StoreCallTable
  DEF RevokeKey, RevokeKeyResult, Result, HashStep, KeyTable, Key
<1>4. ASSUME NEW p \in Procs, VerifyTouch(p) PROVE HashStep
  BY <1>1, <1>4, StoreCallTable
  DEF VerifyTouch, TouchLastVerifiedResult, Result, HashStep, KeyTable, Key
<1>5. ASSUME NEW p \in Procs, VerifyDecrement(p) PROVE HashStep
  BY <1>1, <1>5, StoreCallTable
  DEF VerifyDecrement, DecrementRemainingUsesResult, Result, HashStep, KeyTable, Key
<1>6. ASSUME NEW p \in Procs, CreateKeyStore(p), keys' # keys PROVE HashStep
  <2> DEFINE id == frame[p].id
             k == frame[p].key
  <2>1. Material(frame[p]) /\ k.hash = Hash(frame[p].plaintext)
    BY <1>6 DEF CreateKeyStore, Material, TypeOK, FrameOK
  <2>2. /\ keys' = Put(keys, id, k) /\ KeysWithHash(keys, k.hash) = {}
        /\ bound' = bound \cup {k.hash}
    BY <1>6 DEF CreateKeyStore, StoreCall, CreateKeyResult, Result, RecordIssue
  <2> HIDE DEF id, k
  <2>3. id \in DOMAIN keys' /\ keys'[id] = k
    BY <2>2 DEF Put
  <2>4. \A j \in DOMAIN keys' \ {id} : j \in DOMAIN keys /\ keys'[j] = keys[j]
    BY <2>2 DEF Put
  <2> QED  BY <2>1, <2>2, <2>3, <2>4 DEF HashStep
<1>7. ASSUME NEW p \in Procs, RotateKeyStore(p), keys' # keys PROVE HashStep
  <2> DEFINE id == frame[p].id
             h == Hash(frame[p].plaintext)
  <2>1. /\ Material(frame[p]) /\ id \in DOMAIN keys
        /\ keys' = [keys EXCEPT ![id].hash = h] /\ KeysWithHash(keys, h) \subseteq {id}
        /\ bound' = bound \cup {h}
    BY <1>7 DEF RotateKeyStore, StoreCall, RotateKeyResult, Result, Material
  <2> HIDE DEF id, h
  <2>2. id \in DOMAIN keys' /\ keys'[id].hash = h
    BY <1>1, <2>1 DEF KeyTable, Key
  <2>3. \A j \in DOMAIN keys' \ {id} : j \in DOMAIN keys /\ keys'[j] = keys[j]
    BY <2>1
  <2> QED  BY <2>1, <2>2, <2>3 DEF HashStep, h
<1> QED
  BY <1>2, <1>3, <1>4, <1>5, <1>6, <1>7
  DEF Next, HandlerStep, VerifyStep, InvalidRequest, CreateWorkspace, CreateApi,
      GetWorkspace, GetApi, GetKey, Get, CreateKey, RotateKey, RotateKeyMaterial,
      VerifyKey, VerifyLookup, VerifyCheck, VerifyLimit, Tick, Restart, storeVars, vars

LEMMA DistinctStep ==
    ASSUME TypeOK, HashesDistinct, [Next]_vars
    PROVE  HashesDistinct'
<1>1. CASE \A id \in DOMAIN keys' : id \in DOMAIN keys /\ keys'[id].hash = keys[id].hash
  BY <1>1 DEF HashesDistinct
<1>2. ASSUME NEW id \in DOMAIN keys',
             KeysWithHash(keys, keys'[id].hash) \subseteq {id},
             \A j \in DOMAIN keys' \ {id} : j \in DOMAIN keys /\ keys'[j] = keys[j]
      PROVE  HashesDistinct'
  BY <1>2 DEF HashesDistinct, KeysWithHash
<1> QED  BY <1>1, <1>2, EveryHashStep DEF HashStep

\* Creations and rotations look for their hash and write it in one call, so
\* however they race, and even if the entropy source repeats itself, a lookup
\* by hash finds one key.
THEOREM PlaintextsIdentify == Spec => []HashesDistinct
<1>1. Init => HashesDistinct  BY DEF Init, HashesDistinct, EmptyTable
<1> QED  BY <1>1, TypeInit, TypeStep, DistinctStep, PTL DEF Spec

-----------------------------------------------------------------------------
(* Key material, from the handler that draws it to the store.               *)

LEMMA VerifyFramesStay ==
    ASSUME TypeOK, NEW q \in Procs, VerifyKey(q) \/ VerifyStep(q), NEW p \in Procs
    PROVE  frame'[p] = frame[p] \/ frame'[p].pc \in VerifyPCs \cup {"idle"}
<1>1. frame \in [Procs -> Frame]  BY DEF TypeOK
<1> SUFFICES ASSUME p = q
             PROVE  frame'[p].pc \in VerifyPCs \cup {"idle"}
  BY <1>1 DEF VerifyKey, VerifyStep, VerifyLookup, VerifyCheck, VerifyLimit,
              VerifyDecrement, VerifyTouch, Proceed, Return
<1>2. CASE frame' = [frame EXCEPT ![q] = Idle]  BY <1>1, <1>2 DEF Idle
<1>3. ASSUME NEW pt, NEW r, NEW d,
             frame' = [frame EXCEPT ![q] = [Idle EXCEPT !.pc = "v_lookup",
                          !.plaintext = pt, !.req = r, !.doomed = d]]
      PROVE  frame'[p].pc \in VerifyPCs
  BY <1>1, <1>3 DEF Idle, VerifyPCs
<1>4. CASE VerifyKey(q)  BY <1>2, <1>3, <1>4 DEF VerifyKey, Return
<1>5. CASE VerifyStep(q)
  BY <1>1, <1>2, <1>5
  DEF VerifyStep, VerifyLookup, VerifyCheck, VerifyLimit, VerifyDecrement, VerifyTouch,
      Proceed, Return, Frame, VerifyPCs
<1> QED  BY <1>4, <1>5

\* Handler p draws material; nothing else happens.
Draws(p) ==
    /\ UNCHANGED <<apis, bound>>
    /\ \A q \in Procs \ {p} : frame'[q] = frame[q]
    /\ \E pre \in Prefixes, s \in FreshSecrets :
          frame'[p].plaintext = NewPlaintext(pre, s)
    /\ frame'[p].pc = "c_store" =>
          /\ frame'[p].key.api \in DOMAIN apis
          /\ frame'[p].key.workspace = apis[frame'[p].key.api].workspace
          /\ frame'[p].key.lastVerifiedAt = Nil

MaterialStep(p) == Material(frame'[p]) => frame'[p] = frame[p] \/ Draws(p)

LEMMA EveryMaterialStep ==
    ASSUME TypeOK, [Next]_vars, NEW p \in Procs
    PROVE  MaterialStep(p)
<1>1. CASE frame' = frame  BY <1>1 DEF MaterialStep
<1>2. ASSUME NEW q \in Procs, NEW f, frame' = [frame EXCEPT ![q] = f], ~Material(f)
      PROVE  MaterialStep(p)
  <2>1. frame'[p] = IF p = q THEN f ELSE frame[p]  BY <1>2, OtherFrames
  <2> QED  BY <1>2, <2>1 DEF MaterialStep
<1>3. ASSUME NEW q \in Procs, frame' = [frame EXCEPT ![q] = Idle] PROVE MaterialStep(p)
  <2>1. ~Material(Idle)  BY DEF Material, Idle
  <2> QED  BY <1>2, <1>3, <2>1
<1>4. ASSUME NEW q \in Procs, CreateKey(q) PROVE MaterialStep(p)
  <2>1. ASSUME NEW api \in DOMAIN apis, NEW id, NEW s \in FreshSecrets, NEW r,
               frame' = [frame EXCEPT ![q] = [Idle EXCEPT !.pc = "c_store", !.id = id,
                  !.plaintext = NewPlaintext(apis[api].prefix, s),
                  !.key = NewKey(api, NewPlaintext(apis[api].prefix, s), r)]]
        PROVE  MaterialStep(p)
    <3>1. PICK pt : pt = NewPlaintext(apis[api].prefix, s)  OBVIOUS
    <3>2. PICK k : k = NewKey(api, pt, r)  OBVIOUS
    <3>3. k.api = api /\ k.workspace = apis[api].workspace /\ k.lastVerifiedAt = Nil
      BY <3>2 DEF NewKey
    <3> DEFINE f == [Idle EXCEPT !.pc = "c_store", !.id = id, !.plaintext = pt, !.key = k]
    <3>4. frame' = [frame EXCEPT ![q] = f]  BY <2>1, <3>1, <3>2
    <3>5. f.plaintext = pt /\ f.key = k  BY DEF Idle
    <3> HIDE DEF f
    <3>6. \A r1 \in Procs : frame'[r1] = IF r1 = q THEN f ELSE frame[r1]
      BY <3>4, OtherFrames
    <3>7. apis[api].prefix \in Prefixes  BY DEF TypeOK, API
    <3>8. UNCHANGED <<apis, bound>>  BY <1>4 DEF CreateKey, storeVars, keyHistory
    <3> QED  BY <3>1, <3>3, <3>5, <3>6, <3>7, <3>8 DEF MaterialStep, Draws
  <2>2. PICK api \in APIIDs :
          \/ frame' = [frame EXCEPT ![q] = Idle]
          \/ /\ api \in DOMAIN apis
             /\ \E id \in FreshKeyIDs, s \in FreshSecrets, r \in KeyRequests :
                  frame' = [frame EXCEPT ![q] =
                     [Idle EXCEPT !.pc = "c_store", !.id = id,
                        !.plaintext = NewPlaintext(apis[api].prefix, s),
                        !.key = NewKey(api, NewPlaintext(apis[api].prefix, s), r)]]
    BY <1>4, Zenon DEF CreateKey, Return
  <2> QED  BY <1>3, <2>1, <2>2
<1>5. ASSUME NEW q \in Procs, RotateKey(q) PROVE MaterialStep(p)
  <2>1. ASSUME NEW id, NEW k,
               frame' = [frame EXCEPT ![q] =
                  [Idle EXCEPT !.pc = "r_api", !.id = id, !.key = k]]
        PROVE  MaterialStep(p)
    <3> DEFINE f == [Idle EXCEPT !.pc = "r_api", !.id = id, !.key = k]
    <3>1. ~Material(f)  BY DEF Idle, Material
    <3> HIDE DEF f
    <3> QED  BY <1>2, <2>1, <3>1 DEF f
  <2> QED  BY <1>3, <1>5, <2>1 DEF RotateKey, Return
<1>6. ASSUME NEW q \in Procs, RotateKeyMaterial(q) PROVE MaterialStep(p)
  <2>1. ASSUME NEW api \in DOMAIN apis, NEW s \in FreshSecrets,
               frame' = [frame EXCEPT ![q].pc = "r_store", ![q].key = Nil,
                            ![q].plaintext = NewPlaintext(apis[api].prefix, s)]
        PROVE  MaterialStep(p)
    <3>1. PICK pt : pt = NewPlaintext(apis[api].prefix, s)  OBVIOUS
    <3> DEFINE f == [frame[q] EXCEPT !.pc = "r_store", !.key = Nil, !.plaintext = pt]
    <3>2. frame[q] \in Frame  BY DEF TypeOK
    <3>3. frame' = [frame EXCEPT ![q] = f] /\ f.pc = "r_store" /\ f.plaintext = pt
      BY <2>1, <3>1, <3>2 DEF Frame
    <3> HIDE DEF f
    <3>4. \A r1 \in Procs : frame'[r1] = IF r1 = q THEN f ELSE frame[r1]
      BY <3>3, OtherFrames
    <3>5. apis[api].prefix \in Prefixes  BY DEF TypeOK, API
    <3>6. UNCHANGED <<apis, bound>>
      BY <1>6 DEF RotateKeyMaterial, storeVars, keyHistory
    <3> QED  BY <3>1, <3>3, <3>4, <3>5, <3>6 DEF MaterialStep, Draws
  <2> QED  BY <1>3, <1>6, <2>1 DEF RotateKeyMaterial, Return
<1>7. ASSUME NEW q \in Procs, CreateKeyStore(q) \/ RotateKeyStore(q) PROVE MaterialStep(p)
  BY <1>3, <1>7 DEF CreateKeyStore, RotateKeyStore, Return
<1>8. CASE Restart  BY <1>8 DEF Restart, Idle, MaterialStep, Material
<1>9. ASSUME NEW q \in Procs, VerifyKey(q) \/ VerifyStep(q) PROVE MaterialStep(p)
  <2>1. frame'[p] = frame[p] \/ frame'[p].pc \in VerifyPCs \cup {"idle"}
    BY <1>9, VerifyFramesStay
  <2> QED  BY <2>1 DEF MaterialStep, Material, VerifyPCs
<1> QED
  BY <1>1, <1>4, <1>5, <1>6, <1>7, <1>8, <1>9
  DEF Next, HandlerStep, InvalidRequest, CreateWorkspace, CreateApi,
      GetWorkspace, GetApi, GetKey, Get, RevokeKey, Respond, Tick, vars

-----------------------------------------------------------------------------
(* A key is its API's workspace's, from the first call of CreateKey on.     *)

\* A key on its way into the store is its API's workspace's, as a stored one.
Tenants ==
    /\ \A a \in DOMAIN apis : apis[a].workspace \in workspaces
    /\ \A p \in Procs : frame[p].pc = "c_store" =>
          /\ frame[p].key.api \in DOMAIN apis
          /\ frame[p].key.workspace = apis[frame[p].key.api].workspace
    /\ TenantConsistent

TenantInv == CreditInv /\ Tenants

\* What a step does to the workspaces and APIs: it loses everything, or it
\* keeps what there is and adds APIs of workspaces there are.
ParentStep ==
    \/ /\ DOMAIN keys' = {} /\ DOMAIN apis' = {}
       /\ \A p \in Procs : frame'[p].pc = "idle"
    \/ /\ workspaces \subseteq workspaces'
       /\ \A a \in DOMAIN apis : a \in DOMAIN apis' /\ apis'[a] = apis[a]
       /\ \A a \in DOMAIN apis' \ DOMAIN apis : apis'[a].workspace \in workspaces

LEMMA EveryParentStep ==
    ASSUME TypeOK, [Next]_vars
    PROVE  ParentStep
<1>1. CASE UNCHANGED <<workspaces, apis>>  BY <1>1 DEF ParentStep
<1>2. CASE CreateWorkspace  BY <1>2 DEF CreateWorkspace, StoreCall, Result, ParentStep
<1>3. CASE CreateApi
  <2>1. PICK id \in APIIDs \ DOMAIN apis, a \in API :
           apis' = apis \/ (a.workspace \in workspaces /\ apis' = Put(apis, id, a))
    BY <1>3 DEF CreateApi, StoreCall, CreateAPIResult, Result
  <2>2. workspaces' = workspaces  BY <1>3 DEF CreateApi
  <2> QED  BY <2>1, <2>2 DEF ParentStep, Put
<1>4. CASE Restart  BY <1>1, <1>4 DEF Restart, EmptyTable, Idle, ParentStep, storeVars
<1> QED
  BY <1>1, <1>2, <1>3, <1>4
  DEF Next, HandlerStep, VerifyStep, InvalidRequest,
      GetWorkspace, GetApi, GetKey, Get, RevokeKey, CreateKey, CreateKeyStore,
      RotateKey, RotateKeyMaterial, RotateKeyStore, VerifyKey, VerifyLookup, VerifyCheck,
      VerifyLimit, VerifyDecrement, VerifyTouch, Tick, storeVars, vars

LEMMA TenantStep == TenantInv /\ [Next]_vars => TenantInv'
<1> SUFFICES ASSUME TenantInv, [Next]_vars PROVE Tenants'
  BY CreditStep DEF TenantInv
<1>1. TypeOK /\ TypeOK'  BY TypeStep DEF TenantInv, CreditInv
<1>2. CASE /\ DOMAIN keys' = {} /\ DOMAIN apis' = {}
           /\ \A p \in Procs : frame'[p].pc = "idle"
  BY <1>2 DEF Tenants, TenantConsistent
<1>3. CASE /\ workspaces \subseteq workspaces'
           /\ \A a \in DOMAIN apis : a \in DOMAIN apis' /\ apis'[a] = apis[a]
           /\ \A a \in DOMAIN apis' \ DOMAIN apis : apis'[a].workspace \in workspaces
  <2>1. \A a \in DOMAIN apis' : apis'[a].workspace \in workspaces'
    BY <1>3 DEF TenantInv, Tenants
  <2>2. ASSUME NEW p \in Procs, frame'[p].pc = "c_store"
        PROVE  /\ frame'[p].key.api \in DOMAIN apis'
               /\ frame'[p].key.workspace = apis'[frame'[p].key.api].workspace
    <3>1. MaterialStep(p)  BY <1>1, EveryMaterialStep
    <3>2. CASE frame'[p] = frame[p]  BY <1>3, <2>2, <3>2 DEF TenantInv, Tenants
    <3>3. CASE Draws(p)  BY <2>2, <3>3 DEF Draws
    <3> QED  BY <2>2, <3>1, <3>2, <3>3 DEF MaterialStep, Material
  <2>3. ASSUME NEW k, k.api \in DOMAIN apis, k.workspace = apis[k.api].workspace
        PROVE  /\ k.api \in DOMAIN apis' /\ k.workspace = apis'[k.api].workspace
               /\ k.workspace \in workspaces'
    BY <1>3, <2>1, <2>3
  <2>4. ASSUME NEW id \in DOMAIN keys'
        PROVE  /\ keys'[id].api \in DOMAIN apis'
               /\ keys'[id].workspace = apis'[keys'[id].api].workspace
               /\ keys'[id].workspace \in workspaces'
    <3>1. CASE id \in DOMAIN keys
      <4>1. Evolves(keys[id], keys'[id])
        BY <2>4, <3>1, StepEvolves DEF TenantInv
      <4>2. keys'[id].api = keys[id].api /\ keys'[id].workspace = keys[id].workspace
        BY <1>1, <2>4, <3>1, <4>1 DEF Evolves, TypeOK, Key
      <4> QED  BY <2>3, <3>1, <4>2 DEF TenantInv, Tenants, TenantConsistent
    <3>2. CASE id \notin DOMAIN keys
      <4>1. PICK p \in Procs : /\ frame[p].pc = "c_store"
                               /\ keys' = Put(keys, frame[p].id, frame[p].key)
        BY <2>4, <3>2, EveryKeysStep DEF TenantInv, KeysStep, TableEvolves
      <4>2. keys'[id] = frame[p].key  BY <2>4, <3>2, <4>1 DEF Put
      <4> QED  BY <2>3, <4>1, <4>2 DEF TenantInv, Tenants
    <3> QED  BY <3>1, <3>2
  <2> QED  BY <2>1, <2>2, <2>4 DEF Tenants, TenantConsistent
<1> QED  BY <1>1, <1>2, <1>3, EveryParentStep DEF ParentStep

\* CreateKey reads the API and writes the key in two calls, with creations,
\* lost answers and restarts in between: the key is in the workspace of its
\* API, and both are there, all the same.
THEOREM TenantsKept == Spec => []TenantConsistent
<1>1. Init => Tenants  BY DEF Init, Idle, EmptyTable, Tenants, TenantConsistent
<1>2. TenantInv => TenantConsistent  BY DEF TenantInv, Tenants
<1>3. Init => TenantInv  BY <1>1, CreditInit DEF TenantInv
<1> QED  BY <1>2, <1>3, TenantStep, PTL DEF Spec

-----------------------------------------------------------------------------
(* A plaintext that is dead when VerifyKey is called stays dead.            *)

\* As long as entropy does not repeat itself, material on its way into the
\* store is nobody else's, now or before.
Unshared ==
    /\ \A id \in DOMAIN keys : keys[id].hash \in bound
    /\ \A p \in Procs : Material(frame[p]) =>
          /\ Hash(frame[p].plaintext) \notin bound
          /\ \A q \in Procs \ {p} :
                Material(frame[q]) => frame[q].plaintext # frame[p].plaintext

\* The handlers of requests that came too late: what the lookup will find,
\* or the copy it found, does not pass the checks.
Doomed ==
    \A p \in Procs : frame[p].doomed =>
        /\ frame[p].pc = "v_lookup" => DeadHash(Hash(frame[p].plaintext))
        /\ frame[p].pc = "v_check" => ~Live(frame[p].key)
        /\ frame[p].pc \notin Passed

DoomInv == DenialInv /\ Unshared /\ Doomed

\* Hashes become stored keys' when the handler that holds them returns.
BoundStep ==
    \/ bound' = bound
    \/ \E p \in Procs : /\ Material(frame[p]) /\ ~Material(frame'[p])
                        /\ bound' = bound \cup {Hash(frame[p].plaintext)}
                        /\ \A q \in Procs \ {p} : frame'[q] = frame[q]

LEMMA EveryBoundStep ==
    ASSUME TypeOK, [Next]_vars
    PROVE  BoundStep
<1>1. CASE bound' = bound  BY <1>1 DEF BoundStep
<1>2. ASSUME NEW p \in Procs, CreateKeyStore(p) \/ RotateKeyStore(p), bound' # bound
      PROVE  BoundStep
  <2>1. Material(frame[p]) /\ bound' = bound \cup {Hash(frame[p].plaintext)}
    BY <1>2 DEF CreateKeyStore, RotateKeyStore, Material, RecordIssue, keyHistory,
                TypeOK, FrameOK
  <2>2. \A q \in Procs : frame'[q] = IF q = p THEN Idle ELSE frame[q]
    BY <1>2, OtherFrames DEF CreateKeyStore, RotateKeyStore, Return
  <2> QED  BY <2>1, <2>2 DEF BoundStep, Material, Idle
<1> QED
  BY <1>1, <1>2
  DEF Next, HandlerStep, VerifyStep, InvalidRequest, CreateWorkspace, CreateApi,
      GetWorkspace, GetApi, GetKey, Get, RevokeKey, CreateKey, RotateKey,
      RotateKeyMaterial, VerifyKey, VerifyLookup, VerifyCheck, VerifyLimit,
      VerifyDecrement, VerifyTouch, Tick, Restart, keyHistory, vars

LEMMA UnsharedStep ==
    ASSUME DoomInv, [Next]_vars, ~Collisions
    PROVE  Unshared'
<1>1. TypeOK  BY DEF DoomInv, DenialInv, CreditInv
<1>2. bound \subseteq bound' /\ BoundStep  BY <1>1, EveryBoundStep DEF BoundStep
<1>3. \A id \in DOMAIN keys' : keys'[id].hash \in bound'
  BY <1>1, <1>2, EveryHashStep DEF HashStep, DoomInv, Unshared
<1>4. \A pre \in Prefixes, s \in FreshSecrets :
          /\ Hash(NewPlaintext(pre, s)) \notin bound
          /\ \A q \in Procs : Material(frame[q]) => frame[q].plaintext # NewPlaintext(pre, s)
  BY DEF FreshSecrets, Material
<1>5. ASSUME NEW p \in Procs, Material(frame'[p])
      PROVE  /\ Hash(frame'[p].plaintext) \notin bound'
             /\ \A q \in Procs \ {p} :
                   Material(frame'[q]) => frame'[q].plaintext # frame'[p].plaintext
  <2>1. \A q \in Procs : MaterialStep(q)  BY <1>1, EveryMaterialStep
  <2>2. CASE bound' = bound
    <3>1. CASE Draws(p)
      BY <1>4, <1>5, <2>1, <2>2, <3>1 DEF Draws
    <3>2. CASE frame'[p] = frame[p]
      <4>1. Hash(frame'[p].plaintext) \notin bound'
        BY <1>5, <2>2, <3>2 DEF DoomInv, Unshared
      <4>2. ASSUME NEW q \in Procs \ {p}, Material(frame'[q])
            PROVE  frame'[q].plaintext # frame'[p].plaintext
        <5>1. CASE frame'[q] = frame[q]
          BY <1>5, <3>2, <4>2, <5>1 DEF DoomInv, Unshared
        <5>2. CASE Draws(q)  BY <1>4, <1>5, <3>2, <5>2 DEF Draws
        <5> QED  BY <2>1, <4>2, <5>1, <5>2 DEF MaterialStep
      <4> QED  BY <4>1, <4>2
    <3> QED  BY <1>5, <2>1, <3>1, <3>2 DEF MaterialStep
  <2>3. ASSUME NEW r \in Procs, Material(frame[r]), ~Material(frame'[r]),
               bound' = bound \cup {Hash(frame[r].plaintext)},
               \A q \in Procs \ {r} : frame'[q] = frame[q]
        PROVE  /\ Hash(frame'[p].plaintext) \notin bound'
               /\ \A q \in Procs \ {p} :
                     Material(frame'[q]) => frame'[q].plaintext # frame'[p].plaintext
    <3>1. p # r /\ frame'[p] = frame[p]  BY <1>5, <2>3
    <3>2. frame[p].plaintext # frame[r].plaintext /\ Hash(frame[p].plaintext) \notin bound
      BY <1>5, <2>3, <3>1 DEF DoomInv, Unshared
    <3>3. Hash(frame[p].plaintext) # Hash(frame[r].plaintext)  BY <3>2, HashInjective
    <3>4. \A q \in Procs \ {p} :
              Material(frame'[q]) => frame'[q].plaintext # frame'[p].plaintext
      BY <1>5, <2>3, <3>1 DEF DoomInv, Unshared
    <3> QED  BY <2>3, <3>1, <3>2, <3>3, <3>4
  <2> QED  BY <1>2, <2>2, <2>3 DEF BoundStep
<1> QED  BY <1>3, <1>5 DEF Unshared, Material

\* What does not verify never will.
LEMMA LifelessStays ==
    ASSUME TypeOK, [Next]_vars, NEW k \in Key, NEW n, Follows(k, n), ~Live(k)
    PROVE  ~Live(n)'
BY ExpiredStays DEF Live, Follows

LEMMA DeadStays ==
    ASSUME DoomInv, [Next]_vars, NEW h, DeadHash(h)
    PROVE  DeadHash(h)'
<1>1. TypeOK /\ CreditInv  BY DEF DoomInv, DenialInv, CreditInv
<1>2. h \in bound'  BY <1>1, EveryBoundStep DEF BoundStep, DeadHash
<1>3. ASSUME NEW id \in DOMAIN keys', keys'[id].hash = h
      PROVE  ~Live(keys[id])'
  <2>1. id \in DOMAIN keys /\ keys[id].hash = h
    BY <1>1, <1>3, EveryHashStep DEF HashStep, DoomInv, Unshared, DeadHash
  <2>2. PICK k : k = keys[id]  OBVIOUS
  <2>3. PICK n : n = keys'[id]  OBVIOUS
  <2>4. k \in Key /\ n \in Key
    BY <1>1, <1>3, <2>1, <2>2, <2>3, TypeStep DEF TypeOK
  <2>5. Follows(k, n)
    BY <1>1, <1>3, <2>1, <2>2, <2>3, <2>4, StepEvolves, FollowsSame, EvolvesFollows
  <2>6. ~Live(k)  BY <2>1, <2>2 DEF DeadHash, Hashed, KeysWithHash
  <2>7. ~Live(n)'  BY <1>1, <2>4, <2>5, <2>6, LifelessStays
  <2> QED  BY <2>3, <2>7 DEF Live, Expired
<1> QED  BY <1>2, <1>3 DEF DeadHash, Hashed, KeysWithHash, Live, Expired

LEMMA DoomedStep ==
    ASSUME DoomInv, [Next]_vars
    PROVE  Doomed'
<1>1. TypeOK  BY DEF DoomInv, DenialInv, CreditInv
<1> SUFFICES ASSUME NEW p \in Procs, frame'[p].doomed
             PROVE  /\ frame'[p].pc = "v_lookup" => DeadHash(Hash(frame[p].plaintext))'
                    /\ frame'[p].pc = "v_check" => ~Live(frame[p].key)'
                    /\ frame'[p].pc \notin Passed
  BY DEF Doomed
<1>2. CASE frame'[p] = frame[p]
  <2>1. frame[p].doomed  BY <1>2
  <2>2. ASSUME frame[p].pc = "v_lookup"
        PROVE  DeadHash(Hash(frame[p].plaintext))'
    <3>1. PICK h : h = Hash(frame[p].plaintext)  OBVIOUS
    <3>2. DeadHash(h)  BY <2>1, <2>2, <3>1 DEF DoomInv, Doomed
    <3>3. DeadHash(h)'  BY <3>2, DeadStays
    <3>4. h = Hash(frame'[p].plaintext)  BY <1>2, <3>1
    <3> QED  BY <3>3, <3>4
  <2>3. ASSUME frame[p].pc = "v_check"
        PROVE  ~Live(frame[p].key)'
    <3>1. PICK k : k = frame[p].key  OBVIOUS
    <3>2. k \in Key  BY <1>1, <2>3, <3>1 DEF TypeOK, FrameOK, VerifyPCs
    <3>3. ~Live(k)  BY <2>1, <2>3, <3>1 DEF DoomInv, Doomed
    <3>4. ~Live(k)'  BY <1>1, <3>2, <3>3, FollowsSame, LifelessStays
    <3> QED  BY <1>2, <3>1, <3>4 DEF Live, Expired
  <2> QED  BY <1>2, <2>1, <2>2, <2>3 DEF DoomInv, Doomed
<1>3. CASE frame'[p].pc \notin VerifyPCs  BY <1>3 DEF VerifyPCs, Passed
<1>4. CASE Arrives(p)
  BY <1>4 DEF Arrives, DeadHash, Hashed, Live, Expired, Passed
<1>5. CASE LooksUp(p)
  <2>1. DeadHash(Hash(frame[p].plaintext))  BY <1>5 DEF LooksUp, DoomInv, Doomed
  <2>2. ~Live(keys[frame'[p].id])  BY <1>5, <2>1 DEF LooksUp, DeadHash
  <2>3. ~Live(frame[p].key)'  BY <1>5, <2>2 DEF LooksUp, Live, Expired
  <2> QED  BY <1>5, <2>3 DEF LooksUp, Passed
<1>6. CASE Passes(p)
  BY <1>6 DEF Passes, Passed, Verdict, Live, DoomInv, Doomed
<1> QED  BY <1>1, <1>2, <1>3, <1>4, <1>5, <1>6, EveryFrameStep DEF FrameStep

LEMMA DoomInit == Init => DoomInv
<1>1. Init => Unshared  BY DEF Init, Idle, EmptyTable, Unshared, Material
<1>2. Init => Doomed  BY DEF Init, Idle, Doomed
<1> QED  BY <1>1, <1>2, DenialInit DEF DoomInv

\* Unless entropy repeats itself (a rotated plaintext drawn again is a valid
\* one), a VerifyKey that arrives when its plaintext has been rotated away, or
\* its key revoked, expired or depleted, is not answered VALID: nothing that
\* happens while it runs brings the plaintext back to life.
THEOREM DeadStayDead ==
    ASSUME ~Collisions
    PROVE  Spec => []NoResurrection
<1>1. DoomInv /\ [Next]_vars => DoomInv'
  BY DenialStep, UnsharedStep, DoomedStep DEF DoomInv
<1>2. DoomInv => NoResurrection  BY DEF DoomInv, Doomed, Passed, NoResurrection
<1> QED  BY <1>1, <1>2, DoomInit, PTL DEF Spec

-----------------------------------------------------------------------------
(* The course of a VerifyKey, from the lookup to the touch.                 *)

Keeps(f, n) == n.req = f.req /\ n.id = f.id /\ n.key = f.key

\* Handler p has passed the checks in this step.
Clears(p) ==
    \/ /\ frame[p].pc = "v_check" /\ Verdict(frame[p]) = "pass"
       /\ ~NeedsLimiter(frame[p])
    \/ frame[p].pc = "v_limit" /\ VerifyLimit(p)

Goes(p) ==
    /\ Keeps(frame[p], frame'[p])
    /\ \/ /\ frame[p].pc = "v_check" /\ Verdict(frame[p]) = "pass"
          /\ NeedsLimiter(frame[p]) /\ frame'[p].pc = "v_limit"
       \/ Clears(p) /\ frame[p].key.remaining > 0 /\ frame'[p].pc = "v_decr"
       \/ /\ Clears(p) /\ ~(frame[p].key.remaining > 0)
          /\ frame'[p].pc = "v_touch" /\ frame'[p].at = now
       \/ frame[p].pc = "v_decr" /\ frame'[p].pc = "v_touch" /\ frame'[p].at = now

Course(p) ==
    \/ frame'[p] = frame[p] \/ frame'[p].pc \notin VerifyPCs \ {"v_lookup"}
    \/ LooksUp(p) \/ Goes(p)

LEMMA ProceedCourse ==
    ASSUME TypeOK, NEW p \in Procs, Proceed(p), Clears(p)
    PROVE  Goes(p)
<1>1. frame \in [Procs -> Frame] /\ frame[p] \in Frame  BY DEF TypeOK
<1>2. CASE frame[p].key.remaining > 0
  <2>1. frame'[p] = [frame[p] EXCEPT !.pc = "v_decr"]  BY <1>1, <1>2 DEF Proceed
  <2>2. frame'[p].pc = "v_decr" /\ Keeps(frame[p], frame'[p])
    BY <1>1, <2>1 DEF Frame, Keeps
  <2> QED  BY <1>2, <2>2 DEF Goes
<1>3. CASE ~(frame[p].key.remaining > 0)
  <2>1. frame'[p] = [frame[p] EXCEPT !.pc = "v_touch", !.at = now]
    BY <1>1, <1>3 DEF Proceed
  <2>2. frame'[p].pc = "v_touch" /\ frame'[p].at = now /\ Keeps(frame[p], frame'[p])
    BY <1>1, <2>1 DEF Frame, Keeps
  <2> QED  BY <1>3, <2>2 DEF Goes
<1> QED  BY <1>2, <1>3

LEMMA VerifyCourse ==
    ASSUME TypeOK, NEW p \in Procs, VerifyCheck(p) \/ VerifyLimit(p) \/ VerifyDecrement(p)
    PROVE  Course(p)
<1>1. frame \in [Procs -> Frame] /\ frame[p] \in Frame  BY DEF TypeOK
<1>2. CASE frame' = [frame EXCEPT ![p] = Idle]
  BY <1>1, <1>2 DEF Course, Idle, VerifyPCs
<1>3. CASE VerifyCheck(p)
  <2>1. ASSUME Verdict(frame[p]) = "pass", NeedsLimiter(frame[p]),
               frame' = [frame EXCEPT ![p].pc = "v_limit"]
        PROVE  Course(p)
    <3>1. frame'[p] = [frame[p] EXCEPT !.pc = "v_limit"]  BY <1>1, <2>1
    <3>2. frame'[p].pc = "v_limit" /\ Keeps(frame[p], frame'[p])
      BY <1>1, <3>1 DEF Frame, Keeps
    <3> QED  BY <1>3, <2>1, <3>2 DEF VerifyCheck, Goes, Course
  <2>2. CASE Verdict(frame[p]) = "pass" /\ ~NeedsLimiter(frame[p]) /\ Proceed(p)
    BY <1>3, <2>2, ProceedCourse DEF VerifyCheck, Clears, Course
  <2> QED  BY <1>2, <1>3, <2>1, <2>2 DEF VerifyCheck, Return
<1>4. CASE VerifyLimit(p)
  <2>1. Clears(p)  BY <1>4 DEF VerifyLimit, Clears
  <2>2. CASE Proceed(p)  BY <2>1, <2>2, ProceedCourse DEF Course
  <2> QED  BY <1>2, <1>4, <2>2 DEF VerifyLimit, Return
<1>5. CASE VerifyDecrement(p)
  <2>1. CASE frame' = [frame EXCEPT ![p].pc = "v_touch", ![p].at = now]
    <3>1. frame'[p] = [frame[p] EXCEPT !.pc = "v_touch", !.at = now]  BY <1>1, <2>1
    <3>2. frame'[p].pc = "v_touch" /\ frame'[p].at = now /\ Keeps(frame[p], frame'[p])
      BY <1>1, <3>1 DEF Frame, Keeps
    <3> QED  BY <1>5, <3>2 DEF VerifyDecrement, Goes, Course
  <2> QED  BY <1>2, <1>5, <2>1 DEF VerifyDecrement, Return
<1> QED  BY <1>3, <1>4, <1>5

\* A handler moves by its own steps only, or dies in a restart.
LEMMA WhoMoves ==
    ASSUME TypeOK, [Next]_vars, NEW p \in Procs, frame'[p] # frame[p]
    PROVE  \/ CreateKey(p) \/ RotateKey(p) \/ VerifyKey(p) \/ HandlerStep(p)
           \/ Restart
<1>1. frame \in [Procs -> Frame]  BY DEF TypeOK
<1>2. ASSUME NEW q \in Procs, CreateKey(q) \/ RotateKey(q) \/ VerifyKey(q) PROVE p = q
  BY <1>1, <1>2 DEF CreateKey, RotateKey, VerifyKey, Return
<1>3. ASSUME NEW q \in Procs, CreateKeyStore(q) \/ RotateKeyMaterial(q) \/ RotateKeyStore(q)
      PROVE p = q
  BY <1>1, <1>3 DEF CreateKeyStore, RotateKeyMaterial, RotateKeyStore, Return
<1>4. ASSUME NEW q \in Procs, VerifyStep(q) PROVE p = q
  BY <1>1, <1>4
  DEF VerifyStep, VerifyLookup, VerifyCheck, VerifyLimit, VerifyDecrement, VerifyTouch,
      Proceed, Return
<1> QED
  BY <1>2, <1>3, <1>4
  DEF Next, HandlerStep, InvalidRequest, CreateWorkspace, CreateApi,
      GetWorkspace, GetApi, GetKey, Get, RevokeKey, Respond, Tick, vars

\* Three of them take it past its checks.
LEMMA WhoPasses ==
    ASSUME TypeOK, [Next]_vars, NEW p \in Procs, frame'[p] # frame[p],
           frame'[p].pc \in Passed
    PROVE  VerifyCheck(p) \/ VerifyLimit(p) \/ VerifyDecrement(p)
<1>1. frame \in [Procs -> Frame]  BY DEF TypeOK
<1>2. frame' # [frame EXCEPT ![p] = Idle] /\ ~Restart
  BY <1>1 DEF Idle, Passed, Restart
<1>3. frame[p].pc \notin {"idle", "r_api", "v_lookup"}
  <2>1. FrameStep(p)  BY EveryFrameStep
  <2> QED  BY <2>1 DEF FrameStep, Arrives, LooksUp, Passes, Passed, VerifyPCs
<1>4. ~CreateKeyStore(p) /\ ~RotateKeyStore(p) /\ ~VerifyTouch(p)
  BY <1>2 DEF CreateKeyStore, RotateKeyStore, VerifyTouch, Return
<1> QED
  BY <1>2, <1>3, <1>4, WhoMoves
  DEF CreateKey, RotateKey, VerifyKey, HandlerStep, RotateKeyMaterial, VerifyStep,
      VerifyLookup

LEMMA EveryCourse ==
    ASSUME TypeOK, [Next]_vars, NEW p \in Procs
    PROVE  Course(p)
<1>1. FrameStep(p)  BY EveryFrameStep
<1>2. CASE frame'[p].pc \in Passed /\ frame'[p] # frame[p]
  BY <1>2, WhoPasses, VerifyCourse
<1> QED  BY <1>1, <1>2 DEF FrameStep, Course, Arrives, Passes, VerifyPCs

-----------------------------------------------------------------------------
(* What a handler knows of its key.                                         *)

\* The copy of a limited key is a limited key's; past the checks it had
\* credit left.  A key on its way into the store has not been touched.
KnowsFrame(f) ==
    /\ f.pc \in VerifyPCs \ {"v_lookup"} => (granted[f.id] > 0 => f.key.remaining >= 0)
    /\ f.pc \in Passed => f.key.remaining # 0
    /\ f.pc = "v_limit" => NeedsLimiter(f)
    /\ f.pc = "v_decr" => f.key.remaining > 0
    /\ f.pc = "v_touch" => f.at <= now
    /\ f.pc = "c_store" => f.key.lastVerifiedAt = Nil

Knows == \A p \in Procs : KnowsFrame(frame[p])

\* A grant is recorded once, when the key is stored.
LEMMA GrantsKept ==
    ASSUME CreditInv, [Next]_vars, NEW id \in issued
    PROVE  granted'[id] = granted[id]
<1>1. CASE granted' = granted  BY <1>1
<1>2. ASSUME NEW p \in Procs, CreateKeyStore(p), granted' # granted
      PROVE  granted'[id] = granted[id]
  <2>1. frame[p].id \notin issued /\ granted \in [KeyIDs -> Nat] /\ id \in KeyIDs
    BY <1>2 DEF CreateKeyStore, CreditInv, Fresh, TypeOK
  <2> QED  BY <1>2, <2>1 DEF CreateKeyStore, RecordIssue, keyHistory
<1> QED
  BY <1>1, <1>2
  DEF Next, HandlerStep, VerifyStep, InvalidRequest, CreateWorkspace, CreateApi,
      GetWorkspace, GetApi, GetKey, Get, RevokeKey, CreateKey,
      RotateKey, RotateKeyMaterial, RotateKeyStore, VerifyKey, VerifyLookup, VerifyCheck,
      VerifyLimit, VerifyDecrement, VerifyTouch, Tick, Restart, keyHistory, vars

LEMMA KnowsStep ==
    ASSUME CreditInv, Knows, [Next]_vars
    PROVE  Knows'
<1>1. TypeOK /\ TypeOK'  BY TypeStep DEF CreditInv
<1> SUFFICES ASSUME NEW p \in Procs PROVE KnowsFrame(frame[p])'
  BY DEF Knows
<1>2. now' \in Time /\ now \in Time /\ now <= now'  BY <1>1, ClockGrows DEF TypeOK
<1>3. Course(p)  BY <1>1, EveryCourse
<1>4. KnowsFrame(frame[p])  BY DEF Knows
<1>5. CASE frame'[p] = frame[p]
  <2>1. frame[p].pc \in VerifyPCs \ {"v_lookup"} => frame[p].id \in issued
    BY <1>1 DEF TypeOK, FrameOK
  <2>2. frame[p].pc \in VerifyPCs \ {"v_lookup"}
          => granted'[frame[p].id] = granted[frame[p].id]
    BY <2>1, GrantsKept
  <2>3. frame[p].at \in Nat  BY <1>1 DEF TypeOK, Frame, Time
  <2> QED  BY <1>2, <1>4, <1>5, <2>2, <2>3 DEF KnowsFrame, NeedsLimiter, Time
<1>6. CASE frame'[p].pc \notin VerifyPCs \ {"v_lookup"} /\ frame'[p] # frame[p]
  <2>1. frame'[p].pc = "c_store" => frame'[p].key.lastVerifiedAt = Nil
    BY <1>1, <1>6, EveryMaterialStep DEF MaterialStep, Draws, Material
  <2> QED  BY <1>6, <2>1 DEF KnowsFrame, VerifyPCs, Passed
<1>7. CASE LooksUp(p)
  <2>1. frame'[p].id \in DOMAIN keys /\ frame'[p].id \in issued /\ frame'[p].id \in KeyIDs
    BY <1>1, <1>7 DEF LooksUp, Hashed, KeysWithHash, TypeOK
  <2>2. granted'[frame'[p].id] = granted[frame'[p].id]  BY <2>1, GrantsKept
  <2>3. granted[frame'[p].id] > 0 => keys[frame'[p].id].remaining >= 0
    BY <2>1 DEF CreditInv, Credit, TypeOK
  <2> QED  BY <1>7, <2>2, <2>3 DEF LooksUp, KnowsFrame, VerifyPCs, Passed
<1>8. CASE Goes(p)
  <2>1. frame[p].pc \in VerifyPCs \ {"v_lookup"} /\ frame[p].id \in issued
    BY <1>1, <1>8 DEF Goes, Clears, TypeOK, FrameOK, VerifyPCs
  <2>2. granted'[frame'[p].id] = granted[frame'[p].id]
    BY <1>8, <2>1, GrantsKept DEF Goes, Keeps
  <2>3. frame[p].pc = "v_check" /\ Verdict(frame[p]) = "pass" => frame[p].key.remaining # 0
    BY DEF Verdict
  <2>4. frame'[p].pc \in Passed /\ frame'[p].key.remaining # 0
    BY <1>4, <1>8, <2>3 DEF Goes, Keeps, Clears, Passed, KnowsFrame
  <2>5. frame'[p].pc = "v_limit" => NeedsLimiter(frame[p])'
    BY <1>8 DEF Goes, Keeps, NeedsLimiter
  <2>6. frame'[p].pc = "v_decr" => frame'[p].key.remaining > 0
    BY <1>8 DEF Goes, Keeps
  <2>7. frame'[p].pc = "v_touch" => frame'[p].at <= now'
    BY <1>2, <1>8 DEF Goes
  <2>8. granted'[frame'[p].id] > 0 => frame'[p].key.remaining >= 0
    BY <1>4, <1>8, <2>1, <2>2 DEF Goes, Keeps, KnowsFrame
  <2> QED  BY <2>4, <2>5, <2>6, <2>7, <2>8 DEF KnowsFrame, Passed
<1> QED  BY <1>3, <1>5, <1>6, <1>7, <1>8 DEF Course

LEMMA KnowsInit == Init => Knows
BY DEF Init, Idle, Knows, KnowsFrame, VerifyPCs, Passed

-----------------------------------------------------------------------------
(* A touch is paid for.                                                     *)

\* lastVerifiedAt is written by the handler that has decided on VALID.
LEMMA WhoTouches ==
    ASSUME CreditInv, [Next]_vars, NEW id \in DOMAIN keys, id \in DOMAIN keys',
           keys'[id].lastVerifiedAt # keys[id].lastVerifiedAt
    PROVE  \E p \in Procs : /\ frame[p].pc = "v_touch" /\ frame[p].id = id
                            /\ keys'[id].lastVerifiedAt = frame[p].at
                            /\ keys'[id].remaining = keys[id].remaining
<1>1. KeyTable(keys, issued) /\ id \in issued  BY TypeSplit DEF CreditInv, KeyTable
<1>2. ASSUME NEW p \in Procs, VerifyTouch(p)
      PROVE  /\ frame[p].pc = "v_touch" /\ frame[p].id = id
             /\ keys'[id].lastVerifiedAt = frame[p].at
             /\ keys'[id].remaining = keys[id].remaining
  <2>1. keys' = TouchLastVerifiedResult(keys, frame[p].id, frame[p].at).table
    BY <1>2, StoreCallTable DEF VerifyTouch
  <2> QED  BY <1>1, <1>2, <2>1 DEF VerifyTouch, TouchLastVerifiedResult, Result, KeyTable, Key
<1>3. ASSUME NEW p \in Procs, VerifyDecrement(p) PROVE FALSE
  <2>1. keys' = DecrementRemainingUsesResult(keys, frame[p].id).table
    BY <1>3, StoreCallTable DEF VerifyDecrement
  <2> QED  BY <1>1, <2>1 DEF DecrementRemainingUsesResult, Result, KeyTable, Key
<1>4. ASSUME NEW p \in Procs, RotateKeyStore(p) PROVE FALSE
  <2>1. keys' = RotateKeyResult(keys, frame[p].id, Hash(frame[p].plaintext)).table
    BY <1>4, StoreCallTable DEF RotateKeyStore
  <2> QED  BY <1>1, <2>1 DEF RotateKeyResult, Result, KeyTable, Key
<1>5. CASE RevokeKey
  BY <1>1, <1>5, StoreCallTable DEF RevokeKey, RevokeKeyResult, Result, KeyTable, Key
<1>6. ASSUME NEW p \in Procs, CreateKeyStore(p) PROVE FALSE
  <2>1. keys' = Put(keys, frame[p].id, frame[p].key) /\ frame[p].id \notin issued
    BY <1>6 DEF CreateKeyStore, StoreCall, CreateKeyResult, Result, CreditInv, Fresh
  <2> QED  BY <1>1, <2>1 DEF Put
<1> QED
  BY <1>2, <1>3, <1>4, <1>5, <1>6
  DEF Next, HandlerStep, VerifyStep, InvalidRequest, CreateWorkspace, CreateApi,
      GetWorkspace, GetApi, GetKey, Get, CreateKey, RotateKey, RotateKeyMaterial,
      VerifyKey, VerifyLookup, VerifyCheck, VerifyLimit, Tick, Restart, EmptyTable,
      storeVars, vars

TouchInv == CreditInv /\ Knows /\ TouchedOnlyIfSpent

LEMMA TouchStep == TouchInv /\ [Next]_vars => TouchInv'
<1> SUFFICES ASSUME TouchInv, [Next]_vars PROVE TouchedOnlyIfSpent'
  BY CreditStep, KnowsStep DEF TouchInv
<1>1. TypeOK /\ TypeOK' /\ CreditInv  BY TypeStep DEF TouchInv, CreditInv
<1>2. now' \in Nat /\ now \in Nat /\ now <= now'  BY <1>1, ClockGrows DEF TypeOK, Time
<1> SUFFICES ASSUME NEW id \in DOMAIN keys', keys'[id].lastVerifiedAt # Nil
             PROVE  /\ keys'[id].lastVerifiedAt <= now'
                    /\ granted'[id] > 0 => keys'[id].remaining < granted'[id]
  BY DEF TouchedOnlyIfSpent
<1>3. id \in DOMAIN keys
  <2>1. ASSUME NEW p \in Procs, frame[p].pc = "c_store",
               keys' = Put(keys, frame[p].id, frame[p].key)
        PROVE  id \in DOMAIN keys
    BY <2>1 DEF TouchInv, Knows, KnowsFrame, Put
  <2> QED  BY <1>1, <2>1, EveryKeysStep DEF KeysStep, TableEvolves
<1>4. id \in issued /\ id \in KeyIDs /\ keys[id] \in Key /\ keys'[id] \in Key
  BY <1>1, <1>3 DEF TypeOK
<1>5. granted'[id] = granted[id] /\ granted[id] \in Nat /\ valids[id] \in Nat
  BY <1>1, <1>4, GrantsKept DEF TypeOK
<1>6. keys'[id].remaining <= keys[id].remaining
  BY <1>1, <1>3, <1>4, StepEvolves DEF Evolves, Key
<1>7. CASE keys'[id].lastVerifiedAt = keys[id].lastVerifiedAt
  BY <1>2, <1>3, <1>4, <1>5, <1>6, <1>7 DEF TouchInv, TouchedOnlyIfSpent, Key, TimePtr, Time
<1>8. CASE keys'[id].lastVerifiedAt # keys[id].lastVerifiedAt
  <2>1. PICK p \in Procs : /\ frame[p].pc = "v_touch" /\ frame[p].id = id
                           /\ keys'[id].lastVerifiedAt = frame[p].at
                           /\ keys'[id].remaining = keys[id].remaining
    BY <1>1, <1>3, <1>8, WhoTouches
  <2>2. KnowsFrame(frame[p]) /\ frame[p].at \in Nat /\ frame[p].key \in Key
    BY <1>1, <2>1 DEF TouchInv, Knows, TypeOK, FrameOK, Frame, Time, VerifyPCs
  <2>3. keys'[id].lastVerifiedAt <= now'  BY <1>2, <2>1, <2>2 DEF KnowsFrame
  <2>4. ASSUME granted[id] > 0
        PROVE  keys[id].remaining < granted[id]
    <3>1. p \in Paid(id)
      BY <2>1, <2>2, <2>4 DEF Paid, KnowsFrame, VerifyPCs, Passed, Key
    <3>2. Cardinality(Paid(id)) \in Nat /\ Cardinality(Paid(id)) # 0
      BY <3>1, PaidCount, FS_EmptySet
    <3>3. valids[id] + Cardinality(Paid(id)) <= granted[id] - keys[id].remaining
      BY <1>1, <1>3, <1>4, <2>4 DEF CreditInv, Credit, Spent
    <3> QED  BY <1>4, <1>5, <3>2, <3>3 DEF Key
  <2> QED  BY <1>5, <2>1, <2>3, <2>4
<1> QED  BY <1>7, <1>8

\* TouchLastVerified is a side effect of a VALID that has been paid for, and
\* it never dates a key into the future: whatever happens between the
\* decrement and the touch, a limited key that says it was verified has a
\* credit less than it was granted.
THEOREM TouchesPaid == Spec => []TouchedOnlyIfSpent
<1>1. Init => TouchInv
  BY CreditInit, KnowsInit DEF Init, TouchInv, TouchedOnlyIfSpent, EmptyTable
<1>2. TouchInv => TouchedOnlyIfSpent  BY DEF TouchInv
<1> QED  BY <1>1, <1>2, TouchStep, PTL DEF Spec

-----------------------------------------------------------------------------
(* Where the credits go when no call fails and the server stays up.         *)

Exact == DOMAIN keys = issued /\ SpendAccounted

ExactInv == CreditInv /\ Knows /\ Exact

\* Handlers are owed a VALID from the decrement to the answer.
LEMMA PaidStays ==
    ASSUME TypeOK, [Next]_vars, ~Restarts, NEW id, NEW p \in Procs,
           ~VerifyDecrement(p), ~VerifyTouch(p)
    PROVE  p \in Paid(id)' <=> p \in Paid(id)
<1>1. CASE frame'[p] = frame[p]  BY <1>1 DEF Paid
<1>2. CASE frame'[p] # frame[p]
  <2>1. frame[p].pc # "v_touch"
    BY <1>2, WhoMoves
    DEF CreateKey, RotateKey, VerifyKey, HandlerStep, CreateKeyStore, RotateKeyMaterial,
        RotateKeyStore, VerifyStep, VerifyLookup, VerifyCheck, VerifyLimit, Restart
  <2>2. ~PaidFrame(frame'[p])
    <3> SUFFICES ASSUME frame'[p].pc = "v_touch" PROVE ~(frame'[p].key.remaining > 0)
      BY DEF PaidFrame
    <3>1. VerifyCheck(p) \/ VerifyLimit(p)  BY <1>2, WhoPasses DEF Passed
    <3>2. Goes(p)  BY <1>2, EveryCourse DEF Course, LooksUp, VerifyPCs
    <3> QED  BY <3>1, <3>2 DEF VerifyCheck, VerifyLimit, Goes, Keeps
  <2> QED  BY <2>1, <2>2 DEF Paid, PaidFrame
<1> QED  BY <1>1, <1>2

\* The keys that exist, and what is left of them, stay as they are.
SameCredits ==
    /\ DOMAIN keys' = DOMAIN keys
    /\ \A id \in DOMAIN keys : keys'[id].remaining = keys[id].remaining

LEMMA ExactQuiet ==
    ASSUME Exact, SameCredits, UNCHANGED <<issued, granted, valids>>,
           \A id \in KeyIDs : Paid(id)' = Paid(id)
    PROVE  Exact'
<1>1. ASSUME NEW id \in KeyIDs PROVE Spent(id)' = Spent(id)
  BY DEF Spent, SameCredits
<1>2. ASSUME NEW id \in KeyIDs PROVE Cardinality(Paid(id))' = Cardinality(Paid(id))
  <2>1. Paid(id)' = Paid(id)  OBVIOUS
  <2> QED  BY <2>1
<1> QED  BY <1>1, <1>2 DEF Exact, SpendAccounted, SameCredits

LEMMA ExactDecrement ==
    ASSUME ExactInv, [Next]_vars, ~StoreFaults, ~Restarts,
           NEW p \in Procs, VerifyDecrement(p)
    PROVE  Exact'
<1>1. /\ TypeOK /\ frame[p].pc = "v_decr" /\ KeyTable(keys, issued)
      /\ frame \in [Procs -> Frame] /\ frame[p] \in Frame
  BY TypeSplit DEF ExactInv, CreditInv, FramesOK, VerifyDecrement
<1>2. PICK i \in KeyIDs : i = frame[p].id /\ i \in DOMAIN keys
  BY <1>1 DEF TypeOK, FrameOK, ExactInv, Exact, VerifyPCs
<1>3. frame[p].key.remaining > 0  BY <1>1 DEF ExactInv, Knows, KnowsFrame
<1>4. UNCHANGED <<issued, granted, valids>>
  BY DEF VerifyDecrement, keyHistory, answerHistory
<1>5. \A q \in Procs \ {p} : frame'[q] = frame[q]
  BY <1>1 DEF VerifyDecrement, Return
<1>6. \A id : p \notin Paid(id)  BY <1>1 DEF Paid
<1>7. keys[i] \in Key  BY <1>1, <1>2 DEF KeyTable
<1>8. CASE keys[i].remaining = 0
  <2>1. keys' = keys /\ frame'[p] = Idle
    BY <1>1, <1>2, <1>8
    DEF VerifyDecrement, StoreCall, DecrementRemainingUsesResult, Result, Return
  <2>2. SameCredits  BY <2>1 DEF SameCredits
  <2>3. \A id \in KeyIDs : Paid(id)' = Paid(id)
    BY <1>5, <1>6, <2>1 DEF Paid, Idle
  <2> QED  BY <1>4, <2>2, <2>3, ExactQuiet DEF ExactInv
<1>9. CASE keys[i].remaining # 0
  <2>1. frame'[p] = [frame[p] EXCEPT !.pc = "v_touch", !.at = now]
    BY <1>1, <1>2, <1>9
    DEF VerifyDecrement, StoreCall, DecrementRemainingUsesResult, Result
  <2>2. frame'[p].pc = "v_touch" /\ frame'[p].id = i /\ frame'[p].key.remaining > 0
    BY <1>1, <1>2, <1>3, <2>1 DEF Frame
  <2>3. /\ DOMAIN keys' = DOMAIN keys
        /\ \A id \in DOMAIN keys \ {i} : keys'[id] = keys[id]
        /\ keys[i].remaining > 0 => keys'[i].remaining = keys[i].remaining - 1
    BY <1>1, <1>2, <1>7, <1>9
    DEF VerifyDecrement, StoreCall, DecrementRemainingUsesResult, Result, KeyTable, Key
  <2>4. Paid(i)' = Paid(i) \cup {p}  BY <1>5, <2>2 DEF Paid
  <2>5. \A id : id # i => Paid(id)' = Paid(id)  BY <1>5, <1>6, <2>2 DEF Paid
  <2>6. Cardinality(Paid(i)') = Cardinality(Paid(i)) + 1
    BY <1>6, <2>4, PaidCount, FS_AddElement
  <2> SUFFICES ASSUME NEW id \in KeyIDs, granted[id] > 0
               PROVE  Spent(id)' = valids[id] + Cardinality(Paid(id)')
    BY <1>4, <2>3 DEF Exact, SpendAccounted, ExactInv
  <2>7. /\ Spent(id) = valids[id] + Cardinality(Paid(id))
        /\ valids[id] \in Nat /\ granted[id] \in Nat
    BY <1>1 DEF ExactInv, Exact, SpendAccounted, TypeOK
  <2>8. CASE id # i
    <3>1. Spent(id)' = Spent(id)  BY <1>4, <2>3, <2>8 DEF Spent
    <3>2. Paid(id)' = Paid(id)  BY <2>5, <2>8
    <3> QED  BY <2>7, <3>1, <3>2
  <2>9. CASE id = i
    <3>1. keys[i].remaining > 0
      BY <1>2, <1>7, <1>9, <2>9 DEF ExactInv, CreditInv, Credit, Key
    <3>2. Spent(id)' = Spent(id) + 1
      BY <1>2, <1>4, <1>7, <2>3, <2>7, <2>9, <3>1 DEF Spent, Key
    <3> QED  BY <2>6, <2>7, <2>9, <3>2, PaidCount
  <2> QED  BY <2>8, <2>9
<1> QED  BY <1>8, <1>9

LEMMA ExactTouch ==
    ASSUME ExactInv, [Next]_vars, ~Restarts, NEW p \in Procs, VerifyTouch(p)
    PROVE  Exact'
<1>1. /\ TypeOK /\ frame[p].pc = "v_touch" /\ KeyTable(keys, issued)
      /\ frame \in [Procs -> Frame]
  BY TypeSplit DEF ExactInv, CreditInv, FramesOK, VerifyTouch
<1>2. PICK i \in KeyIDs : i = frame[p].id
  BY <1>1 DEF TypeOK, FrameOK, VerifyPCs
<1>3. UNCHANGED <<issued, granted>>  BY DEF VerifyTouch, keyHistory
<1>4. SameCredits
  <2>1. keys' = keys \/ keys' = TouchLastVerifiedResult(keys, i, frame[p].at).table
    BY <1>2, StoreCallTable DEF VerifyTouch
  <2> QED  BY <1>1, <2>1 DEF TouchLastVerifiedResult, Result, SameCredits, KeyTable, Key
<1>5. /\ frame'[p] = Idle /\ Idle.pc = "idle"
      /\ \A q \in Procs \ {p} : frame'[q] = frame[q]
  BY <1>1 DEF VerifyTouch, Return, Idle
<1>6. CASE ~(frame[p].key.remaining > 0)
  <2>1. valids' = valids  BY <1>6 DEF VerifyTouch
  <2>2. \A id \in KeyIDs : Paid(id)' = Paid(id)  BY <1>5, <1>6 DEF Paid
  <2> QED  BY <1>3, <1>4, <2>1, <2>2, ExactQuiet DEF ExactInv
<1>7. CASE frame[p].key.remaining > 0
  <2>1. valids' = [valids EXCEPT ![i] = @ + 1]  BY <1>2, <1>7 DEF VerifyTouch
  <2>2. \A id : id # i => Paid(id)' = Paid(id)  BY <1>2, <1>5 DEF Paid
  <2>3. Paid(i)' = Paid(i) \ {p} /\ p \in Paid(i)  BY <1>1, <1>2, <1>5, <1>7 DEF Paid
  <2>4. Cardinality(Paid(i)') = Cardinality(Paid(i)) - 1
    BY <2>3, PaidCount, FS_RemoveElement
  <2> SUFFICES ASSUME NEW id \in KeyIDs, granted[id] > 0
               PROVE  Spent(id)' = valids'[id] + Cardinality(Paid(id)')
    BY <1>3, <1>4 DEF Exact, SpendAccounted, ExactInv, SameCredits
  <2>5. /\ Spent(id) = valids[id] + Cardinality(Paid(id))
        /\ valids[id] \in Nat /\ granted[id] \in Nat
        /\ valids'[id] = IF id = i THEN valids[id] + 1 ELSE valids[id]
    BY <1>1, <2>1 DEF ExactInv, Exact, SpendAccounted, TypeOK
  <2>6. Spent(id)' = Spent(id)  BY <1>3, <1>4 DEF Spent, SameCredits
  <2>7. CASE id # i
    <3>1. Paid(id)' = Paid(id)  BY <2>2, <2>7
    <3> QED  BY <2>5, <2>6, <2>7, <3>1
  <2>8. CASE id = i  BY <2>4, <2>5, <2>6, <2>8, PaidCount
  <2> QED  BY <2>7, <2>8
<1> QED  BY <1>6, <1>7

LEMMA ExactCreateStore ==
    ASSUME ExactInv, [Next]_vars, ~StoreFaults, ~Restarts,
           NEW p \in Procs, CreateKeyStore(p), keys' # keys
    PROVE  Exact'
<1>1. /\ TypeOK /\ frame[p].pc = "c_store" /\ frame[p].key \in Key
      /\ frame \in [Procs -> Frame]
  BY DEF ExactInv, CreditInv, TypeOK, FrameOK, CreateKeyStore
<1>2. PICK i \in KeyIDs : i = frame[p].id /\ i \notin issued
  BY <1>1 DEF TypeOK, FrameOK, ExactInv, CreditInv, Fresh
<1> DEFINE k == frame[p].key
           n == IF k.remaining > 0 THEN k.remaining ELSE 0
<1>3. /\ issued' = issued \cup {i} /\ granted' = [granted EXCEPT ![i] = n]
      /\ valids' = valids /\ keys' = Put(keys, i, k)
  BY <1>2 DEF CreateKeyStore, RecordIssue, StoreCall, CreateKeyResult, Result, answerHistory
<1>4. /\ frame'[p] = Idle /\ Idle.pc = "idle"
      /\ \A q \in Procs \ {p} : frame'[q] = frame[q]
  BY <1>1 DEF CreateKeyStore, Return, Idle
<1>5. \A id : Paid(id)' = Paid(id)  BY <1>1, <1>4 DEF Paid
<1>6. Paid(i) = {}  BY <1>1, <1>2 DEF TypeOK, FrameOK, VerifyPCs, Paid
<1>7. DOMAIN keys' = issued'  BY <1>3 DEF Put, ExactInv, Exact
<1> SUFFICES ASSUME NEW id \in KeyIDs, granted'[id] > 0
             PROVE  Spent(id)' = valids[id] + Cardinality(Paid(id)')
  BY <1>3, <1>7 DEF Exact, SpendAccounted
<1>8. CASE id # i
  <2>1. /\ granted'[id] = granted[id]
        /\ id \in DOMAIN keys' <=> id \in DOMAIN keys
        /\ id \in DOMAIN keys => keys'[id] = keys[id]
    BY <1>1, <1>3, <1>8 DEF Put, TypeOK
  <2>2. Spent(id)' = Spent(id)  BY <2>1 DEF Spent
  <2>3. Paid(id)' = Paid(id)  BY <1>5
  <2> QED  BY <2>1, <2>2, <2>3 DEF ExactInv, Exact, SpendAccounted
<1>9. CASE id = i
  <2>1. id \in DOMAIN keys' /\ keys'[id] = k /\ granted'[id] = n
    BY <1>1, <1>3, <1>9 DEF Put, TypeOK
  <2>2. k.remaining \in Nat \cup {-1}  BY <1>1 DEF Key
  <2>3. valids[id] = 0  BY <1>2, <1>9 DEF ExactInv, CreditInv, Credit
  <2>4. Cardinality(Paid(id)') = 0  BY <1>5, <1>6, <1>9, FS_EmptySet
  <2> HIDE DEF k
  <2>5. Spent(id)' = 0  BY <2>1, <2>2 DEF Spent
  <2> QED  BY <2>3, <2>4, <2>5
<1> QED  BY <1>8, <1>9

LEMMA ExactStep ==
    ASSUME ExactInv, [Next]_vars, ~StoreFaults, ~Restarts
    PROVE  ExactInv'
<1>1. CreditInv' /\ Knows' /\ TypeOK /\ KeyTable(keys, issued)
  BY CreditStep, KnowsStep, TypeSplit DEF ExactInv, CreditInv
<1>2. CASE \E p \in Procs : VerifyDecrement(p)
  BY <1>1, <1>2, ExactDecrement DEF ExactInv
<1>3. CASE \E p \in Procs : VerifyTouch(p)
  BY <1>1, <1>3, ExactTouch DEF ExactInv
<1>4. CASE \E p \in Procs : CreateKeyStore(p) /\ keys' # keys
  BY <1>1, <1>4, ExactCreateStore DEF ExactInv
<1>5. ASSUME ~ \E p \in Procs : VerifyDecrement(p) \/ VerifyTouch(p),
             ~ \E p \in Procs : CreateKeyStore(p) /\ keys' # keys
      PROVE  ExactInv'
  <2>1. \A id \in KeyIDs : Paid(id)' = Paid(id)
    <3>1. \A id, p : p \in Paid(id) \/ p \in Paid(id)' => p \in Procs  BY DEF Paid
    <3>2. ASSUME NEW id, NEW p \in Procs PROVE p \in Paid(id)' <=> p \in Paid(id)
      BY <1>1, <1>5, PaidStays
    <3> QED  BY <3>1, <3>2
  <2>2. CASE RevokeKey
    <3>1. SameCredits
      BY <1>1, <2>2, StoreCallTable
      DEF RevokeKey, RevokeKeyResult, Result, SameCredits, KeyTable, Key
    <3>2. UNCHANGED <<issued, granted, valids>>
      BY <2>2 DEF RevokeKey, keyHistory, answerHistory
    <3> QED  BY <1>1, <2>1, <3>1, <3>2, ExactQuiet DEF ExactInv
  <2>3. ASSUME NEW p \in Procs, RotateKeyStore(p) PROVE ExactInv'
    <3>1. SameCredits
      BY <1>1, <2>3, StoreCallTable
      DEF RotateKeyStore, RotateKeyResult, Result, SameCredits, KeyTable, Key
    <3>2. UNCHANGED <<issued, granted, valids>>
      BY <2>3 DEF RotateKeyStore, answerHistory
    <3> QED  BY <1>1, <2>1, <3>1, <3>2, ExactQuiet DEF ExactInv
  <2>4. CASE UNCHANGED <<keys, issued, granted, valids>>
    <3>1. SameCredits  BY <2>4 DEF SameCredits
    <3> QED  BY <1>1, <2>1, <2>4, <3>1, ExactQuiet DEF ExactInv
  <2> QED
    BY <1>5, <2>2, <2>3, <2>4
    DEF Next, HandlerStep, VerifyStep, InvalidRequest, CreateWorkspace, CreateApi,
        GetWorkspace, GetApi, GetKey, Get, CreateKey, CreateKeyStore, RotateKey,
        RotateKeyMaterial, VerifyKey, VerifyLookup, VerifyCheck, VerifyLimit, Tick,
        Restart, storeVars, keyHistory, answerHistory, vars
<1> QED  BY <1>2, <1>3, <1>4, <1>5

\* While the store's calls answer and the server stays up, no credit is lost:
\* however handlers race, the credits a limited key has lost are the VALID
\* answers given and the ones about to be.  (With a driver error the claim is
\* false: the decrement may have run.  See the run accounting_faults.)
THEOREM CreditsAccounted ==
    ASSUME ~StoreFaults, ~Restarts
    PROVE  Spec => []SpendAccounted
<1>1. Init => ExactInv
  BY CreditInit, KnowsInit DEF Init, ExactInv, Exact, SpendAccounted, EmptyTable
<1>2. ExactInv /\ [Next]_vars => ExactInv'  BY ExactStep
<1>3. ExactInv => SpendAccounted  BY DEF ExactInv, Exact
<1> QED  BY <1>1, <1>2, <1>3, PTL DEF Spec

-----------------------------------------------------------------------------
(* The limiter's budget.                                                    *)

Cost(f) == limitCost(f.req.cost)

\* The units one handler stands for.
Block(p, c) == {p} \X (1 .. c)

LEMMA BlockCount ==
    ASSUME NEW p, NEW c \in Nat
    PROVE  IsFiniteSet(Block(p, c)) /\ Cardinality(Block(p, c)) = c
<1>1. IsFiniteSet({p}) /\ Cardinality({p}) = 1  BY FS_Singleton
<1>2. IsFiniteSet(1 .. c) /\ Cardinality(1 .. c) = c  BY FS_Interval
<1>3. /\ IsFiniteSet({p} \X (1 .. c))
      /\ Cardinality({p} \X (1 .. c)) = Cardinality({p}) * Cardinality(1 .. c)
  BY <1>1, <1>2, FS_Product, Zenon
<1>4. 1 * c = c  OBVIOUS
<1> QED  BY <1>1, <1>2, <1>3, <1>4, Zenon DEF Block

LEMMA CostType ==
    ASSUME TypeOK, NEW p \in Procs, frame[p].pc \in VerifyPCs
    PROVE  Cost(frame[p]) \in Nat
BY ServerAssumption DEF TypeOK, FrameOK, Cost, limitCost

LEMMA UnitsCount ==
    ASSUME TypeOK, NEW l
    PROVE  IsFiniteSet(Units(l)) /\ Cardinality(Units(l)) \in Nat
<1> DEFINE A == Admissions(l)
           g == [p \in A |-> Block(p, Cost(frame[p]))]
           R == {g[p] : p \in A}
<1>1. A \subseteq Procs /\ \A p \in A : frame[p].pc \in VerifyPCs
  BY DEF Admissions, VerifyPCs
<1>2. IsFiniteSet(A)  BY <1>1, FS_Subset, ServerAssumption
<1>3. g \in Surjection(A, R)  BY DEF Surjection
<1> HIDE DEF A
<1>4. IsFiniteSet(R)
  <2> HIDE DEF g, R
  <2> QED  BY <1>2, <1>3, FS_Surjection
<1>5. \A T \in R : IsFiniteSet(T)
  <2>1. \A p \in A : IsFiniteSet(Block(p, Cost(frame[p])))
    BY <1>1, CostType, BlockCount
  <2> QED  BY <2>1
<1>6. Units(l) = UNION R  BY DEF Units, Block, Cost, A
<1> HIDE DEF R
<1> QED  BY <1>4, <1>5, <1>6, FS_UNION, FS_CardinalityType

LEMMA UnitsCountNext ==
    TypeOK' => \A l : IsFiniteSet(Units(l)') /\ Cardinality(Units(l)') \in Nat
<1> DEFINE Counted == \A l : IsFiniteSet(Units(l)) /\ Cardinality(Units(l)) \in Nat
<1>1. TypeOK => Counted  BY UnitsCount
<1>2. TypeOK' => Counted'
  <2> HIDE DEF Counted
  <2> QED  BY <1>1, PTL
<1> QED  BY <1>2

\* A handler that has limit l behind it.
Admitted(f, l) ==
    f.pc \in {"v_decr", "v_touch"} /\ NeedsLimiter(f) /\ l \in f.key.limitRefs

\* Nobody has passed limit l in this step.
LEMMA UnitsShrink ==
    ASSUME NEW l,
           \A p \in Procs : Admitted(frame'[p], l)
                => Admitted(frame[p], l) /\ frame'[p].req = frame[p].req
    PROVE  Units(l)' \subseteq Units(l)
<1>1. \A p \in Admissions(l)' : p \in Admissions(l) /\ frame'[p].req = frame[p].req
  BY DEF Admissions, Admitted, NeedsLimiter
<1> QED  BY <1>1 DEF Units

LEMMA BudgetQuiet ==
    ASSUME TypeOK, TypeOK', NEW l \in LimitIDs, Units(l)' \subseteq Units(l),
           admitted'[l] = admitted[l], quota'[l] <= quota[l],
           admitted[l] + Cardinality(Units(l)) <= Quota[l] - quota[l]
    PROVE  admitted'[l] + Cardinality(Units(l)') <= Quota[l] - quota'[l]
<1>1. /\ admitted[l] \in Nat /\ quota[l] \in Nat /\ quota'[l] \in Nat
      /\ Quota[l] \in Nat
  BY ServerAssumption DEF TypeOK
<1>2. Cardinality(Units(l)') <= Cardinality(Units(l))  BY UnitsCount, FS_Subset
<1>3. Cardinality(Units(l)) \in Nat /\ Cardinality(Units(l)') \in Nat
  BY UnitsCount, UnitsCountNext
<1> QED  BY <1>1, <1>2, <1>3

LEMMA ChargedLess ==
    ASSUME TypeOK, NEW allowed, NEW c \in Nat, NEW l \in LimitIDs
    PROVE  Charged(allowed, c)[l] <= quota[l]
BY DEF Charged, TypeOK

LimitInv == CreditInv /\ Knows /\ LimiterObeyed

\* The budget is taken in the step in which the handler passes the limiter.
LEMMA LimitCharge ==
    ASSUME LimitInv, TypeOK', NEW p \in Procs, VerifyLimit(p), NEW l \in LimitIDs
    PROVE  admitted'[l] + Cardinality(Units(l)') <= Quota[l] - quota'[l]
<1>1. /\ TypeOK /\ frame[p].pc = "v_limit" /\ frame \in [Procs -> Frame]
      /\ NeedsLimiter(frame[p]) /\ frame[p].key.limitRefs # {}
      /\ admitted' = admitted
      /\ admitted[l] + Cardinality(Units(l)) <= Quota[l] - quota[l]
  BY DEF LimitInv, CreditInv, TypeOK, VerifyLimit, Knows, KnowsFrame, answerHistory,
         LimiterObeyed, NeedsLimiter
<1> DEFINE c == Cost(frame[p])
           refs == frame[p].key.limitRefs
           allowed == Allowed(refs, c)
<1>2. c \in Nat  BY <1>1, CostType DEF VerifyPCs
<1>3. quota' = quota \/ quota' = Charged(allowed, c)  BY DEF VerifyLimit, Cost
<1>4. quota'[l] <= quota[l]
  <2>1. Charged(allowed, c)[l] <= quota[l]  BY <1>1, <1>2, ChargedLess
  <2>2. quota[l] \in Nat  BY <1>1 DEF TypeOK
  <2> HIDE DEF allowed, c
  <2> QED  BY <1>3, <2>1, <2>2
<1>5. \A q \in Procs \ {p} : frame'[q] = frame[q]
  BY <1>1 DEF VerifyLimit, Proceed, Return
<1>6. CASE frame'[p] = Idle
  <2>1. Units(l)' \subseteq Units(l)
    BY <1>5, <1>6, UnitsShrink DEF Admitted, Idle
  <2> QED  BY <1>1, <1>4, <2>1, BudgetQuiet
<1>7. CASE frame'[p] # Idle
  <2>1. quota' = Charged(allowed, c) /\ allowed = refs /\ Proceed(p)
    BY <1>1, <1>7 DEF VerifyLimit, Return, Cost, AllAllowed
  <2>2. Goes(p)  BY <1>1, <2>1, ProceedCourse DEF Clears
  <2>3. /\ Keeps(frame[p], frame'[p])
        /\ frame'[p].pc \in {"v_decr", "v_touch"} /\ frame[p].pc = "v_limit"
    BY <1>1, <2>2 DEF Goes
  <2>4. CASE l \notin refs
    <3>1. Units(l)' \subseteq Units(l)
      BY <1>5, <2>3, <2>4, UnitsShrink DEF Admitted, Keeps
    <3> QED  BY <1>1, <1>4, <3>1, BudgetQuiet
  <2>5. CASE l \in refs
    <3>1. quota'[l] = quota[l] - c  BY <2>1, <2>5 DEF Charged
    <3>2. Units(l)' = Units(l) \cup Block(p, c)
      <4>1. Admissions(l)' = Admissions(l) \cup {p}
        BY <1>1, <1>5, <2>3, <2>5 DEF Admissions, Keeps, NeedsLimiter
      <4>2. \A q \in Admissions(l)' : frame'[q].req = frame[q].req
        BY <1>5, <2>3 DEF Admissions, Keeps
      <4>3. Units(l)' = UNION {Block(q, Cost(frame[q])) : q \in Admissions(l) \cup {p}}
        BY <4>1, <4>2 DEF Units, Block, Cost
      <4>4. Units(l) = UNION {Block(q, Cost(frame[q])) : q \in Admissions(l)}
        BY DEF Units, Block, Cost
      <4> QED  BY <4>3, <4>4
    <3>3. Units(l) \cap Block(p, c) = {}
      <4>1. p \notin Admissions(l)  BY <2>3 DEF Admissions
      <4> QED  BY <4>1 DEF Units, Block
    <3>4. Cardinality(Units(l)') = Cardinality(Units(l)) + c
      <4>1. IsFiniteSet(Units(l)) /\ Cardinality(Units(l)) \in Nat  BY <1>1, UnitsCount
      <4>2. IsFiniteSet(Block(p, c)) /\ Cardinality(Block(p, c)) = c
        BY <1>2, BlockCount
      <4> HIDE DEF c
      <4>3. Cardinality(Units(l) \cup Block(p, c)) = Cardinality(Units(l)) + c - 0
        BY <3>3, <4>1, <4>2, FS_Union, FS_EmptySet
      <4> QED  BY <1>2, <3>2, <4>1, <4>3
    <3>5. /\ admitted[l] \in Nat /\ quota[l] \in Nat /\ Quota[l] \in Nat
          /\ Cardinality(Units(l)) \in Nat
      BY <1>1, UnitsCount, ServerAssumption DEF TypeOK
    <3> HIDE DEF c
    <3> QED  BY <1>1, <1>2, <3>1, <3>4, <3>5
  <2> QED  BY <2>4, <2>5
<1> QED  BY <1>6, <1>7

\* The answer turns the units a handler stands for into units admitted.
LEMMA LimitAnswer ==
    ASSUME LimitInv, TypeOK', NEW p \in Procs, VerifyTouch(p), NEW l \in LimitIDs
    PROVE  admitted'[l] + Cardinality(Units(l)') <= Quota[l] - quota'[l]
<1>1. /\ TypeOK /\ frame[p].pc = "v_touch" /\ frame \in [Procs -> Frame]
      /\ quota' = quota
      /\ admitted[l] + Cardinality(Units(l)) <= Quota[l] - quota[l]
  BY DEF LimitInv, CreditInv, TypeOK, VerifyTouch, LimiterObeyed
<1> DEFINE c == Cost(frame[p])
<1>2. c \in Nat  BY <1>1, CostType DEF VerifyPCs
<1>3. /\ frame'[p] = Idle /\ Idle.pc = "idle"
      /\ \A q \in Procs \ {p} : frame'[q] = frame[q]
  BY <1>1 DEF VerifyTouch, Return, Idle
<1>4. CASE ~Admitted(frame[p], l)
  <2>1. Units(l)' \subseteq Units(l)  BY <1>3, UnitsShrink DEF Admitted
  <2>2. admitted'[l] = admitted[l]  BY <1>1, <1>4 DEF VerifyTouch, Admitted
  <2>3. quota'[l] <= quota[l]  BY <1>1 DEF TypeOK
  <2> QED  BY <1>1, <2>1, <2>2, <2>3, BudgetQuiet
<1>5. CASE Admitted(frame[p], l)
  <2>1. admitted'[l] = admitted[l] + c  BY <1>1, <1>5 DEF VerifyTouch, Admitted, Cost
  <2>2. Units(l)' = Units(l) \ Block(p, c)
    <3>1. Admissions(l)' = Admissions(l) \ {p}
      BY <1>3 DEF Admissions, NeedsLimiter
    <3>2. \A q \in Admissions(l)' : frame'[q] = frame[q]  BY <1>3, <3>1 DEF Admissions
    <3>3. Units(l)' = UNION {Block(q, Cost(frame[q])) : q \in Admissions(l) \ {p}}
      BY <3>1, <3>2 DEF Units, Block, Cost
    <3>4. Units(l) = UNION {Block(q, Cost(frame[q])) : q \in Admissions(l)}
      BY DEF Units, Block, Cost
    <3> QED  BY <3>3, <3>4 DEF Block
  <2>3. Block(p, c) \subseteq Units(l)
    <3>1. p \in Admissions(l)  BY <1>5 DEF Admissions, Admitted
    <3> QED  BY <3>1 DEF Units, Block, Cost
  <2>4. Cardinality(Units(l)') = Cardinality(Units(l)) - c
    <3>1. IsFiniteSet(Units(l)) /\ Cardinality(Units(l)) \in Nat  BY <1>1, UnitsCount
    <3>2. Cardinality(Block(p, c)) = c  BY <1>2, BlockCount
    <3> HIDE DEF c
    <3>3. Units(l) \cap Block(p, c) = Block(p, c)  BY <2>3
    <3>4. Cardinality(Units(l) \ Block(p, c))
            = Cardinality(Units(l)) - Cardinality(Units(l) \cap Block(p, c))
      BY <3>1, FS_Difference, Zenon
    <3> QED  BY <2>2, <3>2, <3>3, <3>4, Zenon
  <2>5. /\ admitted[l] \in Nat /\ quota[l] \in Nat /\ Quota[l] \in Nat
        /\ Cardinality(Units(l)) \in Nat
    BY <1>1, UnitsCount, ServerAssumption DEF TypeOK
  <2> HIDE DEF c
  <2> QED  BY <1>1, <1>2, <2>1, <2>4, <2>5
<1> QED  BY <1>4, <1>5

LEMMA LimitStep == LimitInv /\ [Next]_vars => LimitInv'
<1> SUFFICES ASSUME LimitInv, [Next]_vars PROVE LimiterObeyed'
  BY CreditStep, KnowsStep DEF LimitInv
<1>1. TypeOK /\ TypeOK'  BY TypeStep DEF LimitInv, CreditInv
<1> SUFFICES ASSUME NEW l \in LimitIDs
             PROVE  admitted'[l] + Cardinality(Units(l)') <= Quota[l] - quota'[l]
  BY <1>1 DEF LimiterObeyed, TypeOK
<1>2. CASE \E p \in Procs : VerifyLimit(p) \/ VerifyTouch(p)
  BY <1>1, <1>2, LimitCharge, LimitAnswer
<1>3. CASE ~ \E p \in Procs : VerifyLimit(p) \/ VerifyTouch(p)
  <2>1. UNCHANGED <<quota, admitted>>
    BY <1>3
    DEF Next, HandlerStep, VerifyStep, InvalidRequest, CreateWorkspace, CreateApi,
        GetWorkspace, GetApi, GetKey, Get, RevokeKey, CreateKey, CreateKeyStore, RotateKey,
        RotateKeyMaterial, RotateKeyStore, VerifyKey, VerifyLookup, VerifyCheck,
        VerifyDecrement, Tick, Restart, answerHistory, vars
  <2>2. ASSUME NEW p \in Procs, Admitted(frame'[p], l)
        PROVE  Admitted(frame[p], l) /\ frame'[p].req = frame[p].req
    <3>1. Course(p)  BY <1>1, EveryCourse
    <3>2. CASE Goes(p)
      BY <1>3, <2>2, <3>2 DEF Goes, Clears, Keeps, Admitted, NeedsLimiter
    <3> QED  BY <2>2, <3>1, <3>2 DEF Course, LooksUp, Admitted, VerifyPCs
  <2>3. Units(l)' \subseteq Units(l)  BY <2>2, UnitsShrink
  <2>4. quota'[l] <= quota[l]  BY <1>1, <2>1 DEF TypeOK
  <2> QED  BY <1>1, <2>1, <2>3, <2>4, BudgetQuiet DEF LimitInv, LimiterObeyed
<1> QED  BY <1>2, <1>3

\* No VALID without the limiter's consent: for each limit, what the VALID
\* answers and the handlers on their way to one cost has been taken from its
\* budget, whatever the server, its limiter and its store do in between.
THEOREM LimitsObeyed == Spec => []LimiterObeyed
<1>1. Init => LimitInv
  <2> SUFFICES ASSUME Init PROVE LimiterObeyed  BY CreditInit, KnowsInit DEF LimitInv
  <2>1. \A l \in LimitIDs : Units(l) = {}  BY DEF Init, Idle, Units, Admissions
  <2>2. \A l \in LimitIDs : quota[l] = Quota[l] /\ Quota[l] \in Nat /\ admitted[l] = 0
    BY ServerAssumption DEF Init
  <2> QED  BY <2>1, <2>2, FS_EmptySet DEF LimiterObeyed
<1>2. LimitInv => LimiterObeyed  BY DEF LimitInv
<1> QED  BY <1>1, <1>2, LimitStep, PTL DEF Spec

=============================================================================
