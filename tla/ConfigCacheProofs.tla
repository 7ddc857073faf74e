------------------------- MODULE ConfigCacheProofs -------------------------
(***************************************************************************)
(* Proofs about ConfigCache, for any processes, writes, lifetime and       *)
(* bounds: its variables stay in their types, a cached snapshot is stale   *)
(* only while an invalidation is under way or lost, and no hit is older    *)
(* than the lifetime of a snapshot.                                        *)
(***************************************************************************)
EXTENDS ConfigCache, TLAPS

\* A snapshot of version v in p accounts for write w.
Covered(v, p, w) ==
    ver[w] > v => Undelivered(w, p) \/ (home[w] # p /\ w \in missed[p])

\* Versions and times of writes lie behind those of the database and the clock.
WritesOK == \A w \in Write : /\ ver[w] <= db
                             /\ committedAt[w] <= clock
                             /\ wpc[w] = "idle" => ver[w] = 0

\* What the continuation of the load in flight relies on.
LoadOK ==
    \A p \in Proc :
        load[p] # "none" =>
            /\ loadGen[p] <= gen[p]
            /\ loadAt[p] <= clock
            /\ load[p] = "answered" =>
                \A w \in Write :
                    /\ gen[p] = loadGen[p] => Covered(loadVer[p], p, w)
                    /\ ver[w] > loadVer[p] => loadAt[p] <= committedAt[w]

\* What is in the caches.
CacheOK ==
    \A p \in Proc :
        cached[p] # None =>
            /\ expires[p] <= clock + TTL
            /\ \A w \in Write :
                /\ Covered(cached[p], p, w)
                /\ ver[w] > cached[p] => expires[p] <= committedAt[w] + TTL

IInv == TypeOK /\ WritesOK /\ LoadOK /\ CacheOK
-----------------------------------------------------------------------------
LEMMA InitIInv == Init => IInv
BY ConfigCacheAssumption
   DEF Init, IInv, TypeOK, WritesOK, LoadOK, CacheOK, Covered, None

\* Types, for every step.
LEMMA TypeStep == ASSUME TypeOK, [Next]_vars PROVE TypeOK'
<1> USE ConfigCacheAssumption DEF TypeOK, None
<1>1. ASSUME NEW p \in Proc, Miss(p) PROVE TypeOK'
  BY <1>1 DEF Miss, BeginLoad, wVars, cVars, netVars
<1>2. ASSUME NEW p \in Proc, Query(p) PROVE TypeOK'
  BY <1>2 DEF Query, wVars, cVars, netVars
<1>3. ASSUME NEW p \in Proc, FinishLoad(p) PROVE TypeOK'
  BY <1>3 DEF FinishLoad, EndLoad, Expiry, wVars, netVars
<1>4. ASSUME NEW p \in Proc, LoadFails(p) PROVE TypeOK'
  BY <1>4 DEF LoadFails, EndLoad, wVars, cVars, netVars
<1>5. ASSUME NEW p \in Proc, Prune(p) PROVE TypeOK'
  BY <1>5 DEF Prune, Drop, wVars, lVars, netVars
<1>5s. ASSUME NEW p \in Proc, Subscribe(p) PROVE TypeOK'
  BY <1>5s DEF Subscribe, wVars, cVars, lVars
<1>5a. ASSUME NEW p \in Proc, Disconnect(p) PROVE TypeOK'
  <2>1. missed[p] \cup chan[p] \in SUBSET Write
    OBVIOUS
  <2>2. QED
    BY <1>5a, <2>1 DEF Disconnect, wVars, cVars, lVars
<1>6. ASSUME NEW p \in Proc, Restart(p) PROVE TypeOK'
  BY <1>6 DEF Restart, Drop
<1>7. ASSUME NEW p \in Proc, NEW w \in Write, Deliver(p, w) PROVE TypeOK'
  <2>1. chan[p] \ {w} \in SUBSET Write
    OBVIOUS
  <2>2. chan' \in [Proc -> SUBSET Write]
    BY <1>7, <2>1 DEF Deliver
  <2>3. CASE load[p] = "none"
    BY <1>7, <2>2, <2>3 DEF Deliver, Bump, Drop, BeginPush, BeginLoad, wVars
  <2>4. CASE load[p] # "none"
    BY <1>7, <2>2, <2>4 DEF Deliver, Bump, Drop, BeginPush, wVars
  <2>5. QED
    BY <2>3, <2>4
<1>8. ASSUME NEW w \in Write, Commit(w) PROVE TypeOK'
  BY <1>8 DEF Commit, cVars, lVars, netVars
<1>8a. ASSUME NEW w \in Write, InvalidateLocally(w) PROVE TypeOK'
  BY <1>8a DEF InvalidateLocally, Bump, Drop, lVars, netVars
<1>9. ASSUME NEW w \in Write, Publish(w) PROVE TypeOK'
  <2>1. \A p \in Proc : chan[p] \cup {w} \in SUBSET Write /\ missed[p] \cup {w} \in SUBSET Write
    OBVIOUS
  <2>2. QED
    BY <1>9, <2>1 DEF Publish, cVars, lVars
<1>9a. ASSUME NEW w \in Write, PublishFails(w) PROVE TypeOK'
  <2>1. \A p \in Proc : missed[p] \cup {w} \in SUBSET Write
    OBVIOUS
  <2>2. QED
    BY <1>9a, <2>1 DEF PublishFails, cVars, lVars
<1>10. CASE Tick
  BY <1>10 DEF Tick, wVars, cVars, lVars, netVars
<1>11. CASE UNCHANGED vars
  BY <1>11 DEF vars, wVars, cVars, lVars, netVars
<1>12. QED
  BY <1>1, <1>2, <1>3, <1>4, <1>5, <1>5s, <1>5a, <1>6, <1>7, <1>8, <1>8a, <1>9, <1>9a, <1>10, <1>11
     DEF Next

LEMMA WritesStep == ASSUME TypeOK, WritesOK, [Next]_vars PROVE WritesOK'
<1> USE DEF TypeOK, WritesOK
<1>1. ASSUME NEW p \in Proc,
             \/ Miss(p) \/ Query(p) \/ FinishLoad(p) \/ LoadFails(p)
             \/ Prune(p) \/ Subscribe(p) \/ Disconnect(p)
      PROVE  WritesOK'
  BY <1>1 DEF Miss, Query, FinishLoad, LoadFails, Prune, Subscribe, Disconnect, wVars
<1>2. ASSUME NEW p \in Proc, Restart(p) PROVE WritesOK'
  BY <1>2 DEF Restart
<1>3. ASSUME NEW p \in Proc, NEW w \in Write, Deliver(p, w) PROVE WritesOK'
  BY <1>3 DEF Deliver, wVars
<1>4. ASSUME NEW w \in Write, Commit(w) PROVE WritesOK'
  BY <1>4 DEF Commit
<1>5. ASSUME NEW w \in Write, InvalidateLocally(w) \/ Publish(w) \/ PublishFails(w)
      PROVE  WritesOK'
  BY <1>5 DEF InvalidateLocally, Publish, PublishFails
<1>6. CASE Tick
  BY <1>6 DEF Tick, wVars
<1>7. CASE UNCHANGED vars
  BY <1>7 DEF vars, wVars
<1>8. QED
  BY <1>1, <1>2, <1>3, <1>4, <1>5, <1>6, <1>7 DEF Next
-----------------------------------------------------------------------------
\* The steps that touch loads, caches or the way of an announcement.
LEMMA DataStep == ASSUME IInv, [Next]_vars PROVE LoadOK' /\ CacheOK'
<1> USE ConfigCacheAssumption
        DEF IInv, TypeOK, WritesOK, LoadOK, CacheOK, Covered, Undelivered, None
<1>1. ASSUME NEW p \in Proc, Miss(p) PROVE LoadOK' /\ CacheOK'
  BY <1>1 DEF Miss, BeginLoad, wVars, cVars, netVars
<1>2. ASSUME NEW p \in Proc, Query(p) PROVE LoadOK' /\ CacheOK'
  BY <1>2 DEF Query, wVars, cVars, netVars
<1>3. ASSUME NEW p \in Proc, FinishLoad(p) PROVE LoadOK' /\ CacheOK'
  <2>1. LoadOK'
    BY <1>3 DEF FinishLoad, EndLoad, wVars, netVars
  <2>2. CASE Keeps(p)
    <3>1. /\ cached' = [cached EXCEPT ![p] = loadVer[p]]
          /\ expires' = [expires EXCEPT ![p] = loadAt[p] + TTL]
          /\ load[p] = "answered" /\ gen[p] = loadGen[p]
      BY <1>3, <2>2 DEF FinishLoad, Keeps, Expiry
    <3>2. UNCHANGED <<clock, db, wVars, gen, netVars>>
      BY <1>3 DEF FinishLoad
    <3>3. \A q \in Proc, w \in Write, v \in Nat : Covered(v, q, w) => Covered(v, q, w)'
      BY <3>2 DEF wVars, netVars
    <3>4. CacheOK'
      BY <3>1, <3>2, <3>3, SMTT(30) DEF wVars
    <3>5. QED
      BY <2>1, <3>4
  <2>3. CASE ~ Keeps(p)
    BY <1>3, <2>1, <2>3 DEF FinishLoad, wVars, netVars
  <2>4. QED
    BY <2>2, <2>3
<1>4. ASSUME NEW p \in Proc, LoadFails(p) PROVE LoadOK' /\ CacheOK'
  BY <1>4 DEF LoadFails, EndLoad, wVars, cVars, netVars
<1>5. ASSUME NEW p \in Proc, Prune(p) \/ Subscribe(p) PROVE LoadOK' /\ CacheOK'
  BY <1>5 DEF Prune, Subscribe, Drop, wVars, cVars, lVars, netVars
<1>6. ASSUME NEW p \in Proc, Disconnect(p) PROVE LoadOK' /\ CacheOK'
  <2>1. /\ chan' = [chan EXCEPT ![p] = {}]
        /\ missed' = [missed EXCEPT ![p] = missed[p] \cup chan[p]]
        /\ UNCHANGED <<clock, db, wVars, cVars, lVars>>
    BY <1>6 DEF Disconnect
  <2>2. \A q \in Proc, w \in Write, v \in Nat : Covered(v, q, w) => Covered(v, q, w)'
    BY <2>1 DEF wVars
  <2>3. LoadOK'
    BY <2>1, <2>2 DEF wVars, cVars, lVars
  <2>4. CacheOK'
    BY <2>1, <2>2 DEF wVars, cVars
  <2>5. QED
    BY <2>3, <2>4
<1>7. ASSUME NEW p \in Proc, Restart(p) PROVE LoadOK' /\ CacheOK'
  BY <1>7 DEF Restart, Drop
<1>8. ASSUME NEW p \in Proc, NEW w \in Write, Deliver(p, w) PROVE LoadOK' /\ CacheOK'
  BY <1>8 DEF Deliver, Bump, Drop, BeginPush, BeginLoad, wVars
<1>9. ASSUME NEW w \in Write, Commit(w) PROVE LoadOK' /\ CacheOK'
  BY <1>9 DEF Commit, cVars, lVars, netVars
<1>10. ASSUME NEW w \in Write, InvalidateLocally(w) PROVE LoadOK' /\ CacheOK'
  BY <1>10 DEF InvalidateLocally, Bump, Drop, lVars, netVars
<1>11. ASSUME NEW w \in Write, Publish(w) \/ PublishFails(w) PROVE LoadOK' /\ CacheOK'
  <2>1. /\ wpc[w] = "publishing"
        /\ wpc' = [wpc EXCEPT ![w] = "done"]
        /\ UNCHANGED <<clock, db, home, ver, committedAt, cVars, lVars>>
    BY <1>11 DEF Publish, PublishFails
  <2>2. \A q \in Proc : /\ w \in chan'[q] \/ w \in missed'[q]
                        /\ chan[q] \subseteq chan'[q]
                        /\ missed[q] \subseteq missed'[q]
    BY <1>11 DEF Publish, PublishFails
  <2>3. \A q \in Proc, x \in Write, v \in Nat : Covered(v, q, x) => Covered(v, q, x)'
    BY <2>1, <2>2
  <2>4. QED
    BY <2>1, <2>3 DEF cVars, lVars
<1>12. CASE Tick
  BY <1>12 DEF Tick, wVars, cVars, lVars, netVars
<1>13. CASE UNCHANGED vars
  BY <1>13 DEF vars, wVars, cVars, lVars, netVars
<1>14. QED
  BY <1>1, <1>2, <1>3, <1>4, <1>5, <1>6, <1>7, <1>8, <1>9, <1>10, <1>11, <1>12, <1>13 DEF Next

LEMMA SpecIInv == Spec => []IInv
<1>1. IInv /\ [Next]_vars => IInv'
  BY TypeStep, WritesStep, DataStep DEF IInv
<1>2. QED
  BY InitIInv, <1>1, PTL DEF Spec
-----------------------------------------------------------------------------
(***************************************************************************)
(* The variables of ConfigCache keep their types.                          *)
(***************************************************************************)
THEOREM TypeCorrect == Spec => []TypeOK
<1>1. IInv => TypeOK
  BY DEF IInv
<1>2. QED
  BY SpecIInv, <1>1, PTL

(***************************************************************************)
(* No load that raced an invalidation leaves its snapshot in a cache: what *)
(* is cached is stale only while an invalidation is on its way or lost.    *)
(***************************************************************************)
THEOREM CacheIsCoherent == Spec => []CoherentCache
<1>1. IInv => CoherentCache
  BY DEF IInv, CacheOK, Covered, CoherentCache
<1>2. QED
  BY SpecIInv, <1>1, PTL

(***************************************************************************)
(* Whatever is lost, a hit lacks no write older than CONFIG_CACHE_TTL_MS.  *)
(***************************************************************************)
THEOREM StalenessIsBounded == Spec => []BoundedStaleness
<1>1. IInv => BoundedStaleness
  BY ConfigCacheAssumption DEF IInv, TypeOK, CacheOK, BoundedStaleness, Fresh, None
<1>2. QED
  BY SpecIInv, <1>1, PTL
=============================================================================
