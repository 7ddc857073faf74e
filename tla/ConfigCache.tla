---------------------------- MODULE ConfigCache ----------------------------
(***************************************************************************)
(* The settings snapshot of ConfigService: every server process keeps the  *)
(* stored rows of a scope in memory for CONFIG_CACHE_TTL_MS, drops them    *)
(* when a write is announced on the Redis channel `config:invalidate`, and *)
(* pushes one setting (log.level) into a sink that keeps its own copy.     *)
(*                                                                         *)
(* One scope is modelled, the platform scope that log.level lives in; its  *)
(* rows are represented by a version, the number of writes committed to    *)
(* them.  Every await of the code ends a step: a load is the cache miss,   *)
(* the query's snapshot and the continuation; a write is its commit, the   *)
(* local bump and the publish.                                             *)
(***************************************************************************)
EXTENDS Integers

CONSTANTS
    Proc,        \* the server processes that hold a ConfigService
    Write,       \* the calls of set, clear and deleteScope that change a row
    TTL,         \* CONFIG_CACHE_TTL_MS
    MaxClock,    \* bound: ticks of the wall clock
    MaxFaults    \* bound: failed publishes and queries, lost connections, restarts

ASSUME ConfigCacheAssumption ==
    /\ TTL \in Nat
    /\ MaxClock \in Nat
    /\ MaxFaults \in Nat

VARIABLES
    clock,      \* Date.now()
    db,         \* the version of the scope's rows in Postgres
    wpc,        \* wpc[w]: how far write w has come
    home,       \* home[w]: the process that runs w
    ver,        \* ver[w]: the version w committed
    committedAt, \* committedAt[w]: when it did (history)
    cached,     \* cached[p]: version of the snapshot in p's cache, or None
    expires,    \* expires[p]: expiresAt of that snapshot
    gen,        \* gen[p]: the generation of the scope in p
    load,       \* load[p]: the load in `inflight`, "none" when there is none
    loadAt,     \* loadAt[p]: `now` of that load
    loadGen,    \* loadGen[p]: `generation` of that load
    loadVer,    \* loadVer[p]: the version its query has returned
    push,       \* push[p]: an applyDynamicConfig waits for that load
    level,      \* level[p]: the version of log.level that the logger of p holds
    sub,        \* sub[p]: p's subscriber connection is up
    chan,       \* chan[p]: writes whose announcement is on its way to p
    missed,     \* missed[p]: writes whose announcement p will never get (history)
    faults      \* faults so far

wVars   == <<wpc, home, ver, committedAt>>
cVars   == <<cached, expires, gen>>
lVars   == <<load, loadAt, loadGen, loadVer, push>>
netVars == <<sub, chan, missed>>
vars == <<clock, db, wVars, cVars, lVars, level, netVars, faults>>

None == -1

TypeOK ==
    /\ clock \in Nat /\ db \in Nat /\ faults \in Nat
    /\ wpc \in [Write -> {"idle", "committed", "publishing", "done"}]
    /\ home \in [Write -> Proc]
    /\ ver \in [Write -> Nat]
    /\ committedAt \in [Write -> Nat]
    /\ cached \in [Proc -> Nat \cup {None}]
    /\ expires \in [Proc -> Nat]
    /\ gen \in [Proc -> Nat]
    /\ load \in [Proc -> {"none", "querying", "answered"}]
    /\ loadAt \in [Proc -> Nat]
    /\ loadGen \in [Proc -> Nat]
    /\ loadVer \in [Proc -> Nat]
    /\ push \in [Proc -> BOOLEAN]
    /\ level \in [Proc -> Nat]
    /\ sub \in [Proc -> BOOLEAN]
    /\ chan \in [Proc -> SUBSET Write]
    /\ missed \in [Proc -> SUBSET Write]

\* Processes that have been up for a while: subscribed, and idle.  Restart leads
\* through the boot.
Init ==
    /\ clock = 0 /\ db = 0 /\ faults = 0
    /\ wpc = [w \in Write |-> "idle"]
    /\ home \in [Write -> Proc]
    /\ ver = [w \in Write |-> 0]
    /\ committedAt = [w \in Write |-> 0]
    /\ cached = [p \in Proc |-> None]
    /\ expires = [p \in Proc |-> 0]
    /\ gen = [p \in Proc |-> 0]
    /\ load = [p \in Proc |-> "none"]
    /\ loadAt = [p \in Proc |-> 0]
    /\ loadGen = [p \in Proc |-> 0]
    /\ loadVer = [p \in Proc |-> 0]
    /\ push = [p \in Proc |-> FALSE]
    /\ level = [p \in Proc |-> 0]
    /\ sub = [p \in Proc |-> TRUE]
    /\ chan = [p \in Proc |-> {}]
    /\ missed = [p \in Proc |-> {}]
-----------------------------------------------------------------------------
\* Reads

\* The entry a hit may be served from: hit.expiresAt > now.
Fresh(p) == cached[p] # None /\ expires[p] > clock

\* loadScope on a miss with no load in `inflight`.
BeginLoad(p) ==
    /\ load' = [load EXCEPT ![p] = "querying"]
    /\ loadAt' = [loadAt EXCEPT ![p] = clock]
    /\ loadGen' = [loadGen EXCEPT ![p] = gen[p]]
    /\ UNCHANGED loadVer

\* A request reads a setting and misses.  A hit, and a miss that joins the load
\* in flight, change nothing.
Miss(p) ==
    /\ ~ Fresh(p)
    /\ load[p] = "none"
    /\ BeginLoad(p)
    /\ UNCHANGED <<clock, db, wVars, cVars, push, level, netVars, faults>>

\* Postgres evaluates the findMany of the load.
Query(p) ==
    /\ load[p] = "querying"
    /\ load' = [load EXCEPT ![p] = "answered"]
    /\ loadVer' = [loadVer EXCEPT ![p] = db]
    /\ UNCHANGED <<clock, db, wVars, cVars, loadAt, loadGen, push, level, netVars, faults>>

\* The load leaves `inflight`.
EndLoad(p) ==
    /\ load' = [load EXCEPT ![p] = "none"]
    /\ loadAt' = [loadAt EXCEPT ![p] = 0]
    /\ loadGen' = [loadGen EXCEPT ![p] = 0]
    /\ loadVer' = [loadVer EXCEPT ![p] = 0]
    /\ push' = [push EXCEPT ![p] = FALSE]

\* Mutant: a lifetime counted from the answer instead of from the start of the load.
ExpiryFromAnswer(p) == clock + TTL

\* this.generation.get(cacheKey) === generation
Keeps(p) == gen[p] = loadGen[p]
Expiry(p) == loadAt[p] + TTL

\* The continuation of the load: cache the snapshot unless an invalidation has
\* come since the load began, hand it to every waiter, leave `inflight`.
FinishLoad(p) ==
    /\ load[p] = "answered"
    /\ IF Keeps(p)
         THEN /\ cached' = [cached EXCEPT ![p] = loadVer[p]]
              /\ expires' = [expires EXCEPT ![p] = Expiry(p)]
         ELSE UNCHANGED <<cached, expires>>
    /\ level' = IF push[p] THEN [level EXCEPT ![p] = loadVer[p]] ELSE level
    /\ EndLoad(p)
    /\ UNCHANGED <<clock, db, wVars, gen, netVars, faults>>

\* The query is rejected: every waiter gets the error, nothing is cached, and a
\* push leaves the level where it was.
LoadFails(p) ==
    /\ faults < MaxFaults
    /\ load[p] = "querying"
    /\ EndLoad(p)
    /\ faults' = faults + 1
    /\ UNCHANGED <<clock, db, wVars, cVars, level, netVars>>
-----------------------------------------------------------------------------
\* Writes and invalidations

\* this.cache.delete
Drop(p) ==
    /\ cached' = [cached EXCEPT ![p] = None]
    /\ expires' = [expires EXCEPT ![p] = 0]

\* Mutants: a generation kept in the entry it deletes, and one without its
\* default of 0 (undefined + 1).
BumpResets(p) == Drop(p) /\ gen' = [gen EXCEPT ![p] = 0]
BumpUndefined(p) == Drop(p) /\ gen' = [gen EXCEPT ![p] = None]

\* bumpGeneration
Bump(p) ==
    /\ Drop(p)
    /\ gen' = [gen EXCEPT ![p] = gen[p] + 1]

\* The upsert of set, the delete of clear or the deleteMany of deleteScope.
Commit(w) ==
    /\ wpc[w] = "idle"
    /\ wpc' = [wpc EXCEPT ![w] = "committed"]
    /\ db' = db + 1
    /\ ver' = [ver EXCEPT ![w] = db + 1]
    /\ committedAt' = [committedAt EXCEPT ![w] = clock]
    /\ UNCHANGED <<clock, home, cVars, lVars, level, netVars, faults>>

\* invalidate, up to its publish: the writing process drops its own snapshot.
InvalidateLocally(w) ==
    /\ wpc[w] = "committed"
    /\ wpc' = [wpc EXCEPT ![w] = "publishing"]
    /\ Bump(home[w])
    /\ UNCHANGED <<clock, db, home, ver, committedAt, lVars, level, netVars, faults>>

\* redis.publish reaches the connections that are subscribed now.
Publish(w) ==
    /\ wpc[w] = "publishing"
    /\ wpc' = [wpc EXCEPT ![w] = "done"]
    /\ chan' = [p \in Proc |-> IF sub[p] THEN chan[p] \cup {w} ELSE chan[p]]
    /\ missed' = [p \in Proc |-> IF sub[p] THEN missed[p] ELSE missed[p] \cup {w}]
    /\ UNCHANGED <<clock, db, home, ver, committedAt, cVars, lVars, level, sub, faults>>

\* The publish is rejected, logged and forgotten.
PublishFails(w) ==
    /\ faults < MaxFaults
    /\ wpc[w] = "publishing"
    /\ wpc' = [wpc EXCEPT ![w] = "done"]
    /\ missed' = [p \in Proc |-> missed[p] \cup {w}]
    /\ faults' = faults + 1
    /\ UNCHANGED <<clock, db, home, ver, committedAt, cVars, lVars, level, sub, chan>>

\* applyDynamicConfig begins right after the bump, so it always misses: it joins
\* the load in flight or starts one.
BeginPush(p) ==
    /\ push' = [push EXCEPT ![p] = TRUE]
    /\ IF load[p] = "none" THEN BeginLoad(p) ELSE UNCHANGED <<load, loadAt, loadGen, loadVer>>

\* on('message'): applyInvalidation, then applyDynamicConfig up to its await.
Deliver(p, w) ==
    /\ w \in chan[p]
    /\ chan' = [chan EXCEPT ![p] = chan[p] \ {w}]
    /\ Bump(p)
    /\ BeginPush(p)
    /\ UNCHANGED <<clock, db, wVars, level, sub, missed, faults>>

\* pruneDeprecatedKeys of another scope's or a retired key's rows: the local
\* cache is cleared, the generations stay.
Prune(p) ==
    /\ cached[p] # None
    /\ Drop(p)
    /\ UNCHANGED <<clock, db, wVars, gen, lVars, level, netVars, faults>>
-----------------------------------------------------------------------------
\* The connection, the process and the clock

\* SUBSCRIBE is acknowledged, at boot or after a reconnect of the client.
Subscribe(p) ==
    /\ ~ sub[p]
    /\ sub' = [sub EXCEPT ![p] = TRUE]
    /\ UNCHANGED <<clock, db, wVars, cVars, lVars, level, chan, missed, faults>>

\* The connection is lost, with what was on its way.
Disconnect(p) ==
    /\ faults < MaxFaults
    /\ sub[p]
    /\ sub' = [sub EXCEPT ![p] = FALSE]
    /\ chan' = [chan EXCEPT ![p] = {}]
    /\ missed' = [missed EXCEPT ![p] = missed[p] \cup chan[p]]
    /\ faults' = faults + 1
    /\ UNCHANGED <<clock, db, wVars, cVars, lVars, level>>

\* The process dies and starts again: its memory is new, the writes it was
\* running announce nothing any more.
Restart(p) ==
    /\ faults < MaxFaults
    /\ LET cut == {w \in Write : home[w] = p /\ wpc[w] \in {"committed", "publishing"}}
       IN /\ wpc' = [w \in Write |-> IF w \in cut THEN "done" ELSE wpc[w]]
          /\ missed' = [q \in Proc |-> missed[q] \cup cut]
    /\ Drop(p)
    /\ gen' = [gen EXCEPT ![p] = 0]
    /\ load' = [load EXCEPT ![p] = "querying"]
    /\ loadAt' = [loadAt EXCEPT ![p] = clock]
    /\ loadGen' = [loadGen EXCEPT ![p] = 0]
    /\ loadVer' = [loadVer EXCEPT ![p] = 0]
    /\ push' = [push EXCEPT ![p] = TRUE]
    /\ level' = [level EXCEPT ![p] = 0]
    /\ sub' = [sub EXCEPT ![p] = FALSE]
    /\ chan' = [chan EXCEPT ![p] = {}]
    /\ faults' = faults + 1
    /\ UNCHANGED <<clock, db, home, ver, committedAt>>

Tick ==
    /\ clock < MaxClock
    /\ clock' = clock + 1
    /\ UNCHANGED <<db, wVars, cVars, lVars, level, netVars, faults>>
-----------------------------------------------------------------------------
Next ==
    \/ \E p \in Proc : \/ Miss(p) \/ Query(p) \/ FinishLoad(p) \/ LoadFails(p)
                       \/ Prune(p) \/ Subscribe(p) \/ Disconnect(p) \/ Restart(p)
                       \/ \E w \in Write : Deliver(p, w)
    \/ \E w \in Write : \/ Commit(w) \/ InvalidateLocally(w)
                        \/ Publish(w) \/ PublishFails(w)
    \/ Tick

Spec == Init /\ [][Next]_vars
-----------------------------------------------------------------------------
\* The invalidation of w is still to take effect in p.  The process that wrote
\* depends on no announcement.
Undelivered(w, p) == \/ wpc[w] = "committed"
                     \/ home[w] # p /\ (wpc[w] = "publishing" \/ w \in chan[p])

(***************************************************************************)
(* The race the generation counter is there for: a snapshot that stays in  *)
(* a cache lacks a committed write only while that write's invalidation is *)
(* still on its way to the process, or was lost on it.  A load that began  *)
(* before the invalidation leaves nothing behind.                          *)
(***************************************************************************)
CoherentCache ==
    \A p \in Proc, w \in Write :
        cached[p] # None /\ ver[w] > cached[p] =>
            Undelivered(w, p) \/ (home[w] # p /\ w \in missed[p])

(***************************************************************************)
(* The TTL is the backstop for a lost announcement: no hit is served that  *)
(* lacks a write committed CONFIG_CACHE_TTL_MS ago or earlier, however     *)
(* many announcements were lost and however slow the load was.             *)
(***************************************************************************)
BoundedStaleness ==
    \A p \in Proc, w \in Write :
        Fresh(p) /\ ver[w] > cached[p] => clock < committedAt[w] + TTL
=============================================================================
