----------------------------- MODULE SyncClient -----------------------------
(***************************************************************************)
(* One browser tab of the offline-first client (SyncManager, WsClient and  *)
(* the IndexedDB cache) against the server's sync log and its live stream. *)
(*                                                                         *)
(* Three paths change what the tab shows:                                  *)
(*   delta      pages of the log after a cursor, fenced by the server;     *)
(*   live       rows pushed over the WebSocket as they are published;      *)
(*   bootstrap  a snapshot that replaces everything.                       *)
(* All three go through one promise chain (runExclusive), each advances    *)
(* the same in-memory cursor, and each writes rows and cursor to IndexedDB *)
(* in one Dexie transaction.  The tab can be reloaded at any moment and    *)
(* then restarts from IndexedDB.                                           *)
(*                                                                         *)
(* SyncLog models the log itself (several rows per transaction, pages,     *)
(* pruning).  Here a transaction records one row, so a row is the xid of   *)
(* its transaction and a cursor is a xid; a mutation handler commits and   *)
(* then publishes.                                                         *)
(***************************************************************************)
EXTENDS Integers, FiniteSets, Sequences, SequencesExt, FiniteSetsExt

CONSTANTS
    Delta,          \* concurrent executions of deltaSync
    PageSize,       \* DELTA_PAGE_SIZE
    MaxXid,         \* bound: transactions
    MaxOverlaps,    \* bound: mutations that begin while another is not published
    MaxUnheard,     \* bound: publishes between a socket's opening and registration
    MaxHasty,       \* bound: (re)connects and follow-ups while a delta is running
    MaxLost,        \* bound: publishes that reach no subscriber
    MaxDrops,       \* bound: closed sockets
    MaxReloads,     \* bound: page reloads
    MaxReboots,     \* bound: re-bootstraps after an own membership change
    MaxBootErrors,  \* bound: bootstraps that fail
    MaxFallbacks,   \* bound: deltas answered with an error or staleCursor
    MaxDeltaErrors, \* bound: deltas whose request throws
    MaxFlushErrors, \* bound: Dexie transactions that fail
    MaxFaults       \* bound: all of the above from MaxUnheard on, together

ASSUME BoundsAssumption ==
    /\ PageSize \in Nat \ {0}
    /\ {MaxXid, MaxOverlaps, MaxUnheard, MaxHasty, MaxLost, MaxDrops, MaxReloads,
        MaxReboots, MaxBootErrors, MaxFallbacks, MaxDeltaErrors, MaxFlushErrors,
        MaxFaults} \subseteq Nat

VARIABLES
    nextXid, open, log, unpublished,        \* the server's transactions and log
    link, wire,                             \* the WebSocket and its frames
    phase,                                  \* SyncManager.start
    mem, memCursor,                         \* MobX pools, syncStore.lastSyncId
    disk, diskCursor, stamped,              \* IndexedDB rows, cursor, collections stamp
    chain, applied,                         \* the apply chain; head applied to memory?
    isDeltaSyncing, delta,                  \* the guard flag, the running deltas
    boot,                                   \* the running fullBootstrap
    followUp,                               \* connectFollowUpTimer is pending
    fate,                                   \* fate[x] (history): why a cursor may pass x
    used                                    \* used[b]: how often bound b was used

serverVars == <<nextXid, open, log, unpublished>>
linkVars   == <<link, wire>>
memVars    == <<mem, memCursor>>
diskVars   == <<disk, diskCursor, stamped>>
chainVars  == <<chain, applied>>
deltaVars  == <<isDeltaSyncing, delta>>
vars == <<serverVars, linkVars, phase, memVars, diskVars, chainVars, deltaVars,
          boot, followUp, fate, used>>

-----------------------------------------------------------------------------
Xid   == 1 .. MaxXid
Fate  == {"jumped", "erased", "unsaved"}
Bound == {"overlap", "unheard", "hasty", "lost", "drop", "reload", "reboot", "bootError",
          "fallback", "deltaError", "flushError"}

Limit == [overlap |-> MaxOverlaps, unheard |-> MaxUnheard, hasty |-> MaxHasty,
          lost |-> MaxLost, drop |-> MaxDrops, reload |-> MaxReloads,
          reboot |-> MaxReboots, bootError |-> MaxBootErrors, fallback |-> MaxFallbacks,
          deltaError |-> MaxDeltaErrors, flushError |-> MaxFlushErrors]

Faults == used["unheard"] + used["hasty"] + used["lost"] + used["drop"] + used["reload"]
          + used["reboot"] + used["bootError"] + used["fallback"] + used["deltaError"]
          + used["flushError"]

Use(b) ==
    /\ used[b] < Limit[b]
    /\ b # "overlap" => Faults < MaxFaults
    /\ used' = [used EXCEPT ![b] = @ + 1]

\* A step of the normal course that is counted in circumstances c.
Count(b, c) == IF c THEN Use(b) ELSE UNCHANGED used

\* The rows of S meet fate f; those of S are safe in memory and on disk.
Befall(S, f) == [x \in Xid |-> IF x \in S THEN fate[x] \cup {f} ELSE fate[x]]
Saved(S) == [x \in Xid |-> IF x \in S THEN {} ELSE fate[x]]

\* The greatest of a set of xids and a cursor.
Top(S, c) == Max(S \cup {c})

\* xact_id < pg_snapshot_xmin(...)
Settled(x) == x < nextXid /\ \A o \in open : x < o

\* from (auxiliary): the cursor the delta captured when it started.
NoDelta == [pc |-> "idle", from |-> 0, cursor |-> 0, rows |-> {}, more |-> FALSE]
StartDelta(c) == [NoDelta EXCEPT !.pc = "request", !.from = c, !.cursor = c]
NoBoot  == [pc |-> "idle", cursor |-> 0, rows |-> {}]

\* A task of the apply chain: a live frame, a delta page or a bootstrap load.
LiveTask(x)    == [kind |-> "live", rows |-> {x}, to |-> 0, by |-> "socket"]
PageTask(d, p) == [kind |-> "page", rows |-> p, to |-> 0, by |-> d]
BootTask(b)    == [kind |-> "boot", rows |-> b.rows, to |-> b.cursor, by |-> "bootstrap"]

-----------------------------------------------------------------------------
Init ==
    /\ nextXid = 1 /\ open = {} /\ log = {} /\ unpublished = {}
    /\ link = "down" /\ wire = <<>>
    /\ phase = "closed"
    /\ mem = {} /\ memCursor = 0
    /\ disk = {} /\ diskCursor = 0 /\ stamped = FALSE
    /\ chain = <<>> /\ applied = FALSE
    /\ isDeltaSyncing = FALSE
    /\ delta = [d \in Delta |-> NoDelta]
    /\ boot = NoBoot
    /\ followUp = FALSE
    /\ fate = [x \in Xid |-> {}]
    /\ used = [b \in Bound |-> 0]

-----------------------------------------------------------------------------
\* The server: mutation handlers

\* A mutation's transaction makes its first write.
BeginWrite ==
    /\ nextXid <= MaxXid
    /\ Count("overlap", open \cup unpublished # {})
    /\ open' = open \cup {nextXid}
    /\ nextXid' = nextXid + 1
    /\ UNCHANGED <<log, unpublished, linkVars, phase, memVars, diskVars, chainVars,
                   deltaVars, boot, followUp, fate>>

CommitWrite(x) ==
    /\ x \in open
    /\ open' = open \ {x}
    /\ log' = log \cup {x}
    /\ unpublished' = unpublished \cup {x}
    /\ UNCHANGED <<nextXid, linkVars, phase, memVars, diskVars, chainVars, deltaVars,
                   boot, followUp, fate, used>>

\* Redis, the batcher and the broadcast: the row reaches the socket if the
\* server has registered it by then, and nobody if not.
Publish(x) ==
    /\ x \in unpublished
    /\ Count("unheard", link = "open")
    /\ unpublished' = unpublished \ {x}
    /\ wire' = IF link = "live" THEN Append(wire, x) ELSE wire
    /\ UNCHANGED <<nextXid, open, log, link, phase, memVars, diskVars, chainVars,
                   deltaVars, boot, followUp, fate>>

\* The fire-and-forget publish is rejected, or Redis loses the message.
LosePublish(x) ==
    /\ x \in unpublished
    /\ Use("lost")
    /\ unpublished' = unpublished \ {x}
    /\ UNCHANGED <<nextXid, open, log, linkVars, phase, memVars, diskVars, chainVars,
                   deltaVars, boot, followUp, fate>>

-----------------------------------------------------------------------------
\* deltaSync

\* deltaSync() is called: a no-op while another one runs, else it captures the
\* shared cursor once and asks for the first page.
CallDelta ==
    IF isDeltaSyncing
    THEN UNCHANGED deltaVars
    ELSE \E d \in Delta :
            /\ delta[d].pc = "idle"
            /\ isDeltaSyncing' = TRUE
            /\ delta' = [delta EXCEPT ![d] = StartDelta(memCursor)]

\* The server reads one fenced page after the cursor of the request.
DeltaPage(c) ==
    LET rest == {x \in log : Settled(x) /\ x > c}
    IN  {x \in rest : Cardinality({y \in rest : y < x}) < PageSize}

ServeDelta(d) ==
    /\ delta[d].pc = "request"
    /\ LET c == delta[d].cursor IN
       delta' = [delta EXCEPT ![d].pc = "response", ![d].rows = DeltaPage(c),
                    ![d].more = {x \in log : Settled(x) /\ x > c} # DeltaPage(c)]
    /\ UNCHANGED <<serverVars, linkVars, phase, memVars, diskVars, chainVars,
                   isDeltaSyncing, boot, followUp, fate, used>>

\* Mutants: the end of a delta overwrites the shared cursor, or commits the
\* position after its last row.
FinishDeltaOverwriting(d, c) ==
    /\ delta' = [delta EXCEPT ![d] = NoDelta]
    /\ isDeltaSyncing' = FALSE
    /\ memCursor' = c

FinishDeltaPastEnd(d, c) ==
    /\ delta' = [delta EXCEPT ![d] = NoDelta]
    /\ isDeltaSyncing' = FALSE
    /\ memCursor' = IF c + 1 > memCursor THEN c + 1 ELSE memCursor

\* The end of a delta that was not interrupted: never regress the cursor.
FinishDelta(d, c) ==
    /\ delta' = [delta EXCEPT ![d] = NoDelta]
    /\ isDeltaSyncing' = FALSE
    /\ memCursor' = IF c > memCursor THEN c ELSE memCursor

\* The local cursor advances over the page, and the page joins the apply chain.
ReceiveDelta(d) ==
    /\ delta[d].pc = "response"
    /\ LET page == delta[d].rows
           c == Top(page, delta[d].cursor) IN
       IF page = {}
       THEN /\ FinishDelta(d, c)
            /\ UNCHANGED <<chain, mem>>
       ELSE /\ delta' = [delta EXCEPT ![d].pc = "applying", ![d].cursor = c]
            /\ chain' = Append(chain, PageTask(d, page))
            /\ UNCHANGED <<isDeltaSyncing, memVars>>
    /\ UNCHANGED <<serverVars, linkVars, phase, diskVars, applied, boot, followUp,
                   fate, used>>

\* The request throws: "non-fatal", the delta is given up.
DeltaError(d) ==
    /\ delta[d].pc \in {"request", "response"}
    /\ Use("deltaError")
    /\ delta' = [delta EXCEPT ![d] = NoDelta]
    /\ isDeltaSyncing' = FALSE
    /\ UNCHANGED <<serverVars, linkVars, phase, memVars, diskVars, chainVars, boot,
                   followUp, fate>>

(***************************************************************************)
(* fullBootstrap() is called and followed up.  While another bootstrap     *)
(* runs the call returns at once and the follow-up delta is scheduled at   *)
(* once; otherwise it is scheduled when the bootstrap is over.             *)
(***************************************************************************)
CallBoot ==
    IF boot.pc = "idle"
    THEN boot' = [NoBoot EXCEPT !.pc = "request"] /\ UNCHANGED followUp
    ELSE followUp' = TRUE /\ UNCHANGED boot

\* Not ok, or staleCursor: the delta releases the flag and falls back to a full
\* bootstrap, which it awaits if it is the one that started it.
FallBack(d) ==
    /\ delta[d].pc = "request"
    /\ Use("fallback")
    /\ delta' = [delta EXCEPT ![d] =
            IF boot.pc = "idle" THEN [NoDelta EXCEPT !.pc = "fallback"] ELSE NoDelta]
    /\ isDeltaSyncing' = FALSE
    /\ CallBoot
    /\ UNCHANGED <<serverVars, linkVars, phase, memVars, diskVars, chainVars, fate>>

\* Mutant: nobody follows up a bootstrap.
BootOverAlone ==
    /\ boot' = NoBoot
    /\ delta' = [d \in Delta |-> IF delta[d].pc = "fallback" THEN NoDelta ELSE delta[d]]
    /\ isDeltaSyncing' = (isDeltaSyncing /\ \A d \in Delta : delta[d].pc # "fallback")
    /\ UNCHANGED followUp

\* The bootstrap is over: its callers follow up, and a delta that awaited it
\* clears the flag, whoever holds it by now.
BootOver ==
    LET waiting == {d \in Delta : delta[d].pc = "fallback"} IN
    /\ boot' = NoBoot
    /\ followUp' = TRUE
    /\ delta' = [d \in Delta |-> IF d \in waiting THEN NoDelta ELSE delta[d]]
    /\ isDeltaSyncing' = (isDeltaSyncing /\ waiting = {})

-----------------------------------------------------------------------------
\* fullBootstrap

\* The server takes the topmost settled cursor ...
BootCursor ==
    /\ boot.pc = "request"
    /\ boot' = [boot EXCEPT !.pc = "reading",
            !.cursor = Top({x \in log : Settled(x)}, 0)]
    /\ UNCHANGED <<serverVars, linkVars, phase, memVars, diskVars, chainVars, deltaVars,
                   followUp, fate, used>>

\* ... and then reads the entities.
BootRead ==
    /\ boot.pc = "reading"
    /\ boot' = [boot EXCEPT !.pc = "response", !.rows = log]
    /\ UNCHANGED <<serverVars, linkVars, phase, memVars, diskVars, chainVars, deltaVars,
                   followUp, fate, used>>

\* The client has the whole snapshot and queues its load on the chain.
BootReceive ==
    /\ boot.pc = "response"
    /\ boot' = [boot EXCEPT !.pc = "loading"]
    /\ chain' = Append(chain, BootTask(boot))
    /\ UNCHANGED <<serverVars, linkVars, phase, memVars, diskVars, applied, deltaVars,
                   followUp, fate, used>>

\* scheduleRebootstrap, after the user's own team membership changed.
Reboot ==
    /\ phase # "closed" /\ mem # {}
    /\ Use("reboot")
    /\ CallBoot
    /\ UNCHANGED <<serverVars, linkVars, phase, memVars, diskVars, chainVars, deltaVars,
                   fate>>

\* The snapshot request fails: an error status, and the callers carry on.
BootFails ==
    /\ boot.pc \in {"request", "reading", "response"}
    /\ Use("bootError")
    /\ BootOver
    /\ UNCHANGED <<serverVars, linkVars, phase, memVars, diskVars, chainVars, fate>>

-----------------------------------------------------------------------------
\* The apply chain: one task at a time

\* doApplyActions up to its first await: pools and in-memory cursor.  A live
\* frame is not fenced: the cursor can jump over rows that are still to come.
ApplyHead ==
    /\ chain # <<>> /\ ~ applied
    /\ Head(chain).kind # "boot"
    /\ LET maxId == Top(Head(chain).rows, memCursor) IN
       /\ mem' = mem \cup Head(chain).rows
       /\ memCursor' = maxId
       /\ chain' = [chain EXCEPT ![1].to = maxId]
       /\ fate' = IF Head(chain).kind = "live"
                  THEN Befall({x \in Xid : memCursor < x /\ x < maxId} \ mem, "jumped")
                  ELSE fate
    /\ applied' = TRUE
    /\ UNCHANGED <<serverVars, linkVars, phase, diskVars, deltaVars, boot,
                   followUp, used>>

\* Mutant: the next page is requested from the shared cursor.
PageDoneShared(d) ==
    IF delta[d].more
    THEN /\ delta' = [delta EXCEPT ![d].pc = "request", ![d].rows = {},
                                   ![d].cursor = memCursor]
         /\ UNCHANGED <<isDeltaSyncing, memCursor>>
    ELSE FinishDelta(d, delta[d].cursor)

\* The page a delta waited for is done: next page, or the end of the delta.
PageDone(d) ==
    IF delta[d].more
    THEN /\ delta' = [delta EXCEPT ![d].pc = "request", ![d].rows = {}]
         /\ UNCHANGED <<isDeltaSyncing, memCursor>>
    ELSE FinishDelta(d, delta[d].cursor)

\* Mutant: a live frame persists its cursor and not its row.
FlushHeadCursorOnly ==
    /\ chain # <<>> /\ applied
    /\ disk' = IF Head(chain).kind = "page" THEN disk \cup Head(chain).rows ELSE disk
    /\ diskCursor' = Head(chain).to
    /\ chain' = Tail(chain)
    /\ applied' = FALSE
    /\ IF Head(chain).kind = "page"
       THEN PageDone(Head(chain).by)
       ELSE UNCHANGED <<deltaVars, memCursor>>
    /\ fate' = Saved(Head(chain).rows)
    /\ UNCHANGED <<serverVars, linkVars, phase, mem, stamped, boot, followUp, used>>

\* The Dexie transaction commits rows and cursor together.
FlushHead ==
    /\ chain # <<>> /\ applied
    /\ disk' = disk \cup Head(chain).rows
    /\ diskCursor' = Head(chain).to
    /\ chain' = Tail(chain)
    /\ applied' = FALSE
    /\ IF Head(chain).kind = "page"
       THEN PageDone(Head(chain).by)
       ELSE UNCHANGED <<deltaVars, memCursor>>
    /\ fate' = Saved(Head(chain).rows)
    /\ UNCHANGED <<serverVars, linkVars, phase, mem, stamped, boot, followUp, used>>

\* The Dexie transaction of an apply fails: a live batch is logged, a delta is
\* given up.
FlushFails ==
    /\ chain # <<>> /\ applied
    /\ Use("flushError")
    /\ chain' = Tail(chain)
    /\ applied' = FALSE
    /\ IF Head(chain).kind = "page"
       THEN /\ delta' = [delta EXCEPT ![Head(chain).by] = NoDelta]
            /\ isDeltaSyncing' = FALSE
       ELSE UNCHANGED deltaVars
    /\ fate' = Befall(Head(chain).rows \ disk, "unsaved")
    /\ UNCHANGED <<serverVars, linkVars, phase, memVars, diskVars, boot, followUp>>

\* The authoritative load: IndexedDB and pools are replaced, and the cursor
\* becomes the snapshot's, which may be lower than before.
LoadBoot ==
    /\ chain # <<>> /\ ~ applied
    /\ Head(chain).kind = "boot"
    /\ disk' = Head(chain).rows
    /\ diskCursor' = Head(chain).to
    /\ stamped' = TRUE
    /\ mem' = Head(chain).rows
    /\ memCursor' = Head(chain).to
    /\ chain' = Tail(chain)
    /\ fate' = [x \in Xid |-> IF x \in Head(chain).rows THEN {} ELSE Befall(mem, "erased")[x]]
    /\ BootOver
    /\ UNCHANGED <<serverVars, linkVars, phase, applied, used>>

\* Its Dexie transaction fails: nothing is loaded.
LoadFails ==
    /\ chain # <<>> /\ ~ applied
    /\ Head(chain).kind = "boot"
    /\ Use("flushError")
    /\ chain' = Tail(chain)
    /\ BootOver
    /\ UNCHANGED <<serverVars, linkVars, phase, memVars, diskVars, applied, fate>>

-----------------------------------------------------------------------------
\* start, reload and the WebSocket

\* Warm cache: load it and run a delta.  Cold: bootstrap, then follow up.
Start ==
    /\ phase = "closed"
    /\ phase' = "starting"
    /\ IF stamped
       THEN /\ mem' = disk
            /\ memCursor' = diskCursor
            /\ isDeltaSyncing' = TRUE
            /\ \E d \in Delta : delta' = [delta EXCEPT ![d] = StartDelta(diskCursor)]
            /\ UNCHANGED <<boot, followUp>>
       ELSE /\ CallBoot
            /\ UNCHANGED <<memVars, deltaVars>>
    /\ UNCHANGED <<serverVars, linkVars, diskVars, chainVars, fate, used>>

\* The first sync is over: setupWebSocket and the event listeners.
EndStart ==
    /\ phase = "starting"
    /\ stamped \/ boot.pc = "idle"
    /\ \A d \in Delta : delta[d].pc = "idle"
    /\ phase' = "running"
    /\ UNCHANGED <<serverVars, linkVars, memVars, diskVars, chainVars, deltaVars,
                   boot, followUp, fate, used>>

\* The page is reloaded, at any moment: everything in memory is lost, a Dexie
\* transaction under way included.
Reload ==
    /\ phase # "closed"
    /\ Use("reload")
    /\ phase' = "closed"
    /\ link' = "down" /\ wire' = <<>>
    /\ mem' = {} /\ memCursor' = 0
    /\ chain' = <<>> /\ applied' = FALSE
    /\ isDeltaSyncing' = FALSE
    /\ delta' = [d \in Delta |-> NoDelta]
    /\ boot' = NoBoot
    /\ followUp' = FALSE
    /\ UNCHANGED <<serverVars, diskVars, fate>>

\* Mutant: a (re)connected socket is trusted without a delta.
ConnectNoDelta ==
    /\ phase = "running"
    /\ link = "down"
    /\ link' = "open"
    /\ UNCHANGED <<serverVars, wire, phase, memVars, diskVars, chainVars,
                   deltaVars, boot, followUp, fate, used>>

\* ws.onopen: the status handler runs a delta and schedules the follow-up.
Connect ==
    /\ phase = "running"
    /\ link = "down"
    /\ Count("hasty", isDeltaSyncing)
    /\ link' = "open"
    /\ CallDelta
    /\ followUp' = TRUE
    /\ UNCHANGED <<serverVars, wire, phase, memVars, diskVars, chainVars, boot,
                   fate>>

\* The server adds the socket to its ConnectionManager and its org channel.
Register ==
    /\ link = "open"
    /\ link' = "live"
    /\ UNCHANGED <<serverVars, wire, phase, memVars, diskVars, chainVars,
                   deltaVars, boot, followUp, fate, used>>

Disconnect ==
    /\ link # "down"
    /\ Use("drop")
    /\ link' = "down"
    /\ wire' = <<>>
    /\ UNCHANGED <<serverVars, phase, memVars, diskVars, chainVars, deltaVars,
                   boot, followUp, fate>>

\* A `sync` frame arrives: its row joins the apply chain.
Receive ==
    /\ wire # <<>>
    /\ chain' = Append(chain, LiveTask(Head(wire)))
    /\ wire' = Tail(wire)
    /\ UNCHANGED <<serverVars, link, phase, memVars, diskVars, applied, deltaVars,
                   boot, followUp, fate, used>>

\* The follow-up timer fires, COMMIT_WATERMARK_LAG_MS + 300 ms after the socket
\* opened or a bootstrap ended.  A delta that still runs then swallows the call.
FollowUp ==
    /\ phase = "running" /\ followUp
    /\ Count("hasty", isDeltaSyncing)
    /\ followUp' = FALSE
    /\ CallDelta
    /\ UNCHANGED <<serverVars, linkVars, phase, memVars, diskVars, chainVars, boot,
                   fate>>

\* A delta for another reason: an own mutation has drained, the server has sent
\* a `resync` hint, or the browser is online again.
Hint ==
    /\ phase = "running"
    /\ ~ isDeltaSyncing
    /\ CallDelta
    /\ UNCHANGED <<serverVars, linkVars, phase, memVars, diskVars, chainVars, boot,
                   followUp, fate, used>>

-----------------------------------------------------------------------------
Server == \/ BeginWrite
          \/ \E x \in Xid : CommitWrite(x) \/ Publish(x) \/ LosePublish(x)

DeltaStep(d) == \/ ServeDelta(d) \/ ReceiveDelta(d) \/ DeltaError(d)
                \/ FallBack(d)

Next ==
    \/ Server
    \/ \E d \in Delta : DeltaStep(d)
    \/ BootCursor \/ BootRead \/ BootReceive \/ BootFails \/ Reboot
    \/ ApplyHead \/ FlushHead \/ FlushFails \/ LoadBoot \/ LoadFails
    \/ Start \/ EndStart \/ Reload
    \/ Connect \/ Register \/ Disconnect \/ Receive
    \/ FollowUp \/ Hint

Spec == Init /\ [][Next]_vars

-----------------------------------------------------------------------------
\* Properties

TypeOK ==
    /\ nextXid \in 1 .. MaxXid + 1
    /\ {open, log, unpublished, mem, disk} \subseteq SUBSET Xid
    /\ link \in {"down", "open", "live"}
    /\ ToSet(wire) \subseteq Xid
    /\ phase \in {"closed", "starting", "running"}
    /\ {memCursor, diskCursor} \subseteq 0 .. MaxXid
    /\ {stamped, applied, isDeltaSyncing} \subseteq BOOLEAN
    /\ \A t \in ToSet(chain) : t.kind \in {"live", "page", "boot"} /\ t.rows \subseteq log
    /\ \A d \in Delta : delta[d].pc \in {"idle", "request", "response", "applying", "fallback"}
    /\ boot.pc \in {"idle", "request", "reading", "response", "loading"}
    /\ followUp \in BOOLEAN
    /\ fate \in [Xid -> SUBSET Fate]
    /\ \A b \in Bound : used[b] \in 0 .. Limit[b]

\* Nothing is under way any more: no handler, frame, timer, request or apply.
AtRest ==
    /\ phase = "running" /\ link = "live"
    /\ open = {} /\ unpublished = {} /\ wire = <<>>
    /\ chain = <<>> /\ ~ followUp /\ boot.pc = "idle"
    /\ \A d \in Delta : delta[d].pc = "idle"

(***************************************************************************)
(* The live stream, the deltas and the bootstraps together lose nothing    *)
(* while they are given the time they count on: a connected tab that has   *)
(* come to rest shows every committed row, after dropped sockets and       *)
(* failed bootstraps too.                                                  *)
(***************************************************************************)
Timely == \A b \in Bound \ {"drop", "bootError"} : used[b] = 0

NoLostUpdate == AtRest /\ Timely => log \subseteq mem

(***************************************************************************)
(* A delta passes over nothing: every row between the cursor it captured   *)
(* and the one it has paged to is in memory or in a page of its own that   *)
(* is about to be, whatever live frames did to the shared cursor and       *)
(* however the transactions overlap, unless a bootstrap has erased it      *)
(* from memory meanwhile.                                                  *)
(***************************************************************************)
Arriving(d) == UNION {t.rows : t \in {t \in ToSet(chain) : t.by = d}}

DeltaCoversItsSpan ==
    \A d \in Delta : \A x \in log :
        delta[d].from < x /\ x <= delta[d].cursor =>
            x \in mem \cup Arriving(d) \/ "erased" \in fate[x]

(***************************************************************************)
(* No delta will deliver a row behind the cursor it starts from.  So a     *)
(* cursor, in memory or in IndexedDB, is ahead of a row that is not there  *)
(* only if a live frame has jumped over the row, a bootstrap has erased    *)
(* it, or the Dexie transaction of this very row has failed: never because *)
(* another row's transaction failed, pages and frames were interleaved, or *)
(* the page was reloaded between two transactions.                         *)
(***************************************************************************)
CursorsAreHonest ==
    \A x \in log : \/ x <= memCursor /\ x \notin mem
                   \/ x <= diskCursor /\ x \notin disk => fate[x] # {}

(***************************************************************************)
(* A tab at rest has everything behind its cursor: what it misses, the     *)
(* next delta delivers.                                                    *)
(***************************************************************************)
NoGapBehindCursor == AtRest => \A x \in log : x <= memCursor => x \in mem

(***************************************************************************)
(* A row ahead of the cursor is on its way, within the reach of a running  *)
(* delta, or promised: a follow-up will run after the socket has opened,   *)
(* the bootstrap is over or the timer has expired.                         *)
(***************************************************************************)
OnItsWay(x) == x \in unpublished \cup ToSet(wire) \cup UNION {t.rows : t \in ToSet(chain)}

InReach(d, x) ==
    \/ x > delta[d].cursor /\ (delta[d].pc = "request" \/ delta[d].more)
    \/ x \in delta[d].rows

Awaited(x) ==
    \/ followUp \/ boot.pc # "idle" \/ link = "down"
    \/ OnItsWay(x)
    \/ \E d \in Delta : InReach(d, x)

(***************************************************************************)
(* A missing row that is ahead of the cursor stays awaited, whatever       *)
(* overlaps: it is given up only when its publish is lost or meets a       *)
(* socket that is not registered, when the request or the Dexie            *)
(* transaction of a delta fails, when a running delta swallows the         *)
(* follow-up, or when a delta reads its last page while the fence still    *)
(* holds the row.                                                          *)
(***************************************************************************)
GivenUp(x) ==
    \/ \E b \in {"lost", "unheard", "hasty", "deltaError", "flushError"} : used'[b] > used[b]
    \/ ~ Settled(x) /\ \E d \in Delta : ServeDelta(d) /\ ~ delta'[d].more

MissingIsAwaited ==
    [][\A x \in log' \ mem' :
          /\ x > memCursor'
          /\ x \in log \ mem /\ x > memCursor => Awaited(x)
          => Awaited(x)' \/ GivenUp(x)]_vars

(***************************************************************************)
(* Only an authoritative load or a reload moves the shared cursor back: a  *)
(* delta that ends late never regresses what a live frame advanced.        *)
(***************************************************************************)
CursorRegressesOnlyOnLoad ==
    [][memCursor' < memCursor =>
        \/ phase' = "closed"
        \/ chain # <<>> /\ Head(chain).kind = "boot" /\ memCursor' = Head(chain).to]_vars
=============================================================================
