-------------------------- MODULE SyncClientProofs --------------------------
(***************************************************************************)
(* Proofs about SyncClient, for every bound and so for any number of       *)
(* failures.                                                               *)
(*                                                                         *)
(* Types, the rows in use (Logged), what is idle (Idle) and the shape of   *)
(* the apply chain (Chained) make up Base.  On top of it stands one        *)
(* inductive invariant, Inv, that says what every cursor owes to the rows  *)
(* behind it:                                                              *)
(*   - a page is a prefix of the settled rows after its cursor (Paged),    *)
(*     and a snapshot has every row up to its own (Snapshots);             *)
(*   - the shared cursor (HonestMem), the cursor an apply will commit      *)
(*     (HonestHead) and the one on disk (HonestDisk) account for all rows  *)
(*     behind them, by the rows themselves or by what befell these;        *)
(*   - a delta accounts for its span by memory, a page in the chain or an  *)
(*     erasure, and for what was behind its start as the cursor did then   *)
(*     (Spans);                                                            *)
(*   - what is in memory is on disk, or about to be, or its own Dexie      *)
(*     transaction has failed (Kept).                                      *)
(* These support each other: a delta starts from the shared cursor and     *)
(* ends by moving it, and IndexedDB gets the cursor of memory.  The last   *)
(* part follows one missing row from its commit to the tab: promised, on   *)
(* its way or within the reach of a delta (StillAwaited).                  *)
(***************************************************************************)
EXTENDS SyncClient, FiniteSetTheorems, SequenceTheorems, WellFoundedInduction, TLAPS

Task ==
    {t \in [kind : {"live", "page", "boot"}, rows : SUBSET Xid, to : 0 .. MaxXid,
            by : Delta \cup {"socket", "bootstrap"}] : t.kind = "page" => t.by \in Delta}

DeltaState ==
    [pc : {"idle", "request", "response", "applying", "fallback"},
     from : 0 .. MaxXid, cursor : 0 .. MaxXid, rows : SUBSET Xid, more : BOOLEAN]

BootState ==
    [pc : {"idle", "request", "reading", "response", "loading"},
     cursor : 0 .. MaxXid, rows : SUBSET Xid]

\* What each variable ranges over.
Types ==
    /\ nextXid \in 1 .. MaxXid + 1
    /\ open \in SUBSET Xid /\ log \in SUBSET Xid /\ unpublished \in SUBSET Xid
    /\ mem \in SUBSET Xid /\ disk \in SUBSET Xid
    /\ link \in {"down", "open", "live"}
    /\ wire \in Seq(Xid)
    /\ phase \in {"closed", "starting", "running"}
    /\ memCursor \in 0 .. MaxXid /\ diskCursor \in 0 .. MaxXid
    /\ stamped \in BOOLEAN /\ applied \in BOOLEAN /\ isDeltaSyncing \in BOOLEAN
    /\ chain \in Seq(Task)
    /\ delta \in [Delta -> DeltaState]
    /\ boot \in BootState
    /\ followUp \in BOOLEAN /\ fate \in [Xid -> SUBSET Fate]
    /\ used \in [Bound -> Nat] /\ \A b \in Bound : used[b] <= Limit[b]

\* Every row the tab has, waits for or is sent is in the log.
Logged ==
    /\ \A x \in log \cup open : x < nextXid
    /\ log \cap open = {}
    /\ unpublished \subseteq log /\ mem \subseteq log /\ disk \subseteq log
    /\ boot.rows \subseteq log
    /\ \A i \in 1 .. Len(wire) : wire[i] \in log
    /\ \A i \in 1 .. Len(chain) : chain[i].rows \subseteq log
    /\ \A d \in Delta : delta[d].rows \subseteq log

\* A closed tab has no memory, an idle activity no state, a closed socket no frames.
Idle ==
    /\ phase = "closed" =>
          /\ mem = {} /\ memCursor = 0 /\ chain = <<>> /\ ~ applied
          /\ boot.pc = "idle" /\ \A d \in Delta : delta[d].pc = "idle"
    /\ \A d \in Delta : delta[d].pc = "idle" => delta[d] = NoDelta
    /\ phase # "running" => link = "down"
    /\ link = "down" => wire = <<>>

\* The chain: at most one load and at most one page of a delta, each with
\* somebody who waits for it, and the head, when it is in memory, really is.
Chained ==
    /\ applied => /\ chain # <<>> /\ chain[1].kind # "boot"
                  /\ chain[1].rows \subseteq mem
    /\ \A i \in 1 .. Len(chain) : chain[i].kind = "boot" => boot.pc = "loading"
    /\ \A i, j \in 1 .. Len(chain) : chain[i].kind = "boot" /\ chain[j].kind = "boot" => i = j
    /\ \A i \in 1 .. Len(chain) : chain[i].kind = "page" =>
          chain[i].by \in Delta /\ delta[chain[i].by].pc = "applying"
    /\ \A i, j \in 1 .. Len(chain) :
          chain[i].kind = "page" /\ chain[j].kind = "page" /\ chain[i].by = chain[j].by => i = j

Base == Types /\ Logged /\ Idle /\ Chained

-----------------------------------------------------------------------------
\* Sets of rows, sequences and records

\* The greatest element of a set of bounded naturals exists.
LEMMA MaxOfBounded ==
    ASSUME NEW n \in Nat, NEW S \in SUBSET (0 .. n), S # {}
    PROVE  Max(S) \in S /\ \A y \in S : y <= Max(S)
<1> DEFINE Above(x) == {y \in S : y > x}
           T == {Above(x) : x \in S}
<1>1. IsFiniteSet(0 .. n)
  BY FS_Interval
<1>2. T \subseteq FiniteSubsetsOf(0 .. n)
  <2>1. SUFFICES ASSUME NEW x \in S PROVE Above(x) \in FiniteSubsetsOf(0 .. n)
    OBVIOUS
  <2>2. Above(x) \in SUBSET (0 .. n)
    OBVIOUS
  <2> QED
    BY <1>1, <2>2, FS_Subset DEF FiniteSubsetsOf
<1>3. T # {}
  OBVIOUS
<1>4. IsWellFoundedOn(StrictSubsetOrdering(0 .. n), FiniteSubsetsOf(0 .. n))
  BY FS_StrictSubsetOrderingWellFounded
<1> HIDE DEF T
<1>5. PICK m \in T : \A t \in T : ~ (<<t, m>> \in StrictSubsetOrdering(0 .. n))
  BY <1>2, <1>3, <1>4, WFMin
<1>6. PICK x \in S : m = Above(x)
  BY DEF T
<1>7. Above(x) = {}
  <2>1. SUFFICES ASSUME NEW y \in Above(x) PROVE FALSE
    OBVIOUS
  <2>2. Above(y) \subseteq Above(x) /\ Above(y) # Above(x)
    <3>1. x \in Nat /\ y \in Nat /\ y > x /\ S \subseteq Nat
      OBVIOUS
    <3>2. y \notin Above(y)
      BY <3>1
    <3>3. ASSUME NEW z \in Above(y) PROVE z \in Above(x)
      BY <3>1, <3>3
    <3> QED
      BY <3>2, <3>3
  <2>3. Above(y) \in SUBSET (0 .. n) /\ Above(x) \in SUBSET (0 .. n)
    OBVIOUS
  <2>4. Above(y) \in T
    BY DEF T
  <2> HIDE DEF Above
  <2>5. <<Above(y), Above(x)>> \in StrictSubsetOrdering(0 .. n)
    BY <2>2, <2>3 DEF StrictSubsetOrdering
  <2> QED
    BY <2>4, <2>5, <1>5, <1>6
<1>8. \A y \in S : x >= y
  <2>1. SUFFICES ASSUME NEW y \in S PROVE x >= y
    OBVIOUS
  <2>2. ~ (y > x)
    BY <1>7
  <2>3. x \in Int /\ y \in Int
    OBVIOUS
  <2> QED
    BY <2>2, <2>3
<1>9. Max(S) \in S /\ \A y \in S : Max(S) >= y
  BY <1>8 DEF Max
<1>10. S \subseteq Int
  OBVIOUS
<1>11. Max(S) \in Int
  BY <1>9, <1>10
<1> QED
  BY <1>9, <1>10, <1>11

LEMMA Bounds ==
    /\ MaxXid \in Nat /\ PageSize \in Nat /\ PageSize > 0
    /\ Xid \subseteq 0 .. MaxXid
    /\ \A b \in Bound : Limit[b] \in Nat
BY BoundsAssumption DEF Xid, Bound, Limit

\* The cursor after a page or a frame.
LEMMA TopIsGreatest ==
    ASSUME NEW S \in SUBSET Xid, NEW c \in 0 .. MaxXid
    PROVE  /\ Top(S, c) \in 0 .. MaxXid
           /\ Top(S, c) \in S \cup {c}
           /\ c <= Top(S, c) /\ \A x \in S : x <= Top(S, c)
<1>1. S \cup {c} \in SUBSET (0 .. MaxXid) /\ S \cup {c} # {} /\ MaxXid \in Nat
  BY Bounds
<1>2. Max(S \cup {c}) \in S \cup {c} /\ \A y \in S \cup {c} : y <= Max(S \cup {c})
  BY <1>1, MaxOfBounded
<1> QED
  BY <1>1, <1>2 DEF Top

\* A task joins the chain, or a row the wire.
LEMMA AppendIsLast ==
    ASSUME NEW S, NEW s \in Seq(S), NEW e \in S
    PROVE  /\ Append(s, e) \in Seq(S) /\ Append(s, e) # <<>>
           /\ Len(Append(s, e)) = Len(s) + 1
           /\ \A i \in 1 .. Len(s) : Append(s, e)[i] = s[i]
           /\ Append(s, e)[Len(s) + 1] = e
OBVIOUS

\* The head leaves it.
LEMMA TailIsRest ==
    ASSUME NEW S, NEW s \in Seq(S), s # <<>>
    PROVE  /\ Tail(s) \in Seq(S) /\ Len(Tail(s)) = Len(s) - 1
           /\ Len(s) \in Nat /\ 1 \in 1 .. Len(s)
           /\ Head(s) = s[1] /\ Head(s) \in S
           /\ \A i \in 1 .. Len(Tail(s)) : i + 1 \in 1 .. Len(s) /\ Tail(s)[i] = s[i + 1]
OBVIOUS

\* The head of the chain gets the cursor it will commit.
LEMMA HeadGetsCursor ==
    ASSUME NEW s \in Seq(Task), s # <<>>, NEW c \in 0 .. MaxXid,
           NEW t, t = [s EXCEPT ![1].to = c]
    PROVE  /\ t \in Seq(Task) /\ t # <<>> /\ Len(t) = Len(s)
           /\ \A i \in 1 .. Len(s) :
                 /\ t[i].kind = s[i].kind /\ t[i].rows = s[i].rows /\ t[i].by = s[i].by
                 /\ t[i].to = IF i = 1 THEN c ELSE s[i].to
<1>1. 1 \in 1 .. Len(s) /\ Len(s) \in Nat /\ DOMAIN s = 1 .. Len(s)
  OBVIOUS
<1>2. \A i \in 1 .. Len(s) : s[i] \in Task
  OBVIOUS
<1>3. DOMAIN t = 1 .. Len(s)
      /\ t[1] = [s[1] EXCEPT !.to = c]
      /\ \A i \in 1 .. Len(s) : i # 1 => t[i] = s[i]
  BY <1>1
<1>4. [s[1] EXCEPT !.to = c] \in Task
      /\ [s[1] EXCEPT !.to = c].kind = s[1].kind
      /\ [s[1] EXCEPT !.to = c].rows = s[1].rows
      /\ [s[1] EXCEPT !.to = c].by = s[1].by
      /\ [s[1] EXCEPT !.to = c].to = c
  BY <1>1, <1>2 DEF Task
<1>5. \A i \in 1 .. Len(s) : t[i] \in Task
  BY <1>2, <1>3, <1>4
<1>6. t \in [1 .. Len(s) -> Task]
  <2>1. t = [i \in 1 .. Len(s) |-> t[i]]
    BY <1>3
  <2> QED
    BY <1>5, <2>1
<1>7. t \in Seq(Task) /\ Len(t) = Len(s)
  BY <1>1, <1>6, SeqDef
<1>8. t # <<>>
  BY <1>1, <1>7
<1> QED
  BY <1>3, <1>4, <1>7, <1>8

\* A counted mishap.
LEMMA UseCounts ==
    ASSUME NEW b \in Bound, Use(b), used \in [Bound -> Nat], \A o \in Bound : used[o] <= Limit[o]
    PROVE  /\ used' \in [Bound -> Nat] /\ \A o \in Bound : used'[o] <= Limit[o]
           /\ used'[b] > 0 /\ \A o \in Bound : used'[o] >= used[o]
<1>1. used[b] < Limit[b] /\ used' = [used EXCEPT ![b] = @ + 1]
  BY DEF Use
<1> QED
  BY <1>1, Bounds

LEMMA CountCounts ==
    ASSUME NEW b \in Bound, NEW c, Count(b, c),
           used \in [Bound -> Nat], \A o \in Bound : used[o] <= Limit[o]
    PROVE  /\ used' \in [Bound -> Nat] /\ \A o \in Bound : used'[o] <= Limit[o]
           /\ \A o \in Bound : used'[o] >= used[o]
BY UseCounts DEF Count

\* What befalls rows.
LEMMA FateTypes ==
    ASSUME fate \in [Xid -> SUBSET Fate], NEW S, NEW f \in Fate
    PROVE  Befall(S, f) \in [Xid -> SUBSET Fate] /\ Saved(S) \in [Xid -> SUBSET Fate]
BY DEF Befall, Saved

-----------------------------------------------------------------------------
\* The ranges of the variables

\* What the shared parts of several handlers leave in range.
LEMMA CallDeltaTypes ==
    ASSUME Types, CallDelta
    PROVE  isDeltaSyncing' \in BOOLEAN /\ delta' \in [Delta -> DeltaState]
<1>1. CASE isDeltaSyncing
  <2>1. isDeltaSyncing' = isDeltaSyncing /\ delta' = delta
    BY <1>1 DEF CallDelta, deltaVars
  <2> QED
    BY <2>1 DEF Types
<1>2. CASE ~ isDeltaSyncing
  <2>1. PICK d \in Delta : isDeltaSyncing' = TRUE
                           /\ delta' = [delta EXCEPT ![d] = StartDelta(memCursor)]
    BY <1>2 DEF CallDelta
  <2>2. StartDelta(memCursor) \in DeltaState
    BY DEF Types, StartDelta, NoDelta, DeltaState
  <2>3. isDeltaSyncing' \in BOOLEAN
    BY <2>1, Zenon
  <2> QED
    BY <2>1, <2>2, <2>3 DEF Types
<1> QED
  BY <1>1, <1>2

LEMMA NoDeltaType == NoDelta \in DeltaState /\ NoBoot \in BootState
BY Bounds DEF NoDelta, DeltaState, NoBoot, BootState

LEMMA CallBootTypes ==
    ASSUME Types, CallBoot
    PROVE  boot' \in BootState /\ followUp' \in BOOLEAN
<1>1. [NoBoot EXCEPT !.pc = "request"] \in BootState
  BY Bounds DEF NoBoot, BootState
<1>2. boot' \in BootState
  BY <1>1 DEF CallBoot, Types
<1>3. followUp' \in BOOLEAN
  BY Zenon DEF CallBoot, Types
<1> QED
  BY <1>2, <1>3

LEMMA BootOverTypes ==
    ASSUME Types, BootOver
    PROVE  /\ boot' \in BootState /\ followUp' \in BOOLEAN
           /\ delta' \in [Delta -> DeltaState] /\ isDeltaSyncing' \in BOOLEAN
<1>1. isDeltaSyncing' \in BOOLEAN
  BY Zenon DEF BootOver
<1>2. boot' \in BootState /\ followUp' \in BOOLEAN
  <2>1. followUp' \in BOOLEAN
    BY Zenon DEF BootOver
  <2> QED
    BY <2>1, NoDeltaType DEF BootOver, Types
<1>3. delta' \in [Delta -> DeltaState]
  BY NoDeltaType DEF BootOver, Types
<1> QED
  BY <1>1, <1>2, <1>3

LEMMA FinishTypes ==
    ASSUME Types, NEW d \in Delta, NEW c \in 0 .. MaxXid, FinishDelta(d, c)
    PROVE  /\ isDeltaSyncing' = FALSE /\ delta' \in [Delta -> DeltaState]
           /\ memCursor' \in 0 .. MaxXid /\ memCursor' >= memCursor
BY NoDeltaType DEF FinishDelta, Types

LEMMA PageDoneTypes ==
    ASSUME Types, NEW d \in Delta, PageDone(d)
    PROVE  /\ isDeltaSyncing' \in BOOLEAN /\ delta' \in [Delta -> DeltaState]
           /\ memCursor' \in 0 .. MaxXid /\ memCursor' >= memCursor
<1>1. delta[d] \in DeltaState
  BY DEF Types
<1>2. CASE delta[d].more
  <2>1. /\ delta' = [delta EXCEPT ![d].pc = "request", ![d].rows = {}]
        /\ isDeltaSyncing' = isDeltaSyncing /\ memCursor' = memCursor
    BY <1>2 DEF PageDone
  <2>2. [delta[d] EXCEPT !.pc = "request", !.rows = {}] \in DeltaState
    BY <1>1 DEF DeltaState
  <2>3. delta' = [delta EXCEPT ![d] = [delta[d] EXCEPT !.pc = "request", !.rows = {}]]
    BY <2>1 DEF Types
  <2>4. delta' \in [Delta -> DeltaState]
    BY <2>2, <2>3 DEF Types
  <2> QED
    BY <2>1, <2>4 DEF Types
<1>3. CASE ~ delta[d].more
  <2>1. FinishDelta(d, delta[d].cursor)
    BY <1>3 DEF PageDone
  <2>2. delta[d].cursor \in 0 .. MaxXid
    BY <1>1 DEF DeltaState
  <2> QED
    BY <2>1, <2>2, FinishTypes
<1> QED
  BY <1>2, <1>3

LEMMA DeltaPageType ==
    ASSUME Types, NEW c
    PROVE  DeltaPage(c) \in SUBSET Xid /\ DeltaPage(c) \subseteq log
BY DEF DeltaPage, Types

\* The tasks the handlers queue.
LEMMA TaskTypes ==
    /\ \A x \in Xid : LiveTask(x) \in Task
    /\ \A d \in Delta, p \in SUBSET Xid : PageTask(d, p) \in Task
    /\ \A b \in BootState : BootTask(b) \in Task
BY Bounds DEF LiveTask, PageTask, BootTask, Task, BootState

LEMMA TypesInit == Init => Types
<1>1. SUFFICES ASSUME Init PROVE Types
  OBVIOUS
<1>2. /\ applied \in BOOLEAN /\ isDeltaSyncing \in BOOLEAN /\ stamped \in BOOLEAN
      /\ followUp \in BOOLEAN
  BY <1>1, Zenon DEF Init
<1>3. delta \in [Delta -> DeltaState] /\ boot \in BootState
  BY <1>1, NoDeltaType DEF Init
<1> QED
  BY <1>1, <1>2, <1>3, Bounds DEF Init, Types

LEMMA TypesServer == Types /\ Server => Types'
<1>1. SUFFICES ASSUME Types, Server PROVE Types'
  OBVIOUS
<1>2. CASE BeginWrite
  <2>1. nextXid \in Xid /\ nextXid + 1 \in 1 .. MaxXid + 1
    BY <1>1, <1>2, Bounds DEF BeginWrite, Types, Xid
  <2>2. used' \in [Bound -> Nat] /\ \A o \in Bound : used'[o] <= Limit[o]
    BY <1>1, <1>2, CountCounts DEF BeginWrite, Types, Bound
  <2> QED
    BY <1>1, <1>2, <2>1, <2>2 DEF BeginWrite, Types, linkVars, memVars, diskVars, chainVars, deltaVars
<1>3. ASSUME NEW x \in Xid, CommitWrite(x) PROVE Types'
  BY <1>1, <1>3 DEF CommitWrite, Types, linkVars, memVars, diskVars, chainVars, deltaVars
<1>4. ASSUME NEW x \in Xid, Publish(x) PROVE Types'
  <2>1. wire' \in Seq(Xid)
    BY <1>1, <1>4, AppendIsLast DEF Publish, Types
  <2>2. used' \in [Bound -> Nat] /\ \A o \in Bound : used'[o] <= Limit[o]
    BY <1>1, <1>4, CountCounts DEF Publish, Types, Bound
  <2> QED
    BY <1>1, <1>4, <2>1, <2>2 DEF Publish, Types, memVars, diskVars, chainVars, deltaVars
<1>5. ASSUME NEW x \in Xid, LosePublish(x) PROVE Types'
  <2>1. used' \in [Bound -> Nat] /\ \A o \in Bound : used'[o] <= Limit[o]
    BY <1>1, <1>5, UseCounts DEF LosePublish, Types, Bound
  <2> QED
    BY <1>1, <1>5, <2>1 DEF LosePublish, Types, linkVars, memVars, diskVars, chainVars, deltaVars
<1> QED
  BY <1>1, <1>2, <1>3, <1>4, <1>5 DEF Server

LEMMA TypesDelta ==
    ASSUME Types, NEW d \in Delta, DeltaStep(d) PROVE Types'
<1>1. delta[d] \in DeltaState
  BY DEF Types
<1>2. CASE ServeDelta(d)
  <2> DEFINE p == DeltaPage(delta[d].cursor)
             m == {x \in log : Settled(x) /\ x > delta[d].cursor} # p
  <2>1. p \in SUBSET Xid /\ m \in BOOLEAN
    BY DeltaPageType
  <2> HIDE DEF p, m
  <2>2. delta' = [delta EXCEPT ![d] = [delta[d] EXCEPT !.pc = "response", !.rows = p, !.more = m]]
    BY <1>2 DEF ServeDelta, Types, p, m
  <2>3. [delta[d] EXCEPT !.pc = "response", !.rows = p, !.more = m] \in DeltaState
    BY <1>1, <2>1 DEF DeltaState
  <2>4. delta' \in [Delta -> DeltaState]
    BY <2>2, <2>3 DEF Types
  <2> QED
    BY <1>2, <2>4 DEF ServeDelta, Types, serverVars, linkVars, memVars, diskVars, chainVars
<1>3. CASE ReceiveDelta(d)
  <2> DEFINE c == Top(delta[d].rows, delta[d].cursor)
  <2>1. c \in 0 .. MaxXid /\ delta[d].rows \in SUBSET Xid
    BY <1>1, TopIsGreatest DEF DeltaState
  <2> HIDE DEF c
  <2>2. CASE delta[d].rows = {}
    <3>1. FinishDelta(d, c) /\ UNCHANGED <<chain, mem>>
      BY <1>3, <2>2 DEF ReceiveDelta, c
    <3>2. /\ isDeltaSyncing' \in BOOLEAN /\ delta' \in [Delta -> DeltaState]
          /\ memCursor' \in 0 .. MaxXid
      BY <2>1, <3>1, FinishTypes
    <3> QED
      BY <1>3, <3>1, <3>2 DEF ReceiveDelta, Types, serverVars, linkVars, diskVars
  <2>3. CASE delta[d].rows # {}
    <3>1. /\ delta' = [delta EXCEPT ![d].pc = "applying", ![d].cursor = c]
          /\ chain' = Append(chain, PageTask(d, delta[d].rows))
          /\ UNCHANGED <<isDeltaSyncing, memVars>>
      BY <1>3, <2>3 DEF ReceiveDelta, c
    <3>2. delta' = [delta EXCEPT ![d] = [delta[d] EXCEPT !.pc = "applying", !.cursor = c]]
      BY <3>1 DEF Types
    <3>3. [delta[d] EXCEPT !.pc = "applying", !.cursor = c] \in DeltaState
      BY <1>1, <2>1 DEF DeltaState
    <3>4. delta' \in [Delta -> DeltaState]
      BY <3>2, <3>3 DEF Types
    <3>5. chain' \in Seq(Task)
      BY <2>1, <3>1, TaskTypes, AppendIsLast DEF Types
    <3> QED
      BY <1>3, <3>1, <3>4, <3>5 DEF ReceiveDelta, Types, serverVars, linkVars, diskVars, memVars
  <2> QED
    BY <2>2, <2>3
<1>4. CASE DeltaError(d)
  <2>1. used' \in [Bound -> Nat] /\ \A o \in Bound : used'[o] <= Limit[o]
    BY <1>4, UseCounts DEF DeltaError, Types, Bound
  <2>2. delta' \in [Delta -> DeltaState] /\ isDeltaSyncing' \in BOOLEAN
    BY <1>4, NoDeltaType DEF DeltaError, Types
  <2> QED
    BY <1>4, <2>1, <2>2 DEF DeltaError, Types, serverVars, linkVars, memVars, diskVars, chainVars
<1>5. CASE FallBack(d)
  <2>1. used' \in [Bound -> Nat] /\ \A o \in Bound : used'[o] <= Limit[o]
    BY <1>5, UseCounts DEF FallBack, Types, Bound
  <2>2. [NoDelta EXCEPT !.pc = "fallback"] \in DeltaState
    BY NoDeltaType DEF NoDelta, DeltaState
  <2>3. delta' \in [Delta -> DeltaState] /\ isDeltaSyncing' \in BOOLEAN
    BY <1>5, <2>2, NoDeltaType DEF FallBack, Types
  <2>4. boot' \in BootState /\ followUp' \in BOOLEAN
    BY <1>5, CallBootTypes DEF FallBack
  <2> QED
    BY <1>5, <2>1, <2>3, <2>4 DEF FallBack, Types, serverVars, linkVars, memVars, diskVars, chainVars
<1> QED
  BY <1>2, <1>3, <1>4, <1>5 DEF DeltaStep

\* The steps of a bootstrap and of the apply chain.
BootStep  == BootCursor \/ BootRead \/ BootReceive \/ BootFails \/ Reboot
ChainStep == ApplyHead \/ FlushHead \/ FlushFails \/ LoadBoot \/ LoadFails

LEMMA TypesBoot == Types /\ BootStep => Types'
<1>1. SUFFICES ASSUME Types, BootStep PROVE Types'
  OBVIOUS
<1>2. CASE BootCursor
  <2> DEFINE c == Top({x \in log : Settled(x)}, 0)
  <2>1. c \in 0 .. MaxXid
    BY <1>1, TopIsGreatest, Bounds DEF Types
  <2> HIDE DEF c
  <2>2. boot' = [boot EXCEPT !.pc = "reading", !.cursor = c]
    BY <1>2 DEF BootCursor, c
  <2>3. boot' \in BootState
    BY <1>1, <2>1, <2>2 DEF Types, BootState
  <2> QED
    BY <1>1, <1>2, <2>3
    DEF BootCursor, Types, serverVars, linkVars, memVars, diskVars, chainVars, deltaVars
<1>3. CASE BootRead
  <2>1. boot' \in BootState
    BY <1>1, <1>3 DEF BootRead, Types, BootState
  <2> QED
    BY <1>1, <1>3, <2>1
    DEF BootRead, Types, serverVars, linkVars, memVars, diskVars, chainVars, deltaVars
<1>4. CASE BootReceive
  <2>1. boot' \in BootState
    BY <1>1, <1>4 DEF BootReceive, Types, BootState
  <2>2. chain' \in Seq(Task)
    BY <1>1, <1>4, TaskTypes, AppendIsLast DEF BootReceive, Types
  <2> QED
    BY <1>1, <1>4, <2>1, <2>2
    DEF BootReceive, Types, serverVars, linkVars, memVars, diskVars, deltaVars
<1>5. CASE BootFails
  <2>1. used' \in [Bound -> Nat] /\ \A o \in Bound : used'[o] <= Limit[o]
    BY <1>1, <1>5, UseCounts DEF BootFails, Types, Bound
  <2>2. /\ boot' \in BootState /\ followUp' \in BOOLEAN
        /\ delta' \in [Delta -> DeltaState] /\ isDeltaSyncing' \in BOOLEAN
    BY <1>1, <1>5, BootOverTypes DEF BootFails
  <2> QED
    BY <1>1, <1>5, <2>1, <2>2
    DEF BootFails, Types, serverVars, linkVars, memVars, diskVars, chainVars
<1>6. CASE Reboot
  <2>1. used' \in [Bound -> Nat] /\ \A o \in Bound : used'[o] <= Limit[o]
    BY <1>1, <1>6, UseCounts DEF Reboot, Types, Bound
  <2>2. boot' \in BootState /\ followUp' \in BOOLEAN
    BY <1>1, <1>6, CallBootTypes DEF Reboot
  <2> QED
    BY <1>1, <1>6, <2>1, <2>2
    DEF Reboot, Types, serverVars, linkVars, memVars, diskVars, chainVars, deltaVars
<1> QED
  BY <1>1, <1>2, <1>3, <1>4, <1>5, <1>6 DEF BootStep

LEMMA TypesChain == Types /\ ChainStep => Types'
<1>1. SUFFICES ASSUME Types, ChainStep PROVE Types'
  OBVIOUS
<1>2. chain # <<>>
  BY <1>1 DEF ChainStep, ApplyHead, FlushHead, FlushFails, LoadBoot, LoadFails
<1>3. /\ Tail(chain) \in Seq(Task) /\ Head(chain) = chain[1]
      /\ Head(chain) \in Task
  BY <1>1, <1>2, TailIsRest DEF Types
<1>4. Head(chain).rows \in SUBSET Xid /\ Head(chain).to \in 0 .. MaxXid
  BY <1>3 DEF Task
<1>5. CASE ApplyHead
  <2> DEFINE c == Top(Head(chain).rows, memCursor)
  <2>1. c \in 0 .. MaxXid
    BY <1>1, <1>4, TopIsGreatest DEF Types
  <2> HIDE DEF c
  <2>2. chain' = [chain EXCEPT ![1].to = c] /\ memCursor' = c
        /\ mem' = mem \cup Head(chain).rows /\ applied' = TRUE
    BY <1>5 DEF ApplyHead, c
  <2>3. chain' \in Seq(Task)
    BY <1>1, <1>2, <2>1, <2>2, HeadGetsCursor DEF Types
  <2>4. fate' \in [Xid -> SUBSET Fate]
    BY <1>1, <1>5, FateTypes DEF ApplyHead, Types, Fate
  <2> QED
    BY <1>1, <1>4, <1>5, <2>1, <2>2, <2>3, <2>4
    DEF ApplyHead, Types, serverVars, linkVars, diskVars, deltaVars
<1>6. CASE FlushHead
  <2>1. /\ isDeltaSyncing' \in BOOLEAN /\ delta' \in [Delta -> DeltaState]
        /\ memCursor' \in 0 .. MaxXid
    <3>1. CASE Head(chain).kind = "page"
      <4>1. Head(chain).by \in Delta
        BY <1>3, <3>1 DEF Task
      <4>2. PageDone(Head(chain).by)
        BY <1>6, <3>1 DEF FlushHead
      <4> QED
        BY <1>1, <4>1, <4>2, PageDoneTypes
    <3>2. CASE Head(chain).kind # "page"
      BY <1>1, <1>6, <3>2 DEF FlushHead, deltaVars, Types
    <3> QED
      BY <3>1, <3>2
  <2>2. fate' \in [Xid -> SUBSET Fate]
    BY <1>1, <1>6, FateTypes DEF FlushHead, Types, Fate
  <2> QED
    BY <1>1, <1>3, <1>4, <1>6, <2>1, <2>2 DEF FlushHead, Types, serverVars, linkVars
<1>7. CASE FlushFails
  <2>1. used' \in [Bound -> Nat] /\ \A o \in Bound : used'[o] <= Limit[o]
    BY <1>1, <1>7, UseCounts DEF FlushFails, Types, Bound
  <2>2. isDeltaSyncing' \in BOOLEAN /\ delta' \in [Delta -> DeltaState]
    BY <1>1, <1>7, NoDeltaType DEF FlushFails, deltaVars, Types
  <2>3. fate' \in [Xid -> SUBSET Fate]
    BY <1>1, <1>7, FateTypes DEF FlushFails, Types, Fate
  <2> QED
    BY <1>1, <1>3, <1>7, <2>1, <2>2, <2>3 DEF FlushFails, Types, serverVars, linkVars, memVars, diskVars
<1>8. CASE LoadBoot
  <2>1. /\ boot' \in BootState /\ followUp' \in BOOLEAN
        /\ delta' \in [Delta -> DeltaState] /\ isDeltaSyncing' \in BOOLEAN
    BY <1>1, <1>8, BootOverTypes DEF LoadBoot
  <2>2. fate' \in [Xid -> SUBSET Fate]
    <3>1. Befall(mem, "erased") \in [Xid -> SUBSET Fate]
      BY <1>1, FateTypes DEF Types, Fate
    <3> QED
      BY <1>8, <3>1 DEF LoadBoot
  <2> QED
    BY <1>1, <1>3, <1>4, <1>8, <2>1, <2>2 DEF LoadBoot, Types, serverVars, linkVars
<1>9. CASE LoadFails
  <2>1. used' \in [Bound -> Nat] /\ \A o \in Bound : used'[o] <= Limit[o]
    BY <1>1, <1>9, UseCounts DEF LoadFails, Types, Bound
  <2>2. /\ boot' \in BootState /\ followUp' \in BOOLEAN
        /\ delta' \in [Delta -> DeltaState] /\ isDeltaSyncing' \in BOOLEAN
    BY <1>1, <1>9, BootOverTypes DEF LoadFails
  <2> QED
    BY <1>1, <1>3, <1>9, <2>1, <2>2
    DEF LoadFails, Types, serverVars, linkVars, memVars, diskVars
<1> QED
  BY <1>1, <1>5, <1>6, <1>7, <1>8, <1>9 DEF ChainStep

\* The steps of the tab and of its socket.
TabStep == \/ Start \/ EndStart \/ Reload
           \/ Connect \/ Register \/ Disconnect \/ Receive
           \/ FollowUp \/ Hint

LEMMA TypesTab == Types /\ TabStep => Types'
<1>1. SUFFICES ASSUME Types, TabStep PROVE Types'
  OBVIOUS
<1>2. CASE Start
  <2>1. /\ isDeltaSyncing' \in BOOLEAN /\ delta' \in [Delta -> DeltaState]
        /\ boot' \in BootState /\ followUp' \in BOOLEAN
        /\ mem' \in SUBSET Xid /\ memCursor' \in 0 .. MaxXid
    <3>1. CASE stamped
      <4>1. PICK d \in Delta : delta' = [delta EXCEPT ![d] = StartDelta(diskCursor)]
        BY <1>2, <3>1 DEF Start
      <4>2. StartDelta(diskCursor) \in DeltaState
        BY <1>1 DEF Types, StartDelta, NoDelta, DeltaState
      <4>3. delta' \in [Delta -> DeltaState]
        BY <1>1, <4>1, <4>2 DEF Types
      <4>4. isDeltaSyncing' = TRUE /\ boot' = boot /\ followUp' = followUp
            /\ mem' = disk /\ memCursor' = diskCursor
        BY <1>2, <3>1 DEF Start
      <4> QED
        BY <1>1, <4>3, <4>4 DEF Types
    <3>2. CASE ~ stamped
      BY <1>1, <1>2, <3>2, CallBootTypes DEF Start, memVars, deltaVars, Types
    <3> QED
      BY <3>1, <3>2
  <2> QED
    BY <1>1, <1>2, <2>1 DEF Start, Types, serverVars, linkVars, diskVars, chainVars
<1>3. CASE EndStart
  BY <1>1, <1>3 DEF EndStart, Types, serverVars, linkVars, memVars, diskVars, chainVars, deltaVars
<1>4. CASE Reload
  <2>1. used' \in [Bound -> Nat] /\ \A o \in Bound : used'[o] <= Limit[o]
    BY <1>1, <1>4, UseCounts DEF Reload, Types, Bound
  <2>2. applied' \in BOOLEAN /\ isDeltaSyncing' \in BOOLEAN /\ followUp' \in BOOLEAN
    BY <1>4, Zenon DEF Reload
  <2>3. delta' \in [Delta -> DeltaState] /\ boot' \in BootState
    BY <1>4, NoDeltaType DEF Reload
  <2> QED
    BY <1>1, <1>4, <2>1, <2>2, <2>3, Bounds DEF Reload, Types, serverVars, diskVars
<1>5. CASE Connect
  <2>1. isDeltaSyncing' \in BOOLEAN /\ delta' \in [Delta -> DeltaState]
    BY <1>1, <1>5, CallDeltaTypes DEF Connect
  <2>2. used' \in [Bound -> Nat] /\ \A o \in Bound : used'[o] <= Limit[o]
    BY <1>1, <1>5, CountCounts DEF Connect, Types, Bound
  <2>3. followUp' \in BOOLEAN
    BY <1>5, Zenon DEF Connect
  <2> QED
    BY <1>1, <1>5, <2>1, <2>2, <2>3
    DEF Connect, Types, serverVars, memVars, diskVars, chainVars
<1>6. CASE Register
  BY <1>1, <1>6 DEF Register, Types, serverVars, memVars, diskVars, chainVars, deltaVars
<1>7. CASE Disconnect
  <2>1. used' \in [Bound -> Nat] /\ \A o \in Bound : used'[o] <= Limit[o]
    BY <1>1, <1>7, UseCounts DEF Disconnect, Types, Bound
  <2> QED
    BY <1>1, <1>7, <2>1 DEF Disconnect, Types, serverVars, memVars, diskVars, chainVars, deltaVars
<1>8. CASE Receive
  <2>1. wire' \in Seq(Xid) /\ Head(wire) \in Xid
    BY <1>1, <1>8, TailIsRest DEF Receive, Types
  <2>2. chain' \in Seq(Task)
    BY <1>1, <1>8, <2>1, TaskTypes, AppendIsLast DEF Receive, Types
  <2> QED
    BY <1>1, <1>8, <2>1, <2>2 DEF Receive, Types, serverVars, memVars, diskVars, deltaVars
<1>9. CASE Hint
  <2>1. isDeltaSyncing' \in BOOLEAN /\ delta' \in [Delta -> DeltaState]
    BY <1>1, <1>9, CallDeltaTypes DEF Hint
  <2> QED
    BY <1>1, <1>9, <2>1 DEF Hint, Types, serverVars, linkVars, memVars, diskVars, chainVars
<1>10. CASE FollowUp
  <2>1. isDeltaSyncing' \in BOOLEAN /\ delta' \in [Delta -> DeltaState]
    BY <1>1, <1>10, CallDeltaTypes DEF FollowUp
  <2>2. used' \in [Bound -> Nat] /\ \A o \in Bound : used'[o] <= Limit[o]
    BY <1>1, <1>10, CountCounts DEF FollowUp, Types, Bound
  <2>3. followUp' \in BOOLEAN
    BY <1>10, Zenon DEF FollowUp
  <2> QED
    BY <1>1, <1>10, <2>1, <2>2, <2>3
    DEF FollowUp, Types, serverVars, linkVars, memVars, diskVars, chainVars
<1> QED
  BY <1>1, <1>2, <1>3, <1>4, <1>5, <1>6, <1>7, <1>8, <1>9, <1>10 DEF TabStep

LEMMA TypesStep == Types /\ [Next]_vars => Types'
<1>1. SUFFICES ASSUME Types, [Next]_vars PROVE Types'
  OBVIOUS
<1>2. CASE Next
  BY <1>1, <1>2, TypesServer, TypesDelta, TypesBoot, TypesChain, TypesTab
  DEF Next, BootStep, ChainStep, TabStep
<1>3. CASE UNCHANGED vars
  BY <1>1, <1>3
  DEF vars, Types, serverVars, linkVars, memVars, diskVars, chainVars, deltaVars
<1> QED
  BY <1>1, <1>2, <1>3

-----------------------------------------------------------------------------
\* What the shared parts of the handlers do to the running deltas

\* A delta that has asked for its first page after c.
Fresh(t, c) ==
    t.pc = "request" /\ t.from = c /\ t.cursor = c /\ t.rows = {} /\ t.more = FALSE

LEMMA StartDeltaFields == ASSUME NEW c PROVE Fresh(StartDelta(c), c)
BY DEF Fresh, StartDelta, NoDelta

LEMMA CallDeltaCases ==
    ASSUME Types, CallDelta
    PROVE  \/ isDeltaSyncing /\ isDeltaSyncing' = isDeltaSyncing /\ delta' = delta
           \/ /\ ~ isDeltaSyncing /\ isDeltaSyncing' = TRUE
              /\ \E d \in Delta :
                    /\ delta[d].pc = "idle"
                    /\ Fresh(delta'[d], memCursor)
                    /\ \A e \in Delta : e # d => delta'[e] = delta[e]
<1>1. CASE isDeltaSyncing
  BY <1>1 DEF CallDelta, deltaVars
<1>2. CASE ~ isDeltaSyncing
  <2>1. PICK d \in Delta : /\ delta[d].pc = "idle" /\ isDeltaSyncing' = TRUE
                           /\ delta' = [delta EXCEPT ![d] = StartDelta(memCursor)]
    BY <1>2 DEF CallDelta
  <2>2. Fresh(delta'[d], memCursor) /\ \A e \in Delta : e # d => delta'[e] = delta[e]
    BY <2>1, StartDeltaFields DEF Types
  <2> QED
    BY <1>2, <2>1, <2>2
<1> QED
  BY <1>1, <1>2

LEMMA NoDeltaFields ==
    /\ NoDelta.pc = "idle" /\ NoDelta.from = 0 /\ NoDelta.cursor = 0
    /\ NoDelta.rows = {} /\ NoDelta.more = FALSE
    /\ NoBoot.pc = "idle" /\ NoBoot.cursor = 0 /\ NoBoot.rows = {}
BY DEF NoDelta, NoBoot

LEMMA BootOverCases ==
    ASSUME Types, BootOver
    PROVE  /\ boot' = NoBoot
           /\ \A d \in Delta : delta'[d] = IF delta[d].pc = "fallback" THEN NoDelta ELSE delta[d]
           /\ (\A d \in Delta : delta[d].pc # "fallback") =>
                 delta' = delta /\ isDeltaSyncing' = isDeltaSyncing
<1>1. boot' = NoBoot
      /\ \A d \in Delta : delta'[d] = IF delta[d].pc = "fallback" THEN NoDelta ELSE delta[d]
  BY DEF BootOver, Types
<1>2. ASSUME \A d \in Delta : delta[d].pc # "fallback"
      PROVE  delta' = delta /\ isDeltaSyncing' = isDeltaSyncing
  <2>1. {d \in Delta : delta[d].pc = "fallback"} = {}
    BY <1>2
  <2>2. isDeltaSyncing' = isDeltaSyncing
    <3>1. isDeltaSyncing' = (isDeltaSyncing /\ {d \in Delta : delta[d].pc = "fallback"} = {})
      BY Zenon DEF BootOver
    <3>2. isDeltaSyncing = TRUE \/ isDeltaSyncing = FALSE
      BY Zenon DEF Types
    <3>3. CASE isDeltaSyncing = TRUE
      BY <2>1, <3>1, <3>3, Zenon
    <3>4. CASE isDeltaSyncing = FALSE
      BY <3>1, <3>4, Zenon
    <3> QED
      BY <3>2, <3>3, <3>4
  <2>3. delta' = [d \in Delta |-> delta[d]]
    BY <1>2 DEF BootOver
  <2> QED
    BY <2>2, <2>3 DEF Types
<1> QED
  BY <1>1, <1>2

LEMMA FinishCases ==
    ASSUME Types, NEW d \in Delta, NEW c \in 0 .. MaxXid, FinishDelta(d, c)
    PROVE  /\ delta'[d] = NoDelta /\ \A e \in Delta : e # d => delta'[e] = delta[e]
           /\ isDeltaSyncing' = FALSE
           /\ memCursor' = IF c > memCursor THEN c ELSE memCursor
BY DEF FinishDelta, Types

LEMMA PageDoneCases ==
    ASSUME Types, NEW d \in Delta, PageDone(d)
    PROVE  /\ \A e \in Delta : e # d => delta'[e] = delta[e]
           /\ \/ /\ delta[d].more /\ UNCHANGED <<isDeltaSyncing, memCursor>>
                 /\ delta'[d].pc = "request" /\ delta'[d].from = delta[d].from
                 /\ delta'[d].cursor = delta[d].cursor /\ delta'[d].rows = {}
                 /\ delta'[d].more = delta[d].more
              \/ /\ ~ delta[d].more
                 /\ delta'[d] = NoDelta /\ isDeltaSyncing' = FALSE
                 /\ memCursor' = IF delta[d].cursor > memCursor THEN delta[d].cursor ELSE memCursor
<1>1. delta[d] \in DeltaState
  BY DEF Types
<1>2. CASE delta[d].more
  <2>1. /\ delta' = [delta EXCEPT ![d].pc = "request", ![d].rows = {}]
        /\ UNCHANGED <<isDeltaSyncing, memCursor>>
    BY <1>2 DEF PageDone
  <2>2. delta'[d] = [delta[d] EXCEPT !.pc = "request", !.rows = {}]
        /\ \A e \in Delta : e # d => delta'[e] = delta[e]
    BY <2>1 DEF Types
  <2>3. /\ delta'[d].pc = "request" /\ delta'[d].from = delta[d].from
        /\ delta'[d].cursor = delta[d].cursor /\ delta'[d].rows = {}
        /\ delta'[d].more = delta[d].more
    BY <1>1, <2>2 DEF DeltaState
  <2> QED
    BY <1>2, <2>1, <2>2, <2>3
<1>3. CASE ~ delta[d].more
  <2>1. FinishDelta(d, delta[d].cursor)
    BY <1>3 DEF PageDone
  <2>2. delta[d].cursor \in 0 .. MaxXid
    BY <1>1 DEF DeltaState
  <2> QED
    BY <1>3, <2>1, <2>2, FinishCases
<1> QED
  BY <1>2, <1>3

\* The page a request brings back, and its way into the chain.
LEMMA ServeCases ==
    ASSUME Types, NEW d \in Delta, ServeDelta(d)
    PROVE  /\ \A e \in Delta : e # d => delta'[e] = delta[e]
           /\ delta[d].pc = "request" /\ delta'[d].pc = "response"
           /\ delta'[d].from = delta[d].from /\ delta'[d].cursor = delta[d].cursor
           /\ delta'[d].rows = DeltaPage(delta[d].cursor)
           /\ delta'[d].more =
                 ({x \in log : Settled(x) /\ x > delta[d].cursor} # DeltaPage(delta[d].cursor))
<1> DEFINE p == DeltaPage(delta[d].cursor)
           m == {x \in log : Settled(x) /\ x > delta[d].cursor} # p
<1>1. delta[d] \in DeltaState /\ delta[d].pc = "request"
  BY DEF Types, ServeDelta
<1>2. delta' = [delta EXCEPT ![d].pc = "response", ![d].rows = p, ![d].more = m]
  BY DEF ServeDelta
<1> HIDE DEF p, m
<1>3. delta'[d] = [delta[d] EXCEPT !.pc = "response", !.rows = p, !.more = m]
      /\ \A e \in Delta : e # d => delta'[e] = delta[e]
  BY <1>2 DEF Types
<1>4. /\ delta'[d].pc = "response" /\ delta'[d].from = delta[d].from
      /\ delta'[d].cursor = delta[d].cursor /\ delta'[d].rows = p /\ delta'[d].more = m
  BY <1>1, <1>3 DEF DeltaState
<1> QED
  BY <1>1, <1>3, <1>4 DEF p, m

LEMMA ReceiveCases ==
    ASSUME Types, NEW d \in Delta, ReceiveDelta(d)
    PROVE  /\ \A e \in Delta : e # d => delta'[e] = delta[e]
           /\ delta[d].pc = "response" /\ mem' = mem
           /\ \/ /\ delta[d].rows = {}
                 /\ delta'[d] = NoDelta /\ isDeltaSyncing' = FALSE /\ chain' = chain
                 /\ memCursor' = IF delta[d].cursor > memCursor THEN delta[d].cursor ELSE memCursor
              \/ /\ delta[d].rows # {} /\ UNCHANGED <<isDeltaSyncing, memCursor>>
                 /\ delta'[d].pc = "applying" /\ delta'[d].from = delta[d].from
                 /\ delta'[d].cursor = Top(delta[d].rows, delta[d].cursor)
                 /\ delta'[d].rows = delta[d].rows /\ delta'[d].more = delta[d].more
                 /\ chain' = Append(chain, PageTask(d, delta[d].rows))
<1> DEFINE c == Top(delta[d].rows, delta[d].cursor)
<1>1. delta[d] \in DeltaState /\ delta[d].pc = "response"
  BY DEF Types, ReceiveDelta
<1>2. delta[d].cursor \in 0 .. MaxXid /\ delta[d].rows \in SUBSET Xid
  BY <1>1 DEF DeltaState
<1>3. /\ c \in 0 .. MaxXid /\ c \in delta[d].rows \cup {delta[d].cursor}
  BY <1>2, TopIsGreatest
<1>4. CASE delta[d].rows = {}
  <2>1. FinishDelta(d, c) /\ UNCHANGED <<chain, mem>>
    BY <1>4 DEF ReceiveDelta
  <2>2. c = delta[d].cursor
    BY <1>3, <1>4
  <2> HIDE DEF c
  <2> QED
    BY <1>1, <1>3, <1>4, <2>1, <2>2, FinishCases
<1>5. CASE delta[d].rows # {}
  <2>1. /\ delta' = [delta EXCEPT ![d].pc = "applying", ![d].cursor = c]
        /\ chain' = Append(chain, PageTask(d, delta[d].rows))
        /\ UNCHANGED <<isDeltaSyncing, memVars>>
    BY <1>5 DEF ReceiveDelta
  <2> HIDE DEF c
  <2>2. delta'[d] = [delta[d] EXCEPT !.pc = "applying", !.cursor = c]
        /\ \A e \in Delta : e # d => delta'[e] = delta[e]
    BY <2>1 DEF Types
  <2>3. /\ delta'[d].pc = "applying" /\ delta'[d].from = delta[d].from
        /\ delta'[d].cursor = c /\ delta'[d].rows = delta[d].rows
        /\ delta'[d].more = delta[d].more
    BY <1>1, <2>2 DEF DeltaState
  <2> QED
    BY <1>1, <1>5, <2>1, <2>2, <2>3 DEF memVars, c
<1> QED
  BY <1>4, <1>5

LEMMA TaskFields ==
    /\ \A x : LiveTask(x).kind = "live" /\ LiveTask(x).rows = {x} /\ LiveTask(x).to = 0
    /\ \A d, p : /\ PageTask(d, p).kind = "page" /\ PageTask(d, p).rows = p
                 /\ PageTask(d, p).to = 0 /\ PageTask(d, p).by = d
    /\ \A b : /\ BootTask(b).kind = "boot" /\ BootTask(b).rows = b.rows
              /\ BootTask(b).to = b.cursor
BY DEF LiveTask, PageTask, BootTask

\* What happens to the head of the chain.
LEMMA ApplyCases ==
    ASSUME Types, ApplyHead
    PROVE  LET c == Top(chain[1].rows, memCursor) IN
           /\ chain # <<>> /\ ~ applied /\ chain[1].kind # "boot"
           /\ mem' = mem \cup chain[1].rows /\ memCursor' = c /\ applied' = TRUE
           /\ chain' # <<>> /\ Len(chain') = Len(chain)
           /\ \A i \in 1 .. Len(chain) :
                 /\ chain'[i].kind = chain[i].kind /\ chain'[i].rows = chain[i].rows
                 /\ chain'[i].by = chain[i].by
                 /\ chain'[i].to = IF i = 1 THEN c ELSE chain[i].to
<1> DEFINE c == Top(chain[1].rows, memCursor)
<1>1. chain # <<>> /\ ~ applied /\ Head(chain) = chain[1] /\ chain[1] \in Task
  BY TailIsRest DEF ApplyHead, Types
<1>2. c \in 0 .. MaxXid
  <2>1. chain[1].rows \in SUBSET Xid
    BY <1>1 DEF Task
  <2> QED
    BY <2>1, TopIsGreatest DEF Types
<1>3. chain' = [chain EXCEPT ![1].to = c] /\ chain[1].kind # "boot"
      /\ mem' = mem \cup chain[1].rows /\ memCursor' = c /\ applied' = TRUE
  BY <1>1 DEF ApplyHead
<1> HIDE DEF c
<1>4. /\ chain' # <<>> /\ Len(chain') = Len(chain)
      /\ \A i \in 1 .. Len(chain) :
            /\ chain'[i].kind = chain[i].kind /\ chain'[i].rows = chain[i].rows
            /\ chain'[i].by = chain[i].by
            /\ chain'[i].to = IF i = 1 THEN c ELSE chain[i].to
  BY <1>1, <1>2, <1>3, HeadGetsCursor DEF Types
<1> QED
  BY <1>1, <1>3, <1>4 DEF c

\* The chain after its head has left.
Shifted ==
    /\ chain # <<>> /\ Len(chain') = Len(chain) - 1
    /\ Len(chain) \in Nat /\ 1 \in 1 .. Len(chain)
    /\ \A i \in 1 .. Len(chain') : i + 1 \in 1 .. Len(chain) /\ chain'[i] = chain[i + 1]

LEMMA ShiftCases ==
    ASSUME Types, FlushHead \/ FlushFails \/ LoadBoot \/ LoadFails
    PROVE  Shifted /\ Head(chain) = chain[1] /\ chain[1] \in Task /\ chain' = Tail(chain)
<1>1. chain # <<>> /\ chain' = Tail(chain)
  BY DEF FlushHead, FlushFails, LoadBoot, LoadFails
<1> QED
  BY <1>1, TailIsRest DEF Types, Shifted

\* The chain after a task has joined it.
Appended(t) ==
    /\ Len(chain) \in Nat /\ Len(chain') = Len(chain) + 1
    /\ chain' # <<>>
    /\ \A i \in 1 .. Len(chain) : chain'[i] = chain[i]
    /\ chain'[Len(chain) + 1] = t

LEMMA AppendCases ==
    ASSUME Types
    PROVE  /\ \A d \in Delta : ReceiveDelta(d) /\ delta[d].rows # {} =>
                 Appended(PageTask(d, delta[d].rows))
           /\ BootReceive => Appended(BootTask(boot))
           /\ Receive => /\ wire # <<>> /\ Len(wire) \in Nat /\ 1 \in 1 .. Len(wire)
                         /\ Len(wire') = Len(wire) - 1
                         /\ \A i \in 1 .. Len(wire') : i + 1 \in 1 .. Len(wire) /\ wire'[i] = wire[i + 1]
                         /\ Appended(LiveTask(wire[1]))
<1>1. chain \in Seq(Task) /\ wire \in Seq(Xid)
  BY DEF Types
<1>2. ASSUME NEW d \in Delta, ReceiveDelta(d), delta[d].rows # {}
      PROVE  Appended(PageTask(d, delta[d].rows))
  <2>1. PageTask(d, delta[d].rows) \in Task
    BY TaskTypes DEF Types, DeltaState
  <2>2. chain' = Append(chain, PageTask(d, delta[d].rows))
    BY <1>2, ReceiveCases
  <2> QED
    BY <1>1, <2>1, <2>2, AppendIsLast DEF Appended
<1>3. ASSUME BootReceive PROVE Appended(BootTask(boot))
  <2>1. chain' = Append(chain, BootTask(boot)) /\ BootTask(boot) \in Task
    BY <1>3, TaskTypes DEF BootReceive, Types
  <2> QED
    BY <1>1, <2>1, AppendIsLast DEF Appended
<1>4. ASSUME Receive
      PROVE  /\ wire # <<>> /\ Len(wire) \in Nat /\ 1 \in 1 .. Len(wire)
             /\ Len(wire') = Len(wire) - 1
             /\ \A i \in 1 .. Len(wire') : i + 1 \in 1 .. Len(wire) /\ wire'[i] = wire[i + 1]
             /\ Appended(LiveTask(wire[1]))
  <2>1. wire # <<>> /\ wire' = Tail(wire) /\ chain' = Append(chain, LiveTask(Head(wire)))
    BY <1>4 DEF Receive
  <2>2. /\ Len(wire) \in Nat /\ 1 \in 1 .. Len(wire) /\ Len(wire') = Len(wire) - 1
        /\ \A i \in 1 .. Len(wire') : i + 1 \in 1 .. Len(wire) /\ wire'[i] = wire[i + 1]
        /\ Head(wire) = wire[1] /\ wire[1] \in Xid
    BY <1>1, <2>1, TailIsRest
  <2>3. LiveTask(wire[1]) \in Task
    BY <2>2, TaskTypes
  <2>4. Appended(LiveTask(wire[1]))
    BY <1>1, <2>1, <2>2, <2>3, AppendIsLast DEF Appended
  <2> QED
    BY <2>1, <2>2, <2>4
<1> QED
  BY <1>2, <1>3, <1>4

\* The two ways a tab starts.
LEMMA StartCases ==
    ASSUME Types, Start
    PROVE  /\ phase = "closed" /\ phase' = "starting"
           /\ \/ /\ stamped /\ mem' = disk /\ memCursor' = diskCursor /\ boot' = boot
                 /\ isDeltaSyncing' = TRUE
                 /\ \E d \in Delta :
                       /\ Fresh(delta'[d], diskCursor)
                       /\ \A e \in Delta : e # d => delta'[e] = delta[e]
              \/ /\ ~ stamped /\ mem' = mem /\ memCursor' = memCursor
                 /\ isDeltaSyncing' = isDeltaSyncing /\ delta' = delta
                 /\ CallBoot
<1>1. phase = "closed" /\ phase' = "starting"
  BY DEF Start
<1>2. CASE stamped
  <2>1. PICK d \in Delta : delta' = [delta EXCEPT ![d] = StartDelta(diskCursor)]
    BY <1>2 DEF Start
  <2>2. Fresh(delta'[d], diskCursor) /\ \A e \in Delta : e # d => delta'[e] = delta[e]
    BY <2>1, StartDeltaFields DEF Types
  <2>3. mem' = disk /\ memCursor' = diskCursor /\ boot' = boot /\ isDeltaSyncing' = TRUE
    BY <1>2 DEF Start
  <2> QED
    BY <1>1, <1>2, <2>2, <2>3
<1>3. CASE ~ stamped
  BY <1>1, <1>3 DEF Start, memVars, deltaVars
<1> QED
  BY <1>2, <1>3

-----------------------------------------------------------------------------
\* The rows in use

LEMMA LoggedStep == Types /\ Types' /\ Logged /\ [Next]_vars => Logged'
<1> SUFFICES ASSUME Types, Types', Logged, [Next]_vars PROVE Logged'
  OBVIOUS
<1>0. chain \in Seq(Task) /\ wire \in Seq(Xid) /\ Len(chain) \in Nat /\ Len(wire) \in Nat
  BY DEF Types
<1>1. CASE BeginWrite
  BY <1>1, Bounds DEF BeginWrite, Types, Logged, Xid, linkVars, memVars, diskVars, chainVars, deltaVars
<1>2. ASSUME NEW x \in Xid, CommitWrite(x) PROVE Logged'
  BY <1>2 DEF CommitWrite, Types, Logged, linkVars, memVars, diskVars, chainVars, deltaVars
<1>3. ASSUME NEW x \in Xid, Publish(x) PROVE Logged'
  <2>1. \A i \in 1 .. Len(wire') : wire'[i] \in log
    <3>1. CASE link = "live"
      <4>1. wire' = Append(wire, x) /\ x \in log
        BY <1>3, <3>1 DEF Publish, Logged
      <4>2. /\ Len(wire') = Len(wire) + 1 /\ wire'[Len(wire) + 1] = x
            /\ \A i \in 1 .. Len(wire) : wire'[i] = wire[i]
        BY <1>0, <4>1, AppendIsLast
      <4> QED
        BY <1>0, <4>1, <4>2 DEF Logged
    <3>2. CASE link # "live"
      BY <1>3, <3>2 DEF Publish, Logged
    <3> QED
      BY <3>1, <3>2
  <2> QED
    BY <1>3, <2>1 DEF Publish, Logged, memVars, diskVars, chainVars, deltaVars
<1>4. ASSUME NEW x \in Xid, LosePublish(x) PROVE Logged'
  BY <1>4 DEF LosePublish, Logged, linkVars, memVars, diskVars, chainVars, deltaVars
<1>5. ASSUME NEW d \in Delta, ServeDelta(d) PROVE Logged'
  <2>1. \A e \in Delta : delta'[e].rows \subseteq log
    BY <1>5, ServeCases, DeltaPageType DEF Logged
  <2> QED
    BY <1>5, <2>1 DEF ServeDelta, Logged, serverVars, linkVars, memVars, diskVars, chainVars
<1>6. ASSUME NEW d \in Delta, ReceiveDelta(d) PROVE Logged'
  <2>1. \A e \in Delta : delta'[e].rows \subseteq log
    BY <1>6, ReceiveCases, NoDeltaFields DEF Logged
  <2>2. \A i \in 1 .. Len(chain') : chain'[i].rows \subseteq log
    <3>1. CASE chain' = chain
      BY <3>1 DEF Logged
    <3>2. CASE chain' # chain
      <4>1. Appended(PageTask(d, delta[d].rows)) /\ delta[d].rows \subseteq log
        BY <1>6, <3>2, ReceiveCases, AppendCases DEF Logged
      <4>2. /\ \A i \in 1 .. Len(chain) : chain'[i].rows \subseteq log
            /\ chain'[Len(chain) + 1].rows \subseteq log
        BY <4>1, TaskFields DEF Appended, Logged
      <4>3. \A i \in 1 .. Len(chain') : i \in 1 .. Len(chain) \/ i = Len(chain) + 1
        BY <1>0, <4>1 DEF Appended
      <4> QED
        BY <4>2, <4>3
    <3> QED
      BY <3>1, <3>2
  <2> QED
    BY <1>6, <2>1, <2>2, ReceiveCases DEF ReceiveDelta, Logged, serverVars, linkVars, diskVars
<1>7. ASSUME NEW d \in Delta, DeltaError(d) PROVE Logged'
  <2>1. \A e \in Delta : delta'[e].rows \subseteq log
    BY <1>7, NoDeltaFields DEF DeltaError, Types, Logged
  <2> QED
    BY <1>7, <2>1 DEF DeltaError, Logged, serverVars, linkVars, memVars, diskVars, chainVars
<1>8. ASSUME CallBoot PROVE boot'.rows \subseteq log
  BY <1>8 DEF CallBoot, NoBoot, Logged
<1>9. ASSUME NEW d \in Delta, FallBack(d) PROVE Logged'
  <2>1. [NoDelta EXCEPT !.pc = "fallback"].rows = {}
    BY DEF NoDelta
  <2>2. \A e \in Delta : delta'[e].rows \subseteq log
    BY <1>9, <2>1, NoDeltaFields DEF FallBack, Types, Logged
  <2> QED
    BY <1>8, <1>9, <2>2 DEF FallBack, Logged, serverVars, linkVars, memVars, diskVars, chainVars
<1>10. CASE BootCursor
  <2>1. boot'.rows = boot.rows
    BY <1>10 DEF BootCursor, Types, BootState
  <2> QED
    BY <1>10, <2>1 DEF BootCursor, Logged, serverVars, linkVars, memVars, diskVars, chainVars, deltaVars
<1>11. CASE BootRead
  <2>1. boot'.rows = log
    BY <1>11 DEF BootRead, Types, BootState
  <2> QED
    BY <1>11, <2>1 DEF BootRead, Logged, serverVars, linkVars, memVars, diskVars, chainVars, deltaVars
<1>12. CASE BootReceive
  <2>1. boot'.rows = boot.rows
    BY <1>12 DEF BootReceive, Types, BootState
  <2>2. Appended(BootTask(boot))
    BY <1>12, AppendCases
  <2>3. \A i \in 1 .. Len(chain') : chain'[i].rows \subseteq log
    BY <2>2, TaskFields DEF Appended, Logged
  <2> QED
    BY <1>12, <2>1, <2>3 DEF BootReceive, Logged, serverVars, linkVars, memVars, diskVars, deltaVars
<1>13. ASSUME BootOver PROVE /\ boot'.rows \subseteq log
                             /\ \A d \in Delta : delta'[d].rows \subseteq log
  BY <1>13, BootOverCases, NoDeltaFields DEF Logged
<1>14. CASE BootFails
  BY <1>13, <1>14 DEF BootFails, Logged, serverVars, linkVars, memVars, diskVars, chainVars
<1>15. CASE Reboot
  BY <1>8, <1>15 DEF Reboot, Logged, serverVars, linkVars, memVars, diskVars, chainVars, deltaVars
<1>16. CASE ApplyHead
  <2>1. /\ \A i \in 1 .. Len(chain') : chain'[i].rows \subseteq log
        /\ mem' \subseteq log
    BY <1>0, <1>16, ApplyCases DEF Logged
  <2> QED
    BY <1>16, <2>1 DEF ApplyHead, Logged, serverVars, linkVars, diskVars, deltaVars
<1>17. ASSUME Shifted PROVE /\ \A i \in 1 .. Len(chain') : chain'[i].rows \subseteq log
                            /\ chain[1].rows \subseteq log
  BY <1>17 DEF Shifted, Logged
<1>18. CASE FlushHead
  <2>1. Shifted /\ Head(chain) = chain[1] /\ chain[1] \in Task
    BY <1>18, ShiftCases
  <2>2. \A d \in Delta : delta'[d].rows \subseteq log
    <3>1. CASE chain[1].kind = "page"
      <4>1. PageDone(chain[1].by) /\ chain[1].by \in Delta
        BY <1>18, <2>1, <3>1 DEF FlushHead, Task
      <4> QED
        BY <4>1, PageDoneCases, NoDeltaFields DEF Logged
    <3>2. CASE chain[1].kind # "page"
      BY <1>18, <2>1, <3>2 DEF FlushHead, deltaVars, Logged
    <3> QED
      BY <3>1, <3>2
  <2> QED
    BY <1>17, <1>18, <2>1, <2>2 DEF FlushHead, Logged, serverVars, linkVars
<1>19. CASE FlushFails
  <2>1. Shifted
    BY <1>19, ShiftCases
  <2>2. \A d \in Delta : delta'[d].rows \subseteq log
    BY <1>19, NoDeltaFields DEF FlushFails, deltaVars, Types, Logged
  <2> QED
    BY <1>17, <1>19, <2>1, <2>2 DEF FlushFails, Logged, serverVars, linkVars, memVars, diskVars
<1>20. CASE LoadBoot
  <2>1. Shifted /\ Head(chain) = chain[1]
    BY <1>20, ShiftCases
  <2> QED
    BY <1>13, <1>17, <1>20, <2>1 DEF LoadBoot, Logged, serverVars, linkVars
<1>21. CASE LoadFails
  <2>1. Shifted
    BY <1>21, ShiftCases
  <2> QED
    BY <1>13, <1>17, <1>21, <2>1 DEF LoadFails, Logged, serverVars, linkVars, memVars, diskVars
<1>22. CASE Start
  <2>1. /\ mem' \subseteq log /\ boot'.rows \subseteq log
        /\ \A d \in Delta : delta'[d].rows \subseteq log
    <3>1. CASE stamped
      BY <1>22, <3>1, StartCases DEF Fresh, Logged
    <3>2. CASE ~ stamped
      BY <1>8, <1>22, <3>2 DEF Start, memVars, deltaVars, Logged
    <3> QED
      BY <3>1, <3>2
  <2> QED
    BY <1>22, <2>1 DEF Start, Logged, serverVars, linkVars, diskVars, chainVars
<1>23. CASE EndStart
  BY <1>23 DEF EndStart, Logged, serverVars, linkVars, memVars, diskVars, chainVars, deltaVars
<1>24. CASE Reload
  BY <1>24, NoDeltaFields DEF Reload, Logged, serverVars, diskVars
<1>25. ASSUME CallDelta PROVE \A d \in Delta : delta'[d].rows \subseteq log
  BY <1>25, CallDeltaCases DEF Fresh, Logged
<1>26. CASE Connect
  BY <1>25, <1>26 DEF Connect, Logged, serverVars, memVars, diskVars, chainVars
<1>27. CASE Register
  BY <1>27 DEF Register, Logged, serverVars, memVars, diskVars, chainVars, deltaVars
<1>28. CASE Disconnect
  BY <1>28 DEF Disconnect, Logged, serverVars, memVars, diskVars, chainVars, deltaVars
<1>29. CASE Receive
  <2>1. (\A i \in 1 .. Len(wire') : wire'[i] \in log) /\ wire[1] \in log
    BY <1>29, AppendCases DEF Logged
  <2>2. \A i \in 1 .. Len(chain') : chain'[i].rows \subseteq log
    BY <1>29, <2>1, AppendCases, TaskFields DEF Appended, Logged
  <2> QED
    BY <1>29, <2>1, <2>2 DEF Receive, Logged, serverVars, memVars, diskVars, deltaVars
<1>30. CASE Hint
  BY <1>25, <1>30 DEF Hint, Logged, serverVars, linkVars, memVars, diskVars, chainVars
<1>31. CASE FollowUp
  BY <1>25, <1>31 DEF FollowUp, Logged, serverVars, linkVars, memVars, diskVars, chainVars
<1>32. CASE UNCHANGED vars
  BY <1>32 DEF vars, Logged, serverVars, linkVars, memVars, diskVars, chainVars, deltaVars
<1> QED
  BY <1>1, <1>2, <1>3, <1>4, <1>5, <1>6, <1>7, <1>9, <1>10, <1>11, <1>12, <1>14, <1>15, <1>16,
     <1>18, <1>19, <1>20, <1>21, <1>22, <1>23, <1>24, <1>26, <1>27, <1>28, <1>29, <1>30, <1>31, <1>32
  DEF Next, Server, DeltaStep

-----------------------------------------------------------------------------
\* What is idle

LEMMA IdleStep == Types /\ Idle /\ [Next]_vars => Idle'
<1> SUFFICES ASSUME Types, Idle, [Next]_vars PROVE Idle'
  OBVIOUS
<1>0. chain \in Seq(Task) /\ wire \in Seq(Xid) /\ phase \in {"closed", "starting", "running"}
  BY DEF Types
<1>1. CASE BeginWrite
  BY <1>1 DEF BeginWrite, Idle, linkVars, memVars, diskVars, chainVars, deltaVars
<1>2. ASSUME NEW x \in Xid, CommitWrite(x) PROVE Idle'
  BY <1>2 DEF CommitWrite, Idle, linkVars, memVars, diskVars, chainVars, deltaVars
<1>3. ASSUME NEW x \in Xid, Publish(x) PROVE Idle'
  BY <1>3 DEF Publish, Idle, memVars, diskVars, chainVars, deltaVars
<1>4. ASSUME NEW x \in Xid, LosePublish(x) PROVE Idle'
  BY <1>4 DEF LosePublish, Idle, linkVars, memVars, diskVars, chainVars, deltaVars
<1>5. ASSUME NEW d \in Delta, ServeDelta(d) PROVE Idle'
  <2>1. phase # "closed"
    BY <1>5 DEF ServeDelta, Idle
  <2>2. \A e \in Delta : delta'[e].pc = "idle" => delta'[e] = NoDelta
    BY <1>5, ServeCases DEF Idle
  <2> QED
    BY <1>5, <2>1, <2>2 DEF ServeDelta, Idle, linkVars
<1>6. ASSUME NEW d \in Delta, ReceiveDelta(d) PROVE Idle'
  <2>1. phase # "closed"
    BY <1>6 DEF ReceiveDelta, Idle
  <2>2. \A e \in Delta : delta'[e].pc = "idle" => delta'[e] = NoDelta
    BY <1>6, ReceiveCases DEF Idle
  <2> QED
    BY <1>6, <2>1, <2>2 DEF ReceiveDelta, Idle, linkVars
<1>7. ASSUME NEW d \in Delta, DeltaError(d) PROVE Idle'
  <2>1. phase # "closed"
    BY <1>7 DEF DeltaError, Idle
  <2>2. \A e \in Delta : delta'[e].pc = "idle" => delta'[e] = NoDelta
    BY <1>7 DEF DeltaError, Types, Idle
  <2> QED
    BY <1>7, <2>1, <2>2 DEF DeltaError, Idle, linkVars
<1>8. ASSUME NEW d \in Delta, FallBack(d) PROVE Idle'
  <2>1. phase # "closed"
    BY <1>8 DEF FallBack, Idle
  <2>2. [NoDelta EXCEPT !.pc = "fallback"].pc = "fallback"
    BY DEF NoDelta
  <2>3. \A e \in Delta : delta'[e].pc = "idle" => delta'[e] = NoDelta
    BY <1>8, <2>2 DEF FallBack, Types, Idle
  <2> QED
    BY <1>8, <2>1, <2>3 DEF FallBack, Idle, linkVars
<1>9. CASE BootStep
  <2>1. phase # "closed"
    BY <1>9 DEF BootStep, BootCursor, BootRead, BootReceive, BootFails, Reboot, Idle
  <2>2. \A e \in Delta : delta'[e].pc = "idle" => delta'[e] = NoDelta
    <3>1. CASE BootFails
      BY <3>1, BootOverCases DEF BootFails, Idle
    <3>2. CASE ~ BootFails
      BY <1>9, <3>2 DEF BootStep, BootCursor, BootRead, BootReceive, Reboot, Idle, deltaVars
    <3> QED
      BY <3>1, <3>2
  <2>3. UNCHANGED <<link, wire, phase>>
    BY <1>9 DEF BootStep, BootCursor, BootRead, BootReceive, BootFails, Reboot, linkVars
  <2> QED
    BY <2>1, <2>2, <2>3 DEF Idle
<1>10. CASE ChainStep
  <2>1. phase # "closed" /\ UNCHANGED <<link, wire, phase>>
    BY <1>10 DEF ChainStep, ApplyHead, FlushHead, FlushFails, LoadBoot, LoadFails, Idle, linkVars
  <2>2. \A e \in Delta : delta'[e].pc = "idle" => delta'[e] = NoDelta
    <3>1. CASE ApplyHead
      BY <3>1 DEF ApplyHead, Idle, deltaVars
    <3>2. CASE FlushHead
      <4>1. Head(chain) \in Task
        BY <3>2, ShiftCases
      <4>2. CASE Head(chain).kind = "page"
        <5>1. PageDone(Head(chain).by) /\ Head(chain).by \in Delta
          BY <3>2, <4>1, <4>2 DEF FlushHead, Task
        <5> QED
          BY <5>1, PageDoneCases DEF Idle
      <4>3. CASE Head(chain).kind # "page"
        BY <3>2, <4>3 DEF FlushHead, deltaVars, Idle
      <4> QED
        BY <4>2, <4>3
    <3>3. CASE FlushFails
      BY <3>3 DEF FlushFails, deltaVars, Types, Idle
    <3>4. CASE LoadBoot \/ LoadFails
      BY <3>4, BootOverCases DEF LoadBoot, LoadFails, Idle
    <3> QED
      BY <1>10, <3>1, <3>2, <3>3, <3>4 DEF ChainStep
  <2> QED
    BY <2>1, <2>2 DEF Idle
<1>11. CASE Start
  <2>1. \A e \in Delta : delta'[e].pc = "idle" => delta'[e] = NoDelta
    BY <1>11, StartCases DEF Fresh, Idle
  <2> QED
    BY <1>11, <2>1, StartCases DEF Start, Idle, linkVars
<1>12. CASE EndStart
  BY <1>12 DEF EndStart, Idle, linkVars, memVars, diskVars, chainVars, deltaVars
<1>13. CASE Reload
  <2>1. ~ applied'
    BY <1>13, Zenon DEF Reload
  <2> QED
    BY <1>13, <2>1, NoDeltaFields DEF Reload, Idle
<1>14. ASSUME CallDelta PROVE \A e \in Delta : delta'[e].pc = "idle" => delta'[e] = NoDelta
  BY <1>14, CallDeltaCases DEF Fresh, Idle
<1>15. CASE Connect
  BY <1>14, <1>15 DEF Connect, Idle
<1>16. CASE Register
  BY <1>16 DEF Register, Idle, memVars, diskVars, chainVars, deltaVars
<1>17. CASE Disconnect
  BY <1>17 DEF Disconnect, Idle, memVars, diskVars, chainVars, deltaVars
<1>18. CASE Receive
  BY <1>18 DEF Receive, Idle, memVars, diskVars, deltaVars
<1>19. CASE Hint
  BY <1>14, <1>19 DEF Hint, Idle, linkVars
<1>20. CASE FollowUp
  BY <1>14, <1>20 DEF FollowUp, Idle, linkVars
<1>21. CASE UNCHANGED vars
  BY <1>21 DEF vars, Idle, linkVars, memVars, diskVars, chainVars, deltaVars
<1> QED
  BY <1>1, <1>2, <1>3, <1>4, <1>5, <1>6, <1>7, <1>8, <1>9, <1>10, <1>11, <1>12, <1>13,
     <1>15, <1>16, <1>17, <1>18, <1>19, <1>20, <1>21
  DEF Next, Server, DeltaStep, BootStep, ChainStep

-----------------------------------------------------------------------------
\* The apply chain

\* A handler that leaves the chain, its head and the rows in memory alone, and
\* takes no waiting delta or bootstrap away from its task.
LEMMA ChainedFrame ==
    ASSUME Chained, chain' = chain, applied' = applied, mem \subseteq mem',
           boot.pc = "loading" => boot'.pc = "loading",
           \A d \in Delta : delta[d].pc = "applying" => delta'[d].pc = "applying"
    PROVE  Chained'
BY DEF Chained

LEMMA ChainedStep == Types /\ Types' /\ Idle /\ Chained /\ [Next]_vars => Chained'
<1> SUFFICES ASSUME Types, Types', Idle, Chained, [Next]_vars PROVE Chained'
  OBVIOUS
<1>0. chain \in Seq(Task) /\ Len(chain) \in Nat
  BY DEF Types
<1>1. CASE Server
  BY <1>1, ChainedFrame
  DEF Server, BeginWrite, CommitWrite, Publish, LosePublish, memVars, chainVars, deltaVars
<1>2. ASSUME NEW d \in Delta, ServeDelta(d) PROVE Chained'
  BY <1>2, ServeCases, ChainedFrame DEF ServeDelta, memVars, chainVars
<1>3. ASSUME NEW d \in Delta, ReceiveDelta(d) PROVE Chained'
  <2>1. boot' = boot /\ applied' = applied /\ mem' = mem
        /\ \A e \in Delta : delta[e].pc = "applying" => delta'[e].pc = "applying"
    BY <1>3, ReceiveCases DEF ReceiveDelta
  <2>2. CASE delta[d].rows = {}
    BY <1>3, <2>1, <2>2, ReceiveCases, ChainedFrame
  <2>3. CASE delta[d].rows # {}
    <3>1. Appended(PageTask(d, delta[d].rows)) /\ delta[d].pc = "response"
          /\ delta'[d].pc = "applying"
      BY <1>3, <2>3, AppendCases, ReceiveCases
    <3>2. applied' => chain' # <<>> /\ chain'[1].kind # "boot" /\ chain'[1].rows \subseteq mem'
      BY <1>0, <2>1, <3>1 DEF Chained, Appended
    <3>3. \A i \in 1 .. Len(chain') :
             \/ i \in 1 .. Len(chain) /\ chain'[i] = chain[i]
             \/ /\ i = Len(chain) + 1 /\ chain'[i].kind = "page" /\ chain'[i].by = d
      BY <3>1, TaskFields DEF Appended
    <3>4. \A i \in 1 .. Len(chain) : ~ (chain[i].kind = "page" /\ chain[i].by = d)
      BY <3>1 DEF Chained
    <3>5. \A i \in 1 .. Len(chain') : chain'[i].kind = "boot" => boot'.pc = "loading"
      BY <2>1, <3>3 DEF Chained
    <3>6. \A i, j \in 1 .. Len(chain') : chain'[i].kind = "boot" /\ chain'[j].kind = "boot" => i = j
      BY <3>3 DEF Chained
    <3>7. \A i \in 1 .. Len(chain') : chain'[i].kind = "page" =>
             chain'[i].by \in Delta /\ delta'[chain'[i].by].pc = "applying"
      BY <2>1, <3>1, <3>3 DEF Chained
    <3>8. \A i, j \in 1 .. Len(chain') :
             chain'[i].kind = "page" /\ chain'[j].kind = "page" /\ chain'[i].by = chain'[j].by => i = j
      BY <3>3, <3>4 DEF Chained
    <3> QED
      BY <3>2, <3>5, <3>6, <3>7, <3>8 DEF Chained
  <2> QED
    BY <2>2, <2>3
<1>4. ASSUME NEW d \in Delta, DeltaError(d) PROVE Chained'
  <2>1. \A e \in Delta : delta[e].pc = "applying" => delta'[e].pc = "applying"
    BY <1>4 DEF DeltaError, Types
  <2> QED
    BY <1>4, <2>1, ChainedFrame DEF DeltaError, memVars, chainVars
<1>5. ASSUME CallBoot PROVE boot.pc = "loading" => boot'.pc = "loading"
  BY <1>5 DEF CallBoot
<1>6. ASSUME NEW d \in Delta, FallBack(d) PROVE Chained'
  <2>1. \A e \in Delta : delta[e].pc = "applying" => delta'[e].pc = "applying"
    BY <1>6 DEF FallBack, Types
  <2> QED
    BY <1>5, <1>6, <2>1, ChainedFrame DEF FallBack, memVars, chainVars
<1>7. CASE BootCursor \/ BootRead \/ Reboot
  BY <1>5, <1>7, ChainedFrame DEF BootCursor, BootRead, Reboot, memVars, chainVars, deltaVars
<1>8. CASE BootReceive
  <2>1. /\ boot.pc = "response" /\ boot'.pc = "loading"
        /\ applied' = applied /\ mem' = mem /\ delta' = delta
    BY <1>8 DEF BootReceive, Types, BootState, memVars, deltaVars
  <2>2. Appended(BootTask(boot))
    BY <1>8, AppendCases
  <2>3. \A i \in 1 .. Len(chain') :
           \/ i \in 1 .. Len(chain) /\ chain'[i] = chain[i]
           \/ i = Len(chain) + 1 /\ chain'[i].kind = "boot"
    BY <2>2, TaskFields DEF Appended
  <2>4. \A i \in 1 .. Len(chain) : chain[i].kind # "boot"
    BY <2>1 DEF Chained
  <2>5. applied' => chain' # <<>> /\ chain'[1].kind # "boot" /\ chain'[1].rows \subseteq mem'
    BY <1>0, <2>1, <2>2 DEF Chained, Appended
  <2>6. \A i, j \in 1 .. Len(chain') : chain'[i].kind = "boot" /\ chain'[j].kind = "boot" => i = j
    BY <2>3, <2>4
  <2>7. \A i \in 1 .. Len(chain') : chain'[i].kind = "page" =>
           chain'[i].by \in Delta /\ delta'[chain'[i].by].pc = "applying"
    BY <2>1, <2>3 DEF Chained
  <2>8. \A i, j \in 1 .. Len(chain') :
           chain'[i].kind = "page" /\ chain'[j].kind = "page" /\ chain'[i].by = chain'[j].by => i = j
    BY <2>3 DEF Chained
  <2> QED
    BY <2>1, <2>5, <2>6, <2>7, <2>8 DEF Chained
<1>9. CASE BootFails
  BY <1>9, BootOverCases, ChainedFrame DEF BootFails, memVars, chainVars
<1>10. CASE ApplyHead
  <2>1. boot' = boot /\ delta' = delta
    BY <1>10 DEF ApplyHead, deltaVars
  <2>2. /\ chain' # <<>> /\ Len(chain') = Len(chain) /\ 1 \in 1 .. Len(chain)
        /\ chain[1].kind # "boot" /\ mem' = mem \cup chain[1].rows
        /\ \A i \in 1 .. Len(chain) :
              /\ chain'[i].kind = chain[i].kind /\ chain'[i].rows = chain[i].rows
              /\ chain'[i].by = chain[i].by
    BY <1>0, <1>10, ApplyCases
  <2> QED
    BY <2>1, <2>2, SMTT(30) DEF Chained
<1>11. ASSUME Shifted, applied' = FALSE,
              \A i \in 2 .. Len(chain) : chain[i].kind = "boot" => boot'.pc = "loading",
              \A i \in 2 .. Len(chain) : chain[i].kind = "page" => delta'[chain[i].by].pc = "applying"
       PROVE  Chained'
  <2>1. \A i \in 1 .. Len(chain') : i + 1 \in 2 .. Len(chain) /\ i + 1 \in 1 .. Len(chain)
                                    /\ chain'[i] = chain[i + 1]
    BY <1>11 DEF Shifted
  <2>2. ~ applied'
    BY <1>11, Zenon
  <2>3. \A i \in 1 .. Len(chain') : chain'[i].kind = "boot" => boot'.pc = "loading"
    BY <1>11, <2>1
  <2>4. \A i, j \in 1 .. Len(chain') : chain'[i].kind = "boot" /\ chain'[j].kind = "boot" => i = j
    <3>1. ASSUME NEW i \in 1 .. Len(chain'), NEW j \in 1 .. Len(chain'),
                 chain'[i].kind = "boot", chain'[j].kind = "boot" PROVE i = j
      <4>1. i + 1 = j + 1
        BY <2>1, <3>1 DEF Chained
      <4> QED
        BY <4>1
    <3> QED
      BY <3>1
  <2>5. \A i \in 1 .. Len(chain') : chain'[i].kind = "page" =>
           chain'[i].by \in Delta /\ delta'[chain'[i].by].pc = "applying"
    BY <1>11, <2>1 DEF Chained
  <2>6. \A i, j \in 1 .. Len(chain') :
           chain'[i].kind = "page" /\ chain'[j].kind = "page" /\ chain'[i].by = chain'[j].by => i = j
    <3>1. ASSUME NEW i \in 1 .. Len(chain'), NEW j \in 1 .. Len(chain'),
                 chain'[i].kind = "page", chain'[j].kind = "page", chain'[i].by = chain'[j].by
          PROVE i = j
      <4>1. i + 1 = j + 1
        BY <2>1, <3>1 DEF Chained
      <4> QED
        BY <4>1
    <3> QED
      BY <3>1
  <2> QED
    BY <2>2, <2>3, <2>4, <2>5, <2>6 DEF Chained
<1>12. CASE FlushHead
  <2>1. Shifted /\ Head(chain) = chain[1] /\ chain[1] \in Task /\ boot' = boot /\ applied' = FALSE
    BY <1>12, ShiftCases DEF FlushHead
  <2>2. \A i \in 2 .. Len(chain) : i \in 1 .. Len(chain) /\ i # 1
    BY <1>0
  <2>3. \A i \in 2 .. Len(chain) : chain[i].kind = "page" => delta'[chain[i].by].pc = "applying"
    <3>1. CASE chain[1].kind = "page"
      <4>1. PageDone(chain[1].by) /\ chain[1].by \in Delta
        BY <1>12, <2>1, <3>1 DEF FlushHead, Task
      <4>2. \A e \in Delta : e # chain[1].by => delta'[e] = delta[e]
        BY <4>1, PageDoneCases
      <4> QED
        BY <2>1, <2>2, <3>1, <4>2 DEF Chained, Shifted
    <3>2. CASE chain[1].kind # "page"
      BY <1>12, <2>1, <2>2, <3>2 DEF FlushHead, deltaVars, Chained
    <3> QED
      BY <3>1, <3>2
  <2>4. \A i \in 2 .. Len(chain) : chain[i].kind = "boot" => boot'.pc = "loading"
    BY <2>1, <2>2 DEF Chained
  <2> QED
    BY <1>11, <2>1, <2>3, <2>4
<1>13. CASE FlushFails
  <2>1. Shifted /\ Head(chain) = chain[1] /\ chain[1] \in Task /\ boot' = boot /\ applied' = FALSE
    BY <1>13, ShiftCases DEF FlushFails
  <2>2. \A i \in 2 .. Len(chain) : i \in 1 .. Len(chain) /\ i # 1
    BY <1>0
  <2>3. \A i \in 2 .. Len(chain) : chain[i].kind = "page" => delta'[chain[i].by].pc = "applying"
    <3>1. CASE chain[1].kind = "page"
      <4>1. \A e \in Delta : e # chain[1].by => delta'[e] = delta[e]
        BY <1>13, <2>1, <3>1 DEF FlushFails, Types
      <4> QED
        BY <2>1, <2>2, <3>1, <4>1 DEF Chained, Shifted
    <3>2. CASE chain[1].kind # "page"
      BY <1>13, <2>1, <2>2, <3>2 DEF FlushFails, deltaVars, Chained
    <3> QED
      BY <3>1, <3>2
  <2>4. \A i \in 2 .. Len(chain) : chain[i].kind = "boot" => boot'.pc = "loading"
    BY <2>1, <2>2 DEF Chained
  <2> QED
    BY <1>11, <2>1, <2>3, <2>4
<1>14. CASE LoadBoot \/ LoadFails
  <2>1. /\ Shifted /\ Head(chain) = chain[1] /\ chain[1].kind = "boot"
        /\ applied' = FALSE
    <3>1. applied' = applied /\ ~ applied /\ applied \in BOOLEAN
      BY <1>14 DEF LoadBoot, LoadFails, Types
    <3>2. applied' = FALSE
      BY <3>1, Zenon
    <3> QED
      BY <1>14, <3>2, ShiftCases DEF LoadBoot, LoadFails
  <2>2. \A i \in 2 .. Len(chain) : i \in 1 .. Len(chain) /\ i # 1
    BY <1>0
  <2>3. \A i \in 2 .. Len(chain) : chain[i].kind # "boot"
    BY <2>1, <2>2 DEF Chained, Shifted
  <2>4. \A i \in 2 .. Len(chain) : chain[i].kind = "page" => delta'[chain[i].by].pc = "applying"
    BY <1>14, <2>2, BootOverCases DEF LoadBoot, LoadFails, Chained
  <2> QED
    BY <1>11, <2>1, <2>3, <2>4
<1>15. CASE Start
  <2>1. chain = <<>> /\ ~ applied /\ chain' = chain /\ applied' = applied
    BY <1>15 DEF Start, Idle, chainVars
  <2> QED
    BY <1>0, <2>1 DEF Chained
<1>16. CASE Reload
  <2>1. chain' = <<>> /\ ~ applied'
    BY <1>16, Zenon DEF Reload
  <2> QED
    BY <2>1 DEF Chained
<1>17. ASSUME CallDelta
       PROVE  \A e \in Delta : delta[e].pc = "applying" => delta'[e].pc = "applying"
  BY <1>17, CallDeltaCases
<1>18. CASE Connect
  BY <1>17, <1>18, ChainedFrame DEF Connect, memVars, chainVars
<1>19. CASE FollowUp
  BY <1>17, <1>19, ChainedFrame DEF FollowUp, memVars, chainVars
<1>20. CASE EndStart \/ Register \/ Disconnect
  BY <1>20, ChainedFrame DEF EndStart, Register, Disconnect, memVars, chainVars, deltaVars
<1>21. CASE Hint
  BY <1>17, <1>21, ChainedFrame DEF Hint, memVars, chainVars
<1>22. CASE Receive
  <2>1. boot' = boot /\ applied' = applied /\ mem' = mem /\ delta' = delta
    BY <1>22 DEF Receive, memVars, deltaVars
  <2>2. Appended(LiveTask(wire[1]))
    BY <1>22, AppendCases
  <2>3. \A i \in 1 .. Len(chain') :
           \/ i \in 1 .. Len(chain) /\ chain'[i] = chain[i]
           \/ chain'[i].kind = "live"
    BY <2>2, TaskFields DEF Appended
  <2>4. applied' => chain' # <<>> /\ chain'[1].kind # "boot" /\ chain'[1].rows \subseteq mem'
    BY <1>0, <2>1, <2>2 DEF Chained, Appended
  <2>5. \A i, j \in 1 .. Len(chain') : chain'[i].kind = "boot" /\ chain'[j].kind = "boot" => i = j
    BY <2>3 DEF Chained
  <2>6. \A i, j \in 1 .. Len(chain') :
           chain'[i].kind = "page" /\ chain'[j].kind = "page" /\ chain'[i].by = chain'[j].by => i = j
    BY <2>3 DEF Chained
  <2> QED
    BY <2>1, <2>3, <2>4, <2>5, <2>6 DEF Chained
<1>23. CASE UNCHANGED vars
  BY <1>23 DEF vars, Chained, memVars, chainVars, deltaVars
<1> QED
  BY <1>1, <1>2, <1>3, <1>4, <1>6, <1>7, <1>8, <1>9, <1>10, <1>12, <1>13, <1>14, <1>15, <1>16,
     <1>18, <1>19, <1>20, <1>21, <1>22, <1>23
  DEF Next, DeltaStep

-----------------------------------------------------------------------------
\* Types, the shared cursor and the disk

LEMMA BaseInit == Init => Base
<1> SUFFICES ASSUME Init PROVE Base
  OBVIOUS
<1>1. Types
  BY TypesInit
<1>2. ~ applied
  BY Zenon DEF Init
<1>3. Logged
  BY NoDeltaFields DEF Init, Logged
<1>4. Idle
  BY <1>2, NoDeltaFields DEF Init, Idle
<1>5. Chained
  BY <1>2 DEF Init, Chained
<1> QED
  BY <1>1, <1>3, <1>4, <1>5 DEF Base

LEMMA BaseStep == Base /\ [Next]_vars => Base'
BY TypesStep, LoggedStep, IdleStep, ChainedStep DEF Base

LEMMA BaseInv == Spec => []Base
BY BaseInit, BaseStep, PTL DEF Spec

(***************************************************************************)
(* TypeOK: every variable keeps its range; what the chain, the deltas and  *)
(* the bootstrap carry is committed rows.                                  *)
(***************************************************************************)
THEOREM TypeCorrect == Spec => []TypeOK
<1>1. Base => TypeOK
  <2> SUFFICES ASSUME Base PROVE TypeOK
    OBVIOUS
  <2>1. Types /\ Logged
    BY DEF Base
  <2>2. {stamped, applied, isDeltaSyncing} \subseteq BOOLEAN
    BY <2>1, Zenon DEF Types
  <2>3. ToSet(wire) \subseteq Xid
    BY <2>1 DEF Types, ToSet
  <2>4. \A t \in ToSet(chain) : t.kind \in {"live", "page", "boot"} /\ t.rows \subseteq log
    <3>1. ASSUME NEW t \in ToSet(chain) PROVE t.kind \in {"live", "page", "boot"} /\ t.rows \subseteq log
      <4>1. PICK i \in 1 .. Len(chain) : t = chain[i]
        BY <2>1, <3>1 DEF Types, ToSet
      <4>2. chain[i] \in Task
        BY <2>1 DEF Types
      <4> QED
        BY <2>1, <4>1, <4>2 DEF Task, Logged
    <3> QED
      BY <3>1
  <2>5. /\ \A d \in Delta : delta[d].pc \in {"idle", "request", "response", "applying", "fallback"}
        /\ boot.pc \in {"idle", "request", "reading", "response", "loading"}
    BY <2>1 DEF Types, DeltaState, BootState
  <2>6. \A b \in Bound : used[b] \in 0 .. Limit[b]
    BY <2>1, Bounds DEF Types
  <2> QED
    BY <2>1, <2>2, <2>3, <2>4, <2>5, <2>6 DEF TypeOK, Types
<1> QED
  BY <1>1, BaseInv, PTL

LEMMA CursorStep ==
    Base /\ [Next]_vars => (memCursor' < memCursor =>
        \/ phase' = "closed"
        \/ chain # <<>> /\ Head(chain).kind = "boot" /\ memCursor' = Head(chain).to)
<1> SUFFICES ASSUME Base, [Next]_vars, memCursor' < memCursor
             PROVE  \/ phase' = "closed"
                    \/ chain # <<>> /\ Head(chain).kind = "boot" /\ memCursor' = Head(chain).to
  OBVIOUS
<1>0. Types /\ Idle /\ memCursor \in Nat
  BY DEF Base, Types
<1>1. CASE Server
  BY <1>0, <1>1 DEF Server, BeginWrite, CommitWrite, Publish, LosePublish, memVars
<1>2. ASSUME NEW d \in Delta, DeltaStep(d) PROVE FALSE
  <2>1. delta[d].cursor \in Nat
    BY <1>0 DEF Types, DeltaState
  <2>2. CASE ReceiveDelta(d)
    <3>1. \/ memCursor' = memCursor
          \/ memCursor' = IF delta[d].cursor > memCursor THEN delta[d].cursor ELSE memCursor
      BY <1>0, <2>2, ReceiveCases
    <3> QED
      BY <1>0, <2>1, <3>1
  <2> QED
    BY <1>0, <1>2, <2>2 DEF DeltaStep, ServeDelta, DeltaError, FallBack, memVars
<1>3. CASE BootStep
  BY <1>0, <1>3 DEF BootStep, BootCursor, BootRead, BootReceive, BootFails, Reboot, memVars
<1>4. CASE ApplyHead
  <2>1. chain[1].rows \in SUBSET Xid
    BY <1>0, <1>4, TailIsRest DEF ApplyHead, Types, Task
  <2>2. memCursor <= Top(chain[1].rows, memCursor) /\ Top(chain[1].rows, memCursor) \in 0 .. MaxXid
    BY <1>0, <2>1, TopIsGreatest DEF Types
  <2> QED
    BY <1>0, <1>4, <2>2, ApplyCases
<1>5. CASE FlushHead
  <2>1. Head(chain) = chain[1] /\ chain[1] \in Task
    BY <1>0, <1>5, ShiftCases
  <2>2. CASE chain[1].kind = "page"
    <3>1. chain[1].by \in Delta /\ PageDone(chain[1].by)
      BY <1>5, <2>1, <2>2 DEF FlushHead, Task
    <3>2. memCursor' >= memCursor /\ memCursor' \in Nat
      BY <1>0, <3>1, PageDoneTypes
    <3> QED
      BY <1>0, <3>2
  <2> QED
    BY <1>0, <1>5, <2>1, <2>2 DEF FlushHead
<1>6. CASE FlushFails \/ LoadFails
  BY <1>0, <1>6 DEF FlushFails, LoadFails, memVars
<1>7. CASE LoadBoot
  BY <1>7 DEF LoadBoot
<1>8. CASE Start
  <2>1. memCursor = 0 /\ (memCursor' = diskCursor \/ memCursor' = memCursor)
    BY <1>0, <1>8, StartCases DEF Idle
  <2>2. diskCursor \in Nat
    BY <1>0 DEF Types
  <2> QED
    BY <2>1, <2>2
<1>9. CASE Reload
  BY <1>9 DEF Reload
<1>10. CASE EndStart \/ Connect \/ Register \/ Disconnect \/ Receive
  BY <1>0, <1>10 DEF EndStart, Connect, Register, Disconnect, Receive, memVars
<1>11. ASSUME Hint \/ FollowUp PROVE FALSE
  BY <1>0, <1>11 DEF Hint, FollowUp, memVars
<1>12. CASE UNCHANGED vars
  BY <1>0, <1>12 DEF vars, memVars
<1> QED
  BY <1>1, <1>2, <1>3, <1>4, <1>5, <1>6, <1>7, <1>8, <1>9, <1>10, <1>11, <1>12
  DEF Next, BootStep

(***************************************************************************)
(* CursorRegressesOnlyOnLoad: live frames, pages and late ends of deltas   *)
(* never move the shared cursor back, however they overlap.                *)
(***************************************************************************)
THEOREM CursorMovesForward == Spec => CursorRegressesOnlyOnLoad
<1>1. Base /\ [Next]_vars => [memCursor' < memCursor =>
        \/ phase' = "closed"
        \/ chain # <<>> /\ Head(chain).kind = "boot" /\ memCursor' = Head(chain).to]_vars
  BY CursorStep
<1> QED
  BY <1>1, BaseInv, PTL DEF Spec, CursorRegressesOnlyOnLoad

-----------------------------------------------------------------------------
\* Pages and the spans they cover

\* The xid is settled after the step.
SettledNext(x) == x < nextXid' /\ \A o \in open' : x < o

\* A settled xid stays settled: transactions that begin later have greater ones.
LEMMA SettledStays ==
    ASSUME Types, [Next]_vars, NEW x \in Nat, Settled(x)
    PROVE  SettledNext(x)
<1>0. open \in SUBSET Xid /\ nextXid \in Nat
  BY DEF Types
<1>1. CASE BeginWrite
  BY <1>0, <1>1 DEF BeginWrite, Settled, SettledNext
<1>2. ASSUME NEW y \in Xid, CommitWrite(y) PROVE SettledNext(x)
  BY <1>2 DEF CommitWrite, Settled, SettledNext
<1>3. CASE UNCHANGED <<nextXid, open>>
  BY <1>3 DEF Settled, SettledNext
<1>4. \/ BeginWrite \/ (\E y \in Xid : CommitWrite(y))
      \/ UNCHANGED <<nextXid, open>>
  <2>1. CASE Server
    BY <2>1 DEF Server, Publish, LosePublish
  <2>2. ASSUME NEW d \in Delta, DeltaStep(d) PROVE UNCHANGED <<nextXid, open>>
    BY <2>2 DEF DeltaStep, ServeDelta, ReceiveDelta, DeltaError, FallBack, serverVars
  <2>3. CASE BootStep
    BY <2>3 DEF BootStep, BootCursor, BootRead, BootReceive, BootFails, Reboot, serverVars
  <2>4. CASE ChainStep
    BY <2>4 DEF ChainStep, ApplyHead, FlushHead, FlushFails, LoadBoot, LoadFails, serverVars
  <2>5. CASE TabStep
    BY <2>5 DEF TabStep, Start, EndStart, Reload, Connect, Register, Disconnect, Receive,
                Hint, FollowUp, serverVars
  <2>6. CASE UNCHANGED vars
    BY <2>6 DEF vars, serverVars
  <2> QED
    BY <2>1, <2>2, <2>3, <2>4, <2>5, <2>6 DEF Next, BootStep, ChainStep, TabStep
<1> QED
  BY <1>1, <1>2, <1>3, <1>4

\* The log grows by what was open.
LEMMA LogGrows ==
    ASSUME Types, [Next]_vars
    PROVE  log \subseteq log' /\ \A z \in log' : z \in log \/ z \in open
<1>1. CASE Server
  BY <1>1 DEF Server, BeginWrite, CommitWrite, Publish, LosePublish
<1>2. ASSUME NEW d \in Delta, DeltaStep(d) PROVE log' = log
  BY <1>2 DEF DeltaStep, ServeDelta, ReceiveDelta, DeltaError, FallBack, serverVars
<1>3. CASE BootStep
  BY <1>3 DEF BootStep, BootCursor, BootRead, BootReceive, BootFails, Reboot, serverVars
<1>4. CASE ChainStep
  BY <1>4 DEF ChainStep, ApplyHead, FlushHead, FlushFails, LoadBoot, LoadFails, serverVars
<1>5. CASE TabStep
  BY <1>5 DEF TabStep, Start, EndStart, Reload, Connect, Register, Disconnect, Receive,
              Hint, FollowUp, serverVars
<1>6. CASE UNCHANGED vars
  BY <1>6 DEF vars, serverVars
<1> QED
  BY <1>1, <1>2, <1>3, <1>4, <1>5, <1>6 DEF Next, BootStep, ChainStep, TabStep

\* A page is a prefix of the settled rows after its cursor.
LEMMA PageIsPrefix ==
    ASSUME Types, NEW c \in Nat, NEW x \in DeltaPage(c)
    PROVE  /\ x \in log /\ x > c /\ Settled(x)
           /\ \A z \in log : c < z /\ z < x => z \in DeltaPage(c)
<1> DEFINE rest == {y \in log : Settled(y) /\ y > c}
<1>1. /\ x \in rest /\ Cardinality({y \in rest : y < x}) < PageSize
      /\ x \in log /\ x > c /\ Settled(x)
  BY DEF DeltaPage
<1>2. log \subseteq Nat /\ log \in SUBSET Xid /\ open \subseteq Nat /\ nextXid \in Nat
  BY Bounds DEF Types, Xid
<1>3. ASSUME NEW z \in log, c < z, z < x PROVE z \in DeltaPage(c)
  <2>1. Settled(z)
    BY <1>1, <1>2, <1>3 DEF Settled
  <2>2. z \in rest
    BY <1>2, <1>3, <2>1
  <2>3. IsFiniteSet({y \in rest : y < x})
    <3>1. IsFiniteSet(1 .. MaxXid)
      BY FS_Interval, Bounds
    <3>2. {y \in rest : y < x} \in SUBSET (1 .. MaxXid)
      BY <1>2 DEF Xid
    <3> QED
      BY <3>1, <3>2, FS_Subset
  <2>4. {y \in rest : y < z} \in SUBSET {y \in rest : y < x}
    <3>1. \A y \in rest : y \in Nat
      BY <1>2
    <3>2. z \in Nat /\ x \in Nat
      BY <1>1, <1>2
    <3> HIDE DEF rest
    <3> QED
      BY <1>3, <3>1, <3>2
  <2>5. /\ Cardinality({y \in rest : y < z}) <= Cardinality({y \in rest : y < x})
        /\ IsFiniteSet({y \in rest : y < z})
    BY <2>3, <2>4, FS_Subset
  <2>6. /\ Cardinality({y \in rest : y < z}) \in Nat
        /\ Cardinality({y \in rest : y < x}) \in Nat
    BY <2>3, <2>5, FS_CardinalityType
  <2>7. Cardinality({y \in rest : y < z}) < PageSize
    BY <1>1, <2>5, <2>6, Bounds
  <2> QED
    BY <2>2, <2>7 DEF DeltaPage
<1> QED
  BY <1>1, <1>3

\* What a step does to one delta.
LEMMA DeltaMoves ==
    ASSUME Types, Idle, [Next]_vars, NEW e \in Delta
    PROVE  \/ delta'[e] = delta[e]
           \/ delta'[e].pc \in {"idle", "fallback"} /\ delta'[e].from = 0 /\ delta'[e].cursor = 0
           \/ delta[e].pc = "idle" /\ Fresh(delta'[e], memCursor')
           \/ ServeDelta(e)
           \/ ReceiveDelta(e) /\ delta[e].rows # {}
           \/ FlushHead /\ Head(chain).by = e /\ PageDone(e) /\ delta[e].more
<1> DEFINE G == \/ delta'[e] = delta[e]
                \/ delta'[e].pc \in {"idle", "fallback"} /\ delta'[e].from = 0 /\ delta'[e].cursor = 0
                \/ delta[e].pc = "idle" /\ Fresh(delta'[e], memCursor')
                \/ ServeDelta(e)
                \/ ReceiveDelta(e) /\ delta[e].rows # {}
                \/ FlushHead /\ Head(chain).by = e /\ PageDone(e) /\ delta[e].more
<1> SUFFICES G
  OBVIOUS
<1>1. CASE Server
  BY <1>1 DEF Server, BeginWrite, CommitWrite, Publish, LosePublish, deltaVars
<1>2. ASSUME NEW d \in Delta, ServeDelta(d) PROVE G
  BY <1>2, ServeCases
<1>3. ASSUME NEW d \in Delta, ReceiveDelta(d) PROVE G
  BY <1>3, ReceiveCases, NoDeltaFields
<1>4. ASSUME NEW d \in Delta, DeltaError(d) PROVE G
  BY <1>4, NoDeltaFields DEF DeltaError, Types
<1>5. ASSUME NEW d \in Delta, FallBack(d) PROVE G
  <2>1. /\ [NoDelta EXCEPT !.pc = "fallback"].pc = "fallback"
        /\ [NoDelta EXCEPT !.pc = "fallback"].from = 0
        /\ [NoDelta EXCEPT !.pc = "fallback"].cursor = 0
    BY DEF NoDelta
  <2>2. \/ delta'[e] = delta[e] \/ delta'[e] = NoDelta
        \/ delta'[e] = [NoDelta EXCEPT !.pc = "fallback"]
    BY <1>5 DEF FallBack, Types
  <2> QED
    BY <2>1, <2>2, NoDeltaFields
<1>6. CASE BootStep
  <2>1. CASE BootFails
    BY <2>1, BootOverCases, NoDeltaFields DEF BootFails
  <2> QED
    BY <1>6, <2>1 DEF BootStep, BootCursor, BootRead, BootReceive, Reboot, deltaVars
<1>7. CASE ApplyHead
  BY <1>7 DEF ApplyHead, deltaVars
<1>8. CASE FlushHead
  <2>1. Head(chain) \in Task
    BY <1>8, ShiftCases
  <2>2. CASE Head(chain).kind = "page"
    <3>1. PageDone(Head(chain).by) /\ Head(chain).by \in Delta
      BY <1>8, <2>1, <2>2 DEF FlushHead, Task
    <3> QED
      BY <1>8, <3>1, PageDoneCases, NoDeltaFields
  <2>3. CASE Head(chain).kind # "page"
    BY <1>8, <2>3 DEF FlushHead, deltaVars
  <2> QED
    BY <2>2, <2>3
<1>9. CASE FlushFails
  BY <1>9, NoDeltaFields DEF FlushFails, deltaVars, Types
<1>10. CASE LoadBoot \/ LoadFails
  BY <1>10, BootOverCases, NoDeltaFields DEF LoadBoot, LoadFails
<1>11. CASE Start
  BY <1>11, StartCases DEF Idle
<1>12. CASE Reload
  BY <1>12, NoDeltaFields DEF Reload
<1>13. ASSUME CallDelta, memCursor' = memCursor PROVE G
  BY <1>13, CallDeltaCases
<1>14. CASE Connect
  BY <1>13, <1>14 DEF Connect, memVars
<1>15. CASE EndStart \/ Register \/ Disconnect \/ Receive
  BY <1>15 DEF EndStart, Register, Disconnect, Receive, deltaVars
<1>16. CASE Hint
  BY <1>13, <1>16 DEF Hint, memVars
<1>17. CASE FollowUp
  BY <1>13, <1>17 DEF FollowUp, memVars
<1>18. CASE UNCHANGED vars
  BY <1>18 DEF vars, deltaVars
<1> HIDE DEF G
<1> QED
  BY <1>1, <1>2, <1>3, <1>4, <1>5, <1>6, <1>7, <1>8, <1>9, <1>10, <1>11, <1>12, <1>14, <1>15,
     <1>16, <1>17, <1>18
  DEF Next, DeltaStep, BootStep

\* The cursor of a delta stands behind settled rows, and its page is a prefix.
PagedAt(d) ==
    /\ delta[d].from <= delta[d].cursor
    /\ delta[d].cursor # delta[d].from => Settled(delta[d].cursor)
    /\ delta[d].pc = "response" =>
          \A x \in delta[d].rows :
             /\ x > delta[d].cursor /\ Settled(x)
             /\ \A z \in log : delta[d].cursor < z /\ z < x => z \in delta[d].rows

Paged == \A d \in Delta : PagedAt(d)

LEMMA PagedStep == Base /\ Paged /\ [Next]_vars => Paged'
<1> SUFFICES ASSUME Base, Paged, [Next]_vars, NEW e \in Delta PROVE PagedAt(e)'
  BY DEF Paged
<1>0. /\ Types /\ Logged /\ Idle /\ PagedAt(e)
      /\ delta[e] \in DeltaState /\ delta'[e] \in DeltaState
  BY TypesStep DEF Base, Types, Paged
<1>1. /\ delta[e].from \in Nat /\ delta[e].cursor \in Nat /\ delta[e].cursor \in 0 .. MaxXid
      /\ delta[e].rows \subseteq Nat /\ delta[e].rows \in SUBSET Xid
      /\ delta'[e].from \in Nat /\ delta'[e].cursor \in Nat /\ delta'[e].rows \subseteq Nat
  BY <1>0, Bounds DEF DeltaState, Xid
<1>2. /\ \A x \in Nat : Settled(x) => SettledNext(x)
      /\ log \subseteq log' /\ \A z \in log' : z \in log \/ z \in open
  BY <1>0, SettledStays, LogGrows
<1>3. \A z \in open : \A x \in Nat : Settled(x) => ~ (z < x)
  BY <1>0 DEF Settled, Types, Xid
<1>4. CASE delta'[e] = delta[e]
  <2>1. delta'[e].cursor # delta'[e].from => SettledNext(delta[e].cursor)
    BY <1>0, <1>1, <1>2, <1>4 DEF PagedAt
  <2>2. ASSUME delta'[e].pc = "response", NEW x \in delta'[e].rows
        PROVE  /\ x > delta'[e].cursor /\ SettledNext(x)
               /\ \A z \in log' : delta'[e].cursor < z /\ z < x => z \in delta'[e].rows
    <3>1. x \in Nat /\ x > delta[e].cursor /\ Settled(x)
      BY <1>0, <1>1, <1>4, <2>2 DEF PagedAt
    <3>2. ASSUME NEW z \in log', delta'[e].cursor < z, z < x PROVE z \in delta'[e].rows
      <4>1. z \in log
        BY <1>2, <1>3, <3>1, <3>2
      <4> QED
        BY <1>0, <1>4, <2>2, <3>2, <4>1 DEF PagedAt
    <3> QED
      BY <1>2, <1>4, <3>1, <3>2
  <2> QED
    BY <1>0, <1>4, <2>1, <2>2 DEF PagedAt, Settled, SettledNext
<1>5. CASE delta'[e].pc \in {"idle", "fallback"} /\ delta'[e].from = 0 /\ delta'[e].cursor = 0
  BY <1>5 DEF PagedAt, Settled, SettledNext
<1>6. CASE Fresh(delta'[e], memCursor')
  BY <1>0, <1>1, <1>6 DEF PagedAt, Fresh, Settled, SettledNext
<1>7. CASE ServeDelta(e)
  <2> DEFINE c == delta[e].cursor
  <2>1. /\ delta'[e].from = delta[e].from /\ delta'[e].cursor = c
        /\ delta'[e].rows = DeltaPage(c)
    BY <1>0, <1>7, ServeCases
  <2>2. \A x \in DeltaPage(c) : /\ x > c /\ Settled(x)
                                /\ \A z \in log : c < z /\ z < x => z \in DeltaPage(c)
    BY <1>0, <1>1, PageIsPrefix
  <2>3. log' = log
    BY <1>7 DEF ServeDelta, serverVars
  <2>4. \A x \in DeltaPage(c) : x \in Nat
    BY <1>1, <2>1
  <2>5. \A x \in DeltaPage(c) : SettledNext(x)
    BY <1>2, <2>2, <2>4
  <2>6. delta[e].cursor # delta[e].from => SettledNext(delta[e].cursor)
    BY <1>0, <1>1, <1>2 DEF PagedAt
  <2>7. delta[e].from <= delta[e].cursor
    BY <1>0 DEF PagedAt
  <2> QED
    BY <2>1, <2>2, <2>3, <2>5, <2>6, <2>7 DEF PagedAt, Settled, SettledNext
<1>8. CASE ReceiveDelta(e) /\ delta[e].rows # {}
  <2> DEFINE c == Top(delta[e].rows, delta[e].cursor)
  <2>1. /\ delta[e].pc = "response" /\ delta'[e].pc = "applying"
        /\ delta'[e].from = delta[e].from /\ delta'[e].cursor = c
    BY <1>0, <1>8, ReceiveCases
  <2>2. /\ c \in delta[e].rows \cup {delta[e].cursor} /\ c \in Nat
        /\ delta[e].cursor <= c /\ \A x \in delta[e].rows : x <= c
    BY <1>1, TopIsGreatest
  <2> HIDE DEF c
  <2>3. c \in delta[e].rows
    BY <1>0, <1>1, <1>8, <2>1, <2>2 DEF PagedAt
  <2>4. SettledNext(c)
    BY <1>0, <1>2, <2>1, <2>2, <2>3 DEF PagedAt
  <2>5. delta[e].from <= c
    BY <1>0, <1>1, <2>2 DEF PagedAt
  <2> QED
    BY <2>1, <2>4, <2>5 DEF PagedAt, Settled, SettledNext
<1>9. CASE FlushHead /\ PageDone(e) /\ delta[e].more
  <2>1. /\ delta'[e].pc = "request" /\ delta'[e].from = delta[e].from
        /\ delta'[e].cursor = delta[e].cursor
    BY <1>0, <1>9, PageDoneCases
  <2>2. delta[e].cursor # delta[e].from => SettledNext(delta[e].cursor)
    BY <1>0, <1>1, <1>2 DEF PagedAt
  <2> QED
    BY <1>0, <2>1, <2>2 DEF PagedAt, Settled, SettledNext
<1> QED
  BY <1>0, <1>4, <1>5, <1>6, <1>7, <1>8, <1>9, DeltaMoves

\* Unless the tab loads a snapshot or starts again, it keeps what it has and what
\* waits in the chain: a task leaves the chain when its rows are in memory.
LEMMA TasksKept ==
    ASSUME Base, [Next]_vars, ~ Reload, ~ LoadBoot, ~ LoadFails, ~ Start
    PROVE  /\ mem \subseteq mem'
           /\ \A i \in 1 .. Len(chain) :
                 \/ chain[i].rows \subseteq mem'
                 \/ \E j \in 1 .. Len(chain') : /\ chain'[j].kind = chain[i].kind
                                                /\ chain'[j].rows = chain[i].rows
                                                /\ chain'[j].by = chain[i].by
<1> DEFINE G == /\ mem \subseteq mem'
                /\ \A i \in 1 .. Len(chain) :
                      \/ chain[i].rows \subseteq mem'
                      \/ \E j \in 1 .. Len(chain') : /\ chain'[j].kind = chain[i].kind
                                                     /\ chain'[j].rows = chain[i].rows
                                                     /\ chain'[j].by = chain[i].by
<1> SUFFICES G
  OBVIOUS
<1>0. Types /\ Chained /\ Len(chain) \in Nat
  BY DEF Base, Types
<1>1. CASE mem' = mem /\ chain' = chain
  BY <1>1
<1>2. ASSUME NEW t, Appended(t), mem' = mem PROVE G
  <2>1. \A i \in 1 .. Len(chain) : i \in 1 .. Len(chain')
    BY <1>2 DEF Appended
  <2> QED
    BY <1>2, <2>1 DEF Appended
<1>3. CASE Server
  BY <1>1, <1>3 DEF Server, BeginWrite, CommitWrite, Publish, LosePublish, memVars, chainVars
<1>4. ASSUME NEW d \in Delta, DeltaStep(d) PROVE G
  <2>1. CASE ReceiveDelta(d)
    BY <1>0, <1>1, <1>2, <2>1, ReceiveCases, AppendCases
  <2>2. CASE ~ ReceiveDelta(d)
    BY <1>1, <1>4, <2>2 DEF DeltaStep, ServeDelta, DeltaError, FallBack, memVars, chainVars
  <2> QED
    BY <2>1, <2>2
<1>5. CASE BootReceive \/ Receive
  BY <1>0, <1>2, <1>5, AppendCases DEF BootReceive, Receive, memVars
<1>6. CASE BootCursor \/ BootRead \/ BootFails \/ Reboot
  BY <1>1, <1>6 DEF BootCursor, BootRead, BootFails, Reboot, memVars, chainVars
<1>7. CASE ApplyHead
  BY <1>0, <1>7, ApplyCases
<1>8. CASE FlushHead \/ FlushFails
  <2>1. Shifted /\ applied /\ mem' = mem
    BY <1>0, <1>8, ShiftCases DEF FlushHead, FlushFails, memVars
  <2>2. chain[1].rows \subseteq mem'
    BY <1>0, <2>1 DEF Chained
  <2>3. ASSUME NEW i \in 1 .. Len(chain), i # 1
        PROVE  i - 1 \in 1 .. Len(chain') /\ chain'[i - 1] = chain[i]
    <3>1. i - 1 \in 1 .. Len(chain')
      BY <1>0, <2>1, <2>3 DEF Shifted
    <3>2. chain'[i - 1] = chain[(i - 1) + 1] /\ (i - 1) + 1 = i
      BY <2>1, <3>1 DEF Shifted
    <3> QED
      BY <3>1, <3>2
  <2> QED
    BY <2>1, <2>2, <2>3
<1>9. CASE EndStart \/ Connect \/ Register \/ Disconnect
  BY <1>1, <1>9 DEF EndStart, Connect, Register, Disconnect, memVars, chainVars
<1>10. ASSUME Hint \/ FollowUp PROVE G
  BY <1>1, <1>10 DEF Hint, FollowUp, memVars, chainVars
<1>11. CASE UNCHANGED vars
  BY <1>1, <1>11 DEF vars, memVars, chainVars
<1> HIDE DEF G
<1> QED
  BY <1>3, <1>4, <1>5, <1>6, <1>7, <1>8, <1>9, <1>10, <1>11 DEF Next

\* Every task of the chain was in it, or has just joined.
LEMMA TaskOrigin ==
    ASSUME Types, [Next]_vars, NEW i \in 1 .. Len(chain')
    PROVE  \/ \E j \in 1 .. Len(chain) :
                 /\ chain'[i].kind = chain[j].kind /\ chain'[i].rows = chain[j].rows
                 /\ chain'[i].by = chain[j].by
                 /\ chain[j].kind = "boot" => chain'[i].to = chain[j].to
           \/ \E d \in Delta : /\ ReceiveDelta(d) /\ delta[d].rows # {}
                               /\ chain'[i] = PageTask(d, delta[d].rows)
           \/ BootReceive /\ chain'[i] = BootTask(boot)
           \/ Receive /\ chain'[i] = LiveTask(wire[1])
<1> DEFINE Old == \E j \in 1 .. Len(chain) :
                     /\ chain'[i].kind = chain[j].kind /\ chain'[i].rows = chain[j].rows
                     /\ chain'[i].by = chain[j].by
                     /\ chain[j].kind = "boot" => chain'[i].to = chain[j].to
           New(t) == Old \/ chain'[i] = t
<1> SUFFICES \/ Old
             \/ \E d \in Delta : /\ ReceiveDelta(d) /\ delta[d].rows # {}
                                 /\ chain'[i] = PageTask(d, delta[d].rows)
             \/ BootReceive /\ chain'[i] = BootTask(boot)
             \/ Receive /\ chain'[i] = LiveTask(wire[1])
  OBVIOUS
<1>0. Len(chain) \in Nat
  BY DEF Types
<1>1. ASSUME NEW t, Appended(t) PROVE New(t)
  <2>1. i \in 1 .. Len(chain) \/ i = Len(chain) + 1
    BY <1>0, <1>1 DEF Appended
  <2> QED
    BY <1>1, <2>1 DEF Appended
<1>2. CASE UNCHANGED chain
  BY <1>2
<1>3. CASE Shifted
  BY <1>3 DEF Shifted
<1>4. CASE Server
  BY <1>2, <1>4 DEF Server, BeginWrite, CommitWrite, Publish, LosePublish, chainVars
<1>5. ASSUME NEW d \in Delta, DeltaStep(d)
      PROVE  \/ Old
             \/ ReceiveDelta(d) /\ delta[d].rows # {} /\ chain'[i] = PageTask(d, delta[d].rows)
  <2>1. CASE ReceiveDelta(d) /\ delta[d].rows # {}
    <3>1. Appended(PageTask(d, delta[d].rows))
      BY <2>1, AppendCases
    <3> QED
      BY <1>1, <2>1, <3>1
  <2>2. CASE ReceiveDelta(d) /\ delta[d].rows = {}
    BY <1>2, <2>2, ReceiveCases
  <2> QED
    BY <1>2, <1>5, <2>1, <2>2 DEF DeltaStep, ServeDelta, DeltaError, FallBack, chainVars
<1>6. CASE BootReceive
  <2>1. Appended(BootTask(boot))
    BY <1>6, AppendCases
  <2> QED
    BY <1>1, <1>6, <2>1
<1>7. CASE BootStep /\ ~ BootReceive
  BY <1>2, <1>7 DEF BootStep, BootCursor, BootRead, BootFails, Reboot, chainVars
<1>8. CASE ApplyHead
  <2>1. /\ Len(chain') = Len(chain) /\ chain[1].kind # "boot"
        /\ \A j \in 1 .. Len(chain) :
              /\ chain'[j].kind = chain[j].kind /\ chain'[j].rows = chain[j].rows
              /\ chain'[j].by = chain[j].by /\ (j # 1 => chain'[j].to = chain[j].to)
    BY <1>8, ApplyCases
  <2> QED
    BY <2>1
<1>9. CASE FlushHead \/ FlushFails \/ LoadBoot \/ LoadFails
  BY <1>3, <1>9, ShiftCases
<1>10. CASE Receive
  <2>1. Appended(LiveTask(wire[1]))
    BY <1>10, AppendCases
  <2> QED
    BY <1>1, <1>10, <2>1
<1>11. CASE Reload
  <2>1. Len(chain') = 0
    BY <1>11 DEF Reload
  <2> QED
    BY <2>1
<1>12. CASE TabStep /\ ~ Receive /\ ~ Reload
  BY <1>2, <1>12 DEF TabStep, Start, EndStart, Connect, Register, Disconnect, Hint, FollowUp, chainVars
<1>13. CASE UNCHANGED vars
  BY <1>2, <1>13 DEF vars, chainVars
<1> HIDE DEF Old
<1> QED
  BY <1>4, <1>5, <1>6, <1>7, <1>8, <1>9, <1>10, <1>11, <1>12, <1>13
  DEF Next, BootStep, TabStep

\* The steps that touch neither the pools nor IndexedDB, nor the head of the chain.
LEMMA OtherSteps ==
    ASSUME Types, [Next]_vars, ~ ApplyHead, ~ FlushHead, ~ FlushFails, ~ LoadBoot, ~ LoadFails,
           ~ Start, ~ Reload
    PROVE  /\ UNCHANGED <<mem, disk, diskCursor, applied, fate>>
           /\ chain' = chain \/ \E t : Appended(t)
<1> DEFINE G == /\ UNCHANGED <<mem, disk, diskCursor, applied, fate>>
                /\ chain' = chain \/ \E t : Appended(t)
<1> SUFFICES G
  OBVIOUS
<1>1. CASE Server
  BY <1>1 DEF Server, BeginWrite, CommitWrite, Publish, LosePublish, memVars, diskVars, chainVars
<1>2. ASSUME NEW d \in Delta, ReceiveDelta(d) PROVE G
  <2>1. UNCHANGED <<mem, disk, diskCursor, applied, fate>>
    BY <1>2, ReceiveCases DEF ReceiveDelta, diskVars
  <2> QED
    BY <1>2, <2>1, ReceiveCases, AppendCases
<1>3. ASSUME NEW d \in Delta, DeltaStep(d), ~ ReceiveDelta(d) PROVE G
  BY <1>3 DEF DeltaStep, ServeDelta, DeltaError, FallBack, memVars, diskVars, chainVars
<1>4. CASE BootStep
  BY <1>4, AppendCases
  DEF BootStep, BootCursor, BootRead, BootReceive, BootFails, Reboot, memVars, diskVars, chainVars
<1>5. CASE TabStep
  BY <1>5, AppendCases
  DEF TabStep, EndStart, Connect, Register, Disconnect, Receive, Hint, FollowUp,
      memVars, diskVars, chainVars
<1>6. CASE UNCHANGED vars
  BY <1>6 DEF vars, memVars, diskVars, chainVars
<1> HIDE DEF G
<1> QED
  BY <1>1, <1>2, <1>3, <1>4, <1>5, <1>6 DEF Next, BootStep, TabStep

\* The load of a snapshot, and its failure.
LEMMA LoadCases ==
    ASSUME Types, LoadBoot \/ LoadFails
    PROVE  /\ Shifted /\ chain[1].kind = "boot" /\ chain[1] \in Task
           /\ ~ applied /\ applied' = applied
           /\ LoadBoot => /\ mem' = chain[1].rows /\ memCursor' = chain[1].to
                          /\ disk' = chain[1].rows /\ diskCursor' = chain[1].to
                          /\ \A x \in mem \ chain[1].rows : "erased" \in fate'[x]
                          /\ \A x \in Xid \ chain[1].rows : fate[x] \subseteq fate'[x]
           /\ LoadFails => UNCHANGED <<mem, memCursor, disk, diskCursor, fate>>
<1>1. /\ Shifted /\ Head(chain) = chain[1] /\ chain[1].kind = "boot" /\ chain[1] \in Task
      /\ ~ applied /\ applied' = applied
  BY ShiftCases DEF LoadBoot, LoadFails
<1>2. ASSUME LoadBoot
      PROVE  /\ mem' = chain[1].rows /\ memCursor' = chain[1].to
             /\ disk' = chain[1].rows /\ diskCursor' = chain[1].to
             /\ \A x \in mem \ chain[1].rows : "erased" \in fate'[x]
             /\ \A x \in Xid \ chain[1].rows : fate[x] \subseteq fate'[x]
  <2>1. /\ mem' = chain[1].rows /\ memCursor' = chain[1].to
        /\ disk' = chain[1].rows /\ diskCursor' = chain[1].to
    BY <1>1, <1>2 DEF LoadBoot
  <2>2. fate' = [x \in Xid |-> IF x \in chain[1].rows THEN {} ELSE Befall(mem, "erased")[x]]
    BY <1>1, <1>2 DEF LoadBoot
  <2>3. mem \subseteq Xid
    BY DEF Types
  <2> QED
    BY <2>1, <2>2, <2>3 DEF Befall
<1>3. ASSUME LoadFails PROVE UNCHANGED <<mem, memCursor, disk, diskCursor, fate>>
  BY <1>3 DEF LoadFails, memVars, diskVars
<1> QED
  BY <1>1, <1>2, <1>3

\* A Dexie transaction commits, or fails.
LEMMA FlushCases ==
    ASSUME Base, FlushHead \/ FlushFails
    PROVE  /\ Shifted /\ chain[1] \in Task /\ applied /\ ~ applied' /\ mem' = mem
           /\ chain[1].kind # "boot" /\ chain[1].rows \subseteq mem
           /\ FlushHead => /\ disk' = disk \cup chain[1].rows /\ diskCursor' = chain[1].to
                           /\ \A x \in Xid \ chain[1].rows : fate'[x] = fate[x]
           /\ FlushFails => /\ UNCHANGED <<disk, diskCursor>>
                            /\ \A x \in chain[1].rows : x \in disk \/ "unsaved" \in fate'[x]
                            /\ \A x \in Xid : fate[x] \subseteq fate'[x]
<1>0. Types /\ Chained
  BY DEF Base
<1>1. /\ Shifted /\ Head(chain) = chain[1] /\ chain[1] \in Task /\ applied /\ ~ applied'
      /\ mem' = mem
  BY <1>0, ShiftCases DEF FlushHead, FlushFails, memVars
<1>2. chain[1].kind # "boot" /\ chain[1].rows \subseteq mem /\ mem \subseteq Xid
  BY <1>0, <1>1 DEF Chained, Types
<1>3. ASSUME FlushHead
      PROVE  /\ disk' = disk \cup chain[1].rows /\ diskCursor' = chain[1].to
             /\ \A x \in Xid \ chain[1].rows : fate'[x] = fate[x]
  BY <1>1, <1>3 DEF FlushHead, Saved
<1>4. ASSUME FlushFails
      PROVE  /\ UNCHANGED <<disk, diskCursor>>
             /\ \A x \in chain[1].rows : x \in disk \/ "unsaved" \in fate'[x]
             /\ \A x \in Xid : fate[x] \subseteq fate'[x]
  BY <1>1, <1>2, <1>4 DEF FlushFails, Befall, diskVars
<1> QED
  BY <1>1, <1>2, <1>3, <1>4

\* What befell a row is forgotten only when the row is in memory and on disk.
LEMMA FateKept ==
    ASSUME Base, [Next]_vars, NEW x \in Xid
    PROVE  fate[x] \subseteq fate'[x] \/ (x \in mem' /\ x \in disk')
<1>0. Types
  BY DEF Base
<1>1. CASE ApplyHead
  BY <1>1 DEF ApplyHead, Befall
<1>2. CASE FlushHead \/ FlushFails
  BY <1>2, FlushCases
<1>3. CASE LoadBoot \/ LoadFails
  BY <1>0, <1>3, LoadCases
<1>4. CASE Start \/ Reload
  BY <1>4 DEF Start, Reload
<1> QED
  BY <1>0, <1>1, <1>2, <1>3, <1>4, OtherSteps

\* A row leaves memory when a snapshot erases it, or with the page.
LEMMA MemKept ==
    ASSUME Base, [Next]_vars, NEW x \in mem
    PROVE  x \in mem' \/ Reload \/ "erased" \in fate'[x]
<1>0. Types /\ Idle /\ x \in Xid
  BY DEF Base, Types
<1>1. CASE ApplyHead
  BY <1>0, <1>1, ApplyCases
<1>2. CASE FlushHead \/ FlushFails
  BY <1>2, FlushCases
<1>3. CASE LoadBoot \/ LoadFails
  BY <1>0, <1>3, LoadCases
<1>4. CASE Start
  BY <1>0, <1>4 DEF Start, Idle
<1> QED
  BY <1>0, <1>1, <1>2, <1>3, <1>4, OtherSteps

-----------------------------------------------------------------------------
\* What every cursor owes to the rows behind it

\* The rows of S, or what befell them, account for everything up to c.
Explained(S, c) == \A x \in Xid : x <= c => x \in S \/ fate[x] # {}

\* A transaction that has begun is open or in the log.
Begun == \A x \in Xid : x < nextXid => x \in log \cup open

\* A page of delta d in the chain carries the row.
InPage(d, x) ==
    \E i \in 1 .. Len(chain) :
        chain[i].kind = "page" /\ chain[i].by = d /\ x \in chain[i].rows

\* A delta owes what is behind the cursor it captured to that cursor, and what it
\* has paged over to itself.
SpanAt(d) ==
    \A x \in Xid : x <= delta[d].cursor =>
        \/ x \in mem
        \/ x <= delta[d].from /\ fate[x] # {}
        \/ x > delta[d].from /\ (InPage(d, x) \/ "erased" \in fate[x])

Spans == \A d \in Delta : SpanAt(d)

\* The page a delta waits for is the one it has received, behind its cursor; a
\* request has none yet, and a page after which there is more is not empty.
Pages ==
    /\ \A i \in 1 .. Len(chain) : chain[i].kind = "page" =>
          /\ chain[i].rows = delta[chain[i].by].rows
          /\ \A y \in chain[i].rows : y <= delta[chain[i].by].cursor
    /\ \A d \in Delta : /\ delta[d].pc = "request" => delta[d].rows = {}
                        /\ delta[d].pc = "response" /\ delta[d].more => delta[d].rows # {}

\* A snapshot has every row up to its cursor.
Snapshots ==
    /\ \A x \in Xid : x <= boot.cursor => x \in log
    /\ boot.pc \in {"response", "loading"} =>
          \A x \in Xid : x <= boot.cursor => x \in boot.rows
    /\ \A i \in 1 .. Len(chain) : chain[i].kind = "boot" =>
          \A x \in Xid : x <= chain[i].to => x \in chain[i].rows

\* A row in memory is in IndexedDB, or in the apply under way, unless its own
\* Dexie transaction has failed.
Kept == \A x \in mem : \/ x \in disk \/ (applied /\ x \in chain[1].rows)
                       \/ "unsaved" \in fate[x]

HonestMem  == Explained(mem, memCursor)
HonestHead == applied => Explained(mem, chain[1].to)
HonestDisk == Explained(disk, diskCursor)

Inv == /\ Base /\ Paged /\ Begun /\ Pages /\ Snapshots
       /\ Spans /\ Kept /\ HonestMem /\ HonestHead /\ HonestDisk

LEMMA BegunStep == Types /\ Begun /\ [Next]_vars => Begun'
<1> SUFFICES ASSUME Types, Begun, [Next]_vars PROVE Begun'
  OBVIOUS
<1>1. CASE BeginWrite
  BY <1>1 DEF BeginWrite, Begun, Types, Xid
<1>2. ASSUME NEW y \in Xid, CommitWrite(y) PROVE Begun'
  BY <1>2 DEF CommitWrite, Begun
<1>3. ASSUME UNCHANGED <<nextXid, open, log>> PROVE Begun'
  BY <1>3 DEF Begun
<1>4. CASE Server
  BY <1>1, <1>2, <1>3, <1>4 DEF Server, Publish, LosePublish
<1>5. ASSUME NEW d \in Delta, DeltaStep(d) PROVE UNCHANGED <<nextXid, open, log>>
  BY <1>5 DEF DeltaStep, ServeDelta, ReceiveDelta, DeltaError, FallBack, serverVars
<1>6. CASE BootStep
  BY <1>3, <1>6 DEF BootStep, BootCursor, BootRead, BootReceive, BootFails, Reboot, serverVars
<1>7. CASE ChainStep
  BY <1>3, <1>7 DEF ChainStep, ApplyHead, FlushHead, FlushFails, LoadBoot, LoadFails, serverVars
<1>8. CASE TabStep
  BY <1>3, <1>8 DEF TabStep, Start, EndStart, Reload, Connect, Register, Disconnect, Receive,
                    Hint, FollowUp, serverVars
<1>9. CASE UNCHANGED vars
  BY <1>3, <1>9 DEF vars, serverVars
<1> QED
  BY <1>3, <1>4, <1>5, <1>6, <1>7, <1>8, <1>9 DEF Next, BootStep, ChainStep, TabStep

\* The rows up to a settled xid are in the log.
LEMMA SettledIsLogged ==
    ASSUME Types, Begun, NEW c \in Nat, Settled(c), NEW x \in Xid, x <= c
    PROVE  x \in log
<1>1. x < nextXid /\ x \notin open
  BY DEF Types, Settled, Xid
<1> QED
  BY <1>1 DEF Begun

\* Rows that are left after a cursor come with a page.
LEMMA PageNotEmpty ==
    ASSUME Types, NEW c \in Nat, DeltaPage(c) = {}
    PROVE  {x \in log : Settled(x) /\ x > c} = {}
<1> DEFINE rest == {x \in log : Settled(x) /\ x > c}
           flip == {MaxXid - x : x \in rest}
<1>0. MaxXid \in Nat /\ \A x \in rest : x \in 1 .. MaxXid
  BY Bounds DEF Types, Xid
<1> SUFFICES ASSUME rest # {} PROVE FALSE
  OBVIOUS
<1>1. flip \in SUBSET (0 .. MaxXid) /\ flip # {}
  BY <1>0
<1>2. PICK m \in rest : Max(flip) = MaxXid - m
  BY <1>0, <1>1, MaxOfBounded
<1>3. \A y \in rest : MaxXid - y <= MaxXid - m
  BY <1>0, <1>1, <1>2, MaxOfBounded
<1> HIDE DEF rest, flip
<1>4. \A y \in rest : ~ (y < m)
  BY <1>0, <1>3
<1>5. {y \in rest : y < m} = {}
  BY <1>4
<1>6. Cardinality({y \in rest : y < m}) < PageSize
  BY <1>5, FS_EmptySet, Bounds
<1>7. m \in DeltaPage(c)
  BY <1>2, <1>6 DEF DeltaPage, rest
<1> QED
  BY <1>7

LEMMA PagesStep == Base /\ Pages /\ [Next]_vars => Pages'
<1> SUFFICES ASSUME Base, Pages, [Next]_vars PROVE Pages'
  OBVIOUS
<1>0. /\ Types /\ Types' /\ Idle /\ Chained /\ Chained' /\ Idle'
      /\ \A d \in Delta : delta[d] \in DeltaState
  BY BaseStep DEF Base, Types
<1>1. ASSUME NEW e \in Delta, delta'[e].pc # "idle"
      PROVE  /\ delta'[e].pc = "request" => delta'[e].rows = {}
             /\ delta'[e].pc = "response" /\ delta'[e].more => delta'[e].rows # {}
  <2>1. CASE delta'[e] = delta[e]
    BY <2>1 DEF Pages
  <2>2. CASE delta'[e].pc = "fallback" \/ Fresh(delta'[e], memCursor')
    BY <2>2 DEF Fresh
  <2>3. CASE ServeDelta(e)
    <3>1. /\ delta'[e].pc = "response" /\ delta'[e].rows = DeltaPage(delta[e].cursor)
          /\ delta'[e].more =
                ({x \in log : Settled(x) /\ x > delta[e].cursor} # DeltaPage(delta[e].cursor))
      BY <1>0, <2>3, ServeCases
    <3>2. delta[e].cursor \in Nat
      BY <1>0 DEF DeltaState
    <3> QED
      BY <1>0, <3>1, <3>2, PageNotEmpty
  <2>4. CASE ReceiveDelta(e) /\ delta[e].rows # {}
    BY <1>0, <2>4, ReceiveCases
  <2>5. CASE FlushHead /\ PageDone(e) /\ delta[e].more
    BY <1>0, <2>5, PageDoneCases
  <2> QED
    BY <1>0, <1>1, <2>1, <2>2, <2>3, <2>4, <2>5, DeltaMoves
<1>2. ASSUME NEW e \in Delta, delta'[e].pc = "idle" PROVE delta'[e].pc # "request" /\ delta'[e].pc # "response"
  BY <1>2
<1>3. ASSUME NEW i \in 1 .. Len(chain'), chain'[i].kind = "page"
      PROVE  LET e == chain'[i].by IN
             /\ chain'[i].rows = delta'[e].rows
             /\ \A y \in chain'[i].rows : y <= delta'[e].cursor
  <2> DEFINE e == chain'[i].by
  <2>1. e \in Delta /\ delta'[e].pc = "applying"
    BY <1>0, <1>3 DEF Chained
  <2>2. CASE ReceiveDelta(e) /\ delta[e].rows # {} /\ chain'[i] = PageTask(e, delta[e].rows)
    <3>1. delta'[e].rows = delta[e].rows /\ delta'[e].cursor = Top(delta[e].rows, delta[e].cursor)
      BY <1>0, <2>1, <2>2, ReceiveCases
    <3>2. delta[e].rows \in SUBSET Xid /\ delta[e].cursor \in 0 .. MaxXid
      BY <1>0, <2>1 DEF DeltaState
    <3>3. \A y \in delta[e].rows : y <= Top(delta[e].rows, delta[e].cursor)
      BY <3>2, TopIsGreatest
    <3>4. chain'[i].rows = delta[e].rows
      BY <2>2, TaskFields
    <3> QED
      BY <3>1, <3>3, <3>4
  <2>3. CASE \E j \in 1 .. Len(chain) :
                chain'[i].kind = chain[j].kind /\ chain'[i].rows = chain[j].rows
                /\ chain'[i].by = chain[j].by
    <3>1. PICK j \in 1 .. Len(chain) :
                chain'[i].kind = chain[j].kind /\ chain'[i].rows = chain[j].rows
                /\ chain'[i].by = chain[j].by
      BY <2>3
    <3>2. delta[e].pc = "applying" /\ chain[j].kind = "page"
      BY <1>0, <1>3, <3>1 DEF Chained
    <3>3. delta'[e] = delta[e]
      <4>1. ~ Fresh(delta'[e], memCursor') /\ ~ ServeDelta(e) /\ ~ ReceiveDelta(e)
        BY <1>0, <2>1, <3>2, ServeCases, ReceiveCases DEF Fresh
      <4>2. ~ (FlushHead /\ PageDone(e) /\ delta[e].more)
        BY <1>0, <2>1, PageDoneCases
      <4> QED
        BY <1>0, <2>1, <4>1, <4>2, DeltaMoves
    <3> QED
      BY <1>3, <3>1, <3>2, <3>3 DEF Pages
  <2>4. ASSUME NEW d \in Delta, ReceiveDelta(d), delta[d].rows # {},
               chain'[i] = PageTask(d, delta[d].rows)
        PROVE  e = d
    BY <2>4, TaskFields
  <2>5. chain'[i] # BootTask(boot) /\ chain'[i] # LiveTask(wire[1])
    BY <1>3, TaskFields
  <2> QED
    BY <1>0, <2>2, <2>3, <2>4, <2>5, TaskOrigin
<1> QED
  BY <1>1, <1>2, <1>3 DEF Pages

LEMMA SnapshotsStep == Base /\ Begun /\ Snapshots /\ [Next]_vars => Snapshots'
<1> SUFFICES ASSUME Base, Begun, Snapshots, [Next]_vars PROVE Snapshots'
  OBVIOUS
<1>0. /\ Types /\ Types' /\ log \subseteq log' /\ boot \in BootState
  BY TypesStep, LogGrows DEF Base, Types
<1>1. CASE boot' = boot
  <2>1. ASSUME NEW i \in 1 .. Len(chain'), chain'[i].kind = "boot",
               NEW x \in Xid, x <= chain'[i].to
        PROVE  x \in chain'[i].rows
    <3>1. ~ BootReceive
      BY <1>0, <1>1 DEF BootReceive, BootState
    <3> QED
      BY <1>0, <2>1, <3>1, TaskOrigin, TaskFields DEF Snapshots
  <2> QED
    BY <1>0, <1>1, <2>1 DEF Snapshots
<1>2. ASSUME NEW b \in {"idle", "request"}, boot' = [NoBoot EXCEPT !.pc = b] PROVE Snapshots'
  <2>1. boot'.cursor = 0 /\ boot'.pc = b
    BY <1>2 DEF NoBoot
  <2>2. \A x \in Xid : ~ (x <= 0)
    BY DEF Xid
  <2>3. ~ BootReceive
    BY <1>0, <2>1 DEF BootReceive, BootState
  <2>4. ASSUME NEW i \in 1 .. Len(chain'), chain'[i].kind = "boot",
               NEW x \in Xid, x <= chain'[i].to
        PROVE  x \in chain'[i].rows
    BY <1>0, <2>3, <2>4, TaskOrigin, TaskFields DEF Snapshots
  <2> QED
    BY <2>1, <2>2, <2>4 DEF Snapshots
<1>3. CASE BootCursor
  <2> DEFINE c == Top({x \in log : Settled(x)}, 0)
  <2>1. boot'.cursor = c /\ boot'.pc = "reading" /\ chain' = chain /\ log' = log
    BY <1>0, <1>3 DEF BootCursor, BootState, chainVars, serverVars
  <2>2. c \in Nat /\ (c = 0 \/ Settled(c))
    BY <1>0, TopIsGreatest, Bounds DEF Types
  <2> HIDE DEF c
  <2>3. \A x \in Xid : x <= c => x \in log
    <3>1. \A x \in Xid : ~ (x <= 0)
      BY DEF Xid
    <3> QED
      BY <1>0, <2>2, <3>1, SettledIsLogged
  <2> QED
    BY <2>1, <2>3 DEF Snapshots
<1>4. CASE BootRead
  <2>1. boot'.cursor = boot.cursor /\ boot'.rows = log /\ chain' = chain /\ log' = log
    BY <1>0, <1>4 DEF BootRead, BootState, chainVars, serverVars
  <2> QED
    BY <2>1 DEF Snapshots
<1>5. CASE BootReceive
  <2>1. /\ boot'.cursor = boot.cursor /\ boot'.rows = boot.rows /\ boot.pc = "response"
        /\ log' = log
    BY <1>0, <1>5 DEF BootReceive, BootState, serverVars
  <2>2. Appended(BootTask(boot))
    BY <1>0, <1>5, AppendCases
  <2>3. ASSUME NEW i \in 1 .. Len(chain'), chain'[i].kind = "boot",
               NEW x \in Xid, x <= chain'[i].to
        PROVE  x \in chain'[i].rows
    <3>1. CASE i \in 1 .. Len(chain)
      BY <2>2, <2>3, <3>1 DEF Appended, Snapshots
    <3>2. CASE i = Len(chain) + 1
      BY <2>1, <2>2, <2>3, <3>2, TaskFields DEF Appended, Snapshots
    <3> QED
      BY <2>2, <3>1, <3>2 DEF Appended
  <2> QED
    BY <2>1, <2>3 DEF Snapshots
<1>6. BootOver => boot' = [NoBoot EXCEPT !.pc = "idle"]
  <2>1. [NoBoot EXCEPT !.pc = "idle"] = NoBoot
    BY DEF NoBoot
  <2> QED
    BY <1>0, <2>1, BootOverCases
<1>7. CallBoot => boot' = boot \/ boot' = [NoBoot EXCEPT !.pc = "request"]
  BY DEF CallBoot
<1>8. CASE Server
  BY <1>1, <1>8 DEF Server, BeginWrite, CommitWrite, Publish, LosePublish
<1>9. ASSUME NEW d \in Delta, DeltaStep(d) PROVE boot' = boot \/ CallBoot
  BY <1>9 DEF DeltaStep, ServeDelta, ReceiveDelta, DeltaError, FallBack
<1>10. CASE BootFails \/ Reboot
  BY <1>1, <1>2, <1>6, <1>7, <1>10 DEF BootFails, Reboot
<1>11. CASE ChainStep
  BY <1>1, <1>2, <1>6, <1>11 DEF ChainStep, ApplyHead, FlushHead, FlushFails, LoadBoot, LoadFails
<1>12. CASE Start
  BY <1>0, <1>1, <1>2, <1>7, <1>12, StartCases
<1>13. CASE Reload
  <2>1. boot' = [NoBoot EXCEPT !.pc = "idle"]
    BY <1>13 DEF Reload, NoBoot
  <2> QED
    BY <1>2, <2>1
<1>14. CASE EndStart \/ Connect \/ Register \/ Disconnect \/ Receive \/ Hint \/ FollowUp
  BY <1>1, <1>14 DEF EndStart, Connect, Register, Disconnect, Receive, Hint, FollowUp
<1>15. CASE UNCHANGED vars
  BY <1>1, <1>15 DEF vars
<1> QED
  BY <1>1, <1>2, <1>3, <1>4, <1>5, <1>7, <1>8, <1>9, <1>10, <1>11, <1>12, <1>13, <1>14, <1>15
  DEF Next, ChainStep

\* The row that a delta's last cursor has passed is in memory, or explained.
LEMMA PassedIsExplained ==
    ASSUME Inv, NEW d \in Delta, NEW x \in Xid, x <= delta[d].cursor,
           \/ delta[d].pc # "applying"
           \/ chain # <<>> /\ chain[1].kind = "page" /\ chain[1].by = d
    PROVE  \/ x \in mem \/ fate[x] # {}
           \/ chain # <<>> /\ chain[1].kind = "page" /\ chain[1].by = d /\ x \in chain[1].rows
<1>1. SpanAt(d) /\ Chained /\ Types
  BY DEF Inv, Spans, Base
<1>2. CASE InPage(d, x)
  <2>1. PICK i \in 1 .. Len(chain) :
           chain[i].kind = "page" /\ chain[i].by = d /\ x \in chain[i].rows
    BY <1>2 DEF InPage
  <2>2. delta[d].pc = "applying"
    BY <1>1, <2>1 DEF Chained
  <2>3. 1 \in 1 .. Len(chain)
    BY <1>1, <2>1 DEF Types
  <2>4. i = 1
    BY <1>1, <2>1, <2>2, <2>3 DEF Chained
  <2> QED
    BY <2>1, <2>2, <2>4
<1> QED
  BY <1>1, <1>2 DEF SpanAt

\* What moves the shared cursor.
LEMMA CursorMoves ==
    ASSUME Base, [Next]_vars
    PROVE  \/ memCursor' = memCursor
           \/ ApplyHead \/ LoadBoot \/ Reload
           \/ Start /\ mem' = disk /\ memCursor' = diskCursor
           \/ \E d \in Delta :
                 /\ memCursor' = delta[d].cursor
                 /\ \/ ReceiveDelta(d) /\ delta[d].pc = "response"
                    \/ FlushHead /\ chain[1].kind = "page" /\ chain[1].by = d
<1> DEFINE G == \/ memCursor' = memCursor
                \/ ApplyHead \/ LoadBoot \/ Reload
                \/ Start /\ mem' = disk /\ memCursor' = diskCursor
                \/ \E d \in Delta :
                      /\ memCursor' = delta[d].cursor
                      /\ \/ ReceiveDelta(d) /\ delta[d].pc = "response"
                         \/ FlushHead /\ chain[1].kind = "page" /\ chain[1].by = d
<1> SUFFICES G
  OBVIOUS
<1>0. Types
  BY DEF Base
<1>1. CASE Server
  BY <1>1 DEF Server, BeginWrite, CommitWrite, Publish, LosePublish, memVars
<1>2. ASSUME NEW d \in Delta, DeltaStep(d) PROVE G
  <2>1. CASE ReceiveDelta(d)
    <3>1. delta[d].pc = "response" /\ (memCursor' = memCursor \/ memCursor' = delta[d].cursor)
      BY <1>0, <2>1, ReceiveCases
    <3> QED
      BY <2>1, <3>1
  <2> QED
    BY <1>2, <2>1 DEF DeltaStep, ServeDelta, DeltaError, FallBack, memVars
<1>3. CASE BootStep
  BY <1>3 DEF BootStep, BootCursor, BootRead, BootReceive, BootFails, Reboot, memVars
<1>4. CASE FlushHead
  <2>1. Head(chain) = chain[1] /\ chain[1] \in Task
    BY <1>0, <1>4, ShiftCases
  <2>2. CASE chain[1].kind = "page"
    <3>1. chain[1].by \in Delta /\ PageDone(chain[1].by)
      BY <1>4, <2>1, <2>2 DEF FlushHead, Task
    <3>2. memCursor' = memCursor \/ memCursor' = delta[chain[1].by].cursor
      BY <1>0, <3>1, PageDoneCases
    <3> QED
      BY <1>4, <2>2, <3>1, <3>2
  <2> QED
    BY <1>4, <2>1, <2>2 DEF FlushHead
<1>5. CASE FlushFails \/ LoadFails
  BY <1>5 DEF FlushFails, LoadFails, memVars
<1>6. CASE TabStep /\ ~ Reload
  BY <1>0, <1>6, StartCases
  DEF TabStep, EndStart, Connect, Register, Disconnect, Receive, Hint, FollowUp, memVars
<1>7. CASE UNCHANGED vars
  BY <1>7 DEF vars, memVars
<1> HIDE DEF G
<1>8. CASE ApplyHead \/ LoadBoot \/ Reload
  BY <1>8 DEF G
<1> QED
  BY <1>1, <1>2, <1>3, <1>4, <1>5, <1>6, <1>7, <1>8 DEF Next, BootStep, TabStep

LEMMA HonestMemStep == Inv /\ [Next]_vars => HonestMem'
<1> SUFFICES ASSUME Inv, [Next]_vars, NEW x \in Xid, x <= memCursor'
             PROVE  x \in mem' \/ fate'[x] # {}
  BY DEF HonestMem, Explained
<1>0. /\ Base /\ Types /\ Chained /\ Snapshots /\ HonestMem /\ HonestDisk
      /\ x \in Nat /\ x > 0 /\ memCursor \in 0 .. MaxXid /\ memCursor \in Nat
  <2>1. Base /\ Types /\ Chained /\ Snapshots /\ HonestMem /\ HonestDisk
    BY DEF Inv, Base
  <2> QED
    BY <2>1 DEF Types, Xid
<1>1. ~ Reload
  BY <1>0 DEF Reload
<1>2. ASSUME x \in mem \/ fate[x] # {} PROVE x \in mem' \/ fate'[x] # {}
  BY <1>0, <1>1, <1>2, FateKept, MemKept
<1>3. CASE x <= memCursor
  BY <1>0, <1>2, <1>3 DEF HonestMem, Explained
<1>4. CASE ApplyHead /\ x > memCursor
  <2> DEFINE c == Top(chain[1].rows, memCursor)
  <2>1. /\ chain # <<>> /\ Head(chain) = chain[1] /\ chain[1] \in Task /\ 1 \in 1 .. Len(chain)
        /\ mem' = mem \cup chain[1].rows /\ memCursor' = c /\ chain[1].kind # "boot"
    <3>1. /\ chain # <<>> /\ chain[1].kind # "boot"
          /\ mem' = mem \cup chain[1].rows /\ memCursor' = c
      BY <1>0, <1>4, ApplyCases
    <3>2. chain \in Seq(Task)
      BY <1>0 DEF Types
    <3> HIDE DEF c
    <3> QED
      BY <3>1, <3>2, TailIsRest
  <2>2. /\ chain[1].rows \in SUBSET Xid
        /\ c \in chain[1].rows \cup {memCursor} /\ c \in 0 .. MaxXid
    BY <1>0, <2>1, TopIsGreatest DEF Task
  <2>3. c \in chain[1].rows
    BY <1>0, <1>4, <2>1, <2>2
  <2>4. CASE chain[1].kind = "live"
    <3>1. fate' = Befall({y \in Xid : memCursor < y /\ y < c} \ mem, "jumped")
      BY <1>4, <2>1, <2>4 DEF ApplyHead
    <3>2. x = c \/ x < c
      BY <1>0, <2>1, <2>2
    <3> HIDE DEF c
    <3> QED
      BY <1>4, <2>1, <2>3, <3>1, <3>2 DEF Befall
  <2>5. CASE chain[1].kind = "page"
    <3> HIDE DEF c
    <3>1. chain[1].by \in Delta /\ c <= delta[chain[1].by].cursor
      BY <2>1, <2>3, <2>5 DEF Inv, Pages, Task
    <3>2. delta[chain[1].by].cursor \in Nat
      BY <1>0, <3>1 DEF Types, DeltaState
    <3>3. x <= delta[chain[1].by].cursor
      BY <1>0, <2>1, <2>2, <3>1, <3>2
    <3>4. x \in mem \/ fate[x] # {} \/ x \in chain[1].rows
      BY <2>1, <2>5, <3>1, <3>3, PassedIsExplained
    <3> QED
      BY <1>2, <2>1, <3>4
  <2> QED
    BY <2>1, <2>4, <2>5 DEF Task
<1>5. CASE LoadBoot
  BY <1>0, <1>5, LoadCases DEF Shifted, Snapshots
<1>6. CASE Start /\ mem' = disk /\ memCursor' = diskCursor
  BY <1>0, <1>6 DEF Start, HonestDisk, Explained
<1>7. ASSUME NEW d \in Delta, memCursor' = delta[d].cursor,
             \/ ReceiveDelta(d) /\ delta[d].pc = "response"
             \/ FlushHead /\ chain[1].kind = "page" /\ chain[1].by = d
      PROVE  x \in mem' \/ fate'[x] # {}
  <2>1. CASE ReceiveDelta(d) /\ delta[d].pc = "response"
    <3>1. \/ x \in mem \/ fate[x] # {}
          \/ chain # <<>> /\ chain[1].kind = "page" /\ chain[1].by = d
      BY <1>7, <2>1, PassedIsExplained
    <3>2. chain # <<>> => 1 \in 1 .. Len(chain)
      BY <1>0 DEF Types
    <3> QED
      BY <1>0, <1>2, <2>1, <3>1, <3>2 DEF Chained
  <2>2. CASE FlushHead /\ chain[1].kind = "page" /\ chain[1].by = d
    <3>1. chain # <<>> /\ chain[1].rows \subseteq mem
      BY <1>0, <2>2, FlushCases DEF Shifted
    <3>2. x \in mem \/ fate[x] # {} \/ x \in chain[1].rows
      BY <1>7, <2>2, <3>1, PassedIsExplained
    <3> QED
      BY <1>2, <3>1, <3>2
  <2> QED
    BY <1>7, <2>1, <2>2
<1> QED
  BY <1>0, <1>1, <1>3, <1>4, <1>5, <1>6, <1>7, CursorMoves

\* The apply under way is the one of the last step, or has just begun.
LEMMA HeadKept ==
    ASSUME Base, [Next]_vars, applied'
    PROVE  \/ ApplyHead /\ chain'[1].to = memCursor' /\ chain'[1].rows = chain[1].rows
           \/ applied /\ chain'[1] = chain[1] /\ UNCHANGED <<mem, disk, fate>>
<1>0. Types /\ Chained
  BY DEF Base
<1>1. CASE ApplyHead
  <2>1. 1 \in 1 .. Len(chain)
    BY <1>0, <1>1, TailIsRest DEF ApplyHead, Types
  <2> QED
    BY <1>0, <1>1, <2>1, ApplyCases
<1>2. CASE FlushHead \/ FlushFails
  BY <1>2, FlushCases
<1>3. CASE LoadBoot \/ LoadFails
  BY <1>0, <1>3, LoadCases
<1>4. CASE Start
  BY <1>4, BaseStep DEF Start, chainVars, Base, Idle
<1>5. CASE Reload
  BY <1>5 DEF Reload
<1>6. CASE /\ UNCHANGED <<mem, disk, diskCursor, applied, fate>>
           /\ chain' = chain \/ \E t : Appended(t)
  <2>1. applied /\ chain # <<>>
    BY <1>0, <1>6 DEF Chained
  <2>2. 1 \in 1 .. Len(chain)
    BY <1>0, <2>1 DEF Types
  <2> QED
    BY <1>6, <2>1, <2>2 DEF Appended
<1> QED
  BY <1>0, <1>1, <1>2, <1>3, <1>4, <1>5, <1>6, OtherSteps

LEMMA HonestHeadStep == Inv /\ HonestMem' /\ [Next]_vars => HonestHead'
<1> SUFFICES ASSUME Inv, HonestMem', [Next]_vars, applied', NEW x \in Xid, x <= chain'[1].to
             PROVE  x \in mem' \/ fate'[x] # {}
  BY DEF HonestHead, Explained
<1>1. Base /\ HonestHead
  BY DEF Inv
<1>2. CASE ApplyHead /\ chain'[1].to = memCursor'
  BY <1>2 DEF HonestMem, Explained
<1>3. CASE applied /\ chain'[1] = chain[1] /\ UNCHANGED <<mem, disk, fate>>
  BY <1>1, <1>3 DEF HonestHead, Explained
<1> QED
  BY <1>1, <1>2, <1>3, HeadKept

LEMMA KeptStep == Inv /\ [Next]_vars => Kept'
<1> SUFFICES ASSUME Inv, [Next]_vars, NEW x \in mem'
             PROVE  x \in disk' \/ (applied' /\ x \in chain'[1].rows) \/ "unsaved" \in fate'[x]
  BY DEF Kept
<1>0. Base /\ Types /\ Types' /\ Idle /\ Kept /\ x \in Xid
  BY TypesStep DEF Inv, Base, Types
<1>1. ASSUME x \in mem, ~ applied, disk \subseteq disk'
      PROVE  x \in disk' \/ "unsaved" \in fate'[x]
  BY <1>0, <1>1, FateKept DEF Kept
<1>2. CASE ApplyHead
  <2>1. /\ mem' = mem \cup chain[1].rows /\ applied' /\ ~ applied
        /\ chain'[1].rows = chain[1].rows /\ disk' = disk
    BY <1>0, <1>2, ApplyCases, HeadKept DEF ApplyHead, diskVars
  <2> QED
    BY <1>1, <2>1
<1>3. CASE FlushHead
  <2>1. mem' = mem /\ applied /\ disk' = disk \cup chain[1].rows
    BY <1>0, <1>3, FlushCases
  <2> QED
    BY <1>0, <2>1, FateKept DEF Kept
<1>4. CASE FlushFails
  <2>1. /\ mem' = mem /\ applied /\ disk' = disk
        /\ \A y \in chain[1].rows : y \in disk \/ "unsaved" \in fate'[y]
    BY <1>0, <1>4, FlushCases
  <2> QED
    BY <1>0, <2>1, FateKept DEF Kept
<1>5. CASE LoadBoot
  BY <1>0, <1>5, LoadCases
<1>6. CASE LoadFails
  BY <1>0, <1>1, <1>6, LoadCases
<1>7. CASE Start
  <2>1. disk' = disk /\ phase = "closed" /\ (mem' = disk \/ mem' = mem)
    BY <1>0, <1>7, StartCases DEF Start, diskVars
  <2>2. mem = {}
    BY <1>0, <2>1 DEF Idle
  <2> QED
    BY <2>1, <2>2
<1>8. CASE Reload
  BY <1>8 DEF Reload
<1>9. CASE UNCHANGED <<mem, disk, diskCursor, applied, fate>>
  <2>1. CASE applied
    <3>1. ~ ApplyHead
      BY <2>1 DEF ApplyHead
    <3> QED
      BY <1>0, <1>9, <2>1, <3>1, HeadKept DEF Kept
  <2>2. CASE ~ applied
    BY <1>1, <1>9, <2>2
  <2> QED
    BY <2>1, <2>2
<1> QED
  BY <1>0, <1>2, <1>3, <1>4, <1>5, <1>6, <1>7, <1>8, <1>9, OtherSteps

LEMMA HonestDiskStep == Inv /\ [Next]_vars => HonestDisk'
<1> SUFFICES ASSUME Inv, [Next]_vars, NEW x \in Xid, x <= diskCursor'
             PROVE  x \in disk' \/ fate'[x] # {}
  BY DEF HonestDisk, Explained
<1>0. Base /\ Types /\ Kept /\ Snapshots /\ HonestHead /\ HonestDisk
  BY DEF Inv, Base
<1>1. CASE FlushHead
  <2>1. applied /\ disk' = disk \cup chain[1].rows /\ diskCursor' = chain[1].to
    BY <1>0, <1>1, FlushCases
  <2>2. x \in mem \/ fate[x] # {}
    BY <1>0, <2>1 DEF HonestHead, Explained
  <2>3. x \in disk \/ x \in chain[1].rows \/ fate[x] # {}
    BY <1>0, <2>2 DEF Kept
  <2> QED
    BY <1>0, <2>1, <2>3, FateKept
<1>2. CASE LoadBoot
  BY <1>0, <1>2, LoadCases DEF Shifted, Snapshots
<1>3. CASE disk' = disk /\ diskCursor' = diskCursor
  BY <1>0, <1>3, FateKept DEF HonestDisk, Explained
<1>4. CASE FlushFails \/ LoadFails
  BY <1>0, <1>3, <1>4, FlushCases, LoadCases
<1>5. CASE ApplyHead \/ Start \/ Reload
  BY <1>3, <1>5 DEF ApplyHead, Start, Reload, diskVars
<1> QED
  BY <1>0, <1>1, <1>2, <1>3, <1>4, <1>5, OtherSteps

\* A page in the chain stays there until its rows are in memory.
LEMMA InPageKept ==
    ASSUME Base, [Next]_vars, ~ Reload, NEW d \in Delta, NEW x, InPage(d, x)
    PROVE  \/ x \in mem'
           \/ \E i \in 1 .. Len(chain') :
                 chain'[i].kind = "page" /\ chain'[i].by = d /\ x \in chain'[i].rows
<1>0. Types /\ Idle
  BY DEF Base
<1>1. PICK i \in 1 .. Len(chain) :
         chain[i].kind = "page" /\ chain[i].by = d /\ x \in chain[i].rows
  BY DEF InPage
<1>2. ~ Start
  BY <1>0, <1>1 DEF Start, Idle
<1>3. CASE LoadBoot \/ LoadFails
  <2>1. Shifted /\ i # 1
    BY <1>0, <1>1, <1>3, LoadCases
  <2>2. i - 1 \in 1 .. Len(chain') /\ chain'[i - 1] = chain[i]
    <3>1. i - 1 \in 1 .. Len(chain')
      BY <2>1 DEF Shifted
    <3>2. chain'[i - 1] = chain[(i - 1) + 1] /\ (i - 1) + 1 = i
      BY <2>1, <3>1 DEF Shifted
    <3> QED
      BY <3>1, <3>2
  <2> QED
    BY <1>1, <2>2
<1> QED
  BY <1>1, <1>2, <1>3, TasksKept

LEMMA SpansStep == Inv /\ HonestMem' /\ [Next]_vars => Spans'
<1> SUFFICES ASSUME Inv, HonestMem', [Next]_vars, NEW e \in Delta,
                    NEW x \in Xid, x <= delta'[e].cursor
             PROVE  \/ x \in mem'
                    \/ x <= delta'[e].from /\ fate'[x] # {}
                    \/ /\ x > delta'[e].from
                       /\ \/ \E i \in 1 .. Len(chain') :
                                /\ chain'[i].kind = "page" /\ chain'[i].by = e
                                /\ x \in chain'[i].rows
                          \/ "erased" \in fate'[x]
  BY DEF Spans, SpanAt, InPage
<1>0. /\ Base /\ Types /\ Idle /\ PagedAt(e) /\ Begun /\ SpanAt(e)
      /\ delta[e] \in DeltaState /\ delta'[e] \in DeltaState
      /\ x \in Nat /\ x > 0
  <2>1. Base /\ Types /\ Types' /\ Idle /\ Paged /\ Begun /\ Spans
    BY TypesStep DEF Inv, Base
  <2>2. delta[e] \in DeltaState /\ delta'[e] \in DeltaState
    BY <2>1 DEF Types
  <2>3. x \in Nat /\ x > 0
    BY DEF Xid
  <2> QED
    BY <2>1, <2>2, <2>3 DEF Paged, Spans
<1>1. /\ delta[e].from \in Nat /\ delta[e].cursor \in Nat /\ delta[e].cursor \in 0 .. MaxXid
      /\ delta[e].rows \in SUBSET Xid /\ delta'[e].from \in Nat /\ delta'[e].cursor \in Nat
  BY <1>0 DEF DeltaState
<1>2. ~ Reload
  BY <1>0, NoDeltaFields DEF Reload
<1>3. ASSUME delta'[e].from = delta[e].from, x <= delta[e].cursor
      PROVE  \/ x \in mem'
             \/ x <= delta'[e].from /\ fate'[x] # {}
             \/ /\ x > delta'[e].from
                /\ \/ \E i \in 1 .. Len(chain') :
                         /\ chain'[i].kind = "page" /\ chain'[i].by = e
                         /\ x \in chain'[i].rows
                   \/ "erased" \in fate'[x]
  <2>1. CASE x \in mem
    <3>1. x \in mem' \/ "erased" \in fate'[x]
      BY <1>0, <1>2, <2>1, MemKept
    <3> QED
      BY <1>0, <1>1, <3>1
  <2>2. CASE x <= delta[e].from /\ fate[x] # {}
    BY <1>0, <1>3, <2>2, FateKept
  <2>3. CASE x > delta[e].from /\ InPage(e, x)
    BY <1>0, <1>2, <1>3, <2>3, InPageKept
  <2>4. CASE x > delta[e].from /\ "erased" \in fate[x]
    BY <1>0, <1>3, <2>4, FateKept
  <2> QED
    BY <1>0, <1>3, <2>1, <2>2, <2>3, <2>4 DEF SpanAt
<1>4. CASE delta'[e] = delta[e]
  BY <1>3, <1>4
<1>5. CASE delta'[e].cursor = 0
  BY <1>0, <1>5
<1>6. CASE Fresh(delta'[e], memCursor')
  BY <1>6 DEF Fresh, HonestMem, Explained
<1>7. CASE ServeDelta(e)
  BY <1>0, <1>3, <1>7, ServeCases
<1>8. CASE ReceiveDelta(e) /\ delta[e].rows # {}
  <2> DEFINE c == Top(delta[e].rows, delta[e].cursor)
  <2>1. /\ delta[e].pc = "response" /\ delta'[e].from = delta[e].from /\ delta'[e].cursor = c
    BY <1>0, <1>8, ReceiveCases
  <2>2. c \in delta[e].rows \cup {delta[e].cursor} /\ c \in Nat
    BY <1>1, TopIsGreatest
  <2> HIDE DEF c
  <2>3. CASE x <= delta[e].cursor
    BY <1>3, <2>1, <2>3
  <2>4. CASE x > delta[e].cursor
    <3>1. c \in delta[e].rows
      BY <1>0, <1>1, <2>1, <2>2, <2>4
    <3>2. Settled(c) /\ \A z \in log : delta[e].cursor < z /\ z < c => z \in delta[e].rows
      BY <1>0, <2>1, <3>1 DEF PagedAt
    <3>3. x \in log
      BY <1>0, <2>1, <2>2, <3>2, SettledIsLogged
    <3>4. x \in delta[e].rows
      <4>1. x = c \/ x < c
        BY <1>0, <2>1, <2>2
      <4> QED
        BY <2>4, <3>1, <3>2, <3>3, <4>1
    <3>5. Appended(PageTask(e, delta[e].rows))
      BY <1>0, <1>8, AppendCases
    <3>6. /\ Len(chain) + 1 \in 1 .. Len(chain')
          /\ chain'[Len(chain) + 1] = PageTask(e, delta[e].rows)
      BY <3>5 DEF Appended
    <3>7. delta[e].from <= delta[e].cursor
      BY <1>0 DEF PagedAt
    <3> QED
      BY <1>0, <1>1, <2>1, <2>4, <3>4, <3>6, <3>7, TaskFields
  <2> QED
    BY <1>0, <1>1, <2>3, <2>4
<1>9. CASE FlushHead /\ PageDone(e) /\ delta[e].more
  BY <1>0, <1>3, <1>9, PageDoneCases
<1> QED
  BY <1>0, <1>4, <1>5, <1>6, <1>7, <1>8, <1>9, DeltaMoves

LEMMA InvInit == Init => Inv
<1> SUFFICES ASSUME Init PROVE Inv
  OBVIOUS
<1>1. Base /\ (\A d \in Delta : delta[d] = NoDelta)
  BY BaseInit DEF Init
<1>2. \A x \in Xid : ~ (x <= 0) /\ ~ (x < 1)
  BY DEF Xid
<1>3. Paged /\ Pages
  BY <1>1, NoDeltaFields DEF Init, Paged, PagedAt, Pages
<1>4. Begun /\ Snapshots
  BY <1>2, NoDeltaFields DEF Init, Begun, Snapshots
<1>5. Spans
  BY <1>1, <1>2, NoDeltaFields DEF Spans, SpanAt
<1>6. Kept /\ HonestMem /\ HonestHead /\ HonestDisk
  BY <1>2, Zenon DEF Init, Kept, HonestMem, HonestHead, HonestDisk, Explained
<1> QED
  BY <1>1, <1>3, <1>4, <1>5, <1>6 DEF Inv

LEMMA InvStep == Inv /\ [Next]_vars => Inv'
<1> SUFFICES ASSUME Inv, [Next]_vars PROVE Inv'
  OBVIOUS
<1>1. Base /\ Types /\ Paged /\ Begun /\ Pages /\ Snapshots
  BY DEF Inv, Base
<1>2. Base' /\ Paged' /\ Begun' /\ Pages' /\ Snapshots'
  BY <1>1, BaseStep, PagedStep, BegunStep, PagesStep, SnapshotsStep
<1>3. HonestMem'
  BY HonestMemStep
<1>4. Spans' /\ Kept' /\ HonestHead' /\ HonestDisk'
  BY <1>3, SpansStep, KeptStep, HonestHeadStep, HonestDiskStep
<1> QED
  BY <1>2, <1>3, <1>4 DEF Inv

LEMMA InvAlways == Spec => []Inv
BY InvInit, InvStep, PTL DEF Spec

(***************************************************************************)
(* DeltaCoversItsSpan: no delta pages past a committed row, whatever the   *)
(* overlap of transactions, live frames, other deltas, reloads, failed     *)
(* requests and Dexie transactions, and lost publishes; only the load of a *)
(* snapshot takes a row it has paged over out of memory again.             *)
(***************************************************************************)
THEOREM DeltasSkipNothing == Spec => []DeltaCoversItsSpan
<1>1. Inv => DeltaCoversItsSpan
  <2> SUFFICES ASSUME Inv, NEW d \in Delta, NEW x \in log,
                      delta[d].from < x, x <= delta[d].cursor
               PROVE  x \in mem \cup Arriving(d) \/ "erased" \in fate[x]
    BY DEF DeltaCoversItsSpan
  <2>1. Types /\ SpanAt(d) /\ x \in Xid
    BY DEF Inv, Base, Types, Spans
  <2>2. x \in Nat /\ delta[d].from \in Nat
    BY <2>1 DEF Types, DeltaState, Xid
  <2>3. x \in mem \/ InPage(d, x) \/ "erased" \in fate[x]
    BY <2>1, <2>2 DEF SpanAt
  <2>4. ASSUME NEW i \in 1 .. Len(chain), chain[i].by = d, x \in chain[i].rows
        PROVE  x \in Arriving(d)
    <3>1. chain[i] \in ToSet(chain)
      BY <2>1, <2>4 DEF Types, ToSet
    <3> QED
      BY <2>4, <3>1 DEF Arriving
  <2> QED
    BY <2>3, <2>4 DEF InPage
<1> QED
  BY <1>1, InvAlways, PTL

(***************************************************************************)
(* CursorsAreHonest: a cursor, in memory or in IndexedDB, is ahead of a    *)
(* committed row that is not there only if a live frame has jumped over    *)
(* the row, a snapshot has erased it, or its own Dexie transaction has     *)
(* failed.                                                                 *)
(***************************************************************************)
THEOREM CursorsStayHonest == Spec => []CursorsAreHonest
<1>1. Inv => CursorsAreHonest
  BY DEF Inv, Base, Types, HonestMem, HonestDisk, Explained, CursorsAreHonest
<1> QED
  BY <1>1, InvAlways, PTL

-----------------------------------------------------------------------------
\* What is missing ahead of the cursor

\* A delta in state t will still bring row x.
Brings(t, x) == (x > t.cursor /\ (t.pc = "request" \/ t.more)) \/ x \in t.rows

\* A socket is to be opened, a bootstrap is to end, or a follow-up is to run.
Promised == followUp \/ boot.pc # "idle" \/ link = "down"

\* After the step the row is promised, on its way, or within the reach of a delta,
\* or the step has given it up.
StillAwaited(x) ==
    \/ Promised'
    \/ x \in unpublished'
    \/ \E i \in 1 .. Len(wire') : wire'[i] = x
    \/ \E i \in 1 .. Len(chain') : x \in chain'[i].rows
    \/ \E d \in Delta : Brings(delta'[d], x)
    \/ GivenUp(x)

\* Every use of one of these bounds gives up what was awaited.
LEMMA UseGivesUp ==
    ASSUME Types, NEW x,
           Use("lost") \/ Use("unheard") \/ Use("hasty") \/ Use("deltaError") \/ Use("flushError")
    PROVE  GivenUp(x)
<1> DEFINE B == {"lost", "unheard", "hasty", "deltaError", "flushError"}
<1>1. PICK b \in B : Use(b)
  OBVIOUS
<1>2. b \in Bound
  BY DEF Bound
<1>3. used[b] \in Nat /\ used'[b] = used[b] + 1
  BY <1>1, <1>2 DEF Use, Types
<1>4. used'[b] > used[b]
  BY <1>3
<1> QED
  BY <1>4 DEF GivenUp

\* A delta that is called starts at the cursor, unless another one swallows the call.
LEMMA CallBrings ==
    ASSUME Types, CallDelta, ~ isDeltaSyncing, NEW x \in Xid, x > memCursor
    PROVE  \E d \in Delta : Brings(delta'[d], x)
BY CallDeltaCases DEF Fresh, Brings

\* A promise is kept, renewed, or made good by the follow-up.
LEMMA PromiseKept ==
    ASSUME Base, [Next]_vars, Promised PROVE Promised' \/ FollowUp
<1> SUFFICES ASSUME ~ FollowUp PROVE followUp' \/ boot'.pc # "idle" \/ link' = "down"
  BY DEF Promised
<1> DEFINE G == followUp' \/ boot'.pc # "idle" \/ link' = "down"
<1> SUFFICES G
  OBVIOUS
<1>0. Types /\ Types' /\ Idle' /\ [NoBoot EXCEPT !.pc = "request"].pc = "request"
  BY BaseStep DEF Base, NoBoot
<1>1. CASE UNCHANGED <<followUp, boot, link>>
  BY <1>1 DEF Promised
<1>2. CASE BootOver
  BY <1>2 DEF BootOver
<1>3. CASE CallBoot /\ link' = link
  <2>1. CASE boot.pc = "idle"
    BY <1>0, <1>3, <2>1 DEF CallBoot
  <2>2. CASE boot.pc # "idle"
    BY <1>3, <2>2 DEF CallBoot
  <2> QED
    BY <2>1, <2>2
<1>4. CASE Server
  BY <1>1, <1>4 DEF Server, BeginWrite, CommitWrite, Publish, LosePublish, linkVars
<1>5. ASSUME NEW d \in Delta, DeltaStep(d) PROVE G
  BY <1>1, <1>3, <1>5 DEF DeltaStep, ServeDelta, ReceiveDelta, DeltaError, FallBack, linkVars
<1>6. CASE BootCursor \/ BootRead \/ BootReceive
  <2>1. boot'.pc \in {"reading", "response", "loading"}
    BY <1>0, <1>6 DEF BootCursor, BootRead, BootReceive, Types, BootState
  <2> QED
    BY <2>1
<1>7. CASE BootFails \/ Reboot
  BY <1>2, <1>3, <1>7 DEF BootFails, Reboot, linkVars
<1>8. CASE ChainStep
  BY <1>1, <1>2, <1>8 DEF ChainStep, ApplyHead, FlushHead, FlushFails, LoadBoot, LoadFails, linkVars
<1>9. CASE Start \/ Reload
  <2>1. phase' # "running"
    BY <1>9 DEF Start, Reload
  <2> QED
    BY <1>0, <2>1 DEF Idle
<1>10. CASE Connect \/ Disconnect
  BY <1>10 DEF Connect, Disconnect
<1>11. CASE EndStart \/ Receive \/ Hint
  BY <1>1, <1>11 DEF EndStart, Receive, Hint, linkVars
<1>12. CASE Register
  BY <1>12 DEF Register, Promised
<1>13. CASE UNCHANGED vars
  BY <1>1, <1>13 DEF vars, linkVars
<1> HIDE DEF G
<1> QED
  BY <1>4, <1>5, <1>6, <1>7, <1>8, <1>9, <1>10, <1>11, <1>12, <1>13
  DEF Next, ChainStep

\* A follow-up brings what is ahead of the cursor.
LEMMA FollowUpBrings ==
    ASSUME Types, FollowUp, NEW x \in Xid, x > memCursor'
    PROVE  StillAwaited(x)
<1>1. memCursor' = memCursor /\ CallDelta /\ Count("hasty", isDeltaSyncing)
  BY DEF FollowUp, memVars
<1>2. CASE isDeltaSyncing
  BY <1>1, <1>2, UseGivesUp DEF Count, StillAwaited
<1>3. CASE ~ isDeltaSyncing
  BY <1>1, <1>3, CallBrings DEF StillAwaited
<1> QED
  BY <1>2, <1>3

\* What has just been committed is still to be published.
LEMMA NewIsUnpublished ==
    ASSUME [Next]_vars, NEW x \in log', x \notin log PROVE x \in unpublished'
<1>1. CASE Server
  BY <1>1 DEF Server, BeginWrite, CommitWrite, Publish, LosePublish
<1>2. ASSUME NEW d \in Delta, DeltaStep(d) PROVE log' = log
  BY <1>2 DEF DeltaStep, ServeDelta, ReceiveDelta, DeltaError, FallBack, serverVars
<1>3. CASE BootStep
  BY <1>3 DEF BootStep, BootCursor, BootRead, BootReceive, BootFails, Reboot, serverVars
<1>4. CASE ChainStep
  BY <1>4 DEF ChainStep, ApplyHead, FlushHead, FlushFails, LoadBoot, LoadFails, serverVars
<1>5. CASE TabStep
  BY <1>5 DEF TabStep, Start, EndStart, Reload, Connect, Register, Disconnect, Receive,
              Hint, FollowUp, serverVars
<1>6. CASE UNCHANGED vars
  BY <1>6 DEF vars, serverVars
<1> QED
  BY <1>1, <1>2, <1>3, <1>4, <1>5, <1>6 DEF Next, BootStep, ChainStep, TabStep

\* A row leaves memory, or falls ahead of the cursor, with a load or with the page.
LEMMA LossIsPromised ==
    ASSUME Base, [Next]_vars, NEW x \in Xid, x \notin mem', x > memCursor',
           x \in mem \/ x <= memCursor
    PROVE  Promised'
<1>0. Types /\ Idle /\ Idle' /\ x \in Nat /\ x > 0 /\ memCursor \in Nat
  <2>1. Types /\ Idle /\ Idle'
    BY BaseStep DEF Base
  <2> QED
    BY <2>1 DEF Types, Xid
<1>1. CASE Reload \/ Start
  <2>1. phase' # "running"
    BY <1>1 DEF Start, Reload
  <2> QED
    BY <1>0, <2>1 DEF Idle, Promised
<1>2. CASE LoadBoot \/ LoadFails
  BY <1>2 DEF LoadBoot, LoadFails, BootOver, Promised
<1>3. CASE x \in mem /\ ~ Reload /\ ~ Start /\ ~ LoadBoot /\ ~ LoadFails
  BY <1>3, TasksKept
<1>4. CASE x <= memCursor /\ ~ Reload /\ ~ LoadBoot
  <2>1. memCursor' < memCursor
    <3>1. memCursor' \in Nat
      BY <1>0, TypesStep DEF Types
    <3> QED
      BY <1>0, <1>4, <3>1
  <2>2. \/ phase' = "closed"
        \/ chain # <<>> /\ Head(chain).kind = "boot"
    BY <2>1, CursorStep
  <2>3. CASE phase' = "closed"
    BY <1>0, <2>3 DEF Idle, Promised
  <2>4. CASE chain # <<>> /\ Head(chain).kind = "boot"
    <3>1. chain[1].kind = "boot"
      BY <1>0, <2>4, TailIsRest DEF Types
    <3>2. ~ ApplyHead /\ ~ Start
      BY <1>0, <2>4 DEF ApplyHead, Start, Idle
    <3>3. PICK d \in Delta : ReceiveDelta(d)
      <4>1. \/ memCursor' = memCursor \/ ApplyHead \/ LoadBoot \/ Reload \/ Start
            \/ \E d \in Delta : ReceiveDelta(d) \/ chain[1].kind = "page"
        BY CursorMoves
      <4>2. memCursor' # memCursor
        BY <1>0, <2>1
      <4> QED
        BY <1>4, <3>1, <3>2, <4>1, <4>2
    <3>4. \/ memCursor' = memCursor
          \/ memCursor' = IF delta[d].cursor > memCursor THEN delta[d].cursor ELSE memCursor
      BY <1>0, <3>3, ReceiveCases
    <3>5. delta[d].cursor \in Nat
      BY <1>0 DEF Types, DeltaState
    <3> QED
      BY <1>0, <2>1, <3>4, <3>5
  <2> QED
    BY <2>2, <2>3, <2>4
<1> QED
  BY <1>1, <1>2, <1>3, <1>4

\* A row on its way stays there until it is in memory, lost, or promised.
LEMMA WayKept ==
    ASSUME Base, [Next]_vars, NEW x \in Xid, x \notin mem',
           \/ x \in unpublished
           \/ \E i \in 1 .. Len(wire) : wire[i] = x
           \/ \E i \in 1 .. Len(chain) : x \in chain[i].rows
    PROVE  StillAwaited(x)
<1>0. Types /\ Idle /\ Idle' /\ wire \in Seq(Xid) /\ Len(wire) \in Nat
  <2>1. Types /\ Idle /\ Idle'
    BY BaseStep DEF Base
  <2> QED
    BY <2>1 DEF Types
<1>1. ASSUME NEW i \in 1 .. Len(chain), x \in chain[i].rows PROVE StillAwaited(x)
  <2>1. CASE Reload \/ Start
    <3>1. phase' # "running"
      BY <2>1 DEF Start, Reload
    <3> QED
      BY <1>0, <3>1 DEF Idle, StillAwaited, Promised
  <2>2. CASE LoadBoot
    BY <2>2 DEF LoadBoot, BootOver, StillAwaited, Promised
  <2>3. CASE LoadFails
    BY <2>3 DEF LoadFails, BootOver, StillAwaited, Promised
  <2>4. CASE ~ Reload /\ ~ Start /\ ~ LoadBoot /\ ~ LoadFails
    BY <1>1, <2>4, TasksKept DEF StillAwaited
  <2> QED
    BY <2>1, <2>2, <2>3, <2>4
<1>2. ASSUME NEW i \in 1 .. Len(wire), wire[i] = x PROVE StillAwaited(x)
  <2>1. CASE Receive
    <3>1. CASE i = 1
      <4>1. Appended(LiveTask(x))
        BY <1>0, <1>2, <2>1, <3>1, AppendCases
      <4>2. Len(chain) + 1 \in 1 .. Len(chain') /\ x \in chain'[Len(chain) + 1].rows
        BY <4>1, TaskFields DEF Appended
      <4> QED
        BY <4>2 DEF StillAwaited
    <3>2. CASE i # 1
      <4>1. /\ Len(wire') = Len(wire) - 1
            /\ \A j \in 1 .. Len(wire') : wire'[j] = wire[j + 1]
        BY <1>0, <2>1, AppendCases
      <4>2. i - 1 \in 1 .. Len(wire') /\ (i - 1) + 1 = i
        BY <1>0, <3>2, <4>1
      <4>3. wire'[i - 1] = x
        BY <1>2, <4>1, <4>2
      <4> QED
        BY <4>2, <4>3 DEF StillAwaited
    <3> QED
      BY <3>1, <3>2
  <2>2. CASE Reload \/ Disconnect
    BY <2>2 DEF Reload, Disconnect, StillAwaited, Promised
  <2>3. ASSUME NEW y \in Xid, Publish(y) PROVE StillAwaited(x)
    <3>1. wire' = wire \/ wire' = Append(wire, y)
      BY <2>3 DEF Publish
    <3>2. i \in 1 .. Len(wire') /\ wire'[i] = wire[i]
      BY <1>0, <3>1, AppendIsLast
    <3> QED
      BY <1>2, <3>2 DEF StillAwaited
  <2>4. CASE UNCHANGED wire
    BY <1>2, <2>4 DEF StillAwaited
  <2>5. CASE Server
    BY <2>3, <2>4, <2>5 DEF Server, BeginWrite, CommitWrite, LosePublish, linkVars
  <2>6. ASSUME NEW d \in Delta, DeltaStep(d) PROVE UNCHANGED wire
    BY <2>6 DEF DeltaStep, ServeDelta, ReceiveDelta, DeltaError, FallBack, linkVars
  <2>7. CASE BootStep
    BY <2>4, <2>7 DEF BootStep, BootCursor, BootRead, BootReceive, BootFails, Reboot, linkVars
  <2>8. CASE ChainStep
    BY <2>4, <2>8 DEF ChainStep, ApplyHead, FlushHead, FlushFails, LoadBoot, LoadFails, linkVars
  <2>9. CASE Start \/ EndStart \/ Connect \/ Register \/ Hint \/ FollowUp
    BY <2>4, <2>9 DEF Start, EndStart, Connect, Register, Hint, FollowUp, linkVars
  <2>10. CASE UNCHANGED vars
    BY <2>4, <2>10 DEF vars, linkVars
  <2> QED
    BY <2>1, <2>2, <2>4, <2>5, <2>6, <2>7, <2>8, <2>9, <2>10 DEF Next, BootStep, ChainStep
<1>3. CASE x \in unpublished
  <2>1. CASE Publish(x)
    <3>1. CASE link = "live"
      <4>1. wire' = Append(wire, x)
        BY <2>1, <3>1 DEF Publish
      <4>2. Len(wire) + 1 \in 1 .. Len(wire') /\ wire'[Len(wire) + 1] = x
        BY <1>0, <4>1, AppendIsLast
      <4> QED
        BY <4>2 DEF StillAwaited
    <3>2. CASE link = "open"
      <4>1. Use("unheard")
        BY <2>1, <3>2 DEF Publish, Count
      <4> QED
        BY <1>0, <4>1, UseGivesUp DEF StillAwaited
    <3>3. CASE link = "down"
      BY <2>1, <3>3 DEF Publish, StillAwaited, Promised
    <3> QED
      BY <1>0, <3>1, <3>2, <3>3 DEF Types
  <2>2. CASE LosePublish(x)
    BY <1>0, <2>2, UseGivesUp DEF LosePublish, StillAwaited
  <2>3. CASE x \in unpublished'
    BY <2>3 DEF StillAwaited
  <2>4. CASE Server /\ ~ Publish(x) /\ ~ LosePublish(x)
    BY <1>3, <2>3, <2>4 DEF Server, BeginWrite, CommitWrite, Publish, LosePublish
  <2>5. ASSUME NEW d \in Delta, DeltaStep(d) PROVE UNCHANGED unpublished
    BY <2>5 DEF DeltaStep, ServeDelta, ReceiveDelta, DeltaError, FallBack, serverVars
  <2>6. CASE BootStep
    BY <1>3, <2>3, <2>6
    DEF BootStep, BootCursor, BootRead, BootReceive, BootFails, Reboot, serverVars
  <2>7. CASE ChainStep
    BY <1>3, <2>3, <2>7
    DEF ChainStep, ApplyHead, FlushHead, FlushFails, LoadBoot, LoadFails, serverVars
  <2>8. CASE TabStep
    BY <1>3, <2>3, <2>8
    DEF TabStep, Start, EndStart, Reload, Connect, Register, Disconnect, Receive, Hint, FollowUp,
        serverVars
  <2>9. CASE UNCHANGED vars
    BY <1>3, <2>3, <2>9 DEF vars, serverVars
  <2> QED
    BY <1>3, <2>1, <2>2, <2>3, <2>4, <2>5, <2>6, <2>7, <2>8, <2>9
    DEF Next, BootStep, ChainStep, TabStep
<1> QED
  BY <1>1, <1>2, <1>3

\* A row within the reach of a delta stays there until it is on its way.
LEMMA ReachKept ==
    ASSUME Inv, [Next]_vars, NEW x \in log, x \notin mem', NEW d \in Delta, Brings(delta[d], x)
    PROVE  StillAwaited(x)
<1>0. /\ Base /\ Types /\ Idle /\ Chained /\ Pages /\ PagedAt(d) /\ x \in Xid /\ x \in Nat
      /\ delta[d] \in DeltaState
  <2>1. Base /\ Types /\ Idle /\ Chained /\ Pages /\ Paged
    BY DEF Inv, Base
  <2> QED
    BY <2>1 DEF Types, Paged, Xid
<1>1. /\ delta[d].cursor \in Nat /\ delta[d].cursor \in 0 .. MaxXid
      /\ delta[d].rows \in SUBSET Xid /\ delta[d].more \in BOOLEAN
  BY <1>0 DEF DeltaState
<1>2. delta[d].pc # "idle"
  BY <1>0, <1>1, NoDeltaFields DEF Idle, Brings
<1>3. CASE delta'[d] = delta[d]
  BY <1>3 DEF StillAwaited
<1>4. CASE ServeDelta(d)
  <2> DEFINE c == delta[d].cursor
             rest == {y \in log : Settled(y) /\ y > c}
  <2>1. /\ delta[d].pc = "request" /\ delta'[d].cursor = c /\ delta'[d].rows = DeltaPage(c)
        /\ delta'[d].more = (rest # DeltaPage(c))
    BY <1>0, <1>4, ServeCases
  <2>2. delta[d].rows = {}
    BY <1>0, <2>1 DEF Pages
  <2>3. x > c
    BY <2>2 DEF Brings
  <2>4. CASE x \in DeltaPage(c)
    BY <2>1, <2>4 DEF StillAwaited, Brings
  <2>5. CASE x \notin DeltaPage(c) /\ delta'[d].more
    BY <2>1, <2>3, <2>5 DEF StillAwaited, Brings
  <2>6. CASE x \notin DeltaPage(c) /\ ~ delta'[d].more
    <3>1. x \notin rest
      BY <2>1, <2>6
    <3>2. ~ Settled(x)
      BY <2>3, <3>1
    <3> QED
      BY <1>4, <2>6, <3>2 DEF StillAwaited, GivenUp
  <2> QED
    BY <2>4, <2>5, <2>6
<1>5. CASE ReceiveDelta(d)
  <2> DEFINE c == Top(delta[d].rows, delta[d].cursor)
  <2>1. delta[d].pc = "response" /\ delta[d].rows # {}
    BY <1>0, <1>1, <1>5, ReceiveCases DEF Brings, Pages
  <2>2. /\ delta'[d].cursor = c /\ delta'[d].rows = delta[d].rows
        /\ delta'[d].more = delta[d].more
    BY <1>0, <1>5, <2>1, ReceiveCases
  <2>3. c \in delta[d].rows \cup {delta[d].cursor} /\ c \in Nat
    BY <1>1, TopIsGreatest
  <2> HIDE DEF c
  <2>4. CASE x \in delta[d].rows
    BY <2>2, <2>4 DEF StillAwaited, Brings
  <2>5. CASE x \notin delta[d].rows
    <3>1. x > delta[d].cursor /\ delta[d].more
      BY <2>1, <2>5 DEF Brings
    <3>2. x > c
      <4>1. CASE c = delta[d].cursor
        BY <3>1, <4>1
      <4>2. CASE c \in delta[d].rows
        <5>1. ~ (x < c) /\ x # c
          BY <1>0, <2>1, <2>5, <3>1, <4>2 DEF PagedAt
        <5> QED
          BY <1>0, <2>3, <5>1
      <4> QED
        BY <2>3, <4>1, <4>2
    <3> QED
      BY <2>2, <3>1, <3>2 DEF StillAwaited, Brings
  <2> QED
    BY <2>4, <2>5
<1>6. CASE DeltaError(d) \/ FlushFails
  BY <1>0, <1>6, UseGivesUp DEF DeltaError, FlushFails, StillAwaited
<1>7. CASE FallBack(d)
  <2>1. CASE boot.pc = "idle"
    <3>1. boot'.pc = "request"
      BY <1>7, <2>1 DEF FallBack, CallBoot, NoBoot
    <3> QED
      BY <3>1 DEF StillAwaited, Promised
  <2>2. CASE boot.pc # "idle"
    BY <1>7, <2>2 DEF FallBack, CallBoot, StillAwaited, Promised
  <2> QED
    BY <2>1, <2>2
<1>8. CASE BootFails \/ LoadBoot \/ LoadFails
  BY <1>8 DEF BootFails, LoadBoot, LoadFails, BootOver, StillAwaited, Promised
<1>9. CASE FlushHead /\ chain[1].kind = "page" /\ chain[1].by = d
  <2>1. /\ Head(chain) = chain[1] /\ chain[1].rows \subseteq mem /\ mem' = mem
        /\ 1 \in 1 .. Len(chain)
    BY <1>0, <1>9, FlushCases, ShiftCases DEF Shifted
  <2>2. PageDone(d) /\ chain[1].rows = delta[d].rows /\ delta[d].pc = "applying"
    BY <1>0, <1>9, <2>1 DEF FlushHead, Pages, Chained
  <2>3. x > delta[d].cursor /\ delta[d].more
    BY <2>1, <2>2 DEF Brings
  <2>4. delta'[d].pc = "request" /\ delta'[d].cursor = delta[d].cursor
    BY <1>0, <2>2, <2>3, PageDoneCases
  <2> QED
    BY <2>3, <2>4 DEF StillAwaited, Brings
<1>10. CASE FlushHead /\ ~ (chain[1].kind = "page" /\ chain[1].by = d)
  <2>1. Head(chain) = chain[1] /\ chain[1] \in Task
    BY <1>0, <1>10, ShiftCases
  <2>2. CASE chain[1].kind = "page"
    <3>1. PageDone(chain[1].by) /\ chain[1].by \in Delta
      BY <1>10, <2>1, <2>2 DEF FlushHead, Task
    <3> QED
      BY <1>0, <1>3, <1>10, <2>2, <3>1, PageDoneCases
  <2>3. CASE chain[1].kind # "page"
    BY <1>3, <1>10, <2>1, <2>3 DEF FlushHead, deltaVars
  <2> QED
    BY <2>2, <2>3
<1>11. CASE Reload
  BY <1>11 DEF Reload, StillAwaited, Promised
<1>12. CASE Start
  BY <1>0, <1>2, <1>12 DEF Start, Idle
<1>13. ASSUME CallDelta PROVE StillAwaited(x)
  BY <1>0, <1>2, <1>3, <1>13, CallDeltaCases
<1>14. CASE Connect \/ Hint \/ FollowUp
  BY <1>13, <1>14 DEF Connect, Hint, FollowUp
<1>15. CASE Server \/ EndStart \/ Register \/ Disconnect \/ Receive
  BY <1>3, <1>15
  DEF Server, BeginWrite, CommitWrite, Publish, LosePublish, EndStart, Register, Disconnect,
      Receive, deltaVars
<1>16. ASSUME NEW e \in Delta, e # d, DeltaStep(e) PROVE StillAwaited(x)
  <2>1. CASE ServeDelta(e) \/ ReceiveDelta(e)
    BY <1>0, <1>3, <1>16, <2>1, ServeCases, ReceiveCases
  <2>2. CASE DeltaError(e) \/ FallBack(e)
    BY <1>0, <1>3, <1>16, <2>2 DEF DeltaError, FallBack, Types
  <2> QED
    BY <1>16, <2>1, <2>2 DEF DeltaStep
<1>17. CASE DeltaStep(d)
  BY <1>4, <1>5, <1>6, <1>7, <1>17 DEF DeltaStep
<1>18. CASE BootCursor \/ BootRead \/ BootReceive \/ Reboot \/ ApplyHead
  BY <1>3, <1>18 DEF BootCursor, BootRead, BootReceive, Reboot, ApplyHead, deltaVars
<1>19. CASE UNCHANGED vars
  BY <1>3, <1>19 DEF vars, deltaVars
<1> QED
  BY <1>6, <1>8, <1>9, <1>10, <1>11, <1>12, <1>14, <1>15, <1>16, <1>17, <1>18, <1>19
  DEF Next

\* The two ways to say that a row is awaited.
LEMMA AwaitedForms ==
    ASSUME Types, NEW x, Awaited(x)
    PROVE  \/ Promised
           \/ x \in unpublished
           \/ \E i \in 1 .. Len(wire) : wire[i] = x
           \/ \E i \in 1 .. Len(chain) : x \in chain[i].rows
           \/ \E d \in Delta : Brings(delta[d], x)
<1>1. DOMAIN wire = 1 .. Len(wire) /\ DOMAIN chain = 1 .. Len(chain)
  BY DEF Types
<1> QED
  BY <1>1 DEF Awaited, OnItsWay, InReach, Brings, Promised, ToSet

LEMMA StillAwaitedForms ==
    ASSUME Types', NEW x, StillAwaited(x)
    PROVE  Awaited(x)' \/ GivenUp(x)
<1>1. DOMAIN wire' = 1 .. Len(wire') /\ DOMAIN chain' = 1 .. Len(chain')
  BY DEF Types
<1>2. \A i \in 1 .. Len(wire') : wire'[i] \in ToSet(wire')
  BY <1>1 DEF ToSet
<1>3. \A i \in 1 .. Len(chain') : chain'[i] \in ToSet(chain')
  BY <1>1 DEF ToSet
<1>4. ASSUME NEW i \in 1 .. Len(chain'), x \in chain'[i].rows
      PROVE  x \in UNION {t.rows : t \in ToSet(chain')}
  BY <1>3, <1>4
<1> QED
  BY <1>2, <1>4 DEF StillAwaited, Awaited, OnItsWay, InReach, Brings, Promised

(***************************************************************************)
(* MissingIsAwaited: in every tab, whatever overlaps, is lost or fails, a  *)
(* missing row ahead of the cursor stays awaited until a step gives it up. *)
(***************************************************************************)
THEOREM MissesStayAwaited == Spec => MissingIsAwaited
<1>1. ASSUME Inv, [Next]_vars, NEW x \in log' \ mem', x > memCursor',
             x \in log \ mem /\ x > memCursor => Awaited(x)
      PROVE  Awaited(x)' \/ GivenUp(x)
  <2>0. Base /\ Types /\ Types' /\ x \in Xid /\ memCursor \in Nat
    <3>1. Base /\ Types /\ Types'
      BY <1>1, TypesStep DEF Inv, Base
    <3> QED
      BY <3>1 DEF Types
  <2>1. CASE x \notin log
    <3>1. x \in unpublished'
      BY <1>1, <2>0, <2>1, NewIsUnpublished
    <3> QED
      BY <2>0, <3>1, StillAwaitedForms DEF StillAwaited
  <2>2. CASE x \in mem \/ x <= memCursor
    <3>1. Promised'
      BY <1>1, <2>0, <2>2, LossIsPromised
    <3> QED
      BY <2>0, <3>1, StillAwaitedForms DEF StillAwaited
  <2>3. CASE x \in log /\ x \notin mem /\ ~ (x <= memCursor)
    <3>1. x > memCursor
      BY <2>0, <2>3 DEF Xid
    <3>2. Awaited(x)
      BY <1>1, <2>3, <3>1
    <3>3. CASE Promised
      <4>1. Promised' \/ FollowUp
        BY <1>1, <2>0, <3>3, PromiseKept
      <4>2. StillAwaited(x)
        BY <1>1, <2>0, <4>1, FollowUpBrings DEF StillAwaited
      <4> QED
        BY <2>0, <4>2, StillAwaitedForms
    <3>4. CASE \/ x \in unpublished
               \/ \E i \in 1 .. Len(wire) : wire[i] = x
               \/ \E i \in 1 .. Len(chain) : x \in chain[i].rows
      BY <1>1, <2>0, <3>4, WayKept, StillAwaitedForms
    <3>5. ASSUME NEW d \in Delta, Brings(delta[d], x) PROVE Awaited(x)' \/ GivenUp(x)
      BY <1>1, <2>0, <2>3, <3>5, ReachKept, StillAwaitedForms
    <3> QED
      BY <2>0, <3>2, <3>3, <3>4, <3>5, AwaitedForms
  <2> QED
    BY <2>1, <2>2, <2>3
<1>2. Inv /\ [Next]_vars =>
         [\A x \in log' \ mem' :
             /\ x > memCursor'
             /\ x \in log \ mem /\ x > memCursor => Awaited(x)
             => Awaited(x)' \/ GivenUp(x)]_vars
  BY <1>1
<1> QED
  BY <1>2, InvAlways, PTL DEF Spec, MissingIsAwaited

=============================================================================
