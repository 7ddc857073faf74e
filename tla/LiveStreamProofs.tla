--------------------------- MODULE LiveStreamProofs ---------------------------
(***************************************************************************)
(* Proofs about LiveStream, for any set of sockets and all bounds.         *)
(*                                                                         *)
(* The subscription lock is what the argument is about.  AckedMeansSub-    *)
(* scribed is not inductive: a release that has already cleared the mark   *)
(* must not overlap an acknowledged socket (LockInv's ReleasePhase), and   *)
(* the socket an ensure task acknowledges must still be registered, which  *)
(* holds because its close listener is not attached yet (EnsurePhase) and  *)
(* it has one task in the queue only (OneEnsure).                          *)
(*                                                                         *)
(* StreamComplete follows a row an acknowledged socket waits for: it is in *)
(* the buffer, or in a batch that is being filtered, or Redis is down      *)
(* (OnItsWay) and its return sends the hint (Disrupted).                   *)
(***************************************************************************)
EXTENDS LiveStream, TLAPS

-----------------------------------------------------------------------------
\* Every queued ensure belongs to a registered socket nobody listens to yet.
EnsurePhase ==
    \A i \in 1 .. Len(lock) : lock[i].kind = "ensure" =>
        handler[lock[i].conn] = "registered" /\ lock[i].conn \in clients

\* No socket has two ensure tasks.
OneEnsure ==
    \A i, j \in 1 .. Len(lock) :
        lock[i].kind = "ensure" /\ lock[j].kind = "ensure" /\ lock[i].conn = lock[j].conn
            => i = j

\* While a release awaits Redis the mark is cleared and the channel still held.
ReleasePhase ==
    busy => lock # <<>> /\ ~ subscribed /\ (lock[1].kind = "release" => channel)

\* The handler of a socket that has not opened has not run.
Fresh == \A c \in Conn : sock[c] = "none" => handler[c] = "none"

\* AckedMeansSubscribed without its hypothesis on rejected SUBSCRIBEs.
AckedSafe == \A c \in Conn : Acked(c) => c \in clients /\ subscribed /\ channel

LockInv ==
    /\ ControlOK
    /\ Fresh
    /\ EnsurePhase
    /\ OneEnsure
    /\ ReleasePhase
    /\ subscribed => channel
    /\ AckedSafe

-----------------------------------------------------------------------------
\* A task of the lock is a release, or the ensure of some connection.
LEMMA TaskKinds ==
    ASSUME NEW t \in Task
    PROVE  \/ t.kind = "ensure" /\ t.conn \in Conn /\ t = Ensure(t.conn)
           \/ t.kind = "release"
BY DEF Task, Ensure, Release

\* Appending to, and taking the head off, the queue.
LEMMA AppendTask ==
    ASSUME NEW s \in Seq(Task), NEW t \in Task
    PROVE  /\ Append(s, t) \in Seq(Task)
           /\ Append(s, t) # <<>>
           /\ Len(Append(s, t)) = Len(s) + 1
           /\ \A i \in 1 .. Len(s) : Append(s, t)[i] = s[i]
           /\ Append(s, t)[Len(s) + 1] = t
OBVIOUS

\* The queue after its head is done: shorter by one, the rest moved up.
LEMMA TailTask ==
    ASSUME NEW s \in Seq(Task), s # <<>>
    PROVE  /\ Tail(s) \in Seq(Task)
           /\ Head(s) = s[1]
           /\ Head(s) \in Task
           /\ Len(s) \in Nat /\ Len(s) >= 1
           /\ Len(Tail(s)) = Len(s) - 1
           /\ \A i \in 1 .. Len(Tail(s)) : Tail(s)[i] = s[i + 1]
OBVIOUS

-----------------------------------------------------------------------------
\* No socket, no task: the invariant holds at the start.
LEMMA InitLock == Init => LockInv
<1> SUFFICES ASSUME Init PROVE LockInv
  OBVIOUS
<1> USE DEF Init
<1>1. ControlOK /\ Fresh
  <2>1. <<>> \in Seq(Task)
    OBVIOUS
  <2>2. /\ handler \in [Conn -> {"none", "scoping", "registered", "serving", "ended"}]
        /\ sock \in [Conn -> {"none", "open", "closing", "closed"}]
    OBVIOUS
  <2> QED
    BY <2>1, <2>2 DEF ControlOK, Fresh
<1>2. EnsurePhase /\ OneEnsure /\ ReleasePhase
  BY DEF EnsurePhase, OneEnsure, ReleasePhase
<1>3. AckedSafe
  BY DEF AckedSafe, Acked
<1> QED
  BY <1>1, <1>2, <1>3 DEF LockInv

(***************************************************************************)
(* The end of an ensure task, with the channel held and marked: the next   *)
(* state satisfies the invariant.                                          *)
(***************************************************************************)
LEMMA EnsureEnds ==
    ASSUME LockInv, lock # <<>>, Head(lock).kind = "ensure",
           Done, Acknowledge(Head(lock).conn),
           subscribed' = TRUE, channel' = TRUE,
           UNCHANGED <<sock, clients>>
    PROVE  LockInv'
<1> USE DEF LockInv, ControlOK
<1> DEFINE c0 == Head(lock).conn
<1>1. /\ lock \in Seq(Task) /\ Tail(lock) \in Seq(Task)
      /\ Head(lock) = lock[1] /\ Head(lock) \in Task
      /\ Len(lock) \in Nat /\ Len(lock) >= 1
      /\ Len(Tail(lock)) = Len(lock) - 1
      /\ \A i \in 1 .. Len(Tail(lock)) : Tail(lock)[i] = lock[i + 1]
  BY TailTask
<1>2. c0 \in Conn /\ handler[c0] = "registered" /\ c0 \in clients
  BY <1>1, TaskKinds DEF EnsurePhase
<1>3. lock' = Tail(lock) /\ busy' = FALSE /\ handler' = [handler EXCEPT ![c0] = "serving"]
  BY DEF Done, Acknowledge
<1>4. ControlOK' /\ Fresh'
  BY <1>1, <1>2, <1>3 DEF Fresh
<1>5. \A i \in 1 .. Len(lock') :
        lock'[i].kind = "ensure" => lock'[i].conn # c0 /\ i + 1 \in 1 .. Len(lock)
  BY <1>1, <1>3 DEF OneEnsure
<1>6. EnsurePhase'
  <2> SUFFICES ASSUME NEW i \in 1 .. Len(lock'), lock'[i].kind = "ensure"
               PROVE  handler'[lock'[i].conn] = "registered" /\ lock'[i].conn \in clients'
    BY DEF EnsurePhase
  <2>1. lock'[i] = lock[i + 1] /\ i + 1 \in 1 .. Len(lock) /\ lock'[i].conn # c0
    BY <1>1, <1>3, <1>5
  <2>2. lock[i + 1] \in Task
    BY <1>1, <2>1
  <2>3. lock'[i].conn \in Conn
    BY <2>1, <2>2, TaskKinds
  <2>4. handler[lock[i + 1].conn] = "registered" /\ lock[i + 1].conn \in clients
    BY <2>1 DEF EnsurePhase
  <2> QED
    BY <1>3, <2>1, <2>3, <2>4
<1>7. OneEnsure'
  BY <1>1, <1>3 DEF OneEnsure
<1>8. ReleasePhase'
  BY <1>3 DEF ReleasePhase
<1>9. AckedSafe'
  BY <1>2, <1>3 DEF AckedSafe, Acked
<1> QED
  BY <1>4, <1>6, <1>7, <1>8, <1>9

(***************************************************************************)
(* A step that leaves the queue alone preserves the invariant when it does *)
(* not touch a socket with a queued task and acknowledges nobody.          *)
(***************************************************************************)
LEMMA QuietStep ==
    ASSUME LockInv, ControlOK', Fresh', UNCHANGED <<lock, busy, subscribed, channel, clients>>,
           \A i \in 1 .. Len(lock) : lock[i].kind = "ensure" =>
                handler'[lock[i].conn] = handler[lock[i].conn],
           \A c \in Conn : Acked(c)' => Acked(c)
    PROVE  LockInv'
<1>1. EnsurePhase' /\ OneEnsure' /\ ReleasePhase'
  BY DEF LockInv, EnsurePhase, OneEnsure, ReleasePhase
<1>2. AckedSafe'
  BY DEF LockInv, AckedSafe
<1> QED
  BY <1>1, <1>2 DEF LockInv

\* A step that leaves the control state alone keeps the invariant.
LEMMA FrameStep ==
    ASSUME LockInv, UNCHANGED <<handler, sock, clients, lock, busy, subscribed, channel>>
    PROVE  LockInv'
<1>1. ControlOK' /\ Fresh'
  BY DEF LockInv, ControlOK, Fresh
<1>2. \A c \in Conn : Acked(c)' => Acked(c)
  BY DEF Acked
<1> QED
  BY <1>1, <1>2, QuietStep

\* A queued task's connection is a socket whose handler waits for it.
LEMMA QueuedConn ==
    ASSUME LockInv, NEW i \in 1 .. Len(lock), lock[i].kind = "ensure"
    PROVE  /\ lock[i].conn \in Conn
           /\ handler[lock[i].conn] = "registered"
           /\ lock[i].conn \in clients
<1>1. lock[i] \in Task
  BY DEF LockInv, ControlOK
<1> QED
  BY <1>1, TaskKinds DEF LockInv, EnsurePhase

\* Opening, registering, giving up and closing a socket keep the invariant.
LEMMA ConnectionStep ==
    ASSUME LockInv, NEW c \in Conn,
           Accept(c) \/ Register(c) \/ GiveUp(c) \/ Closing(c) \/ Close(c)
    PROVE  LockInv'
<1>0. /\ ControlOK /\ Fresh
      /\ lock \in Seq(Task) /\ Len(lock) \in Nat
  BY DEF LockInv, ControlOK
<1>1. CASE Accept(c)
  <2> USE <1>1 DEF Accept, redisVars
  <2>1. ControlOK' /\ Fresh'
    BY <1>0 DEF ControlOK, Fresh
  <2>2. \A i \in 1 .. Len(lock) : lock[i].kind = "ensure" =>
            handler'[lock[i].conn] = handler[lock[i].conn]
    BY <1>0, QueuedConn DEF ControlOK, Fresh
  <2>3. \A d \in Conn : Acked(d)' => Acked(d)
    BY <1>0 DEF ControlOK, Acked
  <2> QED
    BY <2>1, <2>2, <2>3, QuietStep
<1>2. CASE Register(c)
  <2> USE <1>2 DEF Register, redisVars
  <2> DEFINE n == Len(lock)
  <2>1. /\ Ensure(c) \in Task
        /\ lock' \in Seq(Task) /\ lock' # <<>> /\ Len(lock') = n + 1
        /\ \A i \in 1 .. n : lock'[i] = lock[i]
        /\ lock'[n + 1] = Ensure(c)
    <3>1. Ensure(c) \in Task
      BY DEF Task
    <3> QED
      BY <1>0, <3>1, AppendTask
  <2>2. Ensure(c).kind = "ensure" /\ Ensure(c).conn = c
    BY DEF Ensure
  <2>3. handler' = [handler EXCEPT ![c] = "registered"] /\ clients' = clients \cup {c}
    OBVIOUS
  <2>4. ControlOK' /\ Fresh'
    BY <1>0, <2>1 DEF ControlOK, Fresh
  <2>5. \A i \in 1 .. n : lock[i].kind = "ensure" => lock[i].conn # c
    BY QueuedConn
  <2>6. EnsurePhase'
    <3> SUFFICES ASSUME NEW i \in 1 .. n + 1, lock'[i].kind = "ensure"
                 PROVE  handler'[lock'[i].conn] = "registered" /\ lock'[i].conn \in clients'
      BY <2>1 DEF EnsurePhase
    <3>1. CASE i = n + 1
      BY <1>0, <2>1, <2>2, <2>3, <3>1 DEF ControlOK
    <3>2. CASE i \in 1 .. n
      BY <1>0, <2>1, <2>3, <2>5, <3>2, QueuedConn DEF ControlOK
    <3> QED
      BY <1>0, <3>1, <3>2
  <2>7. OneEnsure'
    BY <1>0, <2>1, <2>2, <2>5 DEF LockInv, OneEnsure
  <2>8. ReleasePhase'
    BY <1>0, <2>1 DEF LockInv, ReleasePhase, ControlOK
  <2>9. AckedSafe'
    BY <1>0 DEF LockInv, AckedSafe, Acked, ControlOK
  <2> QED
    BY <2>4, <2>6, <2>7, <2>8, <2>9 DEF LockInv
<1>3. CASE GiveUp(c)
  <2> USE <1>3 DEF GiveUp, redisVars
  <2>1. ControlOK' /\ Fresh'
    BY <1>0 DEF ControlOK, Fresh
  <2>2. \A i \in 1 .. Len(lock) : lock[i].kind = "ensure" =>
            handler'[lock[i].conn] = handler[lock[i].conn]
    BY <1>0, QueuedConn DEF ControlOK
  <2>3. \A d \in Conn : Acked(d)' => Acked(d)
    BY <1>0 DEF ControlOK, Acked
  <2> QED
    BY <2>1, <2>2, <2>3, QuietStep
<1>4. CASE Closing(c)
  <2> USE <1>4 DEF Closing, redisVars
  <2>1. ControlOK' /\ Fresh'
    BY <1>0 DEF ControlOK, Fresh
  <2>2. \A d \in Conn : Acked(d)' => Acked(d)
    BY <1>0 DEF ControlOK, Acked
  <2> QED
    BY <2>1, <2>2, QuietStep
<1>5. CASE Close(c) /\ handler[c] # "serving"
  <2> USE <1>5 DEF Close, redisVars
  <2>1. ControlOK' /\ Fresh'
    BY <1>0 DEF ControlOK, Fresh
  <2>2. \A d \in Conn : Acked(d)' => Acked(d)
    BY <1>0 DEF ControlOK, Acked
  <2> QED
    BY <2>1, <2>2, QuietStep
<1>6. CASE Close(c) /\ handler[c] = "serving"
  <2> USE <1>6 DEF Close, redisVars
  <2> DEFINE n == Len(lock)
  <2>1. /\ lock' \in Seq(Task)
        /\ \A i \in 1 .. n : lock'[i] = lock[i]
        /\ \A i \in 1 .. Len(lock') :
                i \in 1 .. n \/ (lock'[i] = Release /\ i = n + 1)
        /\ lock # <<>> => lock' # <<>> /\ n >= 1
    <3>1. Release \in Task
      BY DEF Task
    <3>2. CASE lock' = lock
      BY <1>0, <3>2
    <3>3. CASE lock' = Append(lock, Release)
      <4>1. /\ lock' \in Seq(Task) /\ lock' # <<>> /\ Len(lock') = n + 1
            /\ \A i \in 1 .. n : lock'[i] = lock[i]
            /\ lock'[n + 1] = Release
        BY <1>0, <3>1, <3>3, AppendTask
      <4> QED
        BY <1>0, <4>1
    <3> QED
      BY <3>2, <3>3
  <2>2. Release.kind # "ensure"
    BY DEF Release
  <2>3. \A i \in 1 .. n : lock[i].kind = "ensure" => lock[i].conn # c
    BY QueuedConn
  <2>4. /\ sock' = [sock EXCEPT ![c] = "closed"]
        /\ handler' = [handler EXCEPT ![c] = "ended"]
        /\ clients' = clients \ {c}
        /\ UNCHANGED <<busy, subscribed, channel>>
    OBVIOUS
  <2>5. ControlOK' /\ Fresh'
    BY <1>0, <2>1, <2>4 DEF ControlOK, Fresh
  <2>6. EnsurePhase'
    BY <1>0, <2>1, <2>2, <2>3, <2>4, QueuedConn DEF EnsurePhase, ControlOK
  <2>7. OneEnsure'
    BY <1>0, <2>1, <2>2 DEF LockInv, OneEnsure
  <2>8. ReleasePhase'
    BY <1>0, <2>1, <2>4 DEF LockInv, ReleasePhase, ControlOK
  <2>9. AckedSafe'
    BY <1>0, <2>4 DEF LockInv, AckedSafe, Acked, ControlOK
  <2> QED
    BY <2>4, <2>5, <2>6, <2>7, <2>8, <2>9 DEF LockInv
<1> QED
  BY <1>1, <1>2, <1>3, <1>4, <1>5, <1>6

\* The end of a task that is not an ensure.
LEMMA ReleaseEnds ==
    ASSUME LockInv, lock # <<>>, Head(lock).kind = "release", Done,
           subscribed' \in BOOLEAN, channel' \in BOOLEAN, subscribed' => channel',
           UNCHANGED <<handler, sock, clients>>,
           \A c \in Conn : Acked(c) => subscribed' /\ channel'
    PROVE  LockInv'
<1>0. ControlOK /\ Fresh
  BY DEF LockInv
<1>1. /\ lock \in Seq(Task) /\ Tail(lock) \in Seq(Task)
      /\ Len(lock) \in Nat /\ Len(lock) >= 1
      /\ Len(Tail(lock)) = Len(lock) - 1
      /\ \A i \in 1 .. Len(Tail(lock)) : Tail(lock)[i] = lock[i + 1]
  BY <1>0, TailTask DEF ControlOK
<1>2. lock' = Tail(lock) /\ busy' = FALSE
  BY DEF Done
<1>3. ControlOK' /\ Fresh'
  BY <1>0, <1>1, <1>2 DEF ControlOK, Fresh
<1>4. EnsurePhase' /\ OneEnsure'
  BY <1>1, <1>2 DEF LockInv, EnsurePhase, OneEnsure
<1>5. ReleasePhase'
  BY <1>2 DEF ReleasePhase
<1>6. AckedSafe'
  BY DEF LockInv, AckedSafe, Acked
<1> QED
  BY <1>3, <1>4, <1>5, <1>6 DEF LockInv

(***************************************************************************)
(* The tasks of the lock.  SubscribeFails is the one that breaks the       *)
(* invariant: the error is swallowed and the socket acknowledged.          *)
(***************************************************************************)
LEMMA TaskStep ==
    ASSUME LockInv,
           EnsureStart \/ Subscribed \/ ReleaseStart \/ Unsubscribed \/ UnsubscribeFails
    PROVE  LockInv'
<1>0. /\ ControlOK /\ Fresh /\ AckedSafe
      /\ lock # <<>> => Head(lock) = lock[1]
      /\ busy => lock # <<>> /\ ~ subscribed /\ (lock[1].kind = "release" => channel)
      /\ subscribed => channel
  BY DEF LockInv, ControlOK, ReleasePhase
<1>1. CASE EnsureStart /\ subscribed
  BY <1>0, <1>1, EnsureEnds DEF EnsureStart, redisVars, ControlOK
<1>2. CASE EnsureStart /\ ~ subscribed
  <2> USE <1>2 DEF EnsureStart, redisVars
  <2>1. ControlOK' /\ Fresh' /\ EnsurePhase' /\ OneEnsure'
    BY <1>0 DEF LockInv, ControlOK, Fresh, EnsurePhase, OneEnsure
  <2>2. ReleasePhase'
    BY <1>0 DEF ReleasePhase
  <2>3. AckedSafe'
    BY <1>0 DEF AckedSafe, Acked
  <2> QED
    BY <1>0, <2>1, <2>2, <2>3 DEF LockInv
<1>3. CASE Subscribed
  BY <1>0, <1>3, EnsureEnds DEF Subscribed
<1>4. CASE ReleaseStart /\ clients = {} /\ subscribed
  <2> USE <1>4 DEF ReleaseStart
  <2>1. ControlOK' /\ Fresh' /\ EnsurePhase' /\ OneEnsure'
    BY <1>0 DEF LockInv, ControlOK, Fresh, EnsurePhase, OneEnsure
  <2>2. ReleasePhase'
    BY <1>0 DEF ReleasePhase
  <2>3. AckedSafe'
    BY <1>0 DEF AckedSafe, Acked
  <2> QED
    BY <1>0, <2>1, <2>2, <2>3 DEF LockInv
<1>5. CASE ReleaseStart /\ ~ (clients = {} /\ subscribed)
  BY <1>0, <1>5, ReleaseEnds DEF ReleaseStart, AckedSafe, ControlOK
<1>6. CASE Unsubscribed
  BY <1>0, <1>6, ReleaseEnds DEF Unsubscribed, AckedSafe, ControlOK
<1>7. CASE UnsubscribeFails
  BY <1>0, <1>7, ReleaseEnds DEF UnsubscribeFails, AckedSafe, ControlOK
<1> QED
  BY <1>1, <1>2, <1>3, <1>4, <1>5, <1>6, <1>7

\* Every step of the server keeps the lock invariant.
LEMMA LockStep ==
    ASSUME LockInv, TypeOK, subscribeErrors' = 0, [Next]_vars
    PROVE  LockInv'
<1>1. CASE \E c \in Conn : Accept(c) \/ Register(c) \/ GiveUp(c) \/ Closing(c) \/ Close(c)
  BY <1>1, ConnectionStep
<1>2. CASE EnsureStart \/ Subscribed \/ ReleaseStart \/ Unsubscribed \/ UnsubscribeFails
  BY <1>2, TaskStep
<1>3. ~ SubscribeFails
  BY DEF SubscribeFails, TypeOK
<1>4. CASE \/ RedisDown \/ RedisReady \/ Publish \/ Flush \/ Shutdown \/ UNCHANGED vars
           \/ \E c \in Conn : Filtered(c) \/ FilterFails(c)
  <2>1. UNCHANGED <<handler, sock, clients, lock, busy, subscribed, channel>>
    BY <1>4 DEF RedisDown, RedisReady, Publish, Flush, Shutdown, Filtered, FilterFails,
                vars, redisVars
  <2> QED
    BY <2>1, FrameStep
<1> QED
  BY <1>1, <1>2, <1>3, <1>4 DEF Next

-----------------------------------------------------------------------------
\* Type correctness.

\* What was a set of published rows still is one after another row.
LEMMA MoreRows ==
    ASSUME rows \in Nat, rows' = rows + 1
    PROVE  /\ rows' \in Nat /\ rows' \in 1 .. rows'
           /\ \A S \in SUBSET (1 .. rows) : S \in SUBSET (1 .. rows')
           /\ \A S \in SUBSET SUBSET (1 .. rows) : S \in SUBSET SUBSET (1 .. rows')
<1>1. \A x \in 1 .. rows : x \in 1 .. rows'
  OBVIOUS
<1> QED
  BY <1>1

\* The admission and subscription state keeps its type.
LEMMA ControlStep ==
    ASSUME ControlOK, [Next]_vars
    PROVE  ControlOK'
<1> USE DEF ControlOK
<1>1. ASSUME NEW c \in Conn, Accept(c) \/ GiveUp(c) \/ Closing(c)
      PROVE  ControlOK'
  BY <1>1 DEF Accept, GiveUp, Closing, redisVars
<1>2. ASSUME NEW c \in Conn, Register(c)
      PROVE  ControlOK'
  <2>1. Ensure(c) \in Task
    BY DEF Task
  <2> QED
    BY <1>2, <2>1, AppendTask DEF Register, redisVars
<1>3. ASSUME NEW c \in Conn, Close(c)
      PROVE  ControlOK'
  <2>1. Release \in Task
    BY DEF Task
  <2>2. lock' \in Seq(Task) /\ (lock # <<>> => lock' # <<>>)
    <3>1. lock' = lock \/ lock' = Append(lock, Release)
      BY <1>3 DEF Close
    <3>2. lock \in Seq(Task)
      OBVIOUS
    <3>3. Append(lock, Release) \in Seq(Task) /\ Append(lock, Release) # <<>>
      BY <2>1, <3>2, AppendTask
    <3> QED
      BY <3>1, <3>2, <3>3
  <2> QED
    BY <1>3, <2>2 DEF Close, redisVars
<1>4. CASE EnsureStart \/ Subscribed \/ SubscribeFails
  BY <1>4, TailTask DEF EnsureStart, Subscribed, SubscribeFails, Done, Acknowledge, redisVars
<1>5. CASE ReleaseStart \/ Unsubscribed \/ UnsubscribeFails
  BY <1>5, TailTask DEF ReleaseStart, Unsubscribed, UnsubscribeFails, Done
<1>6. CASE \/ RedisDown \/ RedisReady \/ Publish \/ Flush \/ Shutdown \/ UNCHANGED vars
           \/ \E c \in Conn : Filtered(c) \/ FilterFails(c)
  BY <1>6 DEF RedisDown, RedisReady, Publish, Flush, Shutdown, Filtered, FilterFails,
              vars, redisVars
<1> QED
  BY <1>1, <1>2, <1>3, <1>4, <1>5, <1>6 DEF Next

RowsOK ==
    /\ rows \in Nat
    /\ buf \in SUBSET (1 .. rows)
    /\ filtering \in [Conn -> SUBSET SUBSET (1 .. rows)]
    /\ owed \in [Conn -> SUBSET (1 .. rows)]

\* Buffers, batches and debts hold published rows only.
LEMMA RowsStep ==
    ASSUME RowsOK, [Next]_vars
    PROVE  RowsOK'
<1> USE DEF RowsOK
<1>1. CASE UNCHANGED rowVars
  BY <1>1 DEF rowVars
<1>2. ASSUME NEW c \in Conn, Closing(c)
      PROVE  RowsOK'
  BY <1>2 DEF Closing
<1>3. CASE RedisReady
  BY <1>3 DEF RedisReady
<1>4. CASE Publish
  <2>1. rows' = rows + 1 /\ filtering' = filtering
    BY <1>4 DEF Publish
  <2>2. buf' \in SUBSET (1 .. rows')
    BY <1>4, <2>1, MoreRows DEF Publish
  <2>3. \A c \in Conn : owed[c] \in SUBSET (1 .. rows') /\ owed[c] \cup {rows'} \in SUBSET (1 .. rows')
    BY <2>1, MoreRows
  <2>4. owed' \in [Conn -> SUBSET (1 .. rows')]
    BY <1>4, <2>3 DEF Publish
  <2>5. filtering' \in [Conn -> SUBSET SUBSET (1 .. rows')]
    BY <2>1, MoreRows
  <2> QED
    BY <2>1, <2>2, <2>4, <2>5, MoreRows
<1>5. CASE Flush \/ Shutdown
  <2>1. Broadcast(buf) /\ rows' = rows /\ buf' = {}
    BY <1>5 DEF Flush, Shutdown
  <2>2. \A c \in Conn : owed[c] \ buf \in SUBSET (1 .. rows)
                       /\ filtering[c] \cup {buf} \in SUBSET SUBSET (1 .. rows)
    OBVIOUS
  <2> QED
    BY <2>1, <2>2 DEF Broadcast
<1>6. ASSUME NEW c \in Conn, Filtered(c) \/ FilterFails(c)
      PROVE  RowsOK'
  BY <1>6, ZenonT(30) DEF Filtered, FilterFails
<1>7. CASE UNCHANGED vars
  BY <1>7, <1>1 DEF vars
<1>8. CASE \/ EnsureStart \/ Subscribed \/ SubscribeFails
           \/ ReleaseStart \/ Unsubscribed \/ UnsubscribeFails \/ RedisDown
           \/ \E c \in Conn : Accept(c) \/ Register(c) \/ GiveUp(c) \/ Close(c)
  BY <1>1, <1>8 DEF EnsureStart, Subscribed, SubscribeFails, ReleaseStart, Unsubscribed,
        UnsubscribeFails, RedisDown, Accept, Register, GiveUp, Close
<1> QED
  BY <1>2, <1>3, <1>4, <1>5, <1>6, <1>7, <1>8 DEF Next

CountsOK ==
    /\ redis \in {"up", "down"}
    /\ pubsubWasDisrupted \in BOOLEAN
    /\ alive \in BOOLEAN
    /\ outages \in Nat /\ redisErrors \in Nat
    /\ subscribeErrors \in Nat /\ filterErrors \in Nat

\* The connection to Redis, the process flag and the counters keep their type.
LEMMA CountsStep ==
    ASSUME CountsOK, [Next]_vars
    PROVE  CountsOK'
<1> USE DEF CountsOK
<1>1. CASE UNCHANGED <<redis, pubsubWasDisrupted, alive, countVars>>
  BY <1>1 DEF countVars
<1>2. CASE SubscribeFails \/ UnsubscribeFails
  BY <1>2 DEF SubscribeFails, UnsubscribeFails, redisVars
<1>4. CASE RedisDown
  BY <1>4 DEF RedisDown
<1>6. CASE RedisReady
  BY <1>6 DEF RedisReady, countVars
<1>7. CASE Shutdown
  BY <1>7 DEF Shutdown, redisVars, countVars
<1>5. ASSUME NEW c \in Conn, FilterFails(c)
      PROVE  CountsOK'
  BY <1>5 DEF FilterFails, redisVars
<1>3. CASE \/ EnsureStart \/ Subscribed \/ ReleaseStart \/ Unsubscribed \/ Publish \/ Flush
           \/ \E c \in Conn : \/ Accept(c) \/ Register(c) \/ GiveUp(c) \/ Closing(c)
                              \/ Close(c) \/ Filtered(c)
           \/ UNCHANGED vars
  <2>1. UNCHANGED <<redis, pubsubWasDisrupted, alive, countVars>>
    BY <1>3 DEF EnsureStart, Subscribed, ReleaseStart, Unsubscribed, Publish, Flush,
        Accept, Register, GiveUp, Closing, Close, Filtered, redisVars, vars
  <2> QED
    BY <1>1, <2>1
<1> QED
  BY <1>2, <1>3, <1>4, <1>5, <1>6, <1>7 DEF Next

\* The types hold at first.
LEMMA InitTypes == Init => TypeOK
<1> SUFFICES ASSUME Init PROVE TypeOK
  OBVIOUS
<1>1. LockInv
  BY InitLock
<1> QED
  BY <1>1 DEF Init, TypeOK, LockInv

\* Every step keeps the types.
LEMMA TypesStep ==
    ASSUME TypeOK, [Next]_vars
    PROVE  TypeOK'
BY ControlStep, RowsStep, CountsStep DEF TypeOK, RowsOK, CountsOK

(***************************************************************************)
(* Type correctness of the WebSocket server's state.                       *)
(***************************************************************************)
THEOREM TypeCorrect == Spec => []TypeOK
<1>1. Init => TypeOK
  BY InitTypes
<1>2. TypeOK /\ [Next]_vars => TypeOK'
  BY TypesStep
<1> QED
  BY <1>1, <1>2, PTL DEF Spec

\* No step takes back a rejected SUBSCRIBE.
LEMMA ErrorsOnlyGrow ==
    ASSUME TypeOK, [Next]_vars, subscribeErrors' = 0
    PROVE  subscribeErrors = 0
<1>1. CASE UNCHANGED subscribeErrors
  BY <1>1
<1>2. CASE SubscribeFails
  BY <1>2 DEF SubscribeFails, TypeOK
<1>3. CASE Next /\ ~ SubscribeFails
  BY <1>3 DEF Next, Accept, Register, GiveUp, Closing, Close, EnsureStart, Subscribed,
      ReleaseStart, Unsubscribed, UnsubscribeFails, RedisDown, RedisReady, Publish, Flush,
      Filtered, FilterFails, Shutdown, countVars
<1> QED
  BY <1>1, <1>2, <1>3 DEF vars, countVars

(***************************************************************************)
(* As long as no SUBSCRIBE has been rejected, an acknowledged socket is    *)
(* registered and its channel is held, however its admission interleaves   *)
(* with the release that the departure of others has started.              *)
(***************************************************************************)
THEOREM LockProtectsAcked == Spec => []AckedMeansSubscribed
<1> DEFINE Inv == TypeOK /\ (subscribeErrors = 0 => LockInv)
<1>1. Init => Inv
  BY InitLock, InitTypes
<1>2. Inv /\ [Next]_vars => Inv'
  <2> SUFFICES ASSUME Inv, [Next]_vars PROVE Inv'
    OBVIOUS
  <2>1. TypeOK'
    BY TypesStep
  <2>2. subscribeErrors' = 0 => subscribeErrors = 0
    BY ErrorsOnlyGrow
  <2>3. subscribeErrors' = 0 => LockInv'
    BY <2>2, LockStep
  <2> QED
    BY <2>1, <2>3
<1>3. Inv => AckedMeansSubscribed
  BY DEF LockInv, AckedSafe, AckedMeansSubscribed
<1> QED
  BY <1>1, <1>2, <1>3, PTL DEF Spec

-----------------------------------------------------------------------------
\* The book-keeping.

\* Redis is awaited only with the mark cleared.
MarkInv ==
    /\ ControlOK
    /\ busy => ~ subscribed
    /\ MarkMatchesChannel

\* A task that joins the lock leaves its head alone.
LEMMA AppendKeepsHead ==
    ASSUME NEW s \in Seq(Task), NEW t \in Task, s # <<>>
    PROVE  Head(Append(s, t)) = Head(s)
OBVIOUS

\* The steps of the sockets, which may append a task.
LEMMA MarkConnections ==
    ASSUME MarkInv, ControlOK', UNCHANGED <<busy, subscribed, channel>>,
           \/ UNCHANGED lock
           \/ \E t \in Task : lock' = Append(lock, t)
    PROVE  MarkInv'
<1>1. lock \in Seq(Task) /\ (busy => lock # <<>>)
  BY DEF MarkInv, ControlOK
<1>2. busy => Head(lock') = Head(lock)
  BY <1>1, AppendKeepsHead
<1> QED
  BY <1>2 DEF MarkInv, MarkMatchesChannel

\* The tasks of the lock.
LEMMA MarkTasks ==
    ASSUME MarkInv, ControlOK',
           \/ EnsureStart \/ Subscribed \/ SubscribeFails
           \/ ReleaseStart \/ Unsubscribed \/ UnsubscribeFails
    PROVE  MarkInv'
<1> USE DEF MarkInv, MarkMatchesChannel, Done
<1>1. CASE EnsureStart
  BY <1>1 DEF EnsureStart, redisVars
<1>2. CASE Subscribed
  BY <1>2 DEF Subscribed
<1>3. CASE SubscribeFails
  BY <1>3 DEF SubscribeFails, redisVars
<1>4. CASE ReleaseStart
  BY <1>4 DEF ReleaseStart
<1>5. CASE Unsubscribed
  BY <1>5 DEF Unsubscribed
<1>6. CASE UnsubscribeFails
  BY <1>6 DEF UnsubscribeFails
<1> QED
  BY <1>1, <1>2, <1>3, <1>4, <1>5, <1>6

\* Every step keeps the book-keeping straight.
LEMMA MarkStep ==
    ASSUME MarkInv, [Next]_vars
    PROVE  MarkInv'
<1>0. ControlOK'
  BY ControlStep DEF MarkInv
<1>1. CASE \E c \in Conn : Accept(c) \/ Register(c) \/ GiveUp(c) \/ Closing(c) \/ Close(c)
  <2>1. UNCHANGED <<busy, subscribed, channel>>
    BY <1>1 DEF Accept, Register, GiveUp, Closing, Close, redisVars
  <2>2. \/ UNCHANGED lock
        \/ \E t \in Task : lock' = Append(lock, t)
    BY <1>1 DEF Accept, Register, GiveUp, Closing, Close, Task
  <2> QED
    BY <1>0, <2>1, <2>2, MarkConnections
<1>2. CASE \/ EnsureStart \/ Subscribed \/ SubscribeFails
           \/ ReleaseStart \/ Unsubscribed \/ UnsubscribeFails
  BY <1>0, <1>2, MarkTasks
<1>3. CASE \/ RedisDown \/ RedisReady \/ Publish \/ Flush \/ Shutdown \/ UNCHANGED vars
           \/ \E c \in Conn : Filtered(c) \/ FilterFails(c)
  <2>1. UNCHANGED <<lock, busy, subscribed, channel>>
    BY <1>3 DEF RedisDown, RedisReady, Publish, Flush, Shutdown, Filtered, FilterFails,
                vars, redisVars
  <2> QED
    BY <1>0, <2>1, MarkConnections
<1> QED
  BY <1>1, <1>2, <1>3 DEF Next

(***************************************************************************)
(* The mark of the server and the channel of the Redis client agree, after *)
(* rejected SUBSCRIBEs and UNSUBSCRIBEs too.                               *)
(***************************************************************************)
THEOREM BookKeepingIsRight == Spec => []MarkMatchesChannel
<1>1. Init => MarkInv
  <2> SUFFICES ASSUME Init PROVE MarkInv
    OBVIOUS
  <2>1. ControlOK
    BY InitLock DEF LockInv
  <2> QED
    BY <2>1 DEF Init, MarkInv, MarkMatchesChannel
<1>2. MarkInv /\ [Next]_vars => MarkInv'
  BY MarkStep
<1>3. MarkInv => MarkMatchesChannel
  BY DEF MarkInv
<1> QED
  BY <1>1, <1>2, <1>3, PTL DEF Spec
-----------------------------------------------------------------------------
\* The rows.

\* A client that holds a channel and has lost its connection will send the hint.
Disrupted == channel /\ redis = "down" => pubsubWasDisrupted

\* A row a socket waits for is in the buffer, or in a batch that is being
\* filtered for it, or will be made good by the hint when Redis is back.
OnItsWay ==
    alive /\ filterErrors = 0 =>
       \A c \in Conn : \A r \in owed[c] :
          /\ Acked(c)
          /\ r \in buf \/ redis = "down" \/ \E batch \in filtering[c] : r \in batch

RowInv == Disrupted /\ OnItsWay

\* The channel is taken only with Redis up, and every loss of it is noted.
LEMMA DisruptedStep == ASSUME TypeOK, Disrupted, [Next]_vars PROVE Disrupted'
<1>1. CASE UNCHANGED <<channel, redis, pubsubWasDisrupted>>
  BY <1>1 DEF Disrupted
<1>2. CASE RedisDown \/ RedisReady
  BY <1>2 DEF RedisDown, RedisReady, Disrupted
<1>3. CASE Subscribed \/ Unsubscribed
  BY <1>3 DEF Subscribed, Unsubscribed, Disrupted
<1> QED
  BY <1>1, <1>2, <1>3 DEF Next, Accept, Register, GiveUp, Closing, Close, EnsureStart,
      SubscribeFails, ReleaseStart, UnsubscribeFails, Publish, Flush,
      Filtered, FilterFails, Shutdown, redisVars, vars

\* While no SUBSCRIBE has been rejected, a socket that is acknowledged and not
\* closing stays so.
LEMMA AckedStays ==
    ASSUME TypeOK, LockInv, [Next]_vars, NEW c \in Conn, Acked(c), ~ Closing(c)
    PROVE  Acked(c)'
<1>0. handler[c] = "serving" /\ sock[c] = "open" /\ ControlOK
  BY DEF Acked, TypeOK
<1>1. ASSUME NEW d \in Conn, Accept(d) \/ Register(d) \/ GiveUp(d) \/ Close(d)
      PROVE  Acked(c)'
  BY <1>0, <1>1 DEF Accept, Register, GiveUp, Close, ControlOK, Acked
<1>2. ASSUME NEW d \in Conn, Closing(d)
      PROVE  Acked(c)'
  BY <1>0, <1>2 DEF Closing, ControlOK, Acked
<1>3. ASSUME UNCHANGED sock, UNCHANGED handler \/ \E d : Acknowledge(d)
      PROVE  Acked(c)'
  BY <1>0, <1>3 DEF Acknowledge, ControlOK, Acked
<1>4. CASE EnsureStart \/ Subscribed \/ SubscribeFails
  BY <1>3, <1>4 DEF EnsureStart, Subscribed, SubscribeFails
<1>5. CASE \/ ReleaseStart \/ Unsubscribed \/ UnsubscribeFails
           \/ RedisDown \/ RedisReady \/ Publish \/ Flush \/ Shutdown \/ UNCHANGED vars
           \/ \E d \in Conn : Filtered(d) \/ FilterFails(d)
  <2>1. UNCHANGED <<handler, sock>>
    BY <1>5 DEF ReleaseStart, Unsubscribed, UnsubscribeFails, RedisDown, RedisReady, Publish,
                Flush, Shutdown, Filtered, FilterFails, vars
  <2> QED
    BY <1>3, <2>1
<1> QED
  BY <1>1, <1>2, <1>4, <1>5 DEF Next

\* A socket waits for more only when a row is published, and for less only with
\* what it has been sent, or told to fetch.
LEMMA OnItsWayStep ==
    ASSUME TypeOK, LockInv, RowInv, [Next]_vars
    PROVE  OnItsWay'
<1> SUFFICES ASSUME alive', filterErrors' = 0, NEW c \in Conn, NEW r \in owed'[c]
             PROVE  /\ Acked(c)'
                    /\ r \in buf' \/ redis' = "down" \/ \E batch \in filtering'[c] : r \in batch
  BY DEF OnItsWay
<1> DEFINE G == r \in buf' \/ redis' = "down" \/ \E batch \in filtering'[c] : r \in batch
<1>0. /\ alive \in BOOLEAN /\ filterErrors \in Nat /\ redis \in {"up", "down"}
      /\ filtering \in [Conn -> SUBSET SUBSET (1 .. rows)]
      /\ owed \in [Conn -> SUBSET (1 .. rows)]
  BY DEF TypeOK
<1>1. alive /\ filterErrors = 0 /\ \A d \in Conn : ~ FilterFails(d)
  <2>1. alive
    BY DEF Next, Accept, Register, GiveUp, Closing, Close, EnsureStart, Subscribed,
      SubscribeFails, ReleaseStart, Unsubscribed, UnsubscribeFails, RedisDown, RedisReady,
      Publish, Flush, Filtered, FilterFails, Shutdown, vars
  <2>2. \A d \in Conn : ~ FilterFails(d)
    <3>1. filterErrors' # filterErrors + 1
      BY <1>0
    <3> QED
      BY <3>1, Zenon DEF FilterFails
  <2>3. filterErrors = 0
    BY <2>2 DEF Next, Accept, Register, GiveUp, Closing, Close, EnsureStart, Subscribed,
      SubscribeFails, ReleaseStart, Unsubscribed, UnsubscribeFails, RedisDown, RedisReady,
      Publish, Flush, Filtered, Shutdown, vars, countVars
  <2> QED
    BY <2>1, <2>2, <2>3
\* What was on its way before.
<1>2. ASSUME NEW s \in owed[c]
      PROVE  Acked(c) /\ (s \in buf \/ redis = "down" \/ \E batch \in filtering[c] : s \in batch)
  BY <1>1 DEF RowInv, OnItsWay
<1>3. Acked(c) => c \in clients /\ subscribed /\ channel
  BY DEF LockInv, AckedSafe
<1>4. CASE Publish
  <2>1. CASE r \in owed[c]
    <3>1. Acked(c)'
      BY <1>2, <1>4, <2>1 DEF Publish, Acked
    <3>2. G
      BY <1>2, <1>4, <2>1 DEF Publish, redisVars
    <3> QED
      BY <3>1, <3>2
  <2>2. CASE r \notin owed[c]
    <3>1. Acked(c) /\ r = rows'
      BY <1>0, <1>4, <2>2 DEF Publish
    <3>2. Acked(c)'
      BY <1>4, <3>1 DEF Publish, Acked
    <3>3. G
      BY <1>0, <1>3, <1>4, <3>1 DEF Publish, Listening, redisVars
    <3> QED
      BY <3>2, <3>3
  <2> QED
    BY <2>1, <2>2
<1>5. r \in owed[c] \/ Publish
  BY <1>0, <1>1 DEF Next, Accept, Register, GiveUp, Closing, Close, EnsureStart, Subscribed,
      SubscribeFails, ReleaseStart, Unsubscribed, UnsubscribeFails, RedisDown, RedisReady,
      Flush, Filtered, Shutdown, Broadcast, rowVars, vars
<1>6. CASE ~ Publish
  <2>0. r \in owed[c] /\ Acked(c)
    BY <1>2, <1>5, <1>6
  <2>1. ~ Closing(c)
    BY <1>0 DEF Closing
  <2>2. Acked(c)'
    BY <2>0, <2>1, AckedStays
  <2>3. CASE UNCHANGED <<buf, filtering, redis>>
    BY <1>2, <2>0, <2>2, <2>3
  <2>4. CASE RedisDown
    BY <2>2, <2>4 DEF RedisDown
  <2>5. ~ RedisReady
    <3> SUFFICES ASSUME RedisReady PROVE FALSE
      OBVIOUS
    <3>1. redis = "down" /\ c \in clients /\ subscribed /\ channel
      BY <1>3, <2>0 DEF RedisReady
    <3>2. pubsubWasDisrupted
      BY <3>1 DEF RowInv, Disrupted
    <3>3. owed'[c] = {}
      BY <3>1, <3>2 DEF RedisReady
    <3> QED
      BY <3>3
  <2>6. CASE Flush
    <3>1. Broadcast(buf) /\ UNCHANGED redis /\ sock[c] = "open"
      BY <2>0, <2>6 DEF Flush, Acked, redisVars
    <3>2. r \in buf => c \in Restricted
      BY <1>3, <2>0, <3>1 DEF Broadcast
    <3>3. /\ \A batch \in filtering[c] : batch \in filtering'[c]
          /\ c \in Restricted => buf \in filtering'[c]
      BY <1>0, <1>3, <2>0, <3>1 DEF Broadcast
    <3>4. G
      BY <1>2, <2>0, <3>1, <3>2, <3>3
    <3> QED
      BY <2>2, <3>4
  <2>7. ASSUME NEW d \in Conn, Filtered(d)
        PROVE  G
    <3>1. PICK batch \in filtering[d] :
             /\ filtering' = [filtering EXCEPT ![d] = @ \ {batch}]
             /\ owed' = [owed EXCEPT ![d] = IF sock[d] = "open" THEN @ \ batch ELSE @]
      BY <2>7 DEF Filtered
    <3>2. UNCHANGED <<buf, redis>> /\ sock[c] = "open"
      BY <2>0, <2>7 DEF Filtered, Acked, redisVars
    <3>3. \A b \in filtering[c] : r \in b => b \in filtering'[c]
      BY <1>0, <3>1, <3>2
    <3> QED
      BY <1>2, <2>0, <3>2, <3>3
  <2>8. ~ Shutdown
    BY DEF Shutdown
  <2>9. \/ UNCHANGED <<buf, filtering, redis>> \/ RedisDown \/ RedisReady \/ Flush
        \/ (\E d \in Conn : Filtered(d)) \/ Shutdown
    BY <1>1, <1>6 DEF Next, Accept, Register, GiveUp, Closing, Close, EnsureStart, Subscribed,
      SubscribeFails, ReleaseStart, Unsubscribed, UnsubscribeFails, rowVars, redisVars, vars
  <2> QED
    BY <2>2, <2>3, <2>4, <2>5, <2>6, <2>7, <2>8, <2>9
<1> QED
  BY <1>4, <1>6

(***************************************************************************)
(* An acknowledged socket misses nothing silently, through any number of   *)
(* Redis outages, rejected UNSUBSCRIBEs, and departures of other sockets:  *)
(* with Redis up and nothing in a buffer or a filter, it has been sent     *)
(* every row published since its acknowledgement, or told to fetch it.     *)
(***************************************************************************)
THEOREM StreamIsComplete == Spec => []StreamComplete
<1> DEFINE Inv == TypeOK /\ (subscribeErrors = 0 => LockInv /\ RowInv)
<1>1. Init => Inv
  <2> SUFFICES ASSUME Init PROVE Inv
    OBVIOUS
  <2>1. RowInv
    BY DEF Init, RowInv, Disrupted, OnItsWay
  <2> QED
    BY <2>1, InitLock, InitTypes
<1>2. Inv /\ [Next]_vars => Inv'
  <2> SUFFICES ASSUME Inv, [Next]_vars PROVE Inv'
    OBVIOUS
  <2>1. TypeOK'
    BY TypesStep
  <2>2. subscribeErrors' = 0 => subscribeErrors = 0
    BY ErrorsOnlyGrow
  <2>3. subscribeErrors' = 0 => LockInv'
    BY <2>2, LockStep
  <2>4. subscribeErrors' = 0 => RowInv'
    <3> SUFFICES ASSUME subscribeErrors' = 0 PROVE RowInv'
      OBVIOUS
    <3>1. LockInv /\ RowInv
      BY <2>2
    <3>2. Disrupted'
      BY <3>1, DisruptedStep DEF RowInv
    <3>3. OnItsWay'
      BY <3>1, OnItsWayStep
    <3> QED
      BY <3>2, <3>3 DEF RowInv
  <2> QED
    BY <2>1, <2>3, <2>4
<1>3. Inv => StreamComplete
  <2> SUFFICES ASSUME Inv, alive, redis = "up", buf = {}, subscribeErrors + filterErrors = 0,
                      NEW c \in Conn, filtering[c] = {}
               PROVE  owed[c] = {}
    BY DEF StreamComplete
  <2>1. subscribeErrors = 0 /\ filterErrors = 0
    BY DEF TypeOK
  <2> QED
    BY <2>1 DEF RowInv, OnItsWay
<1> QED
  BY <1>1, <1>2, <1>3, PTL DEF Spec
=============================================================================
