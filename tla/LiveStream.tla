----------------------------- MODULE LiveStream -----------------------------
(***************************************************************************)
(* The standalone WebSocket server (src/server/ws), for one organization:  *)
(* how a socket is admitted and registered, how the organization's Redis   *)
(* channel is subscribed and released as sockets come and go, how          *)
(* published rows are batched, filtered and sent, and what a Redis outage  *)
(* or a shutdown does to all this.                                         *)
(*                                                                         *)
(* The server is one event loop: a step below is the code between two      *)
(* awaits.  Subscribe and unsubscribe run one at a time on a chain of      *)
(* promises (withOrgSubLock), here a queue of tasks whose head may be      *)
(* awaiting Redis.  Every socket belongs to the same user; whether that    *)
(* user's scope is restricted is fixed per socket.  What the filter hides  *)
(* is not modelled, nor is the content of a row.                           *)
(***************************************************************************)
EXTENDS Integers, FiniteSets, Sequences

CONSTANTS
    Conn,               \* the WebSocket connections that may be made
    Restricted,         \* those whose scope is narrowed, hence filtered
    MaxSockets,         \* MAX_SOCKETS_PER_USER
    MaxRows,            \* bound: rows published
    MaxOutages,         \* bound: Redis outages
    MaxRedisErrors,     \* bound: rejected UNSUBSCRIBEs
    MaxSubscribeErrors, \* bound: rejected SUBSCRIBEs
    MaxFilterErrors     \* bound: visibility filters that fail

ASSUME LiveStreamAssumption ==
    /\ Restricted \subseteq Conn
    /\ IsFiniteSet(Conn)
    /\ {MaxSockets, MaxRows, MaxOutages, MaxRedisErrors, MaxSubscribeErrors,
        MaxFilterErrors} \subseteq Nat

VARIABLES
    handler,    \* handler[c]: how far the connection handler of c has come
    sock,       \* sock[c]: readyState of c
    clients,    \* ConnectionManager: the registered sockets
    lock,       \* orgSubLocks: tasks of the organization, in order
    busy,       \* is the head of lock awaiting Redis?
    subscribed, \* subscribedOrgs.has(orgId)
    channel,    \* does the Redis client hold the channel?
    redis,      \* the subscriber's connection
    pubsubWasDisrupted,
    rows,       \* number of rows published so far
    buf,        \* the batcher's buffer
    filtering,  \* filtering[c]: batches on their way through the filter
    owed,       \* owed[c] (auxiliary): rows published to an acknowledged c that
                \* it has neither been sent nor been told to fetch
    alive,      \* has the process not been shut down?
    outages, redisErrors, subscribeErrors, filterErrors

redisVars == <<subscribed, channel, redis, pubsubWasDisrupted>>
rowVars   == <<rows, buf, filtering, owed>>
countVars == <<outages, redisErrors, subscribeErrors, filterErrors>>
vars == <<handler, sock, clients, lock, busy, redisVars, rowVars, alive, countVars>>

Ensure(c) == [kind |-> "ensure", conn |-> c]
Release   == [kind |-> "release"]
Task      == {Ensure(c) : c \in Conn} \cup {Release}

\* Messages of the channel reach the server.
Listening == channel /\ redis = "up"

Acked(c) == handler[c] = "serving" /\ sock[c] = "open"

Init ==
    /\ handler = [c \in Conn |-> "none"]
    /\ sock = [c \in Conn |-> "none"]
    /\ clients = {}
    /\ lock = <<>> /\ busy = FALSE
    /\ subscribed = FALSE /\ channel = FALSE
    /\ redis = "down" /\ pubsubWasDisrupted = FALSE
    /\ rows = 0 /\ buf = {}
    /\ filtering = [c \in Conn |-> {}]
    /\ owed = [c \in Conn |-> {}]
    /\ alive = TRUE
    /\ outages = 0 /\ redisErrors = 0 /\ subscribeErrors = 0 /\ filterErrors = 0

-----------------------------------------------------------------------------
\* Connections

\* A socket opens with a valid ticket; the cap is checked, and the handler
\* awaits the socket's scope.
Accept(c) ==
    /\ alive
    /\ sock[c] = "none"
    /\ sock' = [sock EXCEPT ![c] = IF Cardinality(clients) < MaxSockets THEN "open" ELSE "closing"]
    /\ handler' = [handler EXCEPT ![c] =
            IF Cardinality(clients) < MaxSockets THEN "scoping" ELSE "ended"]
    /\ UNCHANGED <<clients, lock, busy, redisVars, rowVars, alive, countVars>>

\* The scope is there: register, and await ensureOrgSubscription.
Register(c) ==
    /\ alive
    /\ handler[c] = "scoping"
    /\ sock[c] = "open"
    /\ handler' = [handler EXCEPT ![c] = "registered"]
    /\ clients' = clients \cup {c}
    /\ lock' = Append(lock, Ensure(c))
    /\ UNCHANGED <<sock, busy, redisVars, rowVars, alive, countVars>>

\* The lookup failed, or the socket closed meanwhile: the handler returns.
GiveUp(c) ==
    /\ alive
    /\ handler[c] = "scoping"
    /\ handler' = [handler EXCEPT ![c] = "ended"]
    /\ sock' = [sock EXCEPT ![c] = IF @ = "open" THEN "closing" ELSE @]
    /\ UNCHANGED <<clients, lock, busy, redisVars, rowVars, alive, countVars>>

\* Either side starts to close: tab gone, slow client, pong timeout, re-auth.
Closing(c) ==
    /\ alive
    /\ sock[c] = "open"
    /\ sock' = [sock EXCEPT ![c] = "closing"]
    /\ owed' = [owed EXCEPT ![c] = {}]
    /\ UNCHANGED <<handler, clients, lock, busy, redisVars, rows, buf, filtering, alive,
                   countVars>>

(***************************************************************************)
(* The `close` event.  Its listener is attached only once the socket has   *)
(* been acknowledged; before that nobody hears it.                         *)
(***************************************************************************)
Close(c) ==
    /\ alive
    /\ sock[c] = "closing"
    /\ sock' = [sock EXCEPT ![c] = "closed"]
    /\ IF handler[c] = "serving"
       THEN /\ handler' = [handler EXCEPT ![c] = "ended"]
            /\ clients' = clients \ {c}
            /\ lock' = IF clients' = {} THEN Append(lock, Release) ELSE lock
       ELSE UNCHANGED <<handler, clients, lock>>
    /\ UNCHANGED <<busy, redisVars, rowVars, alive, countVars>>

-----------------------------------------------------------------------------
\* The subscription lock

\* The head task is over.
Done == lock' = Tail(lock) /\ busy' = FALSE

\* The await in the connection handler resolves: acknowledge, attach listeners.
Acknowledge(c) == handler' = [handler EXCEPT ![c] = "serving"]

\* Mutant: the socket is acknowledged without awaiting the subscription.
EnsureStartUnawaited ==
    /\ alive
    /\ lock # <<>> /\ ~ busy
    /\ Head(lock).kind = "ensure"
    /\ Acknowledge(Head(lock).conn)
    /\ IF subscribed
       THEN Done
       ELSE busy' = TRUE /\ UNCHANGED lock
    /\ UNCHANGED <<sock, clients, redisVars, rowVars, alive, countVars>>

EnsureStart ==
    /\ alive
    /\ lock # <<>> /\ ~ busy
    /\ Head(lock).kind = "ensure"
    /\ IF subscribed
       THEN Done /\ Acknowledge(Head(lock).conn)
       ELSE busy' = TRUE /\ UNCHANGED <<lock, handler>>
    /\ UNCHANGED <<sock, clients, redisVars, rowVars, alive, countVars>>

\* Mutant: the lock's entry is dropped before its task is seen to end.
SubscribedStillBusy ==
    /\ alive
    /\ busy /\ Head(lock).kind = "ensure"
    /\ redis = "up"
    /\ channel' = TRUE
    /\ subscribed' = TRUE
    /\ lock' = Tail(lock) /\ Acknowledge(Head(lock).conn)
    /\ UNCHANGED <<busy, sock, clients, redis, pubsubWasDisrupted, rowVars, alive, countVars>>

Subscribed ==
    /\ alive
    /\ busy /\ Head(lock).kind = "ensure"
    /\ redis = "up"
    /\ channel' = TRUE
    /\ subscribed' = TRUE
    /\ Done /\ Acknowledge(Head(lock).conn)
    /\ UNCHANGED <<sock, clients, redis, pubsubWasDisrupted, rowVars, alive, countVars>>

\* SUBSCRIBE is rejected: the lock logs the error and swallows it.
SubscribeFails ==
    /\ alive
    /\ busy /\ Head(lock).kind = "ensure"
    /\ redis = "down" /\ subscribeErrors < MaxSubscribeErrors
    /\ subscribeErrors' = subscribeErrors + 1
    /\ Done /\ Acknowledge(Head(lock).conn)
    /\ UNCHANGED <<sock, clients, redisVars, rowVars, alive, outages, redisErrors, filterErrors>>

\* Mutant: the mark is cleared and UNSUBSCRIBE is not sent.
ReleaseStartMarkOnly ==
    /\ alive
    /\ lock # <<>> /\ ~ busy
    /\ Head(lock).kind = "release"
    /\ subscribed' = (subscribed /\ clients # {})
    /\ Done
    /\ UNCHANGED <<handler, sock, clients, channel, redis, pubsubWasDisrupted, rowVars, alive,
                   countVars>>

ReleaseStart ==
    /\ alive
    /\ lock # <<>> /\ ~ busy
    /\ Head(lock).kind = "release"
    /\ IF clients = {} /\ subscribed
       THEN subscribed' = FALSE /\ busy' = TRUE /\ UNCHANGED lock
       ELSE Done /\ UNCHANGED subscribed
    /\ UNCHANGED <<handler, sock, clients, channel, redis, pubsubWasDisrupted, rowVars, alive,
                   countVars>>

Unsubscribed ==
    /\ alive
    /\ busy /\ Head(lock).kind = "release"
    /\ redis = "up"
    /\ channel' = FALSE
    /\ Done
    /\ UNCHANGED <<handler, sock, clients, subscribed, redis, pubsubWasDisrupted, rowVars,
                   alive, countVars>>

\* Mutant: a rejected UNSUBSCRIBE is taken for a success.
UnsubscribeFailsForgotten ==
    /\ alive
    /\ busy /\ Head(lock).kind = "release"
    /\ redis = "down" /\ redisErrors < MaxRedisErrors
    /\ redisErrors' = redisErrors + 1
    /\ Done
    /\ UNCHANGED <<handler, sock, clients, redisVars, rowVars, alive, outages, subscribeErrors,
                   filterErrors>>

\* UNSUBSCRIBE is rejected: the channel is marked as subscribed again.
UnsubscribeFails ==
    /\ alive
    /\ busy /\ Head(lock).kind = "release"
    /\ redis = "down" /\ redisErrors < MaxRedisErrors
    /\ redisErrors' = redisErrors + 1
    /\ subscribed' = TRUE
    /\ Done
    /\ UNCHANGED <<handler, sock, clients, channel, redis, pubsubWasDisrupted, rowVars, alive,
                   outages, subscribeErrors, filterErrors>>

-----------------------------------------------------------------------------
\* Redis

\* The subscriber loses its connection ("reconnecting", "end").
RedisDown ==
    /\ alive
    /\ redis = "up" /\ outages < MaxOutages
    /\ redis' = "down"
    /\ pubsubWasDisrupted' = TRUE
    /\ outages' = outages + 1
    /\ UNCHANGED <<handler, sock, clients, lock, busy, subscribed, channel, rowVars, alive,
                   redisErrors, subscribeErrors, filterErrors>>

\* Mutant: the resync hint is sent for the first `ready` and no other.
RedisReadyNoHint ==
    /\ alive
    /\ redis = "down"
    /\ redis' = "up"
    /\ pubsubWasDisrupted' = FALSE
    /\ UNCHANGED <<handler, sock, clients, lock, busy, subscribed, channel, rowVars, alive,
                   countVars>>

\* `ready`: the client resubscribes to the channels it holds, and after a
\* disruption every registered open socket is told to resync.
RedisReady ==
    /\ alive
    /\ redis = "down"
    /\ redis' = "up"
    /\ pubsubWasDisrupted' = FALSE
    /\ owed' = [c \in Conn |->
            IF pubsubWasDisrupted /\ subscribed /\ c \in clients THEN {} ELSE owed[c]]
    /\ UNCHANGED <<handler, sock, clients, lock, busy, subscribed, channel, rows, buf, filtering,
                   alive, countVars>>

\* A committed row is published on the channel; a message joins the batch.
Publish ==
    /\ alive
    /\ rows < MaxRows
    /\ rows' = rows + 1
    /\ buf' = IF Listening THEN buf \cup {rows'} ELSE buf
    /\ owed' = [c \in Conn |-> IF Acked(c) THEN owed[c] \cup {rows'} ELSE owed[c]]
    /\ UNCHANGED <<handler, sock, clients, lock, busy, redisVars, filtering, alive, countVars>>

-----------------------------------------------------------------------------
\* Batches

\* broadcastActions: sockets get the batch at once, restricted ones through
\* the filter.
Broadcast(batch) ==
    /\ owed' = [c \in Conn |->
            IF c \in clients \ Restricted /\ sock[c] = "open" THEN owed[c] \ batch ELSE owed[c]]
    /\ filtering' = [c \in Conn |->
            IF c \in clients \cap Restricted THEN filtering[c] \cup {batch} ELSE filtering[c]]

\* The coalescing window ends.
Flush ==
    /\ alive
    /\ buf # {}
    /\ Broadcast(buf)
    /\ buf' = {}
    /\ UNCHANGED <<handler, sock, clients, lock, busy, redisVars, rows, alive, countVars>>

\* The filter of a batch resolves, in any order; sendTo looks at the socket.
Filtered(c) ==
    /\ alive
    /\ \E batch \in filtering[c] :
          /\ filtering' = [filtering EXCEPT ![c] = @ \ {batch}]
          /\ owed' = [owed EXCEPT ![c] = IF sock[c] = "open" THEN @ \ batch ELSE @]
    /\ UNCHANGED <<handler, sock, clients, lock, busy, redisVars, rows, buf, alive, countVars>>

\* The filter's query fails: the batch is logged and dropped.
FilterFails(c) ==
    /\ alive
    /\ filterErrors < MaxFilterErrors
    /\ filterErrors' = filterErrors + 1
    /\ \E batch \in filtering[c] : filtering' = [filtering EXCEPT ![c] = @ \ {batch}]
    /\ UNCHANGED <<handler, sock, clients, lock, busy, redisVars, rows, buf, owed, alive,
                   outages, redisErrors, subscribeErrors>>

\* SIGTERM: flush what is buffered, then process.exit.
Shutdown ==
    /\ alive
    /\ alive' = FALSE
    /\ Broadcast(buf)
    /\ buf' = {}
    /\ UNCHANGED <<handler, sock, clients, lock, busy, redisVars, rows, countVars>>

-----------------------------------------------------------------------------
Next ==
    \/ \E c \in Conn : Accept(c) \/ Register(c) \/ GiveUp(c) \/ Closing(c) \/ Close(c)
    \/ EnsureStart \/ Subscribed \/ SubscribeFails
    \/ ReleaseStart \/ Unsubscribed \/ UnsubscribeFails
    \/ RedisDown \/ RedisReady \/ Publish \/ Flush
    \/ \E c \in Conn : Filtered(c) \/ FilterFails(c)
    \/ Shutdown

Spec == Init /\ [][Next]_vars

\* The event loop runs every task, Redis comes back, and a reply arrives.
Fairness ==
    /\ WF_vars(EnsureStart) /\ WF_vars(ReleaseStart)
    /\ WF_vars(RedisReady)
    /\ SF_vars(Subscribed) /\ SF_vars(Unsubscribed)

FairSpec == Spec /\ Fairness

-----------------------------------------------------------------------------
\* Properties

\* The admission and subscription state.
ControlOK ==
    /\ handler \in [Conn -> {"none", "scoping", "registered", "serving", "ended"}]
    /\ sock \in [Conn -> {"none", "open", "closing", "closed"}]
    /\ clients \in SUBSET Conn
    /\ lock \in Seq(Task)
    /\ busy \in BOOLEAN
    /\ busy => lock # <<>>
    /\ subscribed \in BOOLEAN
    /\ channel \in BOOLEAN

\* Every variable keeps the values the code can give it.
TypeOK ==
    /\ ControlOK
    /\ redis \in {"up", "down"}
    /\ pubsubWasDisrupted \in BOOLEAN
    /\ rows \in Nat
    /\ buf \subseteq 1 .. rows
    /\ filtering \in [Conn -> SUBSET SUBSET (1 .. rows)]
    /\ owed \in [Conn -> SUBSET (1 .. rows)]
    /\ alive \in BOOLEAN
    /\ outages \in Nat /\ redisErrors \in Nat
    /\ subscribeErrors \in Nat /\ filterErrors \in Nat

(***************************************************************************)
(* An acknowledged socket is registered and its channel is held, whatever  *)
(* releases by departing sockets are queued or under way: the point of     *)
(* serialising subscribe and unsubscribe.                                  *)
(***************************************************************************)
AckedMeansSubscribed ==
    subscribeErrors = 0 => \A c \in Conn : Acked(c) => c \in clients /\ subscribed /\ channel

(***************************************************************************)
(* The server's book-keeping and the Redis client agree: a channel marked  *)
(* as subscribed is held, and one that is held is marked, unless the       *)
(* release of it is under way.                                             *)
(***************************************************************************)
MarkMatchesChannel ==
    channel <=> subscribed \/ (busy /\ Head(lock).kind = "release")

(***************************************************************************)
(* An acknowledged socket misses nothing silently: once the batches are    *)
(* sent and Redis is up, it has been sent every row published since its    *)
(* acknowledgement, or has been told to resync after the row it missed.    *)
(***************************************************************************)
StreamComplete ==
    alive /\ redis = "up" /\ buf = {} /\ subscribeErrors + filterErrors = 0 =>
        \A c \in Conn : filtering[c] = {} => owed[c] = {}

(***************************************************************************)
(* When the last socket has left for good, the Redis client lets go of the *)
(* channel, through outages and whatever subscribes and releases of        *)
(* earlier sockets are still queued.  The code gives up on a channel whose *)
(* UNSUBSCRIBE is rejected until another socket comes and goes, so the     *)
(* count of rejections must not have moved since a socket was last there.  *)
(***************************************************************************)
ReleasedWhenEmpty ==
    \A n \in 0 .. MaxRedisErrors :
        /\ <>(clients # {} /\ redisErrors = n)
        /\ <>[](alive /\ clients = {} /\ redisErrors = n)
        => <>[](~ channel)
=============================================================================
