---------------------------- MODULE ShardEngine ----------------------------
(***************************************************************************)
(* The sharded request engine: gateway.Dispatch, DispatchSync, Shard.run,  *)
(* Shard.slowRecover and Gateway.Close (internal/gateway/gateway.go), the  *)
(* request pool they release into (internal/gateway/types.go) and          *)
(* handleConnection, which drives them (cmd/nexusgate/main.go).            *)
(*                                                                         *)
(* Every atomic operation on shared memory (channel send or receive, an    *)
(* atomic counter, the WaitGroup, the pool) is a step of its own, so that  *)
(* goroutines interleave between any two of them.  A connection carries    *)
(* one request (the code closes it afterwards), so a connection also names *)
(* its request and the response channel DispatchSync makes for it.         *)
(***************************************************************************)
EXTENDS Integers, Sequences, FiniteSets

CONSTANTS
    Clients,        \* connections, one handleConnection goroutine each
    Workers,        \* goroutines running Shard.run
    Recoverers,     \* goroutines available to run Shard.slowRecover
    NumShards,      \* shardCount
    Home,           \* the shard a worker or recoverer serves
    ShardOf,        \* ShardKey() % shardCount of a connection's tenant
    Reqs,           \* the Request objects the pool hands out
    QueueSize,      \* capacity of a shard's channel
    ThresholdPct,   \* slowRecoveryThreshold, in percent
    BatchSize,      \* slowRecoveryBatchSize
    HandlerErrs,    \* how a handler call may end, see ErrKinds
    TimeoutMayFire, \* can syncTimeout expire before the handler answers?
    CloseMayTimeOut,\* can the 30s of Gateway.Close expire?
    None

Shards  == 1..NumShards
Servers == Workers \cup Recoverers

\* A handler returns no error, a *GatewayError, or any other error.
ErrKinds == {"nil", "gateway", "plain"}

ASSUME EngineAssumption ==
    /\ NumShards \in Nat \ {0}
    /\ QueueSize \in Nat \ {0}
    /\ ThresholdPct \in 1..100
    /\ BatchSize \in Nat \ {0}
    /\ IsFiniteSet(Clients) /\ IsFiniteSet(Workers) /\ IsFiniteSet(Recoverers)
    /\ Workers \cap Recoverers = {}
    /\ Home \in [Servers -> Shards]
    /\ ShardOf \in [Clients -> Shards]
    /\ HandlerErrs \subseteq ErrKinds
    /\ TimeoutMayFire \in BOOLEAN
    /\ CloseMayTimeOut \in BOOLEAN
    /\ None \notin Clients /\ None \notin Reqs

VARIABLES
    queue,      \* Shard.queue: the Request pointers in each channel
    pending,    \* Shard.pending
    wg,         \* the counter of Shard.wg
    recovering, \* Shard.recovering
    pc,         \* where each connection is
    obj,        \* the Request object a connection holds
    outcome,    \* what handleConnection wrote back
    free,       \* Request objects in the pool (poolOwned = false)
    payload,    \* whose request the fields of a Request object describe
    respCh,     \* Request.RespCh: the connection whose channel it is
    chan,       \* contents of each response channel, capacity 1
    spc,        \* where each worker or recoverer is
    sreq,       \* the Request pointer it took from the queue
    work,       \* what its handler call is about, then its result
    batch,      \* loop counter of slowRecover
    closeIdx,   \* Close has closed the queues of shards 1..closeIdx
    waitIdx,    \* and seen wg = 0 on shards 1..waitIdx
    gw,         \* "open", "closing", "closed" or "timedout"
    accepting,  \* the listener is open
    crashed     \* a goroutine panicked: the process is gone

clientVars == <<pc, obj, outcome>>
poolVars   == <<free, payload, respCh>>
serverVars == <<spc, sreq, work, batch>>
closeVars  == <<closeIdx, waitIdx, gw, accepting>>
vars == <<queue, pending, wg, recovering, clientVars, poolVars, chan,
          serverVars, closeVars, crashed>>

Closed(s) == s <= closeIdx

NoWork    == [subject |-> None, err |-> "nil", ch |-> None]
NoOutcome == [kind |-> "none", subject |-> None]

-----------------------------------------------------------------------------
(* Connections: handleConnection, DispatchSync, Dispatch                   *)

Goto(c, l) == pc' = [pc EXCEPT ![c] = l]

\* Mutant: a pooled object is handed on without filling in its fields.
Parse_Unfilled(c) ==
    /\ accepting
    /\ pc[c] = "idle"
    /\ \E o \in free :
          /\ free' = free \ {o}
          /\ obj' = [obj EXCEPT ![c] = o]
    /\ Goto(c, "parsed")
    /\ UNCHANGED <<queue, pending, wg, recovering, outcome, payload, respCh, chan,
                   serverVars, closeVars, crashed>>

\* accept, then ParseRequest: AcquireRequest and fill in the fields.
Parse(c) ==
    /\ accepting
    /\ pc[c] = "idle"
    /\ \E o \in free :
          /\ free' = free \ {o}
          /\ obj' = [obj EXCEPT ![c] = o]
          /\ payload' = [payload EXCEPT ![o] = c]
    /\ Goto(c, "parsed")
    /\ UNCHANGED <<queue, pending, wg, recovering, outcome, respCh, chan,
                   serverVars, closeVars, crashed>>

\* utilization > slowRecoveryThreshold
Overloaded(s) == pending[s] * 100 > QueueSize * ThresholdPct

\* DispatchSync makes RespCh; Dispatch loads pending.
StartDispatch(c) ==
    /\ pc[c] = "parsed"
    /\ respCh' = [respCh EXCEPT ![obj[c]] = c]
    /\ Goto(c, IF Overloaded(ShardOf[c]) THEN "recover" ELSE "count")
    /\ UNCHANGED <<queue, pending, wg, recovering, obj, outcome, free, payload,
                   chan, serverVars, closeVars, crashed>>

\* Mutant: the flag is loaded and stored in two steps.
TryRecover_CheckThenSet(c) ==
    LET s == ShardOf[c] IN
    /\ \/ /\ pc[c] = "recover"
          /\ Goto(c, IF recovering[s] THEN "count" ELSE "store")
          /\ UNCHANGED <<recovering, spc, batch>>
       \/ /\ pc[c] = "store"
          /\ Goto(c, "count")
          /\ recovering' = [recovering EXCEPT ![s] = TRUE]
          /\ \E r \in Recoverers :
                /\ Home[r] = s /\ spc[r] = "idle"
                /\ spc' = [spc EXCEPT ![r] = "poll"]
                /\ batch' = [batch EXCEPT ![r] = 0]
    /\ UNCHANGED <<queue, pending, wg, obj, outcome, poolVars, chan,
                   sreq, work, closeVars, crashed>>

\* recovering.CompareAndSwap(false, true); go shard.slowRecover()
TryRecover(c) ==
    LET s == ShardOf[c] IN
    /\ pc[c] = "recover"
    /\ Goto(c, "count")
    /\ \/ /\ ~recovering[s]
          /\ recovering' = [recovering EXCEPT ![s] = TRUE]
          /\ \E r \in Recoverers :
                /\ Home[r] = s /\ spc[r] = "idle"
                /\ spc' = [spc EXCEPT ![r] = "poll"]
                /\ batch' = [batch EXCEPT ![r] = 0]
       \/ /\ recovering[s]
          /\ UNCHANGED <<recovering, spc, batch>>
    /\ UNCHANGED <<queue, pending, wg, obj, outcome, poolVars, chan,
                   sreq, work, closeVars, crashed>>

\* shard.wg.Add(1)
CountWg(c) ==
    /\ pc[c] = "count"
    /\ wg' = [wg EXCEPT ![ShardOf[c]] = @ + 1]
    /\ Goto(c, "add")
    /\ UNCHANGED <<queue, pending, recovering, obj, outcome, poolVars, chan,
                   serverVars, closeVars, crashed>>

\* shard.pending.Add(1)
CountPending(c) ==
    /\ pc[c] = "add"
    /\ pending' = [pending EXCEPT ![ShardOf[c]] = @ + 1]
    /\ Goto(c, "send")
    /\ UNCHANGED <<queue, wg, recovering, obj, outcome, poolVars, chan,
                   serverVars, closeVars, crashed>>

\* ReleaseRequest: every field but RespCh is cleared and the object is pooled;
\* nothing happens to an object that is already there.
Release(o) ==
    /\ free' = free \cup {o}
    /\ payload' = [payload EXCEPT ![o] = IF o \in free THEN @ ELSE None]
    /\ UNCHANGED respCh

\* handleConnection writes its answer and closes the connection.
Answer(c, kind, subject) ==
    /\ outcome' = [outcome EXCEPT ![c] = [kind |-> kind, subject |-> subject]]
    /\ obj' = [obj EXCEPT ![c] = None]
    /\ Goto(c, "end")

\* select { case shard.queue <- req: default: }.  A send on a closed channel
\* panics, and nothing recovers it: the process ends.
Enqueue(c) ==
    LET s == ShardOf[c] IN
    /\ pc[c] = "send"
    /\ \/ /\ Closed(s)
          /\ crashed' = TRUE
          /\ UNCHANGED <<queue, pc>>
       \/ /\ ~Closed(s) /\ Len(queue[s]) < QueueSize
          /\ queue' = [queue EXCEPT ![s] = Append(@, obj[c])]
          /\ Goto(c, "wait")
          /\ UNCHANGED crashed
       \/ /\ ~Closed(s) /\ Len(queue[s]) >= QueueSize
          /\ Goto(c, "undo")
          /\ UNCHANGED <<queue, crashed>>
    /\ UNCHANGED <<pending, wg, recovering, obj, outcome, poolVars, chan,
                   serverVars, closeVars>>

\* Mutant: Dispatch already releases the request it rejects.
UndoPending_EarlyRelease(c) ==
    /\ pc[c] = "undo"
    /\ pending' = [pending EXCEPT ![ShardOf[c]] = @ - 1]
    /\ Release(obj[c])
    /\ Goto(c, "undone")
    /\ UNCHANGED <<queue, wg, recovering, obj, outcome, chan, serverVars,
                   closeVars, crashed>>

\* The default branch: shard.pending.Add(-1) ...
UndoPending(c) ==
    /\ pc[c] = "undo"
    /\ pending' = [pending EXCEPT ![ShardOf[c]] = @ - 1]
    /\ Goto(c, "undone")
    /\ UNCHANGED <<queue, wg, recovering, obj, outcome, poolVars, chan,
                   serverVars, closeVars, crashed>>

\* ... shard.wg.Done(), ErrRateLimited, and DispatchSync releases the request.
Reject(c) ==
    /\ pc[c] = "undone"
    /\ wg' = [wg EXCEPT ![ShardOf[c]] = @ - 1]
    /\ Release(obj[c])
    /\ Answer(c, "error", c)
    /\ UNCHANGED <<queue, pending, recovering, chan, serverVars, closeVars,
                   crashed>>

\* case result := <-req.RespCh.  Only a *GatewayError is written back.
Deliver(c) ==
    /\ pc[c] = "wait"
    /\ chan[c] # <<>>
    /\ LET result == Head(chan[c])
           kind == CASE result.err = "nil"     -> "response"
                     [] result.err = "gateway" -> "error"
                     [] OTHER                  -> "nothing"
       IN Answer(c, kind, result.subject)
    /\ chan' = [chan EXCEPT ![c] = Tail(@)]
    /\ Release(obj[c])
    /\ UNCHANGED <<queue, pending, wg, recovering, serverVars, closeVars,
                   crashed>>

\* Mutant: the timer is stopped before the select.
SyncTimeout_Stopped(c) ==
    /\ pc[c] = "wait" /\ FALSE
    /\ UNCHANGED vars

\* case <-timer.C: the request is released although a server may hold it.
SyncTimeout(c) ==
    /\ TimeoutMayFire
    /\ pc[c] = "wait"
    /\ Release(obj[c])
    /\ Answer(c, "timeout", c)
    /\ UNCHANGED <<queue, pending, wg, recovering, chan, serverVars, closeVars,
                   crashed>>

-----------------------------------------------------------------------------
(* Servers: Shard.run and Shard.slowRecover                                *)

SGoto(a, l) == spc' = [spc EXCEPT ![a] = l]

Take(a) ==
    LET s == Home[a] IN
    /\ queue[s] # <<>>
    /\ sreq' = [sreq EXCEPT ![a] = Head(queue[s])]
    /\ queue' = [queue EXCEPT ![s] = Tail(@)]
    /\ SGoto(a, "got")

\* Mutant: the loop looks at the closing of the channel before its contents.
WorkerExit_Undrained(w) ==
    /\ spc[w] = "recv"
    /\ Closed(Home[w])
    /\ SGoto(w, "exit")
    /\ UNCHANGED <<queue, pending, wg, recovering, clientVars, poolVars, chan,
                   sreq, work, batch, closeVars, crashed>>

\* for req := range s.queue
Receive(w) ==
    /\ spc[w] = "recv"
    /\ Take(w)
    /\ UNCHANGED <<pending, wg, recovering, clientVars, poolVars, chan, work,
                   batch, closeVars, crashed>>

\* The range loop ends when the channel is closed and drained.
WorkerExit(w) ==
    /\ spc[w] = "recv"
    /\ Closed(Home[w]) /\ queue[Home[w]] = <<>>
    /\ SGoto(w, "exit")
    /\ UNCHANGED <<queue, pending, wg, recovering, clientVars, poolVars, chan,
                   sreq, work, batch, closeVars, crashed>>

\* select { case req := <-s.queue: default: return }, at most BatchSize times.
RecoverTake(r) ==
    /\ spc[r] = "poll"
    /\ batch[r] < BatchSize
    /\ Take(r)
    /\ UNCHANGED <<pending, wg, recovering, clientVars, poolVars, chan, work,
                   batch, closeVars, crashed>>

\* default, nil from a closed channel, or the end of the loop.
RecoverStop(r) ==
    /\ spc[r] = "poll"
    /\ batch[r] >= BatchSize \/ queue[Home[r]] = <<>>
    /\ SGoto(r, "return")
    /\ UNCHANGED <<queue, pending, wg, recovering, clientVars, poolVars, chan,
                   sreq, work, batch, closeVars, crashed>>

\* defer s.recovering.Store(false)
RecoverReturn(r) ==
    /\ spc[r] = "return"
    /\ recovering' = [recovering EXCEPT ![Home[r]] = FALSE]
    /\ SGoto(r, "idle")
    /\ UNCHANGED <<queue, pending, wg, clientVars, poolVars, chan, sreq, work,
                   batch, closeVars, crashed>>

\* s.pending.Add(-1), then s.worker(req) starts reading the request.
StartHandler(a) ==
    /\ spc[a] = "got"
    /\ pending' = [pending EXCEPT ![Home[a]] = @ - 1]
    /\ work' = [work EXCEPT ![a] = [NoWork EXCEPT !.subject = payload[sreq[a]]]]
    /\ SGoto(a, "handle")
    /\ UNCHANGED <<queue, wg, recovering, clientVars, poolVars, chan, sreq,
                   batch, closeVars, crashed>>

\* The handler returns.  It reads the request throughout, unsynchronised with
\* a release and reuse of the object: its answer is about what the object
\* described when it started or when it ended.  req.RespCh is read now.
EndHandler(a) ==
    /\ spc[a] = "handle"
    /\ \E e \in HandlerErrs, p \in {work[a].subject, payload[sreq[a]]} :
          work' = [work EXCEPT ![a] =
                     [subject |-> p, err |-> e, ch |-> respCh[sreq[a]]]]
    /\ SGoto(a, "reply")
    /\ UNCHANGED <<queue, pending, wg, recovering, clientVars, poolVars, chan,
                   sreq, batch, closeVars, crashed>>

\* req.RespCh <- &ResponseResult{...}: blocks while the channel is full.
Reply(a) ==
    LET ch == work[a].ch IN
    /\ spc[a] = "reply"
    /\ Len(chan[ch]) < 1
    /\ chan' = [chan EXCEPT ![ch] = Append(@, work[a])]
    /\ SGoto(a, "finish")
    /\ UNCHANGED <<queue, pending, wg, recovering, clientVars, poolVars, sreq,
                   work, batch, closeVars, crashed>>

\* s.wg.Done(), next iteration
Finish(a) ==
    /\ spc[a] = "finish"
    /\ wg' = [wg EXCEPT ![Home[a]] = @ - 1]
    /\ sreq' = [sreq EXCEPT ![a] = None]
    /\ work' = [work EXCEPT ![a] = NoWork]
    /\ \/ a \in Workers /\ SGoto(a, "recv") /\ UNCHANGED batch
       \/ /\ a \in Recoverers
          /\ SGoto(a, "poll")
          /\ batch' = [batch EXCEPT ![a] = @ + 1]
    /\ UNCHANGED <<queue, pending, recovering, clientVars, poolVars, chan,
                   closeVars, crashed>>

-----------------------------------------------------------------------------
(* Shutdown: Gateway.Close, then the listener's shutdown handler.  Handlers *)
(* run last registered first, and main registers the listener's first.     *)

StartClose ==
    /\ gw = "open"
    /\ gw' = "closing"
    /\ UNCHANGED <<queue, pending, wg, recovering, clientVars, poolVars, chan,
                   serverVars, closeIdx, waitIdx, accepting, crashed>>

\* close(shard.queue), shard after shard
CloseQueue ==
    /\ gw = "closing"
    /\ closeIdx < NumShards
    /\ closeIdx' = closeIdx + 1
    /\ UNCHANGED <<queue, pending, wg, recovering, clientVars, poolVars, chan,
                   serverVars, waitIdx, gw, accepting, crashed>>

\* Mutant: Close waits for pending instead of the WaitGroup.
WaitShard_OnPending ==
    /\ gw = "closing"
    /\ closeIdx = NumShards /\ waitIdx < NumShards
    /\ pending[waitIdx + 1] = 0
    /\ waitIdx' = waitIdx + 1
    /\ UNCHANGED <<queue, pending, wg, recovering, clientVars, poolVars, chan,
                   serverVars, closeIdx, gw, accepting, crashed>>

\* shard.wg.Wait(), shard after shard
WaitShard ==
    /\ gw = "closing"
    /\ closeIdx = NumShards /\ waitIdx < NumShards
    /\ wg[waitIdx + 1] = 0
    /\ waitIdx' = waitIdx + 1
    /\ UNCHANGED <<queue, pending, wg, recovering, clientVars, poolVars, chan,
                   serverVars, closeIdx, gw, accepting, crashed>>

CloseReturns ==
    /\ gw = "closing" /\ closeIdx = NumShards
    /\ \/ waitIdx = NumShards /\ gw' = "closed"
       \/ CloseMayTimeOut /\ gw' = "timedout"
    /\ UNCHANGED <<queue, pending, wg, recovering, clientVars, poolVars, chan,
                   serverVars, closeIdx, waitIdx, accepting, crashed>>

CloseListener ==
    /\ gw \in {"closed", "timedout"}
    /\ accepting
    /\ accepting' = FALSE
    /\ UNCHANGED <<queue, pending, wg, recovering, clientVars, poolVars, chan,
                   serverVars, closeIdx, waitIdx, gw, crashed>>

-----------------------------------------------------------------------------
Init ==
    /\ queue = [s \in Shards |-> <<>>]
    /\ pending = [s \in Shards |-> 0]
    /\ wg = [s \in Shards |-> 0]
    /\ recovering = [s \in Shards |-> FALSE]
    /\ pc = [c \in Clients |-> "idle"]
    /\ obj = [c \in Clients |-> None]
    /\ outcome = [c \in Clients |-> NoOutcome]
    /\ free = Reqs
    /\ payload = [o \in Reqs |-> None]
    /\ respCh = [o \in Reqs |-> None]
    /\ chan = [c \in Clients |-> <<>>]
    /\ spc = [a \in Servers |-> IF a \in Workers THEN "recv" ELSE "idle"]
    /\ sreq = [a \in Servers |-> None]
    /\ work = [a \in Servers |-> NoWork]
    /\ batch = [a \in Servers |-> 0]
    /\ closeIdx = 0 /\ waitIdx = 0
    /\ gw = "open" /\ accepting = TRUE
    /\ crashed = FALSE

DispatchStep(c) ==
    \/ StartDispatch(c) \/ TryRecover(c) \/ CountWg(c) \/ CountPending(c)
    \/ Enqueue(c) \/ UndoPending(c) \/ Reject(c)

AwaitStep(c) == Deliver(c) \/ SyncTimeout(c)

ClientStep(c) == Parse(c) \/ DispatchStep(c) \/ AwaitStep(c)

HandleStep(a) ==
    StartHandler(a) \/ EndHandler(a) \/ Reply(a) \/ Finish(a)

WorkerStep(w)  == Receive(w) \/ WorkerExit(w) \/ HandleStep(w)
RecoverStep(r) ==
    RecoverTake(r) \/ RecoverStop(r) \/ RecoverReturn(r) \/ HandleStep(r)

CloseStep ==
    StartClose \/ CloseQueue \/ WaitShard \/ CloseReturns \/ CloseListener

\* A process that has panicked, or shut down with nothing left to do, stops.
Terminated ==
    \/ crashed
    \/ /\ ~accepting
       /\ \A c \in Clients : pc[c] \in {"idle", "end"}
       /\ \A w \in Workers : spc[w] = "exit"
       /\ \A r \in Recoverers : spc[r] = "idle"

Next ==
    \/ /\ ~crashed
       /\ \/ \E c \in Clients : ClientStep(c)
          \/ \E w \in Workers : WorkerStep(w)
          \/ \E r \in Recoverers : RecoverStep(r)
          \/ CloseStep
    \/ Terminated /\ UNCHANGED vars

Spec == Init /\ [][Next]_vars

\* A goroutine that can run is eventually scheduled, and a shutdown that began
\* goes on.  Nothing makes connections arrive or a shutdown begin, and nothing
\* is asked of the servers: a handler may hang for ever.
Fairness ==
    /\ \A c \in Clients :
          WF_vars(~crashed /\ (DispatchStep(c) \/ AwaitStep(c)))
    /\ WF_vars(~crashed /\ CloseStep /\ gw # "open")

FairSpec == Spec /\ Fairness

-----------------------------------------------------------------------------
(* Properties                                                              *)

ClientLabels == {"idle", "parsed", "recover", "count", "add", "send", "undo",
                 "undone", "wait", "end"}
ServerLabels == {"recv", "exit", "idle", "poll", "return", "got", "handle",
                 "reply", "finish"}
Results == [subject : Clients \cup {None}, err : ErrKinds,
            ch : Clients \cup {None}]

\* Types of every variable of the engine.
TypeOK ==
    /\ queue \in [Shards -> Seq(Reqs)]
    /\ pending \in [Shards -> Int]
    /\ wg \in [Shards -> Int]
    /\ recovering \in [Shards -> BOOLEAN]
    /\ pc \in [Clients -> ClientLabels]
    /\ obj \in [Clients -> Reqs \cup {None}]
    /\ outcome \in [Clients -> [kind : {"none", "response", "error", "timeout",
                                        "nothing"},
                                subject : Clients \cup {None}]]
    /\ free \in SUBSET Reqs
    /\ payload \in [Reqs -> Clients \cup {None}]
    /\ respCh \in [Reqs -> Clients \cup {None}]
    /\ chan \in [Clients -> Seq(Results)]
    /\ spc \in [Servers -> ServerLabels]
    /\ sreq \in [Servers -> Reqs \cup {None}]
    /\ work \in [Servers -> Results]
    /\ batch \in [Servers -> Nat]
    /\ closeIdx \in 0..NumShards
    /\ waitIdx \in 0..NumShards
    /\ gw \in {"open", "closing", "closed", "timedout"}
    /\ accepting \in BOOLEAN
    /\ crashed \in BOOLEAN

DispatchersAt(s, labels) ==
    {c \in Clients : ShardOf[c] = s /\ pc[c] \in labels}
ServersAt(s, labels) ==
    {a \in Servers : Home[a] = s /\ spc[a] \in labels}

Busy == {"got", "handle", "reply", "finish"}
Active == {"poll", "return"} \cup Busy

\* Shard.pending counts the queued requests and, besides them, exactly the
\* dispatchers between their Add(1) and the end of their send, and the servers
\* between a receive and their Add(-1): backpressure never undercounts and no
\* rejected or timed-out request leaks a count.
PendingExact ==
    \A s \in Shards :
        pending[s] = Len(queue[s])
                     + Cardinality(DispatchersAt(s, {"send", "undo"}))
                     + Cardinality(ServersAt(s, {"got"}))

\* Shard.wg counts every request between its wg.Add(1) and its wg.Done().
WgExact ==
    \A s \in Shards :
        wg[s] = Len(queue[s])
                + Cardinality(DispatchersAt(s, {"add", "send", "undo", "undone"}))
                + Cardinality(ServersAt(s, Busy))

\* Both counters of a shard are exact (Dispatch, run, slowRecover).
CountersExact == PendingExact /\ WgExact

\* The recovering flag admits one slowRecover per shard, and is set exactly
\* while one runs: backpressure can neither pile up helpers nor lose them.
OneRecoverer ==
    /\ \A r1, r2 \in Recoverers :
          /\ Home[r1] = Home[r2]
          /\ spc[r1] \in Active /\ spc[r2] \in Active
          => r1 = r2
    /\ \A s \in Shards :
          recovering[s] <=> \E r \in Recoverers :
                               Home[r] = s /\ spc[r] \in Active

\* What admission and shutdown decide by is exact: both counters of a shard, and
\* the flag that limits its helpers (Dispatch, tryRecover, slowRecover, run).
BookkeepingExact == CountersExact /\ OneRecoverer

\* Once Close has seen a shard's WaitGroup at zero, nothing is queued on the
\* shard or in the hands of its servers, and nothing ever is again.
DrainedOnceWaited ==
    \A s \in 1..waitIdx : queue[s] = <<>> /\ ServersAt(s, Busy) = {}

\* Between its acquisition and its release a Request object belongs to one
\* connection, and is not in the pool.
ExclusiveOwner ==
    \A c \in Clients : obj[c] # None =>
        /\ obj[c] \notin free
        /\ \A d \in Clients \ {c} : obj[d] # obj[c]

\* A connection is answered with the result of its own request.
AnswersOwnRequest ==
    \A c \in Clients :
        outcome[c].kind \in {"response", "nothing"} => outcome[c].subject = c

SomeTimedOut == \E c \in Clients : outcome[c].kind = "timeout"

\* Only the release of a Request whose caller has timed out can hand a
\* connection the result of another one's request.
ForeignNeedsTimeout == AnswersOwnRequest \/ SomeTimedOut

\* Shutdown hooks run last registered first, so that intake stops before what
\* is behind it and the requests in flight are waited for: no request dies
\* with the process in the middle of its way (Graceful.Shutdown, Close).
InFlightSurvive == ~crashed

ReplyBlocked == \E a \in Servers : spc[a] = "reply" /\ chan[work[a].ch] # <<>>

\* A server about to write to RespCh finds room in it, unless a Request was
\* released on a timeout before: the write of a result does not block, and a
\* shard is not stopped by a caller that has left.
BlockingNeedsTimeout == ReplyBlocked => SomeTimedOut

\* All that goes wrong with replies comes from that release (DispatchSync).
LateRepliesOnly == ForeignNeedsTimeout /\ BlockingNeedsTimeout

\* Every connection whose request was parsed is eventually answered, although
\* handlers may hang: syncTimeout ends every wait.
EveryClientReturns ==
    \A c \in Clients : pc[c] = "parsed" ~> (pc[c] = "end" \/ crashed)

ServersRun ==
    /\ \A w \in Workers : WF_vars(~crashed /\ WorkerStep(w))
    /\ \A r \in Recoverers : WF_vars(~crashed /\ RecoverStep(r))

\* A shutdown drains: if handlers return and no reply blocks, then once Close
\* has begun every queue is emptied and every worker and helper ends, whether
\* Close still waits for them or not.
CloseDrains ==
    ServersRun /\ []~ReplyBlocked =>
        (gw = "closing" ~> \/ crashed
                           \/ /\ \A s \in Shards : queue[s] = <<>>
                              /\ \A w \in Workers : spc[w] = "exit"
                              /\ \A r \in Recoverers : spc[r] = "idle")
=============================================================================
