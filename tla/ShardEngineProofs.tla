------------------------- MODULE ShardEngineProofs -------------------------
(***************************************************************************)
(* Safety of the shard engine for any number of shards, connections,       *)
(* workers and Request objects, any queue size, threshold and batch size,  *)
(* with or without timeouts.                                               *)
(***************************************************************************)
EXTENDS ShardEngine, FiniteSetTheorems, SequenceTheorems, TLAPS

-----------------------------------------------------------------------------
(* The inductive invariant *)

\* Who is inside the engine holds an object.
Holding ==
    /\ \A c \in Clients : pc[c] \notin {"idle", "end"} => obj[c] \in Reqs
    /\ \A a \in Servers : spc[a] \in Busy => sreq[a] \in Reqs

\* Waiting starts when every queue is closed.
WaitsAfterClose == waitIdx > 0 => closeIdx = NumShards

TypeInv == TypeOK /\ Holding

\* Every action of Next, or a stuttering step: the cases of the proofs below.
Cases ==
    \/ \E c \in Clients : ClientStep(c)
    \/ \E a \in Servers : HandleStep(a)
    \/ \E w \in Workers : Receive(w) \/ WorkerExit(w)
    \/ \E r \in Recoverers : RecoverTake(r) \/ RecoverStop(r) \/ RecoverReturn(r)
    \/ CloseStep
    \/ UNCHANGED vars

LEMMA NextCases == [Next]_vars => Cases
BY DEF Next, Cases, WorkerStep, RecoverStep, Servers

-----------------------------------------------------------------------------
(* Types *)

\* What a server takes from a queue is a Request, and the rest is a queue.
LEMMA TakeTypes ==
    ASSUME TypeOK, NEW a \in Servers, Take(a)
    PROVE  /\ queue' \in [Shards -> Seq(Reqs)]
           /\ sreq' \in [Servers -> Reqs \cup {None}]
           /\ sreq'[a] \in Reqs
           /\ \A b \in Servers \ {a} : sreq'[b] = sreq[b]
           /\ spc' = [spc EXCEPT ![a] = "got"]
<1>1. Home[a] \in Shards
  BY EngineAssumption
<1>2. queue[Home[a]] \in Seq(Reqs) /\ queue[Home[a]] # <<>>
  BY <1>1 DEF TypeOK, Take
<1>3. Head(queue[Home[a]]) \in Reqs /\ Tail(queue[Home[a]]) \in Seq(Reqs)
  BY <1>2, HeadTailProperties
<1>4. QED
  BY <1>1, <1>3 DEF TypeOK, Take, SGoto

LEMMA InitTypeInv == Init => TypeInv
<1> SUFFICES ASSUME Init PROVE TypeInv
  OBVIOUS
<1>1. <<>> \in Seq(Reqs) /\ <<>> \in Seq(Results)
  BY EmptySeq
<1>2. NoWork \in Results
  BY DEF NoWork, Results, ErrKinds
<1>3. TypeOK
  <2>1. /\ queue \in [Shards -> Seq(Reqs)] /\ chan \in [Clients -> Seq(Results)]
        /\ pending \in [Shards -> Int] /\ wg \in [Shards -> Int]
        /\ work \in [Servers -> Results]
    BY <1>1, <1>2 DEF Init
  <2>2. /\ recovering \in [Shards -> BOOLEAN]
        /\ accepting \in BOOLEAN /\ crashed \in BOOLEAN
    BY DEF Init
  <2>3. /\ pc \in [Clients -> ClientLabels] /\ spc \in [Servers -> ServerLabels]
        /\ obj \in [Clients -> Reqs \cup {None}]
        /\ sreq \in [Servers -> Reqs \cup {None}]
        /\ free \in SUBSET Reqs
        /\ payload \in [Reqs -> Clients \cup {None}]
        /\ respCh \in [Reqs -> Clients \cup {None}]
        /\ batch \in [Servers -> Nat]
    BY DEF Init, ClientLabels, ServerLabels
  <2>4. outcome \in [Clients -> [kind : {"none", "response", "error", "timeout", "nothing"},
                                subject : Clients \cup {None}]]
    BY DEF Init, NoOutcome
  <2>5. /\ closeIdx \in 0..NumShards /\ waitIdx \in 0..NumShards
        /\ gw \in {"open", "closing", "closed", "timedout"}
    BY EngineAssumption DEF Init
  <2>6. QED
    BY <2>1, <2>2, <2>3, <2>4, <2>5 DEF TypeOK
<1>4. Holding
  BY DEF Init, Holding, Busy
<1>5. QED
  BY <1>3, <1>4 DEF TypeInv

\* Steps of a connection keep the types.
LEMMA ClientTypes ==
    ASSUME TypeInv, NEW c \in Clients, ClientStep(c)
    PROVE  TypeInv'
<1> USE DEF TypeInv, Goto
<1>0. ShardOf[c] \in Shards
  BY EngineAssumption
<1>1. CASE Parse(c)
  <2>1. TypeOK'
    BY <1>1 DEF TypeOK, Parse, ClientLabels, serverVars, closeVars
  <2>2. Holding'
    BY <1>1 DEF TypeOK, Holding, Parse, serverVars
  <2>3. QED
    BY <2>1, <2>2
<1>2. CASE StartDispatch(c)
  BY <1>2 DEF TypeOK, Holding, StartDispatch, ClientLabels, serverVars,
              closeVars
<1>3. CASE TryRecover(c)
  <2>1. /\ spc' \in [Servers -> ServerLabels] /\ batch' \in [Servers -> Nat]
        /\ \A a \in Servers : spc'[a] \in Busy => spc[a] \in Busy
    <3>1. CASE \E r \in Recoverers : /\ spc' = [spc EXCEPT ![r] = "poll"]
                                     /\ batch' = [batch EXCEPT ![r] = 0]
      <4>1. PICK r \in Recoverers : /\ spc' = [spc EXCEPT ![r] = "poll"]
                                    /\ batch' = [batch EXCEPT ![r] = 0]
        BY <3>1
      <4>2. r \in Servers
        BY DEF Servers
      <4>3. QED
        BY <4>1, <4>2 DEF TypeOK, ServerLabels, Busy
    <3>2. CASE UNCHANGED <<spc, batch>>
      BY <3>2 DEF TypeOK
    <3>3. QED
      BY <1>3, <3>1, <3>2 DEF TryRecover
  <2>2. recovering' \in [Shards -> BOOLEAN]
    BY <1>3 DEF TypeOK, TryRecover
  <2>3. TypeOK'
    BY <1>3, <2>1, <2>2 DEF TypeOK, TryRecover, ClientLabels, poolVars, closeVars
  <2>4. Holding'
    BY <1>3, <2>1 DEF TypeOK, Holding, TryRecover
  <2>5. QED
    BY <2>3, <2>4
<1>4. CASE CountWg(c)
  BY <1>4, <1>0 DEF TypeOK, Holding, CountWg, ClientLabels, poolVars,
                    serverVars, closeVars
<1>5. CASE CountPending(c)
  BY <1>5, <1>0 DEF TypeOK, Holding, CountPending, ClientLabels, poolVars,
                    serverVars, closeVars
<1>6. CASE Enqueue(c)
  <2>1. obj[c] \in Reqs /\ queue[ShardOf[c]] \in Seq(Reqs)
    BY <1>6, <1>0 DEF Enqueue, Holding, TypeOK
  <2>2. Append(queue[ShardOf[c]], obj[c]) \in Seq(Reqs)
    BY <2>1, AppendProperties
  <2>3. TypeOK'
    <3>1. crashed' \in BOOLEAN
      BY <1>6 DEF TypeOK, Enqueue
    <3>2. queue' \in [Shards -> Seq(Reqs)] /\ pc' \in [Clients -> ClientLabels]
      <4>1. CASE UNCHANGED <<queue, pc>>
        BY <4>1 DEF TypeOK
      <4>2. CASE /\ queue' = [queue EXCEPT ![ShardOf[c]] = Append(@, obj[c])]
                 /\ pc' = [pc EXCEPT ![c] = "wait"]
        BY <4>2, <1>0, <2>2 DEF TypeOK, ClientLabels
      <4>3. CASE pc' = [pc EXCEPT ![c] = "undo"] /\ UNCHANGED queue
        BY <4>3 DEF TypeOK, ClientLabels
      <4>4. QED
        BY <1>6, <4>1, <4>2, <4>3 DEF Enqueue
    <3>3. QED
      BY <1>6, <3>1, <3>2 DEF TypeOK, Enqueue, poolVars, serverVars, closeVars
  <2>4. Holding'
    BY <1>6 DEF TypeOK, Holding, Enqueue, serverVars
  <2>5. QED
    BY <2>3, <2>4
<1>7. CASE UndoPending(c)
  BY <1>7, <1>0 DEF TypeOK, Holding, UndoPending, ClientLabels, poolVars,
                    serverVars, closeVars
<1>8. CASE Reject(c)
  <2>1. obj[c] \in Reqs
    BY <1>8 DEF Reject, Holding
  <2>2. TypeOK'
    BY <1>8, <1>0, <2>1 DEF TypeOK, Reject, Release, Answer, ClientLabels,
                            serverVars, closeVars
  <2>3. Holding'
    BY <1>8 DEF TypeOK, Holding, Reject, Answer, serverVars
  <2>4. QED
    BY <2>2, <2>3
<1>9. CASE Deliver(c)
  <2>1. obj[c] \in Reqs /\ chan[c] \in Seq(Results) /\ chan[c] # <<>>
    BY <1>9 DEF Deliver, Holding, TypeOK
  <2>2. Head(chan[c]) \in Results /\ Tail(chan[c]) \in Seq(Results)
    BY <2>1, HeadTailProperties
  <2>3. Head(chan[c]).subject \in Clients \cup {None}
    BY <2>2 DEF Results
  <2>4. TypeOK'
    BY <1>9, <2>1, <2>2, <2>3 DEF TypeOK, Deliver, Release, Answer,
                                  ClientLabels, serverVars, closeVars
  <2>5. Holding'
    BY <1>9 DEF TypeOK, Holding, Deliver, Answer, serverVars
  <2>6. QED
    BY <2>4, <2>5
<1>10. CASE SyncTimeout(c)
  <2>1. obj[c] \in Reqs
    BY <1>10 DEF SyncTimeout, Holding
  <2>2. TypeOK'
    BY <1>10, <2>1 DEF TypeOK, SyncTimeout, Release, Answer, ClientLabels,
                       serverVars, closeVars
  <2>3. Holding'
    BY <1>10 DEF TypeOK, Holding, SyncTimeout, Answer, serverVars
  <2>4. QED
    BY <2>2, <2>3
<1>11. QED
  BY <1>1, <1>2, <1>3, <1>4, <1>5, <1>6, <1>7, <1>8, <1>9, <1>10
     DEF ClientStep, DispatchStep, AwaitStep

\* Steps of a worker or a helper while it handles a request keep the types.
LEMMA HandleTypes ==
    ASSUME TypeInv, NEW a \in Servers, HandleStep(a)
    PROVE  TypeInv'
<1> USE DEF TypeInv, SGoto
<1>0. Home[a] \in Shards
  BY EngineAssumption
<1>1. CASE StartHandler(a)
  <2>1. sreq[a] \in Reqs
    BY <1>1 DEF StartHandler, Holding, Busy
  <2>2. [NoWork EXCEPT !.subject = payload[sreq[a]]] \in Results
    BY <2>1 DEF TypeOK, Results, NoWork, ErrKinds
  <2>3. TypeOK'
    BY <1>0, <1>1, <2>2 DEF TypeOK, StartHandler, ServerLabels, clientVars,
                            poolVars, closeVars
  <2>4. Holding'
    BY <1>1 DEF TypeOK, Holding, StartHandler, Busy, clientVars
  <2>5. QED
    BY <2>3, <2>4
<1>2. CASE EndHandler(a)
  <2>1. sreq[a] \in Reqs /\ work[a] \in Results
    BY <1>2 DEF EndHandler, Holding, Busy, TypeOK
  <2>2. PICK e \in HandlerErrs, p \in {work[a].subject, payload[sreq[a]]} :
          work' = [work EXCEPT ![a] =
                     [subject |-> p, err |-> e, ch |-> respCh[sreq[a]]]]
    BY <1>2 DEF EndHandler
  <2>3. [subject |-> p, err |-> e, ch |-> respCh[sreq[a]]] \in Results
    BY <2>1, EngineAssumption DEF TypeOK, Results
  <2>4. TypeOK'
    BY <1>2, <2>2, <2>3 DEF TypeOK, EndHandler, ServerLabels, clientVars,
                            poolVars, closeVars
  <2>5. Holding'
    BY <1>2 DEF TypeOK, Holding, EndHandler, Busy, clientVars
  <2>6. QED
    BY <2>4, <2>5
<1>3. CASE Reply(a)
  <2>1. work[a] \in Results
    BY DEF TypeOK
  <2>2. \A ch \in Clients : Append(chan[ch], work[a]) \in Seq(Results)
    BY <2>1, AppendProperties DEF TypeOK
  <2>3. chan' \in [Clients -> Seq(Results)]
    BY <1>3, <2>2 DEF TypeOK, Reply
  <2>4. TypeOK'
    BY <1>3, <2>3 DEF TypeOK, Reply, ServerLabels, clientVars, poolVars,
                      closeVars
  <2>5. Holding'
    BY <1>3 DEF TypeOK, Holding, Reply, Busy, clientVars
  <2>6. QED
    BY <2>4, <2>5
<1>4. CASE Finish(a)
  <2>1. NoWork \in Results
    BY DEF NoWork, Results, ErrKinds
  <2>2. TypeOK'
    <3>1. spc' \in [Servers -> ServerLabels] /\ batch' \in [Servers -> Nat]
      <4>1. CASE spc' = [spc EXCEPT ![a] = "recv"] /\ UNCHANGED batch
        BY <4>1 DEF TypeOK, ServerLabels
      <4>2. CASE /\ spc' = [spc EXCEPT ![a] = "poll"]
                 /\ batch' = [batch EXCEPT ![a] = @ + 1]
        <5>1. batch[a] + 1 \in Nat
          BY DEF TypeOK
        <5>2. QED
          BY <4>2, <5>1 DEF TypeOK, ServerLabels
      <4>3. QED
        BY <1>4, <4>1, <4>2 DEF Finish
    <3>2. /\ wg' \in [Shards -> Int] /\ work' \in [Servers -> Results]
          /\ sreq' \in [Servers -> Reqs \cup {None}]
      BY <1>0, <1>4, <2>1 DEF TypeOK, Finish
    <3>3. QED
      BY <1>4, <3>1, <3>2 DEF TypeOK, Finish, clientVars, poolVars, closeVars
  <2>3. Holding'
    BY <1>4 DEF TypeOK, Holding, Finish, Busy, clientVars
  <2>4. QED
    BY <2>2, <2>3
<1>5. QED
  BY <1>1, <1>2, <1>3, <1>4 DEF HandleStep

\* Every other step keeps the types.
LEMMA OtherTypes ==
    ASSUME TypeInv, Cases
    PROVE  TypeInv'
<1> USE DEF TypeInv
<1>1. ASSUME NEW a \in Servers, Take(a), UNCHANGED <<pending, wg, recovering,
               clientVars, poolVars, chan, work, batch, closeVars, crashed>>
      PROVE  TypeInv'
  <2>1. TypeOK'
    BY <1>1, TakeTypes DEF TypeOK, ServerLabels, clientVars, poolVars, closeVars
  <2>2. Holding'
    BY <1>1, TakeTypes DEF TypeOK, Holding, Busy, clientVars
  <2>3. QED
    BY <2>1, <2>2
<1>2. ASSUME NEW w \in Workers, Receive(w) PROVE TypeInv'
  BY <1>1, <1>2 DEF Receive, Servers
<1>3. ASSUME NEW r \in Recoverers, RecoverTake(r) PROVE TypeInv'
  BY <1>1, <1>3 DEF RecoverTake, Servers
<1>4. ASSUME NEW w \in Workers, WorkerExit(w) PROVE TypeInv'
  BY <1>4 DEF WorkerExit, SGoto, Servers, TypeOK, Holding, Busy, ServerLabels,
              clientVars, poolVars, closeVars
<1>5. ASSUME NEW r \in Recoverers, RecoverStop(r) PROVE TypeInv'
  BY <1>5 DEF RecoverStop, SGoto, Servers, TypeOK, Holding, Busy, ServerLabels,
              clientVars, poolVars, closeVars
<1>6. ASSUME NEW r \in Recoverers, RecoverReturn(r) PROVE TypeInv'
  BY <1>6 DEF RecoverReturn, SGoto, Servers, TypeOK, Holding, Busy,
              ServerLabels, clientVars, poolVars, closeVars
<1>7. CASE CloseStep
  <2>1. TypeOK'
    <3>1. /\ closeIdx' \in 0..NumShards /\ waitIdx' \in 0..NumShards
          /\ gw' \in {"open", "closing", "closed", "timedout"}
      BY <1>7, EngineAssumption
         DEF CloseStep, StartClose, CloseQueue, WaitShard, CloseReturns,
             CloseListener, TypeOK
    <3>2. accepting' \in BOOLEAN
      BY <1>7 DEF CloseStep, StartClose, CloseQueue, WaitShard, CloseReturns,
                  CloseListener, TypeOK
    <3>3. UNCHANGED <<queue, pending, wg, recovering, clientVars, poolVars,
                      chan, serverVars, crashed>>
      BY <1>7 DEF CloseStep, StartClose, CloseQueue, WaitShard, CloseReturns,
                  CloseListener
    <3>4. QED
      BY <3>1, <3>2, <3>3 DEF TypeOK, clientVars, poolVars, serverVars
  <2>2. Holding'
    BY <1>7 DEF CloseStep, StartClose, CloseQueue, WaitShard, CloseReturns,
           CloseListener, Holding, clientVars, serverVars
  <2>3. QED
    BY <2>1, <2>2
<1>8. CASE UNCHANGED vars
  BY <1>8 DEF vars, TypeOK, Holding, clientVars, poolVars, serverVars, closeVars
<1>9. QED
  BY <1>2, <1>3, <1>4, <1>5, <1>6, <1>7, <1>8, ClientTypes, HandleTypes
     DEF Cases

\* Type correctness of the engine: every variable keeps its type, and whoever
\* is inside Dispatch, run or slowRecover holds a Request.
THEOREM EngineTypes == Spec => []TypeInv
<1>1. TypeInv /\ [Next]_vars => TypeInv'
  BY NextCases, OtherTypes
<1>2. QED
  BY InitTypeInv, <1>1, PTL DEF Spec

\* TypeOK by itself.
THEOREM EngineTypeOK == Spec => []TypeOK
BY EngineTypes, PTL DEF TypeInv

-----------------------------------------------------------------------------
(* Counting: how one goroutine's move changes the number of those at a place *)

Sending(s) == Cardinality(DispatchersAt(s, {"send", "undo"}))
Counted(s) == Cardinality(DispatchersAt(s, {"add", "send", "undo", "undone"}))
Got(s)     == Cardinality(ServersAt(s, {"got"}))
BusyAt(s)  == Cardinality(ServersAt(s, Busy))
Ind(b)     == IF b THEN 1 ELSE 0

\* A connection moves to label l.
LEMMA ClientMove ==
    ASSUME TypeOK, NEW c \in Clients, NEW l, pc' = [pc EXCEPT ![c] = l],
           NEW s \in Shards, NEW L
    PROVE  /\ Cardinality(DispatchersAt(s, L)) \in Nat
           /\ ShardOf[c] # s => DispatchersAt(s, L)' = DispatchersAt(s, L)
           /\ ShardOf[c] = s =>
                Cardinality(DispatchersAt(s, L)') =
                  Cardinality(DispatchersAt(s, L)) + Ind(l \in L) - Ind(pc[c] \in L)
<1>1. IsFiniteSet(DispatchersAt(s, L))
  BY EngineAssumption, FS_Subset DEF DispatchersAt
<1>2. Cardinality(DispatchersAt(s, L)) \in Nat
  BY <1>1, FS_CardinalityType
<1>3. ShardOf[c] # s => DispatchersAt(s, L)' = DispatchersAt(s, L)
  BY DEF DispatchersAt, TypeOK
<1>4. ASSUME ShardOf[c] = s
      PROVE  /\ (pc[c] \in L) <=> c \in DispatchersAt(s, L)
             /\ l \in L => DispatchersAt(s, L)' = DispatchersAt(s, L) \cup {c}
             /\ l \notin L => DispatchersAt(s, L)' = DispatchersAt(s, L) \ {c}
  BY <1>4 DEF DispatchersAt, TypeOK
<1>5. ASSUME ShardOf[c] = s
      PROVE  Cardinality(DispatchersAt(s, L)') = Cardinality(DispatchersAt(s, L))
                + Ind(l \in L) - Ind(pc[c] \in L)
  <2>1. CASE l \in L /\ pc[c] \in L
    BY <1>1, <1>2, <1>4, <1>5, <2>1, FS_AddElement DEF Ind
  <2>2. CASE l \in L /\ pc[c] \notin L
    BY <1>1, <1>2, <1>4, <1>5, <2>2, FS_AddElement DEF Ind
  <2>3. CASE l \notin L /\ pc[c] \in L
    <3>1. Cardinality(DispatchersAt(s, L) \ {c}) = Cardinality(DispatchersAt(s, L)) - 1
      BY <1>1, <1>4, <1>5, <2>3, FS_RemoveElement
    <3>2. Ind(l \in L) = 0 /\ Ind(pc[c] \in L) = 1
      BY <2>3 DEF Ind
    <3>3. Cardinality(DispatchersAt(s, L)') = Cardinality(DispatchersAt(s, L) \ {c})
      BY <1>4, <1>5, <2>3, Zenon
    <3>4. QED
      BY <1>2, <3>1, <3>2, <3>3
  <2>4. CASE l \notin L /\ pc[c] \notin L
    BY <1>1, <1>2, <1>4, <1>5, <2>4, FS_RemoveElement DEF Ind
  <2>5. QED
    BY <2>1, <2>2, <2>3, <2>4
<1>6. QED
  BY <1>2, <1>3, <1>5

\* A worker or helper moves to label l.
LEMMA ServerMove ==
    ASSUME TypeOK, NEW a \in Servers, NEW l, spc' = [spc EXCEPT ![a] = l],
           NEW s \in Shards, NEW L
    PROVE  /\ Cardinality(ServersAt(s, L)) \in Nat
           /\ Home[a] # s => ServersAt(s, L)' = ServersAt(s, L)
           /\ Home[a] = s =>
                Cardinality(ServersAt(s, L)') =
                  Cardinality(ServersAt(s, L)) + Ind(l \in L) - Ind(spc[a] \in L)
<1>0. IsFiniteSet(Servers)
  BY EngineAssumption, FS_Union DEF Servers
<1>1. IsFiniteSet(ServersAt(s, L))
  BY <1>0, FS_Subset DEF ServersAt
<1>2. Cardinality(ServersAt(s, L)) \in Nat
  BY <1>1, FS_CardinalityType
<1>3. Home[a] # s => ServersAt(s, L)' = ServersAt(s, L)
  BY DEF ServersAt, TypeOK
<1>4. ASSUME Home[a] = s
      PROVE  /\ (spc[a] \in L) <=> a \in ServersAt(s, L)
             /\ l \in L => ServersAt(s, L)' = ServersAt(s, L) \cup {a}
             /\ l \notin L => ServersAt(s, L)' = ServersAt(s, L) \ {a}
  BY <1>4 DEF ServersAt, TypeOK
<1>5. ASSUME Home[a] = s
      PROVE  Cardinality(ServersAt(s, L)') = Cardinality(ServersAt(s, L))
                + Ind(l \in L) - Ind(spc[a] \in L)
  <2>1. CASE l \in L /\ spc[a] \in L
    BY <1>1, <1>2, <1>4, <1>5, <2>1, FS_AddElement DEF Ind
  <2>2. CASE l \in L /\ spc[a] \notin L
    BY <1>1, <1>2, <1>4, <1>5, <2>2, FS_AddElement DEF Ind
  <2>3. CASE l \notin L /\ spc[a] \in L
    <3>1. Cardinality(ServersAt(s, L) \ {a}) = Cardinality(ServersAt(s, L)) - 1
      BY <1>1, <1>4, <1>5, <2>3, FS_RemoveElement
    <3>2. Ind(l \in L) = 0 /\ Ind(spc[a] \in L) = 1
      BY <2>3 DEF Ind
    <3>3. Cardinality(ServersAt(s, L)') = Cardinality(ServersAt(s, L) \ {a})
      BY <1>4, <1>5, <2>3, Zenon
    <3>4. QED
      BY <1>2, <3>1, <3>2, <3>3
  <2>4. CASE l \notin L /\ spc[a] \notin L
    BY <1>1, <1>2, <1>4, <1>5, <2>4, FS_RemoveElement DEF Ind
  <2>5. QED
    BY <2>1, <2>2, <2>3, <2>4
<1>6. QED
  BY <1>2, <1>3, <1>5

\* The counts are natural numbers.
LEMMA CountTypes ==
    ASSUME NEW s \in Shards
    PROVE  /\ Sending(s) \in Nat /\ Counted(s) \in Nat
           /\ Got(s) \in Nat /\ BusyAt(s) \in Nat
<1>1. IsFiniteSet(Servers)
  BY EngineAssumption, FS_Union DEF Servers
<1>2. \A L : IsFiniteSet(DispatchersAt(s, L)) /\ IsFiniteSet(ServersAt(s, L))
  BY <1>1, EngineAssumption, FS_Subset DEF DispatchersAt, ServersAt
<1>3. QED
  BY <1>2, FS_CardinalityType DEF Sending, Counted, Got, BusyAt

\* The dispatchers' counts after a move of a connection to l.
ClientDelta(c, l, s) ==
    /\ ShardOf[c] # s => Sending(s)' = Sending(s) /\ Counted(s)' = Counted(s)
    /\ ShardOf[c] = s =>
         /\ Sending(s)' = Sending(s) + Ind(l \in {"send", "undo"})
                          - Ind(pc[c] \in {"send", "undo"})
         /\ Counted(s)' = Counted(s)
                          + Ind(l \in {"add", "send", "undo", "undone"})
                          - Ind(pc[c] \in {"add", "send", "undo", "undone"})

LEMMA ClientCounts ==
    ASSUME TypeOK, NEW c \in Clients, NEW l, pc' = [pc EXCEPT ![c] = l],
           NEW s \in Shards
    PROVE  ClientDelta(c, l, s)
BY ClientMove DEF Sending, Counted, ClientDelta

\* The servers' counts after a move of a worker or helper to l.
ServerDelta(a, l, s) ==
    /\ Home[a] # s => Got(s)' = Got(s) /\ BusyAt(s)' = BusyAt(s)
    /\ Home[a] = s =>
         /\ Got(s)' = Got(s) + Ind(l \in {"got"}) - Ind(spc[a] \in {"got"})
         /\ BusyAt(s)' = BusyAt(s) + Ind(l \in Busy) - Ind(spc[a] \in Busy)

LEMMA ServerCounts ==
    ASSUME TypeOK, NEW a \in Servers, NEW l, spc' = [spc EXCEPT ![a] = l],
           NEW s \in Shards
    PROVE  ServerDelta(a, l, s)
<1>1. Busy' = Busy
  BY DEF Busy
<1>2. QED
  BY <1>1, ServerMove DEF Got, BusyAt, ServerDelta

\* Counts of goroutines that do not move.
LEMMA CountsStay ==
    ASSUME NEW s \in Shards
    PROVE  /\ UNCHANGED pc => Sending(s)' = Sending(s) /\ Counted(s)' = Counted(s)
           /\ UNCHANGED spc => Got(s)' = Got(s) /\ BusyAt(s)' = BusyAt(s)
BY DEF Sending, Counted, Got, BusyAt, DispatchersAt, ServersAt, Busy

-----------------------------------------------------------------------------
(* The counters pending and wg are exact *)

Account(s) ==
    /\ pending[s] = Len(queue[s]) + Sending(s) + Got(s)
    /\ wg[s] = Len(queue[s]) + Counted(s) + BusyAt(s)

LEMMA AccountIsExact ==
    (\A s \in Shards : Account(s)) <=> PendingExact /\ WgExact
BY DEF Account, PendingExact, WgExact, Sending, Counted, Got, BusyAt

LEMMA InitAccount == ASSUME Init, NEW s \in Shards PROVE Account(s)
<1>1. /\ DispatchersAt(s, {"send", "undo"}) = {}
      /\ DispatchersAt(s, {"add", "send", "undo", "undone"}) = {}
      /\ ServersAt(s, {"got"}) = {}
      /\ ServersAt(s, Busy) = {}
  BY DEF Init, DispatchersAt, ServersAt, Busy
<1>2. Sending(s) = 0 /\ Counted(s) = 0 /\ Got(s) = 0 /\ BusyAt(s) = 0
  BY <1>1, FS_EmptySet DEF Sending, Counted, Got, BusyAt
<1>3. Len(queue[s]) = 0 /\ pending[s] = 0 /\ wg[s] = 0
  BY EmptySeq DEF Init
<1>4. QED
  BY <1>2, <1>3 DEF Account

\* Lengths after a send and after a receive.
LEMMA Lengths ==
    ASSUME TypeOK, NEW s \in Shards
    PROVE  /\ Len(queue[s]) \in Nat
           /\ \A o \in Reqs : Len(Append(queue[s], o)) = Len(queue[s]) + 1
           /\ queue[s] # <<>> => /\ Len(Tail(queue[s])) = Len(queue[s]) - 1
                                 /\ Len(queue[s]) > 0
<1>1. queue[s] \in Seq(Reqs)
  BY DEF TypeOK
<1>2. QED
  BY <1>1, AppendProperties, HeadTailProperties, EmptySeq, LenProperties

\* A step that moves connection c between labels outside Dispatch's counted
\* region, and changes neither counters nor queues nor servers.
LEMMA QuietClient ==
    ASSUME TypeOK, NEW c \in Clients, NEW l,
           pc' = [pc EXCEPT ![c] = l],
           pc[c] \notin {"add", "send", "undo", "undone"},
           l \notin {"add", "send", "undo", "undone"},
           UNCHANGED <<queue, pending, wg, spc>>,
           NEW s \in Shards, Account(s)
    PROVE  Account(s)'
<1>1. ClientDelta(c, l, s)
  BY ClientCounts, Zenon
<1>2. Sending(s)' = Sending(s) /\ Counted(s)' = Counted(s)
  BY <1>1, CountTypes DEF ClientDelta, Ind
<1>3. QED
  BY <1>2, CountsStay DEF Account

\* The same for a worker or helper between labels with equal counts.
LEMMA QuietServer ==
    ASSUME TypeOK, NEW a \in Servers, NEW l,
           spc' = [spc EXCEPT ![a] = l],
           (spc[a] = "got") <=> (l = "got"),
           (spc[a] \in Busy) <=> (l \in Busy),
           UNCHANGED <<queue, pending, wg>>,
           NEW s \in Shards, Sending(s)' = Sending(s), Counted(s)' = Counted(s),
           Account(s)
    PROVE  Account(s)'
<1>1. ServerDelta(a, l, s)
  BY ServerCounts, Zenon
<1>2. Got(s)' = Got(s) /\ BusyAt(s)' = BusyAt(s)
  BY <1>1, CountTypes DEF ServerDelta, Ind
<1>3. QED
  BY <1>2 DEF Account

\* Every step of a connection keeps both accounts.
LEMMA ClientAccount ==
    ASSUME TypeInv, NEW c \in Clients, ClientStep(c), NEW s \in Shards,
           Account(s)
    PROVE  Account(s)'
<1> USE DEF TypeInv, Goto, Answer, clientVars, poolVars, serverVars
<1>0. /\ TypeOK
      /\ pending[s] \in Int /\ wg[s] \in Int /\ Len(queue[s]) \in Nat
      /\ pending \in [Shards -> Int] /\ wg \in [Shards -> Int]
      /\ queue \in [Shards -> Seq(Reqs)]
  BY Lengths DEF TypeOK
<1>1. CASE Parse(c)
  BY <1>1, QuietClient DEF Parse
<1>2. CASE StartDispatch(c)
  BY <1>2, QuietClient DEF StartDispatch
<1>3. CASE TryRecover(c)
  <2>1. pc[c] = "recover" /\ pc' = [pc EXCEPT ![c] = "count"]
        /\ UNCHANGED <<queue, pending, wg>>
    BY <1>3 DEF TryRecover
  <2>2. CASE UNCHANGED spc
    BY <2>1, <2>2, QuietClient
  <2>3. Sending(s)' = Sending(s) /\ Counted(s)' = Counted(s)
    <3>1. ClientDelta(c, "count", s)
      BY <1>0, <2>1, ClientCounts, Zenon
    <3>2. QED
      BY <2>1, <3>1, CountTypes DEF ClientDelta, Ind
  <2>4. ASSUME NEW r \in Recoverers, spc[r] = "idle",
               spc' = [spc EXCEPT ![r] = "poll"]
        PROVE  Account(s)'
    BY <2>1, <2>3, <2>4, QuietServer DEF Busy, Servers
  <2>5. QED
    BY <1>3, <2>2, <2>4 DEF TryRecover
<1>4. CASE CountWg(c)
  <2>1. /\ pc[c] = "count" /\ pc' = [pc EXCEPT ![c] = "add"]
        /\ UNCHANGED <<queue, pending, spc>>
        /\ wg' = [wg EXCEPT ![ShardOf[c]] = @ + 1]
    BY <1>4 DEF CountWg
  <2>2. /\ Sending(s)' = Sending(s)
        /\ ShardOf[c] # s => Counted(s)' = Counted(s)
        /\ ShardOf[c] = s => Counted(s)' = Counted(s) + 1
    <3>1. ClientDelta(c, "add", s)
      BY <1>0, <2>1, ClientCounts, Zenon
    <3>2. QED
      BY <2>1, <3>1, CountTypes DEF ClientDelta, Ind
  <2>3. QED
    BY <1>0, <2>1, <2>2, CountsStay, CountTypes DEF Account
<1>5. CASE CountPending(c)
  <2>1. /\ pc[c] = "add" /\ pc' = [pc EXCEPT ![c] = "send"]
        /\ UNCHANGED <<queue, wg, spc>>
        /\ pending' = [pending EXCEPT ![ShardOf[c]] = @ + 1]
    BY <1>5 DEF CountPending
  <2>2. /\ Counted(s)' = Counted(s)
        /\ ShardOf[c] # s => Sending(s)' = Sending(s)
        /\ ShardOf[c] = s => Sending(s)' = Sending(s) + 1
    <3>1. ClientDelta(c, "send", s)
      BY <1>0, <2>1, ClientCounts, Zenon
    <3>2. QED
      BY <2>1, <3>1, CountTypes DEF ClientDelta, Ind
  <2>3. QED
    BY <1>0, <2>1, <2>2, CountsStay, CountTypes DEF Account
<1>6. CASE Enqueue(c)
  <2>0. pc[c] = "send" /\ UNCHANGED <<pending, wg, spc>>
    BY <1>6 DEF Enqueue
  <2>1. CASE UNCHANGED <<queue, pc>>
    BY <2>0, <2>1, CountsStay DEF Account
  <2>2. CASE /\ queue' = [queue EXCEPT ![ShardOf[c]] = Append(@, obj[c])]
             /\ pc' = [pc EXCEPT ![c] = "wait"]
    <3>1. /\ ShardOf[c] # s => /\ Sending(s)' = Sending(s)
                               /\ Counted(s)' = Counted(s)
          /\ ShardOf[c] = s => /\ Sending(s)' = Sending(s) - 1
                               /\ Counted(s)' = Counted(s) - 1
      <4>1. ClientDelta(c, "wait", s)
        BY <1>0, <2>0, <2>2, ClientCounts, Zenon
      <4>2. QED
        BY <2>0, <2>2, <4>1, CountTypes DEF ClientDelta, Ind
    <3>2. obj[c] \in Reqs
      BY <2>0 DEF Holding
    <3>3. Len(queue'[s]) = IF ShardOf[c] = s THEN Len(queue[s]) + 1
                                             ELSE Len(queue[s])
      BY <1>0, <2>2, <3>2, Lengths
    <3>4. QED
      BY <1>0, <2>0, <3>1, <3>3, CountsStay, CountTypes DEF Account
  <2>3. CASE UNCHANGED queue /\ pc' = [pc EXCEPT ![c] = "undo"]
    <3>1. Sending(s)' = Sending(s) /\ Counted(s)' = Counted(s)
      <4>1. ClientDelta(c, "undo", s)
        BY <1>0, <2>0, <2>3, ClientCounts, Zenon
      <4>2. QED
        BY <2>0, <2>3, <4>1, CountTypes DEF ClientDelta, Ind
    <3>2. QED
      BY <2>0, <2>3, <3>1, CountsStay DEF Account
  <2>4. QED
    BY <1>6, <2>1, <2>2, <2>3 DEF Enqueue
<1>7. CASE UndoPending(c)
  <2>1. /\ pc[c] = "undo" /\ pc' = [pc EXCEPT ![c] = "undone"]
        /\ UNCHANGED <<queue, wg, spc>>
        /\ pending' = [pending EXCEPT ![ShardOf[c]] = @ - 1]
    BY <1>7 DEF UndoPending
  <2>2. /\ Counted(s)' = Counted(s)
        /\ ShardOf[c] # s => Sending(s)' = Sending(s)
        /\ ShardOf[c] = s => Sending(s)' = Sending(s) - 1
    <3>1. ClientDelta(c, "undone", s)
      BY <1>0, <2>1, ClientCounts, Zenon
    <3>2. QED
      BY <2>1, <3>1, CountTypes DEF ClientDelta, Ind
  <2>3. QED
    BY <1>0, <2>1, <2>2, CountsStay, CountTypes DEF Account
<1>8. CASE Reject(c)
  <2>1. /\ pc[c] = "undone" /\ pc' = [pc EXCEPT ![c] = "end"]
        /\ UNCHANGED <<queue, pending, spc>>
        /\ wg' = [wg EXCEPT ![ShardOf[c]] = @ - 1]
    BY <1>8 DEF Reject
  <2>2. /\ Sending(s)' = Sending(s)
        /\ ShardOf[c] # s => Counted(s)' = Counted(s)
        /\ ShardOf[c] = s => Counted(s)' = Counted(s) - 1
    <3>1. ClientDelta(c, "end", s)
      BY <1>0, <2>1, ClientCounts, Zenon
    <3>2. QED
      BY <2>1, <3>1, CountTypes DEF ClientDelta, Ind
  <2>3. QED
    BY <1>0, <2>1, <2>2, CountsStay, CountTypes DEF Account
<1>9. CASE Deliver(c)
  BY <1>9, QuietClient DEF Deliver
<1>10. CASE SyncTimeout(c)
  BY <1>10, QuietClient DEF SyncTimeout
<1>11. QED
  BY <1>1, <1>2, <1>3, <1>4, <1>5, <1>6, <1>7, <1>8, <1>9, <1>10
     DEF ClientStep, DispatchStep, AwaitStep

\* A receive moves one request from the queue into a server's hands.
LEMMA TakeAccount ==
    ASSUME TypeInv, NEW a \in Servers, Take(a), spc[a] \in {"recv", "poll"},
           UNCHANGED <<pending, wg, pc>>, NEW s \in Shards, Account(s)
    PROVE  Account(s)'
<1> USE DEF TypeInv
<1>0. /\ TypeOK
      /\ pending[s] \in Int /\ wg[s] \in Int /\ Len(queue[s]) \in Nat
      /\ queue \in [Shards -> Seq(Reqs)] /\ Home[a] \in Shards
  BY Lengths, EngineAssumption DEF TypeOK
<1>1. /\ spc' = [spc EXCEPT ![a] = "got"]
      /\ queue' = [queue EXCEPT ![Home[a]] = Tail(@)]
      /\ queue[Home[a]] # <<>>
  BY DEF Take, SGoto
<1>2. ServerDelta(a, "got", s)
  BY <1>0, <1>1, ServerCounts, Zenon
<1>3. /\ Home[a] # s => Got(s)' = Got(s) /\ BusyAt(s)' = BusyAt(s)
      /\ Home[a] = s => Got(s)' = Got(s) + 1 /\ BusyAt(s)' = BusyAt(s) + 1
  BY <1>2, CountTypes DEF ServerDelta, Ind, Busy
<1>4. Len(queue'[s]) = IF Home[a] = s THEN Len(queue[s]) - 1 ELSE Len(queue[s])
  BY <1>0, <1>1, Lengths
<1>5. /\ Sending(s)' = Sending(s) /\ Counted(s)' = Counted(s)
      /\ Sending(s) \in Nat /\ Counted(s) \in Nat
      /\ Got(s) \in Nat /\ BusyAt(s) \in Nat
  BY CountsStay, CountTypes
<1>6. pending'[s] = pending[s] /\ wg'[s] = wg[s]
  OBVIOUS
<1>7. CASE Home[a] = s
  <2>1. /\ Got(s)' = Got(s) + 1 /\ BusyAt(s)' = BusyAt(s) + 1
        /\ Len(queue'[s]) = Len(queue[s]) - 1
    BY <1>3, <1>4, <1>7
  <2>2. pending'[s] = Len(queue'[s]) + Sending(s)' + Got(s)'
    BY <1>0, <1>5, <1>6, <2>1 DEF Account
  <2>3. wg'[s] = Len(queue'[s]) + Counted(s)' + BusyAt(s)'
    BY <1>0, <1>5, <1>6, <2>1 DEF Account
  <2>4. QED
    BY <2>2, <2>3 DEF Account
<1>8. CASE Home[a] # s
  BY <1>0, <1>3, <1>4, <1>5, <1>6, <1>8 DEF Account
<1>9. QED
  BY <1>7, <1>8

\* Every step of a server that handles a request keeps both accounts.
LEMMA HandleAccount ==
    ASSUME TypeInv, NEW a \in Servers, HandleStep(a), NEW s \in Shards,
           Account(s)
    PROVE  Account(s)'
<1> USE DEF TypeInv, SGoto, clientVars
<1>0. /\ TypeOK
      /\ pending[s] \in Int /\ wg[s] \in Int /\ Len(queue[s]) \in Nat
      /\ pending \in [Shards -> Int] /\ wg \in [Shards -> Int]
      /\ Home[a] \in Shards
  BY Lengths, EngineAssumption DEF TypeOK
<1>1. CASE StartHandler(a)
  <2>1. /\ spc[a] = "got" /\ spc' = [spc EXCEPT ![a] = "handle"]
        /\ UNCHANGED <<queue, wg, pc>>
        /\ pending' = [pending EXCEPT ![Home[a]] = @ - 1]
    BY <1>1 DEF StartHandler
  <2>2. ServerDelta(a, "handle", s)
    BY <1>0, <2>1, ServerCounts, Zenon
  <2>3. /\ BusyAt(s)' = BusyAt(s)
        /\ Home[a] # s => Got(s)' = Got(s)
        /\ Home[a] = s => Got(s)' = Got(s) - 1
    BY <2>1, <2>2, CountTypes DEF ServerDelta, Ind, Busy
  <2>4. QED
    BY <1>0, <2>1, <2>3, CountsStay, CountTypes DEF Account
<1>2. CASE EndHandler(a)
  <2>1. /\ spc[a] = "handle" /\ spc' = [spc EXCEPT ![a] = "reply"]
        /\ UNCHANGED <<queue, pending, wg, pc>>
    BY <1>2 DEF EndHandler
  <2>2. Sending(s)' = Sending(s) /\ Counted(s)' = Counted(s)
    BY <2>1, CountsStay
  <2>3. QED
    BY <1>0, <2>1, <2>2, QuietServer DEF Busy
<1>3. CASE Reply(a)
  <2>1. /\ spc[a] = "reply" /\ spc' = [spc EXCEPT ![a] = "finish"]
        /\ UNCHANGED <<queue, pending, wg, pc>>
    BY <1>3 DEF Reply
  <2>2. Sending(s)' = Sending(s) /\ Counted(s)' = Counted(s)
    BY <2>1, CountsStay
  <2>3. QED
    BY <1>0, <2>1, <2>2, QuietServer DEF Busy
<1>4. CASE Finish(a)
  <2>1. /\ spc[a] = "finish"
        /\ UNCHANGED <<queue, pending, pc>>
        /\ wg' = [wg EXCEPT ![Home[a]] = @ - 1]
    BY <1>4 DEF Finish
  <2>2. ASSUME NEW l \in {"recv", "poll"}, spc' = [spc EXCEPT ![a] = l]
        PROVE  Account(s)'
    <3>1. ServerDelta(a, l, s)
      BY <1>0, <2>2, ServerCounts, Zenon
    <3>2. /\ Got(s)' = Got(s)
          /\ Home[a] # s => BusyAt(s)' = BusyAt(s)
          /\ Home[a] = s => BusyAt(s)' = BusyAt(s) - 1
      BY <2>1, <2>2, <3>1, CountTypes DEF ServerDelta, Ind, Busy
    <3>3. /\ Sending(s)' = Sending(s) /\ Counted(s)' = Counted(s)
          /\ Counted(s) \in Nat /\ BusyAt(s) \in Nat
      BY <2>1, CountsStay, CountTypes
    <3>4. CASE Home[a] = s
      <4>1. wg'[s] = wg[s] - 1 /\ pending'[s] = pending[s] /\ queue'[s] = queue[s]
        BY <1>0, <2>1, <3>4
      <4>2. Got(s)' = Got(s) /\ BusyAt(s)' = BusyAt(s) - 1
        BY <3>2, <3>4
      <4>3. pending'[s] = Len(queue'[s]) + Sending(s)' + Got(s)'
        BY <1>0, <3>3, <4>1, <4>2 DEF Account
      <4>4. wg'[s] = Len(queue'[s]) + Counted(s)' + BusyAt(s)'
        BY <1>0, <3>3, <4>1, <4>2 DEF Account
      <4>5. QED
        BY <4>3, <4>4 DEF Account
    <3>5. CASE Home[a] # s
      BY <1>0, <2>1, <3>2, <3>3, <3>5 DEF Account
    <3>6. QED
      BY <3>4, <3>5
  <2>3. QED
    BY <1>4, <2>2 DEF Finish
<1>5. QED
  BY <1>1, <1>2, <1>3, <1>4 DEF HandleStep

\* Every step of the engine keeps both accounts.
LEMMA StepAccount ==
    ASSUME TypeInv, Cases, NEW s \in Shards, Account(s)
    PROVE  Account(s)'
<1> USE DEF TypeInv
<1>1. ASSUME NEW w \in Workers, Receive(w) PROVE Account(s)'
  BY <1>1, TakeAccount DEF Receive, Servers, clientVars
<1>2. ASSUME NEW r \in Recoverers, RecoverTake(r) PROVE Account(s)'
  BY <1>2, TakeAccount DEF RecoverTake, Servers, clientVars
<1>3. ASSUME NEW a \in Servers, NEW l, SGoto(a, l),
             spc[a] \notin Busy, l \notin Busy,
             UNCHANGED <<queue, pending, wg, pc>>
      PROVE  Account(s)'
  <2>1. Sending(s)' = Sending(s) /\ Counted(s)' = Counted(s)
    BY <1>3, CountsStay
  <2>2. spc' = [spc EXCEPT ![a] = l] /\ spc[a] # "got" /\ l # "got"
    BY <1>3 DEF SGoto, Busy
  <2>3. QED
    BY <1>3, <2>1, <2>2, QuietServer, Zenon
<1>4. ASSUME NEW w \in Workers, WorkerExit(w) PROVE Account(s)'
  <2>1. /\ SGoto(w, "exit") /\ spc[w] \notin Busy /\ "exit" \notin Busy
        /\ UNCHANGED <<queue, pending, wg, pc>> /\ w \in Servers
    BY <1>4 DEF WorkerExit, Servers, Busy, clientVars
  <2>2. QED
    BY <2>1, <1>3, Zenon
<1>5. ASSUME NEW r \in Recoverers, RecoverStop(r) PROVE Account(s)'
  <2>1. /\ SGoto(r, "return") /\ spc[r] \notin Busy /\ "return" \notin Busy
        /\ UNCHANGED <<queue, pending, wg, pc>> /\ r \in Servers
    BY <1>5 DEF RecoverStop, Servers, Busy, clientVars
  <2>2. QED
    BY <2>1, <1>3, Zenon
<1>6. ASSUME NEW r \in Recoverers, RecoverReturn(r) PROVE Account(s)'
  <2>1. /\ SGoto(r, "idle") /\ spc[r] \notin Busy /\ "idle" \notin Busy
        /\ UNCHANGED <<queue, pending, wg, pc>> /\ r \in Servers
    BY <1>6 DEF RecoverReturn, Servers, Busy, clientVars
  <2>2. QED
    BY <2>1, <1>3, Zenon
<1>7. CASE CloseStep \/ UNCHANGED vars
  <2>1. UNCHANGED <<queue, pending, wg, pc, spc>>
    BY <1>7 DEF CloseStep, StartClose, CloseQueue, WaitShard, CloseReturns,
                CloseListener, vars, clientVars, serverVars
  <2>2. QED
    BY <2>1, CountsStay DEF Account
<1>8. QED
  BY <1>1, <1>2, <1>4, <1>5, <1>6, <1>7, ClientAccount, HandleAccount DEF Cases

\* For every configuration, Shard.pending and Shard.wg are exact at every
\* moment: they equal what is queued plus whoever is between an increment and
\* its decrement, on every path of Dispatch, run and slowRecover.
THEOREM CountersAreExact == Spec => []CountersExact
<1> DEFINE Acc == \A s \in Shards : Account(s)
<1>1. Init => Acc
  BY InitAccount
<1>2. TypeInv /\ Acc /\ [Next]_vars => Acc'
  <2> SUFFICES ASSUME TypeInv, Acc, [Next]_vars PROVE Acc'
    OBVIOUS
  <2>1. Shards' = Shards
    BY DEF Shards
  <2>2. QED
    BY <2>1, NextCases, StepAccount
<1>3. Spec => []Acc
  BY <1>1, <1>2, EngineTypes, PTL DEF Spec
<1>4. Acc <=> CountersExact
  BY AccountIsExact DEF CountersExact
<1>5. QED
  BY <1>3, <1>4, PTL

-----------------------------------------------------------------------------
(* Ownership of Request objects *)

LEMMA OwnerStep ==
    ASSUME TypeInv, ExclusiveOwner, Cases
    PROVE  ExclusiveOwner'
<1> USE DEF TypeInv
<1>1. ASSUME NEW c \in Clients, Parse(c) PROVE ExclusiveOwner'
  <2>1. PICK o \in free : /\ free' = free \ {o}
                          /\ obj' = [obj EXCEPT ![c] = o]
    BY <1>1 DEF Parse
  <2>2. o \in Reqs /\ obj \in [Clients -> Reqs \cup {None}]
    BY DEF TypeOK
  <2>3. ASSUME NEW d \in Clients, obj'[d] # None
        PROVE  obj'[d] \notin free'
    BY <2>1, <2>2, <2>3 DEF ExclusiveOwner
  <2>4. ASSUME NEW d \in Clients, obj'[d] # None, NEW e \in Clients \ {d}
        PROVE  obj'[e] # obj'[d]
    BY <2>1, <2>2, <2>4 DEF ExclusiveOwner
  <2>5. QED
    BY <2>3, <2>4 DEF ExclusiveOwner
<1>2. ASSUME NEW c \in Clients, free' = free \cup {obj[c]},
             obj' = [obj EXCEPT ![c] = None], obj[c] \in Reqs
      PROVE  ExclusiveOwner'
  <2>1. obj \in [Clients -> Reqs \cup {None}] /\ obj[c] # None
    BY <1>2, EngineAssumption DEF TypeOK
  <2>2. QED
    BY <1>2, <2>1 DEF ExclusiveOwner
<1>3. ASSUME NEW c \in Clients, Reject(c) \/ Deliver(c) \/ SyncTimeout(c)
      PROVE  ExclusiveOwner'
  <2>1. /\ free' = free \cup {obj[c]} /\ obj' = [obj EXCEPT ![c] = None]
        /\ pc[c] \notin {"idle", "end"}
    BY <1>3 DEF Reject, Deliver, SyncTimeout, Release, Answer
  <2>2. QED
    BY <1>2, <2>1 DEF Holding
<1>4. ASSUME UNCHANGED <<free, obj>> PROVE ExclusiveOwner'
  BY <1>4 DEF ExclusiveOwner
<1>5. ASSUME NEW c \in Clients, ClientStep(c) PROVE ExclusiveOwner'
  BY <1>1, <1>3, <1>4, <1>5
     DEF ClientStep, DispatchStep, AwaitStep, StartDispatch, TryRecover, CountWg,
         CountPending, Enqueue, UndoPending, poolVars
<1>6. ASSUME NEW a \in Servers, HandleStep(a) PROVE ExclusiveOwner'
  BY <1>4, <1>6 DEF HandleStep, StartHandler, EndHandler, Reply, Finish,
                    clientVars, poolVars
<1>7. ASSUME NEW a \in Servers,
             Receive(a) \/ WorkerExit(a) \/ RecoverTake(a) \/ RecoverStop(a)
               \/ RecoverReturn(a)
      PROVE  ExclusiveOwner'
  BY <1>4, <1>7 DEF Receive, WorkerExit, RecoverTake, RecoverStop,
                    RecoverReturn, clientVars, poolVars
<1>8. CASE CloseStep \/ UNCHANGED vars
  BY <1>4, <1>8 DEF CloseStep, StartClose, CloseQueue, WaitShard, CloseReturns,
                    CloseListener, vars, clientVars, poolVars
<1>9. QED
  BY <1>5, <1>6, <1>7, <1>8 DEF Cases, Servers

\* Between AcquireRequest and ReleaseRequest an object has one owner, although
\* DispatchSync releases on a timeout while a server still reads the object.
THEOREM OneOwner == Spec => []ExclusiveOwner
<1>1. Init => ExclusiveOwner
  BY DEF Init, ExclusiveOwner
<1>2. TypeInv /\ ExclusiveOwner /\ [Next]_vars => ExclusiveOwner'
  BY NextCases, OwnerStep
<1>3. QED
  BY <1>1, <1>2, EngineTypes, PTL DEF Spec

-----------------------------------------------------------------------------
(* Shutdown *)

\* WaitGroups are awaited after every queue is closed, so a drained shard
\* receives nothing more.
DrainInv == WaitsAfterClose /\ DrainedOnceWaited

\* A shard whose queue is empty and whose servers are free stays that way
\* while its queue is closed.
Drained(s) == queue[s] = <<>> /\ \A a \in Servers : Home[a] = s => spc[a] \notin Busy

LEMMA DrainedIs == \A s : Drained(s) <=> queue[s] = <<>> /\ ServersAt(s, Busy) = {}
BY DEF Drained, ServersAt

LEMMA DrainedStays ==
    ASSUME TypeInv, Cases, NEW s \in Shards, Drained(s), Closed(s)
    PROVE  Drained(s)'
<1> USE DEF TypeInv
<1>0. /\ spc \in [Servers -> ServerLabels] /\ queue \in [Shards -> Seq(Reqs)]
      /\ \A a \in Servers : Home[a] \in Shards
      /\ \A c \in Clients : ShardOf[c] \in Shards
  BY EngineAssumption DEF TypeOK
<1>1. ASSUME NEW c \in Clients, ClientStep(c) PROVE Drained(s)'
  <2>1. CASE TryRecover(c)
    <3>1. UNCHANGED queue
      BY <2>1 DEF TryRecover
    <3>2. UNCHANGED spc \/ \E r \in Recoverers : spc' = [spc EXCEPT ![r] = "poll"]
      BY <2>1 DEF TryRecover
    <3>3. QED
      BY <1>0, <3>1, <3>2 DEF Drained, Busy
  <2>2. CASE Enqueue(c)
    <3>1. UNCHANGED spc
      BY <2>2 DEF Enqueue, serverVars
    <3>2. queue'[s] = queue[s]
      BY <1>0, <2>2 DEF Enqueue, Closed
    <3>3. QED
      BY <3>1, <3>2 DEF Drained, Busy
  <2>3. CASE UNCHANGED <<queue, spc>>
    BY <2>3 DEF Drained, Busy
  <2>4. QED
    BY <1>1, <2>1, <2>2, <2>3
       DEF ClientStep, DispatchStep, AwaitStep, Parse, StartDispatch, CountWg,
           CountPending, UndoPending, Reject, Deliver, SyncTimeout, serverVars
<1>2. ASSUME NEW a \in Servers, HandleStep(a) PROVE Drained(s)'
  <2>1. spc[a] \in Busy /\ UNCHANGED queue
    BY <1>2 DEF HandleStep, StartHandler, EndHandler, Reply, Finish, Busy
  <2>2. Home[a] # s
    BY <2>1 DEF Drained
  <2>3. PICK l : spc' = [spc EXCEPT ![a] = l]
    BY <1>2 DEF HandleStep, StartHandler, EndHandler, Reply, Finish, SGoto
  <2>4. QED
    BY <1>0, <2>1, <2>2, <2>3 DEF Drained, Busy
<1>3. ASSUME NEW a \in Servers, Take(a) PROVE Drained(s)'
  <2>1. Home[a] # s
    BY <1>3 DEF Take, Drained
  <2>2. QED
    BY <1>0, <1>3, <2>1 DEF Take, SGoto, Drained, Busy
<1>4. ASSUME NEW a \in Servers, WorkerExit(a) \/ RecoverStop(a) \/ RecoverReturn(a)
      PROVE  Drained(s)'
  <2>1. UNCHANGED queue /\ \E l \in {"exit", "return", "idle"} :
                              spc' = [spc EXCEPT ![a] = l]
    BY <1>4 DEF WorkerExit, RecoverStop, RecoverReturn, SGoto
  <2>2. QED
    BY <1>0, <2>1 DEF Drained, Busy
<1>5. CASE CloseStep \/ UNCHANGED vars
  <2>1. UNCHANGED <<queue, spc>>
    BY <1>5 DEF CloseStep, StartClose, CloseQueue, WaitShard, CloseReturns,
                CloseListener, vars, serverVars
  <2>2. QED
    BY <2>1 DEF Drained, Busy
<1>6. QED
  BY <1>1, <1>2, <1>3, <1>4, <1>5 DEF Cases, Servers, Receive, RecoverTake

\* A WaitGroup at zero means a drained shard.
LEMMA ZeroIsDrained ==
    ASSUME TypeInv, WgExact, NEW s \in Shards, wg[s] = 0
    PROVE  Drained(s)
<1>1. /\ wg[s] = Len(queue[s]) + Counted(s) + BusyAt(s)
      /\ Len(queue[s]) \in Nat /\ Counted(s) \in Nat /\ BusyAt(s) \in Nat
  BY CountTypes, Lengths DEF TypeInv, WgExact, Counted, BusyAt
<1>2. Len(queue[s]) = 0 /\ BusyAt(s) = 0
  BY <1>1
<1>3. queue[s] = <<>>
  BY <1>2, EmptySeq DEF TypeInv, TypeOK
<1>4. IsFiniteSet(ServersAt(s, Busy))
  BY EngineAssumption, FS_Union, FS_Subset DEF ServersAt, Servers
<1>5. ServersAt(s, Busy) = {}
  BY <1>2, <1>4, FS_EmptySet DEF BusyAt
<1>6. QED
  BY <1>3, <1>5, DrainedIs

LEMMA DrainStep ==
    ASSUME TypeInv, WgExact, DrainInv, Cases
    PROVE  DrainInv'
<1> USE DEF TypeInv
<1>0. NumShards \in Nat /\ closeIdx \in 0..NumShards /\ waitIdx \in 0..NumShards
      /\ waitIdx' \in 0..NumShards
  BY EngineAssumption, OtherTypes DEF TypeOK
<1>1. \A s \in 1..waitIdx : s \in Shards /\ Drained(s) /\ Closed(s)
  BY <1>0, DrainedIs DEF DrainInv, WaitsAfterClose, DrainedOnceWaited, Shards,
                         Closed
<1>2. \A s \in 1..waitIdx : Drained(s)'
  BY <1>1, DrainedStays
<1>3. CASE WaitShard
  <2>1. waitIdx + 1 \in Shards /\ wg[waitIdx + 1] = 0 /\ waitIdx' = waitIdx + 1
        /\ Closed(waitIdx + 1) /\ closeIdx' = closeIdx /\ closeIdx = NumShards
    BY <1>0, <1>3 DEF WaitShard, Shards, Closed
  <2>2. PICK n \in Shards : n = waitIdx + 1
    BY <2>1
  <2>3. \A s \in 1..waitIdx' : Drained(s)'
    <3>1. Drained(n) /\ Closed(n)
      BY <2>1, <2>2, ZeroIsDrained
    <3>2. Drained(n)'
      BY <3>1, DrainedStays
    <3>3. \A s \in 1..waitIdx' : s \in 1..waitIdx \/ s = n
      BY <1>0, <2>1, <2>2
    <3>4. QED
      BY <1>2, <3>2, <3>3
  <2>4. QED
    BY <2>1, <2>3, DrainedIs DEF DrainInv, WaitsAfterClose, DrainedOnceWaited,
                                 Drained, ServersAt
<1>4. CASE waitIdx' = waitIdx /\ (closeIdx' = closeIdx \/ closeIdx < NumShards)
  BY <1>0, <1>2, <1>4 DEF DrainInv, WaitsAfterClose, DrainedOnceWaited, Drained,
                          ServersAt
<1>5. ASSUME NEW c \in Clients, ClientStep(c) PROVE UNCHANGED closeVars
  BY <1>5 DEF ClientStep, DispatchStep, AwaitStep, Parse, StartDispatch,
         TryRecover, CountWg, CountPending, Enqueue, UndoPending, Reject,
         Deliver, SyncTimeout
<1>6. ASSUME NEW a \in Servers, HandleStep(a) \/ Receive(a) \/ WorkerExit(a)
               \/ RecoverTake(a) \/ RecoverStop(a) \/ RecoverReturn(a)
      PROVE  UNCHANGED closeVars
  BY <1>6 DEF HandleStep, StartHandler, EndHandler, Reply, Finish, Receive,
         WorkerExit, RecoverTake, RecoverStop, RecoverReturn
<1>7. CASE UNCHANGED closeVars
  BY <1>4, <1>7 DEF closeVars
<1>8. CASE CloseStep
  BY <1>3, <1>4, <1>8 DEF CloseStep, StartClose, CloseQueue, CloseReturns,
                          CloseListener
<1>9. QED
  BY <1>5, <1>6, <1>7, <1>8 DEF Cases, Servers, vars

\* Once Close has seen a shard's WaitGroup at zero the shard is drained for
\* good, with any number of connections still dispatching meanwhile.
THEOREM CloseIsFinal == Spec => []DrainedOnceWaited
<1>1. Init => DrainInv
  BY DEF Init, DrainInv, WaitsAfterClose, DrainedOnceWaited
<1>2. TypeInv /\ WgExact /\ DrainInv /\ [Next]_vars => DrainInv'
  BY NextCases, DrainStep
<1>3. DrainInv => DrainedOnceWaited
  BY DEF DrainInv
<1>4. QED
  BY <1>1, <1>2, <1>3, EngineTypes, CountersAreExact, PTL DEF Spec, CountersExact

-----------------------------------------------------------------------------
(* One slowRecover per shard *)

\* A step after which the same helpers run and recovering is as before.
SameHelpers ==
    /\ UNCHANGED recovering
    /\ \A r \in Recoverers : spc'[r] \in Active <=> spc[r] \in Active

LEMMA SameHelpersStay ==
    ASSUME OneRecoverer, SameHelpers
    PROVE  OneRecoverer'
<1>1. Active' = Active /\ Shards' = Shards
  BY DEF Active, Busy, Shards
<1>2. \A r \in Recoverers : spc'[r] \in Active' <=> spc[r] \in Active
  BY <1>1 DEF SameHelpers
<1>3. \A s \in Shards : recovering'[s] = recovering[s]
  BY DEF SameHelpers
<1>4. ASSUME NEW r1 \in Recoverers, NEW r2 \in Recoverers, Home[r1] = Home[r2],
             spc'[r1] \in Active', spc'[r2] \in Active'
      PROVE  r1 = r2
  BY <1>2, <1>4 DEF OneRecoverer
<1>5. ASSUME NEW s \in Shards
      PROVE  recovering'[s] <=> \E r \in Recoverers :
                                   Home[r] = s /\ spc'[r] \in Active'
  <2>1. recovering[s] <=> \E r \in Recoverers : Home[r] = s /\ spc[r] \in Active
    BY DEF OneRecoverer
  <2>2. QED
    BY <1>2, <1>3, <2>1, Zenon
<1>6. QED
  BY <1>1, <1>4, <1>5, Zenon DEF OneRecoverer

LEMMA RecovererStep ==
    ASSUME TypeInv, OneRecoverer, Cases
    PROVE  OneRecoverer'
<1> USE DEF TypeInv
<1>0. /\ spc \in [Servers -> ServerLabels] /\ Recoverers \subseteq Servers
      /\ recovering \in [Shards -> BOOLEAN]
      /\ \A r \in Recoverers : Home[r] \in Shards /\ r \notin Workers
      /\ Active' = Active /\ Shards' = Shards
  BY EngineAssumption DEF TypeOK, Servers, Active, Busy, Shards
<1>1. ASSUME UNCHANGED <<recovering, spc>> PROVE OneRecoverer'
  BY <1>0, <1>1, SameHelpersStay DEF SameHelpers
<1>2. ASSUME NEW a \in Servers, NEW l, spc' = [spc EXCEPT ![a] = l],
             UNCHANGED recovering,
             a \in Workers \/ (spc[a] \in Active /\ l \in Active)
      PROVE  OneRecoverer'
  BY <1>0, <1>2, SameHelpersStay DEF SameHelpers
<1>3. ASSUME NEW c \in Clients, TryRecover(c) PROVE OneRecoverer'
  <2>1. CASE UNCHANGED <<recovering, spc>>
    BY <1>1, <2>1
  <2>2. ASSUME NEW r \in Recoverers, ~recovering[Home[r]],
               recovering' = [recovering EXCEPT ![Home[r]] = TRUE],
               spc' = [spc EXCEPT ![r] = "poll"]
        PROVE  OneRecoverer'
    <3>1. \A q \in Recoverers : Home[q] = Home[r] => spc[q] \notin Active
      BY <1>0, <2>2, Zenon DEF OneRecoverer
    <3>2. \A q \in Recoverers : spc'[q] \in Active <=> spc[q] \in Active \/ q = r
      BY <1>0, <2>2 DEF Active
    <3>3. ASSUME NEW r1 \in Recoverers, NEW r2 \in Recoverers,
                 Home[r1] = Home[r2], spc'[r1] \in Active, spc'[r2] \in Active
          PROVE  r1 = r2
      BY <3>1, <3>2, <3>3 DEF OneRecoverer
    <3>4. ASSUME NEW s \in Shards
          PROVE  recovering'[s] <=> \E q \in Recoverers :
                                       Home[q] = s /\ spc'[q] \in Active
      <4>1. CASE s = Home[r]
        BY <1>0, <2>2, <3>2, <4>1
      <4>2. CASE s # Home[r]
        <5>1. recovering'[s] = recovering[s]
          BY <1>0, <2>2, <4>2
        <5>2. recovering[s] <=> \E q \in Recoverers :
                                   Home[q] = s /\ spc[q] \in Active
          BY DEF OneRecoverer
        <5>3. QED
          BY <3>2, <4>2, <5>1, <5>2
      <4>3. QED
        BY <4>1, <4>2
    <3>5. QED
      BY <1>0, <3>3, <3>4, Zenon DEF OneRecoverer
  <2>3. QED
    BY <1>3, <2>1, <2>2 DEF TryRecover
<1>4. ASSUME NEW r \in Recoverers, RecoverReturn(r) PROVE OneRecoverer'
  <2>1. /\ spc[r] = "return" /\ spc' = [spc EXCEPT ![r] = "idle"]
        /\ recovering' = [recovering EXCEPT ![Home[r]] = FALSE]
    BY <1>4 DEF RecoverReturn, SGoto
  <2>2. \A q \in Recoverers : spc'[q] \in Active <=> spc[q] \in Active /\ q # r
    BY <1>0, <2>1 DEF Active, Busy
  <2>3. spc[r] \in Active
    BY <2>1 DEF Active
  <2>4. ASSUME NEW r1 \in Recoverers, NEW r2 \in Recoverers,
               Home[r1] = Home[r2], spc'[r1] \in Active, spc'[r2] \in Active
        PROVE  r1 = r2
    BY <2>2, <2>4 DEF OneRecoverer
  <2>5. ASSUME NEW s \in Shards
        PROVE  recovering'[s] <=> \E q \in Recoverers :
                                     Home[q] = s /\ spc'[q] \in Active
    <3>1. CASE s = Home[r]
      <4>1. ~recovering'[s]
        BY <1>0, <2>1, <3>1
      <4>2. \A q \in Recoverers : Home[q] = s => spc'[q] \notin Active
        BY <2>2, <2>3, <3>1 DEF OneRecoverer
      <4>3. QED
        BY <4>1, <4>2
    <3>2. CASE s # Home[r]
      <4>1. recovering'[s] = recovering[s]
        BY <1>0, <2>1, <3>2
      <4>2. recovering[s] <=> \E q \in Recoverers :
                                 Home[q] = s /\ spc[q] \in Active
        BY DEF OneRecoverer
      <4>3. QED
        BY <2>2, <3>2, <4>1, <4>2
    <3>3. QED
      BY <3>1, <3>2
  <2>6. QED
    BY <1>0, <2>4, <2>5, Zenon DEF OneRecoverer
<1>5. ASSUME NEW c \in Clients, ClientStep(c) PROVE OneRecoverer'
  <2>1. TryRecover(c) \/ UNCHANGED <<recovering, spc>>
    BY <1>5 DEF ClientStep, DispatchStep, AwaitStep, Parse, StartDispatch,
         CountWg, CountPending, Enqueue, UndoPending, Reject, Deliver,
         SyncTimeout, serverVars
  <2>2. QED
    BY <1>1, <1>3, <2>1
<1>6. ASSUME NEW a \in Servers, HandleStep(a) PROVE OneRecoverer'
  <2>1. UNCHANGED recovering /\ spc[a] \in Active
    BY <1>6 DEF HandleStep, StartHandler, EndHandler, Reply, Finish, Active, Busy
  <2>2. CASE StartHandler(a) \/ EndHandler(a) \/ Reply(a)
    <3>1. \E l \in Active : spc' = [spc EXCEPT ![a] = l]
      BY <2>2 DEF StartHandler, EndHandler, Reply, SGoto, Active, Busy
    <3>2. QED
      BY <1>2, <2>1, <3>1
  <2>3. CASE Finish(a)
    <3>1. \/ a \in Workers /\ spc' = [spc EXCEPT ![a] = "recv"]
          \/ spc' = [spc EXCEPT ![a] = "poll"]
      BY <2>3 DEF Finish, SGoto
    <3>2. "poll" \in Active
      BY DEF Active
    <3>3. QED
      BY <1>2, <2>1, <3>1, <3>2
  <2>4. QED
    BY <1>6, <2>2, <2>3 DEF HandleStep
<1>7. ASSUME NEW w \in Workers, Receive(w) \/ WorkerExit(w) PROVE OneRecoverer'
  <2>1. UNCHANGED recovering /\ \E l : spc' = [spc EXCEPT ![w] = l]
    BY <1>7 DEF Receive, WorkerExit, Take, SGoto
  <2>2. QED
    BY <1>2, <2>1 DEF Servers
<1>8. ASSUME NEW r \in Recoverers, RecoverTake(r) \/ RecoverStop(r)
      PROVE  OneRecoverer'
  <2>1. /\ UNCHANGED recovering /\ spc[r] \in Active
        /\ \E l \in Active : spc' = [spc EXCEPT ![r] = l]
    BY <1>8 DEF RecoverTake, RecoverStop, Take, SGoto, Active, Busy
  <2>2. QED
    BY <1>0, <1>2, <2>1
<1>9. CASE CloseStep \/ UNCHANGED vars
  BY <1>1, <1>9 DEF CloseStep, StartClose, CloseQueue, WaitShard, CloseReturns,
                    CloseListener, vars, serverVars
<1>10. QED
  BY <1>4, <1>5, <1>6, <1>7, <1>8, <1>9 DEF Cases

\* The compare-and-swap on Shard.recovering admits one slowRecover per shard,
\* and its deferred reset never leaves the flag set with nobody running.
THEOREM OneHelper == Spec => []OneRecoverer
<1>1. Init => OneRecoverer
  BY EngineAssumption DEF Init, OneRecoverer, Active, Busy, Servers
<1>2. TypeInv /\ OneRecoverer /\ [Next]_vars => OneRecoverer'
  BY NextCases, RecovererStep
<1>3. QED
  BY <1>1, <1>2, EngineTypes, PTL DEF Spec

\* For every number of clients, workers, helpers and shards and every schedule,
\* the counters and the flag by which Dispatch admits, Close waits and
\* tryRecover starts helpers are exact.
THEOREM ExactBookkeeping == Spec => []BookkeepingExact
BY CountersAreExact, OneHelper, PTL DEF BookkeepingExact

-----------------------------------------------------------------------------
(* Replies, while no caller has timed out *)

\* The owner of an object waits for a reply nobody has sent, on the channel
\* the object names.
Due(o) ==
    /\ payload[o] \in Clients
    /\ obj[payload[o]] = o
    /\ pc[payload[o]] = "wait"
    /\ chan[payload[o]] = <<>>
    /\ respCh[o] = payload[o]

\* A server that has an object and has not replied to it.
Live(a) == spc[a] \in {"got", "handle", "reply"}

\* The fields of an object describe its owner; a channel is filled only while
\* its connection waits, and with the result of that connection's request.
ClientInv ==
    \A c \in Clients :
        /\ pc[c] \notin {"idle", "end"} => payload[obj[c]] = c
        /\ pc[c] \notin {"idle", "parsed", "end"} => respCh[obj[c]] = c
        /\ chan[c] # <<>> =>
              pc[c] = "wait" /\ Len(chan[c]) = 1 /\ Head(chan[c]).subject = c

\* A queued object is due and is queued once.
QueueInv ==
    /\ \A s \in Shards : \A i \in 1..Len(queue[s]) : Due(queue[s][i])
    /\ \A s, t \in Shards : \A i \in 1..Len(queue[s]), j \in 1..Len(queue[t]) :
          queue[s][i] = queue[t][j] => s = t /\ i = j

\* An object in the hands of a server is due, and in nobody else's hands; what
\* the server computes and where it will reply are the owner's.
ServerInv ==
    /\ \A a \in Servers : Live(a) =>
          /\ Due(sreq[a])
          /\ spc[a] # "got" => work[a].subject = payload[sreq[a]]
          /\ spc[a] = "reply" => work[a].ch = payload[sreq[a]]
          /\ \A s \in Shards : \A i \in 1..Len(queue[s]) : queue[s][i] # sreq[a]
    /\ \A a, b \in Servers : Live(a) /\ Live(b) /\ sreq[a] = sreq[b] => a = b

ReplyInv == ClientInv /\ QueueInv /\ ServerInv /\ AnswersOwnRequest

\* A connection is answered once: a timeout stays on record.
AnsweredAtEnd == \A c \in Clients : pc[c] # "end" => outcome[c].kind = "none"

LateInv == AnsweredAtEnd /\ (SomeTimedOut \/ ReplyInv)

\* A queue holds Requests.
LEMMA QueueElements ==
    ASSUME TypeOK, NEW s \in Shards, NEW i \in 1..Len(queue[s])
    PROVE  queue[s][i] \in Reqs
<1>1. queue[s] \in Seq(Reqs)
  BY DEF TypeOK
<1> QED
  BY <1>1, ElementOfSeq

\* What a queue holds after a send: what it held, and the object at its end.
LEMMA SendElements ==
    ASSUME TypeOK, NEW s \in Shards, NEW o \in Reqs,
           queue' = [queue EXCEPT ![s] = Append(@, o)],
           NEW t \in Shards, NEW i \in 1..Len(queue'[t])
    PROVE  \/ i \in 1..Len(queue[t]) /\ queue'[t][i] = queue[t][i]
           \/ t = s /\ i = Len(queue[s]) + 1 /\ queue'[t][i] = o
<1>1. queue[s] \in Seq(Reqs) /\ queue[t] \in Seq(Reqs)
  BY DEF TypeOK
<1>2. CASE t # s
  BY <1>1, <1>2 DEF TypeOK
<1>3. CASE t = s
  <2>1. queue'[t] = Append(queue[s], o)
    BY <1>3 DEF TypeOK
  <2>2. /\ Len(Append(queue[s], o)) = Len(queue[s]) + 1
        /\ \A k \in 1..Len(queue[s]) : Append(queue[s], o)[k] = queue[s][k]
        /\ Append(queue[s], o)[Len(queue[s]) + 1] = o
    BY <1>1, AppendProperties
  <2>3. Len(queue[s]) \in Nat
    BY <1>1, LenProperties
  <2> QED
    BY <1>3, <2>1, <2>2, <2>3
<1> QED
  BY <1>2, <1>3

\* What a queue holds after a receive: what it held, one place further on.
LEMMA TakeElements ==
    ASSUME TypeOK, NEW s \in Shards, queue[s] # <<>>,
           queue' = [queue EXCEPT ![s] = Tail(@)]
    PROVE  /\ 1 \in 1..Len(queue[s]) /\ Head(queue[s]) = queue[s][1]
           /\ \A t \in Shards : \A i \in 1..Len(queue'[t]) :
                 LET k == IF t = s THEN i + 1 ELSE i
                 IN  k \in 1..Len(queue[t]) /\ queue'[t][i] = queue[t][k]
<1>1. queue[s] \in Seq(Reqs)
  BY DEF TypeOK
<1>2. /\ Len(queue[s]) \in Nat /\ Len(queue[s]) > 0
      /\ Len(Tail(queue[s])) = Len(queue[s]) - 1
      /\ Head(queue[s]) = queue[s][1]
      /\ \A i \in 1..Len(Tail(queue[s])) : Tail(queue[s])[i] = queue[s][i + 1]
  BY <1>1, HeadTailProperties, LenProperties, EmptySeq
<1>3. ASSUME NEW t \in Shards, NEW i \in 1..Len(queue'[t])
      PROVE  LET k == IF t = s THEN i + 1 ELSE i
             IN  k \in 1..Len(queue[t]) /\ queue'[t][i] = queue[t][k]
  <2>1. CASE t = s
    <3>1. queue'[t] = Tail(queue[s])
      BY <2>1 DEF TypeOK
    <3>2. i \in 1..(Len(queue[s]) - 1)
      BY <1>2, <3>1
    <3>3. i + 1 \in 1..Len(queue[s])
      BY <1>2, <3>2
    <3>4. queue'[t][i] = queue[s][i + 1]
      BY <1>2, <3>1
    <3> QED
      BY <2>1, <3>3, <3>4
  <2>2. CASE t # s
    BY <2>2 DEF TypeOK
  <2> QED
    BY <2>1, <2>2
<1> QED
  BY <1>2, <1>3

\* A step that puts nothing in a queue or in a server's hands, and leaves what
\* is due as it is, keeps queues and servers in order.
LEMMA DueKept ==
    ASSUME TypeInv, QueueInv, ServerInv,
           \A o \in Reqs : Due(o) => Due(o)' /\ payload'[o] = payload[o],
           UNCHANGED <<queue, sreq, work>>,
           \A a \in Servers : Live(a)' => spc'[a] = spc[a]
    PROVE  QueueInv' /\ ServerInv'
<1>1. QueueInv'
  BY QueueElements DEF QueueInv, TypeInv
<1>2. ASSUME NEW a \in Servers, Live(a)'
      PROVE  /\ Live(a)
             /\ Due(sreq[a])' /\ payload'[sreq[a]] = payload[sreq[a]]
  <2>1. Live(a)
    BY <1>2 DEF Live
  <2>2. Due(sreq[a]) /\ sreq[a] \in Reqs
    BY <2>1 DEF ServerInv, Live, TypeInv, Holding, Busy
  <2>3. sreq'[a] = sreq[a]
    OBVIOUS
  <2> QED
    BY <2>1, <2>2, <2>3 DEF Due
<1>3. ServerInv'
  BY <1>2 DEF ServerInv
<1> QED
  BY <1>1, <1>3

\* A connection that is not waiting for a reply still to come may move, fill
\* in its object or let go of it: what is due to others stays due.
LEMMA ClientReplyInv ==
    ASSUME TypeInv, ExclusiveOwner, ReplyInv, NEW c \in Clients, ClientStep(c),
           ~SyncTimeout(c)
    PROVE  ReplyInv'
<1> USE DEF TypeInv, Goto
<1>t. /\ pc \in [Clients -> ClientLabels] /\ obj \in [Clients -> Reqs \cup {None}]
      /\ payload \in [Reqs -> Clients \cup {None}] /\ respCh \in [Reqs -> Clients \cup {None}]
      /\ chan \in [Clients -> Seq(Results)] /\ free \in SUBSET Reqs
      /\ spc \in [Servers -> ServerLabels]
  BY DEF TypeOK
<1>n. None \notin Clients /\ None \notin Reqs
  BY EngineAssumption
<1>o. ASSUME NEW o \in Reqs, Due(o)
      PROVE  /\ o \notin free
             /\ \A d \in Clients : obj[d] = o => d = payload[o]
  BY <1>o, <1>n DEF Due, ExclusiveOwner
<1>1. CASE Parse(c)
  <2>1. PICK o \in free : /\ obj' = [obj EXCEPT ![c] = o]
                          /\ payload' = [payload EXCEPT ![o] = c]
    BY <1>1 DEF Parse
  <2>2. /\ pc[c] = "idle" /\ pc' = [pc EXCEPT ![c] = "parsed"]
        /\ UNCHANGED <<queue, outcome, respCh, chan, spc, sreq, work>>
    BY <1>1 DEF Parse, serverVars
  <2>3. \A d \in Clients : pc[d] \notin {"idle", "end"} => obj[d] \in Reqs /\ obj[d] # o
    BY <1>n, <2>1 DEF Holding, ExclusiveOwner
  <2>4. ClientInv'
    BY <1>t, <2>1, <2>2, <2>3 DEF ReplyInv, ClientInv
  <2>5. ASSUME NEW x \in Reqs, Due(x) PROVE Due(x)' /\ payload'[x] = payload[x]
    <3>1. x # o /\ payload[x] # c
      BY <1>o, <2>1, <2>2, <2>5 DEF Due
    <3> QED
      BY <1>t, <2>1, <2>2, <2>5, <3>1 DEF Due
  <2>6. QueueInv' /\ ServerInv'
    BY <2>2, <2>5, DueKept DEF ReplyInv
  <2>7. AnswersOwnRequest'
    BY <2>2 DEF ReplyInv, AnswersOwnRequest
  <2> QED
    BY <2>4, <2>6, <2>7 DEF ReplyInv
<1>2. CASE StartDispatch(c)
  <2>1. /\ pc[c] = "parsed" /\ obj[c] \in Reqs
        /\ respCh' = [respCh EXCEPT ![obj[c]] = c]
        /\ UNCHANGED <<queue, obj, outcome, payload, chan, spc, sreq, work>>
    BY <1>2 DEF StartDispatch, serverVars, Holding
  <2>2. PICK l \in {"recover", "count"} : pc' = [pc EXCEPT ![c] = l]
    BY <1>2 DEF StartDispatch
  <2>3. ClientInv'
    <3>1. ASSUME NEW d \in Clients, d # c, pc[d] \notin {"idle", "end"} PROVE obj[d] # obj[c]
      BY <1>n, <2>1, <3>1 DEF ExclusiveOwner
    <3> QED
      BY <1>t, <2>1, <2>2, <3>1 DEF ReplyInv, ClientInv
  <2>4. ASSUME NEW x \in Reqs, Due(x) PROVE Due(x)' /\ payload'[x] = payload[x]
    <3>1. x # obj[c] /\ payload[x] # c
      BY <1>o, <2>1, <2>4 DEF Due
    <3> QED
      BY <1>t, <2>1, <2>2, <2>4, <3>1 DEF Due
  <2>5. QueueInv' /\ ServerInv'
    BY <2>1, <2>4, DueKept DEF ReplyInv
  <2>6. AnswersOwnRequest'
    BY <2>1 DEF ReplyInv, AnswersOwnRequest
  <2> QED
    BY <2>3, <2>5, <2>6 DEF ReplyInv
\* Steps that only move the connection, or start a helper.
<1>3. ASSUME pc[c] \in {"recover", "count", "add", "send", "undo"},
             NEW l \in {"count", "add", "send", "undo", "undone"},
             pc' = [pc EXCEPT ![c] = l] \/ pc' = pc,
             UNCHANGED <<queue, obj, outcome, payload, respCh, chan, sreq, work>>,
             \A a \in Servers : spc'[a] = spc[a] \/ spc'[a] = "poll"
      PROVE  ReplyInv'
  <2>1. ClientInv'
    BY <1>t, <1>3 DEF ReplyInv, ClientInv
  <2>2. ASSUME NEW x \in Reqs, Due(x) PROVE Due(x)' /\ payload'[x] = payload[x]
    BY <1>t, <1>3, <2>2 DEF Due
  <2>3. QueueInv' /\ ServerInv'
    BY <1>3, <2>2, DueKept DEF ReplyInv, Live
  <2>4. AnswersOwnRequest'
    BY <1>3 DEF ReplyInv, AnswersOwnRequest
  <2> QED
    BY <2>1, <2>3, <2>4 DEF ReplyInv
<1>4. CASE TryRecover(c)
  <2>1. \A a \in Servers : spc'[a] = spc[a] \/ spc'[a] = "poll"
    BY <1>4, <1>t DEF TryRecover, Servers
  <2> QED
    BY <1>3, <1>4, <2>1 DEF TryRecover, poolVars
<1>5. CASE CountWg(c) \/ CountPending(c) \/ UndoPending(c)
  BY <1>3, <1>5 DEF CountWg, CountPending, UndoPending, poolVars, serverVars
<1>6. CASE Enqueue(c)
  <2>1. /\ pc[c] = "send" /\ obj[c] \in Reqs /\ ShardOf[c] \in Shards
        /\ UNCHANGED <<obj, outcome, payload, respCh, chan, spc, sreq, work>>
    BY <1>6, EngineAssumption DEF Enqueue, Holding, poolVars, serverVars
  <2>2. CASE UNCHANGED queue /\ (pc' = [pc EXCEPT ![c] = "undo"] \/ pc' = pc)
    BY <1>3, <2>1, <2>2
  <2>3. CASE /\ queue' = [queue EXCEPT ![ShardOf[c]] = Append(@, obj[c])]
             /\ pc' = [pc EXCEPT ![c] = "wait"]
    <3>1. payload[obj[c]] = c /\ respCh[obj[c]] = c /\ chan[c] = <<>>
      BY <2>1 DEF ReplyInv, ClientInv
    <3>2. ~Due(obj[c]) /\ Due(obj[c])'
      BY <1>t, <2>1, <2>3, <3>1 DEF Due
    <3>3. ASSUME NEW x \in Reqs, Due(x) PROVE Due(x)' /\ x # obj[c]
      BY <1>t, <2>1, <2>3, <3>2, <3>3 DEF Due
    <3>4. ClientInv'
      BY <1>t, <2>1, <2>3 DEF ReplyInv, ClientInv
    <3>5. \A t \in Shards : \A i \in 1..Len(queue'[t]) :
            \/ i \in 1..Len(queue[t]) /\ queue'[t][i] = queue[t][i]
            \/ t = ShardOf[c] /\ i = Len(queue[ShardOf[c]]) + 1 /\ queue'[t][i] = obj[c]
      BY <2>1, <2>3, SendElements
    <3>6. \A t \in Shards : \A i \in 1..Len(queue[t]) :
            queue[t][i] \in Reqs /\ Due(queue[t][i]) /\ queue[t][i] # obj[c]
      BY <3>3, QueueElements DEF ReplyInv, QueueInv
    <3>7. QueueInv'
      <4>1. ASSUME NEW t \in Shards, NEW i \in 1..Len(queue'[t]) PROVE Due(queue[t][i])'
        <5>1. queue'[t][i] \in Reqs /\ (Due(queue'[t][i]) \/ queue'[t][i] = obj[c])
          BY <2>1, <3>5, <3>6
        <5>2. \A x \in Reqs : Due(x) => Due(x)'
          BY <3>3
        <5> QED
          BY <3>2, <5>1, <5>2, <2>1 DEF Due
      <4>2. ASSUME NEW s \in Shards, NEW t \in Shards, NEW i \in 1..Len(queue'[s]),
                   NEW j \in 1..Len(queue'[t]), queue'[s][i] = queue'[t][j]
            PROVE  s = t /\ i = j
        BY <3>5, <3>6, <4>2 DEF ReplyInv, QueueInv
      <4> QED
        BY <4>1, <4>2 DEF QueueInv
    <3>8. ServerInv'
      <4>1. ASSUME NEW a \in Servers, Live(a)'
            PROVE  Live(a) /\ Due(sreq[a])' /\ sreq[a] # obj[c]
        <5>1. Live(a)
          BY <2>1, <4>1 DEF Live
        <5>2. Due(sreq[a]) /\ sreq[a] \in Reqs
          BY <5>1 DEF ReplyInv, ServerInv, Live, Holding, Busy
        <5> QED
          BY <2>1, <3>3, <5>1, <5>2 DEF Due
      <4>2. ASSUME NEW a \in Servers, Live(a)', NEW s \in Shards, NEW i \in 1..Len(queue'[s])
            PROVE  queue'[s][i] # sreq[a]
        BY <3>5, <4>1, <4>2 DEF ReplyInv, ServerInv
      <4> QED
        BY <2>1, <4>1, <4>2 DEF ReplyInv, ServerInv
    <3>9. AnswersOwnRequest'
      BY <2>1 DEF ReplyInv, AnswersOwnRequest
    <3> QED
      BY <3>4, <3>7, <3>8, <3>9 DEF ReplyInv
  <2> QED
    BY <1>6, <2>2, <2>3 DEF Enqueue
\* Steps that answer the connection and release its object.
<1>7. ASSUME obj[c] \in Reqs, ~Due(obj[c]), pc[c] \in {"undone", "wait"},
             NEW k, NEW sub, k \in {"response", "nothing"} => sub = c,
             Answer(c, k, sub), Release(obj[c]),
             chan' = [chan EXCEPT ![c] = <<>>],
             UNCHANGED <<queue, spc, sreq, work>>
      PROVE  ReplyInv'
  <2>1. /\ pc' = [pc EXCEPT ![c] = "end"] /\ obj' = [obj EXCEPT ![c] = None]
        /\ outcome' = [outcome EXCEPT ![c] = [kind |-> k, subject |-> sub]]
        /\ respCh' = respCh
        /\ \A x \in Reqs : x # obj[c] => payload'[x] = payload[x]
    BY <1>t, <1>7 DEF Answer, Release
  <2>2. payload[obj[c]] = c
    BY <1>7 DEF ReplyInv, ClientInv
  <2>3. ASSUME NEW d \in Clients, d # c, pc[d] \notin {"idle", "end"}
        PROVE  obj[d] # obj[c] /\ obj[d] \in Reqs
    BY <1>n, <1>7, <2>3 DEF ExclusiveOwner, Holding
  <2>4. ClientInv'
    BY <1>t, <1>7, <2>1, <2>3 DEF ReplyInv, ClientInv
  <2>5. ASSUME NEW x \in Reqs, Due(x) PROVE Due(x)' /\ payload'[x] = payload[x]
    <3>1. x # obj[c] /\ payload[x] # c
      BY <1>7, <1>o, <2>2, <2>5 DEF Due
    <3> QED
      BY <1>t, <1>7, <2>1, <2>5, <3>1 DEF Due
  <2>6. QueueInv' /\ ServerInv'
    BY <1>7, <2>5, DueKept DEF ReplyInv
  <2>7. AnswersOwnRequest'
    BY <1>7, <2>1 DEF ReplyInv, AnswersOwnRequest, TypeOK
  <2> QED
    BY <2>4, <2>6, <2>7 DEF ReplyInv
<1>8. CASE Reject(c)
  <2>1. pc[c] = "undone" /\ obj[c] \in Reqs /\ payload[obj[c]] = c /\ chan[c] = <<>>
    BY <1>8 DEF Reject, Holding, ReplyInv, ClientInv
  <2>2. ~Due(obj[c])
    BY <2>1 DEF Due
  <2>3. chan' = [chan EXCEPT ![c] = <<>>]
    BY <1>8, <1>t, <2>1 DEF Reject
  <2>4. Answer(c, "error", c) /\ Release(obj[c]) /\ UNCHANGED <<queue, spc, sreq, work>>
    BY <1>8 DEF Reject, serverVars
  <2> QED
    BY <1>7, <2>1, <2>2, <2>3, <2>4
<1>9. CASE Deliver(c)
  <2>1. /\ pc[c] = "wait" /\ chan[c] # <<>> /\ obj[c] \in Reqs /\ payload[obj[c]] = c
        /\ Len(chan[c]) = 1 /\ Head(chan[c]).subject = c
    BY <1>9 DEF Deliver, Holding, ReplyInv, ClientInv
  <2>2. ~Due(obj[c])
    BY <2>1 DEF Due
  <2>3. Tail(chan[c]) = <<>>
    <3>1. chan[c] \in Seq(Results)
      BY <1>t
    <3>2. Tail(chan[c]) \in Seq(Results) /\ Len(Tail(chan[c])) = 0
      BY <2>1, <3>1, HeadTailProperties
    <3> QED
      BY <3>2, EmptySeq
  <2>4. PICK k : Answer(c, k, Head(chan[c]).subject)
    BY <1>9 DEF Deliver
  <2>5. /\ Release(obj[c]) /\ UNCHANGED <<queue, spc, sreq, work>>
        /\ chan' = [chan EXCEPT ![c] = <<>>]
    BY <1>9, <2>3 DEF Deliver, serverVars
  <2> QED
    BY <1>7, <2>1, <2>2, <2>4, <2>5
<1> QED
  BY <1>1, <1>2, <1>4, <1>5, <1>6, <1>8, <1>9 DEF ClientStep, DispatchStep, AwaitStep

\* A server receives an object that is due, and nobody else has.
LEMMA TakeReplyInv ==
    ASSUME TypeInv, ReplyInv, NEW a \in Servers, Take(a),
           UNCHANGED <<clientVars, poolVars, chan, work>>
    PROVE  ReplyInv'
<1> USE DEF TypeInv
<1>1. /\ UNCHANGED <<pc, obj, outcome, payload, respCh, chan, work>>
      /\ sreq'[a] \in Reqs
      /\ \A b \in Servers \ {a} : sreq'[b] = sreq[b]
      /\ spc' = [spc EXCEPT ![a] = "got"]
      /\ spc \in [Servers -> ServerLabels]
  BY TakeTypes DEF clientVars, poolVars, TypeOK
<1>2. \A o : Due(o)' <=> Due(o)
  BY <1>1 DEF Due
<1>3. ClientInv' /\ AnswersOwnRequest'
  BY <1>1 DEF ReplyInv, ClientInv, AnswersOwnRequest
<1> DEFINE s == Home[a]
<1>4. s \in Shards /\ queue[s] # <<>> /\ sreq'[a] = Head(queue[s])
      /\ queue' = [queue EXCEPT ![s] = Tail(@)]
  BY EngineAssumption DEF Take, TypeOK
<1>5. /\ 1 \in 1..Len(queue[s]) /\ sreq'[a] = queue[s][1]
      /\ \A t \in Shards : \A i \in 1..Len(queue'[t]) :
            LET k == IF t = s THEN i + 1 ELSE i
            IN  k \in 1..Len(queue[t]) /\ queue'[t][i] = queue[t][k]
  BY <1>4, TakeElements
<1> HIDE DEF s
<1>6. QueueInv'
  <2>1. ASSUME NEW t \in Shards, NEW i \in 1..Len(queue'[t]) PROVE Due(queue[t][i])'
    <3>1. Due(queue'[t][i])
      BY <1>5 DEF ReplyInv, QueueInv
    <3> QED
      BY <1>1, <3>1 DEF Due
  <2>2. ASSUME NEW t \in Shards, NEW u \in Shards, NEW i \in 1..Len(queue'[t]),
               NEW j \in 1..Len(queue'[u]), queue'[t][i] = queue'[u][j]
        PROVE  t = u /\ i = j
    <3> DEFINE k == IF t = s THEN i + 1 ELSE i
               l == IF u = s THEN j + 1 ELSE j
    <3>1. /\ k \in 1..Len(queue[t]) /\ queue'[t][i] = queue[t][k]
          /\ l \in 1..Len(queue[u]) /\ queue'[u][j] = queue[u][l]
      BY <1>5
    <3>2. t = u /\ k = l
      <4> HIDE DEF k, l
      <4>1. \A x, y \in Shards : \A m \in 1..Len(queue[x]), n \in 1..Len(queue[y]) :
              queue[x][m] = queue[y][n] => x = y /\ m = n
        BY DEF ReplyInv, QueueInv
      <4>2. queue[t][k] = queue[u][l]
        BY <2>2, <3>1
      <4> QED
        BY <3>1, <4>1, <4>2
    <3> QED
      BY <3>2
  <2> QED
    BY <2>1, <2>2 DEF QueueInv
<1>7. ServerInv'
  <2>1. ASSUME NEW b \in Servers, b # a, Live(b)'
        PROVE  /\ Live(b) /\ sreq'[b] = sreq[b] /\ spc'[b] = spc[b]
               /\ sreq[b] # sreq'[a]
    <3>1. Live(b) /\ spc'[b] = spc[b]
      BY <1>1, <2>1 DEF Live
    <3> QED
      BY <1>1, <1>4, <1>5, <2>1, <3>1 DEF ReplyInv, ServerInv
  <2>2. ASSUME NEW t \in Shards, NEW i \in 1..Len(queue'[t]) PROVE queue'[t][i] # sreq'[a]
    <3>1. t = s => i + 1 # 1
      OBVIOUS
    <3> QED
      BY <1>4, <1>5, <3>1 DEF ReplyInv, QueueInv
  <2>3. Due(sreq[a])' /\ spc'[a] = "got"
    <3>1. Due(sreq'[a])
      BY <1>4, <1>5 DEF ReplyInv, QueueInv
    <3> QED
      BY <1>1, <3>1 DEF Due
  <2>4. ASSUME NEW b \in Servers, b # a, Live(b)'
        PROVE  /\ Due(sreq[b])'
               /\ spc'[b] # "got" => work'[b].subject = payload'[sreq'[b]]
               /\ spc'[b] = "reply" => work'[b].ch = payload'[sreq'[b]]
               /\ \A t \in Shards : \A i \in 1..Len(queue'[t]) : queue'[t][i] # sreq'[b]
    <3>1. /\ Due(sreq[b])
          /\ spc[b] # "got" => work[b].subject = payload[sreq[b]]
          /\ spc[b] = "reply" => work[b].ch = payload[sreq[b]]
          /\ \A t \in Shards : \A i \in 1..Len(queue[t]) : queue[t][i] # sreq[b]
      BY <2>1, <2>4 DEF ReplyInv, ServerInv
    <3>2. Due(sreq[b])'
      BY <1>1, <2>1, <2>4, <3>1 DEF Due
    <3> QED
      BY <1>1, <1>5, <2>1, <2>4, <3>1, <3>2
  <2>5. \A b, d \in Servers : Live(b)' /\ Live(d)' /\ sreq'[b] = sreq'[d] => b = d
    BY <2>1 DEF ReplyInv, ServerInv
  <2> QED
    BY <2>2, <2>3, <2>4, <2>5 DEF ServerInv
<1> QED
  BY <1>3, <1>6, <1>7 DEF ReplyInv

\* A handler computes on its owner's request and replies to its owner, whose
\* channel has room; nobody else's reply is due from this object.
LEMMA HandleReplyInv ==
    ASSUME TypeInv, ReplyInv, NEW a \in Servers, HandleStep(a)
    PROVE  ReplyInv'
<1> USE DEF TypeInv, SGoto
<1>t. /\ spc \in [Servers -> ServerLabels] /\ work \in [Servers -> Results]
      /\ chan \in [Clients -> Seq(Results)] /\ sreq \in [Servers -> Reqs \cup {None}]
  BY DEF TypeOK
<1>u. /\ UNCHANGED <<queue, pc, obj, outcome, payload, respCh>>
      /\ \A b \in Servers : b # a =>
            spc'[b] = spc[b] /\ work'[b] = work[b] /\ sreq'[b] = sreq[b]
  BY <1>t DEF HandleStep, StartHandler, EndHandler, Reply, Finish, clientVars, poolVars
<1>1. AnswersOwnRequest'
  BY <1>u DEF ReplyInv, AnswersOwnRequest
\* Computing changes nobody's channel.
<1>2. ASSUME Live(a), UNCHANGED <<sreq, chan>>, Live(a)',
             spc'[a] # "got" => work'[a].subject = payload[sreq[a]],
             spc'[a] = "reply" => work'[a].ch = payload[sreq[a]]
      PROVE  ReplyInv'
  <2>1. \A o : Due(o)' <=> Due(o)
    BY <1>u, <1>2 DEF Due
  <2>2. ClientInv'
    BY <1>u, <1>2 DEF ReplyInv, ClientInv
  <2>3. QueueInv'
    BY <1>u, <1>2 DEF ReplyInv, QueueInv, Due
  <2>4. \A b \in Servers : Live(b)' => Live(b)
    BY <1>u, <1>2 DEF Live
  <2>5. ServerInv'
    <3>1. \A b \in Servers : Live(b)' => Due(sreq[b])'
      BY <1>u, <1>2, <2>4 DEF ReplyInv, ServerInv, Due
    <3> QED
      BY <1>u, <1>2, <2>4, <3>1 DEF ReplyInv, ServerInv
  <2> QED
    BY <1>1, <2>2, <2>3, <2>5 DEF ReplyInv
<1>3. CASE StartHandler(a)
  <2>1. Live(a) /\ Live(a)' /\ spc'[a] = "handle"
    BY <1>3, <1>t DEF StartHandler, Live
  <2>2. work'[a].subject = payload[sreq[a]]
    BY <1>3, <1>t DEF StartHandler, NoWork
  <2> QED
    BY <1>2, <1>3, <2>1, <2>2 DEF StartHandler
<1>4. CASE EndHandler(a)
  <2>1. Live(a) /\ spc[a] = "handle" /\ Live(a)' /\ spc'[a] = "reply"
    BY <1>4, <1>t DEF EndHandler, Live
  <2>2. work[a].subject = payload[sreq[a]] /\ respCh[sreq[a]] = payload[sreq[a]]
    BY <2>1 DEF ReplyInv, ServerInv, Due
  <2>3. work'[a].subject = payload[sreq[a]] /\ work'[a].ch = payload[sreq[a]]
    BY <1>4, <1>t, <2>2 DEF EndHandler
  <2> QED
    BY <1>2, <1>4, <2>1, <2>3 DEF EndHandler
<1>5. CASE Reply(a)
  <2>1. Live(a) /\ spc[a] = "reply" /\ spc'[a] = "finish" /\ ~Live(a)'
    BY <1>5, <1>t DEF Reply, Live
  <2>2. PICK c \in Clients : c = payload[sreq[a]] /\ work[a].ch = c /\ work[a].subject = c
    BY <2>1 DEF ReplyInv, ServerInv, Due
  <2>3. Due(sreq[a]) /\ sreq[a] \in Reqs
    BY <2>1 DEF ReplyInv, ServerInv, Holding, Busy
  <2>4. /\ chan[c] = <<>> /\ chan' = [chan EXCEPT ![c] = Append(<<>>, work[a])]
        /\ UNCHANGED <<sreq, work>>
    BY <1>5, <2>2, <2>3 DEF Due, Reply
  <2>5. Len(chan'[c]) = 1 /\ Head(chan'[c]) = work[a]
    BY <1>t, <2>4
  <2>6. ClientInv'
    BY <1>t, <1>u, <2>2, <2>3, <2>4, <2>5 DEF ReplyInv, ClientInv, Due
  <2>7. \A o : Due(o) /\ o # sreq[a] => Due(o)'
    BY <1>t, <1>u, <2>2, <2>3, <2>4 DEF Due
  <2>8. QueueInv'
    <3>1. \A s \in Shards : \A i \in 1..Len(queue[s]) : queue[s][i] # sreq[a]
      BY <2>1 DEF ReplyInv, ServerInv
    <3>2. ASSUME NEW s \in Shards, NEW i \in 1..Len(queue[s]) PROVE Due(queue[s][i])'
      <4>1. Due(queue[s][i]) /\ queue[s][i] # sreq[a] /\ queue'[s][i] = queue[s][i]
        BY <1>u, <3>1 DEF ReplyInv, QueueInv
      <4>2. payload[queue[s][i]] # c
        BY <2>2, <2>3, <4>1 DEF Due
      <4> QED
        BY <1>t, <1>u, <2>4, <4>1, <4>2 DEF Due
    <3> QED
      BY <1>u, <3>2 DEF ReplyInv, QueueInv
  <2>9. \A b \in Servers : Live(b)' => b # a /\ Live(b) /\ sreq[b] # sreq[a]
    <3>1. \A b \in Servers : Live(b)' => b # a /\ Live(b)
      BY <1>u, <2>1 DEF Live
    <3> QED
      BY <2>1, <3>1 DEF ReplyInv, ServerInv
  <2>10. \A b \in Servers : Live(b)' => Due(sreq[b])'
    BY <1>t, <1>u, <2>2, <2>3, <2>4, <2>9 DEF ReplyInv, ServerInv, Due
  <2>11. ServerInv'
    BY <1>u, <2>4, <2>9, <2>10 DEF ReplyInv, ServerInv
  <2> QED
    BY <1>1, <2>6, <2>8, <2>11 DEF ReplyInv
<1>6. CASE Finish(a)
  <2>1. ~Live(a)' /\ UNCHANGED chan
    BY <1>6, <1>t DEF Finish, Live
  <2>2. ClientInv'
    BY <1>u, <2>1 DEF ReplyInv, ClientInv
  <2>3. QueueInv'
    BY <1>u, <2>1 DEF ReplyInv, QueueInv, Due
  <2>4. \A b \in Servers : Live(b)' => b # a /\ Live(b)
    BY <1>u, <2>1 DEF Live
  <2>5. \A b \in Servers : Live(b)' => Due(sreq[b])'
    BY <1>u, <2>1, <2>4 DEF ReplyInv, ServerInv, Due
  <2>6. ServerInv'
    BY <1>u, <2>4, <2>5 DEF ReplyInv, ServerInv
  <2> QED
    BY <1>1, <2>2, <2>3, <2>6 DEF ReplyInv
<1> QED
  BY <1>3, <1>4, <1>5, <1>6 DEF HandleStep

\* Steps without a request in hand, and the steps of Close.
LEMMA IdleReplyInv ==
    ASSUME TypeInv, ReplyInv,
           UNCHANGED <<queue, pc, obj, outcome, payload, respCh, chan, sreq, work>>,
           \A a \in Servers : Live(a)' => spc'[a] = spc[a]
    PROVE  ReplyInv'
<1>1. \A o \in Reqs : Due(o) => Due(o)' /\ payload'[o] = payload[o]
  BY DEF Due
<1>2. QueueInv' /\ ServerInv'
  BY <1>1, DueKept DEF ReplyInv
<1> QED
  BY <1>2 DEF ReplyInv, ClientInv, AnswersOwnRequest

LEMMA StepReplyInv ==
    ASSUME TypeInv, ExclusiveOwner, ReplyInv, Cases,
           \A c \in Clients : ~SyncTimeout(c)
    PROVE  ReplyInv'
<1> USE DEF clientVars, poolVars, serverVars, closeVars
<1>t. spc \in [Servers -> ServerLabels]
  BY DEF TypeInv, TypeOK
<1>1. ASSUME NEW c \in Clients, ClientStep(c) PROVE ReplyInv'
  BY <1>1, ClientReplyInv
<1>2. ASSUME NEW a \in Servers, HandleStep(a) PROVE ReplyInv'
  BY <1>2, HandleReplyInv
<1>3. ASSUME NEW a \in Servers, Receive(a) \/ RecoverTake(a) PROVE ReplyInv'
  BY <1>3, TakeReplyInv DEF Receive, RecoverTake
<1>4. ASSUME NEW a \in Servers, WorkerExit(a) \/ RecoverStop(a) \/ RecoverReturn(a) PROVE ReplyInv'
  <2>1. /\ UNCHANGED <<queue, pc, obj, outcome, payload, respCh, chan, sreq, work>>
        /\ \A b \in Servers : spc'[b] = spc[b] \/ spc'[b] \in {"exit", "return", "idle"}
    BY <1>t, <1>4 DEF WorkerExit, RecoverStop, RecoverReturn, SGoto
  <2> QED
    BY <2>1, IdleReplyInv DEF Live
<1>5. CASE CloseStep \/ UNCHANGED vars
  <2>1. UNCHANGED <<queue, pc, obj, outcome, payload, respCh, chan, spc, sreq, work>>
    BY <1>5 DEF CloseStep, StartClose, CloseQueue, WaitShard, CloseReturns, CloseListener, vars
  <2> QED
    BY <2>1, IdleReplyInv
<1> QED
  BY <1>1, <1>2, <1>3, <1>4, <1>5 DEF Cases, Servers

\* An answered connection stays answered as it was.
LEMMA StepAnswered ==
    ASSUME TypeInv, AnsweredAtEnd, Cases
    PROVE  /\ AnsweredAtEnd'
           /\ SomeTimedOut => SomeTimedOut'
           /\ \A c \in Clients : SyncTimeout(c) => SomeTimedOut'
<1> USE DEF TypeInv, Goto, Answer
<1>t. /\ pc \in [Clients -> ClientLabels]
      /\ outcome \in [Clients -> [kind : {"none", "response", "error", "timeout", "nothing"},
                                  subject : Clients \cup {None}]]
  BY DEF TypeOK
<1>1. ASSUME NEW c \in Clients, ClientStep(c)
      PROVE  /\ \A d \in Clients : d # c => pc'[d] = pc[d] /\ outcome'[d] = outcome[d]
             /\ pc[c] # "end" /\ (pc'[c] # "end" => outcome'[c] = outcome[c])
  BY <1>t, <1>1
     DEF ClientStep, DispatchStep, AwaitStep, Parse, StartDispatch, TryRecover, CountWg,
         CountPending, Enqueue, UndoPending, Reject, Deliver, SyncTimeout
<1>2. CASE ~\E c \in Clients : ClientStep(c)
  <2>1. UNCHANGED <<pc, outcome>>
    BY <1>2 DEF Cases, HandleStep, StartHandler, EndHandler, Reply, Finish, Receive, WorkerExit,
                RecoverTake, RecoverStop, RecoverReturn, CloseStep, StartClose, CloseQueue,
                WaitShard, CloseReturns, CloseListener, vars, clientVars
  <2> QED
    BY <1>2, <2>1 DEF AnsweredAtEnd, SomeTimedOut, ClientStep, AwaitStep
<1>3. ASSUME NEW c \in Clients, ClientStep(c)
      PROVE  AnsweredAtEnd' /\ (SomeTimedOut => SomeTimedOut')
  <2>1. AnsweredAtEnd'
    BY <1>1, <1>3 DEF AnsweredAtEnd
  <2>2. ASSUME SomeTimedOut PROVE SomeTimedOut'
    <3>1. PICK d \in Clients : outcome[d].kind = "timeout"
      BY <2>2 DEF SomeTimedOut
    <3>2. pc[d] = "end"
      BY <3>1 DEF AnsweredAtEnd
    <3>3. outcome'[d] = outcome[d]
      BY <1>1, <1>3, <3>2
    <3> QED
      BY <3>1, <3>3 DEF SomeTimedOut
  <2> QED
    BY <2>1, <2>2
<1>4. ASSUME NEW c \in Clients, SyncTimeout(c) PROVE SomeTimedOut'
  <2>1. outcome'[c].kind = "timeout"
    BY <1>t, <1>4 DEF SyncTimeout
  <2> QED
    BY <2>1 DEF SomeTimedOut
<1> QED
  BY <1>2, <1>3, <1>4

\* As long as no caller has timed out, every connection is answered with the
\* result of its own request and no server blocks on its reply, for every
\* number of connections, servers and pooled objects: DispatchSync's release
\* on a timeout is the only way to either.
THEOREM RepliesReachTheirOwners == Spec => []LateRepliesOnly
<1>1. Init => LateInv
  <2> SUFFICES ASSUME Init PROVE LateInv
    OBVIOUS
  <2>1. AnsweredAtEnd /\ AnswersOwnRequest
    BY DEF Init, AnsweredAtEnd, AnswersOwnRequest, NoOutcome
  <2>2. ClientInv
    BY DEF Init, ClientInv
  <2>3. QueueInv
    BY DEF Init, QueueInv
  <2>4. ServerInv
    BY DEF Init, ServerInv, Live
  <2> QED
    BY <2>1, <2>2, <2>3, <2>4 DEF LateInv, ReplyInv
<1>2. TypeInv /\ ExclusiveOwner /\ LateInv /\ [Next]_vars => LateInv'
  BY NextCases, StepReplyInv, StepAnswered DEF LateInv
<1>3. LateInv => LateRepliesOnly
  <2> SUFFICES ASSUME LateInv, ~SomeTimedOut PROVE AnswersOwnRequest /\ ~ReplyBlocked
    BY DEF LateRepliesOnly, ForeignNeedsTimeout, BlockingNeedsTimeout
  <2> QED
    BY DEF LateInv, ReplyInv, ServerInv, Live, Due, ReplyBlocked
<1> QED
  BY <1>1, <1>2, <1>3, EngineTypes, OneOwner, PTL DEF Spec
=============================================================================
