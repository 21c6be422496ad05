------------------------------ MODULE HashRing ------------------------------
(***************************************************************************)
(* The consistent-hash selector (internal/router/consistent_hash.go) as    *)
(* Router.Route uses it: one selector, with one cached ring, serves every  *)
(* route of that strategy.                                                 *)
(*                                                                         *)
(* CRC32 is an arbitrary function `at` of virtual nodes, fixed in Init; a  *)
(* request is known by the hash of its key.  ring, nodeMap and             *)
(* lastBackends only change together, under the write lock, and are        *)
(* determined by the list they were built from: the variable built.        *)
(***************************************************************************)
EXTENDS RouterBackends

CONSTANTS
    Requests,       \* concurrent requests
    VirtualNodes,   \* ConsistentHash.virtualNodes
    MaxSelects      \* bound: selections

ASSUME RingAssumption == VirtualNodes \in Nat \ {0} /\ MaxSelects \in Nat

VARIABLES
    at,         \* the hash of "address#i"
    built,      \* the list the ring was built from; <<>>: no ring yet
    stage,         \* request: "idle", "check", "rebuild", "find"
    req,        \* request: its route, key and healthy backends, and a history:
                \* alone, if no request with another list was in Select with it
    answers,    \* history: what was selected for requests that were alone
    selects     \* bound counter

ringVars == <<at, built, stage, req, answers, selects>>

NoReq == [route |-> "", key |-> 0, backends |-> <<>>, alone |-> TRUE]

RingInit ==
    /\ at \in [Addrs \X (1..VirtualNodes) -> Hashes]
    /\ built = <<>>
    /\ stage = [r \in Requests |-> "idle"] /\ req = [r \in Requests |-> NoReq]
    /\ answers = {} /\ selects = 0

-----------------------------------------------------------------------------
(* The ring                                                                *)

\* The hash of the i-th virtual node of the j-th backend: of its address.
VNode(backends, j, i) == at[<<backends[j], i>>]

\* rebuild: the ring holds the hashes of all virtual nodes ...
Ring(backends) == {VNode(backends, j, i) : j \in 1..Len(backends), i \in 1..VirtualNodes}

\* ... and nodeMap gives each hash to the last backend that wrote it.
NodeMap(backends, p) ==
    LET owners == {j \in 1..Len(backends) :
                      \E i \in 1..VirtualNodes : VNode(backends, j, i) = p}
    IN  backends[CHOOSE j \in owners : \A k \in owners : k <= j]

Least(S) == CHOOSE x \in S : \A y \in S : x <= y

\* sort.Search for the first hash not below the key's, else the first of all.
Find(backends, key) ==
    LET above == {p \in Ring(backends) : p >= key}
    IN  NodeMap(backends, IF above # {} THEN Least(above) ELSE Least(Ring(backends)))

-----------------------------------------------------------------------------
(* Select, within Router.Route                                             *)

Answer(q, backend) ==
    answers' = IF ~q.alone THEN answers ELSE answers \cup
        {[route |-> q.route, key |-> q.key, backends |-> q.backends, node |-> backend]}

\* Route under the read lock: filter the healthy backends; with none it
\* answers ErrBackendDown, with one Select returns it at once.
Start(r) ==
    /\ stage[r] = "idle" /\ selects < MaxSelects
    /\ selects' = selects + 1
    /\ \E n \in Names, k \in Hashes : \E list \in {Healthy(n)} :
        LET others == {o \in Requests : stage[o] # "idle" /\ req[o].backends # list}
            q == [route |-> n, key |-> k, backends |-> list, alone |-> others = {}]
        IN  \/ /\ Len(list) = 1 /\ Answer(q, list[1])
               /\ UNCHANGED <<req, stage>>
            \/ /\ Len(list) > 1
               /\ req' = [o \in Requests |->
                            IF o = r THEN q
                            ELSE IF o \in others THEN [req[o] EXCEPT !.alone = FALSE]
                            ELSE req[o]]
               /\ stage' = [stage EXCEPT ![r] = "check"]
               /\ UNCHANGED answers
    /\ UNCHANGED <<at, built>>

\* backendsChanged compares the signature with that of the ring.
NeedsRebuild(r) == built = <<>> \/ built # req[r].backends

\* Mutant: a ring that exists is never rebuilt.
Check_OnlyOnce(r) ==
    /\ stage[r] = "check"
    /\ stage' = [stage EXCEPT ![r] = IF built = <<>> THEN "rebuild" ELSE "find"]
    /\ UNCHANGED <<at, built, req, answers, selects>>

\* First critical section (read lock): is the ring the one for this list?
Check(r) ==
    /\ stage[r] = "check"
    /\ stage' = [stage EXCEPT ![r] = IF NeedsRebuild(r) THEN "rebuild" ELSE "find"]
    /\ UNCHANGED <<at, built, req, answers, selects>>

\* Second (write lock): look again, and rebuild.
Rebuild(r) ==
    /\ stage[r] = "rebuild"
    /\ built' = IF NeedsRebuild(r) THEN req[r].backends ELSE built
    /\ stage' = [stage EXCEPT ![r] = "find"]
    /\ UNCHANGED <<at, req, answers, selects>>

\* Third (read lock): search the ring as it is now.
Search(r) ==
    /\ stage[r] = "find"
    /\ Answer(req[r], Find(built, req[r].key))
    /\ req' = [req EXCEPT ![r] = NoReq]
    /\ stage' = [stage EXCEPT ![r] = "idle"]
    /\ UNCHANGED <<at, built, selects>>

RingStep(r) == Start(r) \/ Check(r) \/ Rebuild(r) \/ Search(r)

-----------------------------------------------------------------------------
(* Properties                                                              *)

\* A request is sent to one of the backends of its own route that were
\* healthy when it was routed, whatever other requests with the same list do
\* to the ring.  (A request of another route that is in Select at the same time
\* may rebuild the shared ring between this one's rebuild and its search.)
OwnBackend == \A x \in answers : x.node \in Range(x.backends)

\* Consistency: if the list of the second answer contains that of the first,
\* the key stays where it was or moves to a backend that was added.  With equal
\* lists, a key always gets the same backend.
MinimalRemap ==
    \A x, y \in answers :
        (x.route = y.route /\ x.key = y.key /\ Range(x.backends) \subseteq Range(y.backends))
        => y.node = x.node \/ y.node \notin Range(x.backends)

\* The ring keeps its promise to the keys (ConsistentHash.Select).
RingConsistent == OwnBackend /\ MinimalRemap
=============================================================================
