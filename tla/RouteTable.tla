----------------------------- MODULE RouteTable -----------------------------
(***************************************************************************)
(* The router's lookup tree (internal/router/router.go).  SwapRoutes       *)
(* installs a table under the write lock and marks the tree dirty; Route   *)
(* rebuilds a dirty tree under the READ lock, so several requests may do   *)
(* it at once.  Every access to r.dirty, r.tree and the tree's slices is a *)
(* step of its own.                                                        *)
(*                                                                         *)
(* A tree is abstracted to the sequence of routes inserted into it; how    *)
(* it finds them by path is the subject of RadixTree.                      *)
(***************************************************************************)
EXTENDS Integers, Sequences

CONSTANTS
    Readers,    \* goroutines calling Route
    Tables,     \* the route tables installed one after the other, each a
                \* sequence of distinct paths
    None

\* The paths some table knows.
Paths == UNION {{Tables[g][i] : i \in DOMAIN Tables[g]} : g \in DOMAIN Tables}

ASSUME TablesAssumption ==
    /\ Tables \in Seq(Seq(Paths)) /\ Tables # <<>>
    /\ \A g \in DOMAIN Tables : Tables[g] # <<>>

VARIABLES
    gen,        \* r.routes: Tables[gen] is installed
    dirty,      \* r.dirty
    tree,       \* r.tree: which of trees
    trees,      \* every tree allocated, as the routes it holds
    pc,         \* where each reader is
    path,       \* the request's path
    idx,        \* position in the range over r.routes
    node,       \* the tree an Insert is working on
    slice,      \* the slice it read and is about to append to
    result,     \* the route match returned
    raced       \* history: since the last SwapRoutes, a request was inside
                \* Route while another one rebuilt the tree

readerVars == <<pc, path, idx, node, slice, result>>
vars == <<gen, dirty, tree, trees, readerVars, raced>>

RoutesOf(g) == [i \in DOMAIN Tables[g] |-> [gen |-> g, path |-> Tables[g][i]]]

Inside(p) == pc[p] # "out"

Rebuilding(p) == pc[p] \in {"new", "range", "append"}
MeetsRebuild == \E p \in Readers : Rebuilding(p) \/ (dirty /\ Inside(p))

\* Mutant: SwapRoutes replaces the routes but leaves the tree.
SwapRoutes_KeepTree ==
    /\ gen < Len(Tables)
    /\ \A p \in Readers : ~Inside(p)
    /\ gen' = gen + 1
    /\ raced' = FALSE
    /\ UNCHANGED <<dirty, tree, trees, readerVars>>

\* SwapRoutes, whole, under the write lock.
SwapRoutes ==
    /\ gen < Len(Tables)
    /\ \A p \in Readers : ~Inside(p)
    /\ gen' = gen + 1
    /\ dirty' = TRUE
    /\ raced' = FALSE
    /\ UNCHANGED <<tree, trees, readerVars>>

\* Mutant: match does not rebuild a dirty tree.
Enter_NoRebuild(p) ==
    /\ ~Inside(p)
    /\ \E q \in Paths : path' = [path EXCEPT ![p] = q]
    /\ pc' = [pc EXCEPT ![p] = "lookup"]
    /\ result' = [result EXCEPT ![p] = None]
    /\ raced' = (raced \/ MeetsRebuild)
    /\ UNCHANGED <<gen, dirty, tree, trees, idx, node, slice>>

\* Route: RLock, and rebuildTree's test of r.dirty.  The request is for a path
\* that some table knows.
Enter(p) ==
    /\ ~Inside(p)
    /\ \E q \in Paths : path' = [path EXCEPT ![p] = q]
    /\ pc' = [pc EXCEPT ![p] = IF dirty THEN "new" ELSE "lookup"]
    /\ result' = [result EXCEPT ![p] = None]
    /\ raced' = (raced \/ MeetsRebuild)
    /\ UNCHANGED <<gen, dirty, tree, trees, idx, node, slice>>

\* r.tree = NewRadixTree()
NewTree(p) ==
    /\ pc[p] = "new"
    /\ trees' = Append(trees, <<>>)
    /\ tree' = Len(trees')
    /\ idx' = [idx EXCEPT ![p] = 1]
    /\ pc' = [pc EXCEPT ![p] = "range"]
    /\ UNCHANGED <<gen, dirty, path, node, slice, result, raced>>

\* r.tree.Insert(route): reads r.tree again, then the slice to append to ...
InsertRead(p) ==
    /\ pc[p] = "range"
    /\ idx[p] <= Len(RoutesOf(gen))
    /\ node' = [node EXCEPT ![p] = tree]
    /\ slice' = [slice EXCEPT ![p] = trees[tree]]
    /\ pc' = [pc EXCEPT ![p] = "append"]
    /\ UNCHANGED <<gen, dirty, tree, trees, path, idx, result, raced>>

\* ... and stores the longer slice.
InsertWrite(p) ==
    /\ pc[p] = "append"
    /\ trees' = [trees EXCEPT ![node[p]] =
                    Append(slice[p], RoutesOf(gen)[idx[p]])]
    /\ idx' = [idx EXCEPT ![p] = @ + 1]
    /\ node' = [node EXCEPT ![p] = None]
    /\ slice' = [slice EXCEPT ![p] = <<>>]
    /\ pc' = [pc EXCEPT ![p] = "range"]
    /\ UNCHANGED <<gen, dirty, tree, path, result, raced>>

\* r.dirty = false
SetClean(p) ==
    /\ pc[p] = "range"
    /\ idx[p] > Len(RoutesOf(gen))
    /\ dirty' = FALSE
    /\ idx' = [idx EXCEPT ![p] = 0]
    /\ pc' = [pc EXCEPT ![p] = "lookup"]
    /\ UNCHANGED <<gen, tree, trees, path, node, slice, result, raced>>

\* match: r.tree.Lookup and a candidate that fits; Route selects a backend of
\* it, or fails with ErrNoRoute, and unlocks.
Match(p) ==
    /\ pc[p] = "lookup"
    /\ LET fits == {i \in DOMAIN trees[tree] : trees[tree][i].path = path[p]}
       IN \/ /\ fits = {}
             /\ result' = [result EXCEPT ![p] = [gen |-> gen, path |-> None]]
          \/ \E i \in fits : result' = [result EXCEPT ![p] = trees[tree][i]]
    /\ pc' = [pc EXCEPT ![p] = "out"]
    /\ UNCHANGED <<gen, dirty, tree, trees, path, idx, node, slice, raced>>

Init ==
    /\ gen = 1 /\ dirty = TRUE
    /\ tree = 1 /\ trees = << <<>> >>
    /\ pc = [p \in Readers |-> "out"]
    /\ path = [p \in Readers |-> None]
    /\ idx = [p \in Readers |-> 0]
    /\ node = [p \in Readers |-> None]
    /\ slice = [p \in Readers |-> <<>>]
    /\ result = [p \in Readers |-> None]
    /\ raced = FALSE

ReaderStep(p) ==
    NewTree(p) \/ InsertRead(p) \/ InsertWrite(p) \/ SetClean(p) \/ Match(p)

Next == SwapRoutes \/ \E p \in Readers : Enter(p) \/ ReaderStep(p)

Spec == Init /\ [][Next]_vars

-----------------------------------------------------------------------------
(* Properties                                                              *)

Current(s) == \A i \in DOMAIN s : s[i].gen = gen

\* Once SwapRoutes has returned, no request is routed by the table it replaced:
\* a tree that is used, or that is no longer dirty, holds routes of the
\* installed table only, although readers rebuild it concurrently.
NoOldRoutes ==
    (~dirty \/ \E p \in Readers : pc[p] \in {"range", "append", "lookup"})
        => Current(trees[tree])

\* A request whose path is in the installed table is routed, unless requests
\* met in a rebuild of the tree.
FindsConfigured ==
    [][\A p \in Readers :
         /\ pc[p] = "lookup" /\ pc'[p] = "out" /\ ~raced
         /\ \E i \in DOMAIN Tables[gen] : Tables[gen][i] = path[p]
         => result'[p].path = path[p]]_vars

\* With the same exception, a tree that is not dirty and that nobody is filling
\* holds the whole table.
SettledTreeIsWhole ==
    ~raced /\ ~dirty /\ (\A p \in Readers : ~Rebuilding(p)) =>
        \A i \in DOMAIN Tables[gen] :
            \E j \in DOMAIN trees[tree] : trees[tree][j] = RoutesOf(gen)[i]

\* The cached tree follows the table: it never holds routes of a replaced one,
\* and holds the whole one when it is settled (rebuildTree, SwapRoutes).
TreeFollowsTable == NoOldRoutes /\ SettledTreeIsWhole
=============================================================================
