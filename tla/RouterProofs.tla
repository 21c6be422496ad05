---------------------------- MODULE RouterProofs ----------------------------
(***************************************************************************)
(* The router, for any number of requests.  RouteTable, for any sequence   *)
(* of tables: however many requests rebuild the lookup tree at once under  *)
(* the read lock, none is routed by a table that was replaced, and one     *)
(* that met nobody in a rebuild finds its route.  Selectors, for any       *)
(* routes, hashes, weights and rules: the ring moves keys only to backends *)
(* that were added, weighted round-robin gives exact shares, and canary    *)
(* and header routing honour the key.  RadixTree, for any paths inserted   *)
(* in any order: a lookup finds exactly the routes that fit, once each,    *)
(* and the most specific one wins.                                         *)
(***************************************************************************)
EXTENDS Routing, FiniteSetTheorems, WellFoundedInduction, TLAPS

-----------------------------------------------------------------------------
(* The route table.                                                        *)

Labels == {"out", "new", "range", "append", "lookup"}
AnyRoute == [gen : Nat, path : Paths]

Types ==
    /\ gen \in 1..Len(Tables) /\ dirty \in BOOLEAN /\ raced \in BOOLEAN
    /\ trees \in Seq(Seq(AnyRoute)) /\ tree \in 1..Len(trees)
    /\ pc \in [Readers -> Labels] /\ idx \in [Readers -> Nat]
    /\ slice \in [Readers -> Seq(AnyRoute)]
    /\ DOMAIN path = Readers /\ DOMAIN node = Readers /\ DOMAIN result = Readers
    /\ \A p \in Readers :
        /\ pc[p] \in {"range", "append"} => idx[p] \in 1..(Len(Tables[gen]) + 1)
        /\ pc[p] = "append" => node[p] \in 1..Len(trees) /\ idx[p] <= Len(Tables[gen])

\* What is written into a tree in use is of the installed table: the slices
\* held by inserting readers are, and so is the tree once somebody has
\* replaced the one of the table before.
Fresh ==
    /\ (~dirty \/ \E p \in Readers : pc[p] \in {"range", "append"}) => Current(trees[tree])
    /\ \A p \in Readers : pc[p] = "append" => Current(slice[p])
    /\ \A p \in Readers : pc[p] = "lookup" => ~dirty

\* The first n routes of the installed table, in order.
Holds(s, n) == Len(s) = n /\ \A i \in 1..n : s[i] = RoutesOf(gen)[i]

\* While nobody met a rebuild, the one who rebuilds is alone inside, and the
\* tree holds what the range over the routes has passed; a clean tree holds all.
Alone ==
    ~raced =>
        /\ \A p, q \in Readers : Rebuilding(p) => dirty /\ (q # p => pc[q] = "out")
        /\ \A p \in Readers : pc[p] = "range" => Holds(trees[tree], idx[p] - 1)
        /\ \A p \in Readers :
             pc[p] = "append" => node[p] = tree /\ slice[p] = trees[tree]
                                 /\ Holds(slice[p], idx[p] - 1)
        /\ ~dirty => Holds(trees[tree], Len(Tables[gen]))

IInv == Types /\ Fresh /\ Alone

-----------------------------------------------------------------------------
LEMMA TableFacts ==
    ASSUME NEW g \in 1..Len(Tables)
    PROVE  /\ g \in Nat /\ Len(Tables[g]) \in Nat /\ Len(RoutesOf(g)) = Len(Tables[g])
           /\ DOMAIN Tables[g] = 1..Len(Tables[g])
           /\ \A i \in 1..Len(Tables[g]) :
                 /\ RoutesOf(g)[i] \in AnyRoute /\ RoutesOf(g)[i].gen = g
                 /\ RoutesOf(g)[i].path = Tables[g][i]
<1>1. Tables[g] \in Seq(Paths) /\ g \in Nat
  BY TablesAssumption
<1>2. Len(Tables[g]) \in Nat /\ DOMAIN Tables[g] = 1..Len(Tables[g])
  BY <1>1
<1>3. \A i \in 1..Len(Tables[g]) : Tables[g][i] \in Paths
  BY <1>1
<1>4. Len(RoutesOf(g)) = Len(Tables[g])
  BY <1>2 DEF RoutesOf
<1> QED
  BY <1>1, <1>2, <1>3, <1>4 DEF RoutesOf, AnyRoute

LEMMA InitIInv == Init => IInv
<1> SUFFICES ASSUME Init PROVE IInv
  OBVIOUS
<1>1. 1 \in 1..Len(Tables)
  BY TablesAssumption
<1>2. Types
  <2>1. trees \in Seq(Seq(AnyRoute)) /\ tree \in 1..Len(trees)
    BY DEF Init
  <2>2. slice \in [Readers -> Seq(AnyRoute)] /\ idx \in [Readers -> Nat] /\ pc \in [Readers -> Labels]
    BY DEF Init, Labels
  <2>3. \A p \in Readers : pc[p] = "out"
    BY DEF Init
  <2> QED
    BY <1>1, <2>1, <2>2, <2>3 DEF Init, Types
<1>3. Fresh
  BY DEF Init, Fresh
<1>4. Alone
  BY DEF Init, Alone, Rebuilding
<1> QED
  BY <1>2, <1>3, <1>4 DEF IInv

-----------------------------------------------------------------------------
LEMMA NextTypes == IInv /\ [Next]_vars => Types'
<1> SUFFICES ASSUME Types, [Next]_vars PROVE Types'
  BY DEF IInv
<1>0. Len(Tables[gen]) \in Nat /\ Len(RoutesOf(gen)) = Len(Tables[gen]) /\ gen \in Nat
  BY TableFacts DEF Types
<1>1. CASE SwapRoutes
  <2>1. gen' \in 1..Len(Tables)
    BY <1>1, TablesAssumption DEF SwapRoutes, Types
  <2>2. \A p \in Readers : pc[p] = "out"
    BY <1>1 DEF SwapRoutes, Inside
  <2> QED
    BY <1>1, <2>1, <2>2 DEF SwapRoutes, Types, readerVars
<1>2. ASSUME NEW p \in Readers, Enter(p) PROVE Types'
  <2>1. raced' \in BOOLEAN
    BY <1>2 DEF Enter, MeetsRebuild, Types
  <2>2. pc' \in [Readers -> Labels] /\ DOMAIN path' = Readers /\ DOMAIN result' = Readers
    BY <1>2 DEF Enter, Types, Labels
  <2>3. \A q \in Readers : pc'[q] \in {"range", "append"} => pc'[q] = pc[q]
    BY <1>2 DEF Enter, Types
  <2> QED
    BY <1>2, <2>1, <2>2, <2>3 DEF Enter, Types
<1>3. ASSUME NEW p \in Readers, NewTree(p) PROVE Types'
  <2>1. trees' \in Seq(Seq(AnyRoute)) /\ Len(trees') = Len(trees) + 1
    BY <1>3 DEF NewTree, Types
  <2>2. tree' \in 1..Len(trees') /\ Len(trees) \in Nat
    BY <1>3, <2>1 DEF NewTree, Types
  <2>3. pc' \in [Readers -> Labels] /\ idx' \in [Readers -> Nat]
    BY <1>3 DEF NewTree, Types, Labels
  <2>4. ASSUME NEW q \in Readers
        PROVE  /\ pc'[q] \in {"range", "append"} => idx'[q] \in 1..(Len(Tables[gen]) + 1)
               /\ pc'[q] = "append" => node[q] \in 1..Len(trees') /\ idx'[q] <= Len(Tables[gen])
    <3>1. CASE q = p
      BY <1>0, <1>3, <3>1 DEF NewTree, Types
    <3>2. CASE q # p
      <4>1. pc'[q] = pc[q] /\ idx'[q] = idx[q]
        BY <1>3, <3>2 DEF NewTree, Types
      <4>2. pc[q] \in {"range", "append"} => idx[q] \in 1..(Len(Tables[gen]) + 1)
        BY DEF Types
      <4>3. pc[q] = "append" => node[q] \in 1..Len(trees) /\ idx[q] <= Len(Tables[gen])
        BY DEF Types
      <4>4. 1..Len(trees) \subseteq 1..Len(trees')
        BY <2>1, <2>2
      <4> QED
        BY <4>1, <4>2, <4>3, <4>4
    <3> QED
      BY <3>1, <3>2
  <2> QED
    BY <1>3, <2>1, <2>2, <2>3, <2>4 DEF NewTree, Types
<1>4. ASSUME NEW p \in Readers, InsertRead(p) PROVE Types'
  <2>1. trees[tree] \in Seq(AnyRoute)
    BY DEF Types
  <2>2. pc' \in [Readers -> Labels] /\ slice' \in [Readers -> Seq(AnyRoute)] /\ DOMAIN node' = Readers
    BY <1>4, <2>1 DEF InsertRead, Types, Labels
  <2>3. ASSUME NEW q \in Readers
        PROVE  /\ pc'[q] \in {"range", "append"} => idx[q] \in 1..(Len(Tables[gen]) + 1)
               /\ pc'[q] = "append" => node'[q] \in 1..Len(trees) /\ idx[q] <= Len(Tables[gen])
    BY <1>0, <1>4 DEF InsertRead, Types
  <2> QED
    BY <1>4, <2>2, <2>3 DEF InsertRead, Types
<1>5. ASSUME NEW p \in Readers, InsertWrite(p) PROVE Types'
  <2>0. gen \in 1..Len(Tables) /\ idx[p] \in 1..Len(Tables[gen])
    BY <1>0, <1>5 DEF InsertWrite, Types
  <2>1. RoutesOf(gen)[idx[p]] \in AnyRoute
    BY <2>0, TableFacts
  <2>2. Append(slice[p], RoutesOf(gen)[idx[p]]) \in Seq(AnyRoute)
    BY <2>1 DEF Types
  <2>3. trees' \in Seq(Seq(AnyRoute)) /\ Len(trees') = Len(trees)
    BY <1>5, <2>2 DEF InsertWrite, Types
  <2>4. /\ pc' \in [Readers -> Labels] /\ idx' \in [Readers -> Nat]
        /\ slice' \in [Readers -> Seq(AnyRoute)] /\ DOMAIN node' = Readers
    BY <1>5 DEF InsertWrite, Types, Labels
  <2>5. ASSUME NEW q \in Readers
        PROVE  /\ pc'[q] \in {"range", "append"} => idx'[q] \in 1..(Len(Tables[gen]) + 1)
               /\ pc'[q] = "append" => node'[q] \in 1..Len(trees') /\ idx'[q] <= Len(Tables[gen])
    <3>1. CASE q = p
      <4>1. pc'[q] = "range" /\ idx'[q] = idx[p] + 1 /\ idx[p] \in Nat /\ idx[p] <= Len(Tables[gen])
        BY <1>5, <3>1 DEF InsertWrite, Types
      <4> QED
        BY <1>0, <4>1
    <3>2. CASE q # p
      <4>1. pc'[q] = pc[q] /\ idx'[q] = idx[q] /\ node'[q] = node[q]
        BY <1>5, <3>2 DEF InsertWrite, Types
      <4> QED
        BY <2>3, <4>1 DEF Types
    <3> QED
      BY <3>1, <3>2
  <2> QED
    BY <1>5, <2>3, <2>4, <2>5 DEF InsertWrite, Types
<1>6. ASSUME NEW p \in Readers, SetClean(p) PROVE Types'
  <2>1. pc' \in [Readers -> Labels] /\ idx' \in [Readers -> Nat]
    BY <1>6 DEF SetClean, Types, Labels
  <2>2. \A q \in Readers : pc'[q] \in {"range", "append"} => pc'[q] = pc[q] /\ idx'[q] = idx[q]
    BY <1>6 DEF SetClean, Types
  <2> QED
    BY <1>6, <2>1, <2>2 DEF SetClean, Types
<1>7. ASSUME NEW p \in Readers, Match(p) PROVE Types'
  <2>1. pc' \in [Readers -> Labels] /\ DOMAIN result' = Readers
    BY <1>7 DEF Match, Types, Labels
  <2>2. \A q \in Readers : pc'[q] \in {"range", "append"} => pc'[q] = pc[q]
    BY <1>7 DEF Match, Types
  <2> QED
    BY <1>7, <2>1, <2>2 DEF Match, Types
<1>8. CASE UNCHANGED vars
  BY <1>8 DEF vars, readerVars, Types
<1> QED
  BY <1>1, <1>2, <1>3, <1>4, <1>5, <1>6, <1>7, <1>8 DEF Next, ReaderStep

-----------------------------------------------------------------------------
LEMMA NextFresh == IInv /\ [Next]_vars => Fresh'
<1> SUFFICES ASSUME Types, Types', Fresh, [Next]_vars PROVE Fresh'
  BY NextTypes DEF IInv
<1>1. CASE SwapRoutes
  <2>1. \A p \in Readers : pc'[p] = "out"
    BY <1>1 DEF SwapRoutes, Inside, readerVars
  <2> QED
    BY <1>1, <2>1 DEF SwapRoutes, Fresh
<1>2. ASSUME NEW p \in Readers, Enter(p) PROVE Fresh'
  <2>1. \A q \in Readers : pc'[q] \in {"range", "append"} => pc'[q] = pc[q]
    BY <1>2 DEF Enter, Types
  <2>2. \A q \in Readers : pc'[q] = "lookup" => ~dirty
    BY <1>2 DEF Enter, Types, Fresh
  <2>3. UNCHANGED <<gen, dirty, tree, trees, slice>>
    BY <1>2 DEF Enter
  <2> QED
    BY <2>1, <2>2, <2>3 DEF Fresh, Current
<1>3. ASSUME NEW p \in Readers, NewTree(p) PROVE Fresh'
  <2>1. trees'[tree'] = <<>>
    BY <1>3 DEF NewTree, Types
  <2>2. \A q \in Readers : pc'[q] \in {"append", "lookup"} => pc'[q] = pc[q]
    BY <1>3 DEF NewTree, Types
  <2>3. UNCHANGED <<gen, dirty, slice>>
    BY <1>3 DEF NewTree
  <2>4. Current(trees[tree])'
    BY <2>1 DEF Current
  <2> QED
    BY <2>2, <2>3, <2>4 DEF Fresh, Current
<1>4. ASSUME NEW p \in Readers, InsertRead(p) PROVE Fresh'
  <2>1. Current(trees[tree])
    BY <1>4 DEF InsertRead, Fresh
  <2>2. UNCHANGED <<gen, dirty, tree, trees>>
    BY <1>4 DEF InsertRead
  <2>3. \A q \in Readers : pc'[q] = "append" =>
          (slice'[q] = slice[q] /\ pc[q] = "append") \/ slice'[q] = trees[tree]
    BY <1>4 DEF InsertRead, Types
  <2>4. \A q \in Readers : pc'[q] = "lookup" => pc[q] = "lookup"
    BY <1>4 DEF InsertRead, Types
  <2> QED
    BY <2>1, <2>2, <2>3, <2>4 DEF Fresh, Current
<1>5. ASSUME NEW p \in Readers, InsertWrite(p) PROVE Fresh'
  <2>0. /\ gen \in 1..Len(Tables) /\ idx[p] \in 1..Len(Tables[gen])
        /\ node[p] \in 1..Len(trees) /\ slice[p] \in Seq(AnyRoute) /\ Len(trees) \in Nat
    BY <1>5, TableFacts DEF InsertWrite, Types
  <2>1. RoutesOf(gen)[idx[p]].gen = gen
    BY <2>0, TableFacts
  <2>2. Current(slice[p]) /\ Current(trees[tree])
    BY <1>5 DEF InsertWrite, Fresh
  <2>3. Current(Append(slice[p], RoutesOf(gen)[idx[p]]))
    BY <2>0, <2>1, <2>2 DEF Current
  <2>4. trees'[tree'] = Append(slice[p], RoutesOf(gen)[idx[p]]) \/ trees'[tree'] = trees[tree]
    BY <1>5 DEF InsertWrite, Types
  <2>5. Current(trees[tree])'
    BY <1>5, <2>2, <2>3, <2>4 DEF Current, InsertWrite
  <2>6. \A q \in Readers : pc'[q] \in {"append", "lookup"} => pc'[q] = pc[q] /\ slice'[q] = slice[q]
    BY <1>5 DEF InsertWrite, Types
  <2>7. UNCHANGED <<gen, dirty>>
    BY <1>5 DEF InsertWrite
  <2> QED
    BY <2>5, <2>6, <2>7 DEF Fresh, Current
<1>6. ASSUME NEW p \in Readers, SetClean(p) PROVE Fresh'
  <2>1. Current(trees[tree])
    BY <1>6 DEF SetClean, Fresh
  <2>2. UNCHANGED <<gen, tree, trees, slice>> /\ dirty' = FALSE
    BY <1>6 DEF SetClean
  <2>3. \A q \in Readers : pc'[q] = "append" => pc[q] = "append"
    BY <1>6 DEF SetClean, Types
  <2> QED
    BY <2>1, <2>2, <2>3 DEF Fresh, Current
<1>7. ASSUME NEW p \in Readers, Match(p) PROVE Fresh'
  <2>1. \A q \in Readers : pc'[q] # "out" => pc'[q] = pc[q]
    BY <1>7 DEF Match, Types
  <2>2. UNCHANGED <<gen, dirty, tree, trees, slice>>
    BY <1>7 DEF Match
  <2> QED
    BY <2>1, <2>2 DEF Fresh, Current
<1>8. CASE UNCHANGED vars
  BY <1>8 DEF vars, readerVars, Fresh, Current
<1> QED
  BY <1>1, <1>2, <1>3, <1>4, <1>5, <1>6, <1>7, <1>8 DEF Next, ReaderStep

-----------------------------------------------------------------------------
\* A step that leaves the table, the tree and the readers in a rebuild alone.
LEMMA QuietAlone ==
    ASSUME Alone, UNCHANGED <<gen, dirty, tree, trees, idx, node, slice>>,
           ~raced' => ~raced,
           \A q \in Readers : Rebuilding(q)' => pc'[q] = pc[q],
           \A q \in Readers : pc[q] = "out" => pc'[q] = "out" \/ ~dirty
    PROVE  Alone'
<1> SUFFICES ASSUME ~raced' PROVE Alone'
  BY DEF Alone
<1>1. \A q \in Readers : Rebuilding(q)' => Rebuilding(q) /\ pc'[q] = pc[q]
  BY DEF Rebuilding
<1>2. \A p, q \in Readers : Rebuilding(p)' => dirty' /\ (q # p => pc'[q] = "out")
  BY <1>1 DEF Alone
<1>3. ASSUME NEW p \in Readers, pc'[p] = "range" PROVE Holds(trees[tree], idx[p] - 1)'
  <2>1. Holds(trees[tree], idx[p] - 1)
    BY <1>1, <1>3 DEF Alone, Rebuilding
  <2> QED
    BY <2>1, Zenon DEF Holds, RoutesOf
<1>4. ASSUME NEW p \in Readers, pc'[p] = "append"
      PROVE  node'[p] = tree' /\ slice'[p] = trees'[tree'] /\ Holds(slice[p], idx[p] - 1)'
  <2>1. node[p] = tree /\ slice[p] = trees[tree] /\ Holds(slice[p], idx[p] - 1)
    BY <1>1, <1>4 DEF Alone, Rebuilding
  <2>2. Holds(slice[p], idx[p] - 1)'
    BY <2>1, ZenonT(30) DEF Holds, RoutesOf
  <2> QED
    BY <2>1, <2>2
<1>5. ASSUME ~dirty' PROVE Holds(trees[tree], Len(Tables[gen]))'
  <2>1. Holds(trees[tree], Len(Tables[gen]))
    BY <1>5 DEF Alone
  <2> QED
    BY <2>1 DEF Holds, RoutesOf
<1> QED
  BY <1>2, <1>3, <1>4, <1>5 DEF Alone

LEMMA NextAlone == IInv /\ [Next]_vars => Alone'
<1> SUFFICES ASSUME Types, Types', Fresh, Alone, [Next]_vars PROVE Alone'
  BY NextTypes DEF IInv
<1>0. /\ gen \in 1..Len(Tables) /\ Len(Tables[gen]) \in Nat
      /\ Len(RoutesOf(gen)) = Len(Tables[gen]) /\ Len(trees) \in Nat
  BY TableFacts DEF Types
<1>1. CASE SwapRoutes
  <2>1. (\A p \in Readers : pc'[p] = "out") /\ dirty'
    BY <1>1 DEF SwapRoutes, Inside, readerVars
  <2> QED
    BY <2>1 DEF Alone, Rebuilding
<1>2. ASSUME NEW p \in Readers, Enter(p) PROVE Alone'
  <2>0. UNCHANGED <<gen, dirty, tree, trees, idx, node, slice>> /\ (~raced' => ~raced /\ ~MeetsRebuild)
    BY <1>2 DEF Enter
  <2>1. \A q \in Readers : q # p => pc'[q] = pc[q]
    BY <1>2 DEF Enter, Types
  <2>2. CASE ~dirty
    <3>1. pc'[p] = "lookup"
      BY <1>2, <2>2 DEF Enter, Types
    <3> QED
      BY <2>0, <2>1, <2>2, <3>1, QuietAlone DEF Rebuilding
  <2>3. CASE dirty
    <3>1. pc'[p] = "new"
      BY <1>2, <2>3 DEF Enter, Types
    <3>2. ~raced' => \A q \in Readers : pc[q] = "out"
      BY <2>0, <2>3 DEF MeetsRebuild, Inside
    <3> QED
      BY <2>0, <2>1, <2>3, <3>1, <3>2 DEF Alone, Rebuilding
  <2> QED
    BY <2>2, <2>3
<1>3. ASSUME NEW p \in Readers, NewTree(p) PROVE Alone'
  <2> SUFFICES ASSUME ~raced' PROVE Alone'
    BY DEF Alone
  <2>0. UNCHANGED <<gen, dirty, raced>> /\ pc[p] = "new"
    BY <1>3 DEF NewTree
  <2>1. dirty /\ \A q \in Readers : q # p => pc[q] = "out"
    BY <2>0 DEF Alone, Rebuilding
  <2>2. pc'[p] = "range" /\ idx'[p] = 1 /\ \A q \in Readers : q # p => pc'[q] = "out"
    BY <1>3, <2>1 DEF NewTree, Types
  <2>3. trees'[tree'] = <<>>
    BY <1>3 DEF NewTree, Types
  <2>4. Holds(trees[tree], idx[p] - 1)'
    BY <2>2, <2>3 DEF Holds
  <2> QED
    BY <2>0, <2>1, <2>2, <2>4 DEF Alone, Rebuilding
<1>4. ASSUME NEW p \in Readers, InsertRead(p) PROVE Alone'
  <2> SUFFICES ASSUME ~raced' PROVE Alone'
    BY DEF Alone
  <2>0. UNCHANGED <<gen, dirty, raced, tree, trees, idx>> /\ pc[p] = "range"
    BY <1>4 DEF InsertRead
  <2>1. dirty /\ Holds(trees[tree], idx[p] - 1) /\ \A q \in Readers : q # p => pc[q] = "out"
    BY <2>0 DEF Alone, Rebuilding
  <2>2. /\ pc'[p] = "append" /\ node'[p] = tree /\ slice'[p] = trees[tree]
        /\ \A q \in Readers : q # p => pc'[q] = "out"
    BY <1>4, <2>1 DEF InsertRead, Types
  <2>3. Holds(slice[p], idx[p] - 1)'
    BY <2>0, <2>1, <2>2 DEF Holds, RoutesOf
  <2> QED
    BY <2>0, <2>1, <2>2, <2>3 DEF Alone, Rebuilding
<1>5. ASSUME NEW p \in Readers, InsertWrite(p) PROVE Alone'
  <2> SUFFICES ASSUME ~raced' PROVE Alone'
    BY DEF Alone
  <2>0. UNCHANGED <<gen, dirty, raced, tree>> /\ pc[p] = "append"
    BY <1>5 DEF InsertWrite
  <2>1. /\ dirty /\ node[p] = tree /\ Holds(slice[p], idx[p] - 1)
        /\ \A q \in Readers : q # p => pc[q] = "out"
    BY <2>0 DEF Alone, Rebuilding
  <2>2. /\ pc'[p] = "range" /\ idx'[p] = idx[p] + 1
        /\ \A q \in Readers : q # p => pc'[q] = "out"
    BY <1>5, <2>1 DEF InsertWrite, Types
  <2>3. trees'[tree] = Append(slice[p], RoutesOf(gen)[idx[p]])
    BY <1>5, <2>1 DEF InsertWrite, Types
  <2>4. slice[p] \in Seq(AnyRoute) /\ idx[p] \in Nat /\ idx[p] >= 1
    BY <2>0 DEF Types
  <2>5. /\ Len(trees'[tree]) = idx[p]
        /\ \A i \in 1..idx[p] : trees'[tree][i] = RoutesOf(gen)[i]
    BY <2>1, <2>3, <2>4 DEF Holds
  <2>6. Holds(trees[tree], idx[p] - 1)'
    <3>1. idx'[p] - 1 = idx[p]
      BY <2>2, <2>4
    <3> QED
      BY <2>0, <2>5, <3>1 DEF Holds, RoutesOf
  <2> QED
    BY <2>0, <2>1, <2>2, <2>6 DEF Alone, Rebuilding
<1>6. ASSUME NEW p \in Readers, SetClean(p) PROVE Alone'
  <2> SUFFICES ASSUME ~raced' PROVE Alone'
    BY DEF Alone
  <2>0. /\ UNCHANGED <<gen, raced, tree, trees>> /\ dirty' = FALSE
        /\ pc[p] = "range" /\ idx[p] > Len(Tables[gen])
    BY <1>0, <1>6 DEF SetClean
  <2>1. Holds(trees[tree], idx[p] - 1) /\ \A q \in Readers : q # p => pc[q] = "out"
    BY <2>0 DEF Alone, Rebuilding
  <2>2. idx[p] - 1 = Len(Tables[gen])
    BY <1>0, <2>0 DEF Types
  <2>3. \A q \in Readers : pc'[q] \in {"out", "lookup"}
    BY <1>6, <2>1 DEF SetClean, Types
  <2>4. Holds(trees[tree], Len(Tables[gen]))'
    BY <2>0, <2>1, <2>2 DEF Holds, RoutesOf
  <2> QED
    BY <2>3, <2>4 DEF Alone, Rebuilding
<1>7. ASSUME NEW p \in Readers, Match(p) PROVE Alone'
  <2>1. UNCHANGED <<gen, dirty, tree, trees, idx, node, slice, raced>>
    BY <1>7 DEF Match
  <2>2. \A q \in Readers : pc'[q] = pc[q] \/ pc'[q] = "out"
    BY <1>7 DEF Match, Types
  <2> QED
    BY <2>1, <2>2, QuietAlone DEF Rebuilding
<1>8. CASE UNCHANGED vars
  BY <1>8, QuietAlone DEF vars, readerVars
<1> QED
  BY <1>1, <1>2, <1>3, <1>4, <1>5, <1>6, <1>7, <1>8 DEF Next, ReaderStep

\* The inductive invariant holds in every reachable state.
THEOREM RouteTableInvariant == Spec => []IInv
<1>1. IInv /\ [Next]_vars => IInv'
  BY NextTypes, NextFresh, NextAlone DEF IInv
<1> QED
  BY <1>1, InitIInv, PTL DEF Spec

\* What a whole tree means: it has every route of the installed table.
LEMMA WholeTree ==
    ASSUME Types, Holds(trees[tree], Len(Tables[gen])), NEW i \in DOMAIN Tables[gen]
    PROVE  /\ i \in DOMAIN trees[tree] /\ trees[tree][i] = RoutesOf(gen)[i]
           /\ trees[tree][i].path = Tables[gen][i]
<1>1. /\ gen \in 1..Len(Tables) /\ trees[tree] \in Seq(AnyRoute)
      /\ i \in 1..Len(Tables[gen]) /\ RoutesOf(gen)[i].path = Tables[gen][i]
  BY TableFacts DEF Types
<1> QED
  BY <1>1 DEF Holds

\* rebuildTree and SwapRoutes: the cached tree never holds routes of a replaced
\* table while it is in use, however many requests rebuild it at once, and
\* holds the whole installed one once a rebuild that nobody met is over.
THEOREM TreeKeepsUp == Spec => []TreeFollowsTable
<1>1. IInv => NoOldRoutes
  BY DEF IInv, Fresh, NoOldRoutes
<1>2. IInv => SettledTreeIsWhole
  BY WholeTree DEF IInv, Alone, SettledTreeIsWhole
<1> QED
  BY <1>1, <1>2, RouteTableInvariant, PTL DEF TreeFollowsTable

\* match: a request for a path of the installed table is routed, unless
\* requests met in a rebuild.
THEOREM FindsItsRoute == Spec => FindsConfigured
<1> DEFINE Found == \A p \in Readers :
         /\ pc[p] = "lookup" /\ pc'[p] = "out" /\ ~raced
         /\ \E i \in DOMAIN Tables[gen] : Tables[gen][i] = path[p]
         => result'[p].path = path[p]
<1>1. ASSUME IInv, [Next]_vars PROVE Found
  <2> SUFFICES ASSUME NEW p \in Readers, pc[p] = "lookup", pc'[p] = "out", ~raced,
                      NEW i \in DOMAIN Tables[gen], Tables[gen][i] = path[p]
               PROVE  result'[p].path = path[p]
    OBVIOUS
  <2>t. Types /\ Fresh /\ Alone
    BY <1>1 DEF IInv
  <2>1. Match(p)
    <3>1. ~SwapRoutes /\ ~UNCHANGED vars
      BY DEF SwapRoutes, readerVars, vars
    <3>2. PICK q \in Readers : Enter(q) \/ ReaderStep(q)
      BY <1>1, <3>1 DEF Next
    <3>3. PICK l \in Labels : pc' = [pc EXCEPT ![q] = l] /\ (l = "out" => Match(q))
      BY <3>2 DEF Enter, ReaderStep, NewTree, InsertRead, InsertWrite, SetClean, Match, Labels
    <3>4. q = p /\ l = "out"
      BY <2>t, <3>3 DEF Types
    <3> QED
      BY <3>3, <3>4
  <2>2. Holds(trees[tree], Len(Tables[gen]))
    BY <2>t DEF Fresh, Alone
  <2>3. i \in {j \in DOMAIN trees[tree] : trees[tree][j].path = path[p]}
    BY <2>t, <2>2, WholeTree
  <2>4. PICK j \in DOMAIN trees[tree] : /\ trees[tree][j].path = path[p]
                                       /\ result' = [result EXCEPT ![p] = trees[tree][j]]
    BY <2>1, <2>3 DEF Match
  <2> QED
    BY <2>t, <2>4 DEF Types
<1>2. IInv /\ [Next]_vars => [Found]_vars
  BY <1>1
<1> QED
  BY <1>2, RouteTableInvariant, PTL DEF Spec, FindsConfigured

-----------------------------------------------------------------------------
(* Sequences and numbers.                                                  *)

LEMMA LeastElement ==
    ASSUME NEW S \in SUBSET Nat, S # {}
    PROVE  \E m \in S : \A n \in S : m <= n
<1> DEFINE R == {ss \in Nat \X Nat : ss[1] < ss[2]}
<1>1. IsWellFoundedOn(R, Nat)
  BY NatLessThanWellFounded, Zenon DEF OpToRel
<1>2. \A a, b \in Nat : a < b => <<a, b>> \in R
  OBVIOUS
<1> HIDE DEF R
<1>3. PICK m \in S : \A n \in S : ~(<<n, m>> \in R)
  BY <1>1, WFMin
<1>4. \A n \in S : ~(n < m) /\ n \in Nat /\ m \in Nat
  BY <1>2, <1>3
<1>5. \A n \in S : m <= n
  BY <1>4
<1> QED
  BY <1>5

LEMMA GreatestElement ==
    ASSUME NEW N \in Nat, NEW S \in SUBSET (1..N), S # {}
    PROVE  \E m \in S : \A n \in S : n <= m
<1> DEFINE D == {N - n : n \in S}
<1>0. \A n \in S : n \in 1..N /\ N - n \in Nat
  OBVIOUS
<1>1. D \in SUBSET Nat /\ D # {}
  BY <1>0
<1>2. PICK d \in D : \A e \in D : d <= e
  BY <1>1, LeastElement
<1>3. PICK m \in S : d = N - m
  OBVIOUS
<1>4. \A n \in S : N - m <= N - n
  BY <1>2, <1>3
<1>5. m \in Nat /\ \A n \in S : n \in Nat
  BY <1>0
<1>6. \A i, j \in Nat : N - i <= N - j => j <= i
  BY ONLY N \in Nat
<1>7. \A n \in S : n <= m
  BY <1>4, <1>5, <1>6, Zenon
<1> QED
  BY <1>7

\* One turn of the loop of Route.
Turn(s, h, g, i) ==
    IF i = 0 THEN <<>> ELSE IF h[s[i]] THEN Append(g[i - 1], s[i]) ELSE g[i - 1]

\* The loop of Route over a list is well defined.
Looped(s, h, N) == \E g : g = [i \in 0..N |-> Turn(s, h, g, i)]
LEMMA LoopDefined ==
    ASSUME NEW s, NEW h, NEW N \in Nat
    PROVE  Looped(s, h, N)
<1> USE DEF Looped
<1> DEFINE Good(m) == \E g : g = [i \in 0..m |-> Turn(s, h, g, i)]
           Bad == {m \in Nat : ~Good(m)}
<1> SUFFICES Bad = {}
  OBVIOUS
<1> SUFFICES ASSUME Bad # {} PROVE FALSE
  OBVIOUS
<1>1. PICK m \in Bad : \A n \in Bad : m <= n
  BY LeastElement
<1>2. CASE m = 0
  <2> DEFINE g == [i \in 0..0 |-> <<>>]
  <2>1. g = [i \in 0..0 |-> Turn(s, h, g, i)]
    BY DEF Turn
  <2>2. Good(0)
    BY <2>1
  <2> QED
    BY <1>2, <2>2
<1>3. CASE m # 0
  <2>1. m - 1 \in Nat /\ Good(m - 1)
    BY <1>1, <1>3
  <2>2. PICK g : g = [i \in 0..(m - 1) |-> Turn(s, h, g, i)]
    BY <2>1
  <2> DEFINE f == [i \in 0..m |-> IF i < m THEN g[i] ELSE Turn(s, h, g, m)]
  <2>3. ASSUME NEW i \in 0..m PROVE f[i] = Turn(s, h, f, i)
    <3>1. f[i] = Turn(s, h, g, i)
      BY <1>3, <2>1, <2>2
    <3>2. i # 0 => f[i - 1] = g[i - 1]
      BY <1>3, <2>1
    <3> QED
      BY <3>1, <3>2 DEF Turn
  <2>4. f = [i \in 0..m |-> Turn(s, h, f, i)]
    BY <2>3
  <2>5. Good(m)
    BY <2>4
  <2> QED
    BY <2>5
<1> QED
  BY <1>2, <1>3

\* u is part of s, in the order of s.
Part(s, u) ==
    /\ \A k \in 1..Len(u) : \E a \in 1..Len(s) : u[k] = s[a]
    /\ \A j, k \in 1..Len(u) : j < k =>
         \E a, b \in 1..Len(s) : a < b /\ u[j] = s[a] /\ u[k] = s[b]

LEMMA HealthyIsLoop ==
    ASSUME NEW n \in Names
    PROVE  \E g : g = [i \in 0..Len(Routes[n]) |-> Turn(Routes[n], healthy, g, i)]
                  /\ Healthy(n) = g[Len(Routes[n])]
<1> DEFINE s == Routes[n]
           upTo[i \in 0..Len(s)] ==
            IF i = 0 THEN <<>>
            ELSE IF healthy[s[i]] THEN Append(upTo[i - 1], s[i])
            ELSE upTo[i - 1]
<1>1. Healthy(n) = upTo[Len(s)]
  BY DEF Healthy
<1>2. Len(s) \in Nat
  BY RoutesAssumption
<1>3. \E g : g = [i \in 0..Len(s) |-> Turn(s, healthy, g, i)]
  <2>1. Looped(s, healthy, Len(s))
    BY <1>2, LoopDefined
  <2> QED
    BY <2>1 DEF Looped
<1>4. upTo = [i \in 0..Len(s) |-> Turn(s, healthy, upTo, i)]
  BY <1>3 DEF Turn
<1> QED
  BY <1>1, <1>4

\* What the loop has appended after i turns.
Taken(s, h, u, i) ==
    /\ u \in Seq(Addrs)
    /\ \A k \in 1..Len(u) : \E a \in 1..i : u[k] = s[a] /\ h[s[a]]
    /\ \A j, k \in 1..Len(u) : j < k =>
         \E a, b \in 1..i : a < b /\ u[j] = s[a] /\ u[k] = s[b]

LEMMA TakenTurn ==
    ASSUME NEW s \in Seq(Addrs), NEW h, NEW u, NEW i \in 1..Len(s),
           Taken(s, h, u, i - 1)
    PROVE  Taken(s, h, IF h[s[i]] THEN Append(u, s[i]) ELSE u, i)
<1>0. Len(s) \in Nat /\ i \in Nat /\ s[i] \in Addrs /\ u \in Seq(Addrs) /\ Len(u) \in Nat
  BY DEF Taken
<1>1. CASE ~h[s[i]]
  BY <1>0, <1>1 DEF Taken
<1>2. CASE h[s[i]]
  <2> DEFINE v == Append(u, s[i])
  <2>1. /\ v \in Seq(Addrs) /\ Len(v) = Len(u) + 1 /\ v[Len(u) + 1] = s[i]
        /\ \A k \in 1..Len(u) : v[k] = u[k]
    BY <1>0
  <2> HIDE DEF v
  <2>2. ASSUME NEW k \in 1..Len(v) PROVE \E a \in 1..i : v[k] = s[a] /\ h[s[a]]
    <3>1. CASE k = Len(u) + 1
      BY <1>0, <1>2, <2>1, <3>1
    <3>2. CASE k \in 1..Len(u)
      <4>1. PICK a \in 1..(i - 1) : u[k] = s[a] /\ h[s[a]]
        BY <3>2 DEF Taken
      <4> QED
        BY <1>0, <2>1, <3>2, <4>1
    <3> QED
      BY <1>0, <2>1, <3>1, <3>2
  <2>3. ASSUME NEW j \in 1..Len(v), NEW k \in 1..Len(v), j < k
        PROVE  \E a, b \in 1..i : a < b /\ v[j] = s[a] /\ v[k] = s[b]
    <3>0. j \in 1..Len(u)
      BY <1>0, <2>1, <2>3
    <3>1. CASE k = Len(u) + 1
      <4>1. PICK a \in 1..(i - 1) : u[j] = s[a]
        BY <3>0 DEF Taken
      <4>2. a \in 1..i /\ i \in 1..i /\ a < i /\ v[j] = s[a] /\ v[k] = s[i]
        BY <1>0, <2>1, <3>0, <3>1, <4>1
      <4> QED
        BY <4>2
    <3>2. CASE k \in 1..Len(u)
      <4>1. PICK a, b \in 1..(i - 1) : a < b /\ u[j] = s[a] /\ u[k] = s[b]
        BY <2>3, <3>0, <3>2 DEF Taken
      <4> QED
        BY <1>0, <2>1, <3>0, <3>2, <4>1
    <3> QED
      BY <1>0, <2>1, <3>1, <3>2
  <2>4. Taken(s, h, v, i)
    BY <2>1, <2>2, <2>3 DEF Taken
  <2> QED
    BY <1>2, <2>4 DEF v
<1> QED
  BY <1>1, <1>2

\* The healthy backends of a route are part of its backends, in their order.
LEMMA HealthyPart ==
    ASSUME NEW n \in Names
    PROVE  Healthy(n) \in Seq(Addrs) /\ Part(Routes[n], Healthy(n))
<1> DEFINE s == Routes[n]
<1>0. s \in Seq(Addrs) /\ Len(s) \in Nat
  BY RoutesAssumption
<1>1. PICK g : g = [i \in 0..Len(s) |-> Turn(s, healthy, g, i)] /\ Healthy(n) = g[Len(s)]
  BY HealthyIsLoop
<1> DEFINE Bad == {i \in 0..Len(s) : ~Taken(s, healthy, g[i], i)}
<1>2. Bad = {}
  <2> SUFFICES ASSUME Bad # {} PROVE FALSE
    OBVIOUS
  <2>0. Bad \in SUBSET Nat
    BY <1>0
  <2>1. PICK i \in Bad : \A j \in Bad : i <= j
    BY <2>0, LeastElement
  <2>2. i # 0
    <3>1. g[0] = <<>>
      BY <1>0, <1>1 DEF Turn
    <3>2. Taken(s, healthy, <<>>, 0)
      BY DEF Taken
    <3> QED
      BY <3>1, <3>2
  <2>3. i \in 1..Len(s) /\ i - 1 \in 0..Len(s) /\ ~(i <= i - 1)
    BY <1>0, <2>2
  <2>4. Taken(s, healthy, g[i - 1], i - 1)
    BY <2>1, <2>3
  <2>5. g[i] = IF healthy[s[i]] THEN Append(g[i - 1], s[i]) ELSE g[i - 1]
    BY <1>1, <2>2 DEF Turn
  <2>6. Taken(s, healthy, g[i], i)
    BY <1>0, <2>3, <2>4, <2>5, TakenTurn
  <2> QED
    BY <2>6
<1>3. Taken(s, healthy, g[Len(s)], Len(s))
  <2>1. Len(s) \in 0..Len(s)
    BY <1>0
  <2> QED
    BY <1>2, <2>1
<1>4. Taken(s, healthy, Healthy(n), Len(s))
  BY <1>1, <1>3
<1> HIDE DEF s
<1>5. Healthy(n) \in Seq(Addrs) /\ Part(s, Healthy(n))
  BY <1>4 DEF Taken, Part
<1> QED
  BY <1>5 DEF s

-----------------------------------------------------------------------------
(* The consistent-hash ring.                                               *)

RingList(n, u) == u \in Seq(Addrs) /\ Len(u) >= 1 /\ Part(Routes[n], u)

At == at \in [Addrs \X (1..VirtualNodes) -> Hashes]

\* The owners of a point, and the point a key falls on.
Owners(u, p) == {j \in 1..Len(u) : \E i \in 1..VirtualNodes : VNode(u, j, i) = p}
Above(u, key) == {p \in Ring(u) : p >= key}
Point(u, key) == IF Above(u, key) # {} THEN Least(Above(u, key)) ELSE Least(Ring(u))

\* The point is one of the ring: the least that is not below the key, if
\* there is one, else the least of all.
LEMMA PointFacts ==
    ASSUME At, NEW n \in Names, NEW u, RingList(n, u), NEW key \in Hashes
    PROVE  /\ Ring(u) \subseteq Nat /\ Point(u, key) \in Ring(u)
           /\ Above(u, key) # {} =>
                Point(u, key) >= key /\ \A q \in Above(u, key) : Point(u, key) <= q
           /\ Above(u, key) = {} => \A q \in Ring(u) : Point(u, key) <= q
<1>0. Len(u) \in Nat /\ VirtualNodes \in Nat \ {0} /\ MaxHash \in Nat /\ key \in Nat
  BY RingAssumption, RoutesAssumption DEF RingList, Hashes
<1>1. \A j \in 1..Len(u), i \in 1..VirtualNodes : VNode(u, j, i) \in Nat
  BY <1>0 DEF At, VNode, Hashes, RingList
<1>2. Ring(u) \subseteq Nat
  BY <1>1 DEF Ring
<1>3. VNode(u, 1, 1) \in Ring(u)
  BY <1>0 DEF Ring, RingList
<1>4. PICK l \in Ring(u) : \A q \in Ring(u) : l <= q
  BY <1>2, <1>3, LeastElement
<1>5. Least(Ring(u)) \in Ring(u) /\ \A q \in Ring(u) : Least(Ring(u)) <= q
  BY <1>4 DEF Least
<1>6. Above(u, key) \in SUBSET Nat /\ Above(u, key) \subseteq Ring(u)
      /\ \A q \in Above(u, key) : q >= key
  BY <1>2 DEF Above
<1>7. ASSUME Above(u, key) # {}
      PROVE  /\ Least(Above(u, key)) \in Above(u, key)
             /\ \A q \in Above(u, key) : Least(Above(u, key)) <= q
  <2>1. PICK m \in Above(u, key) : \A q \in Above(u, key) : m <= q
    BY <1>6, <1>7, LeastElement
  <2> QED
    BY <2>1 DEF Least
<1> QED
  BY <1>2, <1>5, <1>6, <1>7 DEF Point

\* Find gives the last owner of the key's point.
LEMMA FindFacts ==
    ASSUME At, NEW n \in Names, NEW u, RingList(n, u), NEW key \in Hashes
    PROVE  \E j \in Owners(u, Point(u, key)) :
             Find(u, key) = u[j] /\ \A k \in Owners(u, Point(u, key)) : k <= j
<1> DEFINE p == Point(u, key)
<1>0. Len(u) \in Nat
  BY DEF RingList
<1>1. p \in Ring(u)
  BY PointFacts
<1>2. Owners(u, p) # {} /\ Owners(u, p) \in SUBSET (1..Len(u))
  BY <1>1 DEF Ring, Owners
<1>3. PICK m \in Owners(u, p) : \A k \in Owners(u, p) : k <= m
  BY <1>0, <1>2, GreatestElement
<1> DEFINE c == CHOOSE j \in Owners(u, p) : \A k \in Owners(u, p) : k <= j
<1>4. c \in Owners(u, p) /\ \A k \in Owners(u, p) : k <= c
  BY <1>3
<1>5. Find(u, key) = NodeMap(u, p)
  BY DEF Find, Point, Above
<1>6. NodeMap(u, p) = u[c]
  BY DEF NodeMap, Owners
<1> QED
  BY <1>4, <1>5, <1>6

LEMMA FindsOwn ==
    ASSUME At, NEW n \in Names, NEW u, RingList(n, u), NEW key \in Hashes
    PROVE  /\ Find(u, key) \in Range(u)
           /\ Len(u) = 1 => Find(u, key) = u[1]
<1>1. PICK j \in Owners(u, Point(u, key)) : Find(u, key) = u[j]
  BY FindFacts
<1>2. j \in 1..Len(u) /\ DOMAIN u = 1..Len(u)
  BY <1>1 DEF Owners, RingList
<1> QED
  BY <1>1, <1>2 DEF Range

\* In two parts of one list, what comes later in one comes later in the other.
LEMMA SameOrder ==
    ASSUME NEW n \in Names, NEW u, NEW v, RingList(n, u), RingList(n, v),
           NEW i \in 1..Len(u), NEW j \in 1..Len(u),
           NEW k \in 1..Len(v), NEW l \in 1..Len(v),
           u[i] = v[k], u[j] = v[l], i <= j, l <= k
    PROVE  u[i] = u[j]
<1> DEFINE s == Routes[n]
<1>0. /\ \A a, b \in 1..Len(s) : s[a] = s[b] => a = b
      /\ Len(s) \in Nat /\ Len(u) \in Nat /\ Len(v) \in Nat
  BY RoutesAssumption DEF IsInjective, RingList
<1> SUFFICES ASSUME i # j, k # l PROVE FALSE
  OBVIOUS
<1>1. i < j /\ l < k
  BY <1>0
<1>2. PICK a, b \in 1..Len(s) : a < b /\ u[i] = s[a] /\ u[j] = s[b]
  BY <1>1 DEF RingList, Part
<1>3. PICK c, d \in 1..Len(s) : c < d /\ v[l] = s[c] /\ v[k] = s[d]
  BY <1>1 DEF RingList, Part
<1>4. a = d /\ b = c
  BY <1>0, <1>2, <1>3
<1> QED
  BY <1>0, <1>2, <1>3, <1>4

\* A larger list moves a key only to a backend that the smaller one lacks.
LEMMA Remap ==
    ASSUME At, NEW n \in Names, NEW u, NEW v, RingList(n, u), RingList(n, v),
           NEW key \in Hashes, Range(u) \subseteq Range(v),
           Find(v, key) \in Range(u)
    PROVE  Find(v, key) = Find(u, key)
<1> DEFINE p == Point(v, key)
<1>0. /\ Len(u) \in Nat /\ Len(v) \in Nat /\ DOMAIN u = 1..Len(u) /\ DOMAIN v = 1..Len(v)
      /\ key \in Nat
  BY RoutesAssumption DEF RingList, Hashes
<1>1. PICK l \in Owners(v, p) : Find(v, key) = v[l] /\ \A k \in Owners(v, p) : k <= l
  BY FindFacts
<1>2. PICK j \in 1..Len(u) : u[j] = v[l]
  BY <1>0, <1>1 DEF Range
<1>3. j \in Owners(u, p) /\ p \in Ring(u)
  <2>1. PICK i \in 1..VirtualNodes : VNode(v, l, i) = p
    BY <1>1 DEF Owners
  <2>2. VNode(u, j, i) = p
    BY <1>2, <2>1 DEF VNode
  <2> QED
    BY <2>2 DEF Owners, Ring
<1>4. Ring(u) \subseteq Ring(v)
  <2>1. ASSUME NEW a \in 1..Len(u), NEW i \in 1..VirtualNodes PROVE VNode(u, a, i) \in Ring(v)
    <3>1. PICK b \in 1..Len(v) : u[a] = v[b]
      BY <1>0 DEF Range
    <3>2. VNode(u, a, i) = VNode(v, b, i)
      BY <3>1 DEF VNode
    <3> QED
      BY <3>2 DEF Ring
  <2> QED
    BY <2>1 DEF Ring
<1>5. /\ Ring(v) \subseteq Nat /\ Ring(u) \subseteq Nat
      /\ p \in Ring(v) /\ Point(u, key) \in Ring(u)
      /\ Above(v, key) # {} => p >= key /\ \A q \in Above(v, key) : p <= q
      /\ Above(v, key) = {} => \A q \in Ring(v) : p <= q
      /\ Above(u, key) # {} =>
           Point(u, key) >= key /\ \A q \in Above(u, key) : Point(u, key) <= q
      /\ Above(u, key) = {} => \A q \in Ring(u) : Point(u, key) <= q
  BY PointFacts
<1> HIDE DEF p
<1>6. Point(u, key) = p
  <2>1. CASE Above(v, key) # {}
    <3>1. p \in Above(u, key)
      BY <1>3, <1>5, <2>1 DEF Above
    <3>2. Point(u, key) \in Above(v, key)
      BY <1>4, <1>5, <3>1 DEF Above
    <3>3. p <= Point(u, key) /\ Point(u, key) <= p /\ p \in Nat /\ Point(u, key) \in Nat
      BY <1>5, <2>1, <3>1, <3>2
    <3> QED
      BY <3>3
  <2>2. CASE Above(v, key) = {}
    <3>1. Above(u, key) = {}
      BY <1>4, <2>2 DEF Above
    <3>2. p <= Point(u, key) /\ Point(u, key) <= p /\ p \in Nat /\ Point(u, key) \in Nat
      BY <1>3, <1>4, <1>5, <2>2, <3>1
    <3> QED
      BY <3>2
  <2> QED
    BY <2>1, <2>2
<1>7. PICK i \in Owners(u, p) : Find(u, key) = u[i] /\ \A k \in Owners(u, p) : k <= i
  BY <1>6, FindFacts
<1>8. i \in 1..Len(u) /\ j <= i
  BY <1>3, <1>7 DEF Owners
<1>9. PICK k \in 1..Len(v) : v[k] = u[i]
  BY <1>0, <1>8 DEF Range
<1>10. k \in Owners(v, p)
  BY <1>7, <1>9 DEF Owners, VNode
<1>11. k <= l /\ l \in 1..Len(v)
  BY <1>1, <1>10 DEF Owners
<1>12. u[j] = u[i]
  BY <1>2, <1>8, <1>9, <1>11, SameOrder
<1> QED
  BY <1>1, <1>2, <1>7, <1>12

RequestType == [route : Names \cup {""}, key : Hashes, backends : Seq(Addrs), alone : BOOLEAN]

RingTypes ==
    /\ At
    /\ stage \in [Requests -> {"idle", "check", "rebuild", "find"}]
    /\ req \in [Requests -> RequestType]

InSelect(r) == stage[r] # "idle"

\* A request in Select has a part of its route; one that has met no other list
\* shares its own with all the others, and searches the ring of that list.
Searching ==
    /\ \A r \in Requests : InSelect(r) => req[r].route \in Names
                                          /\ RingList(req[r].route, req[r].backends)
    /\ \A r, o \in Requests :
         InSelect(r) /\ InSelect(o) /\ req[r].alone => req[o].backends = req[r].backends
    /\ \A r \in Requests : stage[r] = "find" /\ req[r].alone => built = req[r].backends

\* What was answered is what the ring of the list gives.
Answered(x) ==
    /\ x.route \in Names /\ x.key \in Hashes /\ RingList(x.route, x.backends)
    /\ x.node = Find(x.backends, x.key)

RingInv == RingTypes /\ Searching /\ \A x \in answers : Answered(x)

LEMMA InitRing == SelectorsInit => RingInv
<1> SUFFICES ASSUME RingInit PROVE RingInv
  BY DEF SelectorsInit
<1>1. NoReq \in RequestType
  BY RoutesAssumption DEF NoReq, RequestType, Hashes
<1> QED
  BY <1>1 DEF RingInit, RingInv, RingTypes, At, Searching, InSelect

\* Answers stand as long as the hashes do.
LEMMA AnswersStand ==
    ASSUME UNCHANGED at, NEW x
    PROVE  Answered(x)' <=> Answered(x)
<1>1. \A u, j, i : VNode(u, j, i)' = VNode(u, j, i)
  BY DEF VNode
<1>2. \A u, key : Find(u, key)' = Find(u, key)
  BY DEF VNode, Find, NodeMap, Ring
<1> QED
  BY <1>2 DEF Answered

\* A step outside the ring, or one that leaves the requests alone.
LEMMA QuietRing ==
    ASSUME RingInv, UNCHANGED <<at, built, stage, req>>, \A x \in answers' : x \in answers \/ Answered(x)
    PROVE  RingInv'
<1>1. \A x \in answers' : Answered(x)'
  BY AnswersStand DEF RingInv
<1>2. RingTypes'
  BY DEF RingInv, RingTypes, At
<1>3. Searching'
  BY DEF RingInv, Searching, InSelect
<1> QED
  BY <1>1, <1>2, <1>3 DEF RingInv

LEMMA StartRing ==
    ASSUME RingInv, NEW r \in Requests, Start(r)
    PROVE  RingInv'
<1> DEFINE Others(list) == {o \in Requests : stage[o] # "idle" /\ req[o].backends # list}
           Q(n, k, list) == [route |-> n, key |-> k, backends |-> list, alone |-> Others(list) = {}]
           One(n, k, list) ==
             Len(list) = 1 /\ Answer(Q(n, k, list), list[1]) /\ UNCHANGED <<req, stage>>
           Many(n, k, list) ==
             /\ Len(list) > 1
             /\ req' = [o \in Requests |->
                          IF o = r THEN Q(n, k, list)
                          ELSE IF o \in Others(list) THEN [req[o] EXCEPT !.alone = FALSE]
                          ELSE req[o]]
             /\ stage' = [stage EXCEPT ![r] = "check"]
             /\ UNCHANGED answers
<1>1. PICK n \in Names, k \in Hashes :
        One(n, k, Healthy(n)) \/ Many(n, k, Healthy(n))
  BY DEF Start
<1> DEFINE list == Healthy(n)
           others == Others(list)
           q == Q(n, k, list)
<1>2. UNCHANGED <<at, built>> /\ stage[r] = "idle"
  BY DEF Start
<1>3. list \in Seq(Addrs) /\ Part(Routes[n], list) /\ Len(list) \in Nat
  BY HealthyPart
<1> HIDE DEF list
<1>4. CASE One(n, k, list)
  <2> DEFINE x == [route |-> n, key |-> k, backends |-> list, node |-> list[1]]
  <2>1. RingList(n, list)
    BY <1>3, <1>4 DEF RingList
  <2>2. Find(list, k) = list[1]
    BY <1>4, <2>1, FindsOwn DEF RingInv, RingTypes
  <2>3. Answered(x)
    BY <2>1, <2>2 DEF Answered
  <2>4. \A y \in answers' : y \in answers \/ y = x
    BY <1>4 DEF Answer
  <2> QED
    BY <1>2, <1>4, <2>3, <2>4, QuietRing
<1>5. CASE Many(n, k, list)
  <2>1. RingList(n, list)
    BY <1>3, <1>5 DEF RingList
  <2>2. q \in RequestType /\ req'[r] = q /\ stage'[r] = "check"
    BY <1>3, <1>5 DEF RequestType, RingInv, RingTypes
  <2>3. ASSUME NEW o \in Requests, o # r
        PROVE  /\ req'[o] \in RequestType /\ stage'[o] = stage[o]
               /\ req'[o].route = req[o].route /\ req'[o].backends = req[o].backends
               /\ req'[o].alone => req[o].alone /\ o \notin others
    <3>1. req[o] \in RequestType /\ stage'[o] = stage[o]
      BY <1>5, <2>3 DEF RingInv, RingTypes
    <3>2. CASE o \in others
      <4>1. req'[o] = [req[o] EXCEPT !.alone = FALSE]
        BY <1>5, <2>3, <3>2
      <4> HIDE DEF others
      <4> QED
        BY <3>1, <4>1 DEF RequestType
    <3>3. CASE o \notin others
      <4>1. req'[o] = req[o]
        BY <1>5, <2>3, <3>3
      <4> QED
        BY <3>1, <3>3, <4>1
    <3> QED
      BY <3>2, <3>3
  <2>4. RingTypes'
    <3>1. req' \in [Requests -> RequestType]
      BY <1>5, <2>2, <2>3
    <3>2. stage' \in [Requests -> {"idle", "check", "rebuild", "find"}]
      BY <1>5 DEF RingInv, RingTypes
    <3> QED
      BY <1>2, <3>1, <3>2 DEF RingInv, RingTypes, At
  <2>5. ASSUME NEW o \in Requests, InSelect(o)'
        PROVE  req'[o].route \in Names /\ RingList(req'[o].route, req'[o].backends)
    BY <2>1, <2>2, <2>3, <2>5 DEF RingInv, Searching, InSelect
  <2>6. ASSUME NEW o \in Requests, NEW a \in Requests,
               InSelect(o)', InSelect(a)', req'[o].alone
        PROVE  req'[a].backends = req'[o].backends
    <3>1. \A c \in Requests : c # r /\ stage[c] # "idle" /\ c \notin others => req'[c].backends = list
      BY <2>3
    <3>2. CASE o = r /\ a # r
      <4>0. q.alone <=> others = {}
        BY Zenon
      <4>1. others = {}
        BY <2>2, <2>6, <3>2, <4>0, Zenon
      <4> QED
        BY <2>2, <2>3, <2>6, <3>1, <3>2, <4>1 DEF InSelect
    <3>3. CASE o # r /\ a = r
      BY <2>2, <2>3, <2>6, <3>1, <3>3 DEF InSelect
    <3>4. CASE o # r /\ a # r
      BY <2>3, <2>6, <3>4 DEF InSelect, RingInv, Searching
    <3> QED
      BY <3>2, <3>3, <3>4
  <2>7. ASSUME NEW o \in Requests, stage'[o] = "find", req'[o].alone
        PROVE  built' = req'[o].backends
    BY <1>2, <2>2, <2>3, <2>7 DEF RingInv, Searching
  <2>8. Searching'
    BY <2>5, <2>6, <2>7 DEF Searching, InSelect
  <2>9. \A x \in answers' : Answered(x)'
    BY <1>2, <1>5, AnswersStand DEF RingInv
  <2> QED
    BY <2>4, <2>8, <2>9 DEF RingInv
<1> QED
  BY <1>1, <1>4, <1>5 DEF list

LEMMA RebuildRing ==
    ASSUME RingInv, NEW r \in Requests, Check(r) \/ Rebuild(r)
    PROVE  RingInv'
<1>0. UNCHANGED <<at, req, answers>> /\ stage[r] \in {"check", "rebuild"}
  BY DEF Check, Rebuild
<1>1. \A o \in Requests : o # r => stage'[o] = stage[o]
  BY DEF Check, Rebuild, RingInv, RingTypes
<1>2. RingTypes'
  BY DEF Check, Rebuild, RingInv, RingTypes, At
<1>3. \A o \in Requests : InSelect(o)' => InSelect(o)
  BY <1>0, <1>1 DEF InSelect
<1>4. stage'[r] = "find" => built' = req[r].backends
  BY DEF Check, Rebuild, NeedsRebuild, RingInv, RingTypes
<1>5. built' = built \/ built' = req[r].backends
  BY DEF Check, Rebuild
<1>6. ASSUME NEW o \in Requests, stage'[o] = "find", req[o].alone
      PROVE  built' = req[o].backends
  <2>1. CASE o = r
    BY <1>4, <1>6, <2>1
  <2>2. CASE o # r
    <3>1. stage[o] = "find" /\ InSelect(o) /\ InSelect(r)
      BY <1>0, <1>1, <1>6, <2>2 DEF InSelect
    <3>2. built = req[o].backends /\ req[r].backends = req[o].backends
      BY <1>6, <3>1 DEF RingInv, Searching
    <3> QED
      BY <1>5, <3>2
  <2> QED
    BY <2>1, <2>2
<1>7. Searching'
  BY <1>0, <1>3, <1>6 DEF RingInv, Searching, InSelect
<1>8. \A x \in answers' : Answered(x)'
  BY <1>0, AnswersStand DEF RingInv
<1> QED
  BY <1>2, <1>7, <1>8 DEF RingInv

LEMMA SearchRing ==
    ASSUME RingInv, NEW r \in Requests, Search(r)
    PROVE  RingInv'
<1>0. /\ UNCHANGED <<at, built>> /\ stage[r] = "find"
      /\ req' = [req EXCEPT ![r] = NoReq] /\ stage' = [stage EXCEPT ![r] = "idle"]
      /\ Answer(req[r], Find(built, req[r].key))
  BY DEF Search
<1>1. NoReq \in RequestType
  BY RoutesAssumption DEF NoReq, RequestType, Hashes
<1>2. RingTypes'
  BY <1>0, <1>1 DEF RingInv, RingTypes, At
<1>3. \A o \in Requests : stage'[o] # "idle" => o # r /\ stage'[o] = stage[o] /\ req'[o] = req[o]
  BY <1>0 DEF RingInv, RingTypes
<1>4. Searching'
  BY <1>0, <1>3 DEF RingInv, Searching, InSelect
<1> DEFINE x == [route |-> req[r].route, key |-> req[r].key, backends |-> req[r].backends,
                 node |-> Find(built, req[r].key)]
<1>5. req[r].alone => Answered(x)
  <2>1. req[r].key \in Hashes
    BY DEF RingInv, RingTypes, RequestType
  <2>2. /\ req[r].route \in Names /\ RingList(req[r].route, req[r].backends)
        /\ req[r].alone => built = req[r].backends
    BY <1>0 DEF RingInv, Searching, InSelect
  <2> QED
    BY <2>1, <2>2 DEF Answered
<1>6. \A y \in answers' : y \in answers \/ (req[r].alone /\ y = x)
  BY <1>0 DEF Answer
<1>7. \A y \in answers' : Answered(y)
  BY <1>5, <1>6 DEF RingInv
<1>8. \A y \in answers' : Answered(y)'
  BY <1>0, <1>7, AnswersStand
<1> QED
  BY <1>2, <1>4, <1>8 DEF RingInv

LEMMA NextRing ==
    ASSUME RingInv, [SelectorsNext]_selectorVars
    PROVE  RingInv'
<1>1. CASE UseRing
  <2>1. PICK r \in Requests : RingStep(r)
    BY <1>1 DEF UseRing
  <2> QED
    BY <2>1, StartRing, RebuildRing, SearchRing DEF RingStep
<1>2. CASE UseWeights \/ UseKey \/ UpdateBackendHealth \/ Reload \/ UNCHANGED selectorVars
  <2>1. UNCHANGED ringVars
    BY <1>2 DEF UseWeights, UseKey, UpdateBackendHealth, Reload, selectorVars
  <2> QED
    BY <2>1, QuietRing DEF ringVars
<1> QED
  BY <1>1, <1>2 DEF SelectorsNext

\* The ring keeps its promise to the keys (ConsistentHash.Select): for any
\* routes, requests, virtual nodes and hashes, collisions of hashes included,
\* a request gets a healthy backend of its route, and a key moves only to a
\* backend that was added.
THEOREM KeysStayPut == SelectorsSpec => []RingConsistent
<1>1. RingInv => RingConsistent
  <2> SUFFICES ASSUME RingInv PROVE RingConsistent
    OBVIOUS
  <2>0. At
    BY DEF RingInv, RingTypes
  <2>1. OwnBackend
    BY <2>0, FindsOwn DEF OwnBackend, RingInv, Answered
  <2>2. ASSUME NEW x \in answers, NEW y \in answers,
               x.route = y.route, x.key = y.key, Range(x.backends) \subseteq Range(y.backends),
               y.node \in Range(x.backends)
        PROVE  y.node = x.node
    <3>1. Answered(x) /\ Answered(y)
      BY DEF RingInv
    <3>2. /\ x.route \in Names /\ RingList(x.route, x.backends) /\ RingList(x.route, y.backends)
          /\ x.key \in Hashes /\ x.node = Find(x.backends, x.key) /\ y.node = Find(y.backends, x.key)
      BY <2>2, <3>1 DEF Answered
    <3> QED
      BY <2>0, <2>2, <3>2, Remap
  <2>3. MinimalRemap
    BY <2>2 DEF MinimalRemap
  <2> QED
    BY <2>1, <2>3 DEF RingConsistent
<1> QED
  BY <1>1, InitRing, NextRing, PTL DEF SelectorsSpec

-----------------------------------------------------------------------------
(* The selectors with a key.                                               *)

LEMMA Product ==
    /\ \A a, b \in Nat : a * b \in Nat
    /\ \A a, b, c \in Nat : a <= b => a * c <= b * c /\ c * a <= c * b
<1>1. \A a, b \in Nat : a * b \in Nat
  OBVIOUS
<1>2. ASSUME NEW a \in Nat, NEW b \in Nat, NEW c \in Nat, a <= b
      PROVE  a * c <= b * c /\ c * a <= c * b
  <2>1. (b - a) * c \in Nat
    BY <1>2
  <2>2. (b - a) * c = b * c - a * c /\ b * c = c * b /\ a * c = c * a
    OBVIOUS
  <2> QED
    BY <2>1, <2>2
<1> QED
  BY <1>1, <1>2

LEMMA Zero == \A a \in Int : 0 * a = 0 /\ a * 0 = 0
OBVIOUS

LEMMA DivBounds ==
    ASSUME NEW a \in Nat, NEW t \in Nat \ {0}
    PROVE  a \div t \in Nat /\ t * (a \div t) <= a /\ a < t * (a \div t) + t
OBVIOUS

LEMMA SmallRemainder ==
    ASSUME NEW m \in Nat, NEW v \in 0..m
    PROVE  v % (m + 1) = v
OBVIOUS

LEMMA DivMonotone ==
    ASSUME NEW a \in Nat, NEW b \in Nat, a <= b, NEW t \in Nat \ {0}
    PROVE  a \div t <= b \div t
<1> DEFINE v == a \div t
           w == b \div t
<1>1. v \in Nat /\ w \in Nat /\ t * v <= a /\ b < t * w + t
  BY DivBounds
<1> HIDE DEF v, w
<1>2. ASSUME w + 1 <= v PROVE FALSE
  <2>1. t * (w + 1) <= t * v
    BY <1>1, <1>2, Product
  <2>2. t * (w + 1) = t * w + t
    BY <1>1
  <2>3. t * v \in Nat /\ t * w \in Nat
    BY <1>1, Product
  <2> QED
    BY <1>1, <2>1, <2>2, <2>3
<1>3. v <= w
  BY <1>1, <1>2
<1> QED
  BY <1>3 DEF v, w

\* The threshold of a weight that does not exceed the total is not truncated.
LEMMA Threshold ==
    ASSUME NEW c \in Nat, NEW t \in Nat \ {0}, c <= t
    PROVE  /\ (c * MaxHash) \div t \in 0..MaxHash
           /\ ((c * MaxHash) \div t) % (MaxHash + 1) = (c * MaxHash) \div t
<1> DEFINE a == c * MaxHash
           v == a \div t
<1>0. MaxHash \in Nat
  BY RoutesAssumption
<1>1. a \in Nat /\ a <= t * MaxHash /\ t * MaxHash \in Nat
  BY <1>0, Product
<1>2. v \in Nat /\ t * v <= a
  BY <1>1, DivBounds
<1> HIDE DEF v, a
<1>3. ASSUME MaxHash + 1 <= v PROVE FALSE
  <2>1. t * (MaxHash + 1) <= t * v
    BY <1>0, <1>2, <1>3, Product
  <2>2. t * (MaxHash + 1) = t * MaxHash + t
    BY <1>0
  <2>3. t * v \in Nat
    BY <1>2, Product
  <2> QED
    BY <1>1, <1>2, <2>1, <2>2, <2>3
<1>4. v \in 0..MaxHash
  BY <1>0, <1>2, <1>3
<1>5. v % (MaxHash + 1) = v
  BY <1>0, <1>4, SmallRemainder
<1> QED
  BY <1>4, <1>5 DEF v, a

\* A wider rule keeps what the canary has.
LEMMA WiderWeight ==
    ASSUME NEW r \in CanaryRules, NEW s \in CanaryRules, NEW h \in Hashes,
           r.total = s.total, r.canary <= s.canary, s.canary <= s.total, ByWeight(r, h)
    PROVE  ByWeight(s, h)
<1>0. /\ r.total \in Int /\ r.canary \in Int /\ s.canary \in Int
      /\ MaxHash \in Nat /\ h \in Nat
  BY CanaryAssumption, RoutesAssumption DEF Hashes
<1> DEFINE t == IF r.total <= 0 THEN Default ELSE r.total
           c == IF r.canary < 0 THEN 0 ELSE r.canary
           d == IF s.canary < 0 THEN 0 ELSE s.canary
<1>1. /\ t \in Nat \ {0} /\ c \in Nat /\ d \in Nat /\ c <= d /\ d <= t
      /\ h < ((c * MaxHash) \div t) % (MaxHash + 1)
      /\ ByWeight(s, h) <=> h < ((d * MaxHash) \div t) % (MaxHash + 1)
  <2>1. /\ t \in Nat \ {0} /\ c \in Nat /\ d \in Nat /\ c <= d /\ d <= t
    BY <1>0 DEF Default
  <2> QED
    BY <2>1 DEF ByWeight
<1> HIDE DEF t, c, d
<1>2. c * MaxHash \in Nat /\ d * MaxHash \in Nat /\ c * MaxHash <= d * MaxHash
  BY <1>0, <1>1, Product
<1>3. (c * MaxHash) \div t <= (d * MaxHash) \div t
  BY <1>1, <1>2, DivMonotone
<1>4. /\ ((c * MaxHash) \div t) % (MaxHash + 1) = (c * MaxHash) \div t
      /\ ((d * MaxHash) \div t) % (MaxHash + 1) = (d * MaxHash) \div t
      /\ (c * MaxHash) \div t \in Nat /\ (d * MaxHash) \div t \in Nat
  <2>1. c <= t
    BY <1>1
  <2>2. (c * MaxHash) \div t \in Nat /\ (d * MaxHash) \div t \in Nat
    BY <1>1, <1>2, DivBounds
  <2> QED
    BY <1>1, <2>1, <2>2, Threshold
<1> QED
  BY <1>0, <1>1, <1>3, <1>4

LEMMA WidensKeeps ==
    ASSUME NEW r \in CanaryRules, NEW s \in CanaryRules, Widens(r, s),
           NEW key \in CanaryKeys, ToCanary(r, key)
    PROVE  ToCanary(s, key)
<1>1. CASE r.by \cap {"header", "cookie"} # {}
  BY <1>1 DEF Widens, ToCanary
<1>2. CASE r.by \cap {"header", "cookie"} = {} /\ r # s
  <2>1. key.hash \in Hashes /\ "weight" \in r.by /\ ByWeight(r, key.hash)
    BY <1>2 DEF CanaryKeys, ToCanary
  <2>2. ByWeight(s, key.hash)
    BY <1>2, <2>1, WiderWeight DEF Widens
  <2> QED
    BY <1>2, <2>1, <2>2 DEF Widens, ToCanary
<1> QED
  BY <1>1, <1>2

\* A weight within the total gives the canary its share of the hashes.
LEMMA ShareOfHashes ==
    ASSUME rule \in CanaryRules
    PROVE  CanaryShare
<1> DEFINE c == rule.canary
           t == rule.total
           v == (c * MaxHash) \div t
           hit == {h \in Hashes : ByWeight(rule, h)}
<1> SUFFICES ASSUME 0 <= c, c <= t, t > 0
             PROVE  /\ Cardinality(hit) * t <= c * (MaxHash + 1)
                    /\ Cardinality(hit) * t + 2 * t > c * (MaxHash + 1)
  BY DEF CanaryShare
<1>0. c \in Nat /\ t \in Nat \ {0} /\ MaxHash \in Nat
  BY CanaryAssumption, RoutesAssumption
<1>1. v \in 0..MaxHash /\ v % (MaxHash + 1) = v
  BY <1>0, Threshold
<1>2. \A h \in Hashes : ByWeight(rule, h) <=> h < v
  BY <1>0, <1>1 DEF ByWeight
<1>3. c * MaxHash \in Nat /\ t * v <= c * MaxHash /\ c * MaxHash < t * v + t
  BY <1>0, Product, DivBounds
<1> HIDE DEF v, c, t
<1>4. hit = 0..(v - 1)
  BY <1>0, <1>1, <1>2 DEF Hashes
<1>5. Cardinality(hit) = v
  <2>1. Cardinality(0..(v - 1)) = IF 0 > v - 1 THEN 0 ELSE (v - 1) - 0 + 1
    BY <1>1, FS_Interval
  <2>2. v \in Nat
    BY <1>0, <1>1
  <2>3. Cardinality(0..(v - 1)) = v
    BY <2>1, <2>2
  <2> QED
    BY <1>4, <2>3
<1>6. v * t = t * v /\ t * v \in Nat /\ c * (MaxHash + 1) = c * MaxHash + c /\ v \in Nat
  BY <1>0, <1>1, Product
<1> QED
  BY <1>0, <1>3, <1>5, <1>6

\* The first backend of a list that passes the test.
LEMMA FirstOf ==
    ASSUME NEW list \in Seq(Addrs), NEW S \in SUBSET (DOMAIN list), S # {}
    PROVE  Min(S) \in S
<1>1. S \in SUBSET Nat
  OBVIOUS
<1>2. PICK m \in S : \A k \in S : m <= k
  BY <1>1, LeastElement
<1> QED
  BY <1>2 DEF Min

\* Which side a choice is on, for a list that has both.
LEMMA CanarySide ==
    ASSUME NEW list \in Seq(Addrs), NEW key, {meta[a] : a \in Range(list)} = {"plain", "marked"}
    PROVE  meta[Canary(key, list)] = "marked" <=> ToCanary(rule, key)
<1>0. DOMAIN list = 1..Len(list) /\ Len(list) \in Nat
  OBVIOUS
<1>1. PICK i \in DOMAIN list, j \in DOMAIN list : meta[list[i]] = "marked" /\ meta[list[j]] = "plain"
  <2>1. PICK a \in Range(list) : meta[a] = "marked"
    OBVIOUS
  <2>2. PICK b \in Range(list) : meta[b] = "plain"
    OBVIOUS
  <2> QED
    BY <2>1, <2>2 DEF Range
<1>2. Len(list) # 1
  BY <1>0, <1>1
<1>3. meta[CanaryBackend(list)] = "marked"
  <2> DEFINE S == {k \in DOMAIN list : meta[list[k]] = "marked"}
  <2>1. Marked(list) # {}
    BY <1>1 DEF Marked, Range
  <2>2. S # {} /\ S \in SUBSET (DOMAIN list)
    BY <1>1
  <2>3. Min(S) \in S
    BY <2>2, FirstOf
  <2>4. CanaryBackend(list) = list[Min(S)]
    BY <2>1 DEF CanaryBackend, First
  <2> QED
    BY <2>3, <2>4
<1>4. meta[StableBackend(list)] # "marked"
  <2> DEFINE S == {k \in DOMAIN list : meta[list[k]] # "marked"}
  <2>1. Marked(list) # Range(list)
    BY <1>1 DEF Marked, Range
  <2>2. S # {} /\ S \in SUBSET (DOMAIN list)
    BY <1>1
  <2>3. Min(S) \in S
    BY <2>2, FirstOf
  <2>4. StableBackend(list) = list[Min(S)]
    BY <2>1 DEF StableBackend, First
  <2> QED
    BY <2>3, <2>4
<1> QED
  BY <1>2, <1>3, <1>4 DEF Canary

LEMMA VersionSide ==
    ASSUME NEW list \in Seq(Addrs), list # <<>>, NEW key, key \in {meta[a] : a \in Range(list)}
    PROVE  meta[HeaderRoute(key, list)] = key
<1>0. DOMAIN list = 1..Len(list) /\ Len(list) \in Nat
  OBVIOUS
<1>1. PICK i \in DOMAIN list : meta[list[i]] = key
  BY DEF Range
<1>2. CASE Len(list) > 1
  <2> DEFINE S == {k \in DOMAIN list : meta[list[k]] = key}
  <2>2. S # {} /\ S \in SUBSET (DOMAIN list)
    BY <1>1
  <2>3. Min(S) \in S
    BY <2>2, FirstOf
  <2>4. \E a \in Range(list) : meta[a] = key
    BY <1>1 DEF Range
  <2>5. HeaderRoute(key, list) = list[Min(S)]
    BY <1>2, <2>4 DEF HeaderRoute, First
  <2> QED
    BY <2>3, <2>5
<1>3. CASE ~(Len(list) > 1)
  <2>1. i = 1 /\ Head(list) = list[1]
    BY <1>0, <1>1, <1>3
  <2> QED
    BY <1>1, <1>3, <2>1 DEF HeaderRoute
<1> QED
  BY <1>2, <1>3

\* A selection for a client with a Cookie that had both sides to choose from went
\* where its rule says, and one that asked for a version that was there got it.
Honoured(x) ==
    /\ x.client \in Clients /\ x.rule \in CanaryRules
    /\ strategy = "canary" =>
         \A k \in cookie[x.client] : BothSides(x) => (x.side = "marked" <=> ToCanary(x.rule, k))
    /\ x.asks /\ "marked" \in x.sides => x.side = "marked"

KeyedInv ==
    /\ rule \in CanaryRules
    /\ cookie \in [Clients -> {{}} \cup {{k} : k \in CanaryKeys}]
    /\ \A x \in routed : Honoured(x)

LEMMA InitKeyed == SelectorsInit => KeyedInv
BY DEF SelectorsInit, KeyedInit, KeyedInv

LEMMA NextKeyed ==
    ASSUME KeyedInv, [SelectorsNext]_selectorVars
    PROVE  KeyedInv'
<1>1. ASSUME NEW n \in Names, SelectKeyed(n), UNCHANGED strategy PROVE KeyedInv'
  <2> DEFINE list == Healthy(n)
  <2>1. PICK c \in Clients : \E key \in KeysOf(c) :
          routed' = routed \cup
            {[client |-> c, asks |-> Asks(key), rule |-> rule,
              side |-> meta[Choice(key, list)], sides |-> {meta[a] : a \in Range(list)}]}
    BY <1>1 DEF SelectKeyed
  <2>2. PICK key \in KeysOf(c) :
          routed' = routed \cup
            {[client |-> c, asks |-> Asks(key), rule |-> rule,
              side |-> meta[Choice(key, list)], sides |-> {meta[a] : a \in Range(list)}]}
    BY <2>1
  <2>3. list # <<>> /\ UNCHANGED <<cookie, meta, rule>> /\ list \in Seq(Addrs)
    BY <1>1, HealthyPart DEF SelectKeyed
  <2> HIDE DEF list
  <2> DEFINE x == [client |-> c, asks |-> Asks(key), rule |-> rule,
                   side |-> meta[Choice(key, list)], sides |-> {meta[a] : a \in Range(list)}]
  <2>4. Honoured(x)
    <3>1. ASSUME strategy = "canary", NEW k \in cookie[c], BothSides(x)
          PROVE  meta[Choice(key, list)] = "marked" <=> ToCanary(rule, k)
      <4>1. key = k
        BY <3>1 DEF KeysOf, KeyedInv
      <4>2. Choice(key, list) = Canary(key, list)
        BY <3>1 DEF Choice
      <4>3. {meta[a] : a \in Range(list)} = {"plain", "marked"}
        BY <3>1 DEF BothSides
      <4> QED
        BY <2>3, <4>1, <4>2, <4>3, CanarySide
    <3>2. ASSUME Asks(key), "marked" \in {meta[a] : a \in Range(list)}
          PROVE  meta[Choice(key, list)] = "marked"
      <4>1. Choice(key, list) = HeaderRoute(key, list) /\ key = "marked"
        BY <3>2 DEF Choice, Asks
      <4> QED
        BY <2>3, <3>2, <4>1, VersionSide
    <3> QED
      BY <3>1, <3>2 DEF Honoured, KeyedInv
  <2>5. \A y \in routed' : Honoured(y)
    BY <2>2, <2>4 DEF KeyedInv
  <2>6. \A y \in routed' : Honoured(y)'
    BY <1>1, <2>3, <2>5 DEF Honoured
  <2> QED
    BY <2>3, <2>6 DEF KeyedInv
<1>2. CASE UseKey
  BY <1>1, <1>2 DEF UseKey, routerVars
<1>3. CASE Reload
  <2>1. rule' \in CanaryRules /\ UNCHANGED <<strategy, cookie, routed>>
    BY <1>3 DEF Reload, SwapRule
  <2> QED
    BY <2>1 DEF KeyedInv, Honoured
<1>4. CASE UseRing \/ UseWeights \/ UpdateBackendHealth \/ UNCHANGED selectorVars
  <2>1. UNCHANGED <<cookie, rule, routed, strategy>>
    BY <1>4 DEF UseRing, UseWeights, UpdateBackendHealth, selectorVars, SetHealth, keyedVars, routerVars
  <2> QED
    BY <2>1 DEF KeyedInv, Honoured
<1> QED
  BY <1>2, <1>3, <1>4 DEF SelectorsNext

\* The key decides as its rule says (selectKey of Route, CanaryStrategy.Select,
\* selectByWeight, HeaderRoute.Select): for any routes, rules, hash width and
\* changes of health, a client that sends a Cookie keeps its side while the
\* weight is raised, a weight gets its share of the hashes, and a version that
\* is there is found.
THEOREM KeysAreHonoured == SelectorsSpec => []HonoursKey
<1>1. KeyedInv => HonoursKey
  <2> SUFFICES ASSUME KeyedInv PROVE HonoursKey
    OBVIOUS
  <2>1. CanaryShare
    BY ShareOfHashes DEF KeyedInv
  <2>2. KeepsSide
    <3> SUFFICES ASSUME strategy = "canary", NEW x \in routed, NEW y \in routed,
                        x.client = y.client, cookie[x.client] # {},
                        Widens(x.rule, y.rule), BothSides(x), BothSides(y),
                        x.side = "marked"
                 PROVE  y.side = "marked"
      BY DEF KeepsSide
    <3>1. PICK k \in CanaryKeys : k \in cookie[x.client]
      BY DEF KeyedInv, Honoured
    <3>2. /\ x.rule \in CanaryRules /\ y.rule \in CanaryRules
          /\ ToCanary(x.rule, k) /\ (y.side = "marked" <=> ToCanary(y.rule, k))
      BY <3>1 DEF KeyedInv, Honoured
    <3> QED
      BY <3>1, <3>2, WidensKeeps
  <2>3. VersionHonoured
    BY DEF VersionHonoured, KeyedInv, Honoured
  <2> QED
    BY <2>1, <2>2, <2>3 DEF HonoursKey
<1> QED
  BY <1>1, InitKeyed, NextKeyed, PTL DEF SelectorsSpec

-----------------------------------------------------------------------------
(* Sums, by induction over the positions of a sequence.                    *)

LEMMA Induction ==
    ASSUME NEW N \in Nat, NEW S, 0 \in S, \A i \in 1..N : i - 1 \in S => i \in S
    PROVE  \A i \in 0..N : i \in S
<1> DEFINE Bad == {i \in 0..N : i \notin S}
<1> SUFFICES ASSUME Bad # {} PROVE FALSE
  OBVIOUS
<1>1. Bad \in SUBSET Nat
  OBVIOUS
<1>2. PICK i \in Bad : \A j \in Bad : i <= j
  BY <1>1, LeastElement
<1>3. i \in 1..N /\ i - 1 \in 0..N /\ ~(i <= i - 1)
  OBVIOUS
<1>4. i - 1 \in S
  BY <1>2, <1>3
<1> QED
  BY <1>3, <1>4

LEMMA SumDefined ==
    ASSUME NEW s \in Seq(Int)
    PROVE  \E g : g = [i \in 0..Len(s) |-> IF i = 0 THEN 0 ELSE g[i - 1] + s[i]]
<1> DEFINE Good(m) == \E g : g = [i \in 0..m |-> IF i = 0 THEN 0 ELSE g[i - 1] + s[i]]
           S == {m \in 0..Len(s) : Good(m)}
<1>0. Len(s) \in Nat
  OBVIOUS
<1>1. 0 \in S
  <2> DEFINE g == [i \in 0..0 |-> 0]
  <2>1. g = [i \in 0..0 |-> IF i = 0 THEN 0 ELSE g[i - 1] + s[i]]
    OBVIOUS
  <2>2. Good(0)
    BY <2>1
  <2> HIDE DEF Good
  <2> QED
    BY <1>0, <2>2
<1>2. ASSUME NEW m \in 1..Len(s), m - 1 \in S PROVE m \in S
  <2>1. PICK g : g = [i \in 0..(m - 1) |-> IF i = 0 THEN 0 ELSE g[i - 1] + s[i]]
    BY <1>2
  <2> DEFINE f == [i \in 0..m |-> IF i < m THEN g[i] ELSE g[m - 1] + s[m]]
  <2>2. ASSUME NEW i \in 0..m PROVE f[i] = IF i = 0 THEN 0 ELSE f[i - 1] + s[i]
    <3>1. CASE i = m
      BY <1>0, <3>1
    <3>2. CASE i < m
      BY <1>0, <2>1, <3>2
    <3> QED
      BY <1>0, <3>1, <3>2
  <2>3. f = [i \in 0..m |-> IF i = 0 THEN 0 ELSE f[i - 1] + s[i]]
    BY <2>2
  <2>4. Good(m)
    BY <2>3
  <2> HIDE DEF Good
  <2> QED
    BY <1>0, <2>4
<1>3. Len(s) \in S
  <2> HIDE DEF S
  <2>1. \A i \in 0..Len(s) : i \in S
    BY <1>0, <1>1, <1>2, Induction
  <2> QED
    BY <1>0, <2>1
<1> QED
  BY <1>3

\* g is the running sum of s.
Running(s, g) ==
    /\ g \in [0..Len(s) -> Int] /\ g[0] = 0
    /\ \A i \in 1..Len(s) : g[i] = g[i - 1] + s[i]

LEMMA SumRuns ==
    ASSUME NEW s \in Seq(Int)
    PROVE  \E g : Running(s, g) /\ SumOf(s) = g[Len(s)]
<1> DEFINE upTo[i \in 0..Len(s)] == IF i = 0 THEN 0 ELSE upTo[i - 1] + s[i]
<1>0. Len(s) \in Nat
  OBVIOUS
<1>1. SumOf(s) = upTo[Len(s)]
  BY DEF SumOf
<1>2. upTo = [i \in 0..Len(s) |-> IF i = 0 THEN 0 ELSE upTo[i - 1] + s[i]]
  BY SumDefined
<1> HIDE DEF upTo
<1>3. upTo[0] = 0 /\ \A i \in 1..Len(s) : upTo[i] = upTo[i - 1] + s[i]
  BY <1>0, <1>2
<1> DEFINE S == {i \in 0..Len(s) : upTo[i] \in Int}
<1>4. 0 \in S
  BY <1>0, <1>3
<1>5. ASSUME NEW i \in 1..Len(s), i - 1 \in S PROVE i \in S
  BY <1>0, <1>3, <1>5
<1>6. \A i \in 0..Len(s) : i \in S
  <2> HIDE DEF S
  <2> QED
    BY <1>0, <1>4, <1>5, Induction
<1>7. upTo \in [0..Len(s) -> Int]
  BY <1>2, <1>6
<1> QED
  BY <1>1, <1>3, <1>7 DEF Running

LEMMA SumAdd ==
    ASSUME NEW s \in Seq(Int), NEW t \in Seq(Int), NEW u \in Seq(Int),
           Len(t) = Len(s), Len(u) = Len(s),
           \A i \in 1..Len(s) : u[i] = s[i] + t[i]
    PROVE  SumOf(u) = SumOf(s) + SumOf(t)
<1>0. Len(s) \in Nat /\ \A i \in 1..Len(s) : s[i] \in Int /\ t[i] \in Int
  OBVIOUS
<1>1. PICK f : Running(s, f) /\ SumOf(s) = f[Len(s)]
  BY SumRuns
<1>2. PICK g : Running(t, g) /\ SumOf(t) = g[Len(t)]
  BY SumRuns
<1>3. PICK h : Running(u, h) /\ SumOf(u) = h[Len(u)]
  BY SumRuns
<1> DEFINE S == {i \in 0..Len(s) : h[i] = f[i] + g[i]}
<1>4. 0 \in S
  BY <1>0, <1>1, <1>2, <1>3 DEF Running
<1>5. ASSUME NEW i \in 1..Len(s), i - 1 \in S PROVE i \in S
  <2>1. /\ f[i] = f[i - 1] + s[i] /\ g[i] = g[i - 1] + t[i] /\ h[i] = h[i - 1] + u[i]
        /\ f[i - 1] \in Int /\ g[i - 1] \in Int
    <3>1. i - 1 \in 0..Len(s)
      BY <1>0
    <3> QED
      BY <1>0, <1>1, <1>2, <1>3, <3>1 DEF Running
  <2>2. h[i] = f[i] + g[i]
    <3>1. \A v, w, x, y \in Int : (v + w) + (x + y) = (v + x) + (w + y)
      OBVIOUS
    <3>2. /\ f[i - 1] \in Int /\ g[i - 1] \in Int /\ s[i] \in Int /\ t[i] \in Int
          /\ h[i - 1] = f[i - 1] + g[i - 1] /\ u[i] = s[i] + t[i]
      BY <1>0, <1>5, <2>1
    <3>3. h[i] = (f[i - 1] + g[i - 1]) + (s[i] + t[i])
      BY <2>1, <3>2, Zenon
    <3>4. f[i] + g[i] = (f[i - 1] + s[i]) + (g[i - 1] + t[i])
      BY <2>1, Zenon
    <3>5. (f[i - 1] + g[i - 1]) + (s[i] + t[i]) = (f[i - 1] + s[i]) + (g[i - 1] + t[i])
      BY <3>1, <3>2, SMTT(30)
    <3> QED
      BY <3>3, <3>4, <3>5, Zenon
  <2> QED
    BY <2>2
<1>6. \A i \in 0..Len(s) : i \in S
  <2> HIDE DEF S
  <2> QED
    BY <1>0, <1>4, <1>5, Induction
<1> QED
  BY <1>0, <1>1, <1>2, <1>3, <1>6

LEMMA SumOfEqual ==
    ASSUME NEW s \in Seq(Int), NEW c \in Int, \A i \in 1..Len(s) : s[i] = c
    PROVE  SumOf(s) = Len(s) * c
<1>0. Len(s) \in Nat
  OBVIOUS
<1>1. PICK f : Running(s, f) /\ SumOf(s) = f[Len(s)]
  BY SumRuns
<1> DEFINE S == {i \in 0..Len(s) : f[i] = i * c}
<1>4. 0 \in S
  BY <1>0, <1>1 DEF Running
<1>5. ASSUME NEW i \in 1..Len(s), i - 1 \in S PROVE i \in S
  <2>1. f[i] = (i - 1) * c + c
    BY <1>1, <1>5 DEF Running
  <2>2. (i - 1) * c + c = i * c
    BY <1>0
  <2> QED
    BY <2>1, <2>2
<1>6. \A i \in 0..Len(s) : i \in S
  <2> HIDE DEF S
  <2> QED
    BY <1>0, <1>4, <1>5, Induction
<1> QED
  BY <1>0, <1>1, <1>6

\* One element changes by d.
LEMMA SumChange ==
    ASSUME NEW s \in Seq(Int), NEW t \in Seq(Int), Len(t) = Len(s),
           NEW b \in 1..Len(s), NEW d \in Int, t[b] = s[b] + d,
           \A i \in 1..Len(s) : i # b => t[i] = s[i]
    PROVE  SumOf(t) = SumOf(s) + d
<1>0. Len(s) \in Nat /\ \A i \in 1..Len(s) : s[i] \in Int /\ t[i] \in Int
  OBVIOUS
<1>1. PICK f : Running(s, f) /\ SumOf(s) = f[Len(s)]
  BY SumRuns
<1>2. PICK g : Running(t, g) /\ SumOf(t) = g[Len(t)]
  BY SumRuns
<1> DEFINE S == {i \in 0..Len(s) : g[i] = f[i] + (IF i >= b THEN d ELSE 0)}
<1>4. 0 \in S
  BY <1>0, <1>1, <1>2 DEF Running
<1>5. ASSUME NEW i \in 1..Len(s), i - 1 \in S PROVE i \in S
  <2>1. /\ f[i] = f[i - 1] + s[i] /\ g[i] = g[i - 1] + t[i]
        /\ f[i - 1] \in Int /\ g[i - 1] \in Int /\ s[i] \in Int
    <3>1. i - 1 \in 0..Len(s)
      BY <1>0
    <3> QED
      BY <1>0, <1>1, <1>2, <3>1 DEF Running
  <2>2. g[i - 1] = f[i - 1] + (IF i - 1 >= b THEN d ELSE 0)
    BY <1>5
  <2>3. CASE i = b
    <3>1. i \in 0..Len(s) /\ (i >= b) = TRUE /\ (i - 1 >= b) = FALSE
      BY <1>0, <2>3
    <3>2. g[i - 1] = f[i - 1] /\ t[i] = s[i] + d
      BY <2>1, <2>2, <2>3, <3>1
    <3>3. \A x, y, z \in Int : x + (y + z) = (x + y) + z
      OBVIOUS
    <3>4. g[i] = f[i] + d
      <4>1. f[i - 1] + (s[i] + d) = (f[i - 1] + s[i]) + d
        BY <2>1, <3>3, Zenon
      <4>2. g[i] = f[i - 1] + (s[i] + d) /\ f[i] + d = (f[i - 1] + s[i]) + d
        BY <2>1, <3>2, Zenon
      <4> QED
        BY <4>1, <4>2, Zenon
    <3> QED
      BY <3>1, <3>4
  <2>4. CASE i # b
    <3>1. (i - 1 >= b) <=> (i >= b)
      BY <1>0, <2>4
    <3>2. t[i] = s[i]
      BY <2>4
    <3> DEFINE e == IF i >= b THEN d ELSE 0
    <3>3. e \in Int /\ g[i - 1] = f[i - 1] + e
      BY <2>2, <3>1
    <3>4. g[i] = f[i] + e
      <4> HIDE DEF e
      <4>1. \A x, y, z \in Int : (x + y) + z = (x + z) + y
        OBVIOUS
      <4>2. f[i - 1] \in Int /\ e \in Int /\ s[i] \in Int
        BY <2>1, <3>3, Zenon
      <4>3. g[i] = (f[i - 1] + e) + s[i] /\ f[i] + e = (f[i - 1] + s[i]) + e
        BY <2>1, <3>2, <3>3, Zenon
      <4>4. (f[i - 1] + e) + s[i] = (f[i - 1] + s[i]) + e
        BY <4>1, <4>2
      <4> QED
        BY <4>3, <4>4, Zenon
    <3>5. i \in 0..Len(s)
      BY <1>0
    <3> QED
      BY <3>4, <3>5
  <2> QED
    BY <2>3, <2>4
<1>6. \A i \in 0..Len(s) : i \in S
  <2> HIDE DEF S
  <2> QED
    BY <1>0, <1>4, <1>5, Induction
<1>7. Len(s) \in S
  <2>1. Len(s) \in 0..Len(s)
    BY <1>0
  <2> QED
    BY <1>6, <2>1
<1> QED
  BY <1>0, <1>1, <1>2, <1>7

LEMMA SumSign ==
    ASSUME NEW s \in Seq(Int)
    PROVE  /\ SumOf(s) \in Int
           /\ (\A i \in 1..Len(s) : s[i] >= 0) => SumOf(s) >= 0
           /\ (\A i \in 1..Len(s) : s[i] <= 0) => SumOf(s) <= 0
<1>0. Len(s) \in Nat /\ \A i \in 1..Len(s) : s[i] \in Int
  OBVIOUS
<1>1. PICK f : Running(s, f) /\ SumOf(s) = f[Len(s)]
  BY SumRuns
<1>2. \A i \in 1..Len(s) : f[i] = f[i - 1] + s[i] /\ f[i - 1] \in Int /\ i - 1 \in 0..Len(s)
  BY <1>0, <1>1 DEF Running
<1>3. ASSUME \A i \in 1..Len(s) : s[i] >= 0 PROVE SumOf(s) >= 0
  <2> DEFINE S == {i \in 0..Len(s) : f[i] >= 0}
  <2>1. 0 \in S
    BY <1>0, <1>1 DEF Running
  <2>2. ASSUME NEW i \in 1..Len(s), i - 1 \in S PROVE i \in S
    <3>1. f[i] = f[i - 1] + s[i] /\ f[i - 1] \in Int /\ f[i - 1] >= 0
      BY <1>2, <2>2
    <3>2. s[i] \in Int /\ s[i] >= 0 /\ i \in 0..Len(s)
      BY <1>0, <1>3
    <3> QED
      BY <3>1, <3>2
  <2>3. \A i \in 0..Len(s) : i \in S
    <3> HIDE DEF S
    <3> QED
      BY <1>0, <2>1, <2>2, Induction
  <2> QED
    BY <1>0, <1>1, <2>3
<1>4. ASSUME \A i \in 1..Len(s) : s[i] <= 0 PROVE SumOf(s) <= 0
  <2> DEFINE S == {i \in 0..Len(s) : f[i] <= 0}
  <2>1. 0 \in S
    BY <1>0, <1>1 DEF Running
  <2>2. ASSUME NEW i \in 1..Len(s), i - 1 \in S PROVE i \in S
    <3>1. f[i] = f[i - 1] + s[i] /\ f[i - 1] \in Int /\ f[i - 1] <= 0
      BY <1>2, <2>2
    <3>2. s[i] \in Int /\ s[i] <= 0 /\ i \in 0..Len(s)
      BY <1>0, <1>4
    <3> QED
      BY <3>1, <3>2
  <2>3. \A i \in 0..Len(s) : i \in S
    <3> HIDE DEF S
    <3> QED
      BY <1>0, <2>1, <2>2, Induction
  <2> QED
    BY <1>0, <1>1, <2>3
<1>5. SumOf(s) \in Int
  BY <1>0, <1>1 DEF Running
<1> QED
  BY <1>3, <1>4, <1>5

\* An element of a sequence of non-negative numbers is at most the sum.
LEMMA SumBounds ==
    ASSUME NEW s \in Seq(Int), \A i \in 1..Len(s) : s[i] >= 0, NEW b \in 1..Len(s)
    PROVE  s[b] <= SumOf(s)
<1> DEFINE t == [s EXCEPT ![b] = 0]
<1>0. /\ t \in Seq(Int) /\ Len(t) = Len(s) /\ Len(s) \in Nat /\ t[b] = 0 /\ s[b] \in Int
      /\ \A i \in 1..Len(s) : i # b => t[i] = s[i]
  OBVIOUS
<1> HIDE DEF t
<1>1. SumOf(t) = SumOf(s) + (-s[b])
  <2>1. -s[b] \in Int /\ t[b] = s[b] + (-s[b])
    BY <1>0
  <2> QED
    BY <1>0, <2>1, SumChange
<1>2. SumOf(t) >= 0 /\ SumOf(t) \in Int /\ SumOf(s) \in Int
  BY <1>0, SumSign
<1> QED
  BY <1>0, <1>1, <1>2

-----------------------------------------------------------------------------
(* Smooth weighted round-robin.                                            *)

W(n) == [i \in 1..Len(Routes[n]) |-> weight[<<n, Routes[n][i]>>]]
Picked(n, i) == picks[<<n, Routes[n][i]>>]

ShareTypes ==
    /\ weight \in [Entries -> Nat] /\ picks \in [Entries -> Nat] /\ turn \in Nat
    /\ pure \in Names \cup {"none", "mixed"}
    /\ DOMAIN healthy = Addrs

\* A route that has had the selector to itself: each current weight is what
\* the backend was due less what it got, they sum up to nothing, and nobody is
\* a whole turn ahead.
Level(n) ==
    /\ currentWeights \in Seq(Int) /\ Len(currentWeights) = Len(Routes[n])
    /\ turn \in 1..Cycle(n)
    /\ SumOf(currentWeights) = 0
    /\ \A i \in 1..Len(Routes[n]) :
         /\ currentWeights[i] = turn * W(n)[i] - Cycle(n) * Picked(n, i)
         /\ currentWeights[i] > -Cycle(n)

ShareInv ==
    /\ ShareTypes
    /\ pure # "mixed" => \A a \in Addrs : healthy[a] = TRUE
    /\ pure = "none" => currentWeights = <<>> /\ picks = NoPicks /\ turn = 0
    /\ \A n \in Names : pure = n => Level(n)

LEMMA WeightFacts ==
    ASSUME ShareTypes, NEW n \in Names
    PROVE  /\ Len(Routes[n]) \in Nat \ {0} /\ DOMAIN Routes[n] = 1..Len(Routes[n])
           /\ W(n) \in Seq(Int) /\ Len(W(n)) = Len(Routes[n])
           /\ \A i \in 1..Len(Routes[n]) :
                /\ <<n, Routes[n][i]>> \in Entries
                /\ W(n)[i] = weight[<<n, Routes[n][i]>>] /\ W(n)[i] \in Nat /\ Picked(n, i) \in Nat
           /\ Cycle(n) = SumOf(W(n)) /\ Cycle(n) \in Nat
<1>1. Routes[n] \in Seq(Addrs) /\ Routes[n] # <<>>
  BY RoutesAssumption
<1>2. Len(Routes[n]) \in Nat \ {0} /\ DOMAIN Routes[n] = 1..Len(Routes[n])
  BY <1>1
<1>3. \A i \in 1..Len(Routes[n]) : <<n, Routes[n][i]>> \in Entries
  BY <1>2 DEF Entries, Range
<1>4. \A i \in 1..Len(Routes[n]) :
        W(n)[i] = weight[<<n, Routes[n][i]>>] /\ W(n)[i] \in Nat /\ Picked(n, i) \in Nat
  BY <1>3 DEF ShareTypes, W, Picked
<1>5. W(n) \in Seq(Int) /\ Len(W(n)) = Len(Routes[n])
  <2>1. W(n) \in [1..Len(Routes[n]) -> Int]
    <3>1. \A i \in 1..Len(Routes[n]) : weight[<<n, Routes[n][i]>>] \in Int
      BY <1>3 DEF ShareTypes
    <3> QED
      BY <3>1 DEF W
  <2> QED
    BY <1>2, <2>1
<1>6. Cycle(n) = SumOf(W(n))
  BY <1>2 DEF Cycle, Total, W
<1>7. Cycle(n) \in Nat
  <2>1. ASSUME NEW i \in 1..Len(W(n)) PROVE W(n)[i] >= 0
    <3>1. i \in 1..Len(Routes[n])
      BY <1>5
    <3>2. W(n)[i] \in Nat
      BY <1>4, <3>1
    <3> QED
      BY <3>2
  <2>2. SumOf(W(n)) \in Int /\ SumOf(W(n)) >= 0
    BY <1>5, <2>1, SumSign
  <2> QED
    BY <1>6, <2>2
<1> QED
  BY <1>2, <1>3, <1>4, <1>5, <1>6, <1>7

\* With all backends healthy the list is the route's.
LEMMA AllHealthy ==
    ASSUME NEW n \in Names, \A a \in Addrs : healthy[a] = TRUE
    PROVE  Healthy(n) = Routes[n]
<1> DEFINE s == Routes[n]
<1>0. s \in Seq(Addrs) /\ Len(s) \in Nat /\ \A i \in 1..Len(s) : s[i] \in Addrs
  BY RoutesAssumption
<1>1. PICK g : g = [i \in 0..Len(s) |-> Turn(s, healthy, g, i)] /\ Healthy(n) = g[Len(s)]
  BY HealthyIsLoop
<1> DEFINE Same(u, i) == u \in Seq(Addrs) /\ Len(u) = i /\ \A k \in 1..i : u[k] = s[k]
           S == {i \in 0..Len(s) : Same(g[i], i)}
<1>2. 0 \in S
  <2>1. g[0] = <<>>
    BY <1>0, <1>1 DEF Turn
  <2>2. Same(<<>>, 0)
    OBVIOUS
  <2>3. 0 \in 0..Len(s)
    BY <1>0
  <2> QED
    BY <2>1, <2>2, <2>3
<1>3. ASSUME NEW i \in 1..Len(s), i - 1 \in S PROVE i \in S
  <2>0. i \in 0..Len(s) /\ i # 0 /\ healthy[s[i]] = TRUE
    BY <1>0
  <2>1. g[i] = Append(g[i - 1], s[i])
    BY <1>1, <2>0 DEF Turn
  <2>2. Same(g[i - 1], i - 1)
    BY <1>3
  <2>3. Same(Append(g[i - 1], s[i]), i)
    BY <1>0, <2>2
  <2>4. Same(g[i], i)
    BY <2>1, <2>3
  <2> HIDE DEF Same
  <2> QED
    BY <2>0, <2>4
<1>4. Len(s) \in S
  <2> HIDE DEF S
  <2>1. \A i \in 0..Len(s) : i \in S
    BY <1>0, <1>2, <1>3, Induction
  <2> QED
    BY <1>0, <2>1
<1>5. Same(g[Len(s)], Len(s))
  BY <1>4
<1>6. g[Len(s)] = s
  BY <1>0, <1>5
<1> QED
  BY <1>1, <1>6

LEMMA MaxExists ==
    ASSUME NEW f \in Seq(Int), f # <<>>
    PROVE  \E i \in 1..Len(f) : \A j \in 1..Len(f) : f[j] <= f[i]
<1> DEFINE Top(m) == \E i \in 1..m : \A j \in 1..m : f[j] <= f[i]
           S == {m \in 0..Len(f) : m = 0 \/ Top(m)}
<1>0. Len(f) \in Nat /\ Len(f) # 0 /\ \A i \in 1..Len(f) : f[i] \in Int
  OBVIOUS
<1>1. 0 \in S
  BY <1>0
<1>2. ASSUME NEW m \in 1..Len(f), m - 1 \in S PROVE m \in S
  <2>1. CASE m = 1
    <3>1. Top(1)
      BY <1>0
    <3> HIDE DEF Top
    <3> QED
      BY <1>0, <2>1, <3>1
  <2>2. CASE m # 1
    <3>1. PICK i \in 1..(m - 1) : \A j \in 1..(m - 1) : f[j] <= f[i]
      BY <1>0, <1>2, <2>2
    <3>2. CASE f[m] <= f[i]
      <4>1. \A j \in 1..m : f[j] <= f[i]
        BY <1>0, <3>1, <3>2
      <4> QED
        BY <1>0, <3>1, <4>1
    <3>3. CASE f[i] <= f[m]
      <4>1. \A j \in 1..m : f[j] <= f[m]
        BY <1>0, <3>1, <3>3
      <4> QED
        BY <1>0, <3>1, <4>1
    <3>4. f[m] \in Int /\ f[i] \in Int
      BY <1>0, <3>1
    <3>5. f[m] <= f[i] \/ f[i] <= f[m]
      BY <3>4
    <3> HIDE DEF S
    <3> QED
      BY <3>2, <3>3, <3>5
  <2> QED
    BY <2>1, <2>2
<1>3. Len(f) \in S
  <2> HIDE DEF S
  <2>1. \A i \in 0..Len(f) : i \in S
    BY <1>0, <1>1, <1>2, Induction
  <2> QED
    BY <1>0, <2>1
<1> QED
  BY <1>0, <1>3

\* If there is weight to give, the chosen one has a positive level.
LEMMA BestFacts ==
    ASSUME NEW f \in Seq(Int), f # <<>>, SumOf(f) > 0
    PROVE  Best(f) \in 1..Len(f) /\ f[Best(f)] > 0
<1>0. DOMAIN f = 1..Len(f) /\ \A i \in 1..Len(f) : f[i] \in Int
  OBVIOUS
<1>1. PICK p \in 1..Len(f) : f[p] > 0
  <2>1. SumOf(f) \in Int /\ ((\A i \in 1..Len(f) : f[i] <= 0) => SumOf(f) <= 0)
    BY SumSign
  <2> QED
    BY <1>0, <2>1
<1>2. PICK m \in 1..Len(f) : \A j \in 1..Len(f) : f[j] <= f[m]
  BY MaxExists
<1> DEFINE above == {i \in DOMAIN f : f[i] > -1}
           top == {i \in above : \A j \in above : f[j] <= f[i]}
<1>3. m \in top
  BY <1>0, <1>1, <1>2
<1>4. top \in SUBSET Nat
  BY <1>0
<1>5. PICK l \in top : \A k \in top : l <= k
  BY <1>3, <1>4, LeastElement
<1>6. Min(top) \in top
  BY <1>5 DEF Min
<1>7. Best(f) = Min(top)
  BY <1>3 DEF Best
<1>8. p \in above
  BY <1>0, <1>1
<1> QED
  BY <1>0, <1>1, <1>6, <1>7, <1>8

\* At the end of a cycle everybody has got its share, and the weights are level.
LEMMA CycleEnds ==
    ASSUME ShareTypes, NEW n \in Names, Level(n), turn = Cycle(n), NEW i \in 1..Len(Routes[n])
    PROVE  Picked(n, i) = W(n)[i] /\ currentWeights[i] = 0
<1> DEFINE T == Cycle(n)
           c == currentWeights
<1>0. T \in Nat \ {0} /\ turn \in 1..T
  BY WeightFacts DEF Level
<1>1. \A j \in 1..Len(Routes[n]) : W(n)[j] \in Nat /\ Picked(n, j) \in Nat
  BY WeightFacts
<1>2. \A j \in 1..Len(Routes[n]) : c[j] = T * W(n)[j] - T * Picked(n, j) /\ c[j] > -T
  BY DEF Level
<1> HIDE DEF T, c
<1>3. ASSUME NEW j \in 1..Len(Routes[n]) PROVE c[j] >= 0
  <2> DEFINE w == W(n)[j]
             p == Picked(n, j)
  <2>1. w \in Nat /\ p \in Nat /\ c[j] = T * w - T * p /\ c[j] > -T
    BY <1>1, <1>2
  <2> HIDE DEF w, p
  <2>2. T * w \in Nat /\ T * p \in Nat
    BY <1>0, <2>1, Product
  <2>3. ASSUME w + 1 <= p PROVE FALSE
    <3>1. T * (w + 1) <= T * p
      BY <1>0, <2>1, <2>3, Product
    <3>2. T * (w + 1) = T * w + T
      BY <1>0, <2>1
    <3> QED
      BY <1>0, <2>1, <2>2, <3>1, <3>2
  <2>4. p <= w
    BY <2>1, <2>3
  <2>5. T * p <= T * w
    BY <1>0, <2>1, <2>4, Product
  <2> QED
    BY <2>1, <2>2, <2>5
<1>4. c[i] = 0
  <2>1. c \in Seq(Int) /\ Len(c) = Len(Routes[n]) /\ SumOf(c) = 0
    BY DEF Level, c
  <2>2. c[i] <= 0 /\ c[i] >= 0 /\ c[i] \in Int
    BY <1>3, <2>1, SumBounds
  <2> QED
    BY <2>2
<1>5. Picked(n, i) = W(n)[i]
  <2> DEFINE w == W(n)[i]
             p == Picked(n, i)
  <2>1. w \in Nat /\ p \in Nat /\ 0 = T * w - T * p
    BY <1>1, <1>2, <1>4
  <2> HIDE DEF w, p
  <2>2. T * w \in Nat /\ T * p \in Nat /\ T * w = T * p
    <3>1. T * w \in Nat /\ T * p \in Nat
      BY <1>0, <2>1, Product
    <3> QED
      BY <2>1, <3>1
  <2>3. ASSUME w + 1 <= p PROVE FALSE
    <3>1. T * (w + 1) <= T * p
      BY <1>0, <2>1, <2>3, Product
    <3>2. T * (w + 1) = T * w + T
      BY <1>0, <2>1
    <3> QED
      BY <1>0, <2>2, <3>1, <3>2
  <2>4. ASSUME p + 1 <= w PROVE FALSE
    <3>1. T * (p + 1) <= T * w
      BY <1>0, <2>1, <2>4, Product
    <3>2. T * (p + 1) = T * p + T
      BY <1>0, <2>1
    <3> QED
      BY <1>0, <2>2, <3>1, <3>2
  <2>5. w = p
    BY <2>1, <2>3, <2>4
  <2> QED
    BY <2>5 DEF w, p
<1> QED
  BY <1>4, <1>5 DEF c

LEMMA InitShare == SelectorsInit => ShareInv
<1> SUFFICES ASSUME SelectorsInit PROVE ShareInv
  OBVIOUS
<1>1. ShareTypes
  BY WeightsAssumption DEF SelectorsInit, RouterInit, ShareInit, ShareTypes, NoPicks
<1> QED
  BY <1>1, WeightsAssumption DEF SelectorsInit, RouterInit, ShareInit, ShareInv

\* The weights Select starts from: those of the last selection, which are level
\* again when a cycle is done, or none.
LEMMA Resumes ==
    ASSUME ShareInv, NEW n \in Names, pure \in {n, "none"}, Cycle(n) > 0
    PROVE  LET done == turn = Cycle(n)
               k == IF done THEN 0 ELSE turn
               r == Resized(Routes[n])
           IN  /\ r \in Seq(Int) /\ Len(r) = Len(Routes[n]) /\ SumOf(r) = 0
               /\ k \in 0..(Cycle(n) - 1)
               /\ \A i \in 1..Len(Routes[n]) :
                    /\ r[i] > -Cycle(n)
                    /\ r[i] = k * W(n)[i] - Cycle(n) * (IF done THEN 0 ELSE Picked(n, i))
<1> DEFINE done == turn = Cycle(n)
           k == IF done THEN 0 ELSE turn
           r == Resized(Routes[n])
           N == Len(Routes[n])
<1>0. /\ N \in Nat \ {0} /\ Cycle(n) \in Nat
      /\ \A i \in 1..N : <<n, Routes[n][i]>> \in Entries
  BY WeightFacts DEF ShareInv
<1>a. ASSUME NEW i \in 1..N PROVE W(n)[i] \in Int /\ Cycle(n) \in Int
  <2>1. W(n)[i] \in Nat
    BY WeightFacts DEF ShareInv
  <2> QED
    BY <1>0, <2>1
<1>1. CASE pure = "none"
  <2>1. currentWeights = <<>> /\ picks = NoPicks /\ turn = 0
    BY <1>1 DEF ShareInv
  <2>2. r = [i \in 1..N |-> 0]
    BY <1>0, <2>1 DEF Resized
  <2>3. r \in Seq(Int) /\ Len(r) = N /\ \A i \in 1..N : r[i] = 0
    BY <1>0, <2>2
  <2>4. SumOf(r) = N * 0
    BY <2>3, SumOfEqual
  <2>5. ~done /\ k = 0
    BY <1>0, <2>1
  <2>6. \A i \in 1..N : Picked(n, i) = 0
    BY <1>0, <2>1 DEF Picked, NoPicks
  <2>7. ASSUME NEW i \in 1..N PROVE 0 = 0 * W(n)[i] - Cycle(n) * Picked(n, i)
    <3>2. 0 * W(n)[i] = 0 /\ Cycle(n) * 0 = 0
      BY <1>a, Zero
    <3> QED
      BY <2>6, <3>2
  <2>8. N * 0 = 0
    BY <1>0, Zero
  <2>9. k \in 0..(Cycle(n) - 1) /\ 0 > -Cycle(n)
    BY <1>0, <2>5
  <2> HIDE DEF r, k, done
  <2>10. /\ r \in Seq(Int) /\ Len(r) = Len(Routes[n]) /\ SumOf(r) = 0
         /\ k \in 0..(Cycle(n) - 1)
         /\ \A i \in 1..Len(Routes[n]) :
              /\ r[i] > -Cycle(n)
              /\ r[i] = k * W(n)[i] - Cycle(n) * (IF done THEN 0 ELSE Picked(n, i))
    BY <2>3, <2>4, <2>5, <2>7, <2>8, <2>9
  <2> QED
    BY <2>10 DEF r, k, done
<1>2. CASE pure = n
  <2>1. Level(n)
    BY <1>2 DEF ShareInv
  <2>2. currentWeights \in Seq(Int) /\ Len(currentWeights) = N /\ turn \in 1..Cycle(n)
    BY <2>1 DEF Level
  <2>3. r = currentWeights
    <3>1. \A i \in 1..N : i <= Len(currentWeights)
      BY <2>2
    <3>2. r = [i \in 1..N |-> currentWeights[i]]
      BY <3>1 DEF Resized
    <3> QED
      BY <2>2, <3>2
  <2>4. k \in 0..(Cycle(n) - 1)
    BY <1>0, <2>2
  <2>5. ASSUME NEW i \in 1..N
        PROVE  r[i] = k * W(n)[i] - Cycle(n) * (IF done THEN 0 ELSE Picked(n, i))
    <3>1. CASE done
      <4>1. currentWeights[i] = 0
        BY <2>1, <3>1, CycleEnds DEF ShareInv
      <4>2. 0 * W(n)[i] - Cycle(n) * 0 = 0
        <5>2. 0 * W(n)[i] = 0 /\ Cycle(n) * 0 = 0
          BY <1>a, Zero
        <5> QED
          BY <5>2
      <4> QED
        BY <2>3, <3>1, <4>1, <4>2
    <3>2. CASE ~done
      BY <2>1, <2>3, <3>2 DEF Level
    <3> QED
      BY <3>1, <3>2
  <2> HIDE DEF r, k, done
  <2>6. SumOf(r) = 0 /\ \A i \in 1..N : r[i] > -Cycle(n)
    BY <2>1, <2>3 DEF Level
  <2>7. /\ r \in Seq(Int) /\ Len(r) = Len(Routes[n]) /\ SumOf(r) = 0
        /\ k \in 0..(Cycle(n) - 1)
        /\ \A i \in 1..Len(Routes[n]) :
              /\ r[i] > -Cycle(n)
              /\ r[i] = k * W(n)[i] - Cycle(n) * (IF done THEN 0 ELSE Picked(n, i))
    BY <2>2, <2>3, <2>4, <2>5, <2>6
  <2> QED
    BY <2>7 DEF r, k, done
<1> QED
  BY <1>1, <1>2

\* A selection, when the route has the selector to itself.
LEMMA SelectLevel ==
    ASSUME ShareInv, NEW n \in Names, pure \in {n, "none"}, Select(n)
    PROVE  Level(n)' /\ pure' = n /\ picks' \in [Entries -> Nat] /\ turn' \in Nat
<1> DEFINE N == Len(Routes[n])
           T == Cycle(n)
           done == turn = T
           k == IF done THEN 0 ELSE turn
           r == Resized(Routes[n])
           f == Raised(n, Routes[n])
           b == Best(f)
           e == <<n, Routes[n][b]>>
           got(i) == IF done THEN 0 ELSE Picked(n, i)
<1>0. /\ N \in Nat \ {0} /\ DOMAIN Routes[n] = 1..N
      /\ W(n) \in Seq(Int) /\ Len(W(n)) = N /\ T = SumOf(W(n)) /\ T \in Nat
  BY WeightFacts DEF ShareInv
<1>1. \A i \in 1..N : /\ <<n, Routes[n][i]>> \in Entries
                      /\ W(n)[i] = weight[<<n, Routes[n][i]>>]
                      /\ W(n)[i] \in Nat /\ Picked(n, i) \in Nat
  BY WeightFacts DEF ShareInv
<1>2. Healthy(n) = Routes[n]
  BY AllHealthy, WeightsAssumption DEF ShareInv
<1>3. /\ T > 0 /\ UNCHANGED weight
      /\ currentWeights' = [f EXCEPT ![b] = @ - T]
      /\ Counted(n, e)
  BY <1>2 DEF Select, Lowered, Cycle
<1>4. /\ r \in Seq(Int) /\ Len(r) = N /\ SumOf(r) = 0 /\ k \in 0..(T - 1)
      /\ \A i \in 1..N : r[i] > -T /\ r[i] = k * W(n)[i] - T * got(i)
  BY <1>3, Resumes
<1>5. f = [i \in 1..N |-> r[i] + W(n)[i]]
  BY <1>0, <1>1 DEF Raised
<1>6. UNCHANGED <<W(n), T>>
  BY <1>3 DEF W, Cycle, Total
<1>7. /\ pure' = n /\ turn' = k + 1
      /\ picks' = [IF done THEN NoPicks ELSE picks EXCEPT ![e] = @ + 1]
  BY <1>3, <1>4 DEF Counted
<1>8. picks \in [Entries -> Nat] /\ NoPicks \in [Entries -> Nat]
  BY DEF ShareInv, ShareTypes, NoPicks
<1> HIDE DEF r, f, T, k, N
<1>9. f \in Seq(Int) /\ Len(f) = N /\ \A i \in 1..N : f[i] = r[i] + W(n)[i] /\ f[i] \in Int
  <2>1. ASSUME NEW i \in 1..N PROVE r[i] \in Int /\ W(n)[i] \in Int
    <3>1. W(n)[i] \in Nat
      BY <1>1
    <3>2. r[i] \in Int
      BY <1>4
    <3> QED
      BY <3>1, <3>2
  <2>2. f \in [1..N -> Int] /\ \A i \in 1..N : f[i] = r[i] + W(n)[i]
    BY <1>5, <2>1
  <2> QED
    BY <1>0, <2>2
<1>10. SumOf(f) = T
  <2>1. SumOf(f) = SumOf(r) + SumOf(W(n))
    <3>1. /\ Len(W(n)) = Len(r) /\ Len(f) = Len(r)
          /\ \A i \in 1..Len(r) : f[i] = r[i] + W(n)[i]
      BY <1>0, <1>4, <1>9
    <3> QED
      BY <1>0, <1>4, <1>9, <3>1, SumAdd
  <2> QED
    BY <1>0, <1>4, <2>1
<1>11. b \in 1..N /\ f[b] > 0
  <2>1. f # <<>> /\ SumOf(f) > 0
    BY <1>0, <1>3, <1>9, <1>10
  <2> QED
    BY <1>9, <2>1, BestFacts
<1> HIDE DEF b
<1>12. /\ currentWeights' \in Seq(Int) /\ Len(currentWeights') = N
       /\ currentWeights'[b] = f[b] + (-T)
       /\ \A i \in 1..N : i # b => currentWeights'[i] = f[i]
  BY <1>0, <1>3, <1>9, <1>11
<1>13. SumOf(currentWeights') = 0
  <2>1. SumOf(currentWeights') = SumOf(f) + (-T)
    <3>1. /\ Len(currentWeights') = Len(f) /\ b \in 1..Len(f) /\ -T \in Int
          /\ \A i \in 1..Len(f) : i # b => currentWeights'[i] = f[i]
      BY <1>0, <1>9, <1>11, <1>12
    <3> QED
      BY <1>9, <1>12, <3>1, SumChange
  <2> QED
    BY <1>0, <1>10, <2>1
<1>14. \A i \in 1..N : currentWeights'[i] > -T
  <2>1. ASSUME NEW i \in 1..N PROVE currentWeights'[i] > -T
    <3>1. CASE i = b
      BY <1>0, <1>9, <1>11, <1>12, <3>1
    <3>2. CASE i # b
      <4>1. currentWeights'[i] = r[i] + W(n)[i]
        BY <1>9, <1>12, <3>2
      <4>2. r[i] > -T /\ W(n)[i] \in Nat
        BY <1>1, <1>4
      <4>3. r[i] \in Int
        BY <1>4
      <4> QED
        BY <1>0, <4>1, <4>2, <4>3
    <3> QED
      BY <3>1, <3>2
  <2> QED
    BY <2>1
<1>15. /\ picks' \in [Entries -> Nat]
       /\ \A i \in 1..N : Picked(n, i)' = IF i = b THEN got(i) + 1 ELSE got(i)
  <2>1. e \in Entries /\ \A i \in 1..N : i # b => <<n, Routes[n][i]>> # e
    BY <1>0, <1>1, <1>11, RoutesAssumption DEF IsInjective
  <2>2. picks' \in [Entries -> Nat]
    BY <1>7, <1>8, <2>1
  <2>3. ASSUME NEW i \in 1..N PROVE Picked(n, i)' = IF i = b THEN got(i) + 1 ELSE got(i)
    BY <1>1, <1>7, <1>8, <2>1 DEF Picked, NoPicks
  <2> QED
    BY <2>2, <2>3
<1>16. ASSUME NEW i \in 1..N PROVE currentWeights'[i] = turn' * W(n)[i] - T * Picked(n, i)'
  <2> DEFINE w == W(n)[i]
             g == got(i)
  <2>1. w \in Nat /\ g \in Nat
    BY <1>1
  <2>2. k \in Nat /\ f[i] = (k * w - T * g) + w
    BY <1>0, <1>4, <1>9
  <2> HIDE DEF w, g
  <2> DEFINE A == k * w
             B == T * g
             A1 == (k + 1) * w
             B1 == T * (g + 1)
  <2>3. A1 = A + w /\ B1 = B + T /\ A \in Nat /\ B \in Nat
    <3>1. k \in Nat /\ T \in Nat
      BY <1>0, <2>2
    <3>2. A \in Nat /\ B \in Nat
      BY <2>1, <3>1, Product
    <3>3. A1 = A + w
      BY <2>1, <3>1
    <3>4. B1 = B + T
      BY <2>1, <3>1
    <3> QED
      BY <3>2, <3>3, <3>4
  <2>4. f[i] = (A - B) + w
    BY <2>2
  <2> HIDE DEF A, B, A1, B1
  <2>5. CASE i = b
    <3>1. currentWeights'[i] = f[i] + (-T) /\ Picked(n, i)' = g + 1
      BY <1>12, <1>15, <2>5 DEF g
    <3>2. f[i] + (-T) = A1 - B1
      BY <1>0, <2>1, <2>3, <2>4
    <3> QED
      BY <1>7, <3>1, <3>2 DEF w, A1, B1
  <2>6. CASE i # b
    <3>1. currentWeights'[i] = f[i] /\ Picked(n, i)' = g
      BY <1>12, <1>15, <2>6 DEF g
    <3>2. f[i] = A1 - B
      BY <1>0, <2>1, <2>3, <2>4
    <3> QED
      BY <1>7, <3>1, <3>2 DEF w, A1, B
  <2> QED
    BY <2>5, <2>6
<1>17. turn' \in 1..T /\ turn' \in Nat
  BY <1>0, <1>4, <1>7
<1>18. Level(n)'
  <2>1. W(n)' = W(n) /\ Cycle(n)' = T
    BY <1>6 DEF T
  <2> QED
    BY <1>12, <1>13, <1>14, <1>16, <1>17, <2>1 DEF Level, N
<1> QED
  BY <1>7, <1>15, <1>17, <1>18

\* Whatever else happens: the history says mixed, or nothing has changed.
LEMMA QuietShare ==
    ASSUME ShareInv, weight' = weight, DOMAIN healthy' = Addrs,
           \/ Mixed
           \/ /\ UNCHANGED <<currentWeights, pure, picks, turn>>
              /\ healthy' = healthy \/ \A a \in Addrs : healthy'[a] = TRUE
    PROVE  ShareInv'
<1>1. CASE Mixed
  <2>1. NoPicks \in [Entries -> Nat]
    BY DEF NoPicks
  <2>2. ShareTypes'
    BY <1>1, <2>1 DEF Mixed, ShareInv, ShareTypes
  <2> QED
    BY <1>1, <2>2, WeightsAssumption DEF Mixed, ShareInv
<1>2. CASE /\ UNCHANGED <<currentWeights, pure, picks, turn>>
           /\ healthy' = healthy \/ \A a \in Addrs : healthy'[a] = TRUE
  <2>1. ShareTypes'
    BY <1>2 DEF ShareInv, ShareTypes
  <2>2. \A n \in Names : Level(n) => Level(n)'
    BY <1>2 DEF Level, W, Picked, Cycle, Total
  <2> QED
    BY <1>2, <2>1, <2>2 DEF ShareInv
<1> QED
  BY <1>1, <1>2

LEMMA NextShare ==
    ASSUME ShareInv, [SelectorsNext]_selectorVars
    PROVE  ShareInv'
<1>1. CASE UseWeights
  <2>1. PICK n \in Names : Select(n) \/ SelectFirst(n)
    BY <1>1 DEF UseWeights
  <2>2. UNCHANGED <<healthy, weight>>
    BY <1>1, <2>1 DEF UseWeights, routerVars, Select, SelectFirst
  <2>3. CASE Select(n) /\ pure \in {n, "none"}
    <3>1. Level(n)' /\ pure' = n /\ picks' \in [Entries -> Nat] /\ turn' \in Nat
      BY <2>3, SelectLevel
    <3>2. ShareTypes'
      BY <2>2, <3>1 DEF ShareInv, ShareTypes
    <3>3. \A a \in Addrs : healthy'[a] = TRUE
      BY <2>2, <2>3, WeightsAssumption DEF ShareInv
    <3> QED
      BY <3>1, <3>2, <3>3, WeightsAssumption DEF ShareInv
  <2>4. CASE SelectFirst(n) \/ (Select(n) /\ pure \notin {n, "none"})
    <3>1. Mixed
      BY <2>4 DEF Select, SelectFirst
    <3> QED
      BY <2>2, <3>1, QuietShare DEF ShareInv, ShareTypes
  <2> QED
    BY <2>1, <2>3, <2>4
<1>2. CASE UpdateBackendHealth
  <2>1. Mixed /\ weight' = weight /\ DOMAIN healthy' = Addrs
    BY <1>2 DEF UpdateBackendHealth, SetHealth, ShareInv, ShareTypes
  <2> QED
    BY <2>1, QuietShare
<1>3. CASE Reload
  <2>1. UNCHANGED <<weight, currentWeights, pure, picks, turn>> /\ healthy' = [a \in Addrs |-> TRUE]
    BY <1>3 DEF Reload, SwapRule, shareVars, histVars
  <2> QED
    BY <2>1, QuietShare
<1>4. CASE UseRing \/ UseKey \/ UNCHANGED selectorVars
  <2>1. UNCHANGED <<weight, currentWeights, pure, picks, turn, healthy>>
    BY <1>4 DEF UseRing, UseKey, selectorVars, shareVars, histVars, routerVars
  <2> QED
    BY <2>1, QuietShare DEF ShareInv, ShareTypes
<1> QED
  BY <1>1, <1>2, <1>3, <1>4 DEF SelectorsNext

\* Backends get their shares (WeightedRR.Select): for any routes and weights,
\* while one route has the selector to itself and its backends stay healthy,
\* a cycle selects every backend exactly as often as its weight says, and
\* nobody is a whole turn ahead of its share.
THEOREM SharesAreExact == SelectorsSpec => []FairShares
<1>1. ShareInv => FairShares
  <2> SUFFICES ASSUME ShareInv, NEW n \in Names, pure = n
               PROVE  /\ turn = Cycle(n) => \A e \in Entries : e[1] = n => picks[e] = weight[e]
                      /\ \A i \in DOMAIN currentWeights :
                           /\ currentWeights[i] > -Cycle(n)
                           /\ currentWeights[i] < Len(Routes[n]) * Cycle(n)
    BY DEF FairShares, ExactShare, Balanced
  <2>0. Level(n) /\ ShareTypes
    BY DEF ShareInv
  <2>1. /\ Len(Routes[n]) \in Nat \ {0} /\ DOMAIN Routes[n] = 1..Len(Routes[n])
        /\ \A i \in 1..Len(Routes[n]) : W(n)[i] = weight[<<n, Routes[n][i]>>]
        /\ Cycle(n) \in Nat \ {0}
    BY <2>0, WeightFacts DEF Level
  <2>2. ASSUME turn = Cycle(n), NEW e \in Entries, e[1] = n PROVE picks[e] = weight[e]
    <3>1. PICK i \in 1..Len(Routes[n]) : e = <<n, Routes[n][i]>>
      BY <2>1, <2>2 DEF Entries, Range
    <3>2. Picked(n, i) = W(n)[i]
      BY <2>0, <2>2, CycleEnds
    <3> QED
      BY <2>1, <3>1, <3>2 DEF Picked
  <2>3. ASSUME NEW b \in DOMAIN currentWeights
        PROVE  /\ currentWeights[b] > -Cycle(n)
               /\ currentWeights[b] < Len(Routes[n]) * Cycle(n)
    <3> DEFINE N == Len(Routes[n])
               T == Cycle(n)
               c == currentWeights
               t == [i \in 1..N |-> T]
               u == [i \in 1..N |-> c[i] + T]
    <3>1. /\ c \in Seq(Int) /\ Len(c) = N /\ SumOf(c) = 0 /\ b \in 1..N
          /\ \A i \in 1..N : c[i] > -T /\ c[i] \in Int
      BY <2>0 DEF Level
    <3> HIDE DEF T, c
    <3>2. T \in Nat \ {0} /\ N \in Nat
      BY <2>1 DEF T
    <3>3. /\ t \in Seq(Int) /\ Len(t) = N /\ \A i \in 1..N : t[i] = T
          /\ u \in Seq(Int) /\ Len(u) = N /\ \A i \in 1..N : u[i] = c[i] + t[i] /\ u[i] = c[i] + T
      BY <3>1, <3>2
    <3> HIDE DEF t, u, N
    <3>4. SumOf(t) = N * T
      <4>1. T \in Int /\ \A i \in 1..Len(t) : t[i] = T
        BY <3>2, <3>3
      <4>2. SumOf(t) = Len(t) * T
        BY <3>3, <4>1, SumOfEqual
      <4> QED
        BY <3>3, <4>2
    <3>5. SumOf(u) = SumOf(c) + SumOf(t)
      <4>1. Len(t) = Len(c) /\ Len(u) = Len(c) /\ \A i \in 1..Len(c) : u[i] = c[i] + t[i]
        BY <3>1, <3>3
      <4> QED
        BY <3>1, <3>3, <4>1, SumAdd
    <3>6. \A i \in 1..Len(u) : u[i] >= 0
      BY <3>1, <3>2, <3>3
    <3>7. u[b] <= SumOf(u)
      BY <3>1, <3>3, <3>6, SumBounds
    <3>8. N * T \in Nat
      BY <3>2, Product
    <3>9. c[b] < N * T
      <4>1. c[b] \in Int /\ u[b] = c[b] + T
        BY <3>1, <3>3
      <4>2. PICK z \in Nat : z = N * T
        BY <3>8
      <4>3. SumOf(u) = 0 + z
        BY <3>1, <3>4, <3>5, <4>2
      <4>4. c[b] + T <= z
        BY <3>7, <4>1, <4>3
      <4> QED
        BY <3>2, <4>1, <4>2, <4>4
    <3> QED
      BY <3>1, <3>9 DEF c, T, N
  <2> QED
    BY <2>2, <2>3
<1> QED
  BY <1>1, InitShare, NextShare, PTL DEF SelectorsSpec

-----------------------------------------------------------------------------
(* The radix tree: paths.                                                  *)

\* s is a prefix of t, character by character.
Pre(s, t) == Len(s) <= Len(t) /\ \A i \in 1..Len(s) : s[i] = t[i]

\* t is s followed by u.
Joins(s, u, t) ==
    /\ Len(t) = Len(s) + Len(u)
    /\ \A i \in 1..Len(s) : t[i] = s[i]
    /\ \A i \in 1..Len(u) : t[Len(s) + i] = u[i]

LEMMA PrefixIsPre ==
    ASSUME NEW s \in Seq(Chars), NEW t \in Seq(Chars)
    PROVE  IsPrefix(s, t) <=> Pre(s, t)
<1>0. Len(s) \in Nat /\ Len(t) \in Nat
  OBVIOUS
<1>1. CASE ~(Len(s) <= Len(t))
  BY <1>1 DEF IsPrefix, Pre
<1>2. CASE Len(s) <= Len(t)
  <2>1. SubSeq(s, 1, Len(s)) = [i \in 1..Len(s) |-> s[i]]
    BY <1>0
  <2>2. SubSeq(t, 1, Len(s)) = [i \in 1..Len(s) |-> t[i]]
    BY <1>0, <1>2
  <2>3. (SubSeq(s, 1, Len(s)) = SubSeq(t, 1, Len(s))) <=> \A i \in 1..Len(s) : s[i] = t[i]
    BY <2>1, <2>2
  <2> QED
    BY <1>2, <2>3 DEF IsPrefix, Pre
<1> QED
  BY <1>1, <1>2

LEMMA DropFacts ==
    ASSUME NEW s \in Seq(Chars), NEW k \in 0..Len(s)
    PROVE  /\ Drop(s, k) \in Seq(Chars) /\ Len(Drop(s, k)) = Len(s) - k
           /\ \A i \in 1..(Len(s) - k) : Drop(s, k)[i] = s[k + i]
BY DEF Drop

\* commonPrefix stops at the first difference.
LEMMA CommonFacts ==
    ASSUME NEW a \in Seq(Chars), NEW b \in Seq(Chars)
    PROVE  /\ commonPrefix(a, b) \in 0..Len(a) /\ commonPrefix(a, b) <= Len(b)
           /\ \A i \in 1..commonPrefix(a, b) : a[i] = b[i]
           /\ \/ commonPrefix(a, b) = Len(a) \/ commonPrefix(a, b) = Len(b)
              \/ a[commonPrefix(a, b) + 1] # b[commonPrefix(a, b) + 1]
<1>0. Len(a) \in Nat /\ Len(b) \in Nat
  OBVIOUS
<1> DEFINE Stop == {i \in 0..Len(a) : i >= Len(a) \/ i >= Len(b) \/ a[i + 1] # b[i + 1]}
<1>1. Stop \in SUBSET Nat /\ Stop # {}
  <2>1. Len(a) \in Stop
    BY <1>0
  <2> QED
    BY <2>1
<1>2. PICK m \in Stop : \A n \in Stop : m <= n
  BY <1>1, LeastElement
<1>3. m \in 0..Len(a) /\ m \in Nat /\ (m >= Len(a) \/ m >= Len(b) \/ a[m + 1] # b[m + 1])
  OBVIOUS
<1>4. ASSUME NEW j \in 0..(m - 1) PROVE j < Len(a) /\ j < Len(b) /\ a[j + 1] = b[j + 1]
  <2>1. j \in 0..Len(a) /\ j \in Nat /\ ~(m <= j)
    BY <1>0, <1>3
  <2>2. j \notin Stop
    BY <1>2, <2>1
  <2> QED
    BY <1>0, <2>1, <2>2
<1>5. m <= Len(b)
  <2>1. CASE m = 0
    BY <1>0, <2>1
  <2>2. CASE m > 0
    <3>1. m - 1 \in 0..(m - 1)
      BY <1>3, <2>2
    <3> QED
      BY <1>0, <1>3, <1>4, <3>1
  <2> QED
    BY <1>3, <2>1, <2>2
<1>6. \A i \in 1..m : a[i] = b[i]
  <2> TAKE i \in 1..m
  <2>1. i - 1 \in 0..(m - 1) /\ (i - 1) + 1 = i
    BY <1>3
  <2> QED
    BY <1>4, <2>1
<1>7. m = Len(a) \/ m = Len(b) \/ a[m + 1] # b[m + 1]
  BY <1>0, <1>3, <1>5
<1>8. \E x \in 0..Len(a) : /\ x <= Len(b) /\ \A i \in 1..x : a[i] = b[i]
                           /\ x = Len(a) \/ x = Len(b) \/ a[x + 1] # b[x + 1]
  BY <1>3, <1>5, <1>6, <1>7
<1> QED
  BY <1>8 DEF commonPrefix

-----------------------------------------------------------------------------
(* The radix tree: walks.  A walk goes from x in More to next[x], whose     *)
(* rank is lower, until it leaves More.                                    *)

Walk(X, rank, More, next, N) ==
    /\ N \in Nat
    /\ \A x \in X : rank[x] \in Nat /\ rank[x] <= N
    /\ \A x \in X : x \in More => next[x] \in X /\ rank[next[x]] < rank[x]

\* Some function satisfies the recursion of Descend, ...
LEMMA WalkDefined ==
    ASSUME NEW X, NEW rank, NEW More, NEW next,
           NEW N, Walk(X, rank, More, next, N)
    PROVE  \E g : \A x \in X : g[x] = IF x \in More THEN g[next[x]] ELSE x
<1> USE DEF Walk
<1> DEFINE Good(m) == \E g : \A x \in X : rank[x] <= m =>
                         g[x] = IF x \in More THEN g[next[x]] ELSE x
           S == {m \in 0..N : Good(m)}
<1>1. 0 \in S
  <2> DEFINE g == [x \in X |-> x]
  <2>1. \A x \in X : rank[x] <= 0 => x \notin More
    OBVIOUS
  <2>2. \A x \in X : rank[x] <= 0 => g[x] = IF x \in More THEN g[next[x]] ELSE x
    BY <2>1
  <2>3. Good(0)
    BY <2>2
  <2> HIDE DEF Good
  <2> QED
    BY <2>3
<1>2. ASSUME NEW m \in 1..N, m - 1 \in S PROVE m \in S
  <2>1. PICK g : \A x \in X : rank[x] <= m - 1 =>
                    g[x] = IF x \in More THEN g[next[x]] ELSE x
    BY <1>2
  <2> DEFINE f == [x \in X |-> IF rank[x] <= m - 1 THEN g[x]
                               ELSE IF x \in More THEN g[next[x]] ELSE x]
  <2>2. ASSUME NEW x \in X, rank[x] <= m PROVE f[x] = IF x \in More THEN f[next[x]] ELSE x
    <3>1. f[x] = IF x \in More THEN g[next[x]] ELSE x
      BY <2>1
    <3>2. x \in More => f[next[x]] = g[next[x]]
      <4> SUFFICES ASSUME x \in More PROVE f[next[x]] = g[next[x]]
        OBVIOUS
      <4>1. next[x] \in X /\ rank[next[x]] < rank[x] /\ rank[next[x]] \in Nat /\ rank[x] \in Nat
        OBVIOUS
      <4>2. rank[next[x]] <= m - 1
        BY <2>2, <4>1
      <4> QED
        BY <4>1, <4>2
    <3> QED
      BY <3>1, <3>2
  <2> HIDE DEF f
  <2>3. Good(m)
    BY <2>2
  <2> HIDE DEF Good
  <2> QED
    BY <2>3
<1>3. N \in S
  <2> HIDE DEF S
  <2>1. \A i \in 0..N : i \in S
    BY <1>1, <1>2, Induction
  <2> QED
    BY <2>1
<1>4. PICK g : \A x \in X : rank[x] <= N => g[x] = IF x \in More THEN g[next[x]] ELSE x
  BY <1>3
<1> QED
  BY <1>4

\* ... and that of Lookup.
LEMMA CollectDefined ==
    ASSUME NEW X, NEW rank, NEW More, NEW next, NEW own,
           NEW N, Walk(X, rank, More, next, N)
    PROVE  \E g : \A x \in X : g[x] = IF x \in More THEN own[x] \o g[next[x]] ELSE own[x]
<1> USE DEF Walk
<1> DEFINE Good(m) == \E g : \A x \in X : rank[x] <= m =>
                         g[x] = IF x \in More THEN own[x] \o g[next[x]] ELSE own[x]
           S == {m \in 0..N : Good(m)}
<1>1. 0 \in S
  <2> DEFINE g == [x \in X |-> own[x]]
  <2>1. \A x \in X : rank[x] <= 0 => x \notin More
    OBVIOUS
  <2>2. \A x \in X : rank[x] <= 0 => g[x] = IF x \in More THEN own[x] \o g[next[x]] ELSE own[x]
    BY <2>1
  <2>3. Good(0)
    BY <2>2
  <2> HIDE DEF Good
  <2> QED
    BY <2>3
<1>2. ASSUME NEW m \in 1..N, m - 1 \in S PROVE m \in S
  <2>1. PICK g : \A x \in X : rank[x] <= m - 1 =>
                    g[x] = IF x \in More THEN own[x] \o g[next[x]] ELSE own[x]
    BY <1>2
  <2> DEFINE f == [x \in X |-> IF rank[x] <= m - 1 THEN g[x]
                               ELSE IF x \in More THEN own[x] \o g[next[x]] ELSE own[x]]
  <2>2. ASSUME NEW x \in X, rank[x] <= m
        PROVE  f[x] = IF x \in More THEN own[x] \o f[next[x]] ELSE own[x]
    <3>1. f[x] = IF x \in More THEN own[x] \o g[next[x]] ELSE own[x]
      BY <2>1
    <3>2. x \in More => f[next[x]] = g[next[x]]
      <4> SUFFICES ASSUME x \in More PROVE f[next[x]] = g[next[x]]
        OBVIOUS
      <4>1. next[x] \in X /\ rank[next[x]] < rank[x] /\ rank[next[x]] \in Nat /\ rank[x] \in Nat
        OBVIOUS
      <4>2. rank[next[x]] <= m - 1
        BY <2>2, <4>1
      <4> QED
        BY <4>1, <4>2
    <3> HIDE DEF f
    <3> QED
      BY <3>1, <3>2
  <2> HIDE DEF f
  <2>3. Good(m)
    BY <2>2
  <2> HIDE DEF Good
  <2> QED
    BY <2>3
<1>3. N \in S
  <2> HIDE DEF S
  <2>1. \A i \in 0..N : i \in S
    BY <1>1, <1>2, Induction
  <2> QED
    BY <2>1
<1>4. PICK g : \A x \in X : rank[x] <= N =>
                  g[x] = IF x \in More THEN own[x] \o g[next[x]] ELSE own[x]
  BY <1>3
<1> QED
  BY <1>4

-----------------------------------------------------------------------------
(* The radix tree: its shape.                                              *)

Route == [id : Nat, kind : {"prefix", "exact", "regex"}, path : Seq(Chars), only : BOOLEAN]
TreeNode == [path : Seq(Chars), routes : Seq(Route), children : SUBSET Nat]

\* The tree ns is a tree: every node but the root is the child of one node, and
\* loc[n], the characters on the way to n, goes on from loc of its parent; two
\* children of a node differ in their first character.
Shape(ns, loc) ==
    /\ ns \in Seq(TreeNode) /\ Len(ns) >= 1
    /\ loc \in [1..Len(ns) -> Seq(Chars)] /\ loc[1] = <<>>
    /\ \A n \in 1..Len(ns) : \A c \in ns[n].children :
          c \in 2..Len(ns) /\ ns[c].path # <<>> /\ Joins(loc[n], ns[c].path, loc[c])
    /\ \A n \in 1..Len(ns) : \A c, d \in ns[n].children :
          c # d => ns[c].path[1] # ns[d].path[1]
    /\ \A m, n \in 1..Len(ns) : \A c \in ns[n].children : c \in ns[m].children => m = n
    /\ \A c \in 2..Len(ns) : \E n \in 1..Len(ns) : c \in ns[n].children

\* A place that the path q leads to.
On(loc, p, q) ==
    p \in Places(q) /\ p[2] = Len(loc[p[1]]) /\ Pre(loc[p[1]], q)

LEMMA NodeFacts ==
    ASSUME NEW ns, NEW loc, Shape(ns, loc), NEW n \in 1..Len(ns)
    PROVE  /\ Len(ns) \in Nat /\ DOMAIN ns = 1..Len(ns)
           /\ ns[n] \in TreeNode /\ loc[n] \in Seq(Chars) /\ Len(loc[n]) \in Nat
           /\ ns[n].path \in Seq(Chars) /\ ns[n].routes \in Seq(Route)
<1>1. ns \in Seq(TreeNode) /\ loc \in [1..Len(ns) -> Seq(Chars)]
  BY DEF Shape
<1>2. Len(ns) \in Nat /\ DOMAIN ns = 1..Len(ns) /\ ns[n] \in TreeNode
  BY <1>1
<1>3. loc[n] \in Seq(Chars)
  BY <1>1
<1>4. ns[n].path \in Seq(Chars) /\ ns[n].routes \in Seq(Route)
  BY <1>2 DEF TreeNode
<1> QED
  BY <1>2, <1>3, <1>4

\* A child lies deeper, and is one of the tree.
LEMMA ChildFacts ==
    ASSUME NEW ns, NEW loc, Shape(ns, loc), NEW n \in 1..Len(ns), NEW c \in ns[n].children
    PROVE  /\ c \in 1..Len(ns) /\ c # 1 /\ c # n
           /\ ns[c].path \in Seq(Chars) /\ Len(ns[c].path) \in Nat /\ Len(ns[c].path) > 0
           /\ Joins(loc[n], ns[c].path, loc[c])
<1>1. c \in 2..Len(ns) /\ ns[c].path # <<>> /\ Joins(loc[n], ns[c].path, loc[c])
  BY DEF Shape
<1>2. c \in 1..Len(ns) /\ c # 1
  BY <1>1
<1>3. ns[c].path \in Seq(Chars) /\ Len(ns[c].path) \in Nat /\ Len(ns[c].path) > 0
  BY <1>1, <1>2, NodeFacts
<1>4. Len(loc[n]) \in Nat /\ Len(loc[c]) = Len(loc[n]) + Len(ns[c].path)
  BY <1>1, NodeFacts DEF Joins
<1>5. c # n
  <2> SUFFICES ASSUME c = n PROVE FALSE
    OBVIOUS
  <2>1. PICK i \in Nat : i = Len(loc[n])
    BY <1>4
  <2>2. PICK j \in Nat : j = Len(ns[c].path)
    BY <1>3
  <2>3. i = i + j
    BY <1>4, <2>1, <2>2, Zenon
  <2>4. j > 0
    BY <1>3, <2>2
  <2> QED
    BY ONLY i \in Nat, j \in Nat, <2>3, <2>4
<1> QED
  BY <1>1, <1>2, <1>3, <1>5

\* Two children of a node whose paths begin like q are one.
LEMMA OneChild ==
    ASSUME NEW ns, NEW loc, Shape(ns, loc), NEW n \in 1..Len(ns),
           NEW c \in ns[n].children, NEW d \in ns[n].children,
           ns[c].path[1] = ns[d].path[1]
    PROVE  c = d
BY DEF Shape

\* A child whose path is a prefix of the rest of q is on the way.
LEMMA StepOn ==
    ASSUME NEW loc, Shape(nodes, loc), NEW q \in Seq(Chars), NEW p, On(loc, p, q),
           NEW c \in nodes[p[1]].children, Pre(nodes[c].path, Drop(q, p[2]))
    PROVE  On(loc, Step(p, c), q) /\ p[2] < Step(p, c)[2] /\ Step(p, c)[2] <= Len(q)
<1>0. Len(q) \in Nat
  OBVIOUS
<1>1. /\ DOMAIN nodes = 1..Len(nodes) /\ p \in (1..Len(nodes)) \X (0..Len(q))
      /\ p[1] \in 1..Len(nodes) /\ p[2] \in 0..Len(q)
  BY NodeFacts DEF On, Places, Shape
<1>2. /\ c \in 1..Len(nodes) /\ Len(nodes[c].path) \in Nat /\ Len(nodes[c].path) > 0
      /\ Joins(loc[p[1]], nodes[c].path, loc[c])
  BY <1>1, ChildFacts
<1>3. /\ Len(Drop(q, p[2])) = Len(q) - p[2]
      /\ \A i \in 1..(Len(q) - p[2]) : Drop(q, p[2])[i] = q[p[2] + i]
  BY <1>1, DropFacts
<1>4. p[2] + Len(nodes[c].path) \in 0..Len(q) /\ p[2] < p[2] + Len(nodes[c].path)
  <2>1. Len(nodes[c].path) <= Len(q) - p[2]
    BY <1>3 DEF Pre
  <2>2. PICK i, j, k \in Nat : i = p[2] /\ j = Len(nodes[c].path) /\ k = Len(q)
    BY <1>0, <1>1, <1>2
  <2>3. j <= k - i /\ j > 0
    BY <1>2, <2>1, <2>2
  <2>4. i + j \in 0..k /\ i < i + j
    BY ONLY i \in Nat, j \in Nat, k \in Nat, <2>3
  <2> QED
    BY <2>2, <2>4
<1>5. Len(loc[c]) = p[2] + Len(nodes[c].path)
  BY <1>2 DEF Joins, On
<1>6. \A i \in 1..Len(loc[c]) : loc[c][i] = q[i]
  <2> TAKE i \in 1..Len(loc[c])
  <2>1. CASE i <= p[2]
    <3>1. i \in 1..Len(loc[p[1]])
      BY <2>1 DEF On
    <3>2. loc[c][i] = loc[p[1]][i]
      BY <1>2, <3>1 DEF Joins
    <3>3. loc[p[1]][i] = q[i]
      BY <3>1 DEF On, Pre
    <3> QED
      BY <3>2, <3>3
  <2>2. CASE i > p[2]
    <3>1. PICK j \in 1..Len(nodes[c].path) : i = p[2] + j
      <4>1. i - p[2] \in 1..Len(nodes[c].path) /\ i = p[2] + (i - p[2])
        BY <1>1, <1>2, <1>5, <2>2
      <4> QED
        BY <4>1
    <3>2. loc[c][i] = nodes[c].path[j]
      BY <1>2, <3>1 DEF Joins, On
    <3>3. nodes[c].path[j] = Drop(q, p[2])[j]
      BY <3>1 DEF Pre
    <3>4. j \in 1..(Len(q) - p[2])
      <4>1. Len(nodes[c].path) <= Len(q) - p[2]
        BY <1>3 DEF Pre
      <4> QED
        BY <1>0, <1>1, <1>2, <3>1, <4>1
    <3> QED
      BY <1>3, <3>1, <3>2, <3>3, <3>4
  <2> QED
    BY <1>1, <2>1, <2>2
<1>7. Pre(loc[c], q)
  BY <1>0, <1>4, <1>5, <1>6 DEF Pre
<1>8. Step(p, c)[1] = c /\ Step(p, c)[2] = p[2] + Len(nodes[c].path)
  BY DEF Step
<1>9. Step(p, c) \in Places(q)
  BY <1>1, <1>2, <1>4 DEF Step, Places
<1>10. On(loc, Step(p, c), q)
  BY <1>5, <1>7, <1>8, <1>9 DEF On
<1> QED
  BY <1>0, <1>1, <1>4, <1>8, <1>10

\* Onward is a child that is on the way.
LEMMA OnwardFacts ==
    ASSUME NEW loc, Shape(nodes, loc), NEW q \in Seq(Chars), NEW p \in Places(q),
           NEW c \in Onward(p, q)
    PROVE  /\ c \in nodes[p[1]].children /\ Pre(nodes[c].path, Drop(q, p[2]))
           /\ p[1] \in 1..Len(nodes) /\ p[2] \in 0..Len(q)
<1>1. DOMAIN nodes = 1..Len(nodes)
  BY DEF Shape
<1>2. p[1] \in 1..Len(nodes) /\ p[2] \in 0..Len(q)
  BY <1>1 DEF Places
<1>3. /\ c \in nodes[p[1]].children
      /\ commonPrefix(Drop(q, p[2]), nodes[c].path) = Len(nodes[c].path)
  BY DEF Onward, findChild
<1>4. nodes[c].path \in Seq(Chars) /\ Drop(q, p[2]) \in Seq(Chars)
  BY <1>2, <1>3, ChildFacts, DropFacts
<1>5. Pre(nodes[c].path, Drop(q, p[2]))
  <2>1. PICK v \in Seq(Chars) : v = nodes[c].path
    BY <1>4
  <2>2. PICK u \in Seq(Chars) : u = Drop(q, p[2])
    BY <1>4
  <2>3. commonPrefix(u, v) = Len(v)
    BY <1>3, <2>1, <2>2
  <2>4. Len(v) \in 0..Len(u) /\ \A i \in 1..Len(v) : u[i] = v[i]
    BY <2>3, CommonFacts
  <2>5. Pre(v, u)
    BY <2>4 DEF Pre
  <2> QED
    BY <2>1, <2>2, <2>5
<1> QED
  BY <1>2, <1>3, <1>5

\* One step of a walk stays in the tree and takes some of the path.
LEMMA StepRank ==
    ASSUME NEW loc, Shape(nodes, loc), NEW q \in Seq(Chars), NEW p \in Places(q),
           NEW c \in nodes[p[1]].children, Pre(nodes[c].path, Drop(q, p[2]))
    PROVE  Step(p, c) \in Places(q) /\ Len(q) - Step(p, c)[2] < Len(q) - p[2]
<1>0. Len(q) \in Nat /\ DOMAIN nodes = 1..Len(nodes)
  BY DEF Shape
<1>1. p[1] \in 1..Len(nodes) /\ p[2] \in 0..Len(q)
  BY <1>0 DEF Places
<1>2. c \in 1..Len(nodes) /\ Len(nodes[c].path) \in Nat /\ Len(nodes[c].path) > 0
  BY <1>1, ChildFacts
<1>3. Len(Drop(q, p[2])) = Len(q) - p[2]
  BY <1>1, DropFacts
<1>4. p[2] + Len(nodes[c].path) \in 0..Len(q) /\ p[2] < p[2] + Len(nodes[c].path)
  <2>1. Len(nodes[c].path) <= Len(q) - p[2]
    BY <1>3 DEF Pre
  <2>2. PICK i, j, k \in Nat : i = p[2] /\ j = Len(nodes[c].path) /\ k = Len(q)
    BY <1>0, <1>1, <1>2
  <2>3. j <= k - i /\ j > 0
    BY <1>2, <2>1, <2>2
  <2>4. i + j \in 0..k /\ i < i + j
    BY ONLY i \in Nat, j \in Nat, k \in Nat, <2>3
  <2> QED
    BY <2>2, <2>4
<1>5. Step(p, c)[1] = c /\ Step(p, c)[2] = p[2] + Len(nodes[c].path)
  BY DEF Step
<1>6. Step(p, c) \in Places(q)
  BY <1>0, <1>2, <1>4 DEF Step, Places
<1> QED
  BY <1>0, <1>1, <1>4, <1>5, <1>6

LEMMA RootOn ==
    ASSUME NEW loc, Shape(nodes, loc), NEW q \in Seq(Chars)
    PROVE  On(loc, <<1, 0>>, q)
<1>1. Len(q) \in Nat /\ DOMAIN nodes = 1..Len(nodes) /\ 1 \in 1..Len(nodes)
  BY DEF Shape
<1>2. <<1, 0>> \in Places(q)
  BY <1>1 DEF Places
<1>3. loc[1] = <<>> /\ Len(loc[1]) = 0
  BY DEF Shape
<1> QED
  BY <1>1, <1>2, <1>3 DEF On, Pre

\* findOrCreateNode goes down as far as the path leads.
LEMMA DescendFacts ==
    ASSUME NEW loc, Shape(nodes, loc), NEW q \in Seq(Chars)
    PROVE  On(loc, Descend(q), q) /\ Onward(Descend(q), q) = {}
<1> DEFINE X == Places(q)
           rank == [p \in X |-> Len(q) - p[2]]
           More == {p \in X : Onward(p, q) # {}}
           next == [p \in X |-> Step(p, CHOOSE c \in Onward(p, q) : TRUE)]
           from[p \in X] == IF Onward(p, q) = {} THEN p
                            ELSE from[Step(p, CHOOSE c \in Onward(p, q) : TRUE)]
<1>0. Len(q) \in Nat /\ DOMAIN nodes = 1..Len(nodes)
  BY DEF Shape
<1>1. ASSUME NEW p \in X PROVE p[2] \in 0..Len(q) /\ rank[p] \in Nat /\ rank[p] <= Len(q)
  BY <1>0 DEF Places
<1>2. ASSUME NEW p \in X, p \in More
      PROVE  /\ next[p] \in X /\ rank[next[p]] < rank[p]
             /\ On(loc, p, q) => On(loc, next[p], q)
  <2>1. PICK c \in Onward(p, q) : next[p] = Step(p, c)
    BY <1>2
  <2>2. c \in nodes[p[1]].children /\ Pre(nodes[c].path, Drop(q, p[2]))
    BY <2>1, OnwardFacts
  <2>3. Step(p, c) \in X /\ Len(q) - Step(p, c)[2] < Len(q) - p[2]
    BY <2>2, StepRank
  <2>4. On(loc, p, q) => On(loc, Step(p, c), q)
    BY <2>2, StepOn
  <2> QED
    BY <2>1, <2>3, <2>4
<1>3. \E g : \A p \in X : g[p] = IF p \in More THEN g[next[p]] ELSE p
  <2>1. Walk(X, rank, More, next, Len(q))
    BY <1>0, <1>1, <1>2 DEF Walk
  <2> HIDE DEF X, rank, More, next
  <2> QED
    BY <2>1, WalkDefined
<1>4. \E g : g = [p \in X |-> IF Onward(p, q) = {} THEN p
                              ELSE g[Step(p, CHOOSE c \in Onward(p, q) : TRUE)]]
  <2>1. PICK g : \A p \in X : g[p] = IF p \in More THEN g[next[p]] ELSE p
    BY <1>3
  <2> DEFINE f == [p \in X |-> g[p]]
  <2>2. \A p \in X : f[p] = IF p \in More THEN f[next[p]] ELSE p
    BY <1>2, <2>1
  <2>3. \A p \in X : f[p] = IF Onward(p, q) = {} THEN p
                            ELSE f[Step(p, CHOOSE c \in Onward(p, q) : TRUE)]
    BY <2>2
  <2>4. f = [p \in X |-> IF Onward(p, q) = {} THEN p
                         ELSE f[Step(p, CHOOSE c \in Onward(p, q) : TRUE)]]
    BY <2>3
  <2> QED
    BY <2>4
<1>5. from = [p \in X |-> IF Onward(p, q) = {} THEN p
                          ELSE from[Step(p, CHOOSE c \in Onward(p, q) : TRUE)]]
  BY <1>4
<1>6. Descend(q) = from[<<1, 0>>]
  BY DEF Descend
<1> HIDE DEF from
<1> DEFINE Good(p) == On(loc, from[p], q) /\ Onward(from[p], q) = {}
           Bad == {p \in X : On(loc, p, q) /\ ~Good(p)}
           Ranks == {rank[p] : p \in Bad}
<1>7. Bad = {}
  <2> SUFFICES ASSUME Bad # {} PROVE FALSE
    OBVIOUS
  <2>1. Ranks \in SUBSET Nat /\ Ranks # {}
    BY <1>1
  <2>2. PICK m \in Ranks : \A n \in Ranks : m <= n
    BY <2>1, LeastElement
  <2>3. PICK p \in Bad : m = rank[p]
    BY <2>2
  <2>4. p \in X /\ On(loc, p, q) /\ ~Good(p)
    BY <2>3
  <2>5. CASE p \in More
    <3>1. /\ next[p] \in X /\ rank[next[p]] < rank[p] /\ On(loc, next[p], q)
      BY <1>2, <2>4, <2>5
    <3>2. from[p] = from[next[p]]
      BY <1>5, <2>4, <2>5
    <3>3. next[p] \in Bad
      BY <2>4, <3>1, <3>2
    <3>4. rank[next[p]] \in Ranks /\ rank[next[p]] \in Nat /\ rank[p] \in Nat
      BY <1>1, <2>4, <3>1, <3>3
    <3>5. rank[p] <= rank[next[p]]
      BY <2>2, <2>3, <3>4
    <3> HIDE DEF rank, next
    <3> QED
      BY <3>1, <3>4, <3>5
  <2>6. CASE p \notin More
    <3>1. Onward(p, q) = {}
      BY <2>4, <2>6
    <3>2. from[p] = p
      BY <1>5, <2>4, <3>1
    <3> QED
      BY <2>4, <3>1, <3>2
  <2> QED
    BY <2>5, <2>6
<1>8. On(loc, <<1, 0>>, q)
  BY RootOn
<1>9. <<1, 0>> \in X
  BY <1>8 DEF On
<1>10. Good(<<1, 0>>)
  <2> HIDE DEF Good, X
  <2> QED
    BY <1>7, <1>8, <1>9
<1> QED
  BY <1>6, <1>10

-----------------------------------------------------------------------------
(* The radix tree: insertion keeps its shape.                              *)

Longer(loc, s, l) == [d \in 1..s |-> IF d = s THEN l ELSE loc[d]]

\* ts is ns with a new child s of node n, with a first character of its own.
NewChild(ns, loc, n, ts, s, l) ==
    /\ ts \in Seq(TreeNode) /\ s = Len(ns) + 1 /\ Len(ts) = s /\ l \in Seq(Chars)
    /\ \A d \in 1..Len(ns) : ts[d].path = ns[d].path
    /\ \A d \in 1..Len(ns) : d # n => ts[d].children = ns[d].children
    /\ ts[n].children = ns[n].children \cup {s}
    /\ ts[s].path # <<>> /\ ts[s].children = {} /\ Joins(loc[n], ts[s].path, l)
    /\ \A d \in ns[n].children : ns[d].path[1] # ts[s].path[1]

\* ts is ns with a new node s between n and its child c.
NewBetween(ns, loc, n, c, ts, s, l) ==
    /\ ts \in Seq(TreeNode) /\ s = Len(ns) + 1 /\ Len(ts) = s /\ l \in Seq(Chars)
    /\ \A d \in 1..Len(ns) : d # c => ts[d].path = ns[d].path
    /\ \A d \in 1..Len(ns) : d # n => ts[d].children = ns[d].children
    /\ ts[n].children = (ns[n].children \ {c}) \cup {s}
    /\ ts[s].path # <<>> /\ ts[s].children = {c} /\ ts[c].path # <<>>
    /\ Joins(loc[n], ts[s].path, l) /\ Joins(l, ts[c].path, loc[c])
    /\ ts[s].path[1] = ns[c].path[1]

LEMMA LongerFacts ==
    ASSUME NEW ns, NEW loc, Shape(ns, loc), NEW l \in Seq(Chars), NEW s, s = Len(ns) + 1
    PROVE  /\ ns \in Seq(TreeNode) /\ Len(ns) \in Nat /\ Len(ns) >= 1
           /\ s \in Nat /\ s \notin 1..Len(ns) /\ 1..s = 1..Len(ns) \cup {s} /\ s \in 2..s
           /\ Longer(loc, s, l) \in [1..s -> Seq(Chars)] /\ Longer(loc, s, l)[s] = l
           /\ \A d \in 1..Len(ns) : Longer(loc, s, l)[d] = loc[d]
           /\ Longer(loc, s, l)[1] = <<>>
<1>1. /\ ns \in Seq(TreeNode) /\ Len(ns) \in Nat /\ Len(ns) >= 1
      /\ loc \in [1..Len(ns) -> Seq(Chars)] /\ loc[1] = <<>>
  BY DEF Shape
<1>2. s \in Nat /\ s \notin 1..Len(ns) /\ 1..s = 1..Len(ns) \cup {s} /\ s \in 2..s
  BY <1>1
<1>3. \A d \in 1..s : d # s => loc[d] \in Seq(Chars)
  BY <1>1, <1>2
<1>4. Longer(loc, s, l) \in [1..s -> Seq(Chars)] /\ Longer(loc, s, l)[s] = l
  BY <1>2, <1>3 DEF Longer
<1>5. \A d \in 1..Len(ns) : Longer(loc, s, l)[d] = loc[d]
  BY <1>2 DEF Longer
<1>6. 1 \in 1..Len(ns)
  BY <1>1
<1> QED
  BY <1>1, <1>2, <1>4, <1>5, <1>6

LEMMA GrowShape ==
    ASSUME NEW ns, NEW loc, Shape(ns, loc), NEW n \in 1..Len(ns),
           NEW ts, NEW s, NEW l, NewChild(ns, loc, n, ts, s, l)
    PROVE  Shape(ts, Longer(loc, s, l))
<1> DEFINE way == Longer(loc, s, l)
<1>0. /\ ts \in Seq(TreeNode) /\ s = Len(ns) + 1 /\ Len(ts) = s /\ l \in Seq(Chars)
      /\ ts[s].path # <<>> /\ ts[s].children = {} /\ Joins(loc[n], ts[s].path, l)
  BY DEF NewChild
<1>1. Len(ns) \in Nat /\ Len(ns) >= 1
  BY <1>0, LongerFacts
<1>2. s \in Nat /\ s \notin 1..Len(ns) /\ 1..s = 1..Len(ns) \cup {s} /\ s \in 2..s
  BY <1>0, LongerFacts
<1>4. way[s] = l
  BY <1>0, LongerFacts
<1>5. \A d \in 1..Len(ns) : way[d] = loc[d]
  BY <1>0, LongerFacts
<1>6. way \in [1..s -> Seq(Chars)] /\ way[1] = <<>>
  BY <1>0, LongerFacts
<1> HIDE DEF way
<1>3. /\ \A d \in 1..Len(ns) : ts[d].path = ns[d].path
      /\ \A d \in ns[n].children : ns[d].path[1] # ts[s].path[1]
  BY DEF NewChild
<1>c. /\ \A d \in 1..Len(ns) : d # n => ts[d].children = ns[d].children
      /\ ts[n].children = ns[n].children \cup {s}
  BY DEF NewChild
<1>7. ASSUME NEW m \in 1..s, NEW c \in ts[m].children
      PROVE  /\ m \in 1..Len(ns)
             /\ (c = s /\ m = n) \/ (c \in ns[m].children /\ c \in 2..Len(ns) /\ c # s)
  <2>1. m \in 1..Len(ns)
    BY <1>0, <1>2, <1>7
  <2>2. c \in ns[m].children => c \in 2..Len(ns) /\ c # s
    BY <1>2, <2>1 DEF Shape
  <2>3. c \in ns[m].children \/ (c = s /\ m = n)
    BY <1>7, <1>c, <2>1
  <2> QED
    BY <2>1, <2>2, <2>3
<1>8. ASSUME NEW m \in 1..s, NEW c \in ts[m].children
      PROVE  c \in 2..s /\ ts[c].path # <<>> /\ Joins(way[m], ts[c].path, way[c])
  <2>1. CASE c = s /\ m = n
    BY <1>0, <1>2, <1>4, <1>5, <2>1
  <2>2. CASE c \in ns[m].children /\ c \in 2..Len(ns)
    <3>1. m \in 1..Len(ns) /\ c \in 1..Len(ns) /\ c \in 2..s
      BY <1>1, <1>2, <1>7, <1>8, <2>2
    <3>2. ns[c].path # <<>> /\ Joins(loc[m], ns[c].path, loc[c])
      BY <2>2, <3>1 DEF Shape
    <3> QED
      BY <1>3, <1>5, <3>1, <3>2
  <2> QED
    BY <1>7, <1>8, <2>1, <2>2
<1>9. ASSUME NEW m \in 1..s, NEW c \in ts[m].children, NEW d \in ts[m].children, c # d
      PROVE  ts[c].path[1] # ts[d].path[1]
  <2>1. /\ m \in 1..Len(ns)
        /\ (c = s /\ m = n) \/ (c \in ns[m].children /\ c \in 1..Len(ns))
        /\ (d = s /\ m = n) \/ (d \in ns[m].children /\ d \in 1..Len(ns))
    BY <1>1, <1>7, <1>9
  <2>2. CASE c \in ns[m].children /\ c \in 1..Len(ns) /\ d \in ns[m].children /\ d \in 1..Len(ns)
    <3>1. ns[c].path[1] # ns[d].path[1]
      BY <1>9, <2>1, <2>2, OneChild
    <3> QED
      BY <1>3, <2>2, <3>1
  <2>3. CASE c = s \/ d = s
    BY <1>2, <1>3, <1>9, <2>1, <2>3
  <2> QED
    BY <2>1, <2>2, <2>3
<1>10. ASSUME NEW m \in 1..s, NEW k \in 1..s, NEW c \in ts[k].children, c \in ts[m].children
       PROVE  m = k
  <2>1. /\ m \in 1..Len(ns) /\ k \in 1..Len(ns)
        /\ (c = s /\ m = n) \/ (c \in ns[m].children /\ c # s)
        /\ (c = s /\ k = n) \/ (c \in ns[k].children /\ c # s)
    BY <1>7, <1>10
  <2> QED
    BY <2>1 DEF Shape
<1>11. ASSUME NEW c \in 2..s PROVE \E m \in 1..s : c \in ts[m].children
  <2>1. CASE c = s
    BY <1>2, <1>c, <2>1
  <2>2. CASE c # s
    <3>1. c \in 2..Len(ns)
      BY <1>0, <1>1, <2>2
    <3>2. PICK m \in 1..Len(ns) : c \in ns[m].children
      BY <3>1 DEF Shape
    <3> QED
      BY <1>2, <1>c, <3>2
  <2> QED
    BY <2>1, <2>2
<1>12. ts \in Seq(TreeNode) /\ Len(ts) >= 1 /\ way \in [1..Len(ts) -> Seq(Chars)] /\ way[1] = <<>>
  BY <1>0, <1>2, <1>6
<1>13. \A m \in 1..Len(ts) : \A c \in ts[m].children :
          c \in 2..Len(ts) /\ ts[c].path # <<>> /\ Joins(way[m], ts[c].path, way[c])
  BY <1>0, <1>8
<1>14. \A m \in 1..Len(ts) : \A c, d \in ts[m].children :
          c # d => ts[c].path[1] # ts[d].path[1]
  BY <1>0, <1>9
<1>15. \A m, k \in 1..Len(ts) : \A c \in ts[k].children : c \in ts[m].children => m = k
  BY <1>0, <1>10
<1>16. \A c \in 2..Len(ts) : \E m \in 1..Len(ts) : c \in ts[m].children
  BY <1>0, <1>11
<1>17. Shape(ts, way)
  BY <1>12, <1>13, <1>14, <1>15, <1>16 DEF Shape
<1> QED
  BY <1>17 DEF way

LEMMA CutShape ==
    ASSUME NEW ns, NEW loc, Shape(ns, loc), NEW n \in 1..Len(ns), NEW c \in ns[n].children,
           NEW ts, NEW s, NEW l, NewBetween(ns, loc, n, c, ts, s, l)
    PROVE  Shape(ts, Longer(loc, s, l))
<1> DEFINE way == Longer(loc, s, l)
<1>0. /\ ts \in Seq(TreeNode) /\ s = Len(ns) + 1 /\ Len(ts) = s /\ l \in Seq(Chars)
      /\ ts[s].path # <<>> /\ ts[s].children = {c} /\ ts[c].path # <<>>
      /\ Joins(loc[n], ts[s].path, l) /\ Joins(l, ts[c].path, loc[c])
      /\ ts[s].path[1] = ns[c].path[1]
  BY DEF NewBetween
<1>y. s = Len(ns) + 1 /\ l \in Seq(Chars)
  BY <1>0
<1>1. Len(ns) \in Nat /\ Len(ns) >= 1
  BY <1>y, LongerFacts
<1>2. s \in Nat /\ s \notin 1..Len(ns) /\ 1..s = 1..Len(ns) \cup {s} /\ s \in 2..s
  BY <1>y, LongerFacts
<1>4. way[s] = l
  BY <1>y, LongerFacts
<1>5. \A d \in 1..Len(ns) : way[d] = loc[d]
  BY <1>y, LongerFacts
<1>6. way \in [1..s -> Seq(Chars)] /\ way[1] = <<>>
  BY <1>y, LongerFacts
<1> HIDE DEF way
<1>3. \A d \in 1..Len(ns) : d # c => ts[d].path = ns[d].path
  BY DEF NewBetween
<1>x. /\ \A d \in 1..Len(ns) : d # n => ts[d].children = ns[d].children
      /\ ts[n].children = (ns[n].children \ {c}) \cup {s}
  BY DEF NewBetween
<1>c. c \in 2..Len(ns) /\ c \in 1..Len(ns) /\ c # n /\ c # s
  BY <1>1, <1>2, ChildFacts
<1>7. ASSUME NEW m \in 1..s, NEW d \in ts[m].children
      PROVE  \/ m = s /\ d = c
             \/ m = n /\ d = s
             \/ m \in 1..Len(ns) /\ m # s /\ d \in ns[m].children /\ d # c /\ d \in 2..Len(ns) /\ d # s
  <2>1. CASE m = s
    BY <1>0, <1>7, <2>1
  <2>2. CASE m \in 1..Len(ns)
    <3>1. d \in ns[m].children => d \in 2..Len(ns) /\ d # s
      BY <1>2, <2>2 DEF Shape
    <3>2. d \in ns[m].children /\ d = c => m = n
      BY <2>2 DEF Shape
    <3>3. CASE m = n
      BY <1>2, <1>7, <1>x, <2>2, <3>1, <3>3
    <3>4. CASE m # n
      BY <1>2, <1>7, <1>x, <2>2, <3>1, <3>2, <3>4
    <3> QED
      BY <3>3, <3>4
  <2> QED
    BY <1>2, <2>1, <2>2
<1>8. ASSUME NEW m \in 1..s, NEW d \in ts[m].children
      PROVE  d \in 2..s /\ ts[d].path # <<>> /\ Joins(way[m], ts[d].path, way[d])
  <2>1. CASE m = s /\ d = c
    <3>1. way[d] = loc[c] /\ way[m] = l
      BY <1>4, <1>5, <1>c, <2>1
    <3>2. d \in 2..s
      BY <1>1, <1>2, <1>c, <2>1
    <3> QED
      BY <1>0, <2>1, <3>1, <3>2
  <2>2. CASE m = n /\ d = s
    BY <1>0, <1>2, <1>4, <1>5, <2>2
  <2>3. CASE m \in 1..Len(ns) /\ d \in ns[m].children /\ d # c /\ d \in 2..Len(ns)
    <3>1. m \in 1..Len(ns) /\ d \in 1..Len(ns) /\ d \in 2..s
      BY <1>1, <1>2, <2>3
    <3>2. ns[d].path # <<>> /\ Joins(loc[m], ns[d].path, loc[d])
      BY <2>3, <3>1 DEF Shape
    <3> QED
      BY <1>3, <1>5, <2>3, <3>1, <3>2
  <2> QED
    BY <1>7, <1>8, <2>1, <2>2, <2>3
<1>9. ASSUME NEW m \in 1..s, NEW d \in ts[m].children, NEW e \in ts[m].children, d # e
      PROVE  ts[d].path[1] # ts[e].path[1]
  <2>1. CASE m = s
    BY <1>0, <1>9, <2>1
  <2>2. CASE m # s
    <3>1. /\ m \in 1..Len(ns)
          /\ (m = n /\ d = s) \/ (d \in ns[m].children /\ d # c /\ d \in 1..Len(ns))
          /\ (m = n /\ e = s) \/ (e \in ns[m].children /\ e # c /\ e \in 1..Len(ns))
      BY <1>1, <1>2, <1>7, <1>9, <2>2
    <3>2. CASE d # s /\ e # s
      <4>1. ns[d].path[1] # ns[e].path[1]
        BY <1>9, <3>1, <3>2, OneChild
      <4> QED
        BY <1>3, <3>1, <3>2, <4>1
    <3>3. CASE d = s
      <4>1. m = n /\ e \in ns[m].children /\ e # c /\ e \in 1..Len(ns)
        BY <1>2, <1>9, <3>1, <3>3
      <4>2. ns[e].path[1] # ns[c].path[1]
        BY <4>1 DEF Shape
      <4> QED
        BY <1>0, <1>3, <3>3, <4>1, <4>2
    <3>4. CASE e = s
      <4>1. m = n /\ d \in ns[m].children /\ d # c /\ d \in 1..Len(ns)
        BY <1>2, <1>9, <3>1, <3>4
      <4>2. ns[d].path[1] # ns[c].path[1]
        BY <4>1 DEF Shape
      <4> QED
        BY <1>0, <1>3, <3>4, <4>1, <4>2
    <3> QED
      BY <3>2, <3>3, <3>4
  <2> QED
    BY <2>1, <2>2
<1>10. ASSUME NEW m \in 1..s, NEW k \in 1..s, NEW d \in ts[k].children, d \in ts[m].children
       PROVE  m = k
  <2>1. \/ m = s /\ d = c
        \/ m = n /\ d = s
        \/ m \in 1..Len(ns) /\ d \in ns[m].children /\ d # c /\ d # s
    BY <1>7, <1>10
  <2>2. \/ k = s /\ d = c
        \/ k = n /\ d = s
        \/ k \in 1..Len(ns) /\ d \in ns[k].children /\ d # c /\ d # s
    BY <1>7, <1>10
  <2> QED
    BY <1>c, <2>1, <2>2 DEF Shape
<1>11. ASSUME NEW d \in 2..s PROVE \E m \in 1..s : d \in ts[m].children
  <2>1. CASE d = s
    BY <1>2, <1>x, <2>1
  <2>2. CASE d = c
    BY <1>0, <1>2, <2>2
  <2>3. CASE d # s /\ d # c
    <3>1. d \in 2..Len(ns)
      BY <1>0, <1>1, <2>3
    <3>2. PICK m \in 1..Len(ns) : d \in ns[m].children
      BY <3>1 DEF Shape
    <3>3. m \in 1..s /\ d \in ts[m].children
      BY <1>2, <1>x, <2>3, <3>2
    <3> QED
      BY <3>3
  <2> QED
    BY <2>1, <2>2, <2>3
<1>12. ts \in Seq(TreeNode) /\ Len(ts) >= 1 /\ way \in [1..Len(ts) -> Seq(Chars)] /\ way[1] = <<>>
  BY <1>0, <1>2, <1>6
<1>13. \A m \in 1..Len(ts) : \A d \in ts[m].children :
          d \in 2..Len(ts) /\ ts[d].path # <<>> /\ Joins(way[m], ts[d].path, way[d])
  BY <1>0, <1>8
<1>14. \A m \in 1..Len(ts) : \A d, e \in ts[m].children :
          d # e => ts[d].path[1] # ts[e].path[1]
  BY <1>0, <1>9
<1>15. \A m, k \in 1..Len(ts) : \A d \in ts[k].children : d \in ts[m].children => m = k
  BY <1>0, <1>10
<1>16. \A d \in 2..Len(ts) : \E m \in 1..Len(ts) : d \in ts[m].children
  BY <1>0, <1>11
<1>17. Shape(ts, way)
  BY <1>12, <1>13, <1>14, <1>15, <1>16 DEF Shape
<1> QED
  BY <1>17 DEF way

-----------------------------------------------------------------------------
(* The radix tree: the routes it holds.                                    *)

\* A route lies at its path, or at its path without a final slash.
Lies(r, l) == Rooted(r.path) = l \/ Rooted(r.path) = Append(l, Slash)

\* Every route of rs is held by the tree ns, once, where it lies.
Held(ns, rs, loc) ==
    /\ rs \in Seq(Route)
    /\ \A k \in 1..Len(rs) : rs[k].id = k /\ (rs[k].kind = "regex" => rs[k].path = <<>>)
    /\ \A n \in 1..Len(ns) : \A i \in 1..Len(ns[n].routes) :
          /\ ns[n].routes[i].id \in 1..Len(rs) /\ ns[n].routes[i] = rs[ns[n].routes[i].id]
          /\ Lies(ns[n].routes[i], loc[n])
    /\ \A m, n \in 1..Len(ns) :
          \A i \in 1..Len(ns[m].routes) : \A j \in 1..Len(ns[n].routes) :
             ns[m].routes[i].id = ns[n].routes[j].id => m = n /\ i = j
    /\ \A k \in 1..Len(rs) :
          \E n \in 1..Len(ns) : \E i \in 1..Len(ns[n].routes) : ns[n].routes[i].id = k

\* ts is ns with the route r added at node t.
Takes(ns, ts, t, r) ==
    /\ Len(ns) <= Len(ts) /\ t \in 1..Len(ts)
    /\ \A n \in 1..Len(ns) : n # t => ts[n].routes = ns[n].routes
    /\ \A n \in (Len(ns) + 1)..Len(ts) : n # t => ts[n].routes = <<>>
    /\ ts[t].routes = IF t \in 1..Len(ns) THEN Append(ns[t].routes, r) ELSE <<r>>

LEMMA HeldOnce ==
    ASSUME NEW ns, NEW rs, NEW loc, Held(ns, rs, loc), NEW m \in 1..Len(ns), NEW n \in 1..Len(ns),
           NEW i \in 1..Len(ns[m].routes), NEW j \in 1..Len(ns[n].routes),
           ns[m].routes[i].id = ns[n].routes[j].id
    PROVE  m = n /\ i = j
<1>1. \A x, y \in 1..Len(ns) : \A a \in 1..Len(ns[x].routes) : \A b \in 1..Len(ns[y].routes) :
         ns[x].routes[a].id = ns[y].routes[b].id => x = y /\ a = b
  BY DEF Held
<1> QED
  BY <1>1

LEMMA HeldGrows ==
    ASSUME NEW ns, NEW loc, NEW rs, Shape(ns, loc), Held(ns, rs, loc),
           NEW ts, NEW way, Shape(ts, way), \A n \in 1..Len(ns) : way[n] = loc[n],
           NEW r \in Route, r.id = Len(rs) + 1, r.kind = "regex" => r.path = <<>>,
           NEW t, Takes(ns, ts, t, r), Lies(r, way[t])
    PROVE  Held(ts, Append(rs, r), way)
<1> DEFINE hs == Append(rs, r)
           top == Len(ts[t].routes)
<1>1. rs \in Seq(Route) /\ Len(rs) \in Nat
  BY DEF Held
<1>2. hs \in Seq(Route) /\ Len(hs) = Len(rs) + 1
  BY <1>1
<1>3. hs[Len(rs) + 1] = r /\ \A k \in 1..Len(rs) : hs[k] = rs[k]
  BY <1>1
<1> HIDE DEF hs
<1>4. Len(ns) \in Nat /\ Len(ts) \in Nat /\ Len(ns) <= Len(ts) /\ t \in 1..Len(ts)
  BY DEF Shape, Takes
<1>5. \A n \in 1..Len(ns) : ns[n].routes \in Seq(Route)
  BY NodeFacts
<1>6. \A n \in 1..Len(ts) : ts[n].routes \in Seq(Route) /\ Len(ts[n].routes) \in Nat
  BY NodeFacts
<1>7. /\ top \in 1..top /\ ts[t].routes[top] = r
      /\ t \in 1..Len(ns) => /\ top = Len(ns[t].routes) + 1
                             /\ \A i \in 1..Len(ns[t].routes) : ts[t].routes[i] = ns[t].routes[i]
      /\ t \notin 1..Len(ns) => top = 1
  <2>1. CASE t \in 1..Len(ns)
    <3>1. PICK f \in Seq(Route) : f = ns[t].routes
      BY <1>5, <2>1
    <3>2. ts[t].routes = Append(f, r)
      BY <2>1, <3>1 DEF Takes
    <3>3. Len(Append(f, r)) = Len(f) + 1 /\ Len(f) \in Nat /\ Append(f, r)[Len(f) + 1] = r
      OBVIOUS
    <3>4. \A i \in 1..Len(f) : Append(f, r)[i] = f[i]
      OBVIOUS
    <3>5. Len(f) + 1 \in 1..(Len(f) + 1)
      BY <3>3
    <3> QED
      BY <2>1, <3>1, <3>2, <3>3, <3>4, <3>5
  <2>2. CASE t \notin 1..Len(ns)
    <3>1. ts[t].routes = <<r>>
      BY <2>2 DEF Takes
    <3> QED
      BY <2>2, <3>1
  <2> QED
    BY <2>1, <2>2
<1> HIDE DEF top
<1>8. ASSUME NEW n \in 1..Len(ts), NEW i \in 1..Len(ts[n].routes)
      PROVE  \/ n = t /\ i = top
             \/ /\ n \in 1..Len(ns) /\ i \in 1..Len(ns[n].routes)
                /\ ts[n].routes[i] = ns[n].routes[i]
  <2>1. CASE n # t /\ n \in 1..Len(ns)
    BY <2>1 DEF Takes
  <2>2. CASE n # t /\ n \notin 1..Len(ns)
    <3>1. n \in (Len(ns) + 1)..Len(ts)
      BY <1>4, <2>2
    <3>2. ts[n].routes = <<>>
      BY <2>2, <3>1 DEF Takes
    <3> QED
      BY <3>2
  <2>3. CASE n = t /\ t \in 1..Len(ns)
    <3>1. Len(ns[t].routes) \in Nat
      BY <1>5, <2>3
    <3>2. i = top \/ i \in 1..Len(ns[t].routes)
      BY <1>7, <2>3, <3>1 DEF top
    <3> QED
      BY <1>7, <2>3, <3>2
  <2>4. CASE n = t /\ t \notin 1..Len(ns)
    BY <1>7, <2>4 DEF top
  <2> QED
    BY <2>1, <2>2, <2>3, <2>4
<1>9. ASSUME NEW n \in 1..Len(ns), NEW i \in 1..Len(ns[n].routes)
      PROVE  /\ n \in 1..Len(ts) /\ i \in 1..Len(ts[n].routes)
             /\ ts[n].routes[i] = ns[n].routes[i]
  <2>1. n \in 1..Len(ts)
    BY <1>4
  <2>2. CASE n # t
    BY <2>1, <2>2 DEF Takes
  <2>3. CASE n = t
    <3>1. Len(ns[t].routes) \in Nat
      BY <1>5, <2>3
    <3> QED
      BY <1>7, <2>1, <2>3, <3>1 DEF top
  <2> QED
    BY <2>2, <2>3
<1>10. \A k \in 1..Len(hs) : hs[k].id = k /\ (hs[k].kind = "regex" => hs[k].path = <<>>)
  <2> TAKE k \in 1..Len(hs)
  <2>1. CASE k = Len(rs) + 1
    BY <1>3, <2>1
  <2>2. CASE k # Len(rs) + 1
    <3>1. k \in 1..Len(rs)
      BY <1>1, <1>2, <2>2
    <3>2. rs[k].id = k /\ (rs[k].kind = "regex" => rs[k].path = <<>>)
      BY <3>1 DEF Held
    <3> QED
      BY <1>3, <3>1, <3>2
  <2> QED
    BY <2>1, <2>2
<1>11. ASSUME NEW n \in 1..Len(ns), NEW i \in 1..Len(ns[n].routes)
       PROVE  /\ ns[n].routes[i].id \in 1..Len(rs) /\ ns[n].routes[i] = rs[ns[n].routes[i].id]
              /\ Lies(ns[n].routes[i], loc[n]) /\ ns[n].routes[i].id # r.id
  <2>1. /\ ns[n].routes[i].id \in 1..Len(rs) /\ ns[n].routes[i] = rs[ns[n].routes[i].id]
        /\ Lies(ns[n].routes[i], loc[n])
    BY DEF Held
  <2>2. ns[n].routes[i].id # r.id
    BY <1>1, <2>1
  <2> QED
    BY <2>1, <2>2
<1>12. \A n \in 1..Len(ts) : \A i \in 1..Len(ts[n].routes) :
          /\ ts[n].routes[i].id \in 1..Len(hs) /\ ts[n].routes[i] = hs[ts[n].routes[i].id]
          /\ Lies(ts[n].routes[i], way[n])
  <2> TAKE n \in 1..Len(ts)
  <2> TAKE i \in 1..Len(ts[n].routes)
  <2>1. CASE n = t /\ i = top
    <3>1. ts[n].routes[i] = r
      BY <1>7, <2>1
    <3>2. r.id \in 1..Len(hs) /\ r = hs[r.id]
      BY <1>1, <1>2, <1>3
    <3> QED
      BY <2>1, <3>1, <3>2
  <2>2. CASE n \in 1..Len(ns) /\ i \in 1..Len(ns[n].routes) /\ ts[n].routes[i] = ns[n].routes[i]
    <3>1. PICK o : o = ns[n].routes[i]
      OBVIOUS
    <3>2. o.id \in 1..Len(rs) /\ o = rs[o.id] /\ Lies(o, loc[n])
      BY <1>11, <2>2, <3>1
    <3>3. o.id \in 1..Len(hs) /\ hs[o.id] = rs[o.id]
      BY <1>1, <1>2, <1>3, <3>2
    <3> QED
      BY <2>2, <3>1, <3>2, <3>3
  <2> QED
    BY <1>8, <2>1, <2>2
<1>13. \A m, n \in 1..Len(ts) :
          \A i \in 1..Len(ts[m].routes) : \A j \in 1..Len(ts[n].routes) :
             ts[m].routes[i].id = ts[n].routes[j].id => m = n /\ i = j
  <2> TAKE m, n \in 1..Len(ts)
  <2> TAKE i \in 1..Len(ts[m].routes)
  <2> TAKE j \in 1..Len(ts[n].routes)
  <2> HAVE ts[m].routes[i].id = ts[n].routes[j].id
  <2>1. CASE m = t /\ i = top /\ n = t /\ j = top
    BY <2>1
  <2>2. CASE m = t /\ i = top /\ n \in 1..Len(ns) /\ j \in 1..Len(ns[n].routes)
             /\ ts[n].routes[j] = ns[n].routes[j]
    <3>1. ts[m].routes[i].id = r.id /\ ns[n].routes[j].id # r.id
      BY <1>7, <1>11, <2>2
    <3> QED
      BY <2>2, <3>1
  <2>3. CASE n = t /\ j = top /\ m \in 1..Len(ns) /\ i \in 1..Len(ns[m].routes)
             /\ ts[m].routes[i] = ns[m].routes[i]
    <3>1. ts[n].routes[j].id = r.id /\ ns[m].routes[i].id # r.id
      BY <1>7, <1>11, <2>3
    <3> QED
      BY <2>3, <3>1
  <2>4. CASE /\ m \in 1..Len(ns) /\ i \in 1..Len(ns[m].routes) /\ ts[m].routes[i] = ns[m].routes[i]
             /\ n \in 1..Len(ns) /\ j \in 1..Len(ns[n].routes) /\ ts[n].routes[j] = ns[n].routes[j]
    <3>1. ns[m].routes[i].id = ns[n].routes[j].id
      BY <2>4
    <3>2. m \in 1..Len(ns) /\ n \in 1..Len(ns) /\ i \in 1..Len(ns[m].routes) /\ j \in 1..Len(ns[n].routes)
      BY <2>4
    <3>3. \A x, y \in 1..Len(ns) : \A a \in 1..Len(ns[x].routes) : \A b \in 1..Len(ns[y].routes) :
             ns[x].routes[a].id = ns[y].routes[b].id => x = y /\ a = b
      BY HeldOnce
    <3> QED
      BY ONLY <3>1, <3>2, <3>3
  <2> QED
    BY <1>8, <2>1, <2>2, <2>3, <2>4
<1>14. \A k \in 1..Len(hs) :
          \E n \in 1..Len(ts) : \E i \in 1..Len(ts[n].routes) : ts[n].routes[i].id = k
  <2> TAKE k \in 1..Len(hs)
  <2>1. CASE k = Len(rs) + 1
    BY <1>4, <1>7, <2>1 DEF top
  <2>2. CASE k # Len(rs) + 1
    <3>1. k \in 1..Len(rs)
      BY <1>1, <1>2, <2>2
    <3>2. PICK n \in 1..Len(ns) : \E i \in 1..Len(ns[n].routes) : ns[n].routes[i].id = k
      BY <3>1 DEF Held
    <3>3. PICK i \in 1..Len(ns[n].routes) : ns[n].routes[i].id = k
      BY <3>2
    <3> QED
      BY <1>9, <3>3
  <2> QED
    BY <2>1, <2>2
<1>15. Held(ts, hs, way)
  BY <1>2, <1>10, <1>12, <1>13, <1>14 DEF Held
<1> QED
  BY <1>15 DEF hs

-----------------------------------------------------------------------------
(* The radix tree: the insertion of one route.                             *)

LEMMA SameSeq ==
    ASSUME NEW s \in Seq(Chars), NEW t \in Seq(Chars), Len(s) = Len(t),
           \A i \in 1..Len(s) : s[i] = t[i]
    PROVE  s = t
OBVIOUS

\* What follows what decides the whole.
LEMMA JoinsOnce ==
    ASSUME NEW a \in Seq(Chars), NEW u \in Seq(Chars), NEW s \in Seq(Chars), NEW t \in Seq(Chars),
           Joins(a, u, s), Joins(a, u, t)
    PROVE  s = t
<1>1. Len(a) \in Nat /\ Len(u) \in Nat /\ Len(s) = Len(a) + Len(u) /\ Len(s) = Len(t)
  BY DEF Joins
<1>2. \A i \in 1..Len(s) : s[i] = t[i]
  <2> TAKE i \in 1..Len(s)
  <2>1. CASE i \in 1..Len(a)
    BY <2>1 DEF Joins
  <2>2. CASE i \notin 1..Len(a)
    <3>1. PICK j \in 1..Len(u) : i = Len(a) + j
      <4>1. i - Len(a) \in 1..Len(u) /\ i = Len(a) + (i - Len(a))
        BY <1>1, <2>2
      <4> QED
        BY <4>1
    <3> QED
      BY <3>1 DEF Joins
  <2> QED
    BY <2>1, <2>2
<1> QED
  BY <1>1, <1>2, SameSeq

LEMMA JoinsEnds ==
    ASSUME NEW a \in Seq(Chars), NEW u \in Seq(Chars), NEW t \in Seq(Chars), Joins(a, u, t), Ends(u)
    PROVE  t = a \/ t = Append(a, Slash)
<1>1. CASE u = <<>>
  <2>1. Joins(a, u, a)
    BY <1>1 DEF Joins
  <2> QED
    BY <2>1, JoinsOnce
<1>2. CASE u = <<Slash>>
  <2>1. Slash \in Chars
    BY PathsAssumption
  <2>2. Append(a, Slash) \in Seq(Chars) /\ Len(Append(a, Slash)) = Len(a) + 1 /\ Len(a) \in Nat
    BY <2>1
  <2>3. Len(u) = 1 /\ u[1] = Slash
    BY <1>2
  <2>4. \A i \in 1..Len(a) : Append(a, Slash)[i] = a[i]
    BY <2>1
  <2>5. Append(a, Slash)[Len(a) + 1] = Slash
    BY <2>1
  <2>6. Joins(a, u, Append(a, Slash))
    BY <2>2, <2>3, <2>4, <2>5 DEF Joins
  <2> QED
    BY <2>2, <2>6, JoinsOnce
<1> QED
  BY <1>1, <1>2 DEF Ends

\* A path can be cut in what follows.
LEMMA JoinsCut ==
    ASSUME NEW a \in Seq(Chars), NEW u \in Seq(Chars), NEW t \in Seq(Chars), Joins(a, u, t),
           NEW m \in 0..Len(u)
    PROVE  /\ SubSeq(t, 1, Len(a) + m) \in Seq(Chars)
           /\ SubSeq(u, 1, m) \in Seq(Chars) /\ Len(SubSeq(u, 1, m)) = m
           /\ \A i \in 1..m : SubSeq(u, 1, m)[i] = u[i]
           /\ Joins(a, SubSeq(u, 1, m), SubSeq(t, 1, Len(a) + m))
           /\ Joins(SubSeq(t, 1, Len(a) + m), Drop(u, m), t)
<1>1. Len(a) \in Nat /\ Len(u) \in Nat /\ Len(t) = Len(a) + Len(u) /\ m \in Nat /\ m <= Len(u)
  BY DEF Joins
<1>2. Len(a) + m \in 0..Len(t) /\ Len(t) \in Nat
  BY <1>1
<1>3. PICK b : b = SubSeq(t, 1, Len(a) + m)
  OBVIOUS
<1>4. b \in Seq(Chars) /\ Len(b) = Len(a) + m /\ \A i \in 1..(Len(a) + m) : b[i] = t[i]
  BY <1>2, <1>3
<1>5. PICK v : v = SubSeq(u, 1, m)
  OBVIOUS
<1>6. v \in Seq(Chars) /\ Len(v) = m /\ \A i \in 1..m : v[i] = u[i]
  BY <1>1, <1>5
<1>7. PICK w : w = Drop(u, m)
  OBVIOUS
<1>8. Len(w) = Len(u) - m /\ \A i \in 1..(Len(u) - m) : w[i] = u[m + i]
  BY <1>7, DropFacts
<1>9. Joins(a, v, b)
  <2>1. \A i \in 1..Len(a) : b[i] = a[i]
    <3> TAKE i \in 1..Len(a)
    <3>1. i \in 1..(Len(a) + m)
      BY <1>1
    <3> QED
      BY <1>4, <3>1 DEF Joins
  <2>2. \A i \in 1..m : b[Len(a) + i] = v[i]
    <3> TAKE i \in 1..m
    <3>1. i \in 1..Len(u) /\ Len(a) + i \in 1..(Len(a) + m)
      BY <1>1
    <3>2. t[Len(a) + i] = u[i]
      BY <3>1 DEF Joins
    <3> QED
      BY <1>4, <1>6, <3>1, <3>2
  <2> QED
    BY <1>4, <1>6, <2>1, <2>2 DEF Joins
<1>10. Joins(b, w, t)
  <2>1. Len(t) = Len(b) + Len(w)
    BY <1>1, <1>4, <1>8
  <2>2. \A i \in 1..Len(b) : t[i] = b[i]
    BY <1>4
  <2>3. \A i \in 1..Len(w) : t[Len(b) + i] = w[i]
    <3> TAKE i \in 1..Len(w)
    <3>1. m + i \in 1..Len(u) /\ i \in 1..(Len(u) - m)
      BY <1>1, <1>8
    <3>2. t[Len(a) + (m + i)] = u[m + i]
      BY <3>1 DEF Joins
    <3>3. Len(a) + (m + i) = Len(b) + i
      BY <1>1, <1>4, <3>1
    <3> QED
      BY <1>8, <3>1, <3>2, <3>3
  <2> QED
    BY <2>1, <2>2, <2>3 DEF Joins
<1> QED
  BY <1>3, <1>4, <1>5, <1>6, <1>7, <1>9, <1>10

\* What a place leaves of its path.
LEMMA OnJoins ==
    ASSUME NEW loc, Shape(nodes, loc), NEW q \in Seq(Chars), NEW p, On(loc, p, q)
    PROVE  /\ p[1] \in 1..Len(nodes) /\ p[2] \in 0..Len(q) /\ p[2] = Len(loc[p[1]])
           /\ Drop(q, p[2]) \in Seq(Chars) /\ Joins(loc[p[1]], Drop(q, p[2]), q)
<1>1. p[1] \in 1..Len(nodes) /\ p[2] \in 0..Len(q) /\ p[2] = Len(loc[p[1]])
  <2>1. DOMAIN nodes = 1..Len(nodes)
    BY DEF Shape
  <2> QED
    BY <2>1 DEF On, Places
<1>2. /\ Drop(q, p[2]) \in Seq(Chars) /\ Len(Drop(q, p[2])) = Len(q) - p[2]
      /\ \A i \in 1..(Len(q) - p[2]) : Drop(q, p[2])[i] = q[p[2] + i]
  BY <1>1, DropFacts
<1>3. \A i \in 1..Len(loc[p[1]]) : q[i] = loc[p[1]][i]
  BY DEF On, Pre
<1>4. Len(q) \in Nat /\ Len(q) = p[2] + Len(Drop(q, p[2]))
  BY <1>1, <1>2
<1> QED
  BY <1>1, <1>2, <1>3, <1>4 DEF Joins

LEMMA SameShape ==
    ASSUME NEW ns, NEW loc, Shape(ns, loc), NEW ts \in Seq(TreeNode), Len(ts) = Len(ns),
           \A d \in 1..Len(ns) : ts[d].path = ns[d].path /\ ts[d].children = ns[d].children
    PROVE  Shape(ts, loc)
<1>1. ASSUME NEW n \in 1..Len(ns), NEW c \in ts[n].children
      PROVE  /\ c \in ns[n].children /\ c \in 2..Len(ts) /\ ts[c].path = ns[c].path
             /\ ts[c].path # <<>> /\ Joins(loc[n], ts[c].path, loc[c])
  <2>1. c \in ns[n].children
    OBVIOUS
  <2>2. c \in 2..Len(ns) /\ ns[c].path # <<>> /\ Joins(loc[n], ns[c].path, loc[c])
    BY <2>1 DEF Shape
  <2>3. c \in 1..Len(ns)
    BY <2>1, ChildFacts
  <2> QED
    BY <2>1, <2>2, <2>3
<1>2. \A n \in 1..Len(ts) : \A c \in ts[n].children :
          c \in 2..Len(ts) /\ ts[c].path # <<>> /\ Joins(loc[n], ts[c].path, loc[c])
  BY <1>1
<1>3. \A n \in 1..Len(ts) : \A c, d \in ts[n].children :
          c # d => ts[c].path[1] # ts[d].path[1]
  BY <1>1, OneChild
<1>4. ts \in Seq(TreeNode) /\ Len(ts) >= 1 /\ loc \in [1..Len(ts) -> Seq(Chars)] /\ loc[1] = <<>>
  BY DEF Shape
<1>5. \A m, n \in 1..Len(ts) : \A c \in ts[n].children : c \in ts[m].children => m = n
  <2>1. \A m, n \in 1..Len(ns) : \A c \in ns[n].children : c \in ns[m].children => m = n
    BY DEF Shape
  <2> QED
    BY <2>1
<1>6. \A c \in 2..Len(ts) : \E n \in 1..Len(ts) : c \in ts[n].children
  <2>1. \A c \in 2..Len(ns) : \E n \in 1..Len(ns) : c \in ns[n].children
    BY DEF Shape
  <2> QED
    BY <2>1
<1> QED
  BY <1>2, <1>3, <1>4, <1>5, <1>6 DEF Shape

LEMMA RootedPath ==
    ASSUME NEW s \in Seq(Chars)
    PROVE  Rooted(s) \in Seq(Chars)
BY PathsAssumption DEF Rooted

\* The routes of one insertion go to one node: one that is there, ...
LEMMA AppendRouteKeeps ==
    ASSUME NEW loc, Shape(nodes, loc), NEW n \in 1..Len(nodes), NEW r \in Route
    PROVE  Shape(AppendRoute(n, r), loc) /\ Takes(nodes, AppendRoute(n, r), n, r)
<1>1. nodes \in Seq(TreeNode) /\ Len(nodes) \in Nat
  BY DEF Shape
<1>2. nodes[n] \in TreeNode /\ nodes[n].routes \in Seq(Route)
  BY NodeFacts
<1>3. Append(nodes[n].routes, r) \in Seq(Route)
  BY <1>2
<1>4. PICK x : x = [nodes[n] EXCEPT !.routes = Append(@, r)]
  OBVIOUS
<1>5. /\ x \in TreeNode /\ x.path = nodes[n].path /\ x.children = nodes[n].children
      /\ x.routes = Append(nodes[n].routes, r)
  BY <1>2, <1>3, <1>4 DEF TreeNode
<1>6. PICK ts : ts = [nodes EXCEPT ![n] = x]
  OBVIOUS
<1>7. AppendRoute(n, r) = ts
  BY <1>4, <1>6 DEF AppendRoute
<1>8. ts \in Seq(TreeNode) /\ Len(ts) = Len(nodes)
  BY <1>1, <1>5, <1>6
<1>9. ts[n] = x /\ \A d \in 1..Len(nodes) : d # n => ts[d] = nodes[d]
  BY <1>1, <1>6
<1>10. \A d \in 1..Len(nodes) : ts[d].path = nodes[d].path /\ ts[d].children = nodes[d].children
  BY <1>5, <1>9
<1>11. Shape(ts, loc)
  BY <1>8, <1>10, SameShape
<1>12. Takes(nodes, ts, n, r)
  BY <1>1, <1>5, <1>8, <1>9 DEF Takes
<1> QED
  BY <1>7, <1>11, <1>12

LEMMA NodeOf ==
    ASSUME NEW s \in Seq(Chars), NEW rs \in Seq(Route), NEW cs \in SUBSET Nat
    PROVE  /\ Node(s, rs, cs) \in TreeNode /\ Node(s, rs, cs).path = s
           /\ Node(s, rs, cs).routes = rs /\ Node(s, rs, cs).children = cs
BY DEF Node, TreeNode

\* ... a new child of one, ...
LEMMA appendChildKeeps ==
    ASSUME NEW loc, Shape(nodes, loc), NEW n \in 1..Len(nodes), NEW r \in Route,
           NEW u \in Seq(Chars), u # <<>>, NEW q \in Seq(Chars), Joins(loc[n], u, q),
           \A d \in nodes[n].children : nodes[d].path[1] # u[1]
    PROVE  /\ Shape(appendChild(n, u, r), Longer(loc, Len(nodes) + 1, q))
           /\ Takes(nodes, appendChild(n, u, r), Len(nodes) + 1, r)
<1>1. nodes \in Seq(TreeNode) /\ Len(nodes) \in Nat
  BY DEF Shape
<1>2. nodes[n] \in TreeNode
  BY NodeFacts
<1>3. PICK s \in Nat : s = Len(nodes) + 1
  BY <1>1
<1>4. PICK x : x = [nodes[n] EXCEPT !.children = @ \cup {s}]
  OBVIOUS
<1>5. /\ x \in TreeNode /\ x.path = nodes[n].path /\ x.children = nodes[n].children \cup {s}
      /\ x.routes = nodes[n].routes
  BY <1>2, <1>4 DEF TreeNode
<1>6. PICK z : z = Node(u, <<r>>, {})
  OBVIOUS
<1>7. z \in TreeNode /\ z.path = u /\ z.routes = <<r>> /\ z.children = {}
  <2>1. <<r>> \in Seq(Route) /\ {} \in SUBSET Nat
    OBVIOUS
  <2> QED
    BY <1>6, <2>1 DEF Node, TreeNode
<1>8. PICK ms : ms = [nodes EXCEPT ![n] = x]
  OBVIOUS
<1>9. /\ ms \in Seq(TreeNode) /\ Len(ms) = Len(nodes)
      /\ ms[n] = x /\ \A d \in 1..Len(nodes) : d # n => ms[d] = nodes[d]
  BY <1>1, <1>5, <1>8
<1>10. PICK ts : ts = Append(ms, z)
  OBVIOUS
<1>11. appendChild(n, u, r) = ts
  BY <1>3, <1>4, <1>6, <1>8, <1>10 DEF appendChild
<1>12. /\ ts \in Seq(TreeNode) /\ Len(ts) = s /\ ts[s] = z
       /\ \A d \in 1..Len(nodes) : ts[d] = ms[d]
  BY <1>1, <1>3, <1>7, <1>9, <1>10
<1>13. ts[n] = x /\ \A d \in 1..Len(nodes) : d # n => ts[d] = nodes[d]
  BY <1>9, <1>12
<1>14. NewChild(nodes, loc, n, ts, s, q)
  BY <1>3, <1>5, <1>7, <1>12, <1>13 DEF NewChild
<1>15. Shape(ts, Longer(loc, s, q))
  BY <1>14, GrowShape
<1>16. s \notin 1..Len(nodes) /\ s \in 1..s /\ Len(nodes) <= s /\ (Len(nodes) + 1)..s = {s}
  BY <1>1, <1>3
<1>17. Takes(nodes, ts, s, r)
  BY <1>5, <1>7, <1>12, <1>13, <1>16 DEF Takes
<1> QED
  BY <1>3, <1>11, <1>15, <1>17

LEMMA AppendFacts ==
    ASSUME NEW s \in Seq(TreeNode), NEW z \in TreeNode
    PROVE  /\ Append(s, z) \in Seq(TreeNode) /\ Len(Append(s, z)) = Len(s) + 1
           /\ Append(s, z)[Len(s) + 1] = z /\ \A d \in 1..Len(s) : Append(s, z)[d] = s[d]
OBVIOUS

LEMMA TwoFacts ==
    ASSUME NEW s \in Seq(TreeNode), NEW y \in TreeNode, NEW z \in TreeNode,
           NEW t, t = s \o <<y, z>>
    PROVE  /\ t \in Seq(TreeNode) /\ Len(t) = Len(s) + 2
           /\ t[Len(s) + 1] = y /\ t[Len(s) + 2] = z /\ \A d \in 1..Len(s) : t[d] = s[d]
<1>0. <<y, z>> \in Seq(TreeNode)
  OBVIOUS
<1>1. PICK e \in Seq(TreeNode) : e = <<y, z>>
  BY <1>0, Zenon
<1>2. Len(e) = 2 /\ e[1] = y /\ e[2] = z
  BY <1>1
<1>3. s \o e \in Seq(TreeNode) /\ Len(s \o e) = Len(s) + Len(e) /\ Len(s) \in Nat
  OBVIOUS
<1>4. \A d \in 1..Len(s) : (s \o e)[d] = s[d]
  OBVIOUS
<1>5. \A d \in 1..Len(e) : (s \o e)[Len(s) + d] = e[d]
  OBVIOUS
<1>6. (s \o e)[Len(s) + 1] = y /\ (s \o e)[Len(s) + 2] = z
  <2>1. 1 \in 1..Len(e) /\ 2 \in 1..Len(e)
    BY <1>2
  <2> QED
    BY <1>2, <1>5, <2>1, Zenon
<1>7. t = s \o e
  BY <1>1
<1> QED
  BY <1>2, <1>3, <1>4, <1>6, <1>7

\* ... or a node of a split: the middle node, if the new path ends there, or a
\* new sibling of the old child.
LEMMA SplitKeeps ==
    ASSUME NEW loc, Shape(nodes, loc), NEW n \in 1..Len(nodes), NEW r \in Route,
           NEW u \in Seq(Chars), NEW q \in Seq(Chars), Joins(loc[n], u, q),
           NEW c \in nodes[n].children,
           commonPrefix(u, nodes[c].path) > 0,
           commonPrefix(u, nodes[c].path) # Len(nodes[c].path)
    PROVE  \E way, t : /\ Shape(Split(n, c, u, r), way) /\ Takes(nodes, Split(n, c, u, r), t, r)
                       /\ way[t] = q /\ \A d \in 1..Len(nodes) : way[d] = loc[d]
<1>1. nodes \in Seq(TreeNode) /\ Len(nodes) \in Nat
  BY DEF Shape
<1>2. PICK s \in Nat : s = Len(nodes) + 1
  BY <1>1
<1>3. /\ c \in 1..Len(nodes) /\ c # n /\ nodes[c].path \in Seq(Chars)
      /\ Joins(loc[n], nodes[c].path, loc[c])
  BY ChildFacts
<1>4. nodes[n] \in TreeNode /\ nodes[c] \in TreeNode /\ loc[n] \in Seq(Chars) /\ loc[c] \in Seq(Chars)
  BY <1>3, NodeFacts
<1>5. PICK v \in Seq(Chars) : v = nodes[c].path
  BY <1>3
<1>6. PICK m : m = commonPrefix(u, v)
  OBVIOUS
<1>7. /\ m \in 0..Len(u) /\ m <= Len(v) /\ \A i \in 1..m : u[i] = v[i]
      /\ m = Len(u) \/ m = Len(v) \/ u[m + 1] # v[m + 1]
  BY <1>6, CommonFacts
<1>8. m > 0 /\ m # Len(v)
  BY <1>5, <1>6
<1>9. m \in Nat /\ Len(u) \in Nat /\ Len(v) \in Nat /\ m \in 0..Len(v) /\ m < Len(v) /\ m <= Len(u)
  BY <1>7, <1>8
<1>10. PICK l : l = SubSeq(q, 1, Len(loc[n]) + m)
  OBVIOUS
<1>11. PICK a : a = SubSeq(u, 1, m)
  OBVIOUS
<1>12. /\ l \in Seq(Chars) /\ a \in Seq(Chars) /\ Len(a) = m /\ \A i \in 1..m : a[i] = u[i]
       /\ Joins(loc[n], a, l) /\ Joins(l, Drop(u, m), q)
  <2>1. /\ SubSeq(q, 1, Len(loc[n]) + m) \in Seq(Chars)
        /\ SubSeq(u, 1, m) \in Seq(Chars) /\ Len(SubSeq(u, 1, m)) = m
        /\ \A i \in 1..m : SubSeq(u, 1, m)[i] = u[i]
        /\ Joins(loc[n], SubSeq(u, 1, m), SubSeq(q, 1, Len(loc[n]) + m))
        /\ Joins(SubSeq(q, 1, Len(loc[n]) + m), Drop(u, m), q)
    <3>1. loc[n] \in Seq(Chars) /\ m \in 0..Len(u)
      BY <1>4, <1>7
    <3> QED
      BY <3>1, JoinsCut, Zenon
  <2> QED
    BY <1>10, <1>11, <2>1, Zenon
<1>13. PICK w : w = Drop(v, m)
  OBVIOUS
<1>14. w \in Seq(Chars) /\ Len(w) = Len(v) - m /\ \A i \in 1..(Len(v) - m) : w[i] = v[m + i]
  BY <1>9, <1>13, DropFacts
<1>15. Joins(l, w, loc[c])
  <2>1. PICK b : b = SubSeq(loc[c], 1, Len(loc[n]) + m)
    OBVIOUS
  <2>0. PICK e : e = SubSeq(v, 1, m)
    OBVIOUS
  <2>2. /\ b \in Seq(Chars) /\ e \in Seq(Chars) /\ Len(e) = m
        /\ \A i \in 1..m : e[i] = v[i]
        /\ Joins(loc[n], e, b) /\ Joins(b, w, loc[c])
    <3>1. /\ loc[n] \in Seq(Chars) /\ m \in 0..Len(v) /\ loc[c] \in Seq(Chars)
          /\ Joins(loc[n], v, loc[c])
      BY <1>3, <1>4, <1>5, <1>9
    <3>2. /\ SubSeq(loc[c], 1, Len(loc[n]) + m) \in Seq(Chars)
          /\ SubSeq(v, 1, m) \in Seq(Chars) /\ Len(SubSeq(v, 1, m)) = m
          /\ \A i \in 1..m : SubSeq(v, 1, m)[i] = v[i]
          /\ Joins(loc[n], SubSeq(v, 1, m), SubSeq(loc[c], 1, Len(loc[n]) + m))
          /\ Joins(SubSeq(loc[c], 1, Len(loc[n]) + m), Drop(v, m), loc[c])
      BY <3>1, JoinsCut, Zenon
    <3> QED
      BY <1>13, <2>0, <2>1, <3>2, Zenon
  <2>3. e = a
    <3>1. Len(e) = Len(a) /\ \A i \in 1..Len(e) : e[i] = a[i]
      BY <1>7, <1>12, <2>2
    <3> QED
      BY <1>12, <2>2, <3>1, SameSeq
  <2>4. b = l
    BY <1>4, <1>12, <2>2, <2>3, JoinsOnce
  <2> QED
    BY <2>2, <2>4
<1>16. a # <<>> /\ w # <<>> /\ a[1] = v[1]
  <2>1. Len(a) > 0 /\ Len(w) > 0 /\ 1 \in 1..m
    BY <1>8, <1>9, <1>12, <1>14
  <2>2. a[1] = u[1] /\ u[1] = v[1]
    BY <1>7, <1>12, <2>1
  <2>3. a # <<>> /\ w # <<>>
    BY <2>1
  <2> QED
    BY <2>2, <2>3
<1>17. PICK x : x = [nodes[n] EXCEPT !.children = (@ \ {c}) \cup {s}]
  OBVIOUS
<1>18. /\ x \in TreeNode /\ x.path = nodes[n].path /\ x.children = (nodes[n].children \ {c}) \cup {s}
       /\ x.routes = nodes[n].routes
  BY <1>4, <1>17 DEF TreeNode
<1>19. PICK y : y = [nodes[c] EXCEPT !.path = w]
  OBVIOUS
<1>20. y \in TreeNode /\ y.path = w /\ y.children = nodes[c].children /\ y.routes = nodes[c].routes
  BY <1>4, <1>14, <1>19 DEF TreeNode
<1>21. PICK ms : ms = [nodes EXCEPT ![c] = y, ![n] = x]
  OBVIOUS
<1>22. /\ ms \in Seq(TreeNode) /\ Len(ms) = Len(nodes)
       /\ ms[n] = x /\ ms[c] = y /\ \A d \in 1..Len(nodes) : d # n /\ d # c => ms[d] = nodes[d]
  BY <1>1, <1>3, <1>18, <1>20, <1>21
<1>23. ms = [nodes EXCEPT ![c].path = Drop(@, m), ![n].children = (@ \ {c}) \cup {s}]
  <2>1. [nodes EXCEPT ![c].path = Drop(@, m)] = [nodes EXCEPT ![c] = y]
    BY <1>5, <1>13, <1>19
  <2>2. [nodes EXCEPT ![c] = y][n] = nodes[n]
    <3>1. n \in DOMAIN nodes /\ n # c
      BY <1>1, <1>3
    <3> QED
      BY <3>1, Zenon
  <2> QED
    BY <1>1, <1>3, <1>17, <1>21, <2>1, <2>2
<1>24. ASSUME NEW rs \in Seq(Route), NEW ts, ts = Append(ms, Node(a, rs, {c}))
       PROVE  /\ Shape(ts, Longer(loc, s, l)) /\ ts \in Seq(TreeNode) /\ Len(ts) = s
              /\ ts[s] = Node(a, rs, {c}) /\ \A d \in 1..Len(nodes) : ts[d] = ms[d]
  <2>1. c \in Nat
    BY <1>3
  <2>2. PICK z : z = Node(a, rs, {c})
    OBVIOUS
  <2>3. z \in TreeNode /\ z.path = a /\ z.children = {c}
    BY <1>12, <2>1, <2>2 DEF Node, TreeNode
  <2>4. /\ ts \in Seq(TreeNode) /\ Len(ts) = s /\ ts[s] = z
        /\ \A d \in 1..Len(nodes) : ts[d] = ms[d]
    <3>1. /\ Append(ms, z) \in Seq(TreeNode) /\ Len(Append(ms, z)) = Len(ms) + 1
          /\ Append(ms, z)[Len(ms) + 1] = z /\ \A d \in 1..Len(ms) : Append(ms, z)[d] = ms[d]
      BY <1>22, <2>3, AppendFacts
    <3> QED
      BY <1>2, <1>22, <1>24, <2>2, <3>1
  <2>5. ts[n] = x /\ ts[c] = y /\ \A d \in 1..Len(nodes) : d # n /\ d # c => ts[d] = nodes[d]
    BY <1>3, <1>22, <2>4
  <2>6. NewBetween(nodes, loc, n, c, ts, s, l)
    BY <1>2, <1>3, <1>5, <1>12, <1>15, <1>16, <1>18, <1>20, <2>3, <2>4, <2>5 DEF NewBetween
  <2>7. Shape(ts, Longer(loc, s, l))
    BY <2>6, CutShape
  <2> QED
    BY <2>2, <2>4, <2>7
<1>25. \A d \in 1..Len(nodes) : ms[d].routes = nodes[d].routes
  BY <1>18, <1>20, <1>22
<1>26. s \notin 1..Len(nodes) /\ s \in 1..s /\ Len(nodes) <= s /\ (Len(nodes) + 1)..s = {s}
  BY <1>1, <1>2
<1>27. \A d \in 1..Len(nodes) : Longer(loc, s, l)[d] = loc[d]
  BY <1>26 DEF Longer
<1>28. CASE m = Len(u)
  <2>1. a = u
    BY <1>12, <1>28, SameSeq
  <2>2. PICK ts : ts = Append(ms, Node(a, <<r>>, {c}))
    OBVIOUS
  <2>3. <<r>> \in Seq(Route)
    OBVIOUS
  <2>4. /\ Shape(ts, Longer(loc, s, l)) /\ Len(ts) = s
        /\ ts[s] = Node(a, <<r>>, {c}) /\ \A d \in 1..Len(nodes) : ts[d] = ms[d]
    BY <1>24, <2>2, <2>3
  <2>5. Split(n, c, u, r) = ts
    BY <1>2, <1>5, <1>6, <1>23, <1>28, <2>1, <2>2 DEF Split
  <2>6. ts[s].routes = <<r>>
    BY <2>4 DEF Node
  <2>7. Takes(nodes, ts, s, r)
    BY <1>25, <1>26, <2>4, <2>6 DEF Takes
  <2>8. l = q
    <3>1. Joins(loc[n], u, l)
      BY <1>12, <2>1
    <3> QED
      BY <1>4, <1>12, <3>1, JoinsOnce
  <2>9. Longer(loc, s, l)[s] = q
    BY <1>26, <2>8 DEF Longer
  <2> QED
    BY <1>27, <2>4, <2>5, <2>7, <2>9
<1>29. CASE m # Len(u)
  <2>1. PICK b : b = Drop(u, m)
    OBVIOUS
  <2>2. b \in Seq(Chars) /\ Len(b) = Len(u) - m /\ \A i \in 1..(Len(u) - m) : b[i] = u[m + i]
    BY <1>7, <2>1, DropFacts
  <2>3. b # <<>> /\ b[1] # w[1]
    <3>1. Len(b) > 0 /\ 1 \in 1..(Len(u) - m) /\ 1 \in 1..(Len(v) - m)
      BY <1>9, <1>29, <2>2
    <3>2. b[1] = u[m + 1] /\ w[1] = v[m + 1]
      BY <1>14, <2>2, <3>1
    <3> QED
      BY <1>7, <1>8, <1>29, <3>1, <3>2
  <2>4. PICK ks : ks = Append(ms, Node(a, <<>>, {c}))
    OBVIOUS
  <2>5. /\ Shape(ks, Longer(loc, s, l)) /\ ks \in Seq(TreeNode) /\ Len(ks) = s
        /\ ks[s] = Node(a, <<>>, {c}) /\ \A d \in 1..Len(nodes) : ks[d] = ms[d]
    <3>1. <<>> \in Seq(Route)
      OBVIOUS
    <3>2. PICK rs \in Seq(Route) : rs = <<>>
      BY <3>1
    <3> QED
      BY <1>24, <2>4, <3>2
  <2>6. PICK z : z = Node(a, <<>>, {c, s + 1})
    OBVIOUS
  <2>7. z \in TreeNode /\ z.path = a /\ z.routes = <<>> /\ z.children = {c} \cup {s + 1}
    <3>1. {c, s + 1} \in SUBSET Nat /\ {c, s + 1} = {c} \cup {s + 1}
      BY <1>3
    <3>2. <<>> \in Seq(Route)
      OBVIOUS
    <3> QED
      BY <1>12, <2>6, <3>1, <3>2 DEF Node, TreeNode
  <2>8. PICK y2 : y2 = Node(b, <<r>>, {})
    OBVIOUS
  <2>9. y2 \in TreeNode /\ y2.path = b /\ y2.routes = <<r>> /\ y2.children = {}
    <3>1. <<r>> \in Seq(Route) /\ {} \in SUBSET Nat
      OBVIOUS
    <3> QED
      BY <2>2, <2>8, <3>1 DEF Node, TreeNode
  <2>10. PICK ts : ts = ms \o <<z, y2>>
    OBVIOUS
  <2>11. Split(n, c, u, r) = ts
    BY <1>2, <1>5, <1>6, <1>11, <1>23, <1>29, <2>1, <2>6, <2>8, <2>10 DEF Split
  <2>13. ts \in Seq(TreeNode) /\ Len(ts) = s + 1 /\ ts[s] = z /\ ts[s + 1] = y2
    <3>0. ms \in Seq(TreeNode) /\ z \in TreeNode /\ y2 \in TreeNode
      BY <1>22, <2>7, <2>9
    <3>1. /\ ts \in Seq(TreeNode) /\ Len(ts) = Len(ms) + 2
          /\ ts[Len(ms) + 1] = z /\ ts[Len(ms) + 2] = y2 /\ \A d \in 1..Len(ms) : ts[d] = ms[d]
      BY ONLY <2>10, <3>0, TwoFacts
    <3>2. s = Len(ms) + 1 /\ s + 1 = Len(ms) + 2
      BY <1>1, <1>2, <1>22
    <3> QED
      BY <3>1, <3>2
  <2>14. \A d \in 1..Len(nodes) : ts[d] = ms[d]
    BY <1>22, <2>7, <2>9, <2>10, TwoFacts
  <2>15. ks[s].path = a /\ ks[s].children = {c}
    BY <2>5 DEF Node
  <2>16. /\ \A d \in 1..Len(ks) : ts[d].path = ks[d].path
         /\ \A d \in 1..Len(ks) : d # s => ts[d].children = ks[d].children
    <3>1. \A d \in 1..s : d = s \/ d \in 1..Len(nodes)
      BY <1>1, <1>2
    <3> QED
      BY <2>5, <2>7, <2>13, <2>14, <2>15, <3>1
  <2>17. Longer(loc, s, l)[s] = l
    BY <1>26 DEF Longer
  <2>18. ks[c].path = w
    BY <1>3, <1>20, <1>22, <2>5
  <2>19. NewChild(ks, Longer(loc, s, l), s, ts, s + 1, q)
    BY <1>12, <2>1, <2>3, <2>5, <2>7, <2>9, <2>13, <2>15, <2>16, <2>17, <2>18 DEF NewChild
  <2>20. Shape(ts, Longer(Longer(loc, s, l), s + 1, q))
    BY <1>26, <2>5, <2>19, GrowShape
  <2>21. /\ Longer(Longer(loc, s, l), s + 1, q)[s + 1] = q
         /\ \A d \in 1..Len(nodes) : Longer(Longer(loc, s, l), s + 1, q)[d] = loc[d]
    <3>1. s + 1 \in 1..(s + 1) /\ \A d \in 1..Len(nodes) : d \in 1..(s + 1) /\ d # s + 1
      BY <1>1, <1>2
    <3> QED
      BY <1>27, <3>1 DEF Longer
  <2>22. Takes(nodes, ts, s + 1, r)
    <3>1. s + 1 \notin 1..Len(nodes) /\ s + 1 \in 1..(s + 1) /\ Len(nodes) <= s + 1
      BY <1>1, <1>2
    <3>2. \A d \in (Len(nodes) + 1)..(s + 1) : d # s + 1 => d = s
      <4>1. \A d \in s..(s + 1) : d # s + 1 => d = s
        BY ONLY s \in Nat
      <4> QED
        BY <1>2, <4>1
    <3> QED
      BY <1>25, <2>7, <2>9, <2>13, <2>14, <3>1, <3>2 DEF Takes
  <2> QED
    BY <2>11, <2>20, <2>21, <2>22
<1> QED
  BY <1>28, <1>29

\* Insert adds the route to the tree, and where it lies.
LEMMA InsertKeeps ==
    ASSUME NEW loc, Shape(nodes, loc), Held(nodes, routes, loc),
           NEW r \in Route, r.id = Len(routes) + 1, r.kind = "regex" => r.path = <<>>
    PROVE  \E way : /\ Shape(InsertRoute(r), way)
                    /\ Held(InsertRoute(r), Append(routes, r), way)
<1>1. PICK q \in Seq(Chars) : q = Rooted(r.path)
  BY RootedPath DEF Route
<1>2. PICK p : p = Descend(q)
  OBVIOUS
<1>3. On(loc, p, q) /\ Onward(p, q) = {}
  BY <1>2, DescendFacts
<1>4. PICK n : n = p[1]
  OBVIOUS
<1>5. PICK u : u = Drop(q, p[2])
  OBVIOUS
<1>6. n \in 1..Len(nodes) /\ u \in Seq(Chars) /\ Joins(loc[n], u, q) /\ loc[n] \in Seq(Chars)
  BY <1>3, <1>4, <1>5, OnJoins, NodeFacts
<1>7. InsertRoute(r) = IF Ends(u) THEN AppendRoute(n, r)
                       ELSE IF findChild(n, u) = {} THEN appendChild(n, u, r)
                       ELSE Split(n, CHOOSE c \in findChild(n, u) : TRUE, u, r)
  BY <1>1, <1>2, <1>4, <1>5 DEF InsertRoute
<1>8. \E way, t : /\ Shape(InsertRoute(r), way) /\ Takes(nodes, InsertRoute(r), t, r)
                  /\ Lies(r, way[t]) /\ \A d \in 1..Len(nodes) : way[d] = loc[d]
  <2>1. CASE Ends(u)
    <3>1. InsertRoute(r) = AppendRoute(n, r)
      BY <1>7, <2>1
    <3>2. Shape(AppendRoute(n, r), loc) /\ Takes(nodes, AppendRoute(n, r), n, r)
      BY <1>6, AppendRouteKeeps
    <3>3. Lies(r, loc[n])
      BY <1>1, <1>6, <2>1, JoinsEnds DEF Lies
    <3> QED
      BY <3>1, <3>2, <3>3
  <2>2. CASE ~Ends(u) /\ findChild(n, u) = {}
    <3>1. InsertRoute(r) = appendChild(n, u, r)
      BY <1>7, <2>2
    <3>2. u # <<>> /\ Len(u) # 0 /\ Len(u) \in Nat
      BY <1>6, <2>2 DEF Ends
    <3>3. ASSUME NEW d \in nodes[n].children PROVE nodes[d].path[1] # u[1]
      <4>1. nodes[d].path \in Seq(Chars) /\ Len(nodes[d].path) > 0 /\ Len(nodes[d].path) \in Nat
        BY <1>6, ChildFacts
      <4>2. ~(commonPrefix(u, nodes[d].path) > 0)
        BY <2>2 DEF findChild
      <4>3. PICK v \in Seq(Chars) : v = nodes[d].path /\ Len(v) # 0
        BY <4>1
      <4>4. PICK m : m = commonPrefix(u, v)
        OBVIOUS
      <4>5. m \in 0..Len(u) /\ (m = Len(u) \/ m = Len(v) \/ u[m + 1] # v[m + 1])
        BY <1>6, <4>4, CommonFacts
      <4>6. m = 0
        BY <4>2, <4>3, <4>4, <4>5
      <4>7. u[1] # v[1]
        BY <3>2, <4>3, <4>5, <4>6
      <4> QED
        BY <4>3, <4>7
    <3>4. /\ Shape(appendChild(n, u, r), Longer(loc, Len(nodes) + 1, q))
          /\ Takes(nodes, appendChild(n, u, r), Len(nodes) + 1, r)
      BY <1>6, <3>2, <3>3, appendChildKeeps
    <3>5. /\ Longer(loc, Len(nodes) + 1, q)[Len(nodes) + 1] = q
          /\ \A d \in 1..Len(nodes) : Longer(loc, Len(nodes) + 1, q)[d] = loc[d]
      BY LongerFacts
    <3>6. Lies(r, q)
      BY <1>1 DEF Lies
    <3> QED
      BY <3>1, <3>4, <3>5, <3>6
  <2>3. CASE ~Ends(u) /\ findChild(n, u) # {}
    <3>1. PICK c \in findChild(n, u) : InsertRoute(r) = Split(n, c, u, r)
      BY <1>7, <2>3
    <3>2. c \in nodes[n].children /\ commonPrefix(u, nodes[c].path) > 0
      BY <3>1 DEF findChild
    <3>3. commonPrefix(u, nodes[c].path) # Len(nodes[c].path)
      BY <1>3, <1>4, <1>5, <2>3, <3>1 DEF Onward
    <3>4. PICK way, t : /\ Shape(Split(n, c, u, r), way) /\ Takes(nodes, Split(n, c, u, r), t, r)
                        /\ way[t] = q /\ \A d \in 1..Len(nodes) : way[d] = loc[d]
      BY <1>6, <3>2, <3>3, SplitKeeps
    <3>5. Lies(r, q)
      BY <1>1 DEF Lies
    <3> QED
      BY <3>1, <3>4, <3>5
  <2> QED
    BY <2>1, <2>2, <2>3
<1>9. PICK way, t : /\ Shape(InsertRoute(r), way) /\ Takes(nodes, InsertRoute(r), t, r)
                    /\ Lies(r, way[t]) /\ \A d \in 1..Len(nodes) : way[d] = loc[d]
  BY <1>8
<1>10. Held(InsertRoute(r), Append(routes, r), way)
  BY <1>9, HeldGrows
<1> QED
  BY <1>9, <1>10

-----------------------------------------------------------------------------
(* The radix tree: lookup.                                                 *)

\* collectMatches takes a route of a node for path q.
Takeable(r, q) == r.kind = "exact" => r.path = q

\* u has the routes among the first i of s that are taken for q, each once.
Kept(s, q, u, i) ==
    /\ u \in Seq(Route)
    /\ \A k \in 1..Len(u) : \E a \in 1..i : u[k] = s[a]
    /\ \A j, k \in 1..Len(u) : u[j] = u[k] => j = k
    /\ \A a \in 1..i : Takeable(s[a], q) => \E k \in 1..Len(u) : u[k] = s[a]

LEMMA KeptTurn ==
    ASSUME NEW s \in Seq(Route), \A a, b \in 1..Len(s) : s[a] = s[b] => a = b,
           NEW q, NEW u, NEW i \in 1..Len(s), Kept(s, q, u, i - 1)
    PROVE  Kept(s, q, IF Takeable(s[i], q) THEN Append(u, s[i]) ELSE u, i)
<1>0. Len(s) \in Nat /\ i \in Nat /\ s[i] \in Route /\ u \in Seq(Route) /\ Len(u) \in Nat
  BY DEF Kept
<1>a. \A a \in 1..(i - 1) : a \in 1..i /\ a \in 1..Len(s) /\ a # i
  BY <1>0
<1>b. \A a \in 1..i : a = i \/ a \in 1..(i - 1)
  BY <1>0
<1>1. CASE ~Takeable(s[i], q)
  <2>1. \A k \in 1..Len(u) : \E a \in 1..i : u[k] = s[a]
    BY <1>a DEF Kept
  <2>2. \A a \in 1..i : Takeable(s[a], q) => \E k \in 1..Len(u) : u[k] = s[a]
    BY <1>b, <1>1 DEF Kept
  <2>3. Kept(s, q, u, i)
    BY <2>1, <2>2 DEF Kept
  <2> QED
    BY <1>1, <2>3
<1>2. CASE Takeable(s[i], q)
  <2> DEFINE v == Append(u, s[i])
  <2>1. /\ v \in Seq(Route) /\ Len(v) = Len(u) + 1 /\ v[Len(u) + 1] = s[i]
        /\ \A k \in 1..Len(u) : v[k] = u[k]
    BY <1>0
  <2> HIDE DEF v
  <2>c. /\ \A k \in 1..Len(v) : k = Len(u) + 1 \/ k \in 1..Len(u)
        /\ \A k \in 1..Len(u) : k \in 1..Len(v)
        /\ Len(u) + 1 \in 1..Len(v)
    BY <1>0, <2>1
  <2>d. \A k \in 1..Len(u) : \E a \in 1..(i - 1) : u[k] = s[a]
    BY DEF Kept
  <2>2. ASSUME NEW k \in 1..Len(v) PROVE \E a \in 1..i : v[k] = s[a]
    <3>1. CASE k = Len(u) + 1
      BY <1>0, <2>1, <3>1
    <3>2. CASE k \in 1..Len(u)
      BY <1>a, <2>1, <2>d, <3>2
    <3> QED
      BY <2>c, <3>1, <3>2
  <2>3. \A k \in 1..Len(u) : v[k] # s[i]
    BY <1>a, <2>1, <2>d
  <2>4. ASSUME NEW j \in 1..Len(v), NEW k \in 1..Len(v), v[j] = v[k] PROVE j = k
    <3>1. CASE j \in 1..Len(u) /\ k \in 1..Len(u)
      BY <2>1, <2>4, <3>1 DEF Kept
    <3>2. CASE j = Len(u) + 1 \/ k = Len(u) + 1
      BY <2>1, <2>3, <2>4, <2>c, <3>2
    <3> QED
      BY <2>c, <3>1, <3>2
  <2>5. ASSUME NEW a \in 1..i, Takeable(s[a], q) PROVE \E k \in 1..Len(v) : v[k] = s[a]
    <3>1. CASE a = i
      BY <2>1, <2>c, <3>1
    <3>2. CASE a \in 1..(i - 1)
      <4>1. PICK k \in 1..Len(u) : u[k] = s[a]
        BY <2>5, <3>2 DEF Kept
      <4> QED
        BY <2>1, <2>c, <4>1
    <3> QED
      BY <1>b, <3>1, <3>2
  <2>6. Kept(s, q, v, i)
    BY <2>1, <2>2, <2>4, <2>5 DEF Kept
  <2> QED
    BY <1>2, <2>6 DEF v
<1> QED
  BY <1>1, <1>2

LEMMA OwnFacts ==
    ASSUME NEW n, NEW s \in Seq(Route), s = nodes[n].routes,
           \A a, b \in 1..Len(s) : s[a] = s[b] => a = b, NEW q
    PROVE  Kept(s, q, Own(n, q), Len(s))
<1> DEFINE upTo[i \in 0..Len(s)] ==
            IF i = 0 THEN <<>>
            ELSE IF s[i].kind = "exact" => s[i].path = q THEN Append(upTo[i - 1], s[i])
            ELSE upTo[i - 1]
<1>0. Len(s) \in Nat
  OBVIOUS
<1>h. PICK h : h = [r \in Route |-> Takeable(r, q)]
  OBVIOUS
<1>1. Own(n, q) = upTo[Len(s)]
  BY DEF Own
<1>2. PICK g : g = [i \in 0..Len(s) |-> Turn(s, h, g, i)]
  <2>1. Looped(s, h, Len(s))
    BY ONLY <1>0, LoopDefined
  <2> QED
    BY <2>1 DEF Looped
<1>3. \A i \in 1..Len(s) : h[s[i]] = (s[i].kind = "exact" => s[i].path = q)
  <2> TAKE i \in 1..Len(s)
  <2>1. s[i] \in Route
    OBVIOUS
  <2> QED
    BY <1>h, <2>1 DEF Takeable
<1>4. \A i \in 0..Len(s) : g[i] = IF i = 0 THEN <<>>
            ELSE IF s[i].kind = "exact" => s[i].path = q THEN Append(g[i - 1], s[i])
            ELSE g[i - 1]
  <2> TAKE i \in 0..Len(s)
  <2>1. g[i] = Turn(s, h, g, i)
    BY <1>2
  <2>2. i = 0 \/ i \in 1..Len(s)
    BY <1>0
  <2> QED
    BY <1>3, <2>1, <2>2 DEF Turn
<1>5. g = [i \in 0..Len(s) |-> IF i = 0 THEN <<>>
            ELSE IF s[i].kind = "exact" => s[i].path = q THEN Append(g[i - 1], s[i])
            ELSE g[i - 1]]
  <2>1. g = [i \in 0..Len(s) |-> g[i]]
    BY <1>2
  <2> QED
    BY <1>4, <2>1, Zenon
<1>6. upTo = [i \in 0..Len(s) |-> IF i = 0 THEN <<>>
            ELSE IF s[i].kind = "exact" => s[i].path = q THEN Append(upTo[i - 1], s[i])
            ELSE upTo[i - 1]]
  BY <1>5, Zenon
<1> HIDE DEF upTo
<1> DEFINE S == {i \in 0..Len(s) : Kept(s, q, upTo[i], i)}
<1>7. 0 \in S
  <2>1. upTo[0] = <<>>
    BY <1>0, <1>6
  <2>2. Kept(s, q, <<>>, 0)
    BY DEF Kept
  <2> QED
    BY <1>0, <2>1, <2>2
<1>8. ASSUME NEW i \in 1..Len(s), i - 1 \in S PROVE i \in S
  <2>1. Kept(s, q, upTo[i - 1], i - 1)
    BY <1>8
  <2>2. upTo[i] = IF Takeable(s[i], q) THEN Append(upTo[i - 1], s[i]) ELSE upTo[i - 1]
    <3>1. i \in 0..Len(s) /\ i # 0
      BY <1>0
    <3> QED
      BY <1>6, <3>1 DEF Takeable
  <2>3. Kept(s, q, IF Takeable(s[i], q) THEN Append(upTo[i - 1], s[i]) ELSE upTo[i - 1], i)
    BY <2>1, KeptTurn
  <2>4. Kept(s, q, upTo[i], i)
    BY <2>2, <2>3
  <2> QED
    BY <1>0, <2>4
<1>9. Len(s) \in S
  <2> HIDE DEF S
  <2>1. \A i \in 0..Len(s) : i \in S
    BY <1>0, <1>7, <1>8, Induction
  <2> QED
    BY <1>0, <2>1
<1> QED
  BY <1>1, <1>9

\* The node that holds a route.
Sits(r, x) == x \in 1..Len(nodes) /\ \E a \in 1..Len(nodes[x].routes) : nodes[x].routes[a] = r

LEMMA SitsOnce ==
    ASSUME NEW loc, Held(nodes, routes, loc), NEW r, NEW x, NEW y, Sits(r, x), Sits(r, y)
    PROVE  x = y
<1>1. PICK a \in 1..Len(nodes[x].routes) : nodes[x].routes[a] = r
  BY DEF Sits
<1>2. PICK b \in 1..Len(nodes[y].routes) : nodes[y].routes[b] = r
  BY DEF Sits
<1>3. nodes[x].routes[a].id = nodes[y].routes[b].id /\ x \in 1..Len(nodes) /\ y \in 1..Len(nodes)
  BY <1>1, <1>2 DEF Sits
<1> QED
  BY <1>3, HeldOnce

\* f lists routes of nodes at depth k or deeper, each once, the outer ones first.
Collected(f, loc, k) ==
    /\ f \in Seq(Route)
    /\ \A i \in 1..Len(f) : \E x \in 1..Len(nodes) : Sits(f[i], x) /\ Len(loc[x]) >= k
    /\ \A i, j \in 1..Len(f) : f[i] = f[j] => i = j
    /\ \A i, j \in 1..Len(f) : i < j =>
          \A x, y \in 1..Len(nodes) : Sits(f[i], x) /\ Sits(f[j], y) => Len(loc[x]) <= Len(loc[y])

LEMMA OwnCollected ==
    ASSUME NEW loc, Shape(nodes, loc), Held(nodes, routes, loc), NEW n \in 1..Len(nodes), NEW q
    PROVE  /\ Collected(Own(n, q), loc, Len(loc[n]))
           /\ \A i \in 1..Len(Own(n, q)) : Sits(Own(n, q)[i], n)
           /\ \A a \in 1..Len(nodes[n].routes) : Takeable(nodes[n].routes[a], q) =>
                 \E i \in 1..Len(Own(n, q)) : Own(n, q)[i] = nodes[n].routes[a]
<1>1. PICK s \in Seq(Route) : s = nodes[n].routes
  BY NodeFacts
<1>2. ASSUME NEW a \in 1..Len(s), NEW b \in 1..Len(s), s[a] = s[b] PROVE a = b
  <2>1. nodes[n].routes[a].id = nodes[n].routes[b].id
    BY <1>1, <1>2
  <2> QED
    BY <1>1, <2>1, HeldOnce
<1>3. PICK u : u = Own(n, q)
  OBVIOUS
<1>4. Kept(s, q, u, Len(s))
  BY <1>1, <1>2, <1>3, OwnFacts
<1>5. /\ u \in Seq(Route) /\ \A k \in 1..Len(u) : \E a \in 1..Len(s) : u[k] = s[a]
      /\ \A j, k \in 1..Len(u) : u[j] = u[k] => j = k
      /\ \A a \in 1..Len(s) : Takeable(s[a], q) => \E k \in 1..Len(u) : u[k] = s[a]
  BY <1>4 DEF Kept
<1>6. \A i \in 1..Len(u) : Sits(u[i], n)
  BY <1>1, <1>5 DEF Sits
<1>7. Len(loc[n]) \in Nat
  BY NodeFacts
<1>8. \A i \in 1..Len(u) : \A x \in 1..Len(nodes) : Sits(u[i], x) => x = n
  BY <1>6, SitsOnce
<1>9. Collected(u, loc, Len(loc[n]))
  <2>1. \A i \in 1..Len(u) : \E x \in 1..Len(nodes) : Sits(u[i], x) /\ Len(loc[x]) >= Len(loc[n])
    BY <1>6, <1>7
  <2>2. \A i, j \in 1..Len(u) : i < j =>
          \A x, y \in 1..Len(nodes) : Sits(u[i], x) /\ Sits(u[j], y) => Len(loc[x]) <= Len(loc[y])
    <3>1. Len(loc[n]) <= Len(loc[n])
      BY <1>7
    <3> QED
      BY <1>8, <3>1
  <2> QED
    BY <1>5, <2>1, <2>2 DEF Collected
<1> QED
  BY <1>1, <1>3, <1>5, <1>6, <1>9

\* e is u, then f.
Glued(u, f, e) ==
    /\ e \in Seq(Route) /\ Len(e) = Len(u) + Len(f) /\ Len(u) \in Nat /\ Len(f) \in Nat
    /\ \A i \in 1..Len(u) : i \in 1..Len(e) /\ e[i] = u[i]
    /\ \A i \in 1..Len(f) : Len(u) + i \in 1..Len(e) /\ e[Len(u) + i] = f[i]
    /\ \A k \in 1..Len(e) : k \in 1..Len(u) \/ \E j \in 1..Len(f) : k = Len(u) + j

LEMMA ConcatFacts ==
    ASSUME NEW u \in Seq(Route), NEW f \in Seq(Route), NEW e, e = u \o f
    PROVE  Glued(u, f, e)
<1>1. e \in Seq(Route) /\ Len(e) = Len(u) + Len(f) /\ Len(u) \in Nat /\ Len(f) \in Nat
  OBVIOUS
<1>2. \A i \in 1..Len(u) : i \in 1..Len(e) /\ e[i] = u[i]
  OBVIOUS
<1>3. \A i \in 1..Len(f) : Len(u) + i \in 1..Len(e) /\ e[Len(u) + i] = f[i]
  OBVIOUS
<1>4. \A k \in 1..Len(e) : k \in 1..Len(u) \/ \E j \in 1..Len(f) : k = Len(u) + j
  <2> TAKE k \in 1..Len(e)
  <2>1. k \in 1..Len(u) \/ (k - Len(u) \in 1..Len(f) /\ k = Len(u) + (k - Len(u)))
    BY <1>1
  <2> QED
    BY <2>1
<1> QED
  BY <1>1, <1>2, <1>3, <1>4 DEF Glued

\* A node's own routes, then those of deeper nodes.
LEMMA ConcatCollected ==
    ASSUME NEW loc, Shape(nodes, loc), Held(nodes, routes, loc), NEW n \in 1..Len(nodes),
           NEW u, Collected(u, loc, Len(loc[n])), \A i \in 1..Len(u) : Sits(u[i], n),
           NEW f, NEW k \in Nat, Collected(f, loc, k), Len(loc[n]) < k
    PROVE  Collected(u \o f, loc, Len(loc[n]))
<1>0. u \in Seq(Route) /\ f \in Seq(Route)
  BY DEF Collected
<1>1. PICK e : e = u \o f
  OBVIOUS
<1>2. /\ e \in Seq(Route) /\ Len(e) = Len(u) + Len(f) /\ Len(u) \in Nat /\ Len(f) \in Nat
      /\ \A i \in 1..Len(u) : i \in 1..Len(e) /\ e[i] = u[i]
      /\ \A i \in 1..Len(f) : Len(u) + i \in 1..Len(e) /\ e[Len(u) + i] = f[i]
      /\ \A i \in 1..Len(e) : i \in 1..Len(u) \/ \E j \in 1..Len(f) : i = Len(u) + j
  <2>1. Glued(u, f, e)
    BY ONLY <1>0, <1>1, ConcatFacts
  <2> QED
    BY <2>1 DEF Glued
<1>3. \A x \in 1..Len(nodes) : Len(loc[x]) \in Nat
  BY NodeFacts
<1>4. ASSUME NEW i \in 1..Len(u), NEW x \in 1..Len(nodes), Sits(u[i], x) PROVE x = n
  BY <1>4, SitsOnce
<1>5. ASSUME NEW j \in 1..Len(f), NEW y \in 1..Len(nodes), Sits(f[j], y) PROVE Len(loc[y]) >= k
  <2>1. PICK x \in 1..Len(nodes) : Sits(f[j], x) /\ Len(loc[x]) >= k
    BY DEF Collected
  <2>2. x = y
    BY <1>5, <2>1, SitsOnce
  <2> QED
    BY <2>1, <2>2
<1>6. \A i \in 1..Len(e) : \E x \in 1..Len(nodes) : Sits(e[i], x) /\ Len(loc[x]) >= Len(loc[n])
  <2> TAKE i \in 1..Len(e)
  <2>1. CASE i \in 1..Len(u)
    BY <1>2, <1>3, <2>1
  <2>2. ASSUME NEW j \in 1..Len(f), i = Len(u) + j
        PROVE  \E x \in 1..Len(nodes) : Sits(e[i], x) /\ Len(loc[x]) >= Len(loc[n])
    <3>1. PICK x \in 1..Len(nodes) : Sits(f[j], x) /\ Len(loc[x]) >= k
      BY DEF Collected
    <3>2. Len(loc[x]) >= Len(loc[n])
      BY <1>3, <3>1
    <3>3. e[i] = f[j]
      BY <1>2, <2>2
    <3> QED
      BY <3>1, <3>2, <3>3
  <2> QED
    BY <1>2, <2>1, <2>2
<1>7. ASSUME NEW i \in 1..Len(u), NEW j \in 1..Len(f) PROVE u[i] # f[j]
  <2> SUFFICES ASSUME u[i] = f[j] PROVE FALSE
    OBVIOUS
  <2>1. Sits(f[j], n)
    OBVIOUS
  <2>2. Len(loc[n]) >= k /\ Len(loc[n]) \in Nat
    BY <1>3, <1>5, <2>1
  <2> QED
    BY <2>2
<1>8. \A i, j \in 1..Len(e) : e[i] = e[j] => i = j
  <2> TAKE i, j \in 1..Len(e)
  <2> HAVE e[i] = e[j]
  <2>1. CASE i \in 1..Len(u) /\ j \in 1..Len(u)
    BY <1>2, <2>1 DEF Collected
  <2>2. ASSUME NEW a \in 1..Len(f), i = Len(u) + a, j \in 1..Len(u) PROVE FALSE
    <3>1. e[i] = f[a] /\ e[j] = u[j]
      BY <1>2, <2>2
    <3> QED
      BY <1>7, <2>2, <3>1
  <2>3. ASSUME NEW b \in 1..Len(f), j = Len(u) + b, i \in 1..Len(u) PROVE FALSE
    <3>1. e[j] = f[b] /\ e[i] = u[i]
      BY <1>2, <2>3
    <3> QED
      BY <1>7, <2>3, <3>1
  <2>4. ASSUME NEW a \in 1..Len(f), i = Len(u) + a, NEW b \in 1..Len(f), j = Len(u) + b
        PROVE  i = j
    <3>1. f[a] = f[b]
      BY <1>2, <2>4
    <3>2. a = b
      BY <3>1 DEF Collected
    <3> QED
      BY <2>4, <3>2
  <2> QED
    BY <1>2, <2>1, <2>2, <2>3, <2>4
<1>9. \A i, j \in 1..Len(e) : i < j =>
          \A x, y \in 1..Len(nodes) : Sits(e[i], x) /\ Sits(e[j], y) => Len(loc[x]) <= Len(loc[y])
  <2> TAKE i, j \in 1..Len(e)
  <2> HAVE i < j
  <2> TAKE x, y \in 1..Len(nodes)
  <2> HAVE Sits(e[i], x) /\ Sits(e[j], y)
  <2>1. CASE i \in 1..Len(u) /\ j \in 1..Len(u)
    <3>1. x = n /\ y = n
      BY <1>2, <1>4, <2>1
    <3> QED
      BY <1>3, <3>1
  <2>2. ASSUME NEW a \in 1..Len(f), i = Len(u) + a, j \in 1..Len(u) PROVE FALSE
    BY <1>2, <2>2
  <2>3. ASSUME NEW b \in 1..Len(f), j = Len(u) + b, i \in 1..Len(u)
        PROVE  Len(loc[x]) <= Len(loc[y])
    <3>1. x = n
      BY <1>2, <1>4, <2>3
    <3>2. e[j] = f[b]
      BY <1>2, <2>3
    <3>3. Len(loc[y]) >= k
      BY <1>5, <3>2
    <3>4. Len(loc[n]) \in Nat /\ Len(loc[y]) \in Nat
      BY <1>3
    <3>5. Len(loc[n]) <= Len(loc[y])
      BY <3>3, <3>4
    <3> QED
      BY <3>1, <3>5
  <2>4. ASSUME NEW a \in 1..Len(f), i = Len(u) + a, NEW b \in 1..Len(f), j = Len(u) + b
        PROVE  Len(loc[x]) <= Len(loc[y])
    <3>1. e[i] = f[a] /\ e[j] = f[b]
      BY <1>2, <2>4
    <3>2. a < b
      <4>1. Len(u) \in Nat /\ Len(f) \in Nat /\ Len(u) + a < Len(u) + b
        BY <1>2, <2>4
      <4>2. a \in Nat /\ b \in Nat
        BY <4>1
      <4>3. PICK z \in Nat : z = Len(u)
        BY <4>1
      <4>4. z + a < z + b
        BY <4>1, <4>3
      <4> QED
        BY ONLY <4>2, <4>4, z \in Nat
    <3> QED
      BY <3>1, <3>2 DEF Collected
  <2> QED
    BY <1>2, <2>1, <2>2, <2>3, <2>4
<1>10. Collected(e, loc, Len(loc[n]))
  BY <1>2, <1>6, <1>8, <1>9 DEF Collected
<1> QED
  BY <1>1, <1>10

\* Fitting is at most one child, and on the way.
LEMMA FittingFacts ==
    ASSUME NEW loc, Shape(nodes, loc), NEW q \in Seq(Chars), NEW p \in Places(q),
           NEW c \in nodes[p[1]].children
    PROVE  /\ p[1] \in 1..Len(nodes) /\ p[2] \in 0..Len(q)
           /\ c \in Fitting(p, q) <=> Pre(nodes[c].path, Drop(q, p[2]))
<1>1. DOMAIN nodes = 1..Len(nodes)
  BY DEF Shape
<1>2. p[1] \in 1..Len(nodes) /\ p[2] \in 0..Len(q)
  BY <1>1 DEF Places
<1>3. nodes[c].path \in Seq(Chars) /\ Drop(q, p[2]) \in Seq(Chars)
  BY <1>2, ChildFacts, DropFacts
<1>4. IsPrefix(nodes[c].path, Drop(q, p[2])) <=> Pre(nodes[c].path, Drop(q, p[2]))
  BY <1>3, PrefixIsPre
<1>5. c \in Fitting(p, q) <=> IsPrefix(nodes[c].path, Drop(q, p[2]))
  BY DEF Fitting
<1> QED
  BY <1>2, <1>4, <1>5

LEMMA FittingOnce ==
    ASSUME NEW loc, Shape(nodes, loc), NEW q \in Seq(Chars), NEW p \in Places(q),
           NEW c \in Fitting(p, q), NEW d \in Fitting(p, q)
    PROVE  c = d
<1>1. c \in nodes[p[1]].children /\ d \in nodes[p[1]].children
  BY DEF Fitting
<1>2. p[1] \in 1..Len(nodes) /\ Pre(nodes[c].path, Drop(q, p[2])) /\ Pre(nodes[d].path, Drop(q, p[2]))
  BY <1>1, FittingFacts
<1>3. /\ Len(nodes[c].path) \in Nat /\ Len(nodes[c].path) > 0
      /\ Len(nodes[d].path) \in Nat /\ Len(nodes[d].path) > 0
  BY <1>1, <1>2, ChildFacts
<1>4. 1 \in 1..Len(nodes[c].path) /\ 1 \in 1..Len(nodes[d].path)
  BY <1>3
<1>5. nodes[c].path[1] = Drop(q, p[2])[1] /\ nodes[d].path[1] = Drop(q, p[2])[1]
  BY <1>2, <1>4 DEF Pre
<1> QED
  BY <1>1, <1>2, <1>5, OneChild

\* If a node lies on the way, so does its parent, which leads to it.
LEMMA ParentOn ==
    ASSUME NEW loc, Shape(nodes, loc), NEW q \in Seq(Chars), NEW n \in 1..Len(nodes),
           NEW c \in nodes[n].children, Pre(loc[c], q)
    PROVE  /\ On(loc, <<n, Len(loc[n])>>, q) /\ c \in Fitting(<<n, Len(loc[n])>>, q)
           /\ Step(<<n, Len(loc[n])>>, c) = <<c, Len(loc[c])>> /\ Len(loc[n]) < Len(loc[c])
<1>1. /\ Len(nodes[c].path) \in Nat /\ Len(nodes[c].path) > 0 /\ c \in 1..Len(nodes)
      /\ nodes[c].path \in Seq(Chars) /\ Joins(loc[n], nodes[c].path, loc[c])
  BY ChildFacts
<1>2. Len(loc[n]) \in Nat /\ DOMAIN nodes = 1..Len(nodes)
  BY NodeFacts
<1>a. PICK N \in Nat : N = Len(loc[n])
  BY <1>2
<1>b. PICK M \in Nat : M = Len(nodes[c].path) /\ M > 0
  BY <1>1
<1>d. PICK Q \in Nat : Q = Len(q)
  OBVIOUS
<1>3. Len(loc[c]) = N + M /\ N + M <= Q
  <2>1. Len(loc[c]) = Len(loc[n]) + Len(nodes[c].path)
    BY <1>1 DEF Joins
  <2>2. Len(loc[c]) <= Len(q)
    BY DEF Pre
  <2> QED
    BY <1>a, <1>b, <1>d, <2>1, <2>2
<1>e. N \in 0..Q /\ N < N + M
  BY ONLY N \in Nat, M \in Nat, Q \in Nat, <1>b, <1>3
<1>4. Len(loc[n]) \in 0..Len(q) /\ Len(loc[n]) < Len(loc[c])
  BY <1>a, <1>d, <1>e, <1>3
<1>5. \A i \in 1..Len(loc[n]) : loc[n][i] = q[i]
  <2> TAKE i \in 1..Len(loc[n])
  <2>1. loc[c][i] = loc[n][i]
    BY <1>1 DEF Joins
  <2>2. i \in 1..Len(loc[c])
    <3>1. i \in 1..N
      BY <1>a
    <3>2. i \in 1..(N + M)
      BY ONLY N \in Nat, M \in Nat, <3>1
    <3> QED
      BY <1>3, <3>2
  <2>3. loc[c][i] = q[i]
    BY <2>2 DEF Pre
  <2> QED
    BY <2>1, <2>3
<1>6. PICK p : p = <<n, Len(loc[n])>>
  OBVIOUS
<1>7. p[1] = n /\ p[2] = Len(loc[n])
  BY <1>6
<1>8. p \in Places(q)
  BY <1>2, <1>4, <1>6 DEF Places
<1>9. On(loc, p, q)
  <2>1. Len(loc[n]) <= Len(q)
    BY <1>a, <1>d, <1>e
  <2> QED
    BY <1>5, <1>7, <1>8, <2>1 DEF On, Pre
<1>10. Step(p, c) = <<c, Len(loc[c])>>
  BY <1>3, <1>7, <1>a, <1>b DEF Step
<1>11. Pre(nodes[c].path, Drop(q, p[2]))
  <2>1. Len(Drop(q, p[2])) = Q - N /\ \A i \in 1..(Q - N) : Drop(q, p[2])[i] = q[N + i]
    <3>1. p[2] = N /\ N \in 0..Len(q)
      BY <1>7, <1>a, <1>d, <1>e
    <3>2. Len(Drop(q, N)) = Len(q) - N /\ \A i \in 1..(Len(q) - N) : Drop(q, N)[i] = q[N + i]
      BY <3>1, DropFacts
    <3> QED
      BY <1>d, <3>1, <3>2
  <2>2. M <= Q - N
    BY ONLY N \in Nat, M \in Nat, Q \in Nat, <1>3
  <2>3. \A i \in 1..M : nodes[c].path[i] = Drop(q, p[2])[i]
    <3> TAKE i \in 1..M
    <3>1. i \in 1..(Q - N) /\ N + i \in 1..(N + M)
      BY ONLY N \in Nat, M \in Nat, Q \in Nat, <2>2, i \in 1..M
    <3>2. loc[c][N + i] = nodes[c].path[i]
      BY <1>1, <1>a, <1>b DEF Joins
    <3>3. loc[c][N + i] = q[N + i]
      BY <1>3, <3>1 DEF Pre
    <3> QED
      BY <2>1, <3>1, <3>2, <3>3
  <2> QED
    BY <1>b, <2>1, <2>2, <2>3 DEF Pre
<1>12. c \in Fitting(p, q)
  BY <1>7, <1>8, <1>11, FittingFacts
<1> QED
  BY <1>4, <1>6, <1>9, <1>10, <1>12

\* Lookup collects the routes of all nodes on the way that it takes.
LEMMA LookupFacts ==
    ASSUME NEW loc, Shape(nodes, loc), Held(nodes, routes, loc), NEW q \in Seq(Chars)
    PROVE  /\ Collected(Lookup(q), loc, 0)
           /\ \A x \in 1..Len(nodes) : Pre(loc[x], q) =>
                 \A a \in 1..Len(nodes[x].routes) : Takeable(nodes[x].routes[a], q) =>
                    \E k \in 1..Len(Lookup(q)) : Lookup(q)[k] = nodes[x].routes[a]
<1> DEFINE X == Places(q)
           rank == [p \in X |-> Len(q) - p[2]]
           More == {p \in X : Fitting(p, q) # {}}
           next == [p \in X |-> Step(p, CHOOSE c \in Fitting(p, q) : TRUE)]
           own == [p \in X |-> Own(p[1], q)]
           from[p \in X] == IF Fitting(p, q) = {} THEN Own(p[1], q)
                            ELSE Own(p[1], q) \o from[Step(p, CHOOSE c \in Fitting(p, q) : TRUE)]
<1>0. Len(q) \in Nat /\ DOMAIN nodes = 1..Len(nodes)
  BY DEF Shape
<1>1. ASSUME NEW p \in X PROVE p[2] \in 0..Len(q) /\ rank[p] \in Nat /\ rank[p] <= Len(q)
  BY <1>0 DEF Places
<1>2. ASSUME NEW p \in X, p \in More
      PROVE  /\ next[p] \in X /\ rank[next[p]] < rank[p]
             /\ On(loc, p, q) => On(loc, next[p], q) /\ p[2] < next[p][2]
  <2>1. PICK c \in Fitting(p, q) : next[p] = Step(p, c)
    BY <1>2
  <2>2. c \in nodes[p[1]].children
    BY <2>1 DEF Fitting
  <2>3. Pre(nodes[c].path, Drop(q, p[2]))
    BY <2>1, <2>2, FittingFacts
  <2>4. Step(p, c) \in X /\ Len(q) - Step(p, c)[2] < Len(q) - p[2]
    BY <2>2, <2>3, StepRank
  <2>5. On(loc, p, q) => On(loc, Step(p, c), q) /\ p[2] < Step(p, c)[2]
    BY <2>2, <2>3, StepOn
  <2> QED
    BY <2>1, <2>4, <2>5
<1>3. \E g : \A p \in X : g[p] = IF p \in More THEN own[p] \o g[next[p]] ELSE own[p]
  <2>1. Walk(X, rank, More, next, Len(q))
    BY <1>0, <1>1, <1>2 DEF Walk
  <2> HIDE DEF X, rank, More, next, own
  <2> QED
    BY <2>1, CollectDefined
<1>4. \E g : g = [p \in X |-> IF Fitting(p, q) = {} THEN Own(p[1], q)
                 ELSE Own(p[1], q) \o g[Step(p, CHOOSE c \in Fitting(p, q) : TRUE)]]
  <2>1. PICK g : \A p \in X : g[p] = IF p \in More THEN own[p] \o g[next[p]] ELSE own[p]
    BY <1>3
  <2>2. PICK f : f = [p \in X |-> g[p]]
    OBVIOUS
  <2>3. \A p \in X : f[p] = IF p \in More THEN own[p] \o f[next[p]] ELSE own[p]
    <3>1. \A p \in X : f[p] = g[p]
      BY <2>2
    <3> TAKE p \in X
    <3>2. p \in More => next[p] \in X
      BY <1>2
    <3> HIDE DEF X, More, own, next
    <3> QED
      BY <2>1, <3>1, <3>2
  <2>4. \A p \in X : f[p] = IF Fitting(p, q) = {} THEN Own(p[1], q)
                 ELSE Own(p[1], q) \o f[Step(p, CHOOSE c \in Fitting(p, q) : TRUE)]
    BY <2>3
  <2>5. f = [p \in X |-> f[p]]
    BY <2>2
  <2>6. f = [p \in X |-> IF Fitting(p, q) = {} THEN Own(p[1], q)
                 ELSE Own(p[1], q) \o f[Step(p, CHOOSE c \in Fitting(p, q) : TRUE)]]
    BY <2>4, <2>5, Zenon
  <2> QED
    BY <2>6
<1>5. from = [p \in X |-> IF Fitting(p, q) = {} THEN Own(p[1], q)
                 ELSE Own(p[1], q) \o from[Step(p, CHOOSE c \in Fitting(p, q) : TRUE)]]
  BY <1>4, Zenon
<1>6. Lookup(q) = from[<<1, 0>>]
  BY DEF Lookup
<1> HIDE DEF from
<1>7. \A p \in X : from[p] = IF p \in More THEN Own(p[1], q) \o from[next[p]] ELSE Own(p[1], q)
  BY <1>5
<1> HIDE DEF X, More, next, rank
<1> DEFINE Good(p) == Collected(from[p], loc, p[2])
           Bad == {p \in X : On(loc, p, q) /\ ~Good(p)}
           Ranks == {rank[p] : p \in Bad}
<1>8. Bad = {}
  <2> SUFFICES ASSUME Bad # {} PROVE FALSE
    OBVIOUS
  <2>1. Ranks \in SUBSET Nat /\ Ranks # {}
    BY <1>1
  <2>2. PICK m \in Ranks : \A n \in Ranks : m <= n
    BY <2>1, LeastElement
  <2>3. PICK p \in Bad : m = rank[p]
    BY <2>2
  <2>4. p \in X /\ On(loc, p, q) /\ ~Good(p)
    BY <2>3
  <2>5. p[1] \in 1..Len(nodes) /\ p[2] = Len(loc[p[1]])
    BY <2>4, OnJoins
  <2>6. PICK u : u = Own(p[1], q)
    OBVIOUS
  <2>7. Collected(u, loc, p[2]) /\ \A i \in 1..Len(u) : Sits(u[i], p[1])
    BY <2>5, <2>6, OwnCollected
  <2>8. CASE p \in More
    <3>1. /\ next[p] \in X /\ rank[next[p]] < rank[p] /\ On(loc, next[p], q)
          /\ p[2] < next[p][2]
      BY <1>2, <2>4, <2>8
    <3>2. rank[next[p]] \in Nat /\ rank[p] \in Nat /\ next[p][2] \in Nat
      BY <1>0, <1>1, <2>4, <3>1
    <3>3. next[p] \notin Bad
      <4> SUFFICES ASSUME next[p] \in Bad PROVE FALSE
        OBVIOUS
      <4>1. rank[next[p]] \in Ranks
        OBVIOUS
      <4>2. rank[p] <= rank[next[p]]
        BY <2>2, <2>3, <4>1
      <4> QED
        BY <3>1, <3>2, <4>2
    <3>4. Collected(from[next[p]], loc, next[p][2])
      BY <3>1, <3>3
    <3>5. from[p] = u \o from[next[p]]
      BY <1>7, <2>4, <2>6, <2>8
    <3>6. Collected(u \o from[next[p]], loc, p[2])
      BY <2>5, <2>7, <3>1, <3>2, <3>4, ConcatCollected
    <3> QED
      BY <2>4, <3>5, <3>6
  <2>9. CASE p \notin More
    BY <1>7, <2>4, <2>6, <2>7, <2>9
  <2> QED
    BY <2>8, <2>9
<1>9. \A p \in X : On(loc, p, q) => Collected(from[p], loc, p[2])
  BY <1>8
<1>10. On(loc, <<1, 0>>, q) /\ <<1, 0>> \in X
  BY RootOn DEF On, X
<1>11. Collected(Lookup(q), loc, 0)
  <2>1. PICK p : p = <<1, 0>>
    OBVIOUS
  <2>2. p[2] = 0
    BY <2>1
  <2> QED
    BY <1>6, <1>9, <1>10, <2>1, <2>2
<1> DEFINE spot(x) == <<x, Len(loc[x])>>
           Whole(x) == \A i \in 1..Len(from[spot(x)]) :
                          \E k \in 1..Len(Lookup(q)) : Lookup(q)[k] = from[spot(x)][i]
           Lost == {x \in 1..Len(nodes) : Pre(loc[x], q) /\ ~Whole(x)}
           Depths == {Len(loc[x]) : x \in Lost}
<1>12. Lost = {}
  <2> SUFFICES ASSUME Lost # {} PROVE FALSE
    OBVIOUS
  <2>1. Depths \in SUBSET Nat /\ Depths # {}
    <3>1. \A x \in 1..Len(nodes) : Len(loc[x]) \in Nat
      BY NodeFacts
    <3> QED
      BY <3>1
  <2>2. PICK m \in Depths : \A n \in Depths : m <= n
    BY <2>1, LeastElement
  <2>3. PICK x \in Lost : m = Len(loc[x])
    BY <2>2
  <2>4. x \in 1..Len(nodes) /\ Pre(loc[x], q) /\ ~Whole(x)
    BY <2>3
  <2>5. x # 1
    <3> SUFFICES ASSUME x = 1 PROVE FALSE
      OBVIOUS
    <3>1. Len(loc[1]) = 0
      BY DEF Shape
    <3>2. from[spot(1)] = Lookup(q)
      BY <1>6, <3>1
    <3> QED
      BY <2>4, <3>2
  <2>6. PICK n \in 1..Len(nodes) : x \in nodes[n].children
    <3>1. x \in 2..Len(nodes)
      BY <1>0, <2>4, <2>5
    <3> QED
      BY <3>1 DEF Shape
  <2>7. /\ On(loc, spot(n), q) /\ x \in Fitting(spot(n), q)
        /\ Step(spot(n), x) = spot(x) /\ Len(loc[n]) < Len(loc[x])
    BY <2>4, <2>6, ParentOn
  <2>8. spot(n) \in X /\ spot(n)[1] = n
    BY <2>7 DEF On, X
  <2>9. spot(n) \in More /\ next[spot(n)] = spot(x)
    <3>1. spot(n) \in More
      BY <2>7, <2>8 DEF More
    <3>2. PICK c \in Fitting(spot(n), q) : next[spot(n)] = Step(spot(n), c)
      BY <2>7, <2>8 DEF next
    <3>3. c = x
      BY <2>7, <2>8, <3>2, FittingOnce DEF X
    <3> QED
      BY <2>7, <3>1, <3>2, <3>3
  <2>10. from[spot(n)] = Own(n, q) \o from[spot(x)]
    BY <1>7, <2>8, <2>9
  <2>11. Pre(loc[n], q) /\ Len(loc[n]) \in Nat /\ Len(loc[x]) \in Nat
    <3>1. Pre(loc[n], q)
      BY <2>7, <2>8 DEF On
    <3> QED
      BY <2>4, <3>1, NodeFacts
  <2>12. Whole(n)
    <3> SUFFICES ASSUME ~Whole(n) PROVE FALSE
      OBVIOUS
    <3>1. n \in Lost
      BY <2>11
    <3>2. Len(loc[n]) \in Depths
      BY <3>1
    <3>3. Len(loc[x]) <= Len(loc[n])
      BY <2>2, <2>3, <3>2
    <3> QED
      BY <2>7, <2>11, <3>3
  <2>13. On(loc, spot(x), q) /\ spot(x) \in X
    BY <1>2, <2>7, <2>8, <2>9
  <2>14. PICK u : u = Own(n, q)
    OBVIOUS
  <2>15. PICK f : f = from[spot(x)]
    OBVIOUS
  <2>16. u \in Seq(Route) /\ f \in Seq(Route)
    BY <1>9, <2>13, <2>14, <2>15, OwnCollected DEF Collected
  <2>17. PICK e : e = u \o f
    OBVIOUS
  <2>18. \A i \in 1..Len(f) : Len(u) + i \in 1..Len(e) /\ e[Len(u) + i] = f[i]
    <3>1. Glued(u, f, e)
      BY ONLY <2>16, <2>17, ConcatFacts
    <3> QED
      BY <3>1 DEF Glued
  <2>19. from[spot(n)] = e
    BY <2>10, <2>14, <2>15, <2>17
  <2>20. \A i \in 1..Len(e) : \E k \in 1..Len(Lookup(q)) : Lookup(q)[k] = e[i]
    BY <2>12, <2>19
  <2>21. \A i \in 1..Len(f) : \E k \in 1..Len(Lookup(q)) : Lookup(q)[k] = f[i]
    BY <2>18, <2>20
  <2> QED
    BY <2>4, <2>15, <2>21
<1>13. ASSUME NEW x \in 1..Len(nodes), Pre(loc[x], q),
              NEW a \in 1..Len(nodes[x].routes), Takeable(nodes[x].routes[a], q)
       PROVE  \E k \in 1..Len(Lookup(q)) : Lookup(q)[k] = nodes[x].routes[a]
  <2>1. Whole(x)
    BY <1>12, <1>13
  <2>2. PICK u : u = Own(x, q)
    OBVIOUS
  <2>3. PICK i \in 1..Len(u) : u[i] = nodes[x].routes[a]
    BY <1>13, <2>2, OwnCollected
  <2>4. spot(x) \in X /\ On(loc, spot(x), q) /\ spot(x)[1] = x
    <3>1. Len(loc[x]) \in Nat /\ Len(loc[x]) <= Len(q)
      BY <1>13, NodeFacts DEF Pre
    <3>2. spot(x) \in Places(q)
      BY <1>0, <3>1 DEF Places
    <3> QED
      BY <1>13, <3>2 DEF On, X
  <2>5. \E j \in 1..Len(from[spot(x)]) : from[spot(x)][j] = u[i]
    <3>1. CASE spot(x) \notin More
      BY <1>7, <2>2, <2>3, <2>4, <3>1
    <3>2. CASE spot(x) \in More
      <4>1. PICK f : f = from[next[spot(x)]]
        OBVIOUS
      <4>2. u \in Seq(Route) /\ f \in Seq(Route)
        <5>1. next[spot(x)] \in X /\ On(loc, next[spot(x)], q)
          BY <1>2, <2>4, <3>2
        <5> QED
          BY <1>9, <2>2, <4>1, <5>1, OwnCollected DEF Collected
      <4>3. PICK e : e = u \o f
        OBVIOUS
      <4>4. \A j \in 1..Len(u) : j \in 1..Len(e) /\ e[j] = u[j]
        <5>1. Glued(u, f, e)
          BY ONLY <4>2, <4>3, ConcatFacts
        <5> QED
          BY <5>1 DEF Glued
      <4>5. from[spot(x)] = e
        BY <1>7, <2>2, <2>4, <3>2, <4>1, <4>3
      <4> QED
        BY <2>3, <4>4, <4>5
    <3> QED
      BY <3>1, <3>2
  <2> QED
    BY <2>1, <2>3, <2>5
<1> QED
  BY <1>11, <1>13

-----------------------------------------------------------------------------
(* The radix tree: its invariant.                                          *)

TreeInv == \E loc : Shape(nodes, loc) /\ Held(nodes, routes, loc)

LEMMA InitTree == TreeInit => TreeInv
<1> SUFFICES ASSUME TreeInit PROVE TreeInv
  OBVIOUS
<1>1. nodes = <<Node(<<Slash>>, <<>>, {})>> /\ routes = <<>>
  BY DEF TreeInit
<1>2. PICK x : x = Node(<<Slash>>, <<>>, {})
  OBVIOUS
<1>3. x \in TreeNode /\ x.routes = <<>> /\ x.children = {}
  <2>1. <<Slash>> \in Seq(Chars)
    BY PathsAssumption
  <2>2. <<>> \in Seq(Route) /\ {} \in SUBSET Nat
    OBVIOUS
  <2> QED
    BY <1>2, <2>1, <2>2 DEF Node, TreeNode
<1>4. nodes \in Seq(TreeNode) /\ Len(nodes) = 1 /\ nodes[1] = x
  BY <1>1, <1>2, <1>3
<1>5. PICK loc : loc = [n \in 1..1 |-> <<>>]
  OBVIOUS
<1>6. loc \in [1..1 -> Seq(Chars)] /\ loc[1] = <<>>
  <2>1. <<>> \in Seq(Chars)
    OBVIOUS
  <2> QED
    BY <1>5, <2>1
<1>7. \A n \in 1..1 : n = 1
  OBVIOUS
<1>8. 2..1 = {} /\ 1 >= 1
  OBVIOUS
<1>9. Shape(nodes, loc)
  BY <1>3, <1>4, <1>6, <1>7, <1>8 DEF Shape
<1>10. routes \in Seq(Route) /\ Len(routes) = 0
  BY <1>1
<1>11. Len(x.routes) = 0 /\ 1..0 = {}
  BY <1>3
<1>12. Held(nodes, routes, loc)
  BY <1>4, <1>7, <1>10, <1>11 DEF Held
<1> QED
  BY <1>9, <1>12 DEF TreeInv

LEMMA NextTree == TreeInv /\ [Insert]_treeVars => TreeInv'
<1>1. ASSUME TreeInv, Insert PROVE TreeInv'
  <2>1. PICK loc : Shape(nodes, loc) /\ Held(nodes, routes, loc)
    BY <1>1 DEF TreeInv
  <2>2. PICK r : /\ \E k \in RouteKinds :
                       r = [id |-> Len(routes) + 1, kind |-> k.kind, path |-> k.path, only |-> k.only]
                 /\ routes' = Append(routes, r) /\ nodes' = InsertRoute(r)
    BY <1>1 DEF Insert
  <2>3. PICK k \in RouteKinds :
           r = [id |-> Len(routes) + 1, kind |-> k.kind, path |-> k.path, only |-> k.only]
    BY <2>2
  <2>4. Len(routes) \in Nat
    BY <2>1 DEF Held
  <2>5. /\ k.kind \in {"prefix", "exact", "regex"} /\ k.path \in Seq(Chars) /\ k.only \in BOOLEAN
        /\ k.kind = "regex" => k.path = <<>>
    <3>1. <<>> \in Seq(Chars)
      OBVIOUS
    <3> QED
      BY <3>1, PathsAssumption DEF RouteKinds
  <2>6. r \in Route /\ r.id = Len(routes) + 1 /\ (r.kind = "regex" => r.path = <<>>)
    BY <2>3, <2>4, <2>5 DEF Route
  <2>7. PICK way : Shape(InsertRoute(r), way) /\ Held(InsertRoute(r), Append(routes, r), way)
    BY <2>1, <2>6, InsertKeeps
  <2>8. Shape(nodes', way) /\ Held(nodes', routes', way)
    BY <2>2, <2>7
  <2>9. (\E l : Shape(nodes, l) /\ Held(nodes, routes, l))'
    BY <2>8
  <2> QED
    BY <2>9 DEF TreeInv
<1>2. ASSUME TreeInv, UNCHANGED treeVars PROVE TreeInv'
  <2>1. PICK loc : Shape(nodes, loc) /\ Held(nodes, routes, loc)
    BY <1>2 DEF TreeInv
  <2>2. nodes' = nodes /\ routes' = routes
    BY <1>2 DEF treeVars
  <2>3. Shape(nodes', loc) /\ Held(nodes', routes', loc)
    BY <2>1, <2>2
  <2>4. (\E l : Shape(nodes, l) /\ Held(nodes, routes, l))'
    BY <2>3
  <2> QED
    BY <2>4 DEF TreeInv
<1> QED
  BY <1>1, <1>2

\* A route that fits a request lies on the way to its path.
LEMMA FitsLies ==
    ASSUME NEW q \in RequestPaths, NEW r \in Route, r.kind = "regex" => r.path = <<>>,
           MatchRule(r, q), NEW l \in Seq(Chars), Lies(r, l)
    PROVE  (r.path = l \/ r.path = Append(l, Slash)) /\ Pre(l, q) /\ Takeable(r, q)
<1>1. q \in Seq(Chars) /\ q # <<>> /\ q[1] = Slash
  BY PathsAssumption
<1>2. r.path \in Seq(Chars) /\ r.kind \in {"prefix", "exact", "regex"}
  BY DEF Route
<1>3. PICK s \in Seq(Chars) : s = r.path
  BY <1>2
<1>4. Pre(s, q) /\ Takeable(r, q)
  <2>1. CASE r.kind = "exact"
    <3>1. s = q
      BY <1>3, <2>1 DEF MatchRule
    <3> QED
      BY <1>1, <1>3, <3>1 DEF Pre, Takeable
  <2>2. CASE r.kind = "prefix"
    <3>1. IsPrefix(s, q)
      BY <1>3, <2>2 DEF MatchRule
    <3> QED
      BY <1>1, <2>2, <3>1, PrefixIsPre DEF Takeable
  <2>3. CASE r.kind = "regex"
    <3>1. s = <<>>
      BY <1>3, <2>3
    <3> QED
      BY <1>1, <2>3, <3>1 DEF Pre, Takeable
  <2> QED
    BY <1>2, <2>1, <2>2, <2>3
<1>5. s = <<>> \/ s[1] = Slash
  <2>1. Len(s) = 0 \/ 1 \in 1..Len(s)
    OBVIOUS
  <2> QED
    BY <1>1, <1>4, <2>1 DEF Pre
<1>6. Rooted(r.path) = s
  BY <1>3, <1>5 DEF Rooted
<1>7. s = l \/ s = Append(l, Slash)
  BY <1>6 DEF Lies
<1>8. Pre(l, q)
  <2>1. CASE s = l
    BY <1>4, <2>1
  <2>2. CASE s = Append(l, Slash)
    <3>1. /\ Len(s) = Len(l) + 1 /\ Len(l) \in Nat /\ Len(q) \in Nat
          /\ \A i \in 1..Len(l) : s[i] = l[i] /\ i \in 1..Len(s)
      BY <1>1, <2>2, PathsAssumption
    <3> QED
      BY <1>4, <3>1 DEF Pre
  <2> QED
    BY <1>7, <2>1, <2>2
<1> QED
  BY <1>3, <1>4, <1>7, <1>8

LEMMA ToSetFacts ==
    ASSUME NEW f \in Seq(Route), NEW r
    PROVE  r \in ToSet(f) <=> \E i \in 1..Len(f) : f[i] = r
BY DEF ToSet

\* What the tree holds and what lookup finds.
LEMMA HeldFacts ==
    ASSUME NEW loc, Shape(nodes, loc), Held(nodes, routes, loc), NEW x, NEW r, Sits(r, x)
    PROVE  /\ x \in 1..Len(nodes) /\ loc[x] \in Seq(Chars) /\ Len(loc[x]) \in Nat
           /\ r \in Route /\ r \in ToSet(routes) /\ (r.kind = "regex" => r.path = <<>>)
           /\ Lies(r, loc[x])
<1>1. PICK a \in 1..Len(nodes[x].routes) : nodes[x].routes[a] = r
  BY DEF Sits
<1>2. x \in 1..Len(nodes)
  BY DEF Sits
<1>3. /\ r.id \in 1..Len(routes) /\ r = routes[r.id] /\ Lies(r, loc[x])
  BY <1>1, <1>2 DEF Held
<1>4. routes \in Seq(Route) /\ (routes[r.id].kind = "regex" => routes[r.id].path = <<>>)
  BY <1>3 DEF Held
<1>5. r \in Route
  BY <1>3, <1>4
<1>6. r \in ToSet(routes)
  BY <1>3, <1>4, ToSetFacts
<1> QED
  BY <1>2, <1>3, <1>4, <1>5, <1>6, NodeFacts

LEMMA RouteSits ==
    ASSUME NEW loc, Held(nodes, routes, loc), NEW r \in ToSet(routes)
    PROVE  \E x \in 1..Len(nodes) : Sits(r, x)
<1>1. routes \in Seq(Route)
  BY DEF Held
<1>2. PICK k \in 1..Len(routes) : routes[k] = r
  BY <1>1, ToSetFacts
<1>3. PICK n \in 1..Len(nodes) : \E i \in 1..Len(nodes[n].routes) : nodes[n].routes[i].id = k
  BY DEF Held
<1>4. PICK i \in 1..Len(nodes[n].routes) : nodes[n].routes[i].id = k
  BY <1>3
<1>5. nodes[n].routes[i] = routes[k]
  BY <1>4 DEF Held
<1> QED
  BY <1>2, <1>5 DEF Sits

LEMMA TreeComplete == TreeInv => LookupComplete
<1> SUFFICES ASSUME TreeInv, NEW rq \in LookupRequests
             PROVE  /\ {r \in ToSet(Lookup(rq.path)) : Fits(r, rq)} = Wanted(rq)
                    /\ \A i, j \in DOMAIN Lookup(rq.path) :
                          i # j => Lookup(rq.path)[i] # Lookup(rq.path)[j]
  BY DEF LookupComplete
<1>1. PICK loc : Shape(nodes, loc) /\ Held(nodes, routes, loc)
  BY DEF TreeInv
<1>2. PICK q : q = rq.path
  OBVIOUS
<1>3. q \in RequestPaths /\ q \in Seq(Chars)
  BY <1>2, PathsAssumption DEF LookupRequests
<1>4. PICK f : f = Lookup(q)
  OBVIOUS
<1>5. Collected(f, loc, 0)
  BY <1>1, <1>3, <1>4, LookupFacts
<1>6. f \in Seq(Route) /\ DOMAIN f = 1..Len(f)
  BY <1>5 DEF Collected
<1>7. ASSUME NEW r \in ToSet(f) PROVE r \in ToSet(routes)
  <2>1. PICK i \in 1..Len(f) : f[i] = r
    BY <1>6, ToSetFacts
  <2>2. PICK x \in 1..Len(nodes) : Sits(r, x)
    BY <1>5, <2>1 DEF Collected
  <2> QED
    BY <1>1, <2>2, HeldFacts
<1>8. ASSUME NEW r \in ToSet(routes), Fits(r, rq) PROVE r \in ToSet(f)
  <2>1. PICK x \in 1..Len(nodes) : Sits(r, x)
    BY <1>1, RouteSits
  <2>2. /\ loc[x] \in Seq(Chars) /\ r \in Route /\ (r.kind = "regex" => r.path = <<>>)
        /\ Lies(r, loc[x])
    BY <1>1, <2>1, HeldFacts
  <2>3. MatchRule(r, q)
    BY <1>2, <1>8 DEF Fits
  <2>4. Pre(loc[x], q) /\ Takeable(r, q)
    BY <1>3, <2>2, <2>3, FitsLies
  <2>5. PICK a \in 1..Len(nodes[x].routes) : nodes[x].routes[a] = r
    BY <2>1 DEF Sits
  <2>6. \E k \in 1..Len(f) : f[k] = r
    BY <1>1, <1>3, <1>4, <2>4, <2>5, LookupFacts
  <2> QED
    BY <1>6, <2>6, ToSetFacts
<1>9. {r \in ToSet(f) : Fits(r, rq)} = Wanted(rq)
  BY <1>7, <1>8 DEF Wanted
<1>10. \A i, j \in DOMAIN f : i # j => f[i] # f[j]
  BY <1>5, <1>6 DEF Collected
<1> QED
  BY <1>2, <1>4, <1>9, <1>10

LEMMA TrimmedLen ==
    ASSUME NEW s \in Seq(Chars), NEW l \in Seq(Chars), s = l \/ s = Append(l, Slash)
    PROVE  Len(Trimmed(s)) <= Len(l) /\ Len(s) >= Len(l)
<1>1. Len(s) \in Nat /\ Len(l) \in Nat
  OBVIOUS
<1>2. CASE s = l
  <2>1. CASE s # <<>> /\ s[Len(s)] = Slash
    <3>1. Trimmed(s) = SubSeq(s, 1, Len(s) - 1)
      BY <2>1 DEF Trimmed, Front
    <3>0. Len(s) > 0
      BY <1>1, <2>1
    <3>2. PICK k \in Nat : k = Len(s) - 1 /\ k <= Len(s)
      <4>1. Len(s) - 1 \in Nat /\ Len(s) - 1 <= Len(s)
        BY <1>1, <3>0
      <4> QED
        BY <4>1
    <3>3. Len(SubSeq(s, 1, k)) = k
      BY <1>1, <3>2
    <3> QED
      BY <1>1, <1>2, <3>1, <3>2, <3>3
  <2>2. CASE ~(s # <<>> /\ s[Len(s)] = Slash)
    BY <1>1, <1>2, <2>2 DEF Trimmed
  <2> QED
    BY <2>1, <2>2
<1>3. CASE s = Append(l, Slash)
  <2>1. Len(s) = Len(l) + 1 /\ s[Len(l) + 1] = Slash
    BY <1>3, PathsAssumption
  <2>2. s # <<>> /\ s[Len(s)] = Slash
    BY <1>1, <2>1
  <2>3. Trimmed(s) = SubSeq(s, 1, Len(s) - 1)
    BY <2>2 DEF Trimmed, Front
  <2>4. Len(s) - 1 = Len(l) /\ Len(l) \in 0..Len(s)
    BY <1>1, <2>1
  <2>5. Len(SubSeq(s, 1, Len(l))) = Len(l)
    BY <2>4
  <2> QED
    BY <1>1, <2>1, <2>3, <2>4, <2>5
<1> QED
  BY <1>2, <1>3

LEMMA TreeLongest == TreeInv => LongestWins
<1> SUFFICES ASSUME TreeInv, NEW rq \in LookupRequests, Wanted(rq) # {}
             PROVE  /\ match(rq) \in Wanted(rq)
                    /\ \A r \in Wanted(rq) : Len(match(rq).path) >= Len(Trimmed(r.path))
  BY DEF LongestWins
<1>1. PICK loc : Shape(nodes, loc) /\ Held(nodes, routes, loc)
  BY DEF TreeInv
<1>2. PICK q : q = rq.path
  OBVIOUS
<1>3. q \in RequestPaths /\ q \in Seq(Chars)
  BY <1>2, PathsAssumption DEF LookupRequests
<1>4. PICK f : f = Lookup(q)
  OBVIOUS
<1>5. Collected(f, loc, 0)
  BY <1>1, <1>3, <1>4, LookupFacts
<1>6. f \in Seq(Route) /\ DOMAIN f = 1..Len(f) /\ Len(f) \in Nat
  BY <1>5 DEF Collected
<1>7. {r \in ToSet(f) : Fits(r, rq)} = Wanted(rq)
  BY <1>2, <1>4, TreeComplete DEF LookupComplete
<1>8. PICK fit : fit = {i \in DOMAIN f : Fits(f[i], rq)}
  OBVIOUS
<1>9. \A r \in Wanted(rq) : \E i \in fit : f[i] = r
  BY <1>6, <1>7, <1>8, ToSetFacts
<1>10. fit \in SUBSET (1..Len(f)) /\ fit # {}
  BY <1>6, <1>8, <1>9
<1>11. \E i \in fit : \A j \in fit : j <= i
  BY <1>6, <1>10, GreatestElement
<1>12. PICK i \in fit : (\A j \in fit : j <= i) /\ match(rq) = f[i]
  <2>1. match(rq) = f[CHOOSE i \in fit : \A j \in fit : j <= i]
    BY <1>2, <1>4, <1>8 DEF match
  <2> QED
    BY <1>11, <2>1
<1>13. i \in 1..Len(f) /\ Fits(f[i], rq)
  BY <1>6, <1>8, <1>12
<1>14. f[i] \in Wanted(rq)
  BY <1>6, <1>7, <1>13, ToSetFacts
<1>15. ASSUME NEW j \in fit
       PROVE  \E x \in 1..Len(nodes) :
                 /\ Sits(f[j], x) /\ Len(loc[x]) \in Nat /\ Len(f[j].path) \in Nat
                 /\ Len(Trimmed(f[j].path)) <= Len(loc[x]) /\ Len(f[j].path) >= Len(loc[x])
  <2>1. j \in 1..Len(f) /\ Fits(f[j], rq)
    BY <1>6, <1>8
  <2>2. PICK x \in 1..Len(nodes) : Sits(f[j], x)
    BY <1>5, <2>1 DEF Collected
  <2>3. PICK r : r = f[j]
    OBVIOUS
  <2>4. /\ loc[x] \in Seq(Chars) /\ Len(loc[x]) \in Nat /\ r \in Route
        /\ (r.kind = "regex" => r.path = <<>>) /\ Lies(r, loc[x])
    BY <1>1, <2>2, <2>3, HeldFacts
  <2>5. MatchRule(r, q)
    BY <1>2, <2>1, <2>3 DEF Fits
  <2>6. r.path = loc[x] \/ r.path = Append(loc[x], Slash)
    BY <1>3, <2>4, <2>5, FitsLies
  <2>7. r.path \in Seq(Chars) /\ Len(r.path) \in Nat
    BY <2>4 DEF Route
  <2>8. Len(Trimmed(r.path)) <= Len(loc[x]) /\ Len(r.path) >= Len(loc[x])
    BY <2>4, <2>6, <2>7, TrimmedLen
  <2> QED
    BY <2>2, <2>3, <2>4, <2>7, <2>8
<1>16. ASSUME NEW r \in Wanted(rq) PROVE Len(f[i].path) >= Len(Trimmed(r.path))
  <2>1. PICK j \in fit : f[j] = r
    BY <1>9
  <2>2. PICK x \in 1..Len(nodes) : /\ Sits(f[i], x) /\ Len(loc[x]) \in Nat /\ Len(f[i].path) \in Nat
                                   /\ Len(f[i].path) >= Len(loc[x])
    BY <1>15
  <2>3. PICK y \in 1..Len(nodes) : /\ Sits(f[j], y) /\ Len(loc[y]) \in Nat
                                   /\ Len(Trimmed(f[j].path)) <= Len(loc[y])
    BY <1>15
  <2>4. Len(loc[y]) <= Len(loc[x])
    <3>1. CASE i = j
      <4>1. x = y
        BY <1>1, <2>2, <2>3, <3>1, SitsOnce
      <4> QED
        BY <2>2, <4>1
    <3>2. CASE i # j
      <4>1. j \in 1..Len(f) /\ i \in 1..Len(f) /\ j < i
        BY <1>6, <1>8, <1>12, <1>13, <3>2
      <4> QED
        BY <1>5, <2>2, <2>3, <4>1 DEF Collected
    <3> QED
      BY <3>1, <3>2
  <2>5. Len(Trimmed(r.path)) \in Nat
    <3>1. r \in Route
      BY <1>6, <1>8, <2>1
    <3>2. r.path \in Seq(Chars)
      BY <3>1 DEF Route
    <3>3. Trimmed(r.path) \in Seq(Chars)
      BY <3>2 DEF Trimmed, Front
    <3> QED
      BY <3>3
  <2>6. PICK a, b, c, d \in Nat :
           /\ a = Len(f[i].path) /\ b = Len(loc[x]) /\ c = Len(loc[y]) /\ d = Len(Trimmed(r.path))
    BY <2>2, <2>3, <2>5
  <2>7. a >= b /\ c <= b /\ d <= c
    BY <2>1, <2>2, <2>3, <2>4, <2>6
  <2>8. a >= d
    BY <2>7
  <2> QED
    BY <2>6, <2>8
<1> QED
  BY <1>12, <1>14, <1>16

\* Insert, findOrCreateNode and the splits keep the tree a radix tree of the
\* routes inserted so far: every node is reached by one path, no two children
\* begin alike, and each route is in one node, the one its path leads to.
THEOREM TreeIsSound == RoutingSpec => []TreeInv
<1>1. RoutingInit => TreeInv
  BY InitTree DEF RoutingInit
<1>2. TreeInv /\ [RoutingNext]_routingVars => TreeInv'
  <2>1. [RoutingNext]_routingVars => [Insert]_treeVars
    BY DEF RoutingNext, Serve, Fill, Choose, routingVars, treeVars
  <2> QED
    BY <2>1, NextTree
<1> QED
  BY <1>1, <1>2, PTL DEF RoutingSpec

\* For any paths, any number of routes and any order of insertion, Lookup finds
\* exactly the routes of the configuration that fit a request, each once, and
\* match returns one with the longest path.
THEOREM TreeFindsAll == RoutingSpec => []MatchesScan
<1>1. TreeInv => MatchesScan
  BY TreeComplete, TreeLongest DEF MatchesScan
<1> QED
  BY <1>1, TreeIsSound, PTL
=============================================================================
