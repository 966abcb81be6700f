--------------------------- MODULE TaskGraphProofs ---------------------------
(***************************************************************************)
(* Proofs about the arrays TaskGraph builds, for task lists of any length, *)
(* and about the graphs of workflows with any number of actions.           *)
(***************************************************************************)
EXTENDS WorkFlowParser, FoldLemmas, FiniteSetTheorems, SequenceTheorems, WellFoundedInduction,
        TLAPS

(* The loop is over exactly when every edge is linked, and a node's command
   is that of the edge its list starts with. *)
LoopInv ==
    /\ state = "building" => i \in 1 .. Len(tasks)
    /\ state = "built" => i = Len(tasks) + 1
    /\ nodeInfo = firstEdge

TypeInv == TypeOK /\ LoopInv

(* TypeInv holds of the fresh arrays. *)
LEMMA TypeInvInit == Init => TypeInv
<1> SUFFICES ASSUME NEW list \in TaskLists, NewGraph(list) PROVE TypeInv
  BY DEF Init
<1>1. tasks \in Seq(TaskDesc) \ {<<>>}
  BY TaskListsAssumption DEF NewGraph
<1>2. Len(tasks) \in Nat \ {0}
  BY <1>1, EmptySeq
<1>3. QED BY <1>1, <1>2 DEF NewGraph, TypeInv, TypeOK, LoopInv, Slots, Edges, NoEdge

(* Linking an edge, or failing to, keeps TypeInv. *)
LEMMA TypeInvStep == TypeInv /\ [Next]_vars => TypeInv'
<1> SUFFICES ASSUME TypeInv, [Next]_vars PROVE TypeInv'
  OBVIOUS
<1> USE DEF TypeInv, TypeOK, LoopInv
<1>1. CASE Link
  <2>1. Len(tasks) \in Nat /\ tasks' = tasks /\ i \in 1 .. Len(tasks)
    BY <1>1 DEF Link
  <2>2. Slots' = Slots /\ Edges' = Edges
    BY <2>1 DEF Slots, Edges
  <2>3. /\ firstEdge' \in [Slots -> 0 .. Len(tasks)]
        /\ nodeInfo' \in [Slots -> 0 .. Len(tasks)]
    BY <1>1, <2>1 DEF Link
  <2>4. nextEdge' \in [Edges -> 0 .. Len(tasks)]
    BY <1>1, <2>1 DEF Link
  <2>5. /\ i' \in 1 .. Len(tasks) + 1
        /\ state' \in {"building", "built"}
        /\ state' = "building" => i' \in 1 .. Len(tasks)
        /\ state' = "built" => i' = Len(tasks) + 1
    BY <1>1, <2>1 DEF Link
  <2>6. nodeInfo' = firstEdge'
    BY <1>1 DEF Link
  <2>7. QED BY <2>1, <2>2, <2>3, <2>4, <2>5, <2>6
<1>2. CASE OutOfBounds
  BY <1>2 DEF OutOfBounds, Slots, Edges
<1>3. CASE UNCHANGED vars
  BY <1>3 DEF vars, Slots, Edges
<1>4. QED BY <1>1, <1>2, <1>3 DEF Next

(* The arrays hold edges of the list or NoEdge, whatever the tasks name. *)
THEOREM TypeCorrect == Spec => []TypeOK
<1>1. TypeInv => TypeOK
  BY DEF TypeInv
<1>2. QED BY <1>1, TypeInvInit, TypeInvStep, PTL DEF Spec

-----------------------------------------------------------------------------
(* Linking edge i makes it the head of its source's list and nothing else. *)
LEMMA ChainInvStep ==
    ASSUME TypeInv, ChainInv, [Next]_vars
    PROVE  ChainInv'
<1> USE DEF TypeInv, TypeOK, LoopInv
<1>1. CASE Link
  <2> DEFINE s == tasks[i].source
  <2>1. Len(tasks) \in Nat /\ tasks' = tasks /\ i \in 1 .. Len(tasks) /\ i' = i + 1
    BY <1>1 DEF Link
  <2>2. s \in Slots /\ Slots' = Slots
    BY <1>1, <2>1 DEF Link, Slots
  <2>3. firstEdge' = [firstEdge EXCEPT ![s] = i] /\ nextEdge' = [nextEdge EXCEPT ![i] = firstEdge[s]]
    BY <1>1 DEF Link
  <2>4. ASSUME NEW v \in Slots PROVE IsLastBefore(firstEdge[v], v, i)'
    <3>1. CASE v = s
      BY <2>1, <2>2, <2>3, <3>1 DEF IsLastBefore, NoEdge
    <3>2. CASE v # s
      <4>1. firstEdge'[v] = firstEdge[v] /\ IsLastBefore(firstEdge[v], v, i)
        BY <2>2, <2>3, <3>2 DEF ChainInv
      <4>2. \A e \in 1 .. i : tasks[e].source = v => e \in 1 .. i - 1
        BY <2>1, <3>2
      <4>3. QED BY <2>1, <4>1, <4>2 DEF IsLastBefore
    <3>3. QED BY <3>1, <3>2
  <2>5. ASSUME NEW e \in 1 .. i PROVE IsLastBefore(nextEdge[e], tasks[e].source, e)'
    <3>1. CASE e = i
      BY <2>1, <2>2, <2>3, <3>1 DEF ChainInv, IsLastBefore, Edges
    <3>2. CASE e # i
      <4>1. e \in 1 .. i - 1 /\ nextEdge'[e] = nextEdge[e]
        BY <2>1, <2>3, <3>2 DEF Edges
      <4>2. QED BY <2>1, <4>1 DEF ChainInv, IsLastBefore
    <3>3. QED BY <3>1, <3>2
  <2>6. i' - 1 = i
    BY <2>1
  <2>7. QED BY <2>2, <2>4, <2>5, <2>6 DEF ChainInv
<1>2. CASE OutOfBounds
  BY <1>2 DEF OutOfBounds, ChainInv, IsLastBefore, Slots
<1>3. CASE UNCHANGED vars
  BY <1>3 DEF vars, ChainInv, IsLastBefore, Slots
<1>4. QED BY <1>1, <1>2, <1>3 DEF Next

(* The lists of edges are exact, at every iteration and for every task
   list: each starts with the latest edge that leaves its node and links
   each edge to the one before it with the same source. *)
THEOREM ListsAreChained == Spec => []ChainInv
<1>1. Init => ChainInv
  BY DEF Init, NewGraph, ChainInv, IsLastBefore, NoEdge
<1>2. TypeInv /\ ChainInv /\ [Next]_vars => ChainInv'
  BY ChainInvStep
<1>3. QED BY <1>1, <1>2, TypeInvInit, TypeInvStep, PTL DEF Spec

-----------------------------------------------------------------------------
(* A start node has an edge of its own, so the last slot counts if it is one. *)
LEMMA TypedStartsRegistered == TypeInv => StartNodesAreRegistered
<1> SUFFICES ASSUME TypeInv, NEW v \in FindStartNodes
             PROVE  v \in 1 .. GetNodeNum /\ nodeInfo[v] # NoEdge
  BY DEF StartNodesAreRegistered
<1>1. Len(tasks) \in Nat
  BY DEF TypeInv, TypeOK
<1>2. v \in 1 .. Len(tasks) + 1 /\ firstEdge[v] # NoEdge
  BY DEF FindStartNodes, MaxNum
<1>3. nodeInfo[v] # NoEdge
  BY <1>2 DEF TypeInv, LoopInv
<1>4. v \in 1 .. GetNodeNum
  BY <1>1, <1>2 DEF GetNodeNum, MaxNum
<1>5. QED BY <1>3, <1>4

(* No start node lies beyond the nodes that run registers, though their
   number is a guess from the number of tasks, and each has a command. *)
THEOREM StartNodesRegistered == Spec => []StartNodesAreRegistered
BY TypedStartsRegistered, TypeInvInit, TypeInvStep, PTL DEF Spec

-----------------------------------------------------------------------------
(***************************************************************************)
(* The walks.  Induction along a list is by a least counterexample.        *)
(***************************************************************************)
(* Because every link leads to an earlier edge the walk is defined. *)
LEMMA WalkIsDefined ==
    ASSUME NEW n \in Nat, NEW link \in [1 .. n -> 0 .. n], \A e \in 1 .. n : link[e] < e
    PROVE  \E f : f = [e \in 0 .. n |-> IF e = NoEdge THEN <<>> ELSE <<e>> \o f[link[e]]]
<1> DEFINE Walks(f, m) == \A e \in 0 .. m : f[e] = IF e = NoEdge THEN <<>> ELSE <<e>> \o f[link[e]]
           Defined(m) == \E f : f = [e \in 0 .. m |-> f[e]] /\ Walks(f, m)
           Undefined == {m \in 0 .. n : ~Defined(m)}
<1>1. ASSUME Undefined # {} PROVE FALSE
  <2>1. PICK m \in Undefined : \A y \in Undefined : m <= y
    <3>1. Undefined \subseteq Nat
      OBVIOUS
    <3> HIDE DEF Undefined
    <3>2. QED BY <1>1, <3>1, LeastNatural
  <2>2. m \in 0 .. n
    OBVIOUS
  <2>3. CASE m = 0
    <3> DEFINE g == [e \in 0 .. 0 |-> <<>>]
    <3>1. g = [e \in 0 .. 0 |-> g[e]] /\ Walks(g, 0)
      BY DEF NoEdge
    <3>2. Defined(0)
      BY <3>1
    <3>3. QED BY <2>1, <2>3, <3>2
  <2>4. CASE m # 0
    <3>1. m - 1 \in 0 .. n /\ m - 1 \notin Undefined
      BY <2>1, <2>2, <2>4
    <3>2. PICK f : f = [e \in 0 .. m - 1 |-> f[e]] /\ Walks(f, m - 1)
      BY <3>1
    <3> DEFINE g == [e \in 0 .. m |-> IF e = m THEN <<m>> \o f[link[m]] ELSE f[e]]
    <3>3. g = [e \in 0 .. m |-> g[e]]
      OBVIOUS
    <3>4. ASSUME NEW e \in 0 .. m PROVE g[e] = IF e = NoEdge THEN <<>> ELSE <<e>> \o g[link[e]]
      <4>1. CASE e = NoEdge
        <5>1. e = 0 /\ 0 \in 0 .. m - 1 /\ 0 \in 0 .. m /\ m # 0
          BY <2>2, <2>4, <4>1 DEF NoEdge
        <5>2. f[0] = <<>>
          BY <3>2, <5>1 DEF NoEdge
        <5>3. QED BY <4>1, <5>1, <5>2
      <4>2. CASE e # NoEdge
        <5>1. e \in 1 .. n /\ link[e] \in 0 .. e - 1
          BY <2>2, <4>2 DEF NoEdge
        <5>2. link[e] \in 0 .. m - 1 /\ g[link[e]] = f[link[e]]
          BY <2>2, <5>1
        <5>3. CASE e = m
          BY <4>2, <5>2, <5>3
        <5>4. CASE e # m
          <6>1. e \in 0 .. m - 1
            BY <2>2, <5>4
          <6>2. f[e] = <<e>> \o f[link[e]]
            BY <3>2, <4>2, <6>1
          <6>3. QED BY <4>2, <5>2, <5>4, <6>2
        <5>5. QED BY <5>3, <5>4
      <4>3. QED BY <4>1, <4>2
    <3>5. Defined(m)
      <4>1. Walks(g, m)
        BY <3>4
      <4> HIDE DEF g
      <4>2. QED BY <3>3, <4>1
    <3>6. QED BY <2>1, <3>5
  <2>5. QED BY <2>3, <2>4
<1>2. Defined(n)
  BY <1>1
<1>3. PICK f : f = [e \in 0 .. n |-> f[e]] /\ Walks(f, n)
  BY <1>2
<1>4. f = [e \in 0 .. n |-> IF e = NoEdge THEN <<>> ELSE <<e>> \o f[link[e]]]
  BY <1>3
<1>5. QED BY <1>4

(* What a walk reads, once every edge is linked. *)
LEMMA WalkStep ==
    ASSUME TypeInv, ChainInv, state = "built"
    PROVE  \A e \in 0 .. Len(tasks) :
              Walk[e] = IF e = NoEdge THEN <<>> ELSE <<e>> \o Walk[nextEdge[e]]
<1>1. /\ Len(tasks) \in Nat
      /\ nextEdge \in [1 .. Len(tasks) -> 0 .. Len(tasks)]
      /\ \A e \in 1 .. Len(tasks) : nextEdge[e] < e
  BY DEF TypeInv, TypeOK, LoopInv, ChainInv, IsLastBefore, Edges
<1>2. \E f : f = [e \in 0 .. Len(tasks) |-> IF e = NoEdge THEN <<>> ELSE <<e>> \o f[nextEdge[e]]]
  BY <1>1, WalkIsDefined
<1>3. Walk = [e \in 0 .. Len(tasks) |-> IF e = NoEdge THEN <<>> ELSE <<e>> \o Walk[nextEdge[e]]]
  BY <1>2 DEF Walk
<1>4. QED BY <1>3

(* The edges that leave v up to edge e, latest first and each once. *)
ReadsEdges(walk, v, e) ==
    /\ walk \in Seq(1 .. Len(tasks))
    /\ \A p, q \in 1 .. Len(walk) : p < q => walk[p] > walk[q]
    /\ \A d \in 1 .. Len(tasks) :
          (\E p \in 1 .. Len(walk) : walk[p] = d) <=> d <= e /\ tasks[d].source = v

(* An edge before the edges that were read. *)
LEMMA ReadsOneMore ==
    ASSUME TypeInv, NEW e \in 1 .. Len(tasks), NEW x \in 0 .. e - 1, NEW walk,
           IsLastBefore(x, tasks[e].source, e), ReadsEdges(walk, tasks[e].source, x)
    PROVE  ReadsEdges(<<e>> \o walk, tasks[e].source, e)
<1> DEFINE n == Len(tasks)
           v == tasks[e].source
           more == <<e>> \o walk
<1>1. n \in Nat
  BY DEF TypeInv, TypeOK
<1>2. walk \in Seq(1 .. n) /\ <<e>> \in Seq(1 .. n) /\ Len(<<e>>) = 1 /\ Len(walk) \in Nat
  BY <1>1, LenProperties DEF ReadsEdges
<1>3. /\ more \in Seq(1 .. n) /\ Len(more) = Len(walk) + 1
      /\ more[1] = e
      /\ \A p \in 1 .. Len(walk) : more[p + 1] = walk[p]
  BY <1>2, ConcatProperties
<1>4. \A p \in 1 .. Len(walk) : walk[p] \in 1 .. n /\ walk[p] <= x /\ tasks[walk[p]].source = v
  BY <1>2, ElementOfSeq DEF ReadsEdges
<1>5. \A p \in 2 .. Len(walk) + 1 : p - 1 \in 1 .. Len(walk) /\ more[p] = walk[p - 1]
  BY <1>2, <1>3
<1> HIDE DEF more
<1>6. ASSUME NEW p \in 1 .. Len(more), NEW q \in 1 .. Len(more), p < q PROVE more[p] > more[q]
  <2>1. p \in 1 .. Len(walk) + 1 /\ q \in 2 .. Len(walk) + 1
    <3>1. Len(more) = Len(walk) + 1 /\ Len(walk) \in Nat
      BY <1>2, <1>3
    <3>2. QED BY <1>6, <3>1
  <2>2. q - 1 \in 1 .. Len(walk) /\ more[q] = walk[q - 1]
    BY <1>5, <2>1
  <2>3. CASE p = 1
    <3>1. walk[q - 1] <= x /\ walk[q - 1] \in 1 .. n
      BY <1>4, <2>2
    <3>2. QED BY <1>1, <1>3, <2>2, <2>3, <3>1
  <2>4. CASE p # 1
    <3>1. p \in 2 .. Len(walk) + 1
      BY <1>2, <2>1, <2>4
    <3>2. p - 1 \in 1 .. Len(walk) /\ more[p] = walk[p - 1]
      BY <1>5, <3>1
    <3>3. p - 1 < q - 1
      BY <1>2, <1>6, <2>1
    <3>4. QED BY <2>2, <3>2, <3>3 DEF ReadsEdges
  <2>5. QED BY <2>3, <2>4
<1>7. ASSUME NEW d \in 1 .. n
      PROVE  (\E p \in 1 .. Len(more) : more[p] = d) <=> d <= e /\ tasks[d].source = v
  <2>1. ASSUME NEW p \in 1 .. Len(more), more[p] = d PROVE d <= e /\ tasks[d].source = v
    <3>1. CASE p = 1
      BY <1>3, <2>1, <3>1
    <3>2. CASE p # 1
      <4>1. p \in 2 .. Len(walk) + 1
        <5>1. Len(more) = Len(walk) + 1 /\ Len(walk) \in Nat
          BY <1>2, <1>3
        <5>2. QED BY <2>1, <3>2, <5>1
      <4>2. p - 1 \in 1 .. Len(walk) /\ d = walk[p - 1]
        BY <1>5, <2>1, <4>1
      <4>3. d <= x /\ tasks[d].source = v
        BY <1>4, <4>2
      <4>4. QED BY <1>1, <4>3
    <3>3. QED BY <3>1, <3>2
  <2>2. ASSUME d <= e, tasks[d].source = v PROVE \E p \in 1 .. Len(more) : more[p] = d
    <3>1. CASE d = e
      BY <1>2, <1>3, <3>1
    <3>2. CASE d # e
      <4>1. d \in 1 .. e - 1 /\ d <= x
        BY <1>1, <2>2, <3>2 DEF IsLastBefore
      <4>2. PICK p \in 1 .. Len(walk) : walk[p] = d
        BY <2>2, <4>1 DEF ReadsEdges
      <4>3. p + 1 \in 1 .. Len(more) /\ more[p + 1] = d
        BY <1>2, <1>3, <4>2
      <4>4. QED BY <4>3
    <3>3. QED BY <3>1, <3>2
  <2>3. QED BY <2>1, <2>2
<1>8. QED BY <1>3, <1>6, <1>7 DEF ReadsEdges, more

(* A walk from edge e reads the edges with its source. *)
LEMMA WalkReads ==
    ASSUME TypeInv, ChainInv, state = "built"
    PROVE  \A e \in 1 .. Len(tasks) : ReadsEdges(Walk[e], tasks[e].source, e)
<1> DEFINE n == Len(tasks)
           Misread == {e \in 1 .. n : ~ReadsEdges(Walk[e], tasks[e].source, e)}
<1>1. n \in Nat /\ nextEdge \in [1 .. n -> 0 .. n]
      /\ \A e \in 1 .. n : IsLastBefore(nextEdge[e], tasks[e].source, e)
  BY DEF TypeInv, TypeOK, LoopInv, ChainInv, Edges
<1>2. ASSUME Misread # {} PROVE FALSE
  <2>1. PICK e \in Misread : \A y \in Misread : e <= y
    <3>1. Misread \subseteq Nat
      BY <1>1
    <3> HIDE DEF Misread
    <3>2. QED BY <1>2, <3>1, LeastNatural
  <2> DEFINE x == nextEdge[e]
             v == tasks[e].source
  <2>2. e \in 1 .. n /\ x \in 0 .. e - 1 /\ IsLastBefore(x, v, e)
    BY <1>1, <2>1 DEF IsLastBefore
  <2>3. Walk[e] = <<e>> \o Walk[x] /\ Walk[0] = <<>>
    <3>1. e \in 0 .. n /\ 0 \in 0 .. n /\ e # 0
      BY <1>1, <2>2
    <3>2. QED BY <3>1, WalkStep DEF NoEdge
  <2>4. ReadsEdges(Walk[x], v, x)
    <3>1. CASE x = 0
      <4>1. <<>> \in Seq(1 .. n) /\ Len(<<>>) = 0
        BY EmptySeq
      <4>2. \A d \in 1 .. n : ~(d <= x)
        BY <1>1, <3>1
      <4>3. Walk[x] = <<>>
        BY <2>3, <3>1
      <4>4. QED BY <4>1, <4>2, <4>3 DEF ReadsEdges
    <3>2. CASE x # 0
      <4>1. x \in 1 .. n /\ x < e /\ tasks[x].source = v
        BY <1>1, <2>2, <3>2 DEF IsLastBefore, NoEdge
      <4>2. x \notin Misread
        BY <2>1, <2>2, <4>1
      <4>3. QED BY <4>1, <4>2
    <3>3. QED BY <3>1, <3>2
  <2>5. ReadsEdges(<<e>> \o Walk[x], v, e)
    BY <2>2, <2>4, ReadsOneMore
  <2>6. QED BY <2>1, <2>3, <2>5
<1>3. QED BY <1>2

(* What findNodeEdges reads of a node: every edge that leaves it, once. *)
LEMMA NodeEdgesAreRead ==
    ASSUME TypeInv, ChainInv, state = "built", NEW u \in Slots
    PROVE  ReadsEdges(FindNodeEdges(u), u, Len(tasks))
<1> DEFINE n == Len(tasks)
           x == firstEdge[u]
<1>1. n \in Nat /\ x \in 0 .. n /\ IsLastBefore(x, u, n + 1)
  BY DEF TypeInv, TypeOK, LoopInv, ChainInv
<1>2. \A d \in 1 .. n : tasks[d].source = u => d <= x
  BY <1>1 DEF IsLastBefore
<1>3. FindNodeEdges(u) = Walk[x]
  BY DEF FindNodeEdges
<1>4. CASE x = 0
  <2>1. 0 \in 0 .. n
    BY <1>1
  <2>2. Walk[x] = <<>>
    BY <1>4, <2>1, WalkStep DEF NoEdge
  <2>3. <<>> \in Seq(1 .. n) /\ Len(<<>>) = 0
    BY EmptySeq
  <2>4. \A d \in 1 .. n : tasks[d].source # u
    BY <1>1, <1>2, <1>4
  <2>5. QED BY <1>3, <2>2, <2>3, <2>4 DEF ReadsEdges
<1>5. CASE x # 0
  <2>1. x \in 1 .. n /\ tasks[x].source = u
    BY <1>1, <1>5 DEF IsLastBefore, NoEdge
  <2>2. ReadsEdges(Walk[x], u, x)
    BY <2>1, WalkReads
  <2>3. \A d \in 1 .. n : (d <= n /\ tasks[d].source = u) <=> (d <= x /\ tasks[d].source = u)
    BY <1>1, <1>2
  <2>4. QED BY <1>3, <2>2, <2>3 DEF ReadsEdges
<1>6. QED BY <1>4, <1>5

(* The positions at which the edges of u lead to v are as many as the tasks
   from u to v. *)
LEMMA SignalsPerEdge ==
    ASSUME NEW u, NEW v, NEW edges, ReadsEdges(edges, u, Len(tasks)), TypeInv
    PROVE  Cardinality({p \in DOMAIN edges : tasks[edges[p]].target = v})
             = Cardinality({e \in Edges : tasks[e] = [source |-> u, target |-> v]})
<1> DEFINE n == Len(tasks)
           Positions == {p \in DOMAIN edges : tasks[edges[p]].target = v}
           Between == {e \in Edges : tasks[e] = [source |-> u, target |-> v]}
           f == [p \in Positions |-> edges[p]]
<1>1. n \in Nat /\ \A d \in 1 .. n : tasks[d] \in TaskDesc
  BY ElementOfSeq DEF TypeInv, TypeOK
<1>2. edges \in Seq(1 .. n) /\ DOMAIN edges = 1 .. Len(edges) /\ Len(edges) \in Nat
  BY LenProperties DEF ReadsEdges
<1>3. \A p \in 1 .. Len(edges) : edges[p] \in 1 .. n /\ tasks[edges[p]].source = u
  BY <1>2, ElementOfSeq DEF ReadsEdges
<1>4. \A d \in 1 .. n : tasks[d] = [source |-> tasks[d].source, target |-> tasks[d].target]
  BY <1>1 DEF TaskDesc
<1>5. ASSUME NEW p \in Positions PROVE edges[p] \in Between
  BY <1>2, <1>3, <1>4 DEF Edges
<1>6. ASSUME NEW p \in Positions, NEW q \in Positions, edges[p] = edges[q] PROVE p = q
  <2>1. p \in 1 .. Len(edges) /\ q \in 1 .. Len(edges) /\ edges[p] \in 1 .. n
    BY <1>2, <1>3
  <2>2. ~(p < q) /\ ~(q < p)
    BY <1>1, <1>6, <2>1 DEF ReadsEdges
  <2>3. QED BY <1>2, <2>1, <2>2
<1>7. ASSUME NEW e \in Between PROVE \E p \in Positions : edges[p] = e
  <2>1. e \in 1 .. n /\ e <= n /\ tasks[e].source = u /\ tasks[e].target = v
    BY <1>1 DEF Edges
  <2>2. PICK p \in 1 .. Len(edges) : edges[p] = e
    BY <2>1 DEF ReadsEdges
  <2>3. QED BY <1>2, <2>1, <2>2
<1>8. f \in Bijection(Positions, Between)
  <2> HIDE DEF Positions, Between
  <2>1. f \in [Positions -> Between]
    BY <1>5
  <2>2. \A p, q \in Positions : f[p] = f[q] => p = q
    BY <1>6
  <2>3. \A e \in Between : \E p \in Positions : f[p] = e
    BY <1>7
  <2>4. QED BY <2>1, <2>2, <2>3 DEF Bijection, Injection, Surjection, IsInjective
<1>9. IsFiniteSet(Positions)
  <2>1. IsFiniteSet(1 .. Len(edges))
    BY <1>2, FS_Interval
  <2>2. Positions \subseteq 1 .. Len(edges)
    BY <1>2
  <2>3. QED BY <2>1, <2>2, FS_Subset
<1>10. QED
  <2> HIDE DEF Positions, Between, f
  <2>1. ExistsBijection(Positions, Between)
    BY <1>8 DEF ExistsBijection
  <2>2. Cardinality(Between) = Cardinality(Positions)
    BY <1>9, <2>1, FS_Bijection
  <2>3. QED BY <2>2 DEF Positions, Between

(* Lists that are chained are read in full, which is what is scanned. *)
LEMMA ChainsSignal == TypeInv /\ ChainInv => PredecessorsAreSignallers
<1> SUFFICES ASSUME TypeInv, ChainInv, state = "built",
                    NEW u \in Slots, NEW v \in Slots, u # v
             PROVE  /\ (u \in GetPrenodes(v)) <=> (\E p \in DOMAIN GetSuccnodes(u) :
                                                        GetSuccnodes(u)[p] = v)
                    /\ Cardinality({p \in DOMAIN GetSuccnodes(u) : GetSuccnodes(u)[p] = v})
                         = Cardinality({e \in Edges : tasks[e] = [source |-> u, target |-> v]})
  BY DEF PredecessorsAreSignallers
<1> DEFINE edges == FindNodeEdges(u)
<1>1. ReadsEdges(edges, u, Len(tasks))
  BY NodeEdgesAreRead
<1>2. /\ DOMAIN GetSuccnodes(u) = DOMAIN edges
      /\ \A p \in DOMAIN edges : GetSuccnodes(u)[p] = tasks[edges[p]].target
  BY DEF GetSuccnodes
<1>3. Len(tasks) \in Nat /\ DOMAIN edges = 1 .. Len(edges)
  BY <1>1, LenProperties DEF TypeInv, TypeOK, ReadsEdges
<1> HIDE DEF edges
<1>4. (\E p \in DOMAIN edges : tasks[edges[p]].target = v)
        <=> (\E d \in 1 .. Len(tasks) : tasks[d].source = u /\ tasks[d].target = v)
  <2>1. \A d \in 1 .. Len(tasks) : (\E p \in 1 .. Len(edges) : edges[p] = d) <=> tasks[d].source = u
    BY <1>1, <1>3 DEF ReadsEdges
  <2>2. \A p \in 1 .. Len(edges) : edges[p] \in 1 .. Len(tasks)
    BY <1>1, ElementOfSeq DEF ReadsEdges
  <2>3. QED BY <1>3, <2>1, <2>2
<1>5. (u \in GetPrenodes(v)) <=> (\E d \in 1 .. Len(tasks) : tasks[d].source = u /\ tasks[d].target = v)
  BY DEF GetPrenodes, Edges
<1>6. {p \in DOMAIN GetSuccnodes(u) : GetSuccnodes(u)[p] = v}
        = {p \in DOMAIN edges : tasks[edges[p]].target = v}
  BY <1>2
<1>7. QED BY <1>1, <1>2, <1>4, <1>5, <1>6, SignalsPerEdge

(* What a node waits for and who signals it are one relation, for task
   lists of any length: the nodes that getPrenodes scans from the arrays
   are those whose lists lead to it, with one signal per task. *)
THEOREM PredecessorsSignal == Spec => []PredecessorsAreSignallers
BY ChainsSignal, ListsAreChained, TypeInvInit, TypeInvStep, PTL DEF Spec

-----------------------------------------------------------------------------
(***************************************************************************)
(* Workflows.  What a name leads to is followed from join to join, and the *)
(* actions are parsed one after the other: both are runs of a fold.        *)
(***************************************************************************)
JoinPath(w, name, path) ==
    LET n == Cardinality(DOMAIN w.joins)
    IN  /\ n \in Nat
        /\ \A k \in 0 .. n : path[k] \in STRING
        /\ path[0] = name
        /\ \A k \in 1 .. n :
              path[k] = IF path[k - 1] \in DOMAIN w.joins THEN w.joins[path[k - 1]]
                                                         ELSE path[k - 1]
        /\ GetJoinPoint(w, name) = path[n]

LEMMA JoinsAreFollowed ==
    ASSUME NEW w, IsWorkFlow(w), NEW name \in STRING
    PROVE  \E path : JoinPath(w, name, path)
<1> DEFINE n == Cardinality(DOMAIN w.joins)
           follow(x) == IF x \in DOMAIN w.joins THEN w.joins[x] ELSE x
           F == [k \in 1 .. n |-> [x \in STRING |-> follow(x)]]
           V == STRING
<1>1. n \in Nat /\ \A x \in STRING : follow(x) \in STRING
  BY FS_CardinalityType DEF IsWorkFlow
<1> HIDE DEF n
<1>2. FoldStays(V, n, F)
  BY <1>1 DEF FoldStays
<1>3. \A k \in 1 .. n, x \in V : F[k][x] = follow(x)
  OBVIOUS
<1> HIDE DEF F, V
<1>4. name \in V
  BY DEF V
<1>5. PICK g : FoldSolves(V, name, n, F, g)
  BY <1>1, <1>2, <1>4, FoldIsDefined
<1>6. FoldObeys(V, name, n, F, g)
  BY <1>5 DEF FoldSolves, FoldObeys
<1>7. PICK h : FoldRuns(V, name, n, F, h)
  BY <1>1, <1>2, <1>4, <1>6, FoldGoesThrough
<1> DEFINE p == [k \in 0 .. n |-> h[k]]
<1>8. p = [k \in 0 .. n |-> IF k = 0 THEN name ELSE follow(p[k - 1])]
  <2>1. ASSUME NEW k \in 0 .. n PROVE h[k] = IF k = 0 THEN name ELSE follow(p[k - 1])
    <3>1. CASE k = 0
      BY <1>7, <3>1 DEF FoldRuns
    <3>2. CASE k # 0
      <4>1. k \in 1 .. n /\ k - 1 \in 0 .. n
        BY <1>1, <3>2
      <4>2. h[k] = F[k][h[k - 1]] /\ h[k - 1] \in V
        BY <1>7, <4>1 DEF FoldRuns
      <4>3. QED BY <1>3, <3>2, <4>1, <4>2
    <3>3. QED BY <3>1, <3>2
  <2> HIDE DEF follow
  <2>2. QED BY <2>1
<1> HIDE DEF p
<1>9. PICK path :
         /\ path = [k \in 0 .. n |->
                       IF k = 0 THEN name
                       ELSE IF path[k - 1] \in DOMAIN w.joins THEN w.joins[path[k - 1]]
                                                              ELSE path[k - 1]]
         /\ GetJoinPoint(w, name) = path[n]
  BY <1>8 DEF GetJoinPoint, n
<1>10. /\ path[0] = name
       /\ \A k \in 1 .. n : path[k] = IF path[k - 1] \in DOMAIN w.joins THEN w.joins[path[k - 1]]
                                                                       ELSE path[k - 1]
  BY <1>1, <1>9
<1> DEFINE T == {k \in 0 .. n : path[k] \in STRING}
<1>11. 0 \in T
  BY <1>1, <1>10
<1>12. ASSUME NEW k \in 1 .. n, k - 1 \in T PROVE k \in T
  <2>1. path[k - 1] \in STRING /\ follow(path[k - 1]) \in STRING /\ path[k] = follow(path[k - 1])
    BY <1>1, <1>10, <1>12
  <2>2. QED BY <1>1, <2>1
<1>13. 0 .. n \subseteq T
  <2> HIDE DEF T
  <2>1. QED BY <1>1, <1>11, <1>12, HandedOn
<1>14. QED BY <1>1, <1>9, <1>10, <1>13 DEF JoinPath, n

(* What is no join is its own join point. *)
LEMMA NoJoinIsKept ==
    ASSUME NEW w, IsWorkFlow(w), NEW name \in STRING
    PROVE  /\ GetJoinPoint(w, name) \in STRING
           /\ name \notin DOMAIN w.joins => GetJoinPoint(w, name) = name
<1>1. PICK path : JoinPath(w, name, path)
  BY JoinsAreFollowed
<1> DEFINE n == Cardinality(DOMAIN w.joins)
           T == {k \in 0 .. n : path[k] = name}
<1>2. n \in Nat /\ n \in 0 .. n /\ GetJoinPoint(w, name) = path[n]
  BY <1>1 DEF JoinPath
<1>3. GetJoinPoint(w, name) \in STRING
  BY <1>1, <1>2 DEF JoinPath
<1>4. ASSUME name \notin DOMAIN w.joins PROVE path[n] = name
  <2>1. 0 \in T
    BY <1>1, <1>2 DEF JoinPath
  <2>2. ASSUME NEW k \in 1 .. n, k - 1 \in T PROVE k \in T
    BY <1>1, <1>2, <1>4, <2>2 DEF JoinPath
  <2>3. 0 .. n \subseteq T
    <3> HIDE DEF T, n
    <3>1. QED BY <1>2, <2>1, <2>2, HandedOn
  <2>4. QED BY <1>2, <2>3
<1>5. QED BY <1>2, <1>3, <1>4

(***************************************************************************)
(* LeadsTo is the least set that has the name and what its joins and forks *)
(* lead to: of all such sets, which Leading tells, what they share.        *)
(***************************************************************************)
Through(w) == DOMAIN w.joins \cup DOMAIN w.forks

Follows(w, name) ==
    IF name \in DOMAIN w.joins THEN {w.joins[name]}
    ELSE IF name \in DOMAIN w.forks THEN w.forks[name] ELSE {}

Leading(w, name, s) ==
    /\ s \subseteq Through(w) \cup ActionNames(w)
    /\ name \in Through(w) \cup ActionNames(w) => name \in s
    /\ \A x \in s : Follows(w, x) \cap (Through(w) \cup ActionNames(w)) \subseteq s

LEMMA LeadsToWhat ==
    ASSUME NEW w, NEW name, NEW s, Leading(w, name, s)
    PROVE  LeadsTo(w, name) =
              ActionNames(w) \cap {x \in s : \A t : Leading(w, name, t) => x \in t}
<1> DEFINE closed == {t \in SUBSET (Through(w) \cup ActionNames(w)) : Leading(w, name, t)}
<1>1. LeadsTo(w, name) = ActionNames(w) \cap {x \in UNION closed : \A t \in closed : x \in t}
  BY DEF LeadsTo, Leading, Through, Follows
<1>2. s \in closed /\ \A t : t \in closed <=> Leading(w, name, t)
  BY DEF Leading
<1> HIDE DEF closed
<1>3. QED BY <1>1, <1>2

(* A transition to the end leads to no action. *)
LEMMA EndLeadsNowhere ==
    ASSUME NEW w, NamesDiffer(w)
    PROVE  LeadsTo(w, "end") = {}
<1>1. Leading(w, "end", {})
  BY DEF Leading, NamesDiffer, Through
<1>2. QED BY <1>1, LeadsToWhat

(* What leads through joins to an action leads to that one only. *)
LEMMA JoinsLeadToOne ==
    ASSUME NEW w, IsWorkFlow(w), NamesDiffer(w), NEW name \in STRING,
           GetJoinPoint(w, name) \in ActionNames(w)
    PROVE  LeadsTo(w, name) = {GetJoinPoint(w, name)}
<1>1. PICK path : JoinPath(w, name, path)
  BY JoinsAreFollowed
<1> DEFINE n == Cardinality(DOMAIN w.joins)
           a == GetJoinPoint(w, name)
           s == {path[k] : k \in 0 .. n}
<1>2. n \in Nat /\ 0 \in 0 .. n /\ n \in 0 .. n /\ a = path[n] /\ path[0] = name
  BY <1>1 DEF JoinPath
<1>3. \A k \in 1 .. n : path[k] = IF path[k - 1] \in DOMAIN w.joins THEN w.joins[path[k - 1]]
                                                                    ELSE path[k - 1]
  BY <1>1 DEF JoinPath
<1>4. a \in ActionNames(w) /\ a \notin DOMAIN w.joins /\ a \notin DOMAIN w.forks
  BY DEF NamesDiffer
<1> HIDE DEF n, a
(* The path does not move once it left the joins, so it ends where it left them. *)
<1>5. ASSUME NEW k \in 0 .. n, path[k] \notin DOMAIN w.joins PROVE path[k] = a
  <2> DEFINE T == {d \in 0 .. n : k + d <= n => path[k + d] = path[k]}
  <2>1. 0 \in T
    BY <1>2
  <2>2. ASSUME NEW d \in 1 .. n, d - 1 \in T PROVE d \in T
    <3> SUFFICES ASSUME k + d <= n PROVE path[k + d] = path[k]
      BY <1>2
    <3>1. k + (d - 1) <= n /\ k + d \in 1 .. n /\ (k + d) - 1 = k + (d - 1)
      BY <1>2
    <3>2. path[k + (d - 1)] = path[k]
      BY <2>2, <3>1
    <3>3. QED BY <1>3, <1>5, <3>1, <3>2
  <2>3. 0 .. n \subseteq T
    <3> HIDE DEF T
    <3>1. QED BY <1>2, <2>1, <2>2, HandedOn
  <2>4. n - k \in 0 .. n /\ k + (n - k) = n
    BY <1>2
  <2>5. QED BY <1>2, <2>3, <2>4
<1>6. \A k \in 0 .. n : path[k] \in DOMAIN w.joins \/ path[k] = a
  BY <1>5
<1>7. Leading(w, name, s)
  <2>1. s \subseteq Through(w) \cup ActionNames(w)
    BY <1>4, <1>6 DEF Through
  <2>2. name \in s
    BY <1>2
  <2>3. ASSUME NEW k \in 0 .. n PROVE Follows(w, path[k]) \subseteq s
    <3>1. CASE path[k] \in DOMAIN w.joins
      <4>1. k + 1 \in 1 .. n /\ k + 1 \in 0 .. n /\ (k + 1) - 1 = k
        <5>1. k # n
          BY <1>2, <1>4, <3>1
        <5>2. QED BY <1>2, <5>1
      <4>2. Follows(w, path[k]) = {path[k + 1]}
        BY <1>3, <3>1, <4>1 DEF Follows
      <4>3. QED BY <4>1, <4>2
    <3>2. CASE path[k] \notin DOMAIN w.joins
      BY <1>4, <1>5, <3>2 DEF Follows
    <3>3. QED BY <3>1, <3>2
  <2>4. QED BY <2>1, <2>2, <2>3 DEF Leading
<1>8. ASSUME NEW t, Leading(w, name, t) PROVE a \in t
  <2> DEFINE T == {k \in 0 .. n : path[k] \in t}
  <2>1. \A k \in 0 .. n : path[k] \in Through(w) \cup ActionNames(w)
    BY <1>4, <1>6 DEF Through
  <2>2. 0 \in T
    BY <1>2, <1>8, <2>1 DEF Leading
  <2>3. ASSUME NEW k \in 1 .. n, k - 1 \in T PROVE k \in T
    <3>1. k - 1 \in 0 .. n /\ path[k - 1] \in t /\ k \in 0 .. n
      BY <1>2, <2>3
    <3>2. CASE path[k - 1] \in DOMAIN w.joins
      <4>1. Follows(w, path[k - 1]) = {path[k]}
        BY <1>3, <3>2 DEF Follows
      <4>2. path[k] \in t
        BY <1>8, <2>1, <3>1, <4>1 DEF Leading
      <4>3. QED BY <3>1, <4>2
    <3>3. CASE path[k - 1] \notin DOMAIN w.joins
      BY <1>3, <3>1, <3>3
    <3>4. QED BY <3>2, <3>3
  <2>4. 0 .. n \subseteq T
    <3> HIDE DEF T
    <3>1. QED BY <1>2, <2>2, <2>3, HandedOn
  <2>5. QED BY <1>2, <2>4
<1>9. LeadsTo(w, name) = ActionNames(w) \cap {x \in s : \A t : Leading(w, name, t) => x \in t}
  BY <1>7, LeadsToWhat
<1>10. a \in s /\ \A x \in s : x \in ActionNames(w) => x = a
  <2>1. \A x \in ActionNames(w) : x \notin DOMAIN w.joins
    BY DEF NamesDiffer
  <2>2. QED BY <1>2, <1>6, <2>1
<1> HIDE DEF s
<1>11. LeadsTo(w, name) = {a}
  BY <1>4, <1>8, <1>9, <1>10
<1>12. QED BY <1>11 DEF a

-----------------------------------------------------------------------------
(***************************************************************************)
(* Numbering.  nodeMap has each name it met once; a name that is new gets  *)
(* the next number, and no number changes.                                 *)
(***************************************************************************)
Numbered(m, names) ==
    /\ m \in Seq(names)
    /\ \A k, l \in 1 .. Len(m) : m[k] = m[l] => k = l
    /\ names = {m[k] : k \in 1 .. Len(m)}

Extended(m, p) == Len(m) <= Len(p) /\ \A k \in 1 .. Len(m) : p[k] = m[k]

(* What is appended comes last and leaves the others where they are, *)
LEMMA OneMore ==
    ASSUME NEW S, NEW m \in Seq(S), NEW x \in S
    PROVE  /\ Append(m, x) \in Seq(S) /\ Len(Append(m, x)) = Len(m) + 1
           /\ DOMAIN Append(m, x) = 1 .. Len(m) + 1
           /\ Append(m, x)[Len(m) + 1] = x
           /\ \A k \in 1 .. Len(m) : Append(m, x)[k] = m[k]
OBVIOUS

(* so the names with the new one are numbered as well. *)
LEMMA NameIsAdded ==
    ASSUME NEW names, NEW m, Numbered(m, names), NEW x
    PROVE  Numbered(WithNode(m, x), names \cup {x}) /\ Extended(m, WithNode(m, x))
<1> DEFINE n == Len(m)
           more == names \cup {x}
<1>1. m \in Seq(names) /\ n \in Nat /\ \A k \in 1 .. n : m[k] \in names
  BY DEF Numbered
<1>2. CASE \E k \in 1 .. n : m[k] = x
  <2>1. WithNode(m, x) = m /\ x \in names
    BY <1>1, <1>2 DEF WithNode, Contains
  <2>2. more = names
    BY <2>1
  <2>3. Extended(m, m)
    BY <1>1 DEF Extended
  <2>4. QED BY <2>1, <2>2, <2>3
<1>3. CASE ~ \E k \in 1 .. n : m[k] = x
  <2> DEFINE p == Append(m, x)
  <2>1. WithNode(m, x) = p
    BY <1>3 DEF WithNode, Contains
  <2>2. m \in Seq(more) /\ x \in more
    BY <1>1
  <2> HIDE DEF more
  <2>3. p \in Seq(more) /\ Len(p) = n + 1 /\ p[n + 1] = x /\ \A k \in 1 .. n : p[k] = m[k]
    BY <2>2, OneMore
  <2> HIDE DEF p
  <2>4. \A k \in 1 .. n + 1 : k \in 1 .. n \/ k = n + 1
    BY <1>1
  <2>5. ASSUME NEW k \in 1 .. n + 1, NEW l \in 1 .. n + 1, p[k] = p[l] PROVE k = l
    BY <1>3, <2>3, <2>4, <2>5 DEF Numbered
  <2>6. more = {p[k] : k \in 1 .. n + 1}
    <3>1. n + 1 \in 1 .. n + 1 /\ \A k \in 1 .. n : k \in 1 .. n + 1
      BY <1>1
    <3>2. names = {m[k] : k \in 1 .. n}
      BY DEF Numbered
    <3> HIDE DEF n
    <3>3. QED BY <2>3, <2>4, <3>1, <3>2 DEF more
  <2>7. Numbered(p, more)
    BY <2>3, <2>5, <2>6 DEF Numbered
  <2>8. Extended(m, p)
    BY <1>1, <2>3 DEF Extended
  <2>9. QED BY <2>1, <2>7, <2>8 DEF more
<1>4. QED BY <1>2, <1>3

(* A name that is looked up has a number then. *)
HasNow(m, x, p) ==
    /\ \E k \in DOMAIN p : p[k] = x
    /\ \A k \in DOMAIN m : k \in DOMAIN p /\ p[k] = m[k]

LEMMA NodeIsThere ==
    ASSUME NEW S, NEW m \in Seq(S), NEW x \in S
    PROVE  WithNode(m, x) \in Seq(S) /\ HasNow(m, x, WithNode(m, x))
<1> USE DEF HasNow
<1>1. DOMAIN m = 1 .. Len(m) /\ Len(m) \in Nat
  OBVIOUS
<1>2. CASE \E k \in 1 .. Len(m) : m[k] = x
  <2>1. WithNode(m, x) = m
    BY <1>2 DEF WithNode, Contains
  <2>2. QED BY <1>1, <1>2, <2>1
<1>3. CASE ~ \E k \in 1 .. Len(m) : m[k] = x
  <2>1. WithNode(m, x) = Append(m, x)
    BY <1>3 DEF WithNode, Contains
  <2> DEFINE p == Append(m, x)
  <2>2. /\ p \in Seq(S) /\ DOMAIN p = 1 .. Len(m) + 1 /\ p[Len(m) + 1] = x
        /\ \A k \in 1 .. Len(m) : p[k] = m[k]
    BY OneMore
  <2> HIDE DEF p
  <2>3. Len(m) + 1 \in DOMAIN p /\ \A k \in 1 .. Len(m) : k \in DOMAIN p
    BY <1>1, <2>2
  <2>4. QED BY <1>1, <2>1, <2>2, <2>3 DEF p
<1>4. QED BY <1>2, <1>3

(* The number of a name is the place it has, *)
LEMMA NameHasNumber ==
    ASSUME NEW names, NEW m, Numbered(m, names)
    PROVE  /\ DOMAIN m = 1 .. Len(m) /\ Len(m) \in Nat
           /\ \A x \in names : NodeIndex(m, x) \in 1 .. Len(m) /\ m[NodeIndex(m, x)] = x
           /\ \A k \in 1 .. Len(m) : m[k] \in names /\ NodeIndex(m, m[k]) = k
           /\ \A x, y \in names : NodeIndex(m, x) = NodeIndex(m, y) => x = y
<1>1. DOMAIN m = 1 .. Len(m) /\ Len(m) \in Nat
  BY DEF Numbered
<1>2. ASSUME NEW x \in names PROVE NodeIndex(m, x) \in 1 .. Len(m) /\ m[NodeIndex(m, x)] = x
  <2>1. \E k \in DOMAIN m : m[k] = x
    BY <1>1 DEF Numbered
  <2>2. QED BY <1>1, <2>1 DEF NodeIndex
<1>3. ASSUME NEW k \in 1 .. Len(m) PROVE m[k] \in names /\ NodeIndex(m, m[k]) = k
  <2>1. m[k] \in names
    BY DEF Numbered
  <2>2. QED BY <1>2, <2>1 DEF Numbered
<1>4. QED BY <1>1, <1>2, <1>3

(* and it keeps it. *)
LEMMA NumberIsKept ==
    ASSUME NEW names, NEW m, Numbered(m, names), NEW more, NEW p, Numbered(p, more),
           Extended(m, p), NEW x \in names
    PROVE  NodeIndex(p, x) = NodeIndex(m, x) /\ x \in more
<1> DEFINE k == NodeIndex(m, x)
<1>1. k \in 1 .. Len(m) /\ m[k] = x
  BY NameHasNumber
<1>2. k \in 1 .. Len(p) /\ p[k] = x
  <2>1. Len(m) \in Nat /\ Len(p) \in Nat
    BY NameHasNumber
  <2> HIDE DEF k
  <2>2. QED BY <1>1, <2>1 DEF Extended
<1> HIDE DEF k
<1>3. NodeIndex(p, p[k]) = k /\ p[k] \in more
  BY <1>2, NameHasNumber
<1>4. QED BY <1>2, <1>3 DEF k

(* There are as many names as numbers. *)
LEMMA NamesAreCounted ==
    ASSUME NEW names, NEW m, Numbered(m, names)
    PROVE  Cardinality(names) = Len(m)
<1> DEFINE n == Len(m)
           f == [k \in 1 .. n |-> m[k]]
<1>1. n \in Nat
  BY DEF Numbered
<1>2. f \in Bijection(1 .. n, names)
  <2>1. f \in [1 .. n -> names]
    BY DEF Numbered
  <2>2. \A k, l \in 1 .. n : f[k] = f[l] => k = l
    BY DEF Numbered
  <2>3. \A x \in names : \E k \in 1 .. n : f[k] = x
    BY DEF Numbered
  <2> HIDE DEF f, n
  <2>4. QED BY <2>1, <2>2, <2>3 DEF Bijection, Injection, Surjection, IsInjective
<1> HIDE DEF f, n
<1>3. IsFiniteSet(1 .. n) /\ Cardinality(1 .. n) = n
  <2>1. IsFiniteSet(1 .. n) /\ Cardinality(1 .. n) = IF 1 > n THEN 0 ELSE n - 1 + 1
    BY <1>1, FS_Interval
  <2>2. (IF 1 > n THEN 0 ELSE n - 1 + 1) = n
    BY <1>1
  <2>3. QED BY <2>1, <2>2
<1>4. Cardinality(names) = Cardinality(1 .. n)
  BY <1>2, <1>3, FS_Bijection DEF ExistsBijection
<1>5. QED BY <1>3, <1>4 DEF n

(***************************************************************************)
(* After k actions the tasks lead from the number of each action's name to *)
(* that of its target, and the names that were met are numbered.           *)
(***************************************************************************)
Source(w, k) == GetJoinPoint(w, w.actions[k].name)

Target(w, k) ==
    GetJoinPoint(w, IF w.actions[k].to = "end" THEN w.actions[k].name ELSE w.actions[k].to)

Met(w, k) == {Source(w, j) : j \in 1 .. k} \cup {Target(w, j) : j \in 1 .. k}

ParsedStates == [nodeMap : Seq(STRING), tasks : Seq(TaskDesc)]

TaskBetween(m, x, y) == [source |-> NodeIndex(m, x), target |-> NodeIndex(m, y)]

ParsedUpTo(w, k, s) ==
    /\ s \in ParsedStates
    /\ Numbered(s.nodeMap, Met(w, k))
    /\ Len(s.tasks) = k
    /\ \A j \in 1 .. k : s.tasks[j] = TaskBetween(s.nodeMap, Source(w, j), Target(w, j))

(* What the actions name. *)
LEMMA ActionsAreNamed ==
    ASSUME NEW w, IsWorkFlow(w)
    PROVE  /\ Len(w.actions) \in Nat \ {0} /\ DOMAIN w.actions = 1 .. Len(w.actions)
           /\ \A k \in 1 .. Len(w.actions) :
                 /\ w.actions[k] \in ActionDesc
                 /\ w.actions[k].name \in STRING /\ w.actions[k].to \in STRING
                 /\ Source(w, k) \in STRING /\ Target(w, k) \in STRING
<1>1. /\ Len(w.actions) \in Nat \ {0} /\ DOMAIN w.actions = 1 .. Len(w.actions)
      /\ \A k \in 1 .. Len(w.actions) : w.actions[k] \in ActionDesc
  BY EmptySeq DEF IsWorkFlow
<1>2. \A k \in 1 .. Len(w.actions) : w.actions[k].name \in STRING /\ w.actions[k].to \in STRING
  BY <1>1 DEF ActionDesc
<1>3. ASSUME NEW k \in 1 .. Len(w.actions) PROVE Source(w, k) \in STRING /\ Target(w, k) \in STRING
  BY <1>2, NoJoinIsKept DEF Source, Target
<1>4. QED BY <1>1, <1>2, <1>3

(* Parsing an action yields what is parsed, *)
LEMMA ParsingIsTyped ==
    ASSUME NEW w, IsWorkFlow(w), NEW s \in ParsedStates, NEW action \in ActionDesc
    PROVE  ParseAction(w, s, action) \in ParsedStates
<1> DEFINE x == GetJoinPoint(w, action.name)
           y == GetJoinPoint(w, IF action.to = "end" THEN action.name ELSE action.to)
           m == WithNode(s.nodeMap, x)
           p == WithNode(m, y)
           Names == STRING
<1>1. x \in Names /\ y \in Names
  BY NoJoinIsKept DEF ActionDesc
<1>2. s.nodeMap \in Seq(Names) /\ s.tasks \in Seq(TaskDesc)
  BY DEF ParsedStates
<1>3. ParseAction(w, s, action) = [nodeMap |-> p, tasks |-> Append(s.tasks, TaskBetween(p, x, y))]
  BY DEF ParseAction, TaskBetween
<1> HIDE DEF x, y, Names
<1>4. m \in Seq(Names) /\ HasNow(s.nodeMap, x, m)
  BY <1>1, <1>2, NodeIsThere
<1> HIDE DEF m
<1>5. p \in Seq(Names) /\ HasNow(m, y, p)
  BY <1>1, <1>4, NodeIsThere
<1>6. p \in Seq(Names) /\ (\E k \in DOMAIN p : p[k] = y) /\ \E k \in DOMAIN p : p[k] = x
  BY <1>4, <1>5 DEF HasNow
<1> HIDE DEF p
<1>7. NodeIndex(p, x) \in DOMAIN p /\ NodeIndex(p, y) \in DOMAIN p
  BY <1>6 DEF NodeIndex
<1>8. \A k \in DOMAIN p : k \in Nat
  BY <1>6
<1>9. TaskBetween(p, x, y) \in TaskDesc
  BY <1>7, <1>8 DEF TaskBetween, TaskDesc
<1>10. Append(s.tasks, TaskBetween(p, x, y)) \in Seq(TaskDesc)
  BY <1>2, <1>9
<1>11. QED BY <1>3, <1>6, <1>10 DEF ParsedStates, Names

(* and the task of action k comes after those before. *)
LEMMA ActionIsParsed ==
    ASSUME NEW w, IsWorkFlow(w), NEW k \in 1 .. Len(w.actions), NEW s, ParsedUpTo(w, k - 1, s)
    PROVE  ParsedUpTo(w, k, ParseAction(w, s, w.actions[k]))
<1> DEFINE x == Source(w, k)
           y == Target(w, k)
           m == WithNode(s.nodeMap, x)
           p == WithNode(m, y)
           old == Met(w, k - 1)
           r == ParseAction(w, s, w.actions[k])
<1>1. k \in Nat /\ k - 1 \in Nat /\ x \in STRING /\ y \in STRING /\ w.actions[k] \in ActionDesc
  BY ActionsAreNamed
<1>2. Numbered(s.nodeMap, old) /\ s \in ParsedStates /\ Len(s.tasks) = k - 1
  BY DEF ParsedUpTo
<1>3. r = [nodeMap |-> p, tasks |-> Append(s.tasks, TaskBetween(p, x, y))]
  BY DEF ParseAction, TaskBetween, Source, Target
<1>4. r \in ParsedStates
  BY <1>1, <1>2, ParsingIsTyped
<1>5. Met(w, k) = (old \cup {x}) \cup {y}
  <2>1. \A j \in 1 .. k : j \in 1 .. (k - 1) \/ j = k
    BY <1>1
  <2>2. \A j \in 1 .. (k - 1) : j \in 1 .. k
    BY <1>1
  <2>3. k \in 1 .. k
    BY <1>1
  <2>4. QED BY <2>1, <2>2, <2>3 DEF Met
<1> HIDE DEF x, y, old, r
<1>6. Numbered(m, old \cup {x}) /\ Extended(s.nodeMap, m)
  BY <1>1, <1>2, NameIsAdded
<1> HIDE DEF m
<1>7. Numbered(p, Met(w, k)) /\ Extended(m, p)
  BY <1>1, <1>5, <1>6, NameIsAdded
<1> HIDE DEF p
<1>8. Extended(s.nodeMap, p)
  <2>1. Len(s.nodeMap) \in Nat /\ Len(m) \in Nat /\ Len(p) \in Nat
    BY <1>2, <1>6, <1>7, NameHasNumber
  <2>2. QED BY <1>6, <1>7, <2>1 DEF Extended
<1>9. s.tasks \in Seq(TaskDesc) /\ TaskBetween(p, x, y) \in TaskDesc
  <2>1. s.tasks \in Seq(TaskDesc)
    BY <1>2 DEF ParsedStates
  <2>2. NodeIndex(p, x) \in Nat /\ NodeIndex(p, y) \in Nat
    <3>1. Len(p) \in Nat /\ x \in Met(w, k) /\ y \in Met(w, k)
      BY <1>5, <1>7, NameHasNumber
    <3>2. NodeIndex(p, x) \in 1 .. Len(p) /\ NodeIndex(p, y) \in 1 .. Len(p)
      BY <1>7, <3>1, NameHasNumber
    <3>3. QED BY <3>1, <3>2
  <2>3. QED BY <2>1, <2>2 DEF TaskBetween, TaskDesc
<1>10. /\ Len(r.tasks) = k /\ r.tasks[k] = TaskBetween(p, x, y) /\ r.nodeMap = p
       /\ \A j \in 1 .. (k - 1) : r.tasks[j] = s.tasks[j]
  BY <1>1, <1>2, <1>3, <1>9
<1>11. ASSUME NEW j \in 1 .. k
       PROVE  r.tasks[j] = TaskBetween(p, Source(w, j), Target(w, j))
  <2>1. CASE j = k
    BY <1>10, <2>1 DEF x, y
  <2>2. CASE j # k
    <3>1. j \in 1 .. (k - 1)
      BY <1>1, <2>2
    <3>2. Source(w, j) \in old /\ Target(w, j) \in old
      BY <3>1 DEF old, Met
    <3>3. /\ NodeIndex(p, Source(w, j)) = NodeIndex(s.nodeMap, Source(w, j))
          /\ NodeIndex(p, Target(w, j)) = NodeIndex(s.nodeMap, Target(w, j))
      BY <1>2, <1>7, <1>8, <3>2, NumberIsKept
    <3>4. r.tasks[j] = TaskBetween(s.nodeMap, Source(w, j), Target(w, j))
      BY <1>10, <3>1 DEF ParsedUpTo
    <3>5. QED BY <3>3, <3>4 DEF TaskBetween
  <2>3. QED BY <2>1, <2>2
<1>12. QED BY <1>4, <1>7, <1>10, <1>11 DEF ParsedUpTo, r

(* The whole of a workflow is parsed. *)
LEMMA WorkFlowIsParsed ==
    ASSUME NEW w, IsWorkFlow(w)
    PROVE  ParsedUpTo(w, Len(w.actions), ToNativeWorkFlow(w))
<1> DEFINE seq == w.actions
           n == Len(seq)
           V == ParsedStates
           base == [nodeMap |-> <<>>, tasks |-> <<>>]
           parse(s, action) == ParseAction(w, s, action)
           F == [k \in 1 .. n |-> [v \in V |-> parse(v, seq[k])]]
<1>1. n \in Nat /\ DOMAIN seq = 1 .. n /\ \A k \in 1 .. n : seq[k] \in ActionDesc
  BY ActionsAreNamed
<1>2. base \in V /\ ParsedUpTo(w, 0, base)
  <2>1. base \in V
    BY DEF ParsedStates
  <2>2. Numbered(<<>>, {})
    BY DEF Numbered
  <2>3. Met(w, 0) = {}
    BY DEF Met
  <2>4. base.nodeMap = <<>> /\ Len(base.tasks) = 0
    OBVIOUS
  <2> HIDE DEF base
  <2>5. \A j \in 1 .. 0 : FALSE
    OBVIOUS
  <2>6. Numbered(base.nodeMap, Met(w, 0))
    BY <2>2, <2>3, <2>4
  <2> HIDE DEF V
  <2>7. base \in ParsedStates
    BY <2>1 DEF V
  <2>8. ParsedUpTo(w, 0, base)
    BY <2>4, <2>5, <2>6, <2>7 DEF ParsedUpTo
  <2>9. QED BY <2>1, <2>8
<1>3. \A v \in V, k \in 1 .. n : parse(v, seq[k]) \in V
  BY <1>1, ParsingIsTyped
<1> HIDE DEF n, seq, V, base, parse
<1>4. FoldStays(V, n, F)
  BY <1>3 DEF FoldStays
<1>5. \A k \in 1 .. n, v \in V : F[k][v] = parse(v, seq[k])
  OBVIOUS
<1> HIDE DEF F
<1>6. PICK g : FoldSolves(V, base, n, F, g)
  BY <1>1, <1>2, <1>4, FoldIsDefined
<1>7. g = [s \in SUBSET DOMAIN seq |->
             IF s = {} THEN base ELSE parse(g[s \ {Max(s)}], seq[Max(s)])]
  <2>1. ASSUME NEW s \in SUBSET (1 .. n), s # {}
        PROVE  F[Max(s)][g[s \ {Max(s)}]] = parse(g[s \ {Max(s)}], seq[Max(s)])
    <3>1. Max(s) \in s
      BY <1>1, <2>1, MaxIsGreatest
    <3>2. g[s \ {Max(s)}] \in V
      BY <1>6 DEF FoldSolves
    <3>3. QED BY <1>5, <3>1, <3>2
  <2>2. QED BY <1>1, <1>6, <2>1 DEF FoldSolves
<1>8. PICK it :
         /\ it = [s \in SUBSET DOMAIN seq |->
                    IF s = {} THEN base ELSE parse(it[s \ {Max(s)}], seq[Max(s)])]
         /\ ToNativeWorkFlow(w) = it[DOMAIN seq]
  BY <1>7 DEF ToNativeWorkFlow, FoldLeft, MapThenFoldSet, base, parse, seq
<1>9. ASSUME NEW s \in SUBSET (1 .. n), s # {}, it[s \ {Max(s)}] \in V
      PROVE  it[s] = F[Max(s)][it[s \ {Max(s)}]]
  <2>1. Max(s) \in s
    BY <1>1, <1>9, MaxIsGreatest
  <2>2. it[s] = parse(it[s \ {Max(s)}], seq[Max(s)])
    BY <1>1, <1>8, <1>9
  <2>3. QED BY <1>5, <1>9, <2>1, <2>2
<1>10. FoldObeys(V, base, n, F, it)
  BY <1>8, <1>9 DEF FoldObeys
<1>11. PICK h : FoldRuns(V, base, n, F, h) /\ h[n] = it[1 .. n]
  BY <1>1, <1>2, <1>4, <1>10, FoldGoesThrough
<1>12. \A k \in 1 .. n : h[k] = ParseAction(w, h[k - 1], w.actions[k])
  <2>1. ASSUME NEW k \in 1 .. n PROVE h[k] = parse(h[k - 1], seq[k])
    <3>1. k - 1 \in 0 .. n /\ h[k - 1] \in V
      BY <1>1, <1>11 DEF FoldRuns
    <3>2. QED BY <1>5, <1>11, <3>1 DEF FoldRuns
  <2>2. QED BY <2>1 DEF parse, seq
<1> DEFINE T == {k \in 0 .. n : ParsedUpTo(w, k, h[k])}
<1>13. 0 \in T
  BY <1>1, <1>2, <1>11 DEF FoldRuns
<1>14. ASSUME NEW k \in 1 .. n, k - 1 \in T PROVE k \in T
  <2>1. ParsedUpTo(w, k - 1, h[k - 1]) /\ k \in 1 .. Len(w.actions) /\ k \in 0 .. n
    BY <1>1, <1>14 DEF n, seq
  <2>2. QED BY <1>12, <2>1, ActionIsParsed
<1>15. 0 .. n \subseteq T
  <2> HIDE DEF T
  <2>1. QED BY <1>1, <1>13, <1>14, HandedOn
<1>16. ParsedUpTo(w, n, h[n]) /\ ToNativeWorkFlow(w) = h[n]
  BY <1>1, <1>8, <1>11, <1>15
<1>17. QED BY <1>16 DEF n, seq

-----------------------------------------------------------------------------
(* In an ordinary workflow what an action is linked to is an action: that which
   its transition leads to, or itself at the end. *)
OrdinaryAction(w, k) ==
    /\ Source(w, k) = w.actions[k].name
    /\ Target(w, k) \in ActionNames(w)
    /\ Target(w, k) = w.actions[k].name <=> w.actions[k].to = "end"
    /\ LeadsTo(w, w.actions[k].to) = IF w.actions[k].to = "end" THEN {} ELSE {Target(w, k)}

LEMMA ActionsAreOrdinary ==
    ASSUME NEW w, IsWorkFlow(w), Ordinary(w)
    PROVE  /\ \A k \in 1 .. Len(w.actions) : OrdinaryAction(w, k)
           /\ Met(w, Len(w.actions)) = ActionNames(w)
           /\ Cardinality(ActionNames(w)) = Len(w.actions)
<1> DEFINE n == Len(w.actions)
<1>1. /\ n \in Nat /\ DOMAIN w.actions = 1 .. n
      /\ \A k \in 1 .. n : w.actions[k].name \in STRING /\ w.actions[k].to \in STRING
  BY ActionsAreNamed
<1>2. NamesDiffer(w)
  BY DEF Ordinary
<1>3. ActionNames(w) = {w.actions[k].name : k \in 1 .. n}
  BY <1>1 DEF ActionNames
<1> HIDE DEF n
<1>4. ASSUME NEW k \in 1 .. n PROVE OrdinaryAction(w, k)
  <2> DEFINE name == w.actions[k].name
             to == w.actions[k].to
  <2>1. name \in STRING /\ to \in STRING /\ name \in ActionNames(w) /\ name \notin DOMAIN w.joins
    BY <1>1, <1>2, <1>3 DEF NamesDiffer
  <2>2. GetJoinPoint(w, name) = name
    BY <2>1, NoJoinIsKept
  <2>3. CASE to = "end"
    <3>1. Target(w, k) = name /\ LeadsTo(w, to) = {}
      BY <1>2, <2>2, <2>3, EndLeadsNowhere DEF Target
    <3>2. QED BY <2>1, <2>2, <2>3, <3>1 DEF OrdinaryAction, Source
  <2>4. CASE to # "end"
    <3>1. Target(w, k) = GetJoinPoint(w, to)
      BY <2>4 DEF Target
    <3>2. GetJoinPoint(w, to) \in ActionNames(w) \ {name}
      BY <1>1, <2>4 DEF Ordinary
    <3>3. LeadsTo(w, to) = {GetJoinPoint(w, to)}
      BY <1>2, <2>1, <3>2, JoinsLeadToOne
    <3>4. QED BY <2>2, <2>4, <3>1, <3>2, <3>3 DEF OrdinaryAction, Source
  <2>5. QED BY <2>3, <2>4
<1>5. Met(w, n) = ActionNames(w)
  BY <1>3, <1>4 DEF Met, OrdinaryAction
<1>6. Cardinality(ActionNames(w)) = n
  <2> DEFINE names == [k \in 1 .. n |-> w.actions[k].name]
  <2>1. /\ names \in Seq(ActionNames(w)) /\ Len(names) = n
        /\ \A k \in 1 .. n : names[k] = w.actions[k].name
    BY <1>1, <1>3
  <2> HIDE DEF names
  <2>2. \A k, l \in 1 .. n : names[k] = names[l] => k = l
    BY <1>1, <1>2, <2>1 DEF NamesDiffer
  <2>3. ActionNames(w) = {names[k] : k \in 1 .. n}
    BY <1>3, <2>1
  <2>4. Numbered(names, ActionNames(w))
    BY <2>1, <2>2, <2>3 DEF Numbered
  <2>5. QED BY <2>1, <2>4, NamesAreCounted
<1>7. QED BY <1>4, <1>5, <1>6 DEF n

(***************************************************************************)
(* The tasks of an ordinary workflow, once they are linked: nodes 1 to n   *)
(* are its n actions, and each is the source of its own task only.         *)
(***************************************************************************)
IsLinked ==
    /\ TypeInv /\ ChainInv /\ state = "built"
    /\ IsWorkFlow(workflow) /\ Ordinary(workflow)
    /\ tasks = ToNativeWorkFlow(workflow).tasks

NodesTell ==
    /\ Len(tasks) \in Nat /\ DOMAIN workflow.actions = 1 .. Len(tasks)
    /\ ActionNames(workflow) = {workflow.actions[k].name : k \in 1 .. Len(tasks)}
    /\ \A a \in ActionNames(workflow) : NodeOf(a) \in 1 .. Len(tasks)
    /\ \A v \in 1 .. Len(tasks) : \E a \in ActionNames(workflow) : NodeOf(a) = v
    /\ \A a, b \in ActionNames(workflow) : NodeOf(a) = NodeOf(b) => a = b
    /\ \A k \in 1 .. Len(tasks) : /\ tasks[k].source = NodeOf(workflow.actions[k].name)
                                  /\ tasks[k].target = NodeOf(Target(workflow, k))
                                  /\ workflow.actions[k].name \in ActionNames(workflow)
                                  /\ OrdinaryAction(workflow, k)
    /\ \A k, l \in 1 .. Len(tasks) : tasks[k].source = tasks[l].source => k = l

LEMMA LinkedNodesTell == IsLinked => NodesTell
<1> SUFFICES ASSUME IsLinked PROVE NodesTell
  OBVIOUS
<1> DEFINE w == workflow
           n == Len(w.actions)
           A == ActionNames(w)
           s == ToNativeWorkFlow(w)
           m == s.nodeMap
<1>1. IsWorkFlow(w) /\ Ordinary(w) /\ NamesDiffer(w) /\ tasks = s.tasks
  BY DEF IsLinked, Ordinary
<1>2. /\ n \in Nat /\ DOMAIN w.actions = 1 .. n
      /\ A = {w.actions[k].name : k \in 1 .. n}
  BY <1>1, ActionsAreNamed DEF ActionNames
<1>3. (\A k \in 1 .. n : OrdinaryAction(w, k)) /\ Met(w, n) = A /\ Cardinality(A) = n
  BY <1>1, ActionsAreOrdinary
<1>4. ParsedUpTo(w, n, s)
  BY <1>1, WorkFlowIsParsed
<1>5. \A a : NodeOf(a) = NodeIndex(m, a)
  BY DEF NodeOf
<1> HIDE DEF w, n, A, s
<1>6. /\ Numbered(m, A) /\ Len(tasks) = n
      /\ \A k \in 1 .. n : tasks[k] = TaskBetween(m, Source(w, k), Target(w, k))
  BY <1>1, <1>3, <1>4 DEF ParsedUpTo
<1> HIDE DEF m
<1>7. Len(m) = n
  BY <1>3, <1>6, NamesAreCounted
<1>8. /\ \A a \in A : NodeOf(a) \in 1 .. n
      /\ \A v \in 1 .. n : m[v] \in A /\ NodeOf(m[v]) = v
      /\ \A a, b \in A : NodeOf(a) = NodeOf(b) => a = b
  BY <1>5, <1>6, <1>7, NameHasNumber
<1>9. \A k \in 1 .. n : w.actions[k].name \in A
  BY <1>2
<1>10. ASSUME NEW k \in 1 .. n
       PROVE  /\ tasks[k].source = NodeOf(w.actions[k].name)
              /\ tasks[k].target = NodeOf(Target(w, k))
  <2>1. Source(w, k) = w.actions[k].name
    BY <1>3 DEF OrdinaryAction
  <2>2. tasks[k] = TaskBetween(m, Source(w, k), Target(w, k))
    BY <1>6
  <2>3. /\ tasks[k].source = NodeIndex(m, Source(w, k))
        /\ tasks[k].target = NodeIndex(m, Target(w, k))
    BY <2>2 DEF TaskBetween
  <2>4. QED BY <1>5, <2>1, <2>3
<1>11. \A k, l \in 1 .. n : tasks[k].source = tasks[l].source => k = l
  <2> SUFFICES ASSUME NEW k \in 1 .. n, NEW l \in 1 .. n, tasks[k].source = tasks[l].source
               PROVE  k = l
    OBVIOUS
  <2>1. w.actions[k].name = w.actions[l].name
    BY <1>8, <1>9, <1>10
  <2>2. QED BY <1>1, <1>2, <2>1 DEF NamesDiffer
<1>12. \A v \in 1 .. n : \E a \in A : NodeOf(a) = v
  BY <1>8
<1>13. QED
  BY <1>2, <1>3, <1>6, <1>8, <1>9, <1>10, <1>11, <1>12 DEF NodesTell, w, n, A

(* The nodes are counted as they are, and the list of each has its one edge. *)
LEMMA ListsAreSingle ==
    ASSUME IsLinked
    PROVE  /\ GetNodeNum = Len(tasks)
           /\ firstEdge[Len(tasks) + 1] = NoEdge
           /\ \A k \in 1 .. Len(tasks) :
                 /\ firstEdge[tasks[k].source] = k /\ nodeInfo[tasks[k].source] = k
                 /\ nextEdge[k] = NoEdge
                 /\ GetSuccnodes(tasks[k].source) = <<tasks[k].target>>
<1> DEFINE n == Len(tasks)
<1>1. NodesTell /\ n \in Nat
  BY LinkedNodesTell DEF NodesTell
<1>2. /\ \A v \in 0 .. n + 1 : IsLastBefore(firstEdge[v], v, n + 1)
      /\ \A e \in 1 .. n : IsLastBefore(nextEdge[e], tasks[e].source, e)
      /\ nodeInfo = firstEdge
  <2>1. TypeInv /\ ChainInv /\ state = "built"
    BY DEF IsLinked
  <2>2. QED BY <1>1, <2>1 DEF TypeInv, LoopInv, ChainInv, Slots
<1>3. ASSUME NEW k \in 1 .. n PROVE tasks[k].source \in 1 .. n /\ tasks[k].target \in 1 .. n
  <2>1. /\ tasks[k].source = NodeOf(workflow.actions[k].name)
        /\ tasks[k].target = NodeOf(Target(workflow, k))
        /\ workflow.actions[k].name \in ActionNames(workflow) /\ OrdinaryAction(workflow, k)
        /\ \A a \in ActionNames(workflow) : NodeOf(a) \in 1 .. n
    BY <1>1 DEF NodesTell
  <2>2. Target(workflow, k) \in ActionNames(workflow)
    BY <2>1 DEF OrdinaryAction
  <2>3. QED BY <2>1, <2>2
<1>4. \A k, l \in 1 .. n : tasks[k].source = tasks[l].source => k = l
  BY <1>1 DEF NodesTell
<1>5. ASSUME NEW k \in 1 .. n
      PROVE  /\ firstEdge[tasks[k].source] = k
             /\ nextEdge[k] = NoEdge
  <2> DEFINE v == tasks[k].source
  <2>1. v \in 0 .. n + 1
    BY <1>1, <1>3
  <2>2. IsLastBefore(firstEdge[v], v, n + 1)
    BY <1>2, <2>1
  <2>3. firstEdge[v] \in 0 .. n /\ k <= firstEdge[v]
    BY <1>1, <2>2 DEF IsLastBefore
  <2>4. firstEdge[v] \in 1 .. n /\ tasks[firstEdge[v]].source = v
    BY <1>1, <2>2, <2>3 DEF IsLastBefore, NoEdge
  <2>5. firstEdge[v] = k
    BY <1>4, <2>4
  <2>6. IsLastBefore(nextEdge[k], v, k)
    BY <1>2
  <2>7. nextEdge[k] = NoEdge
    <3> SUFFICES ASSUME nextEdge[k] # NoEdge PROVE FALSE
      OBVIOUS
    <3>1. nextEdge[k] \in 1 .. n /\ nextEdge[k] < k /\ tasks[nextEdge[k]].source = v
      BY <1>1, <2>6 DEF IsLastBefore, NoEdge
    <3>2. nextEdge[k] = k
      BY <1>4, <3>1
    <3>3. QED BY <1>1, <3>1, <3>2
  <2>8. QED BY <2>5, <2>7
<1>6. firstEdge[n + 1] = NoEdge
  <2> SUFFICES ASSUME firstEdge[n + 1] # NoEdge PROVE FALSE
    OBVIOUS
  <2>1. IsLastBefore(firstEdge[n + 1], n + 1, n + 1)
    BY <1>1, <1>2
  <2>2. firstEdge[n + 1] \in 1 .. n /\ tasks[firstEdge[n + 1]].source = n + 1
    BY <1>1, <2>1 DEF IsLastBefore, NoEdge
  <2>3. n + 1 \in 1 .. n
    BY <1>3, <2>2
  <2>4. QED BY <1>1, <2>3
<1>7. GetNodeNum = n
  <2>1. GetPrenodes(n + 1) = {}
    BY <1>1, <1>3 DEF GetPrenodes, Edges
  <2>2. QED BY <1>1, <1>6, <2>1 DEF GetNodeNum, MaxNum
<1>8. ASSUME NEW k \in 1 .. n PROVE GetSuccnodes(tasks[k].source) = <<tasks[k].target>>
  <2>1. FindNodeEdges(tasks[k].source) = Walk[k]
    BY <1>5 DEF FindNodeEdges
  <2>2. Walk[k] = <<k>> \o Walk[0] /\ Walk[0] = <<>>
    <3>1. TypeInv /\ ChainInv /\ state = "built"
      BY DEF IsLinked
    <3>2. \A e \in 0 .. n : Walk[e] = IF e = NoEdge THEN <<>> ELSE <<e>> \o Walk[nextEdge[e]]
      BY <3>1, WalkStep
    <3>3. k \in 0 .. n /\ 0 \in 0 .. n /\ k # 0
      BY <1>1
    <3>4. QED BY <1>5, <3>2, <3>3 DEF NoEdge
  <2>3. Walk[k] = <<k>>
    <3>1. <<k>> \o <<>> = <<k>>
      OBVIOUS
    <3>2. QED BY <2>2, <3>1
  <2>4. GetSuccnodes(tasks[k].source) = [p \in {1} |-> tasks[k].target]
    BY <2>1, <2>3 DEF GetSuccnodes
  <2>5. <<tasks[k].target>> = [p \in {1} |-> tasks[k].target]
    OBVIOUS
  <2>6. QED BY <2>4, <2>5
<1>9. QED BY <1>2, <1>5, <1>6, <1>7, <1>8 DEF n

(* An action precedes another if its task leads to it. *)
LEMMA TasksPrecede ==
    ASSUME NodesTell, NEW a \in ActionNames(workflow), NEW b \in ActionNames(workflow)
    PROVE  (NodeOf(a) \in GetPrenodes(NodeOf(b))) <=> Precedes(workflow, a, b)
<1> DEFINE n == Len(tasks)
           name(k) == workflow.actions[k].name
<1>1. (NodeOf(a) \in GetPrenodes(NodeOf(b)))
        <=> \E k \in 1 .. n : /\ tasks[k].source = NodeOf(a)
                              /\ tasks[k].target = NodeOf(b) /\ tasks[k].source # NodeOf(b)
  BY DEF GetPrenodes, Edges
<1>2. Precedes(workflow, a, b)
        <=> \E k \in 1 .. n : name(k) = a /\ b \in LeadsTo(workflow, workflow.actions[k].to)
  BY DEF Precedes, NodesTell
<1>3. ASSUME NEW k \in 1 .. n
      PROVE  /\ tasks[k].source = NodeOf(a) /\ tasks[k].target = NodeOf(b)
                /\ tasks[k].source # NodeOf(b)
             <=> name(k) = a /\ b \in LeadsTo(workflow, workflow.actions[k].to)
  <2>1. /\ tasks[k].source = NodeOf(name(k)) /\ tasks[k].target = NodeOf(Target(workflow, k))
        /\ name(k) \in ActionNames(workflow) /\ OrdinaryAction(workflow, k)
        /\ \A x, y \in ActionNames(workflow) : NodeOf(x) = NodeOf(y) => x = y
    BY DEF NodesTell
  <2>2. /\ Target(workflow, k) \in ActionNames(workflow)
        /\ b \in LeadsTo(workflow, workflow.actions[k].to)
              <=> b = Target(workflow, k) /\ b # name(k)
    BY <2>1 DEF OrdinaryAction
  <2>3. /\ tasks[k].source = NodeOf(a) <=> name(k) = a
        /\ tasks[k].target = NodeOf(b) <=> Target(workflow, k) = b
        /\ tasks[k].source # NodeOf(b) <=> name(k) # b
    BY <2>1, <2>2
  <2>4. QED BY <2>2, <2>3
<1>4. QED BY <1>1, <1>2, <1>3

(* So it is with the graph. *)
LEMMA LinkedGraphIsWorkFlow ==
    ASSUME IsLinked
    PROVE  NodesAreActions /\ OrderIsKept /\ StartIsKept /\ EndIsKept
<1> DEFINE n == Len(tasks)
           A == ActionNames(workflow)
           name(k) == workflow.actions[k].name
<1>1. NodesTell /\ n \in Nat /\ IsWorkFlow(workflow) /\ Ordinary(workflow)
  BY LinkedNodesTell DEF NodesTell, IsLinked
<1>2. DOMAIN workflow.actions = 1 .. n /\ Cardinality(A) = n
  <2>1. DOMAIN workflow.actions = 1 .. n
    BY <1>1 DEF NodesTell
  <2>2. Len(workflow.actions) = n
    BY <1>1, <2>1, ActionsAreNamed
  <2>3. QED BY <1>1, <2>1, <2>2, ActionsAreOrdinary
<1>3. /\ A = {name(k) : k \in 1 .. n}
      /\ \A a \in A : NodeOf(a) \in 1 .. n
      /\ \A v \in 1 .. n : \E a \in A : NodeOf(a) = v
      /\ \A a, b \in A : NodeOf(a) = NodeOf(b) => a = b
      /\ \A k \in 1 .. n : /\ tasks[k].source = NodeOf(name(k)) /\ name(k) \in A
                           /\ tasks[k].target = NodeOf(Target(workflow, k))
                           /\ OrdinaryAction(workflow, k)
  BY <1>1 DEF NodesTell
<1>4. /\ GetNodeNum = n /\ firstEdge[n + 1] = NoEdge
      /\ \A k \in 1 .. n : /\ firstEdge[NodeOf(name(k))] = k /\ nodeInfo[NodeOf(name(k))] = k
                           /\ GetSuccnodes(NodeOf(name(k))) = <<NodeOf(Target(workflow, k))>>
  BY <1>3, ListsAreSingle
<1>5. \A a, b \in A : (NodeOf(a) \in GetPrenodes(NodeOf(b))) <=> Precedes(workflow, a, b)
  BY <1>1, TasksPrecede
<1>6. NodesAreActions
  <2>1. {NodeOf(a) : a \in A} = 1 .. n
    BY <1>3
  <2>2. \A k \in DOMAIN workflow.actions : nodeInfo[NodeOf(workflow.actions[k].name)] = k
    BY <1>2, <1>4
  <2>3. GetNodeNum = Cardinality(A) /\ GetNodeNum = n
    BY <1>2, <1>4
  <2> HIDE DEF n
  <2>4. QED BY <2>1, <2>2, <2>3 DEF NodesAreActions
<1>7. OrderIsKept
  BY <1>5 DEF OrderIsKept
<1>8. EndIsKept
  <2>1. ASSUME NEW k \in 1 .. n
        PROVE  (GetSuccnodes(NodeOf(name(k))) = <<NodeOf(name(k))>>)
                  <=> workflow.actions[k].to = "end"
    <3>1. OrdinaryAction(workflow, k) /\ name(k) \in A
      BY <1>3
    <3>2. /\ Target(workflow, k) \in A
          /\ Target(workflow, k) = name(k) <=> workflow.actions[k].to = "end"
      BY <3>1 DEF OrdinaryAction
    <3>3. NodeOf(Target(workflow, k)) = NodeOf(name(k)) <=> Target(workflow, k) = name(k)
      BY <1>3, <3>1, <3>2
    <3>4. GetSuccnodes(NodeOf(name(k))) = <<NodeOf(Target(workflow, k))>>
      BY <1>4
    <3>5. QED BY <3>2, <3>3, <3>4
  <2>2. QED BY <1>2, <2>1 DEF EndIsKept
<1>9. StartIsKept
  <2> DEFINE First(a) == \A b \in A : ~Precedes(workflow, b, a)
  <2>1. \A k \in 1 .. n : \E a \in A : tasks[k].source = NodeOf(a)
    BY <1>3
  <2>2. ASSUME NEW a \in A PROVE GetPrenodes(NodeOf(a)) = {} <=> First(a)
    <3>1. \A v \in GetPrenodes(NodeOf(a)) : \E b \in A : v = NodeOf(b)
      BY <2>1 DEF GetPrenodes, Edges
    <3>2. QED BY <1>5, <3>1
  <2>3. \A a \in A : firstEdge[NodeOf(a)] # NoEdge
    <3>1. \A k \in 1 .. n : k # NoEdge
      BY <1>1 DEF NoEdge
    <3>2. \A k \in 1 .. n : firstEdge[NodeOf(name(k))] = k
      BY <1>4
    <3>3. \A a \in A : \E k \in 1 .. n : a = name(k)
      BY <1>3
    <3> HIDE DEF name, A, n
    <3>4. QED BY <3>1, <3>2, <3>3
  <2>4. \A a \in A : First(a) => a \in LeadsTo(workflow, workflow.start)
    BY <1>1 DEF Ordinary
  <2>5. \A a \in LeadsTo(workflow, workflow.start) : a \in A
    BY DEF LeadsTo
  <2>6. FindStartNodes = {id \in 1 .. n + 1 : firstEdge[id] # NoEdge /\ GetPrenodes(id) = {}}
    BY DEF FindStartNodes, MaxNum
  <2> HIDE DEF First, A, n, name
  <2>7. ASSUME NEW id \in FindStartNodes
        PROVE  \E a \in LeadsTo(workflow, workflow.start) : First(a) /\ id = NodeOf(a)
    <3>1. id \in 1 .. n
      BY <1>1, <1>4, <2>6
    <3>2. PICK a \in A : NodeOf(a) = id
      BY <1>3, <3>1
    <3>3. QED BY <2>2, <2>4, <2>6, <3>2
  <2>8. ASSUME NEW a \in LeadsTo(workflow, workflow.start), First(a)
        PROVE  NodeOf(a) \in FindStartNodes
    <3>1. a \in A /\ NodeOf(a) \in 1 .. n + 1
      BY <1>1, <1>3, <2>5
    <3>2. QED BY <2>2, <2>3, <2>6, <2>8, <3>1
  <2>9. FindStartNodes = {NodeOf(a) : a \in {c \in LeadsTo(workflow, workflow.start) : First(c)}}
    BY <2>7, <2>8
  <2>10. QED BY <2>9 DEF StartIsKept, First, A
<1>10. QED BY <1>6, <1>7, <1>8, <1>9

(* Where the tasks of a job come from. *)
FlowInv ==
    workflow = NoWorkFlow \/ (workflow \in WorkFlows /\ tasks = ToNativeWorkFlow(workflow).tasks)

LEMMA WorkFlowsAreLinked == WorkFlowSpec => [](TypeInv /\ ChainInv /\ FlowInv)
<1>1. WorkFlowInit => TypeInv /\ ChainInv /\ FlowInv
  <2> SUFFICES ASSUME WorkFlowInit PROVE TypeInv /\ ChainInv /\ FlowInv
    OBVIOUS
  <2>1. CASE workflow = NoWorkFlow /\ Init
    <3>1. ChainInv
      BY <2>1 DEF Init, NewGraph, ChainInv, IsLastBefore, NoEdge
    <3>2. QED BY <2>1, <3>1, TypeInvInit DEF FlowInv
  <2>2. CASE workflow \in WorkFlows /\ NewGraph(ToNativeWorkFlow(workflow).tasks)
    <3>1. IsWorkFlow(workflow) /\ tasks = ToNativeWorkFlow(workflow).tasks
      BY <2>2, WorkFlowsAssumption DEF NewGraph
    <3>2. tasks \in Seq(TaskDesc) /\ Len(tasks) = Len(workflow.actions)
      BY <3>1, WorkFlowIsParsed DEF ParsedUpTo, ParsedStates
    <3>3. Len(tasks) \in Nat \ {0} /\ tasks # <<>>
      BY <3>1, <3>2, ActionsAreNamed
    <3>4. TypeInv
      BY <2>2, <3>2, <3>3 DEF NewGraph, TypeInv, TypeOK, LoopInv, Slots, Edges, NoEdge
    <3>5. ChainInv
      BY <2>2 DEF NewGraph, ChainInv, IsLastBefore, NoEdge
    <3>6. QED BY <2>2, <3>1, <3>4, <3>5 DEF FlowInv
  <2>3. QED BY <2>1, <2>2 DEF WorkFlowInit
<1>2. TypeInv /\ ChainInv /\ FlowInv /\ [WorkFlowNext]_<<vars, workflow>>
        => (TypeInv /\ ChainInv /\ FlowInv)'
  <2> SUFFICES ASSUME TypeInv, ChainInv, FlowInv, [WorkFlowNext]_<<vars, workflow>>
               PROVE  TypeInv' /\ ChainInv' /\ FlowInv'
    OBVIOUS
  <2>1. [Next]_vars /\ workflow' = workflow
    BY DEF WorkFlowNext
  <2>2. tasks' = tasks
    BY <2>1 DEF Next, Link, OutOfBounds, vars
  <2>3. FlowInv'
    BY <2>1, <2>2 DEF FlowInv
  <2>4. QED BY <2>1, <2>3, TypeInvStep, ChainInvStep
<1>3. QED BY <1>1, <1>2, PTL DEF WorkFlowSpec

(* The graph of a job that is submitted as a workflow has its actions for
   nodes, its order, its start and its end, for every ordinary workflow. *)
THEOREM WorkFlowIsKept == WorkFlowSpec => []GraphIsWorkFlow
<1>1. TypeInv /\ ChainInv /\ FlowInv => GraphIsWorkFlow
  <2> SUFFICES ASSUME TypeInv, ChainInv, FlowInv, state = "built", workflow # NoWorkFlow,
                      Ordinary(workflow)
               PROVE  NodesAreActions /\ OrderIsKept /\ StartIsKept /\ EndIsKept
    BY DEF GraphIsWorkFlow
  <2>1. IsLinked
    BY WorkFlowsAssumption DEF IsLinked, FlowInv
  <2>2. QED BY <2>1, LinkedGraphIsWorkFlow
<1>2. QED BY <1>1, WorkFlowsAreLinked, PTL

(* What is shown above of the graphs of task lists holds of those of
   workflows as well. *)
THEOREM WorkFlowsAsTasks ==
    WorkFlowSpec => [](TypeOK /\ ChainInv /\ StartNodesAreRegistered /\ PredecessorsAreSignallers)
<1>1. TypeInv => TypeOK
  BY DEF TypeInv
<1>2. QED
  BY <1>1, WorkFlowsAreLinked, TypedStartsRegistered, ChainsSignal, PTL

=============================================================================
