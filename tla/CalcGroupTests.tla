--------------------------- MODULE CalcGroupTests ---------------------------
(***************************************************************************)
(* A CalcGroup that is walked: FreeNode, NodeSuccess and NodeFailed, loop   *)
(* by loop where CalcExecuter says at once what they come to, and the unit  *)
(* tests of depend_calc/calc_group_unittest.cc as formulas about them.  A   *)
(* run that extends or instantiates this module evaluates them.             *)
(***************************************************************************)
EXTENDS CalcGroup, Sequences, SequencesExt

FreeNode(g) == NoIncoming(g.nodes, g.edges)

DeleteIsolateNode(g, node) == [g EXCEPT !.nodes = @ \ {node}]

\* the group that is left, and what of it is free now
NodeSuccess(g, node) ==
  LET left == [g EXCEPT !.edges = {d \in @ : d[1] # node}]
  IN [group |-> DeleteIsolateNode(left, node),
      free |-> {dest \in NoIncoming(g.nodes, left.edges) : <<node, dest>> \in g.edges}]

\* from node to node: what an edge of the first of the queue leads to is queued,
\* and every edge that leads there too goes with it
NodeFailed(g, node) ==
  LET Walk[queue \in Seq(g.nodes), edges \in SUBSET g.edges, nodes \in SUBSET g.nodes] ==
        IF queue = <<>> THEN [nodes |-> nodes, edges |-> edges]
        ELSE LET first == Head(queue)
                 dests == {dest \in g.nodes : <<first, dest>> \in edges}
             IN Walk[Tail(queue) \o SetToSeq(dests),
                     {d \in edges : d[1] # first /\ d[2] \notin dests}, nodes \ {first}]
  IN Walk[<<node>>, g.edges, g.nodes]

---------------------------------------------------------------------------
(* calc_group_unittest.cc.                                                  *)

Group(nodes, depends) ==
  FoldLeft(LAMBDA g, d : SetDepend(g, d[1], d[2]),
           FoldLeft(LAMBDA g, item : AddCalcItem(g, item), EmptyGroup, nodes), depends)
Numbered(n) == [i \in 1 .. n |-> i]

\* the items of a sequence succeed, and each sets free a set
Succeed(g, nodes, free) ==
  LET Rest[i \in 0 .. Len(nodes)] ==
        IF i = 0 THEN g ELSE NodeSuccess(Rest[i - 1], nodes[i]).group
  IN \A i \in 1 .. Len(nodes) : NodeSuccess(Rest[i - 1], nodes[i]).free = free[i]

OneItem == Group(Numbered(1), <<>>).nodes = {1}

TwoItem ==
  LET group == Group(Numbered(2), <<<<2, 1>>>>)
  IN FreeNode(group) = {2} /\ Succeed(group, <<2>>, <<{1}>>)

ThreeForkItem ==
  LET group == Group(Numbered(3), <<<<2, 1>>, <<2, 3>>>>)
  IN FreeNode(group) = {2} /\ Succeed(group, <<2, 1, 3>>, <<{1, 3}, {}, {}>>)

ThreeCombineItem ==
  LET group == Group(Numbered(3), <<<<1, 2>>, <<3, 2>>>>)
  IN FreeNode(group) = {1, 3} /\ Succeed(group, <<1, 3, 2>>, <<{}, {2}, {}>>)

\* a clone has other items under the same keys
CloneGroup ==
  LET group == Group(Numbered(3), <<<<1, 2>>, <<3, 2>>>>)
      clone == Clone(group, [i \in 1 .. 3 |-> i + 3])
  IN clone.nodes = 4 .. 6 /\ FreeNode(clone) = {4, 6} /\ clone.nodes \cap group.nodes = {}

FourFork == Group(Numbered(4), <<<<1, 2>>, <<2, 3>>, <<2, 4>>>>)
FourCombine == Group(Numbered(4), <<<<1, 2>>, <<2, 4>>, <<3, 4>>>>)

FourForkItem ==
  FreeNode(FourFork) = {1} /\ Succeed(FourFork, <<1, 2, 3, 4>>, <<{2}, {3, 4}, {}, {}>>)
FourCombineItem ==
  FreeNode(FourCombine) = {1, 3} /\ Succeed(FourCombine, <<1, 2, 3, 4>>, <<{2}, {}, {4}, {}>>)

FourForkItemFailed ==
  FreeNode(FourFork) = {1} /\ FreeNode(NodeFailed(FourFork, 1)) = {}
FourCombineItemFailed ==
  LET failed == NodeFailed(FourCombine, 3)
  IN FreeNode(failed) = {1} /\ Succeed(failed, <<1>>, <<{2}>>)

NoCycleTest == NoCycle(FourCombine) /\ ~NoCycle(SetDepend(FourCombine, 4, 1))

\* all of them
CalcGroupTestsPass ==
  /\ OneItem /\ TwoItem /\ ThreeForkItem /\ ThreeCombineItem /\ CloneGroup
  /\ FourForkItem /\ FourCombineItem /\ FourForkItemFailed /\ FourCombineItemFailed
  /\ NoCycleTest
=============================================================================
