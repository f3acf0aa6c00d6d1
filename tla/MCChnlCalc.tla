----------------------------- MODULE MCChnlCalc -----------------------------
(* Instances of ChnlCalc for TLC. *)
EXTENDS ChnlCalc, CalcGroup
CONSTANTS ChnlA, ChnlB, DiffItem
BothExecuters == {chnl_calc, ui_calc}

\* the differential channel needs two others, which may both be running: an
\* item was taken out again, as the owner of a group may do
JoinGroup ==
  LET program == BuildChnlCalcGroup(ChnlA, DiffItem)
      wider == SetDepend(AddCalcItem(program, ChnlB), ChnlB, DiffItem)
  IN RemoveCalcItem(SetDepend(AddCalcItem(wider, "scratch"), DiffItem, "scratch"), "scratch")
ChnlGroup == JoinGroup.nodes
ChnlDepends == Clone(JoinGroup, [i \in ChnlGroup |-> i]).edges

\* NoCycle is right about every graph of three nodes: it has no cycle when some
\* node of each set of nodes has no edge from that set
ASSUME SortFindsCycles ==
  LET nodes == {ChnlA, ChnlB, DiffItem} IN
  \A edges \in SUBSET (nodes \X nodes) :
    NoCycle([nodes |-> nodes, edges |-> edges])
      <=> \A S \in SUBSET nodes : S # {} => NoIncoming(S, {d \in edges : d[1] \in S}) # {}

\* the unit tests; and the walk of NodeFailed takes away what depends on the item,
\* as CalcExecuter has it, in every graph of three nodes without a cycle
Tests == INSTANCE CalcGroupTests
ASSUME CalcGroupTestsHold == Tests!CalcGroupTestsPass
ASSUME FailedTakesDescendants ==
  \A edges \in SUBSET (Items \X Items) :
    LET g == [nodes |-> Items, edges |-> edges] IN
    NoCycle(g) => \A i \in Tests!FreeNode(g) :
      LET lost == Descendants(edges, i) IN
      Tests!NodeFailed(g, i)
        = [nodes |-> Items \ (lost \cup {i}),
           edges |-> {d \in edges : d[1] \notin lost \cup {i} /\ d[2] \notin lost}]
Tasks == INSTANCE AsyncTask
ASSUME TasksHold == Tasks!AsyncTaskHolds
ASSUME GroupIsGood == NoCycle(JoinGroup) /\ \A i \in ChnlGroup : HasCalcItem(JoinGroup, i)
=============================================================================
