----------------------------- MODULE CalcGroup -----------------------------
(***************************************************************************)
(* CalcGroup (depend_calc/calc_group.cc): the graph of the items of a       *)
(* calculation, as its owner builds it and hands it to CalcExecuter, which  *)
(* clones it for each run.  all_nodes_ is a set, as AddCalcItem demands;    *)
(* an edge <<er, ee>> says that ee needs er.                                *)
(***************************************************************************)
EXTENDS Integers, FiniteSets

EmptyGroup == [nodes |-> {}, edges |-> {}]

HasCalcItem(g, item) == item \in g.nodes

\* DCHECK: an item is not added twice
AddCalcItem(g, item) == [g EXCEPT !.nodes = @ \cup {item}]

\* an item leaves with every edge it is part of
RemoveCalcItem(g, item) ==
  [nodes |-> g.nodes \ {item}, edges |-> {d \in g.edges : item \notin {d[1], d[2]}}]

SetDepend(g, er, ee) == [g EXCEPT !.edges = @ \cup {<<er, ee>>}]

\* every node is replaced by its clone, in the nodes and at both ends of the edges
Clone(g, clone) ==
  [nodes |-> {clone[n] : n \in g.nodes},
   edges |-> {<<clone[d[1]], clone[d[2]]>> : d \in g.edges}]

\* what no edge of the set leads to
NoIncoming(nodes, edges) == {n \in nodes : \A d \in edges : d[2] # n}

\* the topological sort: the edges that are left when those of nodes without
\* an incoming one are taken away, again and again
NoCycle(g) ==
  LET Sort[edges \in SUBSET g.edges] ==
        LET first == {d \in edges : d[1] \in NoIncoming(g.nodes, edges)}
        IN IF first = {} THEN edges ELSE Sort[edges \ first]
  IN Sort[g.edges] = {}

\* the channels, and the difference that is made of them
BuildChnlCalcGroup(chnl_calc, diff_calc) ==
  SetDepend(AddCalcItem(AddCalcItem(EmptyGroup, chnl_calc), diff_calc), chnl_calc, diff_calc)
=============================================================================
