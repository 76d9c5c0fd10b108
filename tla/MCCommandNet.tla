---------------------------- MODULE MCCommandNet -----------------------------
EXTENDS CommandNet

CONSTANTS n1, n2, n3, n4

\* The sink n1 reaches n2 and n3, n3 reaches n2, and n2 and n4 reach each other: n4 depends
\* on n2, which may hear a command from three nodes.
MCDiamond ==
  [n \in Nodes |->
    CASE n = n1 -> {n2, n3}
      [] n = n2 -> {n4}
      [] n = n3 -> {n2}
      [] n = n4 -> {n2}]

\* A line from the sink n1, without n4.
MCLine ==
  [n \in Nodes |->
    CASE n = n1 -> {n2}
      [] n = n2 -> {n1, n3}
      [] n = n3 -> {n2}]
==============================================================================
