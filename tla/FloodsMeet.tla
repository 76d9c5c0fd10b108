------------------------------ MODULE FloodsMeet -----------------------------
(***************************************************************************)
(* Two commands close together: what each node has taken, beside CommandNet. *)
(***************************************************************************)
EXTENDS MCCommandNet

VARIABLE taken    \* the commands each node has handed to its main thread

HistoryInit == Init /\ taken = [n \in Nodes |-> {}]

HistoryNext ==
  /\ Next
  /\ taken' = [n \in Nodes |-> IF Accepts(n) THEN taken[n] \cup {data[n]} ELSE taken[n]]

HistorySpec == HistoryInit /\ [][HistoryNext]_<<vars, taken>>

\* A command is taken only when, as CommandProtocol says at its test, "this command has not
\* been received".  The test is against the last number only, so it fails: a node that took
\* the second command takes the first again, from a node that had it of this one.
TakenWhenNew ==
  [][\A n \in Nodes : Accepts(n) => data[n] \notin taken[n]]_<<vars, taken>>

==============================================================================
