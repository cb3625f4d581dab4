--------------------------- MODULE MCContractSync ---------------------------
(* Small instances of ContractSync for TLC.                                *)
EXTENDS ContractSync

CONSTANTS p, q, r, s, t

\* The setting a sketch uses.
Setting == p

Var(n) == [name |-> n, type |-> "u1"]

\* Two versions of a program: settings in another order, other inputs and
\* outputs.
Version1 == [settings |-> <<Var(p), Var(q)>>, inputs |-> <<Var(r)>>, outputs |-> <<Var(s)>>]
Version2 == [settings |-> <<Var(q), Var(p)>>, inputs |-> <<Var(t)>>, outputs |-> <<Var(t)>>]
Versions == {Version1, Version2}

\* The module has the first version first; but for the names the versions are
\* alike.
FirstVersionInit == Init /\ prog = Version1
FirstVersionSpec == FirstVersionInit /\ [][Next]_vars /\ Fairness

\* A setting that is not the first of its contract gets another name.
Renamed ==
  {[settings |-> <<Var(p), Var(q)>>, inputs |-> <<>>, outputs |-> <<>>],
   [settings |-> <<Var(p), Var(t)>>, inputs |-> <<>>, outputs |-> <<>>]}

\* A light controller that gets another setting.
Controllers ==
  {[settings |-> <<Var(p)>>, inputs |-> <<Var(r)>>, outputs |-> <<Var(s)>>],
   [settings |-> <<Var(q)>>, inputs |-> <<Var(r)>>, outputs |-> <<Var(s)>>]}
=============================================================================
