------------------------------ MODULE MCRouting ------------------------------
(* Small instances of Routing for TLC.                                     *)
EXTENDS Routing

CONSTANTS a, b, c

Contracts(ins, outs) == [inputs |-> ins, outputs |-> outs]

\* Two modules that use each other's outputs; the first has a version with
\* its outputs in another order.
Swapped ==
  <<{Contracts(<<c>>, <<a, b>>), Contracts(<<c>>, <<b, a>>)},
    {Contracts(<<b>>, <<c>>)}>>

\* A module with outputs for another one; both have a version with more
\* variables, in which the names are at other places.
Revised ==
  <<{Contracts(<<>>, <<b>>), Contracts(<<>>, <<a, b>>)},
    {Contracts(<<b>>, <<>>), Contracts(<<a, b>>, <<>>)}>>

\* A module with two inputs, each from another module.
Gathering ==
  <<{Contracts(<<b, c>>, <<>>)}, {Contracts(<<>>, <<b>>)}, {Contracts(<<>>, <<c>>)}>>
=============================================================================
