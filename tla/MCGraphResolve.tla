--------------------------- MODULE MCGraphResolve ---------------------------
(***************************************************************************)
(* Constants for checking GraphResolve with TLC: up to two targets, linked *)
(* in one of the three ways, and one record that mixes them.               *)
(***************************************************************************)
EXTENDS GraphResolve, FiniteSetsExt

CONSTANTS d1, d2, d3, d4

NoLinks == [edges |-> {}, references |-> {}, imports |-> {}]

Pairs == kSubset(1, Daid) \union kSubset(2, Daid)

SomeLinks ==
  {NoLinks}
    \union {[NoLinks EXCEPT !.edges = pair] : pair \in Pairs}
    \union {[NoLinks EXCEPT !.imports = pair] : pair \in Pairs}
    \union {[edges |-> {d1}, references |-> {d}, imports |-> {}] : d \in Daid}

FewLinks ==
  {NoLinks, [NoLinks EXCEPT !.imports = {d2}],
   [edges |-> {d2}, references |-> {d3}, imports |-> {}]}

=============================================================================
