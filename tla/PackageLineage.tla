---------------------------- MODULE PackageLineage ----------------------------
(***************************************************************************)
(* What the GDS promises about certificate packages: the packages of an    *)
(* application and profile form a chain that only grows at its end.        *)
(***************************************************************************)
EXTENDS Sequences

CONSTANTS Lines,    \* the (application, profile) pairs
          Packages

VARIABLE chain

TypeOK == chain \in [Lines -> Seq(Packages)]

Init == chain = [l \in Lines |-> <<>>]

InChain(p) == \E l \in Lines : \E i \in DOMAIN chain[l] : chain[l][i] = p

Issue(l, p) ==
  /\ ~ InChain(p)
  /\ chain' = [chain EXCEPT ![l] = Append(@, p)]

Next == \E l \in Lines, p \in Packages : Issue(l, p)

Spec == Init /\ [][Next]_chain
===============================================================================
