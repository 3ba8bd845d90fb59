-------------------------- MODULE MCComponentApply --------------------------
\* One file for each way in which CRL names are handled, the root CRL in the
\* compatibility directory; two processes.
EXTENDS ComponentApply, TLC

CONSTANTS command, other, ann, ben,
          root, trusted, alias, leftover, local

MCProcs == {command, other}
MCFiles == {root, trusted, alias, leftover, local}
MCKind  == root :> "root" @@ trusted :> "trusted" @@ alias :> "alias"
           @@ leftover :> "leftover" @@ local :> "local"
MCSigned == {[by |-> ann, emergency |-> FALSE], [by |-> ben, emergency |-> FALSE],
             [by |-> ben, emergency |-> TRUE]}

Symmetry == Permutations(MCProcs)

\* With dual approval the order of the approvals does not matter; what a
\* process will not look at again, and no property either, is left out.
InForce  == [a \in MCSigned |-> Cardinality({i \in DOMAIN approvals : approvals[i] = a})]
Ahead(r) == [r EXCEPT !.before = IF tangled /\ ~r.clean THEN Nothing ELSE @,
                      !.kept = IF r.at \in {"peers", "applied", "refused"} THEN Nothing ELSE @]
View     == <<gds, expired, calendar, InForce, caches, disk, [p \in Procs |-> Ahead(run[p])],
              tangled, events>>
=============================================================================
