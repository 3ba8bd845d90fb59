-------------------------- MODULE MCPackageLifecycle --------------------------
\* Two certificates of one application, the package of the first, two request
\* threads.
EXTENDS PackageLifecycle, TLC

CONSTANTS t1, t2

MCCertOf == [p \in Packages |-> p]

Symmetry == Permutations({t1, t2})

\* Of the events, which only record, the properties checked read EXPIRED alone.
Expired == {p \in Packages : "EXPIRED" \in events[p]}
View == <<certStatus, state, status, Expired, req, agent, outcome>>
===============================================================================
