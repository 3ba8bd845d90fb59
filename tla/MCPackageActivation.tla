-------------------------- MODULE MCPackageActivation --------------------------
\* A package and its successor, each with a certificate and a CRL, and a runtime
\* that holds a certificate.
EXTENDS PackageActivation, TLC

CONSTANTS r1, r2, p1, p2, k1, k2

MCPackageOf == p1 :> k1 @@ p2 :> k2
MCStaged    == [p \in Plans |-> Files]
MCBase      == <<Old, None>>
===============================================================================
