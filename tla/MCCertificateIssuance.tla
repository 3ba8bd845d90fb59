------------------------ MODULE MCCertificateIssuance ------------------------
\* Two calls for one application and profile, one for another; two CSRs, which
\* any of them may bring.  An enrollment over REST does what a component's
\* does when its last step succeeds.
EXTENDS CertificateIssuance, TLC

CONSTANTS c1, c2, c3, s1, s2, l1, l2

MCLineOf == c1 :> l1 @@ c2 :> l1 @@ c3 :> l2

Symmetry == Permutations({c1, c2}) \cup Permutations({s1, s2})
==============================================================================
