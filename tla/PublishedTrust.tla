---------------------------- MODULE PublishedTrust ----------------------------
(***************************************************************************)
(* What the GDS promises to those who pull signed trust artifacts, however *)
(* its requests interleave: per target, revisions follow one another       *)
(* without a gap, the document signed is the document filed, and a         *)
(* revocation once published stays published.                              *)
(***************************************************************************)
EXTENDS Naturals

CONSTANTS Targets, Certs

VARIABLES
  revoked,    \* the serials the certificate authority has revoked
  published   \* per target: the newest revision and the CRL it carries

vars == <<revoked, published>>

Init ==
  /\ revoked = {}
  /\ published \in [Targets -> [revision : {0, 1}, signed : {0, 1}, crl : {{}}]]
  /\ \A t \in Targets : published[t].signed = published[t].revision

Revoke(c) ==
  /\ revoked' = revoked \cup {c}
  /\ UNCHANGED published

\* The CRL may be older than the publication, never older than the CRL of
\* the revision before.
Publish(t, crl) ==
  /\ published[t].crl \subseteq crl
  /\ crl \subseteq revoked
  /\ published' = [published EXCEPT ![t] =
       [revision |-> @.revision + 1, signed |-> @.revision + 1, crl |-> crl]]
  /\ UNCHANGED revoked

Next ==
  \/ \E c \in Certs : Revoke(c)
  \/ \E t \in Targets, crl \in SUBSET Certs : Publish(t, crl)

Spec == Init /\ [][Next]_vars
===============================================================================
