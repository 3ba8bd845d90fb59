-------------------------- MODULE MCGatewayLifecycle --------------------------
\* One process that runs every command; the CA's file, a revocation list, and a
\* peer that only artifact 1 lists.  Artifact 2 is refused, 3 lacks its list.
EXTENDS GatewayLifecycle, TLC

CONSTANTS p1, ca, crl, peer

MCKind == (ca :> "chain") @@ (crl :> "crl") @@ (peer :> "certs")

MCNamed == ((1 .. MaxVersion) \X {ca}) \cup {<<1, peer>>}

\* A number that is compared with GDS's newest artifact and with 0 only; one that
\* is behind stays behind.
Seen(v) == CASE v = 0 -> "none" [] v = current -> "newest" [] OTHER -> "behind"

\* What a process will look at again of GDS's answers and of its document.
Ahead(r) ==
  [at |-> r.at, cmd |-> r.cmd, renewing |-> r.renewing, claim |-> Seen(r.claim),
   update |-> r.update /\ r.at \in {"version", "keep_version", "pull", "cache", "note"},
   due |-> r.due /\ ~ r.renewing
             /\ r.at \notin {"renewal", "enroll", "renew", "keep_renewal", "status", "post"},
   doc |-> CASE r.at \in {"cache", "keep_enrollment", "keep_renewal", "record"} \cup Parts -> r.doc
             [] r.at \in {"keep_version", "note"} -> [trust |-> Seen(r.doc.trust), cert |-> 0]
             [] OTHER -> Nothing]

\* ... and of what it has filed itself: until its last apply.
Applying == \E p \in Procs : run[p].at \in {"cache", "note", "load", "load_certificate"} \cup Parts

\* A renewal is loaded before an enrollment, and lost to a failure only.
Enrolled == IF renewal # Nothing /\ faults = MaxFaults THEN Nothing ELSE enrollment

\* The certificates that keep the record.
Record == IF recorded = 0 THEN <<>> ELSE <<{c \in young : c <= recorded}>>

\* What later steps and the properties read.
View ==
  <<current, Seen(reported), issued, Seen(version), material, Enrolled, renewal, Record, lock,
    young, runtime, [p \in Procs |-> Ahead(run[p])], alone, spoiled, faults, renewed \cap young,
    IF Applying THEN fresh ELSE Nothing>>
===============================================================================
