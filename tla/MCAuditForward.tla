---------------------------- MODULE MCAuditForward ----------------------------
\* Four audit rows, read two at a time.
EXTENDS AuditForward
===============================================================================
