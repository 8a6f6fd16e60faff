------------------------------ MODULE MCAudit ------------------------------
\* AuditRewrite for TLC: one key, since keys meet only in the files and the groups
\* they share and a rewrite judges each of them by itself.
EXTENDS AuditRewrite
=============================================================================
