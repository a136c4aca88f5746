------------------------------ MODULE MCAuditLog ------------------------------
EXTENDS AuditLog
=============================================================================
