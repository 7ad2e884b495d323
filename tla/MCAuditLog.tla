----------------------------- MODULE MCAuditLog -----------------------------
EXTENDS AuditLog

MCKeys == [what : {"page"}, kind : {"allowed", "blocked"}]
=============================================================================
