----------------------------- MODULE MCSsoLogin -----------------------------
EXTENDS SsoLogin
=============================================================================
