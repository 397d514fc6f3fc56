-------------------------- MODULE MCStatusMetrics -------------------------
EXTENDS StatusMetrics

\* A pre hook that must succeed before one that need not.
MCPre == <<TRUE, FALSE>>
===========================================================================
