-------------------------- MODULE MCHostSystemMatrix --------------------------
EXTENDS HostSystemMatrix, MCCsrLayouts
=============================================================================
