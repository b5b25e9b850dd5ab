--------------------------- MODULE MCResearchQueue ---------------------------
EXTENDS ResearchQueue
=============================================================================
