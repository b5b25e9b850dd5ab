------------------------ MODULE MCShadowObservation ------------------------
EXTENDS ShadowObservation
=============================================================================
