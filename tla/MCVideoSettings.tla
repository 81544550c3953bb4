--------------------------- MODULE MCVideoSettings ---------------------------
EXTENDS VideoSettings
=============================================================================
