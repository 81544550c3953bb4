---------------------------- MODULE MCAlsaEngine ----------------------------
EXTENDS AlsaEngine
=============================================================================
