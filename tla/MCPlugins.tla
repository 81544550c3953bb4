----------------------------- MODULE MCPlugins -----------------------------
EXTENDS Plugins

TypicalTuning == {<<20, 50>>}
TooHigh == {<<20, 50>>, <<20, 101>>}
=============================================================================
