------------------------ MODULE MCReleasePipeline -------------------------
\* ReleasePipeline for TLC: a release of any one fact.
EXTENDS ReleasePipeline

EveryFact == Facts
=============================================================================
