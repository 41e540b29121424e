---------------------------- MODULE MCDuneSync ----------------------------
\* Small instances of DuneSync for TLC: the configurations name the networks.
EXTENDS DuneSync
===========================================================================
