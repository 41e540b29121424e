---------------------------- MODULE MCIndexing ----------------------------
\* A small instance of Indexing for TLC: a subgraph, a Substreams package, and
\* Dune's tables of two chains.  The three do not interact, so a behaviour has one
\* of them in service.
EXTENDS Indexing, TLC

CONSTANTS base, bsc
Subgraph == [view |-> "graph", chain |-> base]
Package == [view |-> "substreams", chain |-> base]
Tables == {[view |-> "dune", chain |-> c] : c \in {base, bsc}}
SmallIndexes == {Subgraph, Package} \cup Tables
OneAtATime == {{Subgraph}, {Package}, Tables}
=============================================================================
