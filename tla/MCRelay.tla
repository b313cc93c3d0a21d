------------------------------- MODULE MCRelay -------------------------------
EXTENDS Relay

\* Messages of one bit, of a word, of a word and a bit, and of two and a bit.
WordEdges == {1, 4, 5, 9}
=============================================================================
