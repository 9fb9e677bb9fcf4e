-------------------------- MODULE MCAdaptedStream --------------------------
EXTENDS AdaptedStream

MCBlocks == 0 .. 1
MCCalls == 0 .. 1
MCOwn == 0 .. 1
=============================================================================
