---------------------------- MODULE MCCacheStack ----------------------------
(* Instances of CacheStack for TLC: two layers, two words.  A buffer of three *)
(* rows that grows by one beyond the need, and a window of two.              *)
EXTENDS CacheStack, TLC

CONSTANTS a, b, none
MCVocab == {a, b}
Words == Permutations(MCVocab)
=============================================================================
