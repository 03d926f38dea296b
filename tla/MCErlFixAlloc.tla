---------------------------- MODULE MCErlFixAlloc ----------------------------
(* Three client threads and four blocks of memory for ErlFixAlloc.          *)
EXTENDS ErlFixAlloc

CONSTANTS t1, t2, t3, b1, b2, b3, b4

MCThreads == {t1, t2, t3}
MCBlocks == {b1, b2, b3, b4}
=============================================================================
