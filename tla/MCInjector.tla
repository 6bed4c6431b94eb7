----------------------------- MODULE MCInjector -----------------------------
(* Three batches, one of them oversized, from two threads; two agents on   *)
(* one host; a socket that holds one piece, so that every write blocks.    *)
EXTENDS Injector
=============================================================================
