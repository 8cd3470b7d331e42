---------------------------- MODULE MCCacheLocks ----------------------------
(* Instances of CacheLocks for TLC: two caches, rebuilt one after the      *)
(* other or one alone.                                                     *)
EXTENDS CacheLocks

MCRebuilds == {<<"json", "bincraft">>, <<"bincraft">>}
=============================================================================
