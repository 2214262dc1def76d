---------------------------- MODULE BufferStore ----------------------------
(* The buffer cache implements a write-back store of sectors.              *)
EXTENDS BufferCache

A == INSTANCE SectorStore WITH store <- [s \in Sector |-> Visible(s)]

(***************************************************************************)
(* Through buffer_read() and buffer_write(), hits, misses, evictions and   *)
(* flushes, whatever the threads do, readers see the sectors as a store in *)
(* which every call takes effect at once; what is written to the disk is   *)
(* never stale; and a crash leaves each sector with what was last written  *)
(* to the disk.                                                            *)
(***************************************************************************)
CacheIsStore == A!Spec

=============================================================================
