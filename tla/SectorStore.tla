---------------------------- MODULE SectorStore ----------------------------
(***************************************************************************)
(* What the buffer cache promises to the file system: a store of sectors   *)
(* that is written and read sector range by sector range, as if each call  *)
(* took effect at once, over a disk that lags behind.  Whatever reaches    *)
(* the disk is the current content of the sector, and a crash makes the    *)
(* store fall back to the disk.                                            *)
(***************************************************************************)
CONSTANTS Sector, Part, Val, Thread, NULL

VARIABLES store,  \* the content of each sector that readers see
          disk,   \* the content of each sector that survives a crash
          out     \* what each thread's last read returned

Content == [Part -> Val]

Init ==
  /\ store \in [Sector -> Content]
  /\ disk = store
  /\ out = [t \in Thread |-> NULL]

Read(t, s, range) ==
  /\ out' = [out EXCEPT ![t] = [p \in range |-> store[s][p]]]
  /\ UNCHANGED <<store, disk>>

Write(s, range, buf) ==
  /\ store' = [store EXCEPT ![s] = [p \in Part |-> IF p \in range THEN buf[p] ELSE @[p]]]
  /\ UNCHANGED <<disk, out>>

WriteBack(s) ==
  /\ disk' = [disk EXCEPT ![s] = store[s]]
  /\ UNCHANGED <<store, out>>

Return(t) ==
  /\ out' = [out EXCEPT ![t] = NULL]
  /\ UNCHANGED <<store, disk>>

Crash ==
  /\ store' = disk
  /\ out' = [t \in Thread |-> NULL]
  /\ UNCHANGED disk

Next ==
  \/ \E s \in Sector, range \in SUBSET Part :
       \/ \E t \in Thread : Read(t, s, range)
       \/ \E buf \in Content : Write(s, range, buf)
  \/ \E s \in Sector : WriteBack(s)
  \/ \E t \in Thread : Return(t)
  \/ Crash

Spec == Init /\ [][Next]_<<store, disk, out>>

=============================================================================
