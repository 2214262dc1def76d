-------------------------------- MODULE Disk --------------------------------
(***************************************************************************)
(* Block devices: one ATA channel with two drives (devices/ide.c), the     *)
(* block layer (devices/block.c) and partitions (devices/partition.c).     *)
(* Threads that transfer sectors share the channel under its lock, an      *)
(* abstract mutex here, and sleep on a semaphore that the interrupt        *)
(* handler raises.  The drives are external: a drive is "idle", "busy" or  *)
(* "ready" for data (the status bits BSY and DRQ) and answers in time.     *)
(***************************************************************************)
EXTENDS Integers, Sequences, FiniteSets, SequencesExt

CONSTANTS User,       \* threads that read and write sectors
          Capacity,   \* sectors of a drive
          UintRange,  \* the number of values of a sector number
          Data,       \* contents of a sector
          Tables      \* the two drives' partition tables: sequences of [type, offset, size]

None == "none"
Drive == 0 .. 1
Lba == 0 .. Capacity - 1

DiskAssumption ==
  /\ None \notin User
  /\ Capacity \in Nat \ {0} /\ UintRange \in Nat /\ UintRange > Capacity
  /\ Data # {}
  /\ \A tables \in Tables : \A d \in Drive : \A e \in ToSet(tables[d]) :
       e.type \in {"empty", "filesys", "foreign"} /\ {e.offset, e.size} \subseteq 0 .. UintRange - 1

VARIABLES
  kind,      \* what is attached: "ata", "large" (over 1 GB) or "other" (or nothing)
  table,     \* the partition table in sector 0 of each drive
  boot,      \* where ide_init() is, and the drive it is at
  is_ata,
  all_blocks,   \* registered block devices: [drive, start, size, type]
  chan_lock, expecting_interrupt, completion_wait,
  selected,  \* drive and sector in the channel's registers
  drive,     \* the state and the command of each drive
  irq,       \* the channel asks for an interrupt
  platter,   \* what the drives store
  io,        \* the transfer of each thread
  panic,
  latest     \* history: what was last written to each sector

disk_vars == <<kind, table, boot, is_ata, all_blocks, chan_lock, expecting_interrupt,
               completion_wait, selected, drive, irq, platter, io, panic, latest>>
boot_vars == <<kind, table, boot, is_ata, all_blocks>>

NoIo == [pc |-> "out"]
Still == [state |-> "idle", cmd |-> "none"]

DiskInit ==
  /\ kind \in [Drive -> {"ata", "large", "other"}]
  /\ table \in Tables
  /\ boot = [pc |-> "reset", dev |-> 0]
  /\ is_ata = [d \in Drive |-> FALSE]
  /\ all_blocks = <<>>
  /\ chan_lock = None /\ expecting_interrupt = FALSE /\ completion_wait = 0
  /\ selected = [drive |-> 0, lba |-> 0]
  /\ drive = [d \in Drive |-> Still]
  /\ irq = FALSE
  /\ platter = [d \in Drive |-> [s \in Lba |-> CHOOSE v \in Data : TRUE]]
  /\ latest = platter
  /\ io = [t \in User |-> NoIo]
  /\ panic = FALSE

-----------------------------------------------------------------------------
(* The drives *)

\* A drive finishes what it is busy with.  It asks for an interrupt, except when it
\* becomes ready to be given data.
drive_done(d) ==
  LET c == drive[d] IN
  /\ c.state = "busy"
  /\ drive' = [drive EXCEPT ![d] = IF c.cmd = "store" THEN Still ELSE [c EXCEPT !.state = "ready"]]
  /\ platter' = IF c.cmd = "store" THEN [platter EXCEPT ![d][c.lba] = c.data] ELSE platter
  /\ irq' = (irq \/ c.cmd # "write")
  /\ UNCHANGED <<boot_vars, chan_lock, expecting_interrupt, completion_wait, selected, io,
                 panic, latest>>

\* Mutant: only the first interrupt is expected.
Raised_once == IF completion_wait = 0 /\ boot.pc # "up" THEN 1 ELSE completion_wait

Raised == completion_wait + 1

interrupt_handler ==
  /\ irq /\ irq' = FALSE
  /\ completion_wait' = IF expecting_interrupt THEN Raised ELSE completion_wait
  /\ UNCHANGED <<boot_vars, chan_lock, expecting_interrupt, selected, drive, platter, io, panic,
                 latest>>

\* select_device_wait() and select_sector(): reads of the status register clear a
\* pending interrupt.  A drive that stays busy is a timeout of wait_until_idle(),
\* after which the code goes on.
Select(d, lba) ==
  /\ selected' = [drive |-> d, lba |-> lba]
  /\ irq' = FALSE

\* issue_pio_command(): the selected drive starts.
Issue(cmd) ==
  /\ expecting_interrupt' = TRUE
  /\ drive' = [drive EXCEPT ![selected.drive] =
                 [state |-> "busy", cmd |-> cmd, lba |-> selected.lba]]

\* wait_while_busy() returns when the selected drive is not busy, and says whether it
\* is ready for data.
NotBusy == drive[selected.drive].state # "busy"
DRQ == drive[selected.drive].state = "ready"

-----------------------------------------------------------------------------
(* ide_init() *)

BootAt(pc) == boot.pc = pc
BootTo(pc) == boot' = [boot EXCEPT !.pc = pc]

\* reset_channel() may leave an interrupt pending.
reset_channel ==
  /\ BootAt("reset") /\ BootTo("check")
  /\ irq' \in BOOLEAN
  /\ UNCHANGED <<kind, table, is_ata, all_blocks, chan_lock, expecting_interrupt,
                 completion_wait, selected, drive, platter, io, panic, latest>>

\* check_device_type() for drive 0, and for drive 1 if there may be one.
check_device_type ==
  /\ BootAt("check") /\ BootTo("identify")
  /\ \E slave \in BOOLEAN :
       is_ata' = [d \in Drive |-> kind[d] \in {"ata", "large"} /\ (d = 0 \/ slave)]
  /\ UNCHANGED <<kind, table, all_blocks, chan_lock, expecting_interrupt, completion_wait,
                 selected, drive, irq, platter, io, panic, latest>>

\* The next drive, or the end of ide_init().
NextDrive == boot' = IF boot.dev = 1 THEN [boot EXCEPT !.pc = "up"]
                     ELSE [pc |-> "identify", dev |-> 1]

\* identify_ata_device()
identify_select ==
  /\ BootAt("identify")
  /\ IF is_ata[boot.dev] THEN Select(boot.dev, 0) /\ BootTo("issue")
     ELSE NextDrive /\ UNCHANGED <<selected, irq>>
  /\ UNCHANGED <<kind, table, is_ata, all_blocks, chan_lock, expecting_interrupt,
                 completion_wait, drive, platter, io, panic, latest>>

identify_issue ==
  /\ BootAt("issue") /\ BootTo("sleep")
  /\ Issue("identify")
  /\ UNCHANGED <<kind, table, is_ata, all_blocks, chan_lock, completion_wait, selected, irq,
                 platter, io, panic, latest>>

identify_down ==
  /\ BootAt("sleep") /\ BootTo("input")
  /\ completion_wait > 0
  /\ completion_wait' = completion_wait - 1
  /\ UNCHANGED <<kind, table, is_ata, all_blocks, chan_lock, expecting_interrupt, selected,
                 drive, irq, platter, io, panic, latest>>

\* Mutant: the end of the partition is compared without regard to wrap-around.
Fits_wrapped(e) ==
  e.offset < Capacity /\ (e.offset + e.size) % UintRange <= Capacity

\* found_partition(): the partition does not start or end past the drive's end, with
\* the sum of 32 bits.
Fits(e) ==
  LET end == (e.offset + e.size) % UintRange IN
  e.offset < Capacity /\ end >= e.offset /\ end <= Capacity

\* partition_scan(): the blocks for the entries of the table, but for extended ones.
Partitions(d) ==
  LET wanted == SelectSeq(table[d], LAMBDA e : e.type # "empty" /\ e.size # 0 /\ Fits(e))
  IN  [i \in DOMAIN wanted |-> [drive |-> d, start |-> wanted[i].offset,
                                size |-> wanted[i].size, type |-> wanted[i].type]]

\* The answer to IDENTIFY: a drive over 1 GB is left alone, another is registered
\* and scanned; nobody else uses the channel yet.
identify_input ==
  LET d == boot.dev IN
  /\ BootAt("input") /\ NotBusy
  /\ NextDrive
  /\ drive' = IF DRQ THEN [drive EXCEPT ![d] = Still] ELSE drive
  /\ IF ~DRQ \/ kind[d] = "large"
     THEN is_ata' = [is_ata EXCEPT ![d] = FALSE] /\ UNCHANGED all_blocks
     ELSE /\ all_blocks' = all_blocks
               \o <<[drive |-> d, start |-> 0, size |-> Capacity, type |-> "raw"]>>
               \o Partitions(d)
          /\ UNCHANGED is_ata
  /\ UNCHANGED <<kind, table, chan_lock, expecting_interrupt, completion_wait, selected, irq,
                 platter, io, panic, latest>>

-----------------------------------------------------------------------------
(* Transfers *)

IoAt(t, pc) == io[t].pc = pc
IoTo(t, pc) == io' = [io EXCEPT ![t].pc = pc]

\* check_sector()
Checked(b, sector) == sector < b.size

\* block_read() or block_write() of sector of block b, through partition_read() or
\* partition_write().
block_io(t, op, i, sector, data) ==
  LET b == all_blocks[i] IN
  /\ BootAt("up") /\ ~panic /\ IoAt(t, "out")
  /\ i \in DOMAIN all_blocks
  /\ IF Checked(b, sector) /\ (op = "write" => b.type # "foreign")
     THEN /\ io' = [io EXCEPT ![t] = [pc |-> "lock", op |-> op, block |-> b,
                                      lba |-> b.start + sector, data |-> data]]
          /\ UNCHANGED panic
     ELSE panic' = TRUE /\ UNCHANGED io
  /\ UNCHANGED <<boot_vars, chan_lock, expecting_interrupt, completion_wait, selected, drive,
                 irq, platter, latest>>

\* ide_read() and ide_write()
ide_lock(t) ==
  /\ IoAt(t, "lock") /\ ~panic /\ chan_lock = None
  /\ chan_lock' = t
  /\ IoTo(t, "select")
  /\ UNCHANGED <<boot_vars, expecting_interrupt, completion_wait, selected, drive, irq, platter,
                 panic, latest>>

select_sector(t) ==
  /\ IoAt(t, "select") /\ ~panic
  /\ Select(io[t].block.drive, io[t].lba)
  /\ IoTo(t, "issue")
  /\ UNCHANGED <<boot_vars, chan_lock, expecting_interrupt, completion_wait, drive, platter,
                 panic, latest>>

issue_pio_command(t) ==
  /\ IoAt(t, "issue") /\ ~panic
  /\ Issue(io[t].op)
  /\ IoTo(t, IF io[t].op = "read" THEN "sleep" ELSE "transfer")
  /\ UNCHANGED <<boot_vars, chan_lock, completion_wait, selected, irq, platter, panic, latest>>

\* Mutant: ide_write() returns when the drive has the data.
AfterOutput_done == "unlock"

AfterOutput == "sleep"

\* input_sector() or output_sector(), once the drive is ready; else a panic.
transfer(t) ==
  LET d == selected.drive IN
  /\ IoAt(t, "transfer") /\ ~panic /\ NotBusy
  /\ panic' = ~DRQ
  /\ IF ~DRQ THEN UNCHANGED <<drive, io, latest>>
     ELSE IF io[t].op = "read"
     THEN /\ io' = [io EXCEPT ![t].pc = "unlock", ![t].data = platter[d][drive[d].lba]]
          /\ drive' = [drive EXCEPT ![d] = Still]
          /\ UNCHANGED latest
     ELSE /\ drive' = [drive EXCEPT ![d] = [state |-> "busy", cmd |-> "store",
                                            lba |-> @.lba, data |-> io[t].data]]
          /\ latest' = [latest EXCEPT ![io[t].block.drive][io[t].lba] = io[t].data]
          /\ IoTo(t, AfterOutput)
  /\ UNCHANGED <<boot_vars, chan_lock, expecting_interrupt, completion_wait, selected, irq,
                 platter>>

\* sema_down (&c->completion_wait)
ide_down(t) ==
  /\ IoAt(t, "sleep") /\ ~panic
  /\ completion_wait > 0
  /\ completion_wait' = completion_wait - 1
  /\ IoTo(t, IF io[t].op = "read" THEN "transfer" ELSE "unlock")
  /\ UNCHANGED <<boot_vars, chan_lock, expecting_interrupt, selected, drive, irq, platter,
                 panic, latest>>

ide_unlock(t) ==
  /\ IoAt(t, "unlock") /\ ~panic
  /\ chan_lock' = None
  /\ io' = [io EXCEPT ![t] = NoIo]
  /\ UNCHANGED <<boot_vars, expecting_interrupt, completion_wait, selected, drive, irq, platter,
                 panic, latest>>

-----------------------------------------------------------------------------
(* Properties *)

(***************************************************************************)
(* "Internally synchronizes accesses to disks, so external per-disk        *)
(* locking is unneeded" (devices/ide.c:341).  Whenever nobody holds the    *)
(* channel no completion is left over that would end a later wait too      *)
(* early, and both drives are idle; a read returns what was last written   *)
(* to that sector, and a write returns after the drive has stored it,      *)
(* whichever of several threads and drives take turns.  A drive is always  *)
(* ready when the driver wants to transfer.                                *)
(***************************************************************************)
TransfersExact ==
  /\ BootAt("up") /\ chan_lock = None =>
       /\ completion_wait = 0 /\ ~(expecting_interrupt /\ irq)
       /\ \A d \in Drive : drive[d] = Still
  /\ \A t \in User : IoAt(t, "unlock") =>
       /\ io[t].data = latest[io[t].block.drive][io[t].lba]
       /\ platter[io[t].block.drive][io[t].lba] = latest[io[t].block.drive][io[t].lba]
  /\ \A t \in User : IoAt(t, "transfer") /\ NotBusy => DRQ

(***************************************************************************)
(* Every registered partition lies inside its drive, whatever the table    *)
(* on it says, including offsets and sizes whose sum wraps around, and a   *)
(* transfer touches only sectors of the block device it was asked for      *)
(* (found_partition(), check_sector(), partition_read()).                  *)
(***************************************************************************)
InsidePartition ==
  /\ \A b \in ToSet(all_blocks) : b.start + b.size <= Capacity
  /\ \A t \in User : ~IoAt(t, "out") =>
       io[t].lba \in io[t].block.start .. io[t].block.start + io[t].block.size - 1

\* A thread that has taken the channel gives it back, and start-up ends.
ChannelFreed ==
  /\ (chan_lock # None) ~> (chan_lock = None \/ panic)
  /\ (boot.pc # "up") ~> (boot.pc = "up")

=============================================================================
