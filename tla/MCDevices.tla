------------------------------ MODULE MCDevices ------------------------------
(***************************************************************************)
(* The device drivers.  They share no state in the model, so each          *)
(* behaviour exercises one of them, the one that part names, and the       *)
(* others keep their initial state.  The console is taken twice: with two  *)
(* threads that print and no input, and with one that prints and two that  *)
(* read.                                                                   *)
(***************************************************************************)
EXTENDS Console, Disk, Keyboard, TLC

VARIABLE part

vars == <<con_vars, disk_vars, kbd_vars, part>>

ASSUME DeviceAssumption == ConsoleAssumption /\ DiskAssumption /\ KeyboardAssumption

\* One good partition and one that wraps around or starts past the end; one that ends
\* past the end; an empty and a foreign one.
SomeTables ==
  LET entry(type, offset, size) == [type |-> type, offset |-> offset, size |-> size]
      pair(a, b) == [d \in Drive |-> IF d = 0 THEN a ELSE b]
  IN  {pair(<<entry("filesys", 1, 1)>>, <<entry("filesys", 1, 3), entry("filesys", 2, 1)>>),
       pair(<<entry("filesys", 1, 2)>>, <<entry("empty", 0, 0), entry("foreign", 1, 1)>>)}

Init ==
  /\ part \in {"printing", "reading", "disk", "keyboard"}
  /\ ConsoleInit /\ DiskInit /\ KeyboardInit
  /\ part # "disk" => table = (CHOOSE t \in Tables : TRUE) /\ kind = [d \in Drive |-> "other"]

\* bound: the threads that use the console in one behaviour
Active == IF part = "printing" THEN {"w1", "w2"} ELSE {"w1", "r1", "r2"}

Con(A) == part \in {"printing", "reading"} /\ A /\ UNCHANGED <<disk_vars, kbd_vars, part>>
Dsk(A) == part = "disk" /\ A /\ UNCHANGED <<con_vars, kbd_vars, part>>
Kbd(A) == part = "keyboard" /\ A /\ UNCHANGED <<con_vars, disk_vars, part>>

Next ==
  \/ Con(print_in_interrupt)
  \/ Con(serial_interrupt)
  \/ part = "reading" /\ Con(key_typed)
  \/ \E r \in Reader \cap Active : Con(input_getc(r))
  \/ Con(uart_sends)
  \/ part = "reading" /\ Con(uart_receives)
  \/ \E w \in Writer \cap Active : Con(acquire_console(w))
  \/ \E w \in Writer : Con(putchar_have_lock(w))
  \/ \E w \in Writer : Con(release_console(w))
  \/ Con(serial_flush)
  \/ Con(power_off)
  \/ Con(shutdown_reboot)
  \/ \E d \in Drive : Dsk(drive_done(d))
  \/ Dsk(interrupt_handler)
  \/ Dsk(reset_channel)
  \/ Dsk(check_device_type)
  \/ Dsk(identify_select)
  \/ Dsk(identify_issue)
  \/ Dsk(identify_down)
  \/ Dsk(identify_input)
  \/ \E t \in User, i \in DOMAIN all_blocks, s \in Lba : \E v \in Data :
       Dsk(block_io(t, "write", i, s, v))
  \/ \E t \in User, i \in DOMAIN all_blocks, s \in Lba :
       Dsk(block_io(t, "read", i, s, CHOOSE v \in Data : TRUE))
  \/ \E t \in User : Dsk(ide_lock(t))
  \/ \E t \in User : Dsk(select_sector(t))
  \/ \E t \in User : Dsk(issue_pio_command(t))
  \/ \E t \in User : Dsk(transfer(t))
  \/ \E t \in User : Dsk(ide_down(t))
  \/ \E t \in User : Dsk(ide_unlock(t))
  \/ \E k \in Plain \cup ShiftKeys \cup {CapsLock} : Kbd(key_pressed(k))
  \/ \E k \in down : Kbd(key_released(k))

Boots ==
  \/ reset_channel \/ check_device_type \/ identify_select \/ identify_issue
  \/ identify_down \/ identify_input
Transfers(t) ==
  \/ select_sector(t) \/ issue_pio_command(t) \/ transfer(t) \/ ide_down(t) \/ ide_unlock(t)

\* The hardware answers, interrupts are delivered, and a thread that can run does.
Fairness ==
  /\ WF_vars(Con(serial_interrupt)) /\ WF_vars(Con(uart_sends))
  /\ \A w \in Writer : WF_vars(Con(putchar_have_lock(w) \/ release_console(w)))
  /\ \A d \in Drive : WF_vars(Dsk(drive_done(d)))
  /\ WF_vars(Dsk(interrupt_handler)) /\ WF_vars(Dsk(Boots))
  /\ \A t \in User : WF_vars(Dsk(Transfers(t)))

Spec == Init /\ [][Next]_vars /\ Fairness

(***************************************************************************)
(* A line that a thread has begun to print is printed, a thread that has   *)
(* taken the disk channel gives it back, and ide_init() ends: no           *)
(* completion or transmit interrupt is missed that they sleep for          *)
(* (serial_interrupt(), interrupt_handler()).                              *)
(***************************************************************************)
DriversFinish ==
  /\ part \in {"printing", "reading"} => LinesEnd
  /\ part = "disk" => ChannelFreed

=============================================================================
