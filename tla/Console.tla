------------------------------ MODULE Console ------------------------------
(***************************************************************************)
(* The console (lib/kernel/console.c) on the serial port (devices/serial.c)*)
(* and its input buffer (devices/input.c), over the ring buffers of        *)
(* devices/intq.c, in interrupt-driven mode.                               *)
(*                                                                         *)
(* What runs with interrupts off is one step; a thread gives up the CPU    *)
(* only where it sleeps, in wait() or in a lock.  The UART is external: a  *)
(* transmitter that takes a byte when it is empty, a receiver that holds   *)
(* one, and an interrupt line that follows the enable register.            *)
(***************************************************************************)
EXTENDS Integers, Sequences, SequencesExt

CONSTANTS Writer,    \* threads that print
          Reader,    \* threads that read keys
          INTQ_BUFSIZE,
          Line,      \* bound: the characters of a line; a thread prints one line
          MaxNested, \* bound: lines printed inside a line of the same thread
          MaxIntr,   \* bound: characters printed by interrupt handlers
          MaxInput   \* bound: characters received and typed

Nobody == "nobody"

ConsoleAssumption ==
  /\ INTQ_BUFSIZE \in Nat /\ INTQ_BUFSIZE > 1
  /\ Line \in Nat \ {0} /\ MaxNested \in Nat /\ MaxIntr \in Nat /\ MaxInput \in Nat
  /\ Nobody \notin Writer \cup Reader

VARIABLES
  txq, rxq,     \* struct intq: the serial port's txq and the input buffer
  ier,          \* interrupt enable register
  thre, rbr,    \* UART: the transmitter is empty; bytes in the receiver
  console_lock, console_lock_depth,
  frames,       \* per writer, what is left to print of the line and of lines inside it
  at,           \* per thread, what it does
  assertion,    \* the ASSERTs of intq.c have held; a failed one stops the kernel
  power,        \* "on", "flushed" by shutdown_power_off(), "off", or "reset"
  sent, written, accepted, got,  \* history: bytes on the line, printed, put in the
                                 \* input buffer and read from it
  printed,      \* history: how many bytes had been printed at the flush
  counts        \* bounds: nested lines, interrupts that print, input so far

con_vars == <<txq, rxq, ier, thre, rbr, console_lock, console_lock_depth, frames, at,
              assertion, power, sent, written, accepted, got, printed, counts>>
history == <<sent, written, accepted, got, printed>>

Thread == Writer \cup Reader
Pos == 0 .. INTQ_BUFSIZE - 1

ConsoleInit ==
  LET empty == [head |-> 0, tail |-> 0, buf |-> [i \in Pos |-> 0],
                not_full |-> Nobody, not_empty |-> Nobody, lock |-> Nobody]
  IN
  /\ txq = empty /\ rxq = empty
  /\ ier = [xmit |-> FALSE, recv |-> TRUE]
  /\ thre = TRUE /\ rbr = <<>>
  /\ console_lock = Nobody /\ console_lock_depth = 0
  /\ frames = [w \in Writer |-> <<>>]
  /\ at = [t \in Thread |-> "out"]
  /\ assertion = TRUE /\ power = "on"
  /\ sent = <<>> /\ written = <<>> /\ accepted = <<>> /\ got = <<>> /\ printed = 0
  /\ counts = [nested |-> 0, intr |-> 0, input |-> 0]

-----------------------------------------------------------------------------
(* intq.c *)

next(pos) == (pos + 1) % INTQ_BUFSIZE
intq_empty(q) == q.head = q.tail

\* Mutant: a full queue is taken for one with room.
intq_full_never(q) == FALSE

intq_full(q) == next(q.head) = q.tail

\* The end of intq_putc() and intq_getc(): the byte, and signal().
Put(q, byte) == [q EXCEPT !.buf[q.head] = byte, !.head = next(q.head), !.not_empty = Nobody]
Get(q) == [q EXCEPT !.tail = next(q.tail), !.not_full = Nobody]
First(q) == q.buf[q.tail]

\* signal() makes its waiter, if any, ready.
Wake(states, t) == [u \in Thread |-> IF u = t THEN "woken" ELSE states[u]]

\* The loop of intq_putc() and intq_getc() around wait(): thread t takes the lock of
\* q, asserts that it has to wait, and sleeps; or it sleeps in the lock.
Waits(t, q, field) ==
  IF q.lock = Nobody
  THEN /\ at' = [at EXCEPT ![t] = "wait"]
       /\ assertion' = (assertion /\ IF field = "not_full" THEN intq_full(q) ELSE intq_empty(q))
  ELSE /\ at' = [at EXCEPT ![t] = "lock"]
       /\ UNCHANGED assertion
Waiting(t, q, field) ==
  IF q.lock = Nobody THEN [[q EXCEPT ![field] = t] EXCEPT !.lock = t] ELSE q

\* lock_release() after wait(), before the condition is looked at again.
Unlocked(t, q) == IF q.lock = t THEN [q EXCEPT !.lock = Nobody] ELSE q

Contents(q) == [i \in 1 .. (q.head - q.tail) % INTQ_BUFSIZE |->
                  q.buf[(q.tail + i - 1) % INTQ_BUFSIZE]]

-----------------------------------------------------------------------------
(* serial.c and input.c *)

\* Mutant: transmit interrupts stay as they are.
IER_recv_only(tx, rx) == [xmit |-> ier.xmit, recv |-> ~intq_full(rx)]

\* write_ier()
IER(tx, rx) == [xmit |-> ~intq_empty(tx), recv |-> ~intq_full(rx)]

\* putc_poll() and outb (THR_REG): the byte goes out when the transmitter is empty.
Transmit(bytes) == sent' = sent \o bytes /\ thre' = (thre /\ bytes = <<>>)

\* serial_putc() by a thread, with interrupts on: the byte is queued, or t waits.
serial_putc(t, byte) ==
  LET q == Unlocked(t, txq) IN
  IF at[t] = "lock" \/ intq_full(q)
  THEN /\ txq' = Waiting(t, q, "not_full")
       /\ Waits(t, q, "not_full")
       /\ UNCHANGED <<ier, written, frames>>
  ELSE /\ txq' = Put(q, byte)
       /\ ier' = IER(Put(q, byte), rxq)
       /\ written' = Append(written, byte)
       /\ at' = [at EXCEPT ![t] = "print"]
       /\ frames' = [frames EXCEPT ![t] = <<Head(@) - 1>> \o Tail(@)]
       /\ UNCHANGED assertion

Running == assertion /\ power \in {"on", "flushed"}

\* printf() in an interrupt handler: no console lock, and when txq is full its first
\* byte is sent by polling.
print_in_interrupt ==
  LET full == intq_full(txq)
      q    == IF full THEN Get(txq) ELSE txq
  IN
  /\ Running /\ counts.intr < MaxIntr
  /\ Transmit(IF full THEN <<First(txq)>> ELSE <<>>)
  /\ at' = IF full THEN Wake(at, txq.not_full) ELSE at
  /\ txq' = Put(q, "intr")
  /\ ier' = IER(Put(q, "intr"), rxq)
  /\ written' = Append(written, "intr")
  /\ counts' = [counts EXCEPT !.intr = @ + 1]
  /\ UNCHANGED <<rxq, rbr, console_lock, console_lock_depth, frames, assertion, power,
                 accepted, got, printed>>

\* serial_interrupt(): a byte is received if there is room, and one is sent.
serial_interrupt ==
  LET in   == rbr # <<>> /\ ~intq_full(rxq)
      out  == thre /\ ~intq_empty(txq)
      rx   == IF in THEN Put(rxq, rbr[1]) ELSE rxq
      tx   == IF out THEN Get(txq) ELSE txq
      woke == IF in THEN Wake(at, rxq.not_empty) ELSE at
  IN
  /\ Running
  /\ (ier.xmit /\ thre) \/ (ier.recv /\ rbr # <<>>)
  /\ rxq' = rx /\ txq' = tx
  /\ rbr' = IF in THEN <<>> ELSE rbr
  /\ accepted' = IF in THEN Append(accepted, rbr[1]) ELSE accepted
  /\ Transmit(IF out THEN <<First(txq)>> ELSE <<>>)
  /\ at' = IF out THEN Wake(woke, txq.not_full) ELSE woke
  /\ ier' = IER(tx, rx)
  /\ UNCHANGED <<console_lock, console_lock_depth, frames, assertion, power, written, got,
                 printed, counts>>

\* keyboard_interrupt() and input_putc(): a key is dropped if there is no room.
key_typed ==
  LET key == counts.input + 1 IN
  /\ Running /\ counts.input < MaxInput
  /\ counts' = [counts EXCEPT !.input = key]
  /\ IF intq_full(rxq) THEN UNCHANGED <<rxq, ier, at, accepted>>
     ELSE /\ rxq' = Put(rxq, key)
          /\ ier' = IER(txq, Put(rxq, key))
          /\ at' = Wake(at, rxq.not_empty)
          /\ accepted' = Append(accepted, key)
  /\ UNCHANGED <<txq, thre, rbr, console_lock, console_lock_depth, frames, assertion, power,
                 sent, written, got, printed>>

\* input_getc(), and its return from wait().
input_getc(t) ==
  LET q == Unlocked(t, rxq) IN
  /\ Running
  /\ at[t] \in {"out", "woken"} \/ (at[t] = "lock" /\ rxq.lock = Nobody)
  /\ IF at[t] = "lock" \/ intq_empty(q)
     THEN /\ rxq' = Waiting(t, q, "not_empty")
          /\ Waits(t, q, "not_empty")
          /\ UNCHANGED <<ier, got>>
     ELSE /\ rxq' = Get(q)
          /\ ier' = IER(txq, Get(q))
          /\ got' = Append(got, First(q))
          /\ at' = [at EXCEPT ![t] = "out"]
          /\ UNCHANGED assertion
  /\ UNCHANGED <<txq, thre, rbr, console_lock, console_lock_depth, frames, power,
                 sent, written, accepted, printed, counts>>

\* The UART: a byte leaves the transmitter, a byte arrives.
uart_sends ==
  /\ Running /\ ~thre /\ thre' = TRUE
  /\ UNCHANGED <<txq, rxq, ier, rbr, console_lock, console_lock_depth, frames, at, assertion,
                 power, history, counts>>

uart_receives ==
  /\ Running /\ rbr = <<>> /\ counts.input < MaxInput
  /\ rbr' = <<counts.input + 1>>
  /\ counts' = [counts EXCEPT !.input = @ + 1]
  /\ UNCHANGED <<txq, rxq, ier, thre, console_lock, console_lock_depth, frames, at, assertion,
                 power, history>>

-----------------------------------------------------------------------------
(* console.c *)

\* Mutant: the lock is not asked who holds it, and nesting is not counted.
Deepened_not == UNCHANGED console_lock_depth

Deepened == console_lock_depth' = console_lock_depth + 1

\* acquire_console() of puts(), putbuf(), putchar() or vprintf(); a thread that is
\* printing can come here again.
acquire_console(w) ==
  /\ Running /\ at[w] \in {"out", "print"}
  /\ IF console_lock = w
     THEN /\ counts.nested < MaxNested /\ Head(frames[w]) > 0
          /\ counts' = [counts EXCEPT !.nested = @ + 1]
          /\ Deepened
          /\ UNCHANGED console_lock
     ELSE /\ console_lock = Nobody /\ frames[w] = <<>> /\ w \notin ToSet(written)
          /\ console_lock' = w
          /\ UNCHANGED <<console_lock_depth, counts>>
  /\ frames' = [frames EXCEPT ![w] = <<Line>> \o @]
  /\ at' = [at EXCEPT ![w] = "print"]
  /\ UNCHANGED <<txq, rxq, ier, thre, rbr, assertion, power, history>>

\* putchar_have_lock() of the next character, and its return from wait().
putchar_have_lock(w) ==
  /\ Running
  /\ \/ at[w] \in {"print", "woken"} /\ frames[w] # <<>> /\ Head(frames[w]) > 0
     \/ at[w] = "lock" /\ txq.lock = Nobody
  /\ serial_putc(w, w)
  /\ UNCHANGED <<rxq, thre, rbr, console_lock, console_lock_depth, power, sent, accepted, got,
                 printed, counts>>

release_console(w) ==
  /\ Running /\ at[w] = "print" /\ Head(frames[w]) = 0
  /\ IF console_lock_depth > 0
     THEN console_lock_depth' = console_lock_depth - 1 /\ UNCHANGED console_lock
     ELSE console_lock' = Nobody /\ UNCHANGED console_lock_depth
  /\ frames' = [frames EXCEPT ![w] = Tail(@)]
  /\ at' = [at EXCEPT ![w] = IF Tail(frames[w]) = <<>> THEN "out" ELSE "print"]
  /\ UNCHANGED <<txq, rxq, ier, thre, rbr, assertion, power, history, counts>>

\* serial_flush(), called by shutdown_power_off(): polls out what is queued.
serial_flush ==
  /\ Running /\ power = "on"
  /\ power' = "flushed" /\ printed' = Len(written)
  /\ Transmit(Contents(txq))
  /\ txq' = [txq EXCEPT !.tail = txq.head, !.not_full = Nobody]
  /\ at' = IF intq_empty(txq) THEN at ELSE Wake(at, txq.not_full)
  /\ UNCHANGED <<rxq, ier, rbr, console_lock, console_lock_depth, frames, assertion, written,
                 accepted, got, counts>>

\* The rest of shutdown_power_off(), with interrupts on since the flush ...
power_off ==
  /\ Running /\ power = "flushed" /\ power' = "off"
  /\ UNCHANGED <<txq, rxq, ier, thre, rbr, console_lock, console_lock_depth, frames, at,
                 assertion, history, counts>>

\* ... and shutdown_reboot(), which does not flush.
shutdown_reboot ==
  /\ Running /\ power' = "reset"
  /\ UNCHANGED <<txq, rxq, ier, thre, rbr, console_lock, console_lock_depth, frames, at,
                 assertion, history, counts>>

-----------------------------------------------------------------------------
(* Properties *)

(***************************************************************************)
(* Bytes leave the serial port in the order in which they were printed,    *)
(* none lost, duplicated or overtaken, although threads queue them, the    *)
(* interrupt handler sends them, and a handler that prints into a full     *)
(* queue polls the oldest byte out; keys are read in the order in which    *)
(* they were accepted; and when shutdown_power_off() switches the machine  *)
(* off, all that was printed before its flush has been sent (what others   *)
(* print after it may be lost, and so may output before a reboot) (intq.c, *)
(* serial_putc(), serial_interrupt(), serial_flush()).                     *)
(***************************************************************************)
BytesInOrder ==
  /\ sent \o Contents(txq) = written
  /\ got \o Contents(rxq) = accepted
  /\ power = "off" => Len(sent) >= printed

(***************************************************************************)
(* Nobody sleeps on a queue that could serve it, and no interrupt that it  *)
(* waits for is disabled: a thread in wait() is the one that signal()      *)
(* finds, its queue is full or empty, one that sleeps on a queue's lock    *)
(* waits for a thread in or back from wait(), the transmit interrupt is on *)
(* while bytes are queued and the receive interrupt while there is room,   *)
(* with any number of threads at a queue and until an assertion of wait()  *)
(* stops the kernel (write_ier(), serial_notify(), wait(), signal()).      *)
(***************************************************************************)
NobodyForgotten ==
  assertion =>
  /\ \A w \in Writer : at[w] = "wait" => txq.not_full = w /\ intq_full(txq)
  /\ \A r \in Reader : at[r] = "wait" => rxq.not_empty = r /\ intq_empty(rxq)
  /\ \A r \in Reader : at[r] = "lock" /\ rxq.lock # Nobody => at[rxq.lock] \in {"wait", "woken"}
  /\ ~intq_empty(txq) => ier.xmit
  /\ ~intq_full(rxq) => ier.recv

(***************************************************************************)
(* "this lock is useful to prevent simultaneous printf() calls from mixing *)
(* their output" (lib/kernel/console.c:16): between two characters of a    *)
(* line, with the lines printed inside it, only interrupt handlers print,  *)
(* although the thread sleeps in the middle of it whenever txq is full     *)
(* (acquire_console(), release_console()).                                 *)
(***************************************************************************)
LinesNotMixed ==
  \A i, j, k \in DOMAIN written :
    i < j /\ j < k /\ written[i] = written[k] /\ written[i] \in Writer =>
      written[j] \in {written[i], "intr"}

\* A line that is begun is printed, or the machine stops.
LinesEnd == \A w \in Writer : (frames[w] # <<>>) ~> (frames[w] = <<>> \/ ~Running)

\* ASSERT ((waiter == &q->not_empty && intq_empty (q)) || ...) in wait()
\* (devices/intq.c:91).
WaitAsserts == assertion

=============================================================================
