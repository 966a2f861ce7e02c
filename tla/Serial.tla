------------------------------- MODULE Serial -------------------------------
(***************************************************************************)
(* The serial port (devices/serial.c) and the input buffer                 *)
(* (devices/input.c), which share the UART's interrupt enable register:    *)
(* the transmit bit follows the transmit queue, the receive bit the input  *)
(* buffer, into which the keyboard writes as well.                         *)
(*                                                                         *)
(* The two interrupt queues are sequences of bounded length, as Intq       *)
(* shows.  A function of these files is one step: it runs with interrupts  *)
(* off, except where a queue makes a thread wait.                          *)
(***************************************************************************)
EXTENDS Integers, Sequences

CONSTANTS TxSize,          \* bytes that fit in txq, INTQ_BUFSIZE - 1
          InSize,          \* bytes that fit in the input buffer
          MaxOutput,       \* bound: bytes given to serial_putc()
          MaxInput         \* bound: bytes that arrive on the line

ASSUME SerialAssumption == TxSize \in Nat \ {0} /\ InSize \in Nat \ {0} /\ MaxOutput \in Nat /\ MaxInput \in Nat

VARIABLES smode,           \* mode
          txq,
          buffer,          \* the input buffer
          ier,             \* IER_REG: the interrupts that the UART raises
          busy,            \* THR_REG holds a byte: LSR_THRE is clear
          wire,            \* the bytes written to THR_REG
          given,           \* the bytes given to serial_putc()
          rbr,             \* a byte waits in RBR_REG: LSR_DR is set
          arrived,         \* bytes that have arrived
          starting         \* serial_init_queue() is before its intr_disable()

serialvars == <<smode, txq, buffer, ier, busy, wire, given, rbr, arrived, starting>>

IER_XMIT == "IER_XMIT"
IER_RECV == "IER_RECV"

SerialInit ==
  /\ smode = "UNINIT"
  /\ txq = <<>> /\ buffer = <<>>
  /\ ier = {}
  /\ busy = FALSE /\ wire = <<>> /\ given = <<>>
  /\ rbr = FALSE /\ arrived = 0
  /\ starting = FALSE

tx_full == Len(txq) >= TxSize
input_full == Len(buffer) >= InSize

\* Mutation: the receive interrupt stays enabled when the buffer is full.
write_ier_receiving(q, b) == (IF q # <<>> THEN {IER_XMIT} ELSE {}) \cup {IER_RECV}

\* Mutation: transmit interrupts only when the queue is full.
write_ier_full(q, b) == (IF Len(q) >= TxSize THEN {IER_XMIT} ELSE {}) \cup (IF Len(b) < InSize THEN {IER_RECV} ELSE {})

\* The register for a transmit queue q and an input buffer b.
write_ier(q, b) ==
  (IF q # <<>> THEN {IER_XMIT} ELSE {}) \cup (IF Len(b) < InSize THEN {IER_RECV} ELSE {})

\* serial_notify(), after the input buffer has changed
serial_notify == ier' = IF smode = "QUEUE" THEN write_ier(txq, buffer') ELSE ier

\* putc_poll() of each byte of S, waiting for LSR_THRE before each.
putc_poll(s) == wire' = wire \o s /\ busy' = (busy \/ s # <<>>)

\* init_poll(), called once, turns the UART's interrupts off.
init_poll == smode' = "POLL" /\ ier' = IF smode = "UNINIT" THEN {} ELSE ier

\* serial_putc() before interrupt-driven I/O is set up.
serial_putc_poll(b) ==
  /\ smode # "QUEUE" /\ Len(given) < MaxOutput
  /\ putc_poll(<<b>>)
  /\ given' = Append(given, b)
  /\ init_poll
  /\ UNCHANGED <<txq, buffer, rbr, arrived, starting>>

\* What serial_putc() sends by polling when the queue is full.
sent_by_poll(b) == <<Head(txq)>>

\* The end of serial_putc(): queue Q, and the register that goes with it.
queued(q) == txq' = q /\ ier' = write_ier(q, buffer)

\* serial_putc() in a thread with interrupts on, once the queue has room.
serial_putc_queue(b) ==
  /\ smode = "QUEUE" /\ Len(given) < MaxOutput /\ ~tx_full
  /\ queued(Append(txq, b))
  /\ given' = Append(given, b)
  /\ UNCHANGED <<smode, buffer, busy, wire, rbr, arrived, starting>>

\* serial_putc() with interrupts off finds the queue full.
serial_putc_off(b) ==
  /\ smode = "QUEUE" /\ Len(given) < MaxOutput /\ tx_full
  /\ putc_poll(sent_by_poll(b))
  /\ queued(Append(Tail(txq), b))
  /\ given' = Append(given, b)
  /\ UNCHANGED <<smode, buffer, rbr, arrived, starting>>

\* serial_init_queue() up to mode = QUEUE, then the rest of it.
serial_init_queue ==
  /\ smode # "QUEUE"
  /\ smode' = "QUEUE" /\ starting' = TRUE
  /\ ier' = IF smode = "UNINIT" THEN {} ELSE ier
  /\ UNCHANGED <<txq, buffer, busy, wire, given, rbr, arrived>>

serial_init_end ==
  /\ starting
  /\ starting' = FALSE
  /\ ier' = write_ier(txq, buffer)
  /\ UNCHANGED <<smode, txq, buffer, busy, wire, given, rbr, arrived>>

\* IER_REG is not written: an enabled transmit interrupt finds nothing to send.
serial_flush ==
  /\ putc_poll(txq)
  /\ txq' = <<>>
  /\ UNCHANGED <<smode, buffer, ier, given, rbr, arrived, starting>>

\* The UART asks for an interrupt.
interrupting == (IER_RECV \in ier /\ rbr) \/ (IER_XMIT \in ier /\ ~busy)

serial_interrupt ==
  LET receive == rbr /\ ~input_full
      transmit == ~busy /\ txq # <<>>
  IN /\ smode = "QUEUE" /\ interrupting
     /\ buffer' = IF receive THEN Append(buffer, "serial") ELSE buffer
     /\ rbr' = (rbr /\ ~receive)
     /\ txq' = IF transmit THEN Tail(txq) ELSE txq
     /\ wire' = IF transmit THEN Append(wire, Head(txq)) ELSE wire
     /\ busy' = (busy \/ transmit)
     /\ ier' = write_ier(txq', buffer')
     /\ UNCHANGED <<smode, given, arrived, starting>>

\* The end of keyboard_interrupt() for a key: dropped if the buffer is full.
key_pressed ==
  /\ ~input_full
  /\ buffer' = Append(buffer, "key")
  /\ serial_notify
  /\ UNCHANGED <<smode, txq, busy, wire, given, rbr, arrived, starting>>

\* input_getc(), once there is a key.
input_getc ==
  /\ buffer # <<>>
  /\ buffer' = Tail(buffer)
  /\ serial_notify
  /\ UNCHANGED <<smode, txq, busy, wire, given, rbr, arrived, starting>>

\* The UART: a byte has left THR_REG; a byte has arrived.
uart_sent == busy /\ busy' = FALSE
             /\ UNCHANGED <<smode, txq, buffer, ier, wire, given, rbr, arrived, starting>>

uart_received ==
  /\ ~rbr /\ arrived < MaxInput
  /\ rbr' = TRUE /\ arrived' = arrived + 1
  /\ UNCHANGED <<smode, txq, buffer, ier, busy, wire, given, starting>>

OutByte == {"x", "y"}

SerialNext ==
  \/ \E b \in OutByte : serial_putc_poll(b) \/ serial_putc_queue(b) \/ serial_putc_off(b)
  \/ serial_init_queue
  \/ serial_init_end
  \/ serial_flush
  \/ serial_interrupt
  \/ key_pressed
  \/ input_getc
  \/ uart_sent
  \/ uart_received

SerialSpec == SerialInit /\ [][SerialNext]_serialvars

----------------------------------------------------------------------------
(* Properties *)

\* Every variable has its type.
SerialTypeOK ==
  /\ smode \in {"UNINIT", "POLL", "QUEUE"}
  /\ txq \in Seq(OutByte) /\ wire \in Seq(OutByte) /\ given \in Seq(OutByte)
  /\ buffer \in Seq({"serial", "key"})
  /\ Len(txq) <= TxSize /\ Len(buffer) <= InSize
  /\ ier \subseteq {IER_XMIT, IER_RECV}
  /\ busy \in BOOLEAN /\ rbr \in BOOLEAN /\ starting \in BOOLEAN
  /\ arrived \in Nat

\* Once interrupt-driven, the UART raises a transmit interrupt while bytes are
\* queued, and receive interrupts exactly while the input buffer has room,
\* whoever filled or emptied it.  Were the receive bit set on a full buffer,
\* the handler would be entered again and again without taking the byte.
IerMatches ==
  (smode = "QUEUE" /\ ~starting) =>
    /\ txq # <<>> => IER_XMIT \in ier
    /\ IER_RECV \in ier <=> ~input_full

\* Every byte goes out once and in the order of the serial_putc() calls, even
\* when callers with interrupts off, a flush and the handler empty the queue.
OutputInOrder == wire \o txq = given

\* Every byte given to serial_putc() is sent once the queue is used.
AllSent ==
  (smode = "QUEUE" /\ Len(wire) < Len(given)) ~> (Len(wire) = Len(given))

\* A byte on the line is received, however often the input buffer fills up.
AllReceived == (smode = "QUEUE" /\ rbr) ~> ~rbr

\* The port is in order at every moment: the bytes sent and queued are those
\* that were given to serial_putc(), and the interrupt enable register fits
\* the two queues.
SerialOK == SerialTypeOK /\ OutputInOrder /\ IerMatches
=============================================================================
