------------------------------ MODULE InputPath ------------------------------
(***************************************************************************)
(* Keyboard and COM1 input: the IRQ1 handler queues key events, the IRQ4   *)
(* handler drains the UART into a byte ring, and the one kernel thread     *)
(* takes from both in keyboard_read_event and keyboard_poll_event, asleep  *)
(* in hlt while there is nothing to take.  The comport command and a       *)
(* starting driver app re-initialise COM1 with interrupts enabled, and a   *)
(* running driver reads and writes the UART's registers.                   *)
(*                                                                         *)
(* Handlers run with interrupts disabled: between two steps of the thread, *)
(* never inside one another.  The compiler may order the two memory        *)
(* operations of a pop, and the two stores of a reset, either way, so      *)
(* todo holds the ones still to be done and any of them may come next.     *)
(* The UART is modelled as far as the code uses it: the receive FIFO, the  *)
(* "received data available" interrupt enable (IER bit 0) and the divisor  *)
(* latch access bit of LCR, which redirects the data and IER ports to the  *)
(* baud divisor.                                                           *)
(*                                                                         *)
(* The log and got variables are history: what entered a ring and what     *)
(* the thread took out of it, for COM1 since the last reset.               *)
(***************************************************************************)
EXTENDS RingBuf, SequencesExt

CONSTANTS
    Keys,       \* decoded key events
    Bytes,      \* received serial bytes
    TestByte,   \* the byte of the loopback test
    DriverRegs, \* the UART registers driver apps write
    UartDepth,  \* size of the UART's receive FIFO
    MaxKeys,    \* bound: key events offered to the queue
    MaxBytes,   \* bound: bytes received by the UART
    MaxResets   \* bound: calls of comport_init after boot

ASSUME InputAssumption ==
    /\ Keys # {} /\ TestByte \in Bytes
    /\ DriverRegs \subseteq {"ier", "fcr", "lcr"}
    /\ UartDepth \in Nat \ {0}
    /\ MaxKeys \in Nat /\ MaxBytes \in Nat /\ MaxResets \in Nat

VARIABLES
    kb_queue, rx_buf,     \* the two rings
    uart, ier, dlab,      \* receive FIFO, interrupt enable, divisor latch access
    isr,                  \* the handler that runs in several steps, or "none"
    pc, op,               \* where the thread is, and in which call
    slot, item, todo,     \* its registers in a pop or a reset
    driver_active,
    kbLog, kbGot, kbDropped, rxLog, rxGot, received, resets

lineVars   == <<uart, received>>
controlReg == <<ier, dlab>>
popVars    == <<slot, item, todo>>
driverVars == <<driver_active, resets>>
kbVars     == <<kb_queue, kbLog, kbGot, kbDropped>>
rxVars     == <<rx_buf, rxLog, rxGot>>
vars == <<kbVars, rxVars, lineVars, controlReg, isr, pc, op, popVars, driverVars>>

Ops == {"read", "poll", "driver", "claim", "command"}

Places == {"caller", "check_kb", "pop_kb", "check_rx", "pop_rx", "none",
           "hlt", "halted", "init", "init_uart", "init_test"}

EmptyRing(x) == [buf |-> [i \in Index |-> x], head |-> 0, tail |-> 0]

Init ==
    /\ \E k \in Keys : kb_queue = EmptyRing(k) /\ item = k
    /\ rx_buf = EmptyRing(TestByte)
    /\ uart = <<>> /\ ier = TRUE /\ dlab = FALSE /\ isr = "none" /\ received = 0
    /\ pc = "caller" /\ op = "read" /\ slot = 0 /\ todo = {}
    /\ driver_active = FALSE /\ resets = 0
    /\ kbLog = <<>> /\ kbGot = <<>> /\ kbDropped = 0
    /\ rxLog = <<>> /\ rxGot = <<>>

-----------------------------------------------------------------------------
(* Interrupts.  Any of them takes the thread out of hlt.                   *)

Woken == CASE pc # "halted" -> pc
           [] pc = "halted" /\ op = "read" -> "check_kb"
           [] OTHER -> "caller"

(* IRQ1: the end of keyboard_irq_handler, once a scancode has been decoded *)
(* to an event.                                                            *)
KeyboardIrq ==
    /\ isr = "none"
    /\ Len(kbLog) + kbDropped < MaxKeys
    /\ \E key \in Keys :
          /\ kb_queue' = RingPush(kb_queue, key)
          /\ IF RingFull(kb_queue)
             THEN kbDropped' = kbDropped + 1 /\ kbLog' = kbLog
             ELSE kbDropped' = kbDropped /\ kbLog' = Append(kbLog, key)
    /\ pc' = Woken
    /\ UNCHANGED <<kbGot, rxVars, lineVars, controlReg, isr, op, popVars, driverVars>>

\* Mutant: the timer's line stays masked.
TimerMasked == FALSE

(* IRQ0: the 100 Hz timer tick, which moves nothing here but ends a hlt.   *)
TimerIrq ==
    /\ isr = "none" /\ pc = "halted"
    /\ pc' = Woken
    /\ UNCHANGED <<kbVars, rxVars, lineVars, controlReg, isr, op, popVars, driverVars>>

FifoPut(fifo, b) == IF Len(fifo) < UartDepth THEN Append(fifo, b) ELSE fifo

(* The line delivers a byte; a full FIFO loses it.                         *)
ByteArrives ==
    /\ received < MaxBytes
    /\ received' = received + 1
    /\ \E b \in Bytes : uart' = FifoPut(uart, b)
    /\ UNCHANGED <<kbVars, rxVars, controlReg, isr, pc, op, popVars, driverVars>>

(* IRQ4: comport_irq_handler, entered while the UART requests service.     *)
SerialIrqEnter ==
    /\ isr = "none" /\ ier /\ uart # <<>>
    /\ isr' = "com1"
    /\ UNCHANGED <<kbVars, rxVars, lineVars, controlReg, pc, op, popVars, driverVars>>

\* Mutant: the loop tests the line status but peeks at the byte.
FifoKept == uart

(* With the divisor latch selected a read of the data port returns the     *)
(* divisor and leaves the FIFO as it is.                                   *)
FifoAfterRead == IF dlab THEN uart ELSE Tail(uart)

(* One turn of the handler's loop.                                         *)
SerialIrqPush ==
    /\ isr = "com1" /\ uart # <<>>
    /\ \E b \in IF dlab THEN Bytes ELSE {Head(uart)} :
          /\ rx_buf' = RingPush(rx_buf, b)
          /\ rxLog' = IF RingFull(rx_buf) THEN rxLog ELSE Append(rxLog, b)
    /\ uart' = FifoAfterRead
    /\ UNCHANGED <<rxGot, received, kbVars, controlReg, isr, pc, op, popVars, driverVars>>

SerialIrqReturn ==
    /\ isr = "com1" /\ uart = <<>>
    /\ isr' = "none"
    /\ pc' = Woken
    /\ UNCHANGED <<kbVars, rxVars, lineVars, controlReg, op, popVars, driverVars>>

-----------------------------------------------------------------------------
(* The kernel thread.                                                      *)

At(place) == isr = "none" /\ pc = place

(* keyboard_read_event blocks; keyboard_poll_event does not; a driver app  *)
(* may also read COM1 alone, through driver_api_serial_read.               *)
Call ==
    /\ At("caller")
    /\ op' \in {"read", "poll"} \cup (IF driver_active THEN {"driver"} ELSE {})
    /\ pc' = IF op' = "driver" THEN "check_rx" ELSE "check_kb"
    /\ UNCHANGED <<kbVars, rxVars, lineVars, controlReg, isr, popVars, driverVars>>

StartPop(ring, place) ==
    /\ pc' = place
    /\ slot' = ring.tail
    /\ todo' = {"read", "release"}

CheckKeyboard ==
    /\ At("check_kb")
    /\ IF RingEmpty(kb_queue)
       THEN pc' = "check_rx" /\ UNCHANGED <<slot, todo>>
       ELSE StartPop(kb_queue, "pop_kb")
    /\ UNCHANGED <<kbVars, rxVars, lineVars, controlReg, isr, op, item, driverVars>>

(* comport_poll_char                                                       *)
CheckSerial ==
    /\ At("check_rx")
    /\ IF RingEmpty(rx_buf)
       THEN /\ pc' = CASE op = "read" -> "hlt"
                       [] op = "poll" -> "none"
                       [] OTHER -> "caller"
            /\ UNCHANGED <<slot, todo>>
       ELSE StartPop(rx_buf, "pop_rx")
    /\ UNCHANGED <<kbVars, rxVars, lineVars, controlReg, isr, op, item, driverVars>>

ReadKeySlot ==
    /\ At("pop_kb") /\ "read" \in todo
    /\ item' = kb_queue.buf[slot]
    /\ todo' = todo \ {"read"}
    /\ UNCHANGED <<kbVars, rxVars, lineVars, controlReg, isr, pc, op, slot, driverVars>>

ReleaseKeySlot ==
    /\ At("pop_kb") /\ "release" \in todo
    /\ kb_queue' = RingRelease(kb_queue)
    /\ todo' = todo \ {"release"}
    /\ UNCHANGED <<kbLog, kbGot, kbDropped, rxVars, lineVars, controlReg, isr, pc, op,
                   slot, item, driverVars>>

ReturnKey ==
    /\ At("pop_kb") /\ todo = {}
    /\ kbGot' = Append(kbGot, item)
    /\ pc' = "caller"
    /\ UNCHANGED <<kb_queue, kbLog, kbDropped, rxVars, lineVars, controlReg, isr, op,
                   popVars, driverVars>>

ReadByteSlot ==
    /\ At("pop_rx") /\ "read" \in todo
    /\ item' = rx_buf.buf[slot]
    /\ todo' = todo \ {"read"}
    /\ UNCHANGED <<kbVars, rxVars, lineVars, controlReg, isr, pc, op, slot, driverVars>>

ReleaseByteSlot ==
    /\ At("pop_rx") /\ "release" \in todo
    /\ rx_buf' = RingRelease(rx_buf)
    /\ todo' = todo \ {"release"}
    /\ UNCHANGED <<kbVars, rxLog, rxGot, lineVars, controlReg, isr, pc, op, slot, item,
                   driverVars>>

ReturnByte ==
    /\ At("pop_rx") /\ todo = {}
    /\ rxGot' = Append(rxGot, item)
    /\ pc' = "caller"
    /\ UNCHANGED <<kbVars, rx_buf, rxLog, lineVars, controlReg, isr, op, popVars,
                   driverVars>>

(* keyboard_poll_event found nothing.  The shell's loop then executes hlt; *)
(* an app that polls goes on.                                              *)
PollReturnsNone ==
    /\ At("none")
    /\ pc' \in {"hlt", "caller"}
    /\ UNCHANGED <<kbVars, rxVars, lineVars, controlReg, isr, op, popVars, driverVars>>

Halt ==
    /\ At("hlt")
    /\ pc' = "halted"
    /\ UNCHANGED <<kbVars, rxVars, lineVars, controlReg, isr, op, popVars, driverVars>>

-----------------------------------------------------------------------------
(* comport_init, called by driver_runtime_begin and by the comport command *)
(* while IRQ4 may come between any two of its steps.                       *)

ComportInit ==
    /\ At("caller") /\ ~driver_active
    /\ resets < MaxResets
    /\ resets' = resets + 1
    /\ op' \in {"claim", "command"}
    /\ pc' = "init" /\ todo' = {"head", "tail"}
    /\ UNCHANGED <<kbVars, rxVars, lineVars, controlReg, isr, slot, item, driver_active>>

(* The store to head is what discards the bytes received so far.           *)
ResetHead ==
    /\ At("init") /\ "head" \in todo
    /\ rx_buf' = [rx_buf EXCEPT !.head = 0]
    /\ todo' = todo \ {"head"}
    /\ rxLog' = <<>> /\ rxGot' = <<>>
    /\ UNCHANGED <<kbVars, lineVars, controlReg, isr, pc, op, slot, item, driverVars>>

\* Mutant: ringbuf_init forgets tail.
TailKept ==
    /\ At("init") /\ "tail" \in todo
    /\ todo' = todo \ {"tail"}
    /\ UNCHANGED <<kbVars, rxVars, lineVars, controlReg, isr, pc, op, slot, item,
                   driverVars>>

ResetTail ==
    /\ At("init") /\ "tail" \in todo
    /\ rx_buf' = [rx_buf EXCEPT !.tail = 0]
    /\ todo' = todo \ {"tail"}
    /\ UNCHANGED <<kbVars, rxLog, rxGot, lineVars, controlReg, isr, pc, op, slot, item,
                   driverVars>>

(* The store of 0 to IER reaches it unless the divisor latch is selected.  *)
DisableIrq ==
    /\ At("init") /\ todo = {}
    /\ ier' = (ier /\ dlab)
    /\ pc' = "init_uart"
    /\ UNCHANGED <<kbVars, rxVars, lineVars, dlab, isr, op, popVars, driverVars>>

(* The baud rate, 8N1, and FCR, which clears the FIFO.                     *)
SetupUart ==
    /\ At("init_uart")
    /\ dlab' = FALSE
    /\ uart' = <<>>
    /\ pc' = "init_test"
    /\ UNCHANGED <<kbVars, rxVars, ier, received, isr, op, popVars, driverVars>>

(* The test byte goes behind what is in the FIFO and the oldest byte is    *)
(* compared with it; a faulty UART reads back something else.              *)
LoopbackTest ==
    /\ At("init_test")
    /\ \E healthy \in BOOLEAN :
          LET looped == FifoPut(uart, TestByte)
              passed == healthy /\ Head(looped) = TestByte
          IN  /\ uart' = Tail(looped)
              /\ ier' = (ier \/ passed)
              /\ driver_active' = (passed /\ op = "claim")
    /\ pc' = "caller"
    /\ UNCHANGED <<kbVars, rxVars, received, dlab, isr, op, popVars, resets>>

-----------------------------------------------------------------------------
(* A running driver.                                                       *)

(* driver_api_port_read8 of the data port                                  *)
DriverPortRead ==
    /\ At("caller") /\ driver_active
    /\ uart # <<>> /\ ~dlab
    /\ uart' = Tail(uart)
    /\ UNCHANGED <<kbVars, rxVars, received, controlReg, isr, pc, op, popVars, driverVars>>

(* driver_api_port_write8: with the divisor latch selected a write to the  *)
(* IER port sets the divisor.                                              *)
DriverPortWrite ==
    /\ At("caller") /\ driver_active
    /\ \/ /\ "ier" \in DriverRegs /\ ~dlab
          /\ ier' \in BOOLEAN
          /\ UNCHANGED <<uart, dlab>>
       \/ /\ "fcr" \in DriverRegs
          /\ uart' = <<>>
          /\ UNCHANGED controlReg
       \/ /\ "lcr" \in DriverRegs
          /\ dlab' \in BOOLEAN
          /\ UNCHANGED <<uart, ier>>
    /\ UNCHANGED <<kbVars, rxVars, received, isr, pc, op, popVars, driverVars>>

(* driver_runtime_end: the store of 1 to the IER port                      *)
DriverEnd ==
    /\ At("caller") /\ driver_active
    /\ ier' = (ier \/ ~dlab)
    /\ driver_active' = FALSE
    /\ UNCHANGED <<kbVars, rxVars, lineVars, dlab, isr, pc, op, popVars, resets>>

-----------------------------------------------------------------------------
Pop ==
    \/ ReadKeySlot \/ ReleaseKeySlot \/ ReturnKey
    \/ ReadByteSlot \/ ReleaseByteSlot \/ ReturnByte

Reset ==
    ResetHead \/ ResetTail \/ DisableIrq \/ SetupUart \/ LoopbackTest

Driver == DriverPortRead \/ DriverPortWrite \/ DriverEnd

Thread ==
    \/ Call \/ CheckKeyboard \/ CheckSerial \/ Pop \/ PollReturnsNone \/ Halt
    \/ ComportInit \/ Reset \/ Driver

SerialIrq == SerialIrqEnter \/ SerialIrqPush \/ SerialIrqReturn

Next == KeyboardIrq \/ TimerIrq \/ ByteArrives \/ SerialIrq \/ Thread

(* The processor goes on executing the thread, the timer goes on ticking,  *)
(* a requested interrupt is served, the driver's program ends and a        *)
(* program that runs reads its input again.                                *)
Fairness ==
    /\ WF_vars(Thread) /\ WF_vars(TimerIrq) /\ WF_vars(SerialIrq)
    /\ SF_vars(Call) /\ SF_vars(DriverEnd)

Spec == Init /\ [][Next]_vars /\ Fairness

-----------------------------------------------------------------------------
TypeOK ==
    /\ kb_queue \in Ring(Keys) /\ rx_buf \in Ring(Bytes)
    /\ uart \in Seq(Bytes) /\ ier \in BOOLEAN /\ dlab \in BOOLEAN
    /\ isr \in {"none", "com1"}
    /\ pc \in Places /\ op \in Ops
    /\ slot \in Index /\ item \in Keys \cup Bytes
    /\ pc = "pop_kb" /\ "read" \notin todo => item \in Keys
    /\ pc = "pop_rx" /\ "read" \notin todo => item \in Bytes
    /\ todo \subseteq {"read", "release", "head", "tail"}
    /\ driver_active \in BOOLEAN
    /\ kbLog \in Seq(Keys) /\ kbGot \in Seq(Keys) /\ kbDropped \in Nat
    /\ rxLog \in Seq(Bytes) /\ rxGot \in Seq(Bytes)
    /\ received \in Nat /\ resets \in Nat

(* The keys handed to the reader are the queued ones, each once and in the *)
(* order IRQ1 queued them, whatever interrupts kb_queue_pop and in which   *)
(* order its two memory operations happen.                                 *)
KeysInOrder == IsPrefix(kbGot, kbLog)

(* The same of ringbuf_pop for the bytes received since comport_init last  *)
(* discarded the ring, which it does with IRQ4 enabled.                    *)
BytesInOrder == IsPrefix(rxGot, rxLog)

(* kb_queue keeps the promise of a queue for Capacity - 1 events: only an  *)
(* event that finds as many undelivered ones is lost.                      *)
KeyQueue == INSTANCE EventQueue WITH
    Event <- Keys, Bound <- Capacity - 1, delivered <- kbGot, lost <- kbDropped,
    queue <- SubSeq(kbLog, Len(kbGot) + 1, Len(kbLog))

KeyQueuePromise == KeyQueue!QueueSpec

(* A queued key is read in the end.  Nothing makes the test for an empty   *)
(* queue and the hlt after it one step: a key may come between them, and   *)
(* only the next timer tick gets the thread out of that hlt.               *)
KeysDelivered == []<>(Len(kbGot) = Len(kbLog))

(* A byte in the ring is read in the end, or a comport_init discards it.   *)
BytesDelivered == []<>(Len(rxGot) = Len(rxLog))

(* comport_irq_handler returns: its loop ends.                             *)
HandlerReturns == []<>(isr = "none")

(* driver_api.c:32 says of the end of a driver: "Recover the kernel COM1   *)
(* receive interrupt even if VM execution failed."                         *)
DriverEndRecovers == [][driver_active /\ ~driver_active' => ier']_vars
=============================================================================
