------------------------------ MODULE AsyncUart ------------------------------
(***************************************************************************)
(* The asynchronous UART: the ring buffers of src/src/queue.c, the         *)
(* functions uart_async_*() of uart.c and uart_interrupt_handler() of      *)
(* exception.c.  The program runs at EL1 with interrupts enabled, so the   *)
(* handler may run between any two of its memory accesses: each access to  *)
(* a ring or to AUX_MU_IER_REG is one action.  The handler is not          *)
(* interrupted, but the transmitter empties its FIFO meanwhile.            *)
(*                                                                         *)
(* The n-th character written by the program is the number n, and so is    *)
(* the n-th character received, so that losing, repeating or reordering    *)
(* one shows.                                                              *)
(***************************************************************************)
EXTENDS Integers, SequencesExt

CONSTANTS
  Size,       \* queue.size: 64
  FifoSize,   \* hardware: the length of the transmit FIFO
  MaxPut,     \* bound: characters the program writes
  MaxRecv     \* bound: characters that arrive

ASSUME SizeAssumption ==
  /\ Size \in Nat \ {0, 1} /\ FifoSize \in Nat \ {0}
  /\ MaxPut \in Nat /\ MaxRecv \in Nat

VARIABLES
  rbuf, rhead, rtail,    \* read_buffer
  wbuf, whead, wtail,    \* write_buffer
  ier,                   \* AUX_MU_IER_REG: the interrupts that are enabled
  pc,                    \* where the program is
  c,                     \* dequeue_char(): the character it read
  reg,                   \* the value of AUX_MU_IER_REG the program read
  isr,                   \* TRUE: the handler is in its transmit loop
  txfifo, rxfifo,        \* hardware
  sent, got,             \* what left the transmitter, what the program read
  nput, nrecv,           \* characters written, characters that arrived
  rlost, wlost, dropped  \* history: a ring was lapped, a full FIFO refused

rvars == <<rbuf, rhead, rtail, rlost>>
wvars == <<wbuf, whead, wtail, wlost>>
vars == <<rvars, wvars, ier, pc, c, reg, isr, txfifo, rxfifo, sent, got, nput,
          nrecv, dropped>>

Slot == 0 .. Size - 1
Succ(k) == (k + 1) % Size

(* is_empty()                                                              *)
IsEmpty(head, tail) == head = tail

Init ==
  /\ rbuf = [k \in Slot |-> 0] /\ rhead = 0 /\ rtail = 0 /\ rlost = FALSE
  /\ wbuf = [k \in Slot |-> 0] /\ whead = 0 /\ wtail = 0 /\ wlost = FALSE
  /\ ier = {"rx"}                 \* uart_async_init()
  /\ pc = "idle" /\ c = 0 /\ reg = {} /\ isr = FALSE
  /\ txfifo = <<>> /\ rxfifo = <<>> /\ sent = <<>> /\ got = <<>>
  /\ nput = 0 /\ nrecv = 0 /\ dropped = FALSE

------------------------------------------------------------------------------
(* The program                                                             *)

(* Mutant: the character is stored behind the head.                        *)
PutStoreAhead ==
  /\ pc \in {"idle", "puts"}
  /\ nput < MaxPut
  /\ wbuf' = [wbuf EXCEPT ![Succ(whead)] = nput + 1]
  /\ nput' = nput + 1
  /\ pc' = "put_head"
  /\ UNCHANGED <<rvars, whead, wtail, wlost, ier, c, reg, isr, txfifo, rxfifo,
                 sent, got, nrecv, dropped>>

(* enqueue_char(), first statement: q->buffer[q->head] = c.                *)
PutStore ==
  /\ pc \in {"idle", "puts"}
  /\ nput < MaxPut
  /\ wbuf' = [wbuf EXCEPT ![whead] = nput + 1]
  /\ nput' = nput + 1
  /\ pc' = "put_head"
  /\ UNCHANGED <<rvars, whead, wtail, wlost, ier, c, reg, isr, txfifo, rxfifo,
                 sent, got, nrecv, dropped>>

(* enqueue_char(), second statement.  There is no check for a full ring.   *)
PutHead ==
  /\ pc = "put_head"
  /\ whead' = Succ(whead)
  /\ wlost' = (wlost \/ Succ(whead) = wtail)
  /\ pc' = "puts"
  /\ UNCHANGED <<rvars, wbuf, wtail, ier, c, reg, isr, txfifo, rxfifo, sent,
                 got, nput, nrecv, dropped>>

(* AUX_MU_IER_REG |= (1 << 1) at the end of uart_async_puts() and          *)
(* uart_async_send(): a read and a write of the register.                  *)
PutReadIer ==
  /\ pc = "puts"
  /\ reg' = ier
  /\ pc' = "put_ier"
  /\ UNCHANGED <<rvars, wvars, ier, c, isr, txfifo, rxfifo, sent, got, nput,
                 nrecv, dropped>>

(* Mutant: the transmit interrupt is not enabled.                          *)
PutWriteIerPlain ==
  /\ pc = "put_ier"
  /\ ier' = reg
  /\ reg' = {}
  /\ pc' = "idle"
  /\ UNCHANGED <<rvars, wvars, c, isr, txfifo, rxfifo, sent, got, nput, nrecv,
                 dropped>>

PutWriteIer ==
  /\ pc = "put_ier"
  /\ ier' = reg \cup {"tx"}
  /\ reg' = {}
  /\ pc' = "idle"
  /\ UNCHANGED <<rvars, wvars, c, isr, txfifo, rxfifo, sent, got, nput, nrecv,
                 dropped>>

(* Mutant: the tail is advanced before the character is read.              *)
GetReadNext ==
  /\ pc \in {"idle", "gets"}
  /\ ~ IsEmpty(rhead, rtail)
  /\ c' = rbuf[Succ(rtail)]
  /\ pc' = "get_tail"
  /\ UNCHANGED <<rvars, wvars, ier, reg, isr, txfifo, rxfifo, sent, got, nput,
                 nrecv, dropped>>

(* uart_async_gets(), uart_async_getc(): dequeue_char() if there is a      *)
(* character.  First c = q->buffer[q->tail], then the tail.                *)
GetRead ==
  /\ pc \in {"idle", "gets"}
  /\ ~ IsEmpty(rhead, rtail)
  /\ c' = rbuf[rtail]
  /\ pc' = "get_tail"
  /\ UNCHANGED <<rvars, wvars, ier, reg, isr, txfifo, rxfifo, sent, got, nput,
                 nrecv, dropped>>

GetTail ==
  /\ pc = "get_tail"
  /\ rtail' = Succ(rtail)
  /\ got' = Append(got, c)
  /\ c' = 0
  /\ pc' = "gets"
  /\ UNCHANGED <<rbuf, rhead, rlost, wvars, ier, reg, isr, txfifo, rxfifo,
                 sent, nput, nrecv, dropped>>

(* uart_async_getc() returns, or the loop of gets() finds nothing more.    *)
GetDone ==
  /\ pc = "gets"
  /\ pc' = "idle"
  /\ UNCHANGED <<rvars, wvars, ier, c, reg, isr, txfifo, rxfifo, sent, got,
                 nput, nrecv, dropped>>

Program ==
  /\ ~ isr
  /\ \/ PutStore \/ PutHead \/ PutReadIer \/ PutWriteIer
     \/ GetRead \/ GetTail \/ GetDone

------------------------------------------------------------------------------
(* uart_interrupt_handler()                                                *)

(* The receiver holds a byte: one character goes to read_buffer.  The      *)
(* receive interrupt is off only while the handler runs; AUX_MU_IIR_REG is *)
(* taken to name the receiver also once it is masked, and only when it has *)
(* a byte, so that the handler's other branches have nothing to do.        *)
Receive ==
  /\ ~ isr /\ "rx" \in ier
  /\ rxfifo # <<>>
  /\ rxfifo' = Tail(rxfifo)
  /\ rbuf' = [rbuf EXCEPT ![rhead] = Head(rxfifo)]
  /\ rhead' = Succ(rhead)
  /\ rlost' = (rlost \/ Succ(rhead) = rtail)
  /\ UNCHANGED <<rtail, wvars, ier, pc, c, reg, isr, txfifo, sent, got, nput,
                 nrecv, dropped>>

(* The transmitter is empty: both interrupts are disabled.                 *)
TransmitStart ==
  /\ ~ isr /\ "tx" \in ier
  /\ txfifo = <<>>
  /\ ier' = {}
  /\ isr' = TRUE
  /\ UNCHANGED <<rvars, wvars, pc, c, reg, txfifo, rxfifo, sent, got, nput,
                 nrecv, dropped>>

(* Mutant: a character that was output stays in the ring.                  *)
TransmitCharKept ==
  /\ isr
  /\ ~ IsEmpty(whead, wtail)
  /\ IF Len(txfifo) < FifoSize
       THEN txfifo' = Append(txfifo, wbuf[wtail]) /\ UNCHANGED <<dropped, wtail>>
       ELSE dropped' = TRUE /\ wtail' = Succ(wtail) /\ UNCHANGED txfifo
  /\ UNCHANGED <<rvars, wbuf, whead, wlost, ier, pc, c, reg, isr, rxfifo, sent,
                 got, nput, nrecv>>

(* The loop: the character is dequeued, and output if the FIFO has room.   *)
TransmitChar ==
  /\ isr
  /\ ~ IsEmpty(whead, wtail)
  /\ wtail' = Succ(wtail)
  /\ IF Len(txfifo) < FifoSize
       THEN txfifo' = Append(txfifo, wbuf[wtail]) /\ UNCHANGED dropped
       ELSE dropped' = TRUE /\ UNCHANGED txfifo
  /\ UNCHANGED <<rvars, wbuf, whead, wlost, ier, pc, c, reg, isr, rxfifo, sent,
                 got, nput, nrecv>>

(* Mutant: the receive interrupt is not enabled again.                     *)
TransmitDoneMasked ==
  /\ isr
  /\ IsEmpty(whead, wtail)
  /\ isr' = FALSE
  /\ UNCHANGED <<rvars, wvars, ier, pc, c, reg, txfifo, rxfifo, sent, got, nput,
                 nrecv, dropped>>

(* The end of the loop and of the handler.                                 *)
TransmitDone ==
  /\ isr
  /\ IsEmpty(whead, wtail)
  /\ ier' = ier \cup {"rx"}
  /\ isr' = FALSE
  /\ UNCHANGED <<rvars, wvars, pc, c, reg, txfifo, rxfifo, sent, got, nput,
                 nrecv, dropped>>

Handler == Receive \/ TransmitStart \/ TransmitChar \/ TransmitDone

------------------------------------------------------------------------------
(* The hardware                                                            *)

Transmit ==
  /\ txfifo # <<>>
  /\ sent' = Append(sent, Head(txfifo))
  /\ txfifo' = Tail(txfifo)
  /\ UNCHANGED <<rvars, wvars, ier, pc, c, reg, isr, rxfifo, got, nput, nrecv,
                 dropped>>

Arrive ==
  /\ nrecv < MaxRecv
  /\ Len(rxfifo) < FifoSize
  /\ rxfifo' = Append(rxfifo, nrecv + 1)
  /\ nrecv' = nrecv + 1
  /\ UNCHANGED <<rvars, wvars, ier, pc, c, reg, isr, txfifo, sent, got, nput,
                 dropped>>

Next == Program \/ Handler \/ Transmit \/ Arrive

(* The program's loop goes on, an enabled interrupt is taken and the       *)
(* transmitter sends.  Nothing makes characters arrive.                    *)
Fairness ==
  /\ WF_vars(Program)
  /\ WF_vars(Receive)
  /\ WF_vars(TransmitStart \/ TransmitChar \/ TransmitDone)
  /\ WF_vars(Transmit)

Spec == Init /\ [][Next]_vars /\ Fairness

------------------------------------------------------------------------------
(* Properties                                                              *)

(* The content of a ring.                                                  *)
Ring(buf, head, tail) ==
  [k \in 1 .. (head - tail) % Size |-> buf[(tail + k - 1) % Size]]

Upto(n) == [k \in 1 .. n |-> k]

(* As long as read_buffer is never lapped, what the program has read and   *)
(* what is still in the ring is exactly what arrived, in order, wherever   *)
(* the handler interrupted dequeue_char() (queue.c:14-19, uart.c:190-221). *)
RxExact ==
  ~ rlost => got \o Ring(rbuf, rhead, rtail) \o rxfifo = Upto(nrecv)

(* As long as write_buffer is never lapped and the FIFO never refuses a    *)
(* character, what was sent, what is in the FIFO and what is in the ring   *)
(* is what the program wrote, in order, wherever the handler interrupted   *)
(* enqueue_char() (queue.c:8-12, exception.c:161-165).                     *)
TxExact ==
  (~ wlost /\ ~ dropped) =>
    sent \o txfifo \o Ring(wbuf, whead, wtail)
      = Upto(IF pc = "put_head" THEN nput - 1 ELSE nput)

(* Even after an overflow no character is sent or read twice or out of     *)
(* order: a lapped ring forgets characters and never repeats one           *)
(* (queue.c:8-19).                                                         *)
NothingRepeated ==
  /\ \A j, k \in 1 .. Len(sent) : j < k => sent[j] < sent[k]
  /\ \A j, k \in 1 .. Len(got) : j < k => got[j] < got[k]

(* What is in write_buffer is taken out: the transmit interrupt that the   *)
(* handler turns off is turned on again after every write, whatever the    *)
(* interleaving of the two updates of AUX_MU_IER_REG (exception.c:159,     *)
(* uart.c:200, 208).                                                       *)
WritesTaken == ~ IsEmpty(whead, wtail) ~> IsEmpty(whead, wtail)

(* A character that arrived reaches read_buffer: the receive interrupt is  *)
(* never left disabled (exception.c:155, 184).                             *)
ReceiverServed == (rxfifo # <<>>) ~> (rxfifo = <<>>)

==============================================================================
