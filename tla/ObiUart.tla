------------------------------- MODULE ObiUart -------------------------------
(***************************************************************************)
(* The UART.  A character is one value; on the line it takes a start bit,  *)
(* WordBits data bits and two stop bits, each one period of the baud       *)
(* generator (with LCR.stop_bits 0 the transmitter goes through both stop  *)
(* states).  The transmitter and the receiver each have a FIFO.  Parity,   *)
(* other word lengths, errors of the line, the modem lines and the UART's  *)
(* own interrupts, which no program enables, are left out.                 *)
(***************************************************************************)
EXTENDS CrocPkg, Sequences

CONSTANTS
  BaudPeriod,   \* clock cycles of a bit, 160 in the design
  WordBits      \* data bits of a character, 8 in the design

ASSUME UartAssumption == BaudPeriod \in Nat \ {0} /\ WordBits \in Nat \ {0}

FifoDepth == 16
Nothing   == NoChar       \* no character
Garbled   == "garbled"    \* a character of which the line saw a part

VARIABLES
  lcr, fcr, mcr,               \* the control registers, as sets of bits
  baud,                        \* phase of the baud generator, 0 until it is set
  thr, thr_full, tx_fifo,      \* holding register and FIFO of the transmitter
  tx_state, tx_bit, tsr,       \* its shift register
  looped,                      \* loopback settings seen by the character in tsr
  thr_empty, tx_empty,         \* the two transmitter bits of the line status
  rhr, rhr_full, rx_fifo, data_ready,
  uart_access,                   \* the read that is in its response phase
  line                         \* the characters that have left the chip

uart == <<lcr, fcr, mcr, baud, thr, thr_full, tx_fifo, tx_state, tx_bit, tsr,
          looped, thr_empty, tx_empty, rhr, rhr_full, rx_fifo, data_ready,
          uart_access, line>>

UartInit ==
  /\ lcr = {} /\ fcr = {} /\ mcr = {} /\ baud = 0
  /\ thr = Nothing /\ thr_full = FALSE /\ tx_fifo = <<>>
  /\ tx_state = "IDLE" /\ tx_bit = 0 /\ tsr = Nothing /\ looped = {}
  /\ thr_empty = TRUE /\ tx_empty = TRUE
  /\ rhr = Nothing /\ rhr_full = FALSE /\ rx_fifo = <<>> /\ data_ready = FALSE
  /\ uart_access = NoRequest /\ line = <<>>

dlab     == 7 \in lcr
fifo_en  == 0 \in fcr
rx_fifo_rst == 1 \in fcr
tx_fifo_rst == 2 \in fcr
loopback == 4 \in mcr

UartWrites(req, offset) == Writes(req, "UART", offset)
WritesTHR(req)     == UartWrites(req, UART.THR) /\ ~dlab
WritesDivisor(req) == dlab /\ (UartWrites(req, UART.DLAB_LSB) \/ UartWrites(req, UART.DLAB_MSB))
ReadsRBR           == Reads(uart_access, "UART", UART.RBR) /\ ~dlab

\* Seeded defect: the generator counts one cycle too far.
BaudEdgeLate == baud = BaudPeriod + 1

BaudEdge == baud = BaudPeriod

\* The divisor restarts the baud generator, which does not run before.  A FIFO
\* reset takes effect in the cycle after the write and clears itself.
ControlRegisters(req) ==
  /\ baud' = IF WritesDivisor(req) THEN 1
             ELSE IF baud = 0 THEN 0
             ELSE IF BaudEdge THEN 1 ELSE baud + 1
  /\ lcr' = IF UartWrites(req, UART.LINE_CONTROL) THEN req.wdata.bits ELSE lcr
  /\ fcr' = IF UartWrites(req, UART.FIFO_CONTROL) THEN req.wdata.bits
            ELSE IF fifo_en THEN fcr \ {1, 2} ELSE fcr
  /\ mcr' = IF UartWrites(req, UART.MODEM_CONTROL) THEN req.wdata.bits ELSE mcr

-----------------------------------------------------------------------------
(* The transmitter.                                                        *)

\* The shift register takes the next character at a baud edge.
TakesFifo == tx_state = "IDLE" /\ BaudEdge /\ fifo_en  /\ tx_fifo # <<>>
TakesThr  == tx_state = "IDLE" /\ BaudEdge /\ ~fifo_en /\ thr_full
PushesThr == fifo_en /\ thr_full /\ Len(tx_fifo) < FifoDepth

ShiftRegister ==
  /\ tsr' = IF TakesFifo THEN Head(tx_fifo)
            ELSE IF TakesThr THEN thr
            ELSE IF tx_state = "IDLE" THEN Nothing ELSE tsr
  /\ tx_state' =
       CASE tx_state = "IDLE"  -> IF TakesFifo \/ TakesThr THEN "START" ELSE "IDLE"
         [] tx_state = "START" -> IF BaudEdge THEN "DATA" ELSE "START"
         [] tx_state = "DATA"  ->
              IF BaudEdge /\ tx_bit = WordBits - 1 THEN "STOP1" ELSE "DATA"
         [] tx_state = "STOP1" -> IF BaudEdge THEN "STOP2" ELSE "STOP1"
         [] tx_state = "STOP2" -> "IDLE"
  /\ tx_bit' = IF tx_state = "IDLE" THEN 0
               ELSE IF tx_state = "DATA" /\ BaudEdge THEN tx_bit + 1 ELSE tx_bit
  /\ looped' = IF tx_state \in {"IDLE", "STOP2"} THEN {} ELSE looped \cup {loopback}

\* The last data bit leaves: what the line outside and the receiver inside
\* have seen of the character depends on where it was led meanwhile.
CharacterEnds == tx_state = "DATA" /\ BaudEdge /\ tx_bit = WordBits - 1

Transmitted ==
  IF ~CharacterEnds \/ looped \cup {loopback} = {TRUE} THEN <<>>
  ELSE IF looped \cup {loopback} = {FALSE} THEN <<tsr>> ELSE <<Garbled>>

LoopedBack ==
  IF ~CharacterEnds \/ ~loopback THEN Nothing
  ELSE IF looped = {TRUE} THEN tsr ELSE Garbled

\* A write of THR clears the two status bits unless the FIFO (or THR, without
\* FIFO) is empty in that very cycle: then they are set, the last assignment
\* winning.
NothingQueued == IF fifo_en THEN tx_fifo = <<>> ELSE ~thr_full

Transmitter(req) ==
  /\ thr' = IF WritesTHR(req) THEN req.wdata.char ELSE thr
  /\ thr_full' = IF PushesThr \/ TakesThr THEN FALSE ELSE WritesTHR(req) \/ thr_full
  /\ tx_fifo' = IF ~fifo_en \/ tx_fifo_rst THEN <<>>
                ELSE LET rest == IF TakesFifo THEN Tail(tx_fifo) ELSE tx_fifo
                     IN  IF PushesThr THEN Append(rest, thr) ELSE rest
  /\ thr_empty' = IF NothingQueued THEN TRUE ELSE thr_empty /\ ~WritesTHR(req)
  /\ tx_empty'  = IF NothingQueued /\ tx_state = "IDLE" THEN TRUE
                  ELSE tx_empty /\ ~WritesTHR(req)
  /\ ShiftRegister
  /\ line' = line \o Transmitted

-----------------------------------------------------------------------------
(* The receiver: c is the character whose stop bit is sampled this cycle,   *)
(* sent from outside or looped back, or Nothing.                            *)

\* A character goes through the FIFO to the receive register, one cycle each.
FifoToRhr == fifo_en /\ ~rhr_full /\ rx_fifo # <<>>

Receiver(c) ==
  /\ rx_fifo' = IF ~fifo_en \/ rx_fifo_rst THEN <<>>
                ELSE LET rest == IF FifoToRhr THEN Tail(rx_fifo) ELSE rx_fifo
                     IN  IF c # Nothing /\ Len(rx_fifo) < FifoDepth
                         THEN Append(rest, c) ELSE rest
  /\ rhr' = IF FifoToRhr THEN Head(rx_fifo)
            ELSE IF ~fifo_en /\ c # Nothing THEN c
            ELSE IF ReadsRBR THEN Nothing ELSE rhr
  /\ rhr_full' = IF FifoToRhr \/ (~fifo_en /\ c # Nothing) THEN TRUE
                 ELSE rhr_full /\ ~ReadsRBR
  /\ data_ready' = IF fifo_en THEN c # Nothing \/ rx_fifo # <<>> \/ rhr_full
                   ELSE IF c # Nothing THEN TRUE
                   ELSE data_ready /\ ~ReadsRBR

UartCycle(req, c) ==
  /\ ControlRegisters(req)
  /\ Transmitter(req)
  /\ Receiver(IF loopback THEN LoopedBack ELSE c)
  /\ uart_access' = IF req.valid /\ ~req.we /\ req.port = "UART" THEN req ELSE NoRequest

LineStatus ==
  (IF data_ready THEN {LINE_STATUS_DATA_READY_BIT} ELSE {})
    \cup (IF thr_empty THEN {LINE_STATUS_THR_EMPTY_BIT} ELSE {})
    \cup (IF tx_empty THEN {LINE_STATUS_TMIT_EMPTY_BIT} ELSE {})

\* Read data, taken in the response phase.
UartReadData ==
  CASE uart_access.offset = UART.RBR           -> Char(rhr)
    [] uart_access.offset = UART.LINE_CONTROL  -> Bits(lcr)
    [] uart_access.offset = UART.MODEM_CONTROL -> Bits(mcr)
    [] uart_access.offset = UART.LINE_STATUS   -> Bits(LineStatus)

-----------------------------------------------------------------------------

UartTypeOK ==
  /\ tx_state \in {"IDLE", "START", "DATA", "STOP1", "STOP2"}
  /\ baud \in 0 .. BaudPeriod /\ tx_bit \in 0 .. WordBits
  /\ Len(tx_fifo) <= FifoDepth /\ Len(rx_fifo) <= FifoDepth
  /\ thr_full \in BOOLEAN /\ rhr_full \in BOOLEAN

\* Transmitter Empty means "no bits to send".
NoBitsToSend ==
  ~thr_full /\ tx_fifo = <<>> /\ tx_state \in {"IDLE", "STOP1", "STOP2"}

=============================================================================
