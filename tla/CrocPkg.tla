------------------------------- MODULE CrocPkg -------------------------------
(***************************************************************************)
(* The peripherals of the SoC as software and hardware both see them: the  *)
(* address map, the registers of each peripheral, the interrupt numbers,   *)
(* and the one bus request a peripheral may be given in a clock cycle.     *)
(* The headers of sw/ and the packages of rtl/ give the same numbers.      *)
(***************************************************************************)
EXTENDS Naturals

BASE_ADDR ==
  [ DEBUG   |-> 0,        BOOTROM   |-> \h02000000, CLINT |-> \h02040000,
    SOCCTRL |-> \h03000000, UART    |-> \h03002000, GPIO  |-> \h03005000,
    TIMER   |-> \h0300A000, IDMA    |-> \h0300B000 ]

OBI_TIMER == [ COUNT |-> 0, COMPARE |-> 4, CTRL |-> 8, STATUS |-> 12 ]

CTRL_ENABLE_BIT     == 0
CTRL_AUTORESET_BIT  == 1
STATUS_EXPIRED_BIT  == 0
STATUS_OVERFLOW_BIT == 1

CLINT == [ MSIP |-> 0, MTIMECMP_LOW0 |-> \h4000, MTIMECMP_HIGH0 |-> \h4004,
           MTIME_LOW |-> \hBFF8, MTIME_HIGH |-> \hBFFC ]

GPIO == [ DIR |-> 0, EN |-> \h080, INPUT |-> \h100, OUT |-> \h180,
          TOGGLE |-> \h200, INTRPT_EN |-> \h280, INTRPT_STATUS |-> \h300,
          INTRPT_EDGE |-> \h380 ]

SOC_CTRL == [ BOOTADDR |-> 0, FETCHEN |-> 4, CORESTATUS |-> 8,
              BOOTMODE |-> 12, SRAM_DLY |-> 16 ]

\* RBR and THR share an address, and so do DLAB_LSB and DLAB_MSB with THR and
\* INTR_ENABLE: the line control register selects.
UART == [ RBR |-> 0, THR |-> 0, INTR_ENABLE |-> 4, FIFO_CONTROL |-> 8,
          LINE_CONTROL |-> 12, MODEM_CONTROL |-> 16, LINE_STATUS |-> 20,
          DLAB_LSB |-> 0, DLAB_MSB |-> 4 ]

LINE_STATUS_DATA_READY_BIT == 0
LINE_STATUS_THR_EMPTY_BIT  == 5
LINE_STATUS_TMIT_EMPTY_BIT == 6

IDMA == [ CONF |-> 0, NEXT_ID |-> \h44, DONE_ID |-> \h84, DST_ADDR |-> \hd0,
          SRC_ADDR |-> \hd8, LENGTH |-> \he0, DST_STRIDE_2 |-> \he8,
          SRC_STRIDE_2 |-> \hf0, REPS_2 |-> \hf8 ]

IRQ_SOFTWARE  == 3
IRQ_TIMER     == 7
IRQ_OBI_TIMER == 16
IRQ_GPIO      == 18

-----------------------------------------------------------------------------
(* The demultiplexer in front of the peripherals.  iDMAEnable is 0: its     *)
(* addresses are left to the error subordinate, like every gap of the map.  *)

SpaceSize ==
  [ DEBUG |-> \h40000, BOOTROM |-> \h4000, CLINT |-> \h40000,
    SOCCTRL |-> \h1000, UART |-> \h1000, GPIO |-> \h1000, TIMER |-> \h1000 ]

Within(port, addr) ==
  BASE_ADDR[port] <= addr /\ addr < BASE_ADDR[port] + SpaceSize[port]

Port(addr) ==
  IF \E port \in DOMAIN SpaceSize : Within(port, addr)
  THEN CHOOSE port \in DOMAIN SpaceSize : Within(port, addr)
  ELSE "ERROR"

(* A word on the bus, seen as a bit field (the set of the bits that are 1), *)
(* as a number or as a character: the view that its register has.           *)

NoChar  == "none"
Bits(s) == [bits |-> s, num |-> 0, char |-> NoChar]
Num(n)  == [bits |-> {}, num |-> n, char |-> NoChar]
Char(c) == [bits |-> {}, num |-> 0, char |-> c]

(* A request: what a peripheral sees of it in the address phase.            *)

NoRequest ==
  [valid |-> FALSE, we |-> FALSE, port |-> "ERROR", offset |-> 0, wdata |-> Num(0)]

Request(we, addr, wdata) ==
  LET port == Port(addr)
  IN  [valid |-> TRUE, we |-> we, port |-> port, wdata |-> wdata,
       offset |-> IF port = "ERROR" THEN addr ELSE addr - BASE_ADDR[port]]

Writes(req, port, offset) ==
  req.valid /\ req.we /\ req.port = port /\ req.offset = offset

Reads(req, port, offset) ==
  req.valid /\ ~req.we /\ req.port = port /\ req.offset = offset

=============================================================================
