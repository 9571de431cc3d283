------------------------------- MODULE Drivers -------------------------------
(***************************************************************************)
(* The library of sw/lib as the core executes it: a C function is the      *)
(* sequence of its register accesses, of the computations between them and *)
(* of its branches.  The core has an accumulator acc, which holds what was *)
(* loaded last and a function's argument or result, and one register kept. *)
(* A mask is the set of its bits that are 1; what is stored is a word.     *)
(***************************************************************************)
EXTENDS CrocPkg, Integers, Sequences

LOCAL INSTANCE SequencesExt

-----------------------------------------------------------------------------
(* Instructions.                                                            *)

Load(addr)            == [op |-> "load", addr |-> addr]
Store(addr, v)        == [op |-> "store", addr |-> addr, part |-> "constant", value |-> v]
StorePart(addr, part) == [op |-> "store", addr |-> addr, part |-> part]

Take(v)      == [op |-> "compute", f |-> "take", value |-> v]
Or(bits)     == [op |-> "compute", f |-> "or", bits |-> bits]
AndNot(bits) == [op |-> "compute", f |-> "andnot", bits |-> bits]
Add(n)       == [op |-> "compute", f |-> "add", n |-> n]
Join         == [op |-> "compute", f |-> "join"]
ShiftRight(n) == [op |-> "compute", f |-> "shift", n |-> n]
Recall(name) == [op |-> "compute", f |-> "recall", name |-> name]
get_mstatus  == [op |-> "compute", f |-> "mstatus"]   \* its MIE bit

Keep            == [op |-> "keep"]
Assign(name, v) == [op |-> "assign", name |-> name, value |-> v]
Remember(name)  == [op |-> "remember", name |-> name]
Deliver         == [op |-> "deliver"]   \* acc is appended to what was received

\* Branches: taken when none of the bits is set, or when acc < kept.
Unless(bits, by)   == [op |-> "branch", test |-> "bits", bits |-> bits, by |-> by]
UnlessReached(by)  == [op |-> "branch", test |-> "reached", by |-> by]
Goto(by)           == [op |-> "branch", test |-> "never", by |-> by]

\* A delay loop, of which the second form ends early when a flag is set.
Pause(n)              == [op |-> "pause", turns |-> n, until |-> "never"]
PauseUntil(name, n)   == [op |-> "pause", turns |-> n, until |-> name]

Csrs(irq)     == [op |-> "csr", f |-> "csrs", irq |-> irq]
Csrc(irq)     == [op |-> "csr", f |-> "csrc", irq |-> irq]
Csrw(irqs)    == [op |-> "csr", f |-> "csrw", irqs |-> irqs]
Csri(enabled) == [op |-> "csr", f |-> "global", enabled |-> enabled]
Save(irq)     == [op |-> "csr", f |-> "save", irq |-> irq]
Restore(irq)  == [op |-> "csr", f |-> "restore", irq |-> irq]
RestoreGlobal == [op |-> "csr", f |-> "restore_global"]
SkipFaulting  == [op |-> "csr", f |-> "mepc"]

wfi        == [op |-> "wfi"]
Leave(fn)  == [op |-> "leave", fn |-> fn]       \* the end of the function fn
JumpAcc    == [op |-> "jump"]
Return(v)  == [op |-> "return", value |-> v]    \* main() returns v

\* CHECK_ASSERT: return code unless acc is one of the accepted values.
CHECK_ASSERT(code, accepted) == [op |-> "check", code |-> code, accepted |-> accepted]
CHECK_LATER(code, name)      == [op |-> "check_later", code |-> code, name |-> name]

-----------------------------------------------------------------------------
(* util.h                                                                   *)

set_interrupt_enable(on, irq) == IF on THEN <<Csrs(irq)>> ELSE <<Csrc(irq)>>
set_global_irq_enable(on)     == <<Csri(on)>>

-----------------------------------------------------------------------------
(* obi_timer.c                                                              *)

TimerReg(offset) == BASE_ADDR.TIMER + offset

obi_timer_get_count   == <<Load(TimerReg(OBI_TIMER.COUNT))>>
obi_timer_get_compare == <<Load(TimerReg(OBI_TIMER.COMPARE))>>

write_ctrl_reg_bit(bit, on) ==
  << Load(TimerReg(OBI_TIMER.CTRL)),
     IF on THEN Or({bit}) ELSE AndNot({bit}),
     StorePart(TimerReg(OBI_TIMER.CTRL), "acc") >>

obi_timer_get_enable ==
  << Load(TimerReg(OBI_TIMER.CTRL)), ShiftRight(CTRL_ENABLE_BIT) >>
obi_timer_get_autoreset ==
  << Load(TimerReg(OBI_TIMER.CTRL)), ShiftRight(CTRL_AUTORESET_BIT) >>

obi_timer_set_count(v)      == <<Store(TimerReg(OBI_TIMER.COUNT), Num(v))>>
obi_timer_set_compare(v)    == <<Store(TimerReg(OBI_TIMER.COMPARE), Num(v))>>
obi_timer_set_enable(on)    == write_ctrl_reg_bit(CTRL_ENABLE_BIT, on)
obi_timer_set_autoreset(on) == write_ctrl_reg_bit(CTRL_AUTORESET_BIT, on)

obi_timer_clear_expired  == <<Store(TimerReg(OBI_TIMER.STATUS), Bits({STATUS_EXPIRED_BIT}))>>
obi_timer_clear_overflow == <<Store(TimerReg(OBI_TIMER.STATUS), Bits({STATUS_OVERFLOW_BIT}))>>

obi_timer_set(cycles) ==
  obi_timer_set_enable(FALSE) \o obi_timer_set_count(0)
    \o obi_timer_set_autoreset(TRUE) \o obi_timer_set_compare(cycles)
    \o obi_timer_set_enable(TRUE)

\* Seeded defect: the interrupt stays masked by mstatus, so that nobody clears
\* its flag.
obi_timer_sleep_masked(cycles) ==
  <<Save(IRQ_OBI_TIMER)>> \o obi_timer_set(cycles)
    \o set_interrupt_enable(TRUE, IRQ_OBI_TIMER) \o set_global_irq_enable(FALSE)
    \o <<wfi, Restore(IRQ_OBI_TIMER), RestoreGlobal, Leave("obi_timer_sleep")>>

obi_timer_sleep(cycles) ==
  <<Save(IRQ_OBI_TIMER)>> \o obi_timer_set(cycles)
    \o set_interrupt_enable(TRUE, IRQ_OBI_TIMER) \o set_global_irq_enable(TRUE)
    \o <<wfi, Restore(IRQ_OBI_TIMER), RestoreGlobal, Leave("obi_timer_sleep")>>

-----------------------------------------------------------------------------
(* clint.c: a 64-bit value is an argument and a result in acc.              *)

ClintReg(offset) == BASE_ADDR.CLINT + offset

\* Seeded defect: the low half is read first.
clint_get_mtime_low_first ==
  << Load(ClintReg(CLINT.MTIME_LOW)), Keep, Load(ClintReg(CLINT.MTIME_HIGH)),
     [op |-> "compute", f |-> "join_swapped"], Leave("clint_get_mtime") >>

clint_get_mtime ==
  << Load(ClintReg(CLINT.MTIME_HIGH)), Keep, Load(ClintReg(CLINT.MTIME_LOW)),
     Join, Leave("clint_get_mtime") >>

\* Seeded defect: the low half is written first.
clint_set_mtimecmp_low_first ==
  << StorePart(ClintReg(CLINT.MTIMECMP_LOW0), "low"),
     StorePart(ClintReg(CLINT.MTIMECMP_HIGH0), "high") >>

clint_set_mtimecmp ==
  << StorePart(ClintReg(CLINT.MTIMECMP_HIGH0), "high"),
     StorePart(ClintReg(CLINT.MTIMECMP_LOW0), "low") >>

clint_sleep_ticks(ticks) ==
  clint_get_mtime \o <<Add(ticks)>> \o clint_set_mtimecmp \o <<Save(IRQ_TIMER)>>
    \o set_interrupt_enable(TRUE, IRQ_TIMER) \o set_global_irq_enable(TRUE)
    \o <<wfi, Restore(IRQ_TIMER), RestoreGlobal, Leave("clint_sleep_ticks")>>

\* The tick is a 1/33 of a millisecond.
clint_sleep_ms(ms) == clint_sleep_ticks(33 * ms)

-----------------------------------------------------------------------------
(* gpio.c                                                                   *)

GpioReg(offset) == BASE_ADDR.GPIO + offset

\* *reg |= mask and *reg &= ~mask
SetBits(offset, mask) ==
  <<Load(GpioReg(offset)), Or(mask), StorePart(GpioReg(offset), "acc")>>
ClearBits(offset, mask) ==
  <<Load(GpioReg(offset)), AndNot(mask), StorePart(GpioReg(offset), "acc")>>

gpio_set_direction(mask, direction) ==
  << Load(GpioReg(GPIO.DIR)), AndNot(mask), Or(direction \cap mask),
     StorePart(GpioReg(GPIO.DIR), "acc") >>

gpio_enable(mask)  == SetBits(GPIO.EN, mask)
gpio_disable(mask) == ClearBits(GPIO.EN, mask)
gpio_write(value)  == <<Store(GpioReg(GPIO.OUT), Bits(value))>>
gpio_toggle(mask)  == <<Store(GpioReg(GPIO.TOGGLE), Bits(mask))>>
gpio_read          == <<Load(GpioReg(GPIO.INPUT))>>

\* Seeded defect: the edge is selected after the interrupt is enabled.
gpio_enable_rising_interrupts_late(mask) ==
  SetBits(GPIO.INTRPT_EN, mask) \o SetBits(GPIO.INTRPT_EDGE, mask)

gpio_enable_rising_interrupts(mask) ==
  SetBits(GPIO.INTRPT_EDGE, mask) \o SetBits(GPIO.INTRPT_EN, mask)
gpio_enable_falling_interrupts(mask) ==
  ClearBits(GPIO.INTRPT_EDGE, mask) \o SetBits(GPIO.INTRPT_EN, mask)
gpio_disable_interrupts(mask) == ClearBits(GPIO.INTRPT_EN, mask)
gpio_get_interrupt_status     == <<Load(GpioReg(GPIO.INTRPT_STATUS))>>

gpio_pin_set_output(pin) == SetBits(GPIO.DIR, {pin})
gpio_pin_enable(pin)     == SetBits(GPIO.EN, {pin})
gpio_pin_disable(pin)    == ClearBits(GPIO.EN, {pin})
gpio_pin_set(pin)        == SetBits(GPIO.OUT, {pin})
gpio_pin_clear(pin)      == ClearBits(GPIO.OUT, {pin})
gpio_pin_toggle(pin)     == <<Store(GpioReg(GPIO.TOGGLE), Bits({pin}))>>
gpio_pin_read(pin)       == <<Load(GpioReg(GPIO.INPUT)), ShiftRight(pin)>>

gpio_pin_enable_rising_interrupt(pin) ==
  SetBits(GPIO.INTRPT_EDGE, {pin}) \o SetBits(GPIO.INTRPT_EN, {pin})
gpio_pin_enable_falling_interrupt(pin) ==
  ClearBits(GPIO.INTRPT_EDGE, {pin}) \o SetBits(GPIO.INTRPT_EN, {pin})
gpio_pin_disable_interrupts(pin) == ClearBits(GPIO.INTRPT_EN, {pin})
gpio_pin_get_interrupt_status(pin) ==
  <<Load(GpioReg(GPIO.INTRPT_STATUS)), ShiftRight(pin)>>

-----------------------------------------------------------------------------
(* uart.c                                                                   *)

UartReg(offset) == BASE_ADDR.UART + offset
LSR             == UartReg(UART.LINE_STATUS)

\* Seeded defect: the divisor is not selected, and so not set.
uart_init_undivided ==
  << Store(UartReg(UART.INTR_ENABLE), Bits({})), Store(UartReg(UART.LINE_CONTROL), Bits({})),
     Store(UartReg(UART.DLAB_LSB), Bits({1, 3})), Store(UartReg(UART.DLAB_MSB), Bits({})),
     Store(UartReg(UART.LINE_CONTROL), Bits({0, 1})),
     Store(UartReg(UART.FIFO_CONTROL), Bits({0, 1, 2, 6, 7})),
     Store(UartReg(UART.MODEM_CONTROL), Bits({5})) >>

\* The two halves of the divisor, which only start the baud generator here.
uart_init ==
  << Store(UartReg(UART.INTR_ENABLE), Bits({})), Store(UartReg(UART.LINE_CONTROL), Bits({7})),
     Store(UartReg(UART.DLAB_LSB), Bits({1, 3})), Store(UartReg(UART.DLAB_MSB), Bits({})),
     Store(UartReg(UART.LINE_CONTROL), Bits({0, 1})),
     Store(UartReg(UART.FIFO_CONTROL), Bits({0, 1, 2, 6, 7})),
     Store(UartReg(UART.MODEM_CONTROL), Bits({5})) >>

uart_read_ready == <<Load(LSR)>>

uart_write(byte) ==
  << Load(LSR), Unless({LINE_STATUS_THR_EMPTY_BIT}, -1), Store(UartReg(UART.THR), Char(byte)) >>

\* uart_write of the byte in acc
uart_write_acc ==
  << Keep, Load(LSR), Unless({LINE_STATUS_THR_EMPTY_BIT}, -1),
     StorePart(UartReg(UART.THR), "kept") >>

uart_write_str(src) == FlattenSeq([i \in 1 .. Len(src) |-> uart_write(src[i])])

\* Seeded defect: the FIFO is empty, the shift register not.
uart_write_flush_fifo ==
  << Load(LSR), Unless({LINE_STATUS_THR_EMPTY_BIT}, -1), Leave("uart_write_flush") >>

uart_write_flush ==
  << Load(LSR), Unless({LINE_STATUS_THR_EMPTY_BIT}, -1),
     Load(LSR), Unless({LINE_STATUS_TMIT_EMPTY_BIT}, -3), Leave("uart_write_flush") >>

uart_loopback_enable ==
  uart_write_flush \o
  << Load(UartReg(UART.MODEM_CONTROL)), Or({4}),
     StorePart(UartReg(UART.MODEM_CONTROL), "acc") >>
uart_loopback_disable ==
  uart_write_flush \o
  << Load(UartReg(UART.MODEM_CONTROL)), AndNot({4}),
     StorePart(UartReg(UART.MODEM_CONTROL), "acc") >>

\* Seeded defect: the bit of the transmitter is waited for.
uart_read_any ==
  uart_read_ready \o
  << Unless({LINE_STATUS_THR_EMPTY_BIT}, -1), Load(UartReg(UART.RBR)) >>

uart_read ==
  uart_read_ready \o
  << Unless({LINE_STATUS_DATA_READY_BIT}, -1), Load(UartReg(UART.RBR)) >>

uart_read_str(len) == FlattenSeq([i \in 1 .. len |-> uart_read \o <<Deliver>>])

putchar(byte) == uart_write(byte)
getchar       == uart_read

-----------------------------------------------------------------------------
(* print.c: the items of a format, and the characters they print.          *)

hex_symbols == <<"0", "1", "2", "3", "4", "5", "6", "7", "8", "9", "A", "B", "C", "D", "E", "F">>

MaxHex == \hFFFF   \* bound: the numbers the programs here print

\* The buffer is filled from the last digit on.
format_hex32(num) ==
  LET digits[n \in 0 .. MaxHex] ==
        IF n = 0 THEN <<>> ELSE <<hex_symbols[(n % 16) + 1]>> \o digits[n \div 16]
  IN  IF num = 0 THEN <<hex_symbols[1]>> ELSE digits[num]

Plain(c) == [conversion |-> "none", char |-> c]
Hex(n)   == [conversion |-> "x", number |-> n]
Chr(c)   == [conversion |-> "c", char |-> c]
Str(s)   == [conversion |-> "s", string |-> s]

\* Seeded defect: the buffer is printed from its start.
ItemTextForwards(item) ==
  CASE item.conversion \in {"none", "c"} -> <<item.char>>
    [] item.conversion = "x"             -> format_hex32(item.number)
    [] item.conversion = "s"             -> item.string

ItemText(item) ==
  CASE item.conversion \in {"none", "c"} -> <<item.char>>
    [] item.conversion = "x"             -> Reverse(format_hex32(item.number))
    [] item.conversion = "s"             -> item.string

printf(fmt) == FlattenSeq([i \in 1 .. Len(fmt) |-> uart_write_str(ItemText(fmt[i]))])

-----------------------------------------------------------------------------
(* idma.c                                                                   *)

IdmaReg(offset) == BASE_ADDR.IDMA + offset

idma_set_src_addr(addr)     == <<Store(IdmaReg(IDMA.SRC_ADDR), Num(addr))>>
idma_set_dst_addr(addr)     == <<Store(IdmaReg(IDMA.DST_ADDR), Num(addr))>>
idma_set_length(length)     == <<Store(IdmaReg(IDMA.LENGTH), Num(length))>>
idma_set_src_stride(stride) == <<Store(IdmaReg(IDMA.SRC_STRIDE_2), Num(stride))>>
idma_set_dst_stride(stride) == <<Store(IdmaReg(IDMA.DST_STRIDE_2), Num(stride))>>
idma_set_reps(reps)         == <<Store(IdmaReg(IDMA.REPS_2), Num(reps))>>

idma_set_nd_enable(on) ==
  << Load(IdmaReg(IDMA.CONF)), IF on THEN Or({11}) ELSE AndNot({11}),
     StorePart(IdmaReg(IDMA.CONF), "acc") >>

idma_launch  == <<Load(IdmaReg(IDMA.NEXT_ID))>>
idma_done_id == <<Load(IdmaReg(IDMA.DONE_ID))>>
AwaitJob     == idma_launch \o <<Keep>> \o idma_done_id \o <<UnlessReached(-1)>>

idma_memcpy(dst, src, length) ==
  idma_set_nd_enable(FALSE) \o idma_set_src_addr(src) \o idma_set_dst_addr(dst)
    \o idma_set_length(length) \o AwaitJob

idma_memcpy_2d(dst, src, length, dst_stride, src_stride, reps) ==
  idma_set_nd_enable(TRUE) \o idma_set_src_addr(src) \o idma_set_dst_addr(dst)
    \o idma_set_length(length) \o idma_set_dst_stride(dst_stride)
    \o idma_set_src_stride(src_stride) \o idma_set_reps(reps) \o AwaitJob

=============================================================================
