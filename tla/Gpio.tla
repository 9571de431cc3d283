-------------------------------- MODULE Gpio ---------------------------------
(***************************************************************************)
(* The general-purpose inputs and outputs: a register is the set of the    *)
(* pins whose bit is set.  An input passes two synchronizer stages and a   *)
(* sampling register, between which edges are detected; a read of the      *)
(* interrupt status clears it, one cycle after the request.                *)
(***************************************************************************)
EXTENDS CrocPkg

CONSTANT Pins

VARIABLES
  dir, en, in, out, intrpt_en, intrpt, intrpt_edge,
  stage_1, serial_d, serial_q,   \* the pads, one, two and three cycles ago
  gpio_access,                     \* the read that is in its response phase
  owed                           \* pins whose event software has not yet seen

gpio == <<dir, en, in, out, intrpt_en, intrpt, intrpt_edge, stage_1, serial_d,
          serial_q, gpio_access, owed>>

GpioInit ==
  /\ dir = {} /\ en = {} /\ in = {} /\ out = {}
  /\ intrpt_en = {} /\ intrpt = {} /\ intrpt_edge = {}
  /\ stage_1 = {} /\ serial_d = {} /\ serial_q = {}
  /\ gpio_access = NoRequest /\ owed = {}

is_input  == en \ dir
is_output == en \cap dir
gpio_o    == out \cap is_output

RisingEdges  == serial_d \ serial_q
FallingEdges == serial_q \ serial_d

\* The register selects the edge of each pin; an event needs an enabled input.
gpio_intrpt ==
  ((RisingEdges \cap intrpt_edge) \cup (FallingEdges \ intrpt_edge))
    \cap intrpt_en \cap is_input

GpioWrites(req, offset) == Writes(req, "GPIO", offset)
StatusRead              == Reads(gpio_access, "GPIO", GPIO.INTRPT_STATUS)

Updated(req, offset, reg) == IF GpioWrites(req, offset) THEN req.wdata.bits ELSE reg

toggle_out(req) == IF GpioWrites(req, GPIO.TOGGLE) THEN req.wdata.bits \cap is_output ELSE {}

\* Seeded defect: the read also clears the events of its own cycle.
NextStatusCleared == IF StatusRead THEN {} ELSE intrpt \cup gpio_intrpt

\* The status is cleared by the read, but for the events of that very cycle.
NextStatus == IF StatusRead THEN gpio_intrpt ELSE intrpt \cup gpio_intrpt

\* ignored: the pins of the status whose bits the reading software drops.
GpioCycle(req, pads, ignored) ==
  /\ dir'         = Updated(req, GPIO.DIR, dir)
  /\ en'          = Updated(req, GPIO.EN, en)
  /\ intrpt_en'   = Updated(req, GPIO.INTRPT_EN, intrpt_en)
  /\ intrpt_edge' = Updated(req, GPIO.INTRPT_EDGE, intrpt_edge)
  /\ in'          = serial_q \cap is_input
  /\ out'         = IF GpioWrites(req, GPIO.OUT) THEN req.wdata.bits
                    ELSE (out \ toggle_out(req)) \cup (toggle_out(req) \ out)
  /\ intrpt'      = NextStatus
  /\ stage_1'     = pads
  /\ serial_d'    = stage_1
  /\ serial_q'    = serial_d
  /\ gpio_access'   = IF req.valid /\ ~req.we /\ req.port = "GPIO" THEN req ELSE NoRequest
  /\ owed'        = (IF StatusRead THEN owed \ (intrpt \ ignored) ELSE owed)
                      \cup gpio_intrpt

\* Read data, taken in the response phase.
GpioReadData ==
  CASE gpio_access.offset = GPIO.DIR           -> Bits(dir)
    [] gpio_access.offset = GPIO.EN            -> Bits(en)
    [] gpio_access.offset = GPIO.INPUT          -> Bits(in)
    [] gpio_access.offset = GPIO.OUT           -> Bits(out)
    [] gpio_access.offset = GPIO.TOGGLE        -> Bits({})
    [] gpio_access.offset = GPIO.INTRPT_EN     -> Bits(intrpt_en)
    [] gpio_access.offset = GPIO.INTRPT_STATUS -> Bits(intrpt)
    [] gpio_access.offset = GPIO.INTRPT_EDGE   -> Bits(intrpt_edge)

\* Seeded defect: the interrupt follows the event, not its flag.
gpio_irq_pulse == gpio_intrpt # {}

gpio_irq == intrpt # {}

-----------------------------------------------------------------------------

GpioTypeOK ==
  /\ \A reg \in {dir, en, in, out, intrpt_en, intrpt, intrpt_edge, stage_1,
                 serial_d, serial_q, owed} : reg \subseteq Pins

\* Whatever event an enabled pin has had and software has not seen is still in
\* the status, so that the next read returns it.
NoEdgeLost == owed \subseteq intrpt

=============================================================================
