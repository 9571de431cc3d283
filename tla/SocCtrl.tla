------------------------------- MODULE SocCtrl -------------------------------
(***************************************************************************)
(* The SoC control registers: the boot address, the core status in which   *)
(* the boot ROM reports the end of a program, and three bits of control.   *)
(***************************************************************************)
EXTENDS CrocPkg

CONSTANT BootAddrDefault   \* an address, like every boot address

ASSUME BootAddrAssumption == BootAddrDefault \in Nat

VARIABLES boot_addr, fetch_en, core_status, boot_mode, sram_dly, soc_ctrl_access

soc_ctrl == <<boot_addr, fetch_en, core_status, boot_mode, sram_dly, soc_ctrl_access>>

\* Seeded defect: the core status is not cleared by a reset.
SocCtrlInitStale ==
  /\ boot_addr = BootAddrDefault /\ fetch_en = TRUE /\ core_status = 1
  /\ boot_mode = FALSE /\ sram_dly = FALSE /\ soc_ctrl_access = NoRequest

SocCtrlInit ==
  /\ boot_addr = BootAddrDefault /\ fetch_en = TRUE /\ core_status = 0
  /\ boot_mode = FALSE /\ sram_dly = FALSE /\ soc_ctrl_access = NoRequest

SocCtrlWrites(req, offset) == Writes(req, "SOCCTRL", offset)

Bit(req, offset, bit) == IF SocCtrlWrites(req, offset) THEN req.wdata.num % 2 = 1 ELSE bit

SocCtrlCycle(req) ==
  /\ boot_addr'   = IF SocCtrlWrites(req, SOC_CTRL.BOOTADDR) THEN req.wdata.num ELSE boot_addr
  /\ core_status' = IF SocCtrlWrites(req, SOC_CTRL.CORESTATUS) THEN req.wdata.num ELSE core_status
  /\ fetch_en'    = Bit(req, SOC_CTRL.FETCHEN, fetch_en)
  /\ boot_mode'   = Bit(req, SOC_CTRL.BOOTMODE, boot_mode)
  /\ sram_dly'    = Bit(req, SOC_CTRL.SRAM_DLY, sram_dly)
  /\ soc_ctrl_access' = IF req.valid /\ ~req.we /\ req.port = "SOCCTRL" THEN req ELSE NoRequest

\* Read data, taken in the response phase.
SocCtrlReadData ==
  CASE soc_ctrl_access.offset = SOC_CTRL.BOOTADDR   -> Num(boot_addr)
    [] soc_ctrl_access.offset = SOC_CTRL.FETCHEN    -> Num(IF fetch_en THEN 1 ELSE 0)
    [] soc_ctrl_access.offset = SOC_CTRL.CORESTATUS -> Num(core_status)
    [] soc_ctrl_access.offset = SOC_CTRL.BOOTMODE   -> Num(IF boot_mode THEN 1 ELSE 0)
    [] soc_ctrl_access.offset = SOC_CTRL.SRAM_DLY   -> Num(IF sram_dly THEN 1 ELSE 0)

=============================================================================
