------------------------------ MODULE MCCrocSoc ------------------------------
(***************************************************************************)
(* The images of the runs, and a board with eight of the 32 pins.  An      *)
(* image has a definition of its own, which TLC evaluates once.            *)
(***************************************************************************)
EXTENDS CrocSoc

EightPins == 0 .. 7

halves       == test_clint(HalfMax, TimeMax)
one_sleep    == sleeper(12)
four_alarms  == alarm(5, 4)
clint_sleep  == clint_sleeper(2)

AllImages ==
  [ hello |-> helloworld,             trig      |-> trig,
    config |-> print_config,          obi_timer |-> test_obi_timer,
    clint |-> halves,                 gpio      |-> test_gpio,
    interrupts |-> test_interrupts,   soc_ctrl  |-> test_soc_ctrl,
    uart |-> test_uart,               idma      |-> test_idma,
    sleeper |-> one_sleep,            alarm     |-> four_alarms,
    pins |-> pin_watcher,             echo      |-> echo ]

\* What the theorems ask of the images holds of these.
ASSUME AllImagesAssumption ==
  /\ StartsInBootRom(AllImages) /\ WholeStatusKept(AllImages)
  /\ TimeReadByDriver(AllImages) /\ AlarmSetByDriver(AllImages)
  /\ EdgesAskedByDriver(AllImages)
  /\ MaskedAtEnd(AllImages) /\ ReportedAtEnd(AllImages)
  /\ TimerSetByDriver(AllImages) /\ SleptByDriver(AllImages)
  /\ ReceivedByDriver(AllImages) /\ WellTyped(AllImages)

\* Images of the runs that look at one program.
SleepImages  == [sleeper |-> one_sleep]
ClintImages  == [sleeper |-> clint_sleep]
PinImages    == [pins |-> one_pin_watcher]
UartImages   == [uart |-> test_uart]

=============================================================================
