-------------------------- MODULE MCCrocdicPrograms --------------------------
(***************************************************************************)
(* The two sets of programs: those for the present address map, and the    *)
(* bring-up programs for the earlier one.                                  *)
(***************************************************************************)
EXTENDS CrocdicPrograms

PresentPrograms ==
  [ sin        |-> cordic_sin,        cos     |-> cordic_cos,
    atan       |-> cordic_atan,       sqrt    |-> cordic_sqrt,
    reciprocal |-> cordic_reciprocal, inverse |-> cordic_inverse_sqrt,
    sin_odd    |-> cordic_sin_odd,    atan_odd |-> cordic_atan_odd,
    names      |-> print_names ]

\* What the theorems of CrocdicProgramsProofs ask of the programs.
ASSUME PresentDiscipline ==
  \A p \in DOMAIN PresentPrograms : Disciplined(PresentPrograms[p].main)

ASSUME PresentComparisons ==
  \A p \in DOMAIN PresentPrograms : ComparesEqual(PresentPrograms[p])

BringUpPrograms ==
  [ dma_1 |-> DMA_test_1, dma_2 |-> DMA_test_2, dma_3 |-> DMA_test_3,
    dma_4 |-> DMA_test_4, dma_5 |-> DMA_test_5, mmio_2 |-> MMIO_test_2 ]

=============================================================================
