----------------------------- MODULE FsiService -----------------------------
(***************************************************************************)
(* fsi_service.c: the entry points of the FSI service.                     *)
(***************************************************************************)
EXTENDS IrqRecordService

FsiTags == {"RX", "TX", "ERROR"}

SchFsiServiceInit(c, b, m) == ServiceInit(c, b, m) \/ ServiceInitRingFails(c, b, m)

SchFsiIsrRx    == IsrPush("RX") \/ IsrSetBit("RX")
SchFsiIsrTx    == IsrPush("TX") \/ IsrSetBit("TX")
SchFsiIsrError == IsrPush("ERROR") \/ IsrSetBit("ERROR")

SchFsiServiceRun == ServiceRun

SchFsiServiceDropCount == ServiceDropCount

FsiNext ==
  \/ \E c \in Capacities, b \in Budgets, m \in Modes : SchFsiServiceInit(c, b, m)
  \/ SchFsiIsrRx \/ SchFsiIsrTx \/ SchFsiIsrError
  \/ SchFsiServiceRun
=============================================================================
