----------------------------- MODULE IpcService -----------------------------
(***************************************************************************)
(* ipc_service.c: the entry points of the IPC service.                     *)
(***************************************************************************)
EXTENDS IrqRecordService

IpcTags == {"NOTIFY", "ACK", "FAULT"}

SchIpcServiceInit(c, b, m) == ServiceInit(c, b, m) \/ ServiceInitRingFails(c, b, m)

(* sch_ipc_isr_push: its two critical sections.                            *)
SchIpcIsrPush(t) == IsrPush(t) \/ IsrSetBit(t)

SchIpcIsrNotify == SchIpcIsrPush("NOTIFY")
SchIpcIsrAck    == SchIpcIsrPush("ACK")
SchIpcIsrFault  == SchIpcIsrPush("FAULT")

SchIpcServiceRun == ServiceRun

SchIpcServiceDropCount == ServiceDropCount

IpcNext ==
  \/ \E c \in Capacities, b \in Budgets, m \in Modes : SchIpcServiceInit(c, b, m)
  \/ SchIpcIsrNotify \/ SchIpcIsrAck \/ SchIpcIsrFault
  \/ SchIpcServiceRun
=============================================================================
