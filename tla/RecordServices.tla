--------------------------- MODULE RecordServices ---------------------------
(***************************************************************************)
(* An instance of the FSI or of the IPC service.  Which of the two it is   *)
(* was settled when the firmware was compiled.                             *)
(***************************************************************************)
EXTENDS FsiService, IpcService

ASSUME TagsAssumption == Tags = FsiTags \cup IpcTags

VARIABLE service

recordVars == <<vars, service>>

RecordInit == Init /\ service \in {"FSI", "IPC"}

RecordNext ==
  /\ \/ service = "FSI" /\ FsiNext
     \/ service = "IPC" /\ IpcNext
  /\ UNCHANGED service

(* The scheduler keeps calling the service's task.                         *)
RecordSpec == RecordInit /\ [][RecordNext]_recordVars /\ WF_recordVars(ServiceRun /\ UNCHANGED service)
=============================================================================
