---------------------------- MODULE DTraceActions ----------------------------
(* The DTrace action kinds of src/src/Tools/dtrace/scripts/dof.py that the *)
(* action-description constructor tests, and its argument gate.  Shared by *)
(* the registry (which follows the GetSection calls the gate causes) and   *)
(* ActionRecords (which follows what each action record shows).            *)
EXTENDS Integers

(* DTRACEACT_* action kinds the argument gate names. *)
DTRACEACT_DIFEXPR == 1
DTRACEACT_EXIT == 2
DTRACEACT_PRINTF == 3
DTRACEACT_PRINTA == 4
DTRACEACT_SYSTEM == 515
DTRACEACT_FREOPEN == 516

(* The kind-and-strtab test of DOFActDescSection.__init__, as written. *)
ActionGate(kind, strtab) ==
    /\ kind \in {DTRACEACT_PRINTF, DTRACEACT_PRINTA, DTRACEACT_SYSTEM,
                 DTRACEACT_FREOPEN}
    /\ \/ kind # DTRACEACT_PRINTA \/ strtab # -1
       \/ kind = DTRACEACT_DIFEXPR /\ strtab # -1

=============================================================================
