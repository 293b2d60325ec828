---------------------------- MODULE DescRecords ----------------------------
(***************************************************************************)
(* The two single-record section constructors of                          *)
(* src/src/Tools/dtrace/scripts/dof.py and their Show: DOFEcbDescSection   *)
(* keeps the probe, predicate and action section indices of its           *)
(* dof_ecbdesc_t and prints them through DOFSecIdxString;                 *)
(* DOFProbeDescSection resolves the provider, module, function and name   *)
(* offsets of its dof_probedesc_t in the string table it names and prints *)
(* them joined by ':'.                                                    *)
(*                                                                         *)
(* The type lookups and the GetSection of the probe description's string  *)
(* table are modelled in DOFRegistry; here strtab is the table returned.  *)
(***************************************************************************)
EXTENDS Integers, Sequences, DOFStrTab

CONSTANTS
    StrTabs,    \* candidate bytes of the probe description's string table
    EcbDescs,   \* candidate dof_ecbdesc_t: [probes, pred, actions]
    ProbeDescs  \* candidate dof_probedesc_t offsets: [provider, mod, func, name]

VARIABLES
    desc,       \* "ECBDESC" or "PROBEDESC": the section type constructed
    rec,        \* the record decoded at self.offset
    strtab,     \* the bytes of str_sec
    obj,        \* the fields the constructor keeps, once it has returned
    pc,         \* "init", "show" or "done"
    line        \* what Show printed after the section line

vars == <<desc, rec, strtab, obj, pc, line>>

(* DOFSecIdxString: the -1 sentinel prints as NONE. *)
DOFSecIdxString(val) == IF val = -1 THEN "NONE" ELSE val

Init ==
    /\ desc \in {"ECBDESC", "PROBEDESC"}
    /\ rec \in IF desc = "ECBDESC" THEN EcbDescs ELSE ProbeDescs
    /\ strtab \in StrTabs
    /\ obj = <<>>
    /\ pc = "init"
    /\ line = <<>>

(* DOFEcbDescSection.__init__: the three dofe_* indices, kept as read. *)
EcbConstruct ==
    /\ pc = "init" /\ desc = "ECBDESC"
    /\ obj' = [probes |-> rec.probes, pred |-> rec.pred, actions |-> rec.actions]
    /\ pc' = "show"
    /\ UNCHANGED <<desc, rec, strtab, line>>

(* DOFProbeDescSection.__init__: the four strings of the probe. *)
ProbeDescConstruct ==
    /\ pc = "init" /\ desc = "PROBEDESC"
    /\ obj' = [f \in {"provider", "mod", "func", "name"} |-> GetString(strtab, rec[f])]
    /\ pc' = "show"
    /\ UNCHANGED <<desc, rec, strtab, line>>

(* DOFEcbDescSection.Show: 'probe {} pred {} actions {}'. *)
EcbShow ==
    /\ pc = "show" /\ desc = "ECBDESC"
    /\ line' = <<DOFSecIdxString(obj.probes), DOFSecIdxString(obj.pred),
                 DOFSecIdxString(obj.actions)>>
    /\ pc' = "done"
    /\ UNCHANGED <<desc, rec, strtab, obj>>

(* DOFProbeDescSection.Show: 'Probe desc {}:{}:{}:{}'. *)
ProbeDescShow ==
    /\ pc = "show" /\ desc = "PROBEDESC"
    /\ line' = <<obj.provider, obj.mod, obj.func, obj.name>>
    /\ pc' = "done"
    /\ UNCHANGED <<desc, rec, strtab, obj>>

Next == EcbConstruct \/ ProbeDescConstruct \/ EcbShow \/ ProbeDescShow

Spec == Init /\ [][Next]_vars

-----------------------------------------------------------------------------
TypeOK ==
    /\ desc \in {"ECBDESC", "PROBEDESC"}
    /\ pc \in {"init", "show", "done"}
    /\ Len(line) \in {0, 3, 4}

=============================================================================
