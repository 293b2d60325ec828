--------------------------- MODULE ActionRecords ---------------------------
(***************************************************************************)
(* The action walk of DOFActDescSection in                                 *)
(* src/src/Tools/dtrace/scripts/dof.py and its Show: nactions from the     *)
(* section's size and entry size, one DOFAction per dof_actdesc_t record,  *)
(* whose argument is resolved in the string table the record names when  *)
(* the argument gate lets it through, then one line per action showing    *)
(* the resolved string or, failing one, the raw argument.                 *)
(*                                                                         *)
(* The lookup of dof_actdesc_t and what GetSection does with the index the *)
(* gate hands it (the sentinel included) are modelled in DOFRegistry.     *)
(* Here GetSection(s) is the string table tabs[s] the registry returned.  *)
(***************************************************************************)
EXTENDS Integers, Sequences, DOFStrTab, DTraceActions

CONSTANTS
    StrTabIds,  \* the dofa_strtab values records may hold, -1 included
    StrTabs,    \* candidate bytes of a string table
    ActRecords, \* candidate dof_actdesc_t records: [kind, difo, strtab, arg]
    EntSizes,   \* candidate dofs_entsize of the section
    MaxActSize  \* the largest dofs_size of the section tried

VARIABLES
    tabs,       \* tabs[s]: the bytes of the string table dof.GetSection(s)
    entSize,    \* self.ent_size
    actSize,    \* self.data_size
    recs,       \* recs[o]: the dof_actdesc_t decoded at byte o of the array
    pc,         \* "init", "walk", "show", "done" or "ZeroDivisionError"
    i,          \* the index of the constructor's loop, then of Show's loop
    actions,    \* self.actions
    lines       \* the action lines Show has printed

input == <<tabs, entSize, actSize, recs>>
vars == <<tabs, entSize, actSize, recs, pc, i, actions, lines>>

NActions == actSize \div entSize

(* The record of loop index k: self.ent_size * i + self.offset. *)
RecordAt(k) == recs[k * entSize]

(* arg_string: the string at dofa_arg in the record's own string table    *)
(* when the gate holds, else None (the empty sequence).                   *)
ArgString(r) ==
    IF ActionGate(r.kind, r.strtab) THEN <<GetString(tabs[r.strtab], r.arg)>>
    ELSE <<>>

(* Mutant: Show tests the string's truth, not "is not None". *)
ActionLineTruthy(a) ==
    [i |-> a.i, kind |-> a.kind, difo |-> a.difo,
     str |-> IF a.argString # <<>> /\ a.argString[1] # <<>>
                THEN a.argString ELSE <<>>,
     num |-> IF a.argString # <<>> /\ a.argString[1] # <<>>
                THEN <<>> ELSE <<a.arg>>]

(* DOFActDescSection.Show for one action: its index, kind and DIFO index, *)
(* then 'arg "<string>"' when arg_string is not None, else 'arg <n>'.     *)
ActionLine(a) ==
    [i |-> a.i, kind |-> a.kind, difo |-> a.difo,
     str |-> a.argString,
     num |-> IF a.argString # <<>> THEN <<>> ELSE <<a.arg>>]

Init ==
    /\ tabs \in [StrTabIds -> StrTabs]
    /\ entSize \in EntSizes
    /\ actSize \in 0 .. MaxActSize
    /\ recs \in [0 .. MaxActSize - 1 -> ActRecords]
    /\ pc = "init"
    /\ i = 0
    /\ actions = <<>>
    /\ lines = <<>>

(* nactions = self.data_size / self.ent_size *)
Start ==
    /\ pc = "init"
    /\ pc' = IF entSize = 0 THEN "ZeroDivisionError" ELSE "walk"
    /\ UNCHANGED <<input, i, actions, lines>>

(* One iteration of the action loop: decode the record, resolve its       *)
(* argument if the gate holds, append a DOFAction.                        *)
ActNext ==
    /\ pc = "walk"
    /\ i < NActions
    /\ LET r == RecordAt(i) IN
       actions' = Append(actions, [i |-> i, kind |-> r.kind, difo |-> r.difo,
                                   arg |-> r.arg, argString |-> ArgString(r)])
    /\ i' = i + 1
    /\ UNCHANGED <<input, pc, lines>>

(* The constructor returns; DOF.Show later calls the section's Show. *)
WalkDone ==
    /\ pc = "walk"
    /\ i >= NActions
    /\ pc' = "show"
    /\ i' = 0
    /\ UNCHANGED <<input, actions, lines>>

(* One iteration of DOFActDescSection.Show's loop over self.actions. *)
ShowAction ==
    /\ pc = "show"
    /\ i < Len(actions)
    /\ lines' = Append(lines, ActionLine(actions[i + 1]))
    /\ i' = i + 1
    /\ UNCHANGED <<input, pc, actions>>

ShowDone ==
    /\ pc = "show"
    /\ i >= Len(actions)
    /\ pc' = "done"
    /\ UNCHANGED <<input, i, actions, lines>>

Next == Start \/ ActNext \/ WalkDone \/ ShowAction \/ ShowDone

Spec == Init /\ [][Next]_vars

-----------------------------------------------------------------------------
TypeOK ==
    /\ pc \in {"init", "walk", "show", "done", "ZeroDivisionError"}
    /\ i \in Nat
    /\ lines \in Seq([i : Nat, kind : Nat, difo : Int,
                      str : Seq(Seq(Nat)), num : Seq(Nat)])

(* The dump shows the records of the array in order, one line each, and  *)
(* each line shows exactly one argument: the string found at dofa_arg in  *)
(* the string table the record itself names when the gate resolved one,  *)
(* even an empty string, and the raw dofa_arg only when no string was     *)
(* resolved.  A completed Show has shown every record.                    *)
ActionsReportedAsResolved ==
    /\ \A k \in 1 .. Len(lines) :
          LET r == recs[(k - 1) * entSize] IN
          /\ lines[k].i = k - 1
          /\ lines[k].kind = r.kind /\ lines[k].difo = r.difo
          /\ Len(lines[k].str) + Len(lines[k].num) = 1
          /\ ActionGate(r.kind, r.strtab)
                 => lines[k].str = <<GetString(tabs[r.strtab], r.arg)>>
          /\ ~ActionGate(r.kind, r.strtab) => lines[k].num = <<r.arg>>
    /\ pc = "done" => Len(lines) = actSize \div entSize

=============================================================================
