--------------------------- MODULE ProviderProbes ---------------------------
(***************************************************************************)
(* The probe walk of DOFProviderSection in                                 *)
(* src/src/Tools/dtrace/scripts/dof.py, and its Show: nprobes from the     *)
(* probe array's size and entry size, one DOFProbe per dof_probe_t record  *)
(* with its strings resolved against the provider's string table and the  *)
(* "void" index-reuse sentinel, then DOFProbe.Show for each probe.         *)
(*                                                                         *)
(* The lookups of the types and of the four referenced sections, which     *)
(* come first in the constructor, are modelled in DOFRegistry              *)
(* (ProviderProgram).  Here the input is the string table's bytes, the     *)
(* probe array's dofs_size and dofs_entsize, and the record the debugger  *)
(* decodes at each byte offset of the probe array.  A string is its bytes. *)
(***************************************************************************)
EXTENDS Integers, Sequences, DOFStrTab

CONSTANTS
    StrTabs,    \* candidate bytes of the provider's string table
    Records,    \* candidate dof_probe_t records: [name, func, nargv, xargv]
    EntSizes,   \* candidate dofs_entsize of the probe array
    MaxPrbSize  \* the largest dofs_size of the probe array tried

VARIABLES
    strtab,     \* the bytes of str_sec
    entSize,    \* prb_sec.ent_size
    prbSize,    \* prb_sec.data_size
    recs,       \* recs[o]: the dof_probe_t decoded at byte o of the array
    pc,         \* "init", "walk", "show", "done" or "ZeroDivisionError"
    i,          \* the index of the constructor's loop, then of Show's loop
    probes,     \* self.probes
    lines       \* the probe lines Show has printed

input == <<strtab, entSize, prbSize, recs>>
vars == <<strtab, entSize, prbSize, recs, pc, i, probes, lines>>

(* The Python string "void". *)
VoidStr == <<118, 111, 105, 100>>

NProbes == prbSize \div entSize

(* Mutant: the sentinel test compares the strings, not the offsets. *)
SignatureByString(r, off) ==
    IF GetString(strtab, off) # GetString(strtab, r.func)
        THEN GetString(strtab, off) ELSE VoidStr

(* probe_nargv and probe_xargv: the string at the offset, or "void" when   *)
(* the offset is the one of the function name.                            *)
Signature(r, off) ==
    IF off # r.func THEN GetString(strtab, off) ELSE VoidStr

(* The record of loop index k: prb_sec.offset + i * prb_sec.ent_size. *)
RecordAt(k) == recs[k * entSize]

(* DOFProbe.Show: one signature when the two strings are equal. *)
ProbeLine(p) ==
    [func |-> p.func, name |-> p.name,
     args |-> IF p.nargv # p.xargv THEN <<p.nargv, p.xargv>> ELSE <<p.nargv>>]

Init ==
    /\ strtab \in StrTabs
    /\ entSize \in EntSizes
    /\ prbSize \in 0 .. MaxPrbSize
    /\ recs \in [0 .. MaxPrbSize - 1 -> Records]
    /\ pc = "init"
    /\ i = 0
    /\ probes = <<>>
    /\ lines = <<>>

(* self.nprobes = prb_sec.data_size / prb_sec.ent_size *)
Start ==
    /\ pc = "init"
    /\ pc' = IF entSize = 0 THEN "ZeroDivisionError" ELSE "walk"
    /\ UNCHANGED <<input, i, probes, lines>>

(* One iteration of the probe loop: decode the record, resolve its name   *)
(* and function, apply the sentinel to both signatures, append a DOFProbe. *)
ProbeNext ==
    /\ pc = "walk"
    /\ i < NProbes
    /\ LET r == RecordAt(i) IN
       probes' = Append(probes, [func |-> GetString(strtab, r.func),
                                 name |-> GetString(strtab, r.name),
                                 nargv |-> Signature(r, r.nargv),
                                 xargv |-> Signature(r, r.xargv)])
    /\ i' = i + 1
    /\ UNCHANGED <<input, pc, lines>>

(* The constructor returns; DOF.Show later calls the provider's Show. *)
WalkDone ==
    /\ pc = "walk"
    /\ i >= NProbes
    /\ pc' = "show"
    /\ i' = 0
    /\ UNCHANGED <<input, probes, lines>>

(* One iteration of DOFProviderSection.Show: self.probes[i].Show(). *)
ShowProbe ==
    /\ pc = "show"
    /\ i < NProbes
    /\ lines' = Append(lines, ProbeLine(probes[i + 1]))
    /\ i' = i + 1
    /\ UNCHANGED <<input, pc, probes>>

ShowDone ==
    /\ pc = "show"
    /\ i >= NProbes
    /\ pc' = "done"
    /\ UNCHANGED <<input, i, probes, lines>>

Next == Start \/ ProbeNext \/ WalkDone \/ ShowProbe \/ ShowDone

Spec == Init /\ [][Next]_vars

-----------------------------------------------------------------------------
Str == Seq(Nat)

TypeOK ==
    /\ pc \in {"init", "walk", "show", "done", "ZeroDivisionError"}
    /\ i \in Nat
    /\ probes \in Seq([func : Str, name : Str, nargv : Str, xargv : Str])
    /\ lines \in Seq([func : Str, name : Str, args : Seq(Str)])

(* What spec 4.3 and 8 say probe k reports as a signature at offset off:  *)
(* "void" exactly when off equals the function-name offset, else the      *)
(* string resolved at off, whatever that string is.                       *)
Declared(r, off) == IF off = r.func THEN VoidStr ELSE GetString(strtab, off)

(* The dump shows the probes of the array in order, one line each, and    *)
(* each line reports both signatures as declared: the first one shown is  *)
(* the native signature, the last one the translated signature (one       *)
(* string standing for both when they read alike).  A completed Show has  *)
(* shown every record of the array.                                       *)
ProbesReportedAsDeclared ==
    /\ \A k \in 1 .. Len(lines) :
          LET r == recs[(k - 1) * entSize]
              a == lines[k].args
          IN /\ lines[k].func = GetString(strtab, r.func)
             /\ lines[k].name = GetString(strtab, r.name)
             /\ a[1] = Declared(r, r.nargv)
             /\ a[Len(a)] = Declared(r, r.xargv)
    /\ pc = "done" => Len(lines) = prbSize \div entSize

=============================================================================
