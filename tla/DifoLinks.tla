----------------------------- MODULE DifoLinks -----------------------------
(***************************************************************************)
(* What DOFDifoHdrSection in src/src/Tools/dtrace/scripts/dof.py does with *)
(* the link slots DifoHdrLayout reads: each index is resolved through     *)
(* dof.GetSection and sorted by the section's type into the DIF, string,  *)
(* integer and variable links; the four are handed to the disassembler,   *)
(* and Show prints their indices before disassembling.                    *)
(*                                                                         *)
(* The slot arithmetic is DifoHdrLayout's, instantiated on the same       *)
(* variables.  GetSection is abstracted to the type of the section an     *)
(* index names (DOFRegistry models the lookup itself).  A Python object   *)
(* reference is <<n>>, the cached section n; None is <<>>.                *)
(***************************************************************************)
EXTENDS Integers, Sequences, SequencesExt

CONSTANTS
    HdrSize, IdxSize, MaxSize,  \* as in DifoHdrLayout
    SecIdx,     \* section indices a link slot may hold
    SecTypes    \* type names (stype) the sections may have

VARIABLES
    size, i, reads,     \* DifoHdrLayout's state
    slotVal,    \* slotVal[o]: the dof_secidx_t stored at byte o of the section
    stype,      \* stype[n]: dof.GetSection(n).stype
    links,      \* links[k]: the (k_idx, k) pair of the header for kind k
    secs,       \* self.secs
    disasm,     \* the sections handed to DIFODisassembler, once built
    pc,         \* "walk", "show", "disassemble" or "AttributeError"
    shown       \* the indices Show printed on the DIF/STRTAB/... line

L == INSTANCE DifoHdrLayout

vars == <<size, i, reads, slotVal, stype, links, secs, disasm, pc, shown>>

(* The link kinds, in the order of the if/elif chain. *)
Kinds == {"DIF", "STRTAB", "INTTAB", "VARTAB"}

(* (self.dif_idx, self.dif) = (0, None), and likewise for the others. *)
NoLink == [idx |-> 0, sec |-> <<>>]

SlotOffsets == {L!FirstLink + j * IdxSize : j \in 0 .. (MaxSize - L!FirstLink) \div IdxSize}

(* Mutant: a later link of a kind already linked is ignored. *)
ClassifyFirstWins(ls, n) ==
    IF stype[n] \in Kinds /\ ls[stype[n]].sec = <<>>
        THEN [ls EXCEPT ![stype[n]] = [idx |-> n, sec |-> <<n>>]]
        ELSE ls

(* The if/elif chain on sec.stype: a DIF, STRTAB, INTTAB or VARTAB        *)
(* section replaces the link of its kind; any other type is only listed.  *)
Classify(ls, n) ==
    IF stype[n] \in Kinds
        THEN [ls EXCEPT ![stype[n]] = [idx |-> n, sec |-> <<n>>]]
        ELSE ls

Init ==
    /\ L!Init
    /\ slotVal \in [SlotOffsets -> SecIdx]
    /\ stype \in [SecIdx -> SecTypes]
    /\ links = [k \in Kinds |-> NoLink]
    /\ secs = <<>>
    /\ disasm = <<>>
    /\ pc = "walk"
    /\ shown = <<>>

(* One iteration of the link loop: read slot i, GetSection, classify. *)
LinkSlot ==
    /\ pc = "walk"
    /\ L!ReadSlot
    /\ LET n == slotVal[L!SlotOffset(i)] IN
       /\ links' = Classify(links, n)
       /\ secs' = Append(secs, n)
    /\ UNCHANGED <<slotVal, stype, disasm, pc, shown>>

(* The loop ends; DIFODisassembler(self.dif, self.strtab, self.inttab,    *)
(* self.vartab) is built and the constructor returns.                     *)
WalkDone ==
    /\ pc = "walk"
    /\ L!Done
    /\ disasm' = [k \in Kinds |-> links[k].sec]
    /\ pc' = "show"
    /\ UNCHANGED <<size, i, reads, slotVal, stype, links, secs, shown>>

(* DOFDifoHdrSection.Show: print the four indices, then Disassemble,      *)
(* which reads dif.dif_len and raises AttributeError when dif is None.    *)
ShowHeader ==
    /\ pc = "show"
    /\ shown' = [k \in Kinds |-> links[k].idx]
    /\ pc' = IF disasm["DIF"] = <<>> THEN "AttributeError" ELSE "disassemble"
    /\ UNCHANGED <<size, i, reads, slotVal, stype, links, secs, disasm>>

Next == LinkSlot \/ WalkDone \/ ShowHeader

Spec == Init /\ [][Next]_vars

-----------------------------------------------------------------------------
TypeOK ==
    /\ L!TypeOK
    /\ links \in [Kinds -> [idx : SecIdx \cup {0}, sec : Seq(SecIdx)]]
    /\ pc \in {"walk", "show", "disassemble", "AttributeError"}

(* Reference: the section indices in the link slots that lie inside the  *)
(* section, in order, and the last of them whose section is of kind k.   *)
Linked == [j \in DOMAIN L!LinkOffsets(size) |-> slotVal[L!LinkOffsets(size)[j]]]
LastOfKind(k) == LET of == SelectSeq(Linked, LAMBDA n : stype[n] = k) IN
                 IF of = <<>> THEN <<>> ELSE <<Last(of)>>

(* Spec 4.3: a DIFO aggregates one section of each kind from its link    *)
(* array.  Once the constructor has returned, the disassembler holds, for *)
(* each kind, the section of the last link inside the section of that    *)
(* kind, or None; Show prints that section's index (0 when none), and    *)
(* disassembles only when a DIF section was linked.                      *)
LinksAggregated ==
    /\ pc # "walk" =>
         /\ disasm = [k \in Kinds |-> LastOfKind(k)]
         /\ secs = Linked
    /\ shown # <<>> =>
         \A k \in Kinds : shown[k] = IF LastOfKind(k) = <<>> THEN 0
                                     ELSE LastOfKind(k)[1]
    /\ pc = "disassemble" => LastOfKind("DIF") # <<>>

=============================================================================
