--------------------------- MODULE DifoHdrLayout ---------------------------
(***************************************************************************)
(* The link-slot arithmetic of DOFDifoHdrSection.__init__ in              *)
(* src/src/Tools/dtrace/scripts/dof.py: how many dof_secidx_t slots the   *)
(* loop reads (nsections) and where it reads slot i.                       *)
(*                                                                         *)
(* dof_difohdr_t is { dtrace_diftype_t dofd_rtype; dof_secidx_t           *)
(* dofd_links[1]; }: the header type already holds the first link, so the *)
(* link array starts IdxSize bytes before the end of the header type.     *)
(* What GetSection does with each index read is modelled in DOFRegistry   *)
(* (DifoHdrProgram); here the state is the section size, the loop index   *)
(* and the offsets read so far, relative to the section's data offset.    *)
(***************************************************************************)
EXTENDS Integers, Sequences

CONSTANTS
    HdrSize,    \* dof_difohdr_type.GetByteSize()
    IdxSize,    \* dof_secidx_type.GetByteSize()
    MaxSize     \* the largest dofs_size tried

ASSUME HdrSize >= IdxSize /\ IdxSize > 0

VARIABLES
    size,       \* self.data_size of the DIFOHDR section (fixed input)
    i,          \* the loop index of "for i in range(self.nsections)"
    reads       \* the offsets of the dof_secidx_t values read, in order

vars == <<size, i, reads>>

(* Mutant: nsections without the "+1". *)
NSectionsNoPlusOne(sz) == (sz - HdrSize) \div IdxSize

(* self.nsections, with Python 2 floor division of a possibly negative    *)
(* numerator; range() of a negative count is empty.                       *)
NSections(sz) == (sz - HdrSize) \div IdxSize + 1

(* Mutant: the slot offset leaves out the header. *)
SlotOffsetFromStart(k) == (k - 1) * IdxSize

(* The offset the loop reads slot i at, past self.offset. *)
SlotOffset(k) == HdrSize + (k - 1) * IdxSize

Init ==
    /\ size \in 0 .. MaxSize
    /\ i = 0
    /\ reads = <<>>

(* One iteration: read the dof_secidx_t of slot i. *)
ReadSlot ==
    /\ i < NSections(size)
    /\ reads' = Append(reads, SlotOffset(i))
    /\ i' = i + 1
    /\ UNCHANGED size

Spec == Init /\ [][ReadSlot]_vars

Done == i >= NSections(size)

-----------------------------------------------------------------------------
TypeOK ==
    /\ size \in 0 .. MaxSize
    /\ i \in Nat
    /\ reads \in Seq(0 .. MaxSize)

(* Reference: the offsets of the dofd_links entries that lie wholly       *)
(* inside the section, the first being the one inside the header type.    *)
FirstLink == HdrSize - IdxSize
LinkOffsets(sz) ==
    [k \in 1 .. (IF sz < FirstLink THEN 0 ELSE (sz - FirstLink) \div IdxSize)
        |-> FirstLink + (k - 1) * IdxSize]

(* The "+1" of nsections and the "(i - 1)" of the slot offset cancel out: *)
(* the loop reads exactly the link slots inside the section, each once,  *)
(* in order, and never a byte of dofd_rtype or past dofs_size; a section  *)
(* too short to hold a link reads none.                                   *)
LinksReadExactly ==
    /\ Len(reads) <= Len(LinkOffsets(size))
    /\ reads = SubSeq(LinkOffsets(size), 1, Len(reads))
    /\ Done => reads = LinkOffsets(size)

=============================================================================
