----------------------------- MODULE DOFStrTab -----------------------------
(* The string-table read shared by the section constructors and the DIF    *)
(* disassembler of src/src/Tools/dtrace/scripts/dof.py.  A string table is *)
(* its bytes, a sequence of naturals with 0 as NUL.                        *)
EXTENDS Naturals, Sequences

(* DOFStrTabSection.GetString: the NUL-terminated run of bytes at offset  *)
(* off (SBData.GetString), cut short by the end of the section.            *)
RECURSIVE GetString(_, _)
GetString(strtab, off) ==
    IF off >= Len(strtab) \/ strtab[off + 1] = 0 THEN <<>>
    ELSE <<strtab[off + 1]>> \o GetString(strtab, off + 1)

=============================================================================
