------------------------------ MODULE MtocTest ------------------------------
(***************************************************************************)
(* main() of src/src/Developer/ld64/unit-tests/test-cases/efi-basic/       *)
(* mtoctest.py: the check that an EFI image converted by mtoc has an      *)
(* entry point inside .text, sections whose address equals their file     *)
(* offset, and a SizeOfImage that covers every section.                   *)
(*                                                                         *)
(* The inputs are the command line, what otool printed for the entry      *)
(* point, the section table efi-pecoff-util printed, and the PdbPointer   *)
(* line that ends it.  A table line is abstracted to its split: a blank  *)
(* line, a "Key = Value" line with the value already parsed, or a line of *)
(* another shape.  The state is main()'s control and its locals.          *)
(***************************************************************************)
EXTENDS Integers, Sequences

CONSTANTS
    Argvs,      \* candidate option lists: sequences of [o, a]
    Founds,     \* whether otool's output holds the register Arch names
    EntryVals,  \* candidate entry-point values parsed from it
    Docs,       \* candidate section tables, as sequences of lines
    Pdbs,       \* candidate PdbPointer lines: [at, nl]
    ImageSizes, \* candidate SizeOfImage values
    RelocBlanks,\* whether a blank line follows the relocation header
    NoArch      \* Arch never assigned

KnownArchs == {"i386", "arm", "x86_64", "arm64"}
Options == {"-h", "--help", "-a", "--arch", "-v", "--verbose"}

Blank == [k |-> "", v |-> 0]
Fails == {"FAIL_noentry", "FAIL_missing", "FAIL_xip", "FAIL_entry",
          "FAIL_line", "FAIL_size"}
Exits == Fails \cup {"GetoptError", "usage", "UnboundLocalError",
                     "IndexError", "pass"}

VARIABLES
    argv, found, entryVal, doc, pdb, imageSize, relocBlank, \* fixed input
    pc,         \* "args", "entry", "table", "relocs" or how main() ended
    verbose, arch, entry,
    ln,         \* the table line Index is at (Len(lines) + 1: PdbPointer)
    name, size, vma, lma, fileoff,  \* the section being read
    peEnd       \* PeCoffEnd

input == <<argv, found, entryVal, doc, pdb, imageSize, relocBlank>>
fields == <<name, size, vma, lma, fileoff>>
vars == <<input, pc, verbose, arch, entry, ln, fields, peEnd>>

(* The table as the loop sees it: Index starts at the newline that ends   *)
(* the "Sections:" line, which reads as one blank line.                   *)
Lines == <<Blank>> \o doc

(* while Index < EndOfTable.  EndOfTable is where "PdbPointer" starts:   *)
(* inside its line when the line is indented, -1 when it is absent.       *)
InLoop ==
    /\ pdb.at # "absent"
    /\ \/ ln <= Len(Lines)
       \/ ln = Len(Lines) + 1 /\ pdb.at = "indented"

Init ==
    /\ argv \in Argvs
    /\ found \in Founds
    /\ entryVal \in EntryVals
    /\ doc \in Docs
    /\ pdb \in Pdbs
    /\ imageSize \in ImageSizes
    /\ relocBlank \in RelocBlanks
    /\ pc = "args"
    /\ verbose = FALSE
    /\ arch = NoArch
    /\ entry = 0
    /\ ln = 1
    /\ name = "" /\ size = -1 /\ vma = -1 /\ lma = -1 /\ fileoff = -1
    /\ peEnd = 0

(* Mutant: the option loop unpacks the pair the wrong way round. *)
ParseArgsSwapped ==
    /\ pc = "args"
    /\ LET os == {argv[n].o : n \in 1 .. Len(argv)}
           as == SelectSeq(argv, LAMBDA x : x.o \in {"-a", "--arch"})
       IN CASE ~(os \subseteq Options) -> pc' = "GetoptError"
                  /\ UNCHANGED <<verbose, arch>>
            [] os \cap {"-h", "--help"} # {} -> pc' = "usage"
                  /\ UNCHANGED <<verbose, arch>>
            [] OTHER -> /\ pc' = "entry"
                        /\ verbose' = (os \cap {"-v", "--verbose"} # {})
                        /\ arch' = IF as = <<>> THEN NoArch ELSE as[Len(as)].o
    /\ UNCHANGED <<input, entry, ln, fields, peEnd>>

(* getopt, then the option loop: -h prints usage and exits, -a sets Arch *)
(* (the last one wins), -v sets Verbose.                                   *)
ParseArgs ==
    /\ pc = "args"
    /\ LET os == {argv[n].o : n \in 1 .. Len(argv)}
           as == SelectSeq(argv, LAMBDA x : x.o \in {"-a", "--arch"})
       IN CASE ~(os \subseteq Options) -> pc' = "GetoptError"
                  /\ UNCHANGED <<verbose, arch>>
            [] os \cap {"-h", "--help"} # {} -> pc' = "usage"
                  /\ UNCHANGED <<verbose, arch>>
            [] OTHER -> /\ pc' = "entry"
                        /\ verbose' = (os \cap {"-v", "--verbose"} # {})
                        /\ arch' = IF as = <<>> THEN NoArch ELSE as[Len(as)].a
    /\ UNCHANGED <<input, entry, ln, fields, peEnd>>

(* The entry point from otool's register dump, for the four known         *)
(* architectures; 0 (not found) fails the test.                           *)
ReadEntryPoint ==
    /\ pc = "entry"
    /\ IF arch = NoArch
          THEN pc' = "UnboundLocalError" /\ UNCHANGED entry
          ELSE LET e == IF arch \in KnownArchs /\ found THEN entryVal ELSE 0 IN
               /\ entry' = e
               /\ pc' = IF e = 0 THEN "FAIL_noentry" ELSE "table"
    /\ UNCHANGED <<input, verbose, arch, ln, fields, peEnd>>

(* Mutant: PeCoffEnd accumulates the section ends instead of their max. *)
EndSectionSumEnd ==
    IF name = "" THEN UNCHANGED <<pc, fields, peEnd>>
    ELSE CASE -1 \in {size, vma, lma, fileoff} -> pc' = "FAIL_missing"
                 /\ UNCHANGED <<fields, peEnd>>
           [] vma # fileoff -> pc' = "FAIL_xip" /\ UNCHANGED <<fields, peEnd>>
           [] name = ".text" /\ (entry < vma \/ entry > vma + size) ->
                 pc' = "FAIL_entry" /\ UNCHANGED <<fields, peEnd>>
           [] OTHER ->
                 /\ peEnd' = peEnd + vma + size
                 /\ name' = "" /\ size' = -1 /\ vma' = -1 /\ lma' = -1
                 /\ fileoff' = -1
                 /\ UNCHANGED pc

(* A blank line ends a section: if it has a Name, check it, extend        *)
(* PeCoffEnd and clear the fields; without a Name nothing is cleared.     *)
EndSection ==
    IF name = "" THEN UNCHANGED <<pc, fields, peEnd>>
    ELSE CASE -1 \in {size, vma, lma, fileoff} -> pc' = "FAIL_missing"
                 /\ UNCHANGED <<fields, peEnd>>
           [] vma # fileoff -> pc' = "FAIL_xip" /\ UNCHANGED <<fields, peEnd>>
           [] name = ".text" /\ (entry < vma \/ entry > vma + size) ->
                 pc' = "FAIL_entry" /\ UNCHANGED <<fields, peEnd>>
           [] OTHER ->
                 /\ peEnd' = IF vma + size > peEnd THEN vma + size ELSE peEnd
                 /\ name' = "" /\ size' = -1 /\ vma' = -1 /\ lma' = -1
                 /\ fileoff' = -1
                 /\ UNCHANGED pc

(* A "Key = Value" line sets the field its key names. *)
SetField(l) ==
    /\ name' = IF l.k = "Name" THEN l.v ELSE name
    /\ size' = IF l.k = "VirtualSize" THEN l.v ELSE size
    /\ vma' = IF l.k = "VirtualAddress" THEN l.v ELSE vma
    /\ lma' = IF l.k = "VirtualAddress" THEN l.v ELSE lma
    /\ fileoff' = IF l.k = "PointerToRawData" THEN l.v ELSE fileoff
    /\ UNCHANGED <<pc, peEnd>>

(* Mutant: Index += find("\n") without the "+ 1": it stops on the       *)
(* newline, which then reads as a blank line forever.                     *)
TableLineNoAdvance ==
    /\ pc = "table"
    /\ InLoop
    /\ IF ln <= Len(Lines)
          THEN LET l == Lines[ln] IN
               /\ CASE l.k = "" -> EndSection
                    [] l.k = "bad" -> pc' = "FAIL_line"
                                      /\ UNCHANGED <<fields, peEnd>>
                    [] OTHER -> SetField(l)
               /\ ln' = IF l.k = "" THEN ln ELSE ln + 1
          ELSE IF pdb.nl THEN ln' = ln + 1 /\ UNCHANGED <<pc, fields, peEnd>>
               ELSE EndSection /\ UNCHANGED ln
    /\ UNCHANGED <<input, verbose, arch, entry>>

(* One iteration of the table loop over the line at Index.  On the       *)
(* PdbPointer line with no newline after it, find("\n") is -1: the line   *)
(* splits as empty and Index does not move.                               *)
TableLine ==
    /\ pc = "table"
    /\ InLoop
    /\ IF ln <= Len(Lines)
          THEN LET l == Lines[ln] IN
               /\ CASE l.k = "" -> EndSection
                    [] l.k = "bad" -> pc' = "FAIL_line"
                                      /\ UNCHANGED <<fields, peEnd>>
                    [] OTHER -> SetField(l)
               /\ ln' = ln + 1
          ELSE IF pdb.nl THEN ln' = ln + 1 /\ UNCHANGED <<pc, fields, peEnd>>
               ELSE EndSection /\ UNCHANGED ln
    /\ UNCHANGED <<input, verbose, arch, entry>>

(* The loop has left the table: SizeOfImage must cover PeCoffEnd. *)
TableDone ==
    /\ pc = "table"
    /\ ~InLoop
    /\ pc' = IF imageSize < peEnd THEN "FAIL_size" ELSE "relocs"
    /\ UNCHANGED <<input, verbose, arch, entry, ln, fields, peEnd>>

(* The relocation listing: with -v each line after the "address" header *)
(* prints its first word, which a blank line does not have.               *)
Relocations ==
    /\ pc = "relocs"
    /\ pc' = IF verbose /\ relocBlank THEN "IndexError" ELSE "pass"
    /\ UNCHANGED <<input, verbose, arch, entry, ln, fields, peEnd>>

Next == ParseArgs \/ ReadEntryPoint \/ TableLine \/ TableDone \/ Relocations

Spec == Init /\ [][Next]_vars /\ WF_vars(Next)

-----------------------------------------------------------------------------
TypeOK ==
    /\ pc \in {"args", "entry", "table", "relocs"} \cup Exits
    /\ ln \in 1 .. Len(Lines) + 2
    /\ arch \in {NoArch} \cup {argv[n].a : n \in 1 .. Len(argv)}
    /\ verbose \in BOOLEAN
    /\ peEnd \in Nat

(* Reference reading of the table: a section is a maximal run of non-blank *)
(* lines; a key it repeats takes its last value, a key it lacks is -1.    *)
IsBlank(n) == doc[n].k = ""
GroupStarts == {s \in 1 .. Len(doc) : ~IsBlank(s) /\ (s = 1 \/ IsBlank(s - 1))}
GroupEnd(s) ==
    CHOOSE e \in s .. Len(doc) :
        /\ \A j \in s .. e : ~IsBlank(j)
        /\ e = Len(doc) \/ IsBlank(e + 1)
Val(s, key) ==
    LET js == {j \in s .. GroupEnd(s) : doc[j].k = key} IN
    IF js = {} THEN -1 ELSE doc[CHOOSE j \in js : \A x \in js : x <= j].v
Named == {s \in GroupStarts : \E j \in s .. GroupEnd(s) : doc[j].k = "Name"}

(* What the test is for: every named section has its size, address and    *)
(* file offset, an address equal to its file offset, the entry point      *)
(* inside .text, and an end within SizeOfImage; every line is key = value.*)
SectionOK(s) ==
    LET sz == Val(s, "VirtualSize")
        va == Val(s, "VirtualAddress")
        fo == Val(s, "PointerToRawData")
    IN /\ -1 \notin {sz, va, fo}
       /\ va = fo
       /\ Val(s, "Name") = ".text" => va <= entry /\ entry < va + sz
       /\ va + sz <= imageSize
TableOK ==
    /\ \A n \in 1 .. Len(doc) : doc[n].k # "bad"
    /\ \A s \in Named : SectionOK(s)

(* The table checks never fail a correct image: no FAIL from the loop of  *)
(* main() or the SizeOfImage test when every section is right, whatever  *)
(* the order of the lines, repeated keys or stray unnamed fields.         *)
VerdictComplete ==
    pc \in Fails \ {"FAIL_noentry"} => ~TableOK

(* main() always exits: it fails, passes or raises. *)
Termination == <>(pc \in Exits)

(* The test passes only a correct image: the FAIL messages of main() say *)
(* a missing field, an address that is not the file offset, an entry     *)
(* point outside .text or a SizeOfImage too small fails it.               *)
VerdictSound == pc = "pass" => TableOK

=============================================================================
