---------------------------- MODULE DOFRegistry ----------------------------
(***************************************************************************)
(* The DOF container decoder of src/src/Tools/dtrace/scripts/dof.py: the   *)
(* header check (DOFHeader), the lazy, memoised, recursive section         *)
(* registry (DOF.GetSection with the section constructors that call back  *)
(* into it) and the dump (DOF.Show).                                       *)
(*                                                                         *)
(* The program is sequential; the state is its control: the Python call   *)
(* stack of section constructors under construction, the section cache,   *)
(* the loop counters of DOF.__init__ and DOF.Show, and the exception that *)
(* ended the run.  The input (the section table, what lies outside it, the *)
(* header magic and the layout types the debugger lacks) is chosen in Init *)
(* and never changes.  A section constructor is abstracted to the list of *)
(* its steps that can fail or call GetSection, in the code's order.       *)
(***************************************************************************)
EXTENDS Integers, Sequences, FiniteSets, TLC, DTraceActions

CONSTANTS
    NSecs,          \* dofh_secnum: sections in the section table
    OutIdx,         \* section indices a record may name outside 0..NSecs-1
    TableDescs,     \* descriptors a table section may have
    GarbageDescs,   \* what reading a descriptor outside the table may yield
    Idents,         \* candidate first four bytes of dofh_ident
    MissingTypeSets,\* candidate sets of layout types the target lacks
    MaxDepth        \* GetSection nesting at which Python raises RecursionError

TableIdx == 0 .. NSecs - 1
Idx == TableIdx \cup OutIdx

(* Section type names, indexed by dofs_type. *)
SectionNames == <<"NONE", "COMMENTS", "SOURCE", "ECBDESC", "PROBEDESC",
    "ACTDESC", "DIFOHDR", "DIF", "STRTAB", "VARTAB", "RELTAB", "TYPTAB",
    "URELHDR", "KRELHDR", "OPTDESC", "PROVIDER", "PROBES", "PRARGS",
    "PROFFS", "INTTAB", "UTSNAME", "XLTAB", "XLMEMBERS", "XLIMPORT",
    "XLEXPORT", "PREXPORT", "PRENOFFS">>

DofMagic == <<127, 68, 79, 70>>   \* 0x7f 'D' 'O' 'F'

(* The section class dispatched on a type name; others are DOFSection. *)
SectionClasses == [ECBDESC |-> "DOFEcbDescSection",
    PROBEDESC |-> "DOFProbeDescSection", ACTDESC |-> "DOFActDescSection",
    DIFOHDR |-> "DOFDifoHdrSection", DIF |-> "DOFDIFSection",
    STRTAB |-> "DOFStrTabSection", VARTAB |-> "DOFVarTabSection",
    PROVIDER |-> "DOFProviderSection", INTTAB |-> "DOFIntTabSection"]

ClassOfName(n) ==
    IF n \in DOMAIN SectionClasses THEN SectionClasses[n] ELSE "DOFSection"

Errors == {"TypeError", "AttributeError", "LookupError", "IndexError",
           "KeyError", "ZeroDivisionError", "RecursionError"}

(* A descriptor: dofs_type, dofs_entsize, the section indices the record  *)
(* of the section names (provider: strtab, probes, prargs, proffs; probe  *)
(* description: strtab; DIFO header: its links) and the action records.   *)
Desc == [type : Nat, entsize : Nat, refs : Seq(Int),
         acts : Seq([kind : Nat, strtab : Int])]

VARIABLES
    table,      \* the section table: TableIdx -> Desc
    garbage,    \* the bytes a descriptor read outside the table decodes to
    ident,      \* dofh_ident[0..3]
    missing,    \* layout types FindFirstType does not find
    pc,         \* "init", "build", "show", "done" or the exception raised
    sections,   \* DOF.sections: index -> class of the cached object
    stack,      \* constructors in progress: <<[idx, k]>>, innermost last
    next,       \* the loop index of DOF.__init__
    shown,      \* the loop index of DOF.Show
    entered     \* how many times the constructor of each index was entered

input == <<table, garbage, ident, missing>>
vars == <<table, garbage, ident, missing, pc, sections, stack, next, shown, entered>>

DescOf(i) == IF i \in TableIdx THEN table[i] ELSE garbage[i]

(* GetSectionType: section_names[dofs_type], IndexError past its end. *)
NameKnown(i) == DescOf(i).type < Len(SectionNames)
NameOf(i) == SectionNames[DescOf(i).type + 1]
ClassOf(i) == ClassOfName(NameOf(i))

TypeOp(n) == [op |-> "type", arg |-> n, need |-> "any"]
GetOp(j, need) == [op |-> "get", arg |-> j, need |-> need]
DivOp(j) == [op |-> "div", arg |-> j, need |-> "any"]

(* The steps of each section constructor that may fail or recurse. *)
ProviderProgram(d) ==
    <<TypeOp("dof_provider_t"), TypeOp("dof_probe_t"),
      GetOp(d.refs[1], "strtab"), GetOp(d.refs[2], "any"),
      GetOp(d.refs[3], "any"), GetOp(d.refs[4], "any"), DivOp(d.refs[2])>>

ProbeDescProgram(d) == <<TypeOp("dof_probedesc_t"), GetOp(d.refs[1], "strtab")>>

(* nactions divides by the section's own entry size; only the actions the *)
(* gate admits call GetSection, and GetString on the result.              *)
ActDescProgram(i, d) ==
    LET gated == SelectSeq(d.acts, LAMBDA a : ActionGate(a.kind, a.strtab)) IN
    <<TypeOp("dof_actdesc_t"), DivOp(i)>>
        \o [n \in 1 .. Len(gated) |-> GetOp(gated[n].strtab, "strtab")]

DifoHdrProgram(d) ==
    <<TypeOp("dof_difohdr_t"), TypeOp("dof_secidx_t")>>
        \o [n \in 1 .. Len(d.refs) |-> GetOp(d.refs[n], "any")]

(* The constructor GetSection dispatches index i to. *)
Program(i) ==
    LET d == DescOf(i) IN
    CASE ClassOf(i) = "DOFProviderSection" -> ProviderProgram(d)
      [] ClassOf(i) = "DOFProbeDescSection" -> ProbeDescProgram(d)
      [] ClassOf(i) = "DOFActDescSection" -> ActDescProgram(i, d)
      [] ClassOf(i) = "DOFDifoHdrSection" -> DifoHdrProgram(d)
      [] ClassOf(i) = "DOFEcbDescSection" -> <<TypeOp("dof_ecbdesc_t")>>
      [] ClassOf(i) = "DOFDIFSection" -> <<TypeOp("dif_instr_t")>>
      [] ClassOf(i) = "DOFVarTabSection" -> <<TypeOp("dtrace_difv_t")>>
      [] ClassOf(i) = "DOFIntTabSection" -> <<TypeOp("uint64_t")>>
      [] OTHER -> <<>>

Init ==
    /\ table \in [TableIdx -> TableDescs]
    /\ garbage \in [OutIdx -> GarbageDescs]
    /\ ident \in Idents
    /\ missing \in MissingTypeSets
    /\ pc = "init"
    /\ sections = <<>>
    /\ stack = <<>>
    /\ next = 0
    /\ shown = 0
    /\ entered = [i \in Idx |-> 0]

(* DOF.__init__ up to the section loop, with DOFHeader.__init__: a missing *)
(* dof_hdr_t makes DOFHeader return early, and reading nsecs then fails.   *)
Header ==
    /\ pc = "init"
    /\ pc' = CASE "dof_sec_t" \in missing -> "TypeError"
               [] "dof_hdr_t" \in missing -> "AttributeError"
               [] \E b \in 1 .. 3 : ident[b] # DofMagic[b] -> "LookupError"
               [] OTHER -> "build"
    /\ UNCHANGED <<input, sections, stack, next, shown, entered>>

(* GetSection on an index not yet cached: GetSectionType, then the        *)
(* constructor is entered, one Python call level deeper.                  *)
Enter(i) ==
    CASE ~NameKnown(i) -> pc' = "IndexError" /\ UNCHANGED stack
      [] Len(stack) >= MaxDepth -> pc' = "RecursionError" /\ UNCHANGED stack
      [] OTHER -> stack' = Append(stack, [idx |-> i, k |-> 1, ret |-> "none"])
                  /\ UNCHANGED pc

(* History: a step that pushes a constructor frame counts an entry of its *)
(* index; it changes nothing the code does.                               *)
CountEntry ==
    entered' = IF Len(stack') > Len(stack)
                  THEN [entered EXCEPT ![stack'[Len(stack')].idx] = @ + 1]
                  ELSE entered

(* Mutant: the section loop runs one index past the table. *)
BuildNextOffByOne ==
    /\ pc = "build"
    /\ stack = <<>>
    /\ next <= NSecs
    /\ IF next \in DOMAIN sections
          THEN next' = next + 1 /\ UNCHANGED <<pc, stack>>
          ELSE Enter(next) /\ UNCHANGED next
    /\ UNCHANGED <<input, sections, shown>>
    /\ CountEntry

(* One iteration of the section loop of DOF.__init__: GetSection(i)       *)
(* returns the cached object, or enters the constructor.                  *)
BuildNext ==
    /\ pc = "build"
    /\ stack = <<>>
    /\ next < NSecs
    /\ IF next \in DOMAIN sections
          THEN next' = next + 1 /\ UNCHANGED <<pc, stack>>
          ELSE Enter(next) /\ UNCHANGED next
    /\ UNCHANGED <<input, sections, shown>>
    /\ CountEntry

(* Mutant: the section loop stops before the last table section. *)
BuildDoneEarly ==
    /\ pc = "build"
    /\ stack = <<>>
    /\ next = NSecs - 1
    /\ pc' = "show"
    /\ UNCHANGED <<input, sections, stack, next, shown, entered>>

BuildDone ==
    /\ pc = "build"
    /\ stack = <<>>
    /\ next = NSecs
    /\ pc' = "show"
    /\ UNCHANGED <<input, sections, stack, next, shown, entered>>

Top == stack[Len(stack)]
Advance == stack' = [stack EXCEPT ![Len(stack)].k = @ + 1]

(* Mutant: the caller uses the returned section as a string table without *)
(* it being one.                                                           *)
UseResultUnchecked(frames, c) ==
    stack' = [frames EXCEPT ![Len(frames)].k = @ + 1,
                            ![Len(frames)].ret = "none"] /\ UNCHANGED pc

(* The caller at the top of frames receives section object c from          *)
(* GetSection; a provider or probe description calls GetString on it at   *)
(* once, which only a DOFStrTabSection has.                                *)
UseResult(frames, c) ==
    LET f == frames[Len(frames)]
        o == Program(f.idx)[f.k]
    IN IF o.need = "strtab" /\ c # "DOFStrTabSection"
          THEN pc' = "AttributeError" /\ stack' = frames
          ELSE stack' = [frames EXCEPT ![Len(frames)].k = @ + 1,
                                       ![Len(frames)].ret = "none"]
               /\ UNCHANGED pc

(* Mutant: GetSection inside a constructor ignores the cache. *)
ConstructStepNoCache ==
    /\ pc = "build"
    /\ stack # <<>>
    /\ Top.k <= Len(Program(Top.idx))
    /\ LET o == Program(Top.idx)[Top.k] IN
       CASE Top.ret # "none" -> UseResult(stack, Top.ret)
         [] o.op = "type" ->
              IF o.arg \in missing THEN pc' = "TypeError" /\ UNCHANGED stack
                                   ELSE Advance /\ UNCHANGED pc
         [] o.op = "div" ->
              IF DescOf(o.arg).entsize = 0
                 THEN pc' = "ZeroDivisionError" /\ UNCHANGED stack
                 ELSE Advance /\ UNCHANGED pc
         [] OTHER -> Enter(o.arg)
    /\ UNCHANGED <<input, sections, next, shown>>
    /\ CountEntry

(* The innermost constructor takes its next step: a FindFirstType lookup, *)
(* a division by an entry size, or a GetSection call.                     *)
ConstructStep ==
    /\ pc = "build"
    /\ stack # <<>>
    /\ Top.k <= Len(Program(Top.idx))
    /\ LET o == Program(Top.idx)[Top.k] IN
       CASE Top.ret # "none" -> UseResult(stack, Top.ret)
         [] o.op = "type" ->
              IF o.arg \in missing THEN pc' = "TypeError" /\ UNCHANGED stack
                                   ELSE Advance /\ UNCHANGED pc
         [] o.op = "div" ->
              IF DescOf(o.arg).entsize = 0
                 THEN pc' = "ZeroDivisionError" /\ UNCHANGED stack
                 ELSE Advance /\ UNCHANGED pc
         [] o.op = "get" /\ o.arg \in DOMAIN sections ->
              UseResult(stack, sections[o.arg])
         [] OTHER -> Enter(o.arg)
    /\ UNCHANGED <<input, sections, next, shown>>
    /\ CountEntry

(* The constructor returns; GetSection stores the object under its index *)
(* and returns it to its caller: the section loop, or a constructor.      *)
ConstructReturn ==
    /\ pc = "build"
    /\ stack # <<>>
    /\ Top.k > Len(Program(Top.idx))
    /\ sections' = (Top.idx :> ClassOf(Top.idx)) @@ sections
    /\ LET rest == SubSeq(stack, 1, Len(stack) - 1) IN
       IF rest = <<>>
          THEN next' = next + 1 /\ stack' = rest /\ UNCHANGED pc
          ELSE stack' = [rest EXCEPT ![Len(rest)].ret = ClassOf(Top.idx)]
               /\ UNCHANGED <<pc, next>>
    /\ UNCHANGED <<input, shown, entered>>

(* DOFDifoHdrSection keeps the last of its links whose type is DIF; Show  *)
(* disassembles it, and fails on None when there is none.                  *)
HasDif(i) == \E n \in 1 .. Len(DescOf(i).refs) : NameOf(DescOf(i).refs[n]) = "DIF"

(* One iteration of DOF.Show: for i in range(len(self.sections)). *)
ShowNext ==
    /\ pc = "show"
    /\ shown < Cardinality(DOMAIN sections)
    /\ CASE shown \notin DOMAIN sections ->
              pc' = "KeyError" /\ UNCHANGED shown
         [] sections[shown] = "DOFDifoHdrSection" /\ ~HasDif(shown) ->
              pc' = "AttributeError" /\ UNCHANGED shown
         [] OTHER -> shown' = shown + 1 /\ UNCHANGED pc
    /\ UNCHANGED <<input, sections, stack, next, entered>>

ShowDone ==
    /\ pc = "show"
    /\ shown = Cardinality(DOMAIN sections)
    /\ pc' = "done"
    /\ UNCHANGED <<input, sections, stack, next, shown, entered>>

Next ==
    \/ Header
    \/ BuildNext
    \/ BuildDone
    \/ ConstructStep
    \/ ConstructReturn
    \/ ShowNext
    \/ ShowDone

Spec == Init /\ [][Next]_vars

-----------------------------------------------------------------------------
Classes == {"DOFSection"} \cup {SectionClasses[n] : n \in DOMAIN SectionClasses}

TypeOK ==
    /\ table \in [TableIdx -> Desc]
    /\ pc \in {"init", "build", "show", "done"} \cup Errors
    /\ DOMAIN sections \subseteq Idx
    /\ \A i \in DOMAIN sections : sections[i] \in Classes
    /\ stack \in Seq([idx : Idx, k : Nat, ret : Classes \cup {"none"}])
    /\ next \in 0 .. NSecs
    /\ entered \in [Idx -> Nat]

(* Memoisation (GetSection tests the cache before constructing and fills *)
(* it after): every entry into the constructor of an index either made   *)
(* the cached object or is still on the call stack.  So a cached section  *)
(* is never constructed again, even when resolved by several sections (a *)
(* diamond), and an index is entered again only while its own constructor *)
(* is in progress: a cyclic reference, which recurses until RecursionError *)
(* instead of finding the section in the cache.                           *)
FramesOf(i) == Cardinality({n \in 1 .. Len(stack) : stack[n].idx = i})
EntryIsCachedOrInProgress ==
    \A i \in Idx :
        entered[i] <= (IF i \in DOMAIN sections THEN 1 ELSE 0) + FramesOf(i)

(* A cached section's cross-references are all cached, and every one the  *)
(* constructor used as a string table (GetString) is a DOFStrTabSection:   *)
(* nothing is cached that a sibling constructor failed to resolve.         *)
CacheClosed ==
    \A i \in DOMAIN sections :
        \A n \in 1 .. Len(Program(i)) :
            LET o == Program(i)[n] IN
            o.op = "get" =>
                /\ o.arg \in DOMAIN sections
                /\ o.need = "strtab" => sections[o.arg] = "DOFStrTabSection"


-----------------------------------------------------------------------------
(* Statements of spec.md the code is checked against. *)

(* spec 3, 4.2 and 7 (MalformedContainer): the four signature bytes must  *)
(* equal 0x7f 'D' 'O' 'F', and the debuggee must supply the layouts of the *)
(* header and of a section descriptor; otherwise the decode is aborted    *)
(* and no section is decoded.  (DOFHeader returns early, without nsecs,   *)
(* when dof_hdr_t is missing; DOF.__init__ carries on with it.)           *)
MalformedContainerRejected ==
    (ident # DofMagic \/ missing \cap {"dof_hdr_t", "dof_sec_t"} # {})
        => pc \in {"init"} \cup Errors /\ sections = <<>>

(* spec 4.3: an action's argument is resolved through its string table    *)
(* only when that index is valid, so GetSection never sees the -1 "none"  *)
(* sentinel (DOFActDescSection.__init__).                                  *)
NoneSentinelNeverResolved ==
    /\ -1 \notin DOMAIN sections
    /\ \A n \in 1 .. Len(stack) : stack[n].idx # -1

(* spec 4.2: a type tag outside the known set resolves to the generic     *)
(* variant; GetSectionType never fails on it.                             *)
UnknownTagIsGeneric == pc # "IndexError"

(* spec 4.2 and 7 (UnresolvedSectionReference): a reference that does    *)
(* not resolve to a section of the right type is fatal to that one record *)
(* only.  None of these ends the whole dump: a constructor's GetString on *)
(* a section that is not a string table; DOF.Show of a DIFO header that   *)
(* linked no DIF section; a provider dividing by the entry size of a      *)
(* "probe array" that is not a PROBES section (a string table has entry   *)
(* size 0).  (An AttributeError raised by the header, before the section  *)
(* loop, is MalformedContainer: a layout the debuggee lacks, which is     *)
(* fatal.)                                                                 *)
UnresolvedReferenceIsLocal ==
    /\ pc = "AttributeError" => next = 0 /\ stack = <<>>
    /\ (pc = "ZeroDivisionError" /\ ClassOf(Top.idx) = "DOFProviderSection")
          => NameOf(DescOf(Top.idx).refs[2]) = "PROBES"

(* spec 7: an index outside the section table is an unresolved reference; *)
(* a completed dump (DOF.Show) lists exactly the sections of the table.    *)
DumpListsTheTable == pc = "done" => shown = NSecs

(* The registry implements DOFRegistryAbstract: DOF.sections is the       *)
(* abstract cache, and the run is "running" until the dump returns or     *)
(* raises.  The variant of an index is the class GetSection dispatches to. *)
Abs == INSTANCE DOFRegistryAbstract WITH
    Index <- Idx, TableIndex <- TableIdx, Classes <- Classes, NoClass <- "none",
    cls <- [i \in Idx |-> IF NameKnown(i) THEN ClassOf(i) ELSE "none"],
    cache <- sections,
    status <- CASE pc \in {"init", "build", "show"} -> "running"
                [] pc = "done" -> "done"
                [] OTHER -> "failed"

(* GetSection caches each section once, as the class of its type tag,     *)
(* never rewrites an entry, and the dump completes only after every table *)
(* section is cached.                                                      *)
RegistryRefinesAbstract == Abs!ASpec

=============================================================================
