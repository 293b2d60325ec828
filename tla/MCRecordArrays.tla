--------------------------- MODULE MCRecordArrays ---------------------------
(* The fixed-stride record arrays of the section type family, checked in  *)
(* one model: a run is the constructor of one section, the DIFO header's  *)
(* link array (DifoHdrLayout) or its links sorted by kind (DifoLinks), the *)
(* provider's probe array (ProviderProbes), the action descriptions      *)
(* (ActionRecords) or a single ECB or probe description (DescRecords).    *)
(* They share no state; the                                                *)
(* variables of the constructors that do not run keep their Idle values.  *)
EXTENDS Integers, Sequences

CONSTANTS HdrSize, IdxSize, MaxSize, StrTabs, Records, EntSizes, MaxPrbSize,
    StrTabIds, ActStrTabs, ActRecords, MaxActSize, LinkMaxSize, SecIdx, SecTypes,
    EcbDescs, ProbeDescs

VARIABLES sec, size, di, reads, strtab, entSize, prbSize, recs, pc, i, probes, lines,
    tabs, aEntSize, actSize, aRecs, apc, ai, actions, alines,
    lsize, li, lreads, slotVal, stype, links, secs, disasm, lpc, shown,
    desc, drec, dstrtab, obj, dpc, dline

DL == INSTANCE DifoHdrLayout WITH i <- di
PP == INSTANCE ProviderProbes
AR == INSTANCE ActionRecords WITH StrTabs <- ActStrTabs, entSize <- aEntSize,
    recs <- aRecs, pc <- apc, i <- ai, lines <- alines
DK == INSTANCE DifoLinks WITH MaxSize <- LinkMaxSize, size <- lsize, i <- li,
    reads <- lreads, pc <- lpc
DR == INSTANCE DescRecords WITH rec <- drec, strtab <- dstrtab, pc <- dpc, line <- dline

dlVars == <<size, di, reads>>
ppVars == <<strtab, entSize, prbSize, recs, pc, i, probes, lines>>
arVars == <<tabs, aEntSize, actSize, aRecs, apc, ai, actions, alines>>
dkVars == <<lsize, li, lreads, slotVal, stype, links, secs, disasm, lpc, shown>>
drVars == <<desc, drec, dstrtab, obj, dpc, dline>>
vars == <<sec, dlVars, ppVars, arVars, dkVars, drVars>>

DLIdle == size = 0 /\ di = 0 /\ reads = <<>>
PPIdle == /\ strtab = <<>> /\ entSize = 1 /\ prbSize = 0
          /\ recs = [o \in 0 .. MaxPrbSize - 1 |-> CHOOSE r \in Records : TRUE]
          /\ pc = "init" /\ i = 0 /\ probes = <<>> /\ lines = <<>>
ARIdle == /\ tabs = [s \in StrTabIds |-> <<>>] /\ aEntSize = 1 /\ actSize = 0
          /\ aRecs = [o \in 0 .. MaxActSize - 1 |-> CHOOSE r \in ActRecords : TRUE]
          /\ apc = "init" /\ ai = 0 /\ actions = <<>> /\ alines = <<>>
DKIdle == /\ lsize = 0 /\ li = 0 /\ lreads = <<>> /\ slotVal = <<>> /\ stype = <<>>
          /\ links = <<>> /\ secs = <<>> /\ disasm = <<>> /\ lpc = "walk" /\ shown = <<>>
DRIdle == /\ desc = "ECBDESC" /\ drec = (CHOOSE r \in EcbDescs : TRUE) /\ dstrtab = <<>>
          /\ obj = <<>> /\ dpc = "init" /\ dline = <<>>

Init ==
    \/ sec = "DIFOHDR" /\ DL!Init /\ PPIdle /\ ARIdle /\ DKIdle /\ DRIdle
    \/ sec = "PROVIDER" /\ PP!Init /\ DLIdle /\ ARIdle /\ DKIdle /\ DRIdle
    \/ sec = "ACTDESC" /\ AR!Init /\ DLIdle /\ PPIdle /\ DKIdle /\ DRIdle
    \/ sec = "DIFOLINKS" /\ DK!Init /\ DLIdle /\ PPIdle /\ ARIdle /\ DRIdle
    \/ sec = "DESC" /\ DR!Init /\ DLIdle /\ PPIdle /\ ARIdle /\ DKIdle

ReadSlot == sec = "DIFOHDR" /\ DL!ReadSlot /\ UNCHANGED <<sec, ppVars, arVars, dkVars, drVars>>
Start == sec = "PROVIDER" /\ PP!Start /\ UNCHANGED <<sec, dlVars, arVars, dkVars, drVars>>
ProbeNext == sec = "PROVIDER" /\ PP!ProbeNext /\ UNCHANGED <<sec, dlVars, arVars, dkVars, drVars>>
WalkDone == sec = "PROVIDER" /\ PP!WalkDone /\ UNCHANGED <<sec, dlVars, arVars, dkVars, drVars>>
ShowProbe == sec = "PROVIDER" /\ PP!ShowProbe /\ UNCHANGED <<sec, dlVars, arVars, dkVars, drVars>>
ShowDone == sec = "PROVIDER" /\ PP!ShowDone /\ UNCHANGED <<sec, dlVars, arVars, dkVars, drVars>>

ActStart == sec = "ACTDESC" /\ AR!Start /\ UNCHANGED <<sec, dlVars, ppVars, dkVars, drVars>>
ActNext == sec = "ACTDESC" /\ AR!ActNext /\ UNCHANGED <<sec, dlVars, ppVars, dkVars, drVars>>
ActWalkDone == sec = "ACTDESC" /\ AR!WalkDone /\ UNCHANGED <<sec, dlVars, ppVars, dkVars, drVars>>
ShowAction == sec = "ACTDESC" /\ AR!ShowAction /\ UNCHANGED <<sec, dlVars, ppVars, dkVars, drVars>>
ActShowDone == sec = "ACTDESC" /\ AR!ShowDone /\ UNCHANGED <<sec, dlVars, ppVars, dkVars, drVars>>

LinkSlot == sec = "DIFOLINKS" /\ DK!LinkSlot /\ UNCHANGED <<sec, dlVars, ppVars, arVars, drVars>>
LinkWalkDone == sec = "DIFOLINKS" /\ DK!WalkDone /\ UNCHANGED <<sec, dlVars, ppVars, arVars, drVars>>
ShowHeader == sec = "DIFOLINKS" /\ DK!ShowHeader /\ UNCHANGED <<sec, dlVars, ppVars, arVars, drVars>>

EcbConstruct == sec = "DESC" /\ DR!EcbConstruct /\ UNCHANGED <<sec, dlVars, ppVars, arVars, dkVars>>
ProbeDescConstruct == sec = "DESC" /\ DR!ProbeDescConstruct /\ UNCHANGED <<sec, dlVars, ppVars, arVars, dkVars>>
EcbShow == sec = "DESC" /\ DR!EcbShow /\ UNCHANGED <<sec, dlVars, ppVars, arVars, dkVars>>
ProbeDescShow == sec = "DESC" /\ DR!ProbeDescShow /\ UNCHANGED <<sec, dlVars, ppVars, arVars, dkVars>>

Next == ReadSlot \/ Start \/ ProbeNext \/ WalkDone \/ ShowProbe \/ ShowDone
    \/ ActStart \/ ActNext \/ ActWalkDone \/ ShowAction \/ ActShowDone
    \/ LinkSlot \/ LinkWalkDone \/ ShowHeader
    \/ EcbConstruct \/ ProbeDescConstruct \/ EcbShow \/ ProbeDescShow

Spec == Init /\ [][Next]_vars

TypeOK ==
    /\ sec \in {"DIFOHDR", "PROVIDER", "ACTDESC", "DIFOLINKS", "DESC"}
    /\ sec = "DIFOHDR" => DL!TypeOK
    /\ sec = "PROVIDER" => PP!TypeOK
    /\ sec = "ACTDESC" => AR!TypeOK
    /\ sec = "DIFOLINKS" => DK!TypeOK
    /\ sec = "DESC" => DR!TypeOK

(* The DIFO header reads exactly its link slots (DifoHdrLayout). *)
LinksReadExactly == sec = "DIFOHDR" => DL!LinksReadExactly

(* The provider reports every probe's signatures as declared, "void" by   *)
(* offset reuse only (ProviderProbes).                                     *)
ProbesReportedAsDeclared == sec = "PROVIDER" => PP!ProbesReportedAsDeclared

(* The DIFO header hands the disassembler the last linked section of each *)
(* kind and shows its index (DifoLinks).                                  *)
LinksAggregated == sec = "DIFOLINKS" => DK!LinksAggregated

(* The action descriptions show, in order, each record's own resolved     *)
(* string, empty or not, or else its raw argument (ActionRecords).         *)
ActionsReportedAsResolved ==
    sec = "ACTDESC" => AR!ActionsReportedAsResolved

(* A string table where offsets 0 and 7 hold the same string "f", offset  *)
(* 1 the empty string and offset 2 the string "void".                     *)
MCStrTabs == {<<102, 0, 118, 111, 105, 100, 0, 102, 0>>}

(* Records with no arguments, with a signature string equal to the        *)
(* function name at another offset, with a "void" signature string, and   *)
(* with an empty one.                                                     *)
MCRecords ==
    {[name |-> 2, func |-> 0, nargv |-> 0, xargv |-> 0],
     [name |-> 2, func |-> 0, nargv |-> 7, xargv |-> 1],
     [name |-> 0, func |-> 0, nargv |-> 2, xargv |-> 0],
     [name |-> 2, func |-> 7, nargv |-> 0, xargv |-> 2]}

(* Two string tables: the first holds "" at offset 0 and "f" at 1, the    *)
(* second "g" at 0, so offset 0 reads differently in the two.              *)
MCActStrTabs == {<<0, 102, 0>>, <<103, 0>>}

(* A printf whose argument is the empty string, a printf through the -1  *)
(* sentinel, a system() with a string, a printa without a string table    *)
(* and an exit, whose argument is a number.                               *)
MCActRecords ==
    {[kind |-> 3, difo |-> 1, strtab |-> 0, arg |-> 0],
     [kind |-> 3, difo |-> -1, strtab |-> -1, arg |-> 1],
     [kind |-> 515, difo |-> 1, strtab |-> 1, arg |-> 0],
     [kind |-> 4, difo |-> 1, strtab |-> -1, arg |-> 1],
     [kind |-> 2, difo |-> 1, strtab |-> 1, arg |-> 0]}

MCStrTabIds == {-1, 0, 1}

(* Three sections; two string tables among them make a later link of a    *)
(* kind replace an earlier one.                                           *)
MCSecIdx == {0, 1, 2}
MCSecTypes == {"DIF", "STRTAB", "INTTAB", "COMMENTS"}

(* The ECB of spec 8 (probe 2, no predicate, actions 5) and one with every *)
(* index the sentinel; probe descriptions naming strings of MCStrTabs.     *)
MCEcbDescs == {[probes |-> 2, pred |-> -1, actions |-> 5],
               [probes |-> -1, pred |-> -1, actions |-> -1]}
MCProbeDescs == {[provider |-> 0, mod |-> 1, func |-> 2, name |-> 7]}
=============================================================================
