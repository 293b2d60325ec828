# TLA+ models of the DOF decoder, the DIF disassembler and the EFI image check

This directory models two scripts of the repository:
- `src/src/Tools/dtrace/scripts/dof.py`, the lldb script that decodes a DTrace
  Object Format (DOF) container and disassembles the DIF bytecode it carries.
  `spec.md` describes its intended behaviour.
- `src/src/Developer/ld64/unit-tests/test-cases/efi-basic/mtoctest.py`, the
  ld64 unit test that checks an EFI image made by `mtoc`. Its FAIL messages
  state what it is meant to check.

Every definition here is translated from the source. `PROJECT.json` records
which lines each definition models.

## The system

`dof.py` is single-threaded and synchronous. A dump works as follows:

1. **Header.** `DOF.__init__` looks up the `dof_sec_t` layout. It then builds
   a `DOFHeader`, which looks up `dof_hdr_t` and checks the signature bytes.
2. **Section loop.** `DOF.__init__` calls `GetSection(i)` for every `i` in
   `range(nsecs)`.
3. **GetSection** is lazy and memoised. For an index it has not cached, it:
   - reads the descriptor's type tag (`GetSectionType`);
   - dispatches through `section_names` and `section_classes` to a subclass
     of `DOFSection`;
   - runs that subclass's constructor;
   - caches the result.

   The constructors of provider, probe-description, action-description and
   DIFO-header sections call `GetSection` themselves for the sections they
   reference. So `GetSection` is recursive, and the Python call stack holds
   every constructor still in progress. The provider, probe-description and
   action constructors call `GetString` at once on the section they got
   back.
4. **Show.** `DOF.Show` walks `range(len(self.sections))`. A DIFO header's
   `Show` runs `DIFODisassembler.Disassemble` over its linked DIF section,
   using the string, integer and variable tables the header linked.
5. **Disassemble.** `Disassemble` decodes one 32-bit word at a time. It looks
   up the opcode in an 80-entry table and calls the handler. The handler
   prints an annotation after `!`: an integer-table value, a string-table
   string, a variable name found by `(id, scope)`, a subroutine name or a
   type name.

Any Python exception ends the whole dump. None is caught anywhere.

## Modules

| Module | Models |
|---|---|
| `DOFRegistry` | `DOFHeader.__init__`, `DOF.__init__`, `GetSection`, `GetSectionType`, the section constructors, `DOF.Show` |
| `DOFRegistryAbstract` | What the registry promises (spec 4.2, section 5) |
| `DIFDisassembler` | `DIFODisassembler`: `Disassemble`, the handlers, `VarName`, `Scope` |
| `DOFStrTab` | `DOFStrTabSection.GetString`, shared by the disassembler and the provider |
| `DifoHdrLayout` | The link-slot loop of `DOFDifoHdrSection.__init__` (842-853) |
| `DifoLinks` | The rest of `DOFDifoHdrSection`: links sorted by kind (854-868), the disassembler built (869-870), `Show` (872-880); composed with `DifoHdrLayout` |
| `ProviderProbes` | The probe walk of `DOFProviderSection.__init__` (690-707), its `Show` and `DOFProbe.Show` |
| `ActionRecords` | The action walk of `DOFActDescSection.__init__` (796-811) and its `Show` (813-824) |
| `DTraceActions` | The action kinds and the argument gate of `DOFActDescSection.__init__` (805-806), shared by `DOFRegistry` and `ActionRecords` |
| `DescRecords` | `DOFEcbDescSection` and `DOFProbeDescSection`: constructor and `Show` (721-772), `DOFSecIdxString` |
| `MtocTest` | `main()` of `mtoctest.py` |
| `MCDOFRegistry`, `MCDIFDisassembler`, `MCMtocTest` | Model values for TLC |
| `MCRecordArrays` | Instantiates `DifoHdrLayout`, `DifoLinks`, `ProviderProbes`, `ActionRecords` and `DescRecords` for one run |

### DOFRegistry

**Input.** The input is fixed in `Init` and never changes afterwards:
- `table`: the section table, with one descriptor per index `0..NSecs-1`. A
  descriptor is its type tag, its entry size, the section indices its record
  names, and its action records.
- `garbage`: what a read of a descriptor outside the table yields.
- `ident`: the header's signature bytes.
- `missing`: the layout types the debugger lacks.

**State.** The state is the program's control:
- `pc`: the phase, or the exception that ended the run.
- `sections`: `DOF.sections`, from index to the class of the cached object.
- `stack`: the constructors in progress, innermost last. Each frame holds:
  - the section index;
  - the step the constructor is at;
  - the section a `GetSection` call has just returned to it.
- `next`, `shown`: the loop indices of `__init__` and `Show`.
- `entered`: how many times each index's constructor has been entered. It is
  a history variable: the code keeps no such count, and no action reads it.

**Constructors.** Each constructor is abstracted to its steps that can fail
or recurse, in the code's order. The operators are `ProviderProgram`,
`ProbeDescProgram`, `ActDescProgram`, `DifoHdrProgram` and the leaf cases of
`Program`. The steps are of three kinds:
- a `FindFirstType` lookup, which raises TypeError when the type is missing;
- a division by an entry size, which raises ZeroDivisionError on 0;
- a `GetSection` call, optionally followed by `GetString` on its result,
  which raises AttributeError unless the result is a string table.

`ActDescProgram` applies the action gate, `ActionGate`, exactly as it is
written at line 805.

**Actions:**
- `Header`
- `BuildNext`, `BuildDone`: the section loop.
- `ConstructStep`: one step of the innermost constructor. The step is a
  cache hit, or a descent through `Enter`, which raises IndexError for an
  unknown tag or RecursionError at `MaxDepth`.
- `ConstructReturn`: the constructor returns, the object is cached, and it is
  handed to the caller.
- `ShowNext`, `ShowDone`: the Show loop. It raises KeyError on a missing key,
  and AttributeError for a DIFO header without a DIF link.

### DOFRegistryAbstract

This module states what the registry promises. It keeps a cache that grows
one entry at a time. Each entry is the class its tag dispatches to and is
never rewritten. Completion requires every table index to be cached, and the
run may fail at any time.

`DOFRegistry` instantiates it with a refinement mapping:
- the cache is `sections`;
- the status is derived from `pc`.

`RegistryRefinesAbstract` checks that `DOFRegistry` implements it.

### DIFDisassembler

**Input.** The DIF words and the three tables. A missing table is the model
value `None`, as `DOFDifoHdrSection` leaves it.

**State.** `pc`, the loop index `i`, and `out`: the opcode and annotation of
every decoded word.

**Definitions.**
- `Dis(op, w)` gives each handler's annotation or exception.
- `DisSetX` and `DisSetS` include the in-range tests.
- `VarName` is the first-match linear scan, and `Scope` reads `name[2]`.
- `Decimal` is `%d`, and `GetString` is the NUL-terminated read.

Register operands and print layout are left out, because no property is
about them.

### DifoHdrLayout

The state is the section size (fixed input), the loop index `i` and the
offsets read so far. `NSections` is `(size - HdrSize) / IdxSize + 1` with
Python 2 floor division, and `SlotOffset(i)` is `HdrSize + (i-1)*IdxSize`.
`ReadSlot` is one loop iteration. `LinksReadExactly` compares the offsets
read with `LinkOffsets`, a reference written from the C layout of
`dof_difohdr_t`, whose first link lies inside the header type.

### DifoLinks

`DifoLinks` instantiates `DifoHdrLayout` on its own `size`, `i` and
`reads`, so the slots it classifies are exactly the ones the layout
arithmetic reads.

**Input.** `slotVal` is the `dof_secidx_t` stored at each byte offset of
the section. `stype` is the type of the section `dof.GetSection` returns
for each index; `DOFRegistry` models the lookup itself.

**State.** `links` holds the four `(k_idx, k)` pairs, starting at
`(0, None)`. `secs` is `self.secs`. `disasm` is the four sections handed
to `DIFODisassembler`. `shown` is the index line that `Show` prints.

**Actions.**
- `LinkSlot` is one loop iteration: read the slot, resolve it, and apply
  `Classify` (the if/elif chain), so that a later link of a kind replaces
  an earlier one.
- `WalkDone` builds the disassembler.
- `ShowHeader` prints the four indices, then either starts disassembling
  or raises AttributeError when no DIF section was linked.

### ProviderProbes

**Input.** The bytes of the provider's string table, the probe array's
`dofs_size` and `dofs_entsize`, and `recs`: the `dof_probe_t` the debugger
decodes at each byte offset of the probe array, given as its four string
offsets (name, function, native and translated signature). Strings are
byte sequences, so Python's string comparisons in `DOFProbe.Show` are
modelled by what they compare.

**Actions.**
- `Start` is the division giving `nprobes`. It raises ZeroDivisionError
  when the entry size is 0.
- `ProbeNext` is one loop iteration. It reads the record at
  `i * ent_size`, resolves the name and function, and applies the "void"
  sentinel to each signature (`Signature`: an offset equal to the
  function-name offset).
- `WalkDone` is the constructor returning.
- `ShowProbe` and `ShowDone` are the provider's `Show` loop.
  `ProbeLine` is `DOFProbe.Show`: one signature is printed when the two
  strings are equal, and two otherwise.

The constructor's type lookups and `GetSection` calls come before the walk.
They are part of `DOFRegistry`'s `ProviderProgram`.

### ActionRecords

**Input.** `tabs[s]` is the string table that `dof.GetSection(s)` returns
for each `dofa_strtab` value a record may hold (-1 included, because
`DOFRegistry` shows where the sentinel leads). The other inputs are the
section's `dofs_size` and `dofs_entsize`, and `recs`: the `dof_actdesc_t`
decoded at each byte offset, given as kind, DIFO index, string-table index
and argument.

**Actions.**
- `Start` is the division giving `nactions`.
- `ActNext` is one loop iteration. It reads the record at `ent_size * i`.
  `ArgString` applies the gate (`ActionGate`, shared with `DOFRegistry`
  through `DTraceActions`) and reads the string at `dofa_arg` in the
  record's own table. `None` is the empty sequence and a string is a
  one-element sequence, so an empty string is distinct from `None`.
- `WalkDone` is the constructor returning.
- `ShowAction` and `ShowDone` are the `Show` loop. `ActionLine` is one
  printed line: index, kind, DIFO index, then either the quoted string
  (`arg_string is not None`) or the raw argument.

### DescRecords

These are the two constructors that read a single record.
- The ECB keeps its probe, predicate and action indices as read, and
  `EcbShow` prints them through `DOFSecIdxString`, which turns -1 into
  `NONE`.
- The probe description resolves four offsets in its string table, and
  `ProbeDescShow` prints them.

Neither makes a decision, so no property is stated about them beyond
`TypeOK`. The run only shows that they fire.

### MCRecordArrays

`MCRecordArrays` checks the section constructors outside the registry in
one run:
- `DifoHdrLayout` (branch `DIFOHDR`);
- `DifoLinks` (`DIFOLINKS`);
- `ProviderProbes` (`PROVIDER`);
- `ActionRecords` (`ACTDESC`);
- `DescRecords` (`DESC`).

Their models share no state. `Init` picks which constructor runs (`sec`).
Every action is guarded by `sec`, and the other models' variables stay at
fixed idle values.

### MtocTest

**Input.** The state of `main()` is driven by the command line and by the
outputs of the tools it runs:
- `argv`: the options;
- `found`, `entryVal`: whether otool's register dump has the entry-point
  register of the architecture, and its value;
- `doc`: the section table of `efi-pecoff-util`, as a sequence of lines. A
  line is blank, a `Key = Value` triple (split on white space), or a line that does not split in two;
- `pdb`: whether the `PdbPointer` line ending the table is at column 0,
  indented, or absent, and whether a newline follows it;
- `imageSize`: SizeOfImage; `relocBlank`: whether a relocation line is blank.

**State.** `pc`, the locals `Verbose`, `Arch`, `EntryPoint`, `Name`, `Size`,
`VMA`, `LMA`, `FileOffset`, `PeCoffEnd`, and `ln`, the line that `Index`
points to.

**Actions.** `ParseArgs`, `ReadEntryPoint`, `TableLine` (one iteration of
the table loop: a blank line ends the section with `EndSection`, a pair sets
a field with `SetField`, a bad line fails), `TableDone` (the SizeOfImage
test) and `Relocations`. Every `sys.exit` and every uncaught exception is a
final `pc`.

**Reference.** `TableOK` is the check the FAIL messages describe, applied to
every named section of the table: all fields present, VMA = file offset, the
entry point inside `.text`, and the image large enough.

## Runs

All runs set `CHECK_DEADLOCK FALSE`, because the program really stops: the
dump returns or raises.

| Run | Checks | Result |
|---|---|---|
| `registry` | `TypeOK`; `EntryIsCachedOrInProgress` (every entry into an index's constructor either made the cached section or is still on the call stack: a cached section is never built again, and re-entry happens only along a cycle of references); `CacheClosed` (a cached section's references are cached, and the ones used as string tables are string tables); `RegistryRefinesAbstract` | passes: 239,432 states, about 30 s |
| `registry_magic` | `MalformedContainerRejected` | violated: the loop at 528 checks 3 of the 4 signature bytes |
| `registry_sentinel` | `NoneSentinelNeverResolved` | violated: the gate at 805-806 lets PRINTF with string table -1 call `GetSection(-1)` |
| `registry_unknowntag` | `UnknownTagIsGeneric` | violated: tag ≥ 27 raises IndexError at 938 |
| `registry_unresolved` | `UnresolvedReferenceIsLocal` (spec 7: an unresolved reference is fatal to its record only, whether in a constructor or in `Show` of a DIFO header with no DIF link) | violated: a bad string-table reference ends the whole dump |
| `registry_dumplist` | `DumpListsTheTable` | violated: index `nsecs` is resolved, cached and shown |
| `disasm` | `TypeOK`; `VarAnnotationIsScoped` (a variable opcode names the table entry of its own scope, and names one whenever one exists) | passes: 32,918 states, about 6 s |
| `disasm_store` | `DecodingIsNeverFatal` (spec 4.4 and 7: out-of-range indices, absent tables included, and unknown opcodes are recovered locally) | violated with all three tables linked: `DisStore` (447) raises TypeError |
| `record_arrays` | `TypeOK`; `LinksReadExactly` (the `+1` and `(i-1)` cancel: exactly the link slots inside the section are read); `LinksAggregated` (spec 4.3: the disassembler gets, for each kind, the section of the last link slot inside the section naming that kind, or None; Show prints that index, 0 when none; disassembly starts only with a DIF section); `ProbesReportedAsDeclared` (spec 4.3 and 8: every probe of the array is shown in order, each signature "void" exactly when its offset reuses the function-name offset, else the string at the offset); `ActionsReportedAsResolved` (spec 4.3: every action is shown in order with exactly one argument, the string found in the table the record itself names when one was resolved, even an empty string, else the raw number) | passes: 480,559 states |
| `mtoc` | `TypeOK`; `VerdictComplete` (a correct image is never failed); `Termination` | passes: 177,992 states, about 15 s |
| `mtoc_stale` | `VerdictSound` (an image that passes meets every FAIL check) | violated: fields of an unnamed block fill in the next section's missing ones (147) |
| `mtoc_loop` | `Termination` | violated: an indented `PdbPointer` with no newline after it loops forever (169) |

`VerdictSound` fails for three more reasons, each a hazard in
`PROJECT.json`. `mtoc_stale` shows one counterexample. Narrowing its cfg
shows each of the others:
- `Docs <- MCGoodDocs`, `EntryVals = {4}`: an entry point at the end of
  `.text` passes (139).
- `Docs <- MCLastDocs`: a last section with no blank line after it is never
  checked (112).
- `Docs <- MCXipDocs`, `Pdbs <- MCAbsent`: without `PdbPointer` the loop
  never runs, and anything passes (96).

`UnresolvedReferenceIsLocal` also fails in two other cases:
- a DIFO header links no DIF section (880, raised in `Show` at 345);
- a provider's probe index names a string table, whose entry size is 0
  (ZeroDivisionError at 690).

`MalformedContainerRejected` also covers a missing `dof_hdr_t`: the model
checks that `DOF.__init__` still aborts, with AttributeError, after
`DOFHeader` returns early at 519. `DecodingIsNeverFatal` also fails
when a table is absent (381). These cases are hazards that the same
properties cover.

`VarAnnotationIsScoped` is checked against the DIF instruction set's own
opcode-to-scope table, `OpScope`, not against `Scope`.

Every property of a passing run has a mutant in `PROJECT.json` that breaks
it: a plausible bug in the mapped definition, such as an off-by-one loop
bound, a dropped cache test, a missing type check, or a missing increment.

## Bounds

**Registry.**
- `NSecs = 2`: two sections are enough for:
  - a diamond (two references to one section);
  - a self-cycle and a two-cycle;
  - a reference to a section later in the table;
  - a failing reference after a successful one.

  `NSecs = 3` takes over ten minutes.
- References may also name `-1` and `NSecs`.
- `MaxDepth = 4`: a cycle always reaches it within the table.
- The descriptors range over every constructor shape:
  - leaf tags DIF, STRTAB (entry size 0, as DTrace writes string tables),
    COMMENTS and an unknown tag;
  - providers, probe descriptions and DIFO headers over every index;
  - actions of kind EXIT, PRINTF or PRINTA, with entry size 0 or 1 and a
    string table of -1 or a table index.

**Disassembler.**
- Code is one or two words. The words are drawn to reach every handler
  class, the in-range and out-of-range branches of every table lookup, and an
  opcode past the table.
- One variable table declares the same id in two scopes, so a lookup by id
  alone would be wrong.
- Opcodes stay below 128, because TLC's integers are 32-bit signed.

**DIFO header layout.** Header type 12 bytes, index type 4 bytes (the
sizes of `dof_difohdr_t` and `dof_secidx_t`), every size from 0 to 48. The
sizes cover a section too short for any link, every remainder modulo 4, and
up to 10 links.

**Provider probes.** One string table holds the same string `f` at
offsets 0 and 7, the empty string at 1, and `void` at 2. The four records
cover these cases:
- a probe with no arguments;
- a signature string equal to the function name at another offset;
- a signature that reads `void`;
- an empty signature;
- a function name at offset 7.

Entry sizes are 0, 1 and 2, and array sizes range from 0 to 4. So the runs
include a division by zero, an array too short for one record, a remainder
that is cut off, and up to four probes. With two or more probes at stride
2, a stride error reads the wrong record.

**DIFO links.** Sizes run from 0 to 20 bytes, so there are up to three
link slots. Each slot names one of three sections, and each section is a DIF
section, a string table, an integer table or a comment section. This covers:
- no link of a kind;
- two links of one kind, where the later must win;
- a link to a section of no link kind;
- a DIFO header without DIF.

**ECB and probe descriptions.** The ECB of spec 8 (probe 2, predicate -1,
actions 5), an ECB with every index -1, and one probe description over the
provider string table.

**Action descriptions.** String-table indices are -1, 0 and 1, and the
two tables read differently at offset 0: one holds the empty string there,
the other `g`. The five records are:
- a printf whose argument is the empty string;
- a printf through the -1 sentinel;
- a `system()` with a string;
- a printa with no string table;
- an exit.

Entry sizes are 0, 1 and 2, and sizes range from 0 to 3, so up to three
actions are shown.

**mtoctest.** Tables of one or two sections, each with or without a
trailing blank line. The sections are a correct `.text` and `.data`, a
`.text` whose VMA differs from its file offset, a section missing its size
and a block without a Name line. Entry points 1-4 fall before, inside, at the
end of and past a two-byte `.text` at 2; SizeOfImage 5 and 6 are below and at
the end of the sections. The command lines cover no option, a known and an
unknown architecture, `-v`, `-h` and an unknown option. The violation runs
narrow these sets to the shape of their counterexample.

## Fairness

Only `MtocTest` assumes `WF_vars(Next)`: the script is one sequential
thread, so it always takes its next step while one is enabled, and its
section-table scan is a `while` loop whose end is a real question (the
`mtoc_loop` run shows it need not end). Every other module has no liveness
property and no fairness: their loops are Python `for` loops over finite
ranges, and the registry's recursion is bounded by `MaxDepth`, so their
termination says nothing about the code.

## Not modelled

- **Not modelled at all:**
  - the byte source (lldb reads);
  - field decoding and the printed text;
  - the generic `DOFSection` descriptor fields and `Show` line, and the
    header's `Show`. They are printing only. One observation: `action_strings` has `DTRACEACT_USYM`, `UMOD` and `UADDR`
    all equal to `DTRACEACT_PROC + 3`, so kind 0x103 prints `UADDR`. The
    header the constants come from is not in the repository, so this
    cannot be checked against it;
  - the extent of a probe record: an entry size below `sizeof(dof_probe_t)`
    makes reads overlap and run past the array (693). Records are abstracted
    to what is decoded at their offset;
  - the lldb command glue;
  - `src/src/Libraries/pthread/lldbmacros/init.py`: lldb macros that
    pretty-print kernel pthread structures. They hold no state beyond the
    debugger's, and their output depends on struct layouts the repository
    does not contain.
- **Abstracted in mtoctest:** the subprocess calls and the parsing of their
  text. Their results are the inputs above. Verbose printing is kept only
  where it can raise (`chunk[0]`).
- `DifoHdrProgram` takes the links it reads as input; the arithmetic that
  chooses them is checked separately in `DifoHdrLayout`.

## Observations

- A DIFO link kind that no slot names keeps its default index 0, so `Show`
  prints, for example, `INTTAB 0`. That names section 0 as if it were
  linked. `DOFSecIdxString` turns only -1 into `NONE`, and -1 is never the
  default. `LinksAggregated` records this behaviour. The spec says nothing
  about how an absent DIFO link is rendered.

## Further work

1. Feeding the sections `DifoLinks` hands over into `DIFDisassembler`, so that
   one run covers what a DIFO header links through to what its disassembly
   shows. Today the handoff is checked in `DifoLinks`, and the disassembly
   over every choice of tables in `DIFDisassembler`.
2. The ECB description. Its probe and action indices are stored but never
   resolved through `GetSection` (724-733), though spec 8 expects them to be
   resolved. `DescRecords` models the ECB as the code has it. Checking
   spec 8's statement against it would be a further violation run.
