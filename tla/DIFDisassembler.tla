--------------------------- MODULE DIFDisassembler ---------------------------
(***************************************************************************)
(* DIFODisassembler of src/src/Tools/dtrace/scripts/dof.py: the loop of    *)
(* Disassemble over the instruction words of a DIF section, the opcode    *)
(* table, the operand-format handlers and the table lookups they make      *)
(* (integer table, string table, variable table by id and scope).         *)
(*                                                                         *)
(* The inputs are the four sections a DIFO header links; a missing one is *)
(* None, as DOFDifoHdrSection leaves it.  Each step decodes one word and  *)
(* records the annotation the handler prints after "!", or the exception  *)
(* it raises.  Register operands and layout are not recorded.             *)
(***************************************************************************)
EXTENDS Integers, Sequences, TLC, DOFStrTab

CONSTANTS
    Codes,      \* candidate DIF sections: sequences of 32-bit words
    IntTabs,    \* candidate integer tables: sequences of uint64, or None
    StrTabs,    \* candidate string tables: sequences of bytes, or None
    VarTabs,    \* candidate variable tables: sequences of dtrace_difv_t, or None
    None        \* Python None: the DIFO header linked no such section

(* Field extraction, DIF_INSTR_* of dof.py. *)
DIF_INSTR_OP(i) == (i \div 2^24) % 256
DIF_INSTR_R1(i) == (i \div 2^16) % 256
DIF_INSTR_VAR(i) == (i \div 2^8) % 2^16
DIF_INSTR_INTEGER(i) == (i \div 2^8) % 2^16
DIF_INSTR_STRING(i) == (i \div 2^8) % 2^16
DIF_INSTR_SUBR(i) == (i \div 2^8) % 2^16
DIF_INSTR_TYPE(i) == (i \div 2^16) % 256

DIFV_SCOPE_GLOBAL == 0
DIFV_SCOPE_THREAD == 1
DIFV_SCOPE_LOCAL == 2

(* The mnemonics of self.ops, indexed by opcode. *)
Mnemonics == <<"(illegal opcode)", "or", "xor", "and", "sll", "srl", "sub",
    "add", "mul", "sdiv", "udiv", "srem", "urem", "not", "mov", "cmp", "tst",
    "ba", "be", "bne", "bg", "bgu", "bge", "bgeu", "bl", "blu", "ble", "bleu",
    "ldsb", "ldsh", "ldsw", "ldub", "lduh", "lduw", "ldx", "ret", "nop",
    "setx", "sets", "scmp", "ldga", "ldgs", "stgs", "ldta", "ldts", "stts",
    "sra", "call", "pushtr", "pushtv", "popts", "flushts", "ldgaa", "ldtaa",
    "stgaa", "sttaa", "ldls", "stls", "allocs", "copys", "stb", "sth", "stw",
    "stx", "uldsb", "uldsh", "uldsw", "uldub", "ulduh", "ulduw", "uldx",
    "rldsb", "rldsh", "rldsw", "rldub", "rlduh", "rlduw", "rldx", "xlate",
    "xlarg">>

(* The handler self.ops gives each opcode. *)
Handler(op) ==
    CASE op \in {0, 36, 50, 51} -> "DisStr"
      [] op \in (1 .. 12) \cup {46, 59} -> "DisLog"
      [] op \in {13, 14, 58} -> "DisR1Rd"
      [] op \in {15, 39} -> "DisCmp"
      [] op = 16 -> "DisTst"
      [] op \in 17 .. 27 -> "DisBranch"
      [] op \in (28 .. 34) \cup (64 .. 77) -> "DisLoad"
      [] op = 35 -> "DisRet"
      [] op = 37 -> "DisSetX"
      [] op = 38 -> "DisSetS"
      [] op \in {40, 43} -> "DisLda"
      [] op \in {41, 44, 52, 53, 56} -> "DisLdv"
      [] op \in {42, 45, 54, 55, 57} -> "DisStv"
      [] op = 47 -> "DisCall"
      [] op \in {48, 49} -> "DisPushTs"
      [] op \in 60 .. 63 -> "DisStore"
      [] op \in {78, 79} -> "DisXlate"

(* subroutine_strings: DIF_SUBR ids 0..45, and Apple's 200..202. *)
SubroutineStrings ==
    [n \in 0 .. 45 |-> <<"rand", "mutex_owned", "mutex_owner",
        "mutex_type_adaptive", "mutex_type_spin", "rw_read_held",
        "rw_write_held", "rw_iswriter", "copyin", "copyinstr", "speculation",
        "progenyof", "strlen", "copyout", "copyoutstr", "alloca", "bcopy",
        "copyinto", "msgdsize", "msgsize", "getmajor", "getminor",
        "ddi_pathname", "strjoin", "lltostr", "basename", "dirname",
        "cleanpath", "strchr", "strrchr", "strstr", "strtok", "substr",
        "index", "rindex", "htons", "htonl", "htonll", "ntohs", "ntohl",
        "ntohll", "inet_ntop", "inet_nota", "inet_nota6", "toupper",
        "tolower">>[n + 1]]
    @@ (200 :> "vm_kernel_addrperm") @@ (201 :> "kdebug_trace")
    @@ (202 :> "kdebug_trace_string")

(* Mutant: the scope is read from the second character of the mnemonic. *)
ScopeSecondChar(name) ==
    CASE SubSeq(name, 2, 2) = "l" -> DIFV_SCOPE_LOCAL
      [] SubSeq(name, 2, 2) = "t" -> DIFV_SCOPE_THREAD
      [] SubSeq(name, 2, 2) = "g" -> DIFV_SCOPE_GLOBAL
      [] OTHER -> -1

(* Scope: the third character of the mnemonic names the variable scope. *)
Scope(name) ==
    CASE SubSeq(name, 3, 3) = "l" -> DIFV_SCOPE_LOCAL
      [] SubSeq(name, 3, 3) = "t" -> DIFV_SCOPE_THREAD
      [] SubSeq(name, 3, 3) = "g" -> DIFV_SCOPE_GLOBAL
      [] OTHER -> -1

(* '%d' of a non-negative integer: its decimal digits, most significant   *)
(* first, as digit values.                                                 *)
RECURSIVE Decimal(_)
Decimal(v) == IF v < 10 THEN <<v>> ELSE Decimal(v \div 10) \o <<v % 10>>

VARIABLES
    code, inttab, strtab, vartab,   \* the DIFO's sections (fixed input)
    pc,         \* "run", "done" or the exception Disassemble raised
    i,          \* the loop index of Disassemble
    out         \* per instruction: mnemonic and the annotation after "!"

input == <<code, inttab, strtab, vartab>>
vars == <<code, inttab, strtab, vartab, pc, i, out>>

NoNote == [kind |-> "none", val |-> <<>>]
Note(k, v) == [kind |-> k, val |-> v]
Ok(note) == [err |-> "", note |-> note]
Raise(e) == [err |-> e, note |-> NoNote]

(* VarName: a linear scan of the variable table for the first entry whose *)
(* (dtdv_id, dtdv_scope) pair matches; its name is read from the string  *)
(* table.                                                                  *)
VarName(vid, scope) ==
    IF vartab = None THEN Raise("AttributeError")
    ELSE LET m == SelectSeq(vartab, LAMBDA e : e.id = vid /\ e.scope = scope) IN
         CASE m = <<>> -> Ok(NoNote)
           [] strtab = None -> Raise("AttributeError")
           [] OTHER -> Ok(Note("var", GetString(strtab, m[1].name)))

(* DisSetX: the integer-table value, when the index is below int_len,     *)
(* printed with the format "0x%dx".                                        *)
DisSetX(w) ==
    CASE inttab = None -> Raise("AttributeError")
      [] DIF_INSTR_INTEGER(w) < Len(inttab) ->
            Ok(Note("int", Decimal(inttab[DIF_INSTR_INTEGER(w) + 1])))
      [] OTHER -> Ok(NoNote)

(* DisSetS: the string at the offset, when it is below the section size. *)
DisSetS(w) ==
    CASE strtab = None -> Raise("AttributeError")
      [] DIF_INSTR_STRING(w) < Len(strtab) ->
            Ok(Note("str", GetString(strtab, DIF_INSTR_STRING(w))))
      [] OTHER -> Ok(NoNote)

(* What the handler of opcode op prints after "!" for word w, or raises. *)
Dis(op, w) ==
    LET name == Mnemonics[op + 1] IN
    CASE Handler(op) = "DisSetX" -> DisSetX(w)
      [] Handler(op) = "DisSetS" -> DisSetS(w)
      [] Handler(op) = "DisLda" -> VarName(DIF_INSTR_R1(w), Scope(name))
      [] Handler(op) \in {"DisLdv", "DisStv"} ->
            VarName(DIF_INSTR_VAR(w), Scope(name))
      [] Handler(op) = "DisCall" ->
            Ok(Note("subr", IF DIF_INSTR_SUBR(w) \in DOMAIN SubroutineStrings
                            THEN SubroutineStrings[DIF_INSTR_SUBR(w)] ELSE ""))
      [] Handler(op) = "DisPushTs" ->
            Ok(IF DIF_INSTR_TYPE(w) <= 1
               THEN Note("type", <<"D type", "string">>[DIF_INSTR_TYPE(w) + 1])
               ELSE NoNote)
      \* DisStore formats three conversions with two arguments.
      [] Handler(op) = "DisStore" -> Raise("TypeError")
      [] OTHER -> Ok(NoNote)

Init ==
    /\ code \in Codes
    /\ inttab \in IntTabs
    /\ strtab \in StrTabs
    /\ vartab \in VarTabs
    /\ pc = "run"
    /\ i = 0
    /\ out = <<>>

(* Mutant: the annotation is not recorded. *)
DisassembleNextNoRecord ==
    /\ pc = "run"
    /\ i < Len(code)
    /\ LET w == code[i + 1]
           op == DIF_INSTR_OP(w)
           r == IF op < Len(Mnemonics) THEN Dis(op, w) ELSE Ok(NoNote)
       IN IF r.err # ""
             THEN pc' = r.err /\ UNCHANGED <<i, out>>
             ELSE i' = i + 1 /\ UNCHANGED <<pc, out>>
    /\ UNCHANGED input

(* One iteration of Disassemble: an opcode past the table prints an empty *)
(* line; any other is handed to its handler.                               *)
DisassembleNext ==
    /\ pc = "run"
    /\ i < Len(code)
    /\ LET w == code[i + 1]
           op == DIF_INSTR_OP(w)
           r == IF op < Len(Mnemonics) THEN Dis(op, w) ELSE Ok(NoNote)
       IN IF r.err # ""
             THEN pc' = r.err /\ UNCHANGED <<i, out>>
             ELSE /\ out' = Append(out, [op |-> op, note |-> r.note])
                  /\ i' = i + 1
                  /\ UNCHANGED pc
    /\ UNCHANGED input

DisassembleDone ==
    /\ pc = "run"
    /\ i = Len(code)
    /\ pc' = "done"
    /\ UNCHANGED <<input, i, out>>

Next == DisassembleNext \/ DisassembleDone

Spec == Init /\ [][Next]_vars

-----------------------------------------------------------------------------
NoteOK(nt) ==
    \/ nt.kind \in {"subr", "type"} /\ nt.val \in STRING
    \/ nt.kind \in {"none", "int", "str", "var"} /\ nt.val \in Seq(Nat)

TypeOK ==
    /\ pc \in {"run", "done", "TypeError", "AttributeError"}
    /\ i \in 0 .. Len(code)
    /\ \A n \in 1 .. Len(out) : out[n].op \in 0 .. 255 /\ NoteOK(out[n].note)
    /\ Len(out) = i

(* The scope each variable opcode of the DIF instruction set addresses,   *)
(* and the field holding its variable id (R1 for the array loads).        *)
OpScope == (40 :> DIFV_SCOPE_GLOBAL) @@ (41 :> DIFV_SCOPE_GLOBAL)
    @@ (42 :> DIFV_SCOPE_GLOBAL) @@ (52 :> DIFV_SCOPE_GLOBAL)
    @@ (54 :> DIFV_SCOPE_GLOBAL) @@ (43 :> DIFV_SCOPE_THREAD)
    @@ (44 :> DIFV_SCOPE_THREAD) @@ (45 :> DIFV_SCOPE_THREAD)
    @@ (53 :> DIFV_SCOPE_THREAD) @@ (55 :> DIFV_SCOPE_THREAD)
    @@ (56 :> DIFV_SCOPE_LOCAL) @@ (57 :> DIFV_SCOPE_LOCAL)
VarId(op, w) == IF op \in {40, 43} THEN DIF_INSTR_R1(w) ELSE DIF_INSTR_VAR(w)

(* A variable load or store is annotated with a name exactly when the    *)
(* variable table holds an entry with the instruction's id and the scope  *)
(* of its opcode, and then with the name of such an entry: an id shared   *)
(* by variables of another scope is never taken (VarName and Scope).      *)
VarAnnotationIsScoped ==
    \A n \in 1 .. Len(out) :
        LET op == out[n].op
            w == code[n]
            match(e) == e.id = VarId(op, w) /\ e.scope = OpScope[op]
        IN op \in DOMAIN OpScope =>
            /\ out[n].note.kind = "var" =>
                   \E k \in 1 .. Len(vartab) :
                       match(vartab[k]) /\ GetString(strtab, vartab[k].name) = out[n].note.val
            /\ (\E k \in 1 .. Len(vartab) : match(vartab[k])) => out[n].note.kind = "var"


-----------------------------------------------------------------------------
(* Statements of spec.md the code is checked against. *)

(* spec 4.4 and 7: no failure of the disassembler is fatal.  An index    *)
(* with no table entry to resolve it against (OutOfRange, which includes  *)
(* a table the DIFO header did not link and hands over as None) renders   *)
(* without an annotation, and an unknown opcode renders a placeholder;    *)
(* decoding continues.  So no operand-format handler raises, on a         *)
(* complete DIFO or an incomplete one.                                    *)
DecodingIsNeverFatal == pc \in {"run", "done"}

=============================================================================
