----------------------------- MODULE MCMtocTest -----------------------------
(* Model values for MtocTest: section tables of one or two sections drawn *)
(* from correct, misplaced, incomplete and unnamed ones, with and without *)
(* a blank line before PdbPointer, and the command lines main() handles.  *)
EXTENDS MtocTest

Opt(o, a) == [o |-> o, a |-> a]
Kv(k, v) == [k |-> k, v |-> v]
Bad == [k |-> "bad", v |-> 0]

(* A section efi-pecoff-util prints, in its order of keys. *)
Section(nm, sz, va, fo) ==
    <<Kv("Name", nm), Kv("VirtualSize", sz), Kv("VirtualAddress", va),
      Kv("PointerToRawData", fo), Kv("Characteristics", 0)>>

Text == Section(".text", 2, 2, 2)           \* .text at 2 .. 4
Data == Section(".data", 2, 4, 4)           \* .data at 4 .. 6
TextXip == Section(".text", 2, 2, 3)        \* address is not the offset
DataNoSize == <<Kv("Name", ".data"), Kv("VirtualAddress", 4),
                Kv("PointerToRawData", 4)>>
Unnamed == Tail(Data)                       \* fields without a Name line

Tables(G, T) ==
    {g \o t : g \in G, t \in T}
    \cup {g1 \o <<Blank>> \o g2 \o t : g1 \in G, g2 \in G, t \in T}

MCArgvs == {<<>>, <<Opt("-a", "i386")>>, <<Opt("-a", "x86_64"), Opt("-v", "")>>,
            <<Opt("-a", "ppc")>>, <<Opt("-h", "")>>, <<Opt("-x", "")>>}
MCDocs == Tables({Text, Data, TextXip, DataNoSize, Unnamed, <<Bad>>},
                 {<<>>, <<Blank>>})
MCPdbs == {[at |-> "col0", nl |-> TRUE], [at |-> "indented", nl |-> TRUE],
           [at |-> "absent", nl |-> TRUE]}

(* Correct and unnamed sections, each followed by a blank line. *)
MCStaleDocs == Tables({Text, Data, DataNoSize, Unnamed}, {<<Blank>>})
(* The last section of the table not followed by a blank line. *)
MCLastDocs == Tables({Text, Data, TextXip}, {<<>>})
(* Correct sections only. *)
MCGoodDocs == Tables({Text, Data}, {<<Blank>>})
MCArchArgv == {<<Opt("-a", "i386")>>}
MCNoNl == {[at |-> "indented", nl |-> FALSE]}
MCAbsent == {[at |-> "absent", nl |-> TRUE]}
(* A correct .text and one whose address is not its file offset. *)
MCXipDocs == Tables({Text, TextXip}, {<<Blank>>})
MCCol0 == {[at |-> "col0", nl |-> TRUE]}
=============================================================================
