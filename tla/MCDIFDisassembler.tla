------------------------- MODULE MCDIFDisassembler -------------------------
(* Model values for DIFDisassembler: one- and two-instruction DIF sections *)
(* over every handler, table indices in and out of range, and variable     *)
(* tables where one id is declared in two scopes.                          *)
EXTENDS DIFDisassembler

W(op, r1, r2, rd) == op * 2^24 + r1 * 2^16 + r2 * 2^8 + rd
W16(op, x, rd) == op * 2^24 + x * 2^8 + rd

Words ==
    {W16(37, k, 1) : k \in 0 .. 2}          \* setx DT_INTEGER[k]
    \cup {W16(38, k, 1) : k \in {0, 2, 9}}  \* sets DT_STRING[k]
    \cup {W16(op, 5, 1) : op \in {41, 42, 44, 56}} \* ldgs stgs ldts ldls
    \cup {W16(56, 6, 1), W(40, 5, 2, 1)}    \* ldls of another id, ldga
    \cup {W16(47, s, 1) : s \in {12, 99}}   \* call, known and unknown
    \cup {W(49, t, 2, 1) : t \in {1, 3}}    \* pushtv
    \cup {W(60, 1, 0, 2)}                   \* stb
    \cup {W(36, 0, 0, 0), W(7, 1, 2, 3)}    \* nop, add
    \cup {W(100, 0, 0, 0)}  \* past the opcode table (TLC integers stop at 2^31)

MCCodes == {<<w>> : w \in Words} \cup {<<w1, w2>> : w1, w2 \in Words}

MCIntTabs == {None, <<7, 255>>}
MCStrTabs == {None, <<97, 0, 98, 99, 0>>, <<97, 0, 98>>}
MCVarTabs == {None, <<>>,
    <<[id |-> 5, scope |-> DIFV_SCOPE_GLOBAL, name |-> 0],
      [id |-> 5, scope |-> DIFV_SCOPE_LOCAL, name |-> 2]>>,
    <<[id |-> 5, scope |-> DIFV_SCOPE_THREAD, name |-> 2]>>}

\* The tables of a DIFO header that linked all three.
MCLinkedIntTabs == MCIntTabs \ {None}
MCLinkedStrTabs == MCStrTabs \ {None}
MCLinkedVarTabs == MCVarTabs \ {None}
=============================================================================
