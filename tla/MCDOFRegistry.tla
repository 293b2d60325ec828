--------------------------- MODULE MCDOFRegistry ---------------------------
(* Model values for DOFRegistry: a table of NSecs sections whose           *)
(* descriptors range over every constructor shape, and references that may *)
(* name the -1 sentinel or the index just past the table.                  *)
EXTENDS DOFRegistry

RefIdx == TableIdx \cup OutIdx

(* A section with no record to decode; a string table is not an array of *)
(* entries, and DTrace writes its dofs_entsize as 0.                       *)
Leaf(t) == [type |-> t, entsize |-> IF t = 8 THEN 0 ELSE 1, refs |-> <<>>, acts |-> <<>>]

LeafDescs == {Leaf(1), Leaf(7), Leaf(8), Leaf(64)} \* COMMENTS, DIF, STRTAB, unnamed

ProbeDescDescs ==
    {[type |-> 4, entsize |-> 1, refs |-> <<s>>, acts |-> <<>>] : s \in RefIdx}

ProviderDescs ==
    {[type |-> 15, entsize |-> 1, refs |-> <<s, p, p, p>>, acts |-> <<>>] :
        s \in TableIdx, p \in TableIdx}

DifoHdrDescs ==
    {[type |-> 6, entsize |-> 1, refs |-> <<a, b>>, acts |-> <<>>] :
        a \in TableIdx, b \in TableIdx}

ActDescDescs ==
    {[type |-> 5, entsize |-> e, refs |-> <<>>,
      acts |-> <<[kind |-> k, strtab |-> s]>>] :
        e \in {0, 1}, k \in {DTRACEACT_EXIT, DTRACEACT_PRINTF, DTRACEACT_PRINTA},
        s \in {-1} \cup TableIdx}

MCTableDescs ==
    LeafDescs \cup ProbeDescDescs \cup ProviderDescs \cup DifoHdrDescs \cup ActDescDescs

MCGarbageDescs == {Leaf(1), Leaf(8), Leaf(64)}

MCOutIdx == {-1, NSecs}
MCIdents == {DofMagic}
MCMissing == {{}, {"dof_sec_t"}, {"dof_hdr_t"}, {"dof_probe_t"}}

(* Headers whose signature is intact, or corrupted in its first or last byte. *)
MCBadIdents == {DofMagic, <<0, 68, 79, 70>>, <<127, 68, 79, 0>>}
MCLeafTable == LeafDescs
MCActTable == LeafDescs \cup ActDescDescs
=============================================================================
