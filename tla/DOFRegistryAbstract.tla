------------------------ MODULE DOFRegistryAbstract ------------------------
(***************************************************************************)
(* What the DOF section registry promises its callers, with no call stack *)
(* and no constructors: a cache from section index to section object that *)
(* grows one entry at a time, where every entry is the variant its type    *)
(* tag dispatches to and is never rewritten, and a dump that completes     *)
(* only once every section of the table is in the cache.  The dump may     *)
(* fail at any point.                                                      *)
(***************************************************************************)
EXTENDS TLC

CONSTANTS
    Index,        \* every index a lookup may name
    TableIndex,   \* the indices of the section table
    Classes,      \* the section variants
    NoClass       \* the variant of an index whose type tag has no name

VARIABLES
    cls,          \* the variant each index dispatches to (fixed input)
    cache,        \* index -> variant of the cached object
    status        \* "running", "done" or "failed"

avars == <<cls, cache, status>>

AInit ==
    /\ cls \in [Index -> Classes \cup {NoClass}]
    /\ cache = <<>>
    /\ status = "running"

(* A section is decoded and cached, as the variant its tag names. *)
Resolve(i) ==
    /\ status = "running"
    /\ i \notin DOMAIN cache
    /\ cls[i] # NoClass
    /\ cache' = (i :> cls[i]) @@ cache
    /\ UNCHANGED <<cls, status>>

(* The dump completes, having decoded every section of the table. *)
Finish ==
    /\ status = "running"
    /\ TableIndex \subseteq DOMAIN cache
    /\ status' = "done"
    /\ UNCHANGED <<cls, cache>>

Fail ==
    /\ status = "running"
    /\ status' = "failed"
    /\ UNCHANGED <<cls, cache>>

ANext == (\E i \in Index : Resolve(i)) \/ Finish \/ Fail

ASpec == AInit /\ [][ANext]_avars

=============================================================================
