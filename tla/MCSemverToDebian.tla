-------------------------- MODULE MCSemverToDebian --------------------------
(***************************************************************************)
(* Every field of at most two ranges with at most two comparators each.    *)
(***************************************************************************)
EXTENDS SemverToDebian

Ranges == {{a, b} : a \in Comparators, b \in Comparators}

SmallFields == {{}} \union {{r, s} : r \in Ranges, s \in Ranges}
=============================================================================
