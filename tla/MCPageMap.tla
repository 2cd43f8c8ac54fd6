----------------------------- MODULE MCPageMap -----------------------------
(***************************************************************************)
(* PageMap on two address spaces, with two pages of memory each and one    *)
(* page of the window.                                                     *)
(***************************************************************************)
EXTENDS PageMap, TLC

CONSTANTS r1, r2, a, b, w, f1, f2, c, zero

Symmetry == Permutations({r1, r2}) \cup Permutations(Frames)

\* The old contents of a free page are never read.
Seen == <<pt, refs, live, [f \in Physical |-> IF f \in Free THEN Blank ELSE mem[f]]>>

\* Files are explored while the second page is not in use: an aliased page is
\* not a file's, so files and aliases meet only in the first step beyond.
FilesUsed ==
  \/ \E f \in FileFrames : refs[f] > 1 \/ mem[f] # Blank
  \/ \E r \in Roots, v \in FilePages : pt[r][v] # None /\ pt[r][v].file # "anon"
FilesApart == FilesUsed => \A r \in Roots, v \in HeapPages \ FilePages : pt[r][v] = None

\* Contents and pages without access are explored while no page has an alias or
\* was shared with one: which pages show a frame depends on neither.
Aliased == \E r \in Roots, v \in Pages : pt[r][v] # None /\ (pt[r][v].alias \/ pt[r][v].crossed)
AliasesApart ==
  Aliased => /\ \A f \in Physical : f \in Free \/ mem[f] = Blank
             /\ \A r \in Roots, v \in Pages : pt[r][v] # None => pt[r][v].present
=============================================================================
