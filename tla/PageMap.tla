------------------------------ MODULE PageMap ------------------------------
(***************************************************************************)
(* User page tables and physical page references of the x86_64 kernel      *)
(* (arch/x86/x86_64/page.c) under the VM calls of dos/mm/user_vm.c and     *)
(* user_vm_file.c: anonymous memory on a common zero page, copy on write   *)
(* after fork, private and shared file pages, write aliases of a page in   *)
(* its own address space, and pages shared with another task.              *)
(*                                                                         *)
(* Each call runs under the kernel lock and the mapping lock, so it is one *)
(* step; the flushes inside it are the subject of TlbShootdown.  Calls     *)
(* take one page (their loops repeat the step), except fork, exec and exit,*)
(* which take the whole table.  Execute permission, device pages and the   *)
(* table pages themselves are left out.                                    *)
(***************************************************************************)
EXTENDS Naturals, FiniteSets

CONSTANTS
  Roots,       \* address spaces
  HeapPages,   \* virtual pages below USER_HEAP_END
  FilePages,   \* those at which programs map files
  SharedPages, \* the window for pages shared by another task
  Frames,      \* physical pages given out by user_page_allocate
  Zero,        \* zero_page
  FileFrames,  \* pages of the file cache, which keeps a reference of its own
  Values,      \* contents of a page
  Blank,       \* all zeroes
  None

ASSUME PageMapAssumption ==
  /\ HeapPages \cap SharedPages = {} /\ FilePages \subseteq HeapPages
  /\ Zero \notin Frames \cup FileFrames /\ Frames \cap FileFrames = {}
  /\ Blank \in Values
  /\ IsFiniteSet(Roots) /\ IsFiniteSet(HeapPages) /\ IsFiniteSet(SharedPages)

Pages == HeapPages \cup SharedPages
Physical == Frames \cup FileFrames \cup {Zero}
Protections == {"none", "r", "rw"}

\* A leaf of the table: PTE_ADDRESS and the flags.  `file' tells the extent
\* of file_regions the page lies in.  `crossed' is history: the page had an
\* alias when it was shared.
Entries == [frame : Physical, present : BOOLEAN, write : BOOLEAN, cow : BOOLEAN,
            shared : BOOLEAN, alias : BOOLEAN, crossed : BOOLEAN,
            file : {"anon", "private", "shared"}]

ASSUME NoneAssumption == None \notin Entries

VARIABLES
  pt,   \* pt[root][page]
  refs, \* pages[].references
  mem,  \* contents of the physical pages
  live  \* roots in use

vars == <<pt, refs, mem, live>>

TypeOK ==
  /\ pt \in [Roots -> [Pages -> Entries \cup {None}]]
  /\ refs \in [Frames \cup FileFrames -> Nat]
  /\ mem \in [Physical -> Values]
  /\ live \in SUBSET Roots

-----------------------------------------------------------------------------
(* References.  The zero page is not counted. *)

Count(f, n) == [refs EXCEPT ![f] = n]
Retained(rc, f) == IF f = Zero THEN rc ELSE [rc EXCEPT ![f] = @ + 1]
Released(rc, e) == IF e = None \/ e.frame = Zero THEN rc
                   ELSE [rc EXCEPT ![e.frame] = @ - 1]

\* user_page_allocate returns a cleared page.
Free == {f \in Frames : refs[f] = 0}

Multiple(f) == f = Zero \/ refs[f] > 1

Put(r, v, e) == pt' = [pt EXCEPT ![r][v] = e]

-----------------------------------------------------------------------------
(* Mapping *)

\* A page that IPC shares can be neither replaced nor protected.
Changeable(e) == IF e = None THEN TRUE ELSE ~(e.shared /\ e.file = "anon")

\* arch_user_map_pages: the leaf for page f under a protection.
Leaf(f, prot, shared, file) ==
  [frame |-> f, present |-> prot # "none", write |-> prot = "rw" /\ shared,
   cow |-> prot = "rw" /\ ~shared, shared |-> shared, alias |-> FALSE,
   crossed |-> FALSE, file |-> file]

Mmap(r, v, f, prot, file) ==
  LET old == pt[r][v] IN
  /\ Changeable(old)
  /\ Put(r, v, Leaf(f, prot, file = "shared", file))
  /\ refs' = Released(Retained(refs, f), old)
  /\ UNCHANGED <<mem, live>>

\* VM_MAP, also in place of a mapping (VM_REPLACE).
MapAnonymous(r, v, prot) == Mmap(r, v, Zero, prot, "anon")
MapFile(r, v, f, prot, file) == Mmap(r, v, f, prot, file)

\* page_link.  Its callers see to it that the page is untouched: the loader
\* refuses segments that meet in a page, the heap grows into a free range.
PageLink(r, v, f) ==
  /\ pt[r][v] = None /\ f \in Free
  /\ Put(r, v, [Leaf(f, "rw", TRUE, "anon") EXCEPT !.shared = FALSE])
  /\ refs' = Count(f, 1)
  /\ mem' = [mem EXCEPT ![f] = Blank]
  /\ UNCHANGED live

\* VM_UNMAP
Unmap(r, v) ==
  /\ pt[r][v] # None
  /\ Put(r, v, None)
  /\ refs' = Released(refs, pt[r][v])
  /\ UNCHANGED <<mem, live>>

\* Mutant: the zero page is not taken for a page of several.
Protect_ZeroOwned(r, v, prot) ==
  LET e == pt[r][v]
      direct == \/ e.shared \/ e.alias
                \/ e.file = "anon" /\ (e.frame = Zero \/ refs[e.frame] = 1) IN
  /\ e # None /\ Changeable(e)
  /\ Put(r, v, [e EXCEPT !.present = prot # "none",
                         !.write = prot = "rw" /\ direct,
                         !.cow = prot = "rw" /\ ~direct])
  /\ UNCHANGED <<refs, mem, live>>

\* VM_PROTECT: write access returns as a copy on write unless the page is
\* meant to be written by several, or nobody else has it.
Protect(r, v, prot) ==
  LET e == pt[r][v]
      copied == \/ ~e.shared /\ e.file # "anon"
                \/ Multiple(e.frame)
      direct == e.shared \/ e.alias \/ ~copied IN
  /\ e # None /\ Changeable(e)
  /\ Put(r, v, [e EXCEPT !.present = prot # "none",
                         !.write = prot = "rw" /\ direct,
                         !.cow = prot = "rw" /\ ~direct])
  /\ UNCHANGED <<refs, mem, live>>

\* VM_DISCARD drops the contents and keeps the permissions.  A private file
\* page is mapped from the file again.
DiscardAnonymous(r, v) ==
  LET e == pt[r][v] IN
  /\ e # None /\ e.present /\ ~e.shared /\ e.file = "anon"
  /\ Put(r, v, [e EXCEPT !.frame = Zero, !.write = FALSE, !.alias = FALSE,
                         !.cow = @ \/ e.write])
  /\ refs' = Released(refs, e)
  /\ UNCHANGED <<mem, live>>

\* Mutant: the copy that the file page replaces is not released.
DiscardFile_Leaks(r, v, f) ==
  LET e == pt[r][v] IN
  /\ e # None /\ e.present /\ e.file = "private"
  /\ Put(r, v, Leaf(f, IF e.write \/ e.cow THEN "rw" ELSE "r", FALSE, "private"))
  /\ refs' = Retained(refs, f)
  /\ UNCHANGED <<mem, live>>

DiscardFile(r, v, f) ==
  LET e == pt[r][v] IN
  /\ e # None /\ e.present /\ e.file = "private"
  /\ Put(r, v, Leaf(f, IF e.write \/ e.cow THEN "rw" ELSE "r", FALSE, "private"))
  /\ refs' = Released(Retained(refs, f), e)
  /\ UNCHANGED <<mem, live>>

-----------------------------------------------------------------------------
(* Copy on write *)

\* The page of e becomes the caller's own: a copy if others have it.
\* f is the page that it has afterwards.
Owns(e, f) == IF Multiple(e.frame) THEN f \in Free ELSE f = e.frame
Own(e, f) == [e EXCEPT !.frame = f, !.write = @ \/ e.cow, !.cow = FALSE]
OwnRefs(e, f) == IF f = e.frame THEN refs ELSE Released(Count(f, 1), e)
\* Mutant: the new page keeps its zeroes.
Copied_Cleared(e, f) == IF f = e.frame THEN mem ELSE [mem EXCEPT ![f] = Blank]

Copied(e, f) == [mem EXCEPT ![f] = mem[e.frame]]

\* arch_page_fault_resolve for a write.
WriteFault(r, v, f) ==
  LET e == pt[r][v] IN
  /\ e # None /\ e.present /\ e.cow /\ ~e.write
  /\ Owns(e, f)
  /\ Put(r, v, Own(e, f))
  /\ refs' = OwnRefs(e, f)
  /\ mem' = Copied(e, f)
  /\ UNCHANGED live

\* A store by the program.
Store(r, v, x) ==
  /\ pt[r][v] # None /\ pt[r][v].present /\ pt[r][v].write
  /\ mem' = [mem EXCEPT ![pt[r][v].frame] = x]
  /\ UNCHANGED <<pt, refs, live>>

\* VM_ALIAS: a writable second address for the page at s.
Alias(r, s, d, f) ==
  LET e == pt[r][s]
      old == pt[r][d]
      own == Own(e, f) IN
  /\ s # d
  /\ e # None /\ e.present /\ ~e.shared /\ ~e.alias /\ e.file = "anon"
  /\ old # None => ~old.present /\ ~old.shared /\ ~old.alias /\ old.file = "anon"
  /\ Owns(e, f)
  /\ pt' = [pt EXCEPT
       ![r][s] = [own EXCEPT !.alias = TRUE],
       ![r][d] = [Leaf(own.frame, "rw", TRUE, "anon")
                    EXCEPT !.shared = FALSE, !.alias = TRUE]]
  /\ refs' = Released(Retained(OwnRefs(e, f), own.frame), old)
  /\ mem' = Copied(e, f)
  /\ UNCHANGED live

-----------------------------------------------------------------------------
(* Sharing with another task *)

\* arch_address_space_share: a page under COW is copied first, one that has an
\* alias is not refused.
Share(r, s, q, d, f) ==
  LET e == pt[r][s]
      src == [e EXCEPT !.frame = f, !.cow = FALSE, !.shared = TRUE, !.write = TRUE,
                       !.alias = @ /\ ~e.cow, !.crossed = (@ \/ e.alias) /\ ~e.cow] IN
  /\ e # None /\ e.present /\ (e.write \/ e.cow)
  /\ pt[q][d] = None
  /\ IF e.cow THEN f \in Free ELSE f = e.frame
  /\ pt' = [pt EXCEPT ![r][s] = src, ![q][d] = [src EXCEPT !.file = "anon"]]
  /\ refs' = Retained(OwnRefs(e, f), f)
  /\ mem' = Copied(e, f)
  /\ UNCHANGED live

\* arch_address_space_unmap_shared
UnmapShared(r, d) ==
  /\ pt[r][d] # None /\ pt[r][d].present /\ pt[r][d].shared
  /\ Put(r, d, None)
  /\ refs' = Released(refs, pt[r][d])
  /\ UNCHANGED <<mem, live>>

-----------------------------------------------------------------------------
(* Whole address spaces *)

Blanks == [v \in Pages |-> None]
Uses(r, S, f) == Cardinality({v \in S : pt[r][v] # None /\ pt[r][v].frame = f})

\* Mutant: the alias mark survives a fork.
Cow_KeepsAlias(e) ==
  IF e = None THEN None
  ELSE [e EXCEPT !.write = @ /\ e.shared, !.cow = @ \/ (e.write /\ ~e.shared)]

\* table_clone: what both sides of a fork have.
Cow(e) ==
  IF e = None THEN None
  ELSE [e EXCEPT !.alias = FALSE, !.write = @ /\ e.shared,
                 !.cow = @ \/ (e.write /\ ~e.shared)]
Cloned(r, S) == [v \in Pages |-> IF v \in S THEN Cow(pt[r][v]) ELSE pt[r][v]]

\* arch_address_space_clone
Fork(r, new) ==
  /\ pt' = [pt EXCEPT ![r] = Cloned(r, Pages), ![new] = Cloned(r, Pages)]
  /\ refs' = [f \in DOMAIN refs |-> refs[f] + Uses(r, Pages, f)]
  /\ live' = live \cup {new}
  /\ UNCHANGED mem

\* It runs out of memory after the leaves in S: the copy is destroyed, the
\* leaves it went through stay converted.
ForkFails(r, S) ==
  /\ pt' = [pt EXCEPT ![r] = Cloned(r, S)]
  /\ UNCHANGED <<refs, mem, live>>

\* arch_address_space_prepare_exec
Empty(r) ==
  /\ pt' = [pt EXCEPT ![r] = Blanks]
  /\ refs' = [f \in DOMAIN refs |-> refs[f] - Uses(r, Pages, f)]
  /\ UNCHANGED mem

Exec(r) == Empty(r) /\ UNCHANGED live

\* arch_address_space_release of the last reference
Exit(r) == Empty(r) /\ live' = live \ {r}

\* A program starts in an address space cloned from the kernel's.
Spawn(r) == live' = live \cup {r} /\ UNCHANGED <<pt, refs, mem>>

-----------------------------------------------------------------------------
Init ==
  /\ pt = [r \in Roots |-> Blanks]
  /\ refs = [f \in Frames \cup FileFrames |-> IF f \in FileFrames THEN 1 ELSE 0]
  /\ mem = [f \in Physical |-> Blank]
  /\ live = {}

PageNext(r, v) ==
  \/ \E prot \in Protections :
       \/ MapAnonymous(r, v, prot)
       \/ \E f \in FileFrames, file \in {"private", "shared"} :
            v \in FilePages /\ MapFile(r, v, f, prot, file)
       \/ Protect(r, v, prot)
  \/ Unmap(r, v)
  \/ DiscardAnonymous(r, v)
  \/ \E f \in FileFrames : DiscardFile(r, v, f)
  \/ \E f \in Frames : PageLink(r, v, f)
  \/ \E w \in HeapPages, f \in Frames : Alias(r, v, w, f)
  \/ \E q \in live, d \in SharedPages, f \in Frames \cup FileFrames : Share(r, v, q, d, f)

Next ==
  \/ \E r \in live :
       \/ \E v \in HeapPages : PageNext(r, v)
       \/ \E v \in Pages, f \in Frames : WriteFault(r, v, f)
       \/ \E v \in Pages, x \in Values : Store(r, v, x)
       \/ \E d \in SharedPages : UnmapShared(r, d)
       \/ \E new \in Roots \ live : Fork(r, new)
       \/ \E S \in SUBSET Pages : ForkFails(r, S)
       \/ Exec(r) \/ Exit(r)
  \/ \E r \in Roots \ live : Spawn(r)

Spec == Init /\ [][Next]_vars

-----------------------------------------------------------------------------
(* Properties *)

\* Two leaves that were meant to have the same writable page.  A fork that
\* fails half way may leave the alias mark on one view of the pair only.  A
\* page that was shared while it had an alias is shared as a whole: with it, the
\* other task has the alias as well.
Joined(r, e, q, o) ==
  \/ e.shared /\ o.shared
  \/ e.alias /\ r = q
  \/ e.shared /\ e.frame \in FileFrames
  \/ e.crossed \/ o.crossed

Writable(e) == e # None /\ e.present /\ e.write

\* A page that a program can write without a fault appears at no other
\* address, of this or another address space, unless it was shared or aliased
\* there on purpose: copy on write, fork, a failed fork and permissions taken
\* and given back add no view of it.  Pages that were shared while they had an
\* alias are exempt (see ForkSeparates).  The page is neither the zero page nor
\* a file's page mapped as a private one.
StoresContained ==
  /\ \A r \in Roots, v \in Pages :
       Writable(pt[r][v]) /\ pt[r][v].frame \notin Frames
       => pt[r][v].shared /\ pt[r][v].frame \in FileFrames
  /\ \A r, q \in Roots, v, w \in Pages :
       Writable(pt[r][v]) /\ pt[q][w] # None /\ <<r, v>> # <<q, w>>
         /\ pt[q][w].frame = pt[r][v].frame
       => Joined(r, pt[r][v], q, pt[q][w])

\* What doc/dynamic-linking.md:174 and the comment at page.c:337 say of
\* aliases: after a fork every view is copied on write on its own, so what a
\* process can write is seen by another process only where both share the
\* page, or where it is still an alias of a shared page.
ForkSeparates ==
  \A r, q \in Roots, v, w \in Pages :
    LET e == pt[r][v]
        o == pt[q][w] IN
    r # q /\ Writable(e) /\ o # None /\ o.frame = e.frame
    => \/ e.alias \/ o.alias
       \/ e.shared /\ (o.shared \/ e.frame \in FileFrames)

\* The common zero page stays zero.
ZeroPageZero == mem[Zero] = Blank

\* A physical page has as many references as there are leaves to it, and one
\* of the file cache: none is given out while in use, none is lost.
ReferencesExact ==
  \A f \in Frames \cup FileFrames :
    refs[f] = Cardinality({p \in Roots \X Pages : /\ pt[p[1]][p[2]] # None
                                                 /\ pt[p[1]][p[2]].frame = f})
              + (IF f \in FileFrames THEN 1 ELSE 0)

View(r, v) == IF pt[r][v] = None THEN None ELSE mem[pt[r][v].frame]

\* Faults, protection changes, aliasing, sharing and forks, also a fork that
\* fails half way, change no byte that any program sees at a mapped address:
\* a step that touches a page table changes the contents of an address only
\* where it maps the address anew, to zeroes, to a file page or, over a
\* reserved address, to an alias.
ContentsKept ==
  [][pt' # pt =>
       \A r \in Roots, v \in Pages :
         LET old == pt[r][v]
             new == pt'[r][v] IN
         old # None /\ new # None /\ mem'[new.frame] # mem[old.frame]
         => \/ new.frame \in FileFrames \cup {Zero}
            \/ ~old.present /\ new.alias]_vars
=============================================================================
