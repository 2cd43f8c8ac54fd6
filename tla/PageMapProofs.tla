--------------------------- MODULE PageMapProofs ---------------------------
(***************************************************************************)
(* Proofs about PageMap, for any number of address spaces, pages, frames   *)
(* and files:                                                              *)
(*                                                                         *)
(*   ZeroPageKept       the common zero page is never written (ZeroInv);   *)
(*   ReferencesCounted  references count leaves exactly (RefInv: the count *)
(*                      of a page follows one leaf at a time);             *)
(*   StoresApart        a writable page is at one address unless it was    *)
(*                      shared or aliased on purpose (SafeInv: what two    *)
(*                      leaves of one page say of each other, writable or  *)
(*                      not; a page with one reference has one leaf);      *)
(*   ContentsStay       what programs see changes only by stores and new   *)
(*                      mappings;                                          *)
(*   TypesKept          types.                                             *)
(***************************************************************************)
EXTENDS PageMap, FiniteSetTheorems, TLAPS

Clean(e) == e.frame = Zero => ~e.write /\ ~e.shared /\ ~e.alias

Tables == pt \in [Roots -> [Pages -> Entries \cup {None}]]

ZeroInv ==
  /\ Tables
  /\ mem \in [Physical -> Values]
  /\ mem[Zero] = Blank
  /\ \A r \in Roots, v \in Pages : pt[r][v] # None => Clean(pt[r][v])

-----------------------------------------------------------------------------
(* The zero page: lemmas *)

\* A step that writes one leaf.
LEMMA PutKeeps ==
  ASSUME ZeroInv, NEW r \in Roots, NEW v \in Pages, NEW e \in Entries \cup {None},
         e # None => Clean(e), Put(r, v, e),
         mem' \in [Physical -> Values], mem'[Zero] = Blank
  PROVE  ZeroInv'
<1>1. pt' \in [Roots -> [Pages -> Entries \cup {None}]]
  BY DEF Put, ZeroInv, Tables
<1>2. \A q \in Roots, w \in Pages :
        pt'[q][w] = IF q = r /\ w = v THEN e ELSE pt[q][w]
  BY DEF Put, ZeroInv, Tables
<1>3. \A q \in Roots, w \in Pages : pt'[q][w] # None => Clean(pt'[q][w])
  BY <1>2 DEF ZeroInv
<1>. QED
  BY <1>1, <1>3 DEF ZeroInv, Tables

\* A step that writes two leaves, possibly of two address spaces.
LEMMA PutTwoKeeps ==
  ASSUME ZeroInv, NEW r \in Roots, NEW v \in Pages, NEW e \in Entries, Clean(e),
         NEW q \in Roots, NEW w \in Pages, NEW o \in Entries, Clean(o),
         pt' = [pt EXCEPT ![r][v] = e, ![q][w] = o],
         mem' \in [Physical -> Values], mem'[Zero] = Blank
  PROVE  ZeroInv'
<1>. DEFINE mid == [pt EXCEPT ![r] = [pt[r] EXCEPT ![v] = e]]
<1>1. mid \in [Roots -> [Pages -> Entries \cup {None}]]
  BY DEF ZeroInv, Tables
<1>2. \A p \in Roots, x \in Pages :
        mid[p][x] = IF p = r /\ x = v THEN e ELSE pt[p][x]
  BY DEF ZeroInv, Tables
<1>3. pt' = [mid EXCEPT ![q] = [mid[q] EXCEPT ![w] = o]]
  BY DEF ZeroInv, Tables
<1>. HIDE DEF mid
<1>4. pt' \in [Roots -> [Pages -> Entries \cup {None}]]
  <2>1. [mid[q] EXCEPT ![w] = o] \in [Pages -> Entries \cup {None}]
    BY <1>1
  <2>. QED
    BY <1>1, <1>3, <2>1
<1>5. \A p \in Roots, x \in Pages :
        pt'[p][x] = IF p = q /\ x = w THEN o ELSE mid[p][x]
  BY <1>1, <1>3
<1>6. \A p \in Roots, x \in Pages : mid[p][x] # None => Clean(mid[p][x])
  BY <1>2 DEF ZeroInv
<1>7. \A p \in Roots, x \in Pages : pt'[p][x] # None => Clean(pt'[p][x])
  BY ONLY <1>5, <1>6, Clean(o)
<1>. QED
  BY ONLY mem' \in [Physical -> Values], mem'[Zero] = Blank, <1>4, <1>7 DEF ZeroInv, Tables

LEMMA LeafClean ==
  ASSUME NEW f \in Physical, NEW prot, NEW shared \in BOOLEAN,
         NEW file \in {"anon", "private", "shared"}, f = Zero => ~shared
  PROVE  Leaf(f, prot, shared, file) \in Entries /\ Clean(Leaf(f, prot, shared, file))
BY DEF Leaf, Entries, Clean

LEMMA FramesPhysical == Frames \subseteq Physical /\ Zero \in Physical /\ Zero \notin Frames
                        /\ FileFrames \subseteq Physical /\ Zero \notin FileFrames
BY PageMapAssumption DEF Physical

\* What becomes the caller's own is not the zero page.
LEMMA OwnClean ==
  ASSUME NEW e \in Entries, Clean(e), NEW f \in Frames
  PROVE  Own(e, f) \in Entries /\ Own(e, f).frame = f
BY FramesPhysical DEF Own, Entries

LEMMA CopyKeepsZero ==
  ASSUME ZeroInv, NEW e \in Entries, NEW f \in Frames \cup FileFrames
  PROVE  Copied(e, f) \in [Physical -> Values] /\ Copied(e, f)[Zero] = Blank
BY FramesPhysical DEF Copied, ZeroInv, Entries

LEMMA CowClean ==
  ASSUME NEW e \in Entries \cup {None}, e # None => Clean(e)
  PROVE  Cow(e) \in Entries \cup {None} /\ (Cow(e) # None => Clean(Cow(e)))
BY DEF Cow, Entries, Clean

-----------------------------------------------------------------------------
(* The zero page: actions *)

LEMMA PageStep ==
  ASSUME ZeroInv, NEW r \in Roots, NEW v \in Pages
  PROVE  /\ \A prot : MapAnonymous(r, v, prot) => ZeroInv'
         /\ \A prot : \A f \in FileFrames, file \in {"private", "shared"} :
              MapFile(r, v, f, prot, file) => ZeroInv'
         /\ \A f \in Frames : PageLink(r, v, f) => ZeroInv'
         /\ Unmap(r, v) => ZeroInv'
         /\ \A prot : Protect(r, v, prot) => ZeroInv'
         /\ DiscardAnonymous(r, v) => ZeroInv'
         /\ \A f \in FileFrames : DiscardFile(r, v, f) => ZeroInv'
         /\ \A f \in Frames : WriteFault(r, v, f) => ZeroInv'
         /\ UnmapShared(r, v) => ZeroInv'
<1>. USE FramesPhysical
<1>0. /\ pt[r][v] \in Entries \cup {None} /\ (pt[r][v] # None => Clean(pt[r][v]))
      /\ mem \in [Physical -> Values] /\ mem[Zero] = Blank
  BY DEF ZeroInv, Tables
<1>1. ASSUME NEW prot, MapAnonymous(r, v, prot) PROVE ZeroInv'
  <2>1. Leaf(Zero, prot, FALSE, "anon") \in Entries /\ Clean(Leaf(Zero, prot, FALSE, "anon"))
    BY LeafClean
  <2>2. Put(r, v, Leaf(Zero, prot, FALSE, "anon")) /\ mem' = mem
    BY <1>1 DEF MapAnonymous, Mmap
  <2>. QED
    BY <1>0, <2>1, <2>2, PutKeeps
<1>2. ASSUME NEW prot, NEW f \in FileFrames, NEW file \in {"private", "shared"},
             MapFile(r, v, f, prot, file)
      PROVE  ZeroInv'
  <2>. DEFINE e == Leaf(f, prot, file = "shared", file)
  <2>1. e \in Entries /\ Clean(e)
    BY LeafClean
  <2>2. Put(r, v, e) /\ mem' = mem
    BY <1>2 DEF MapFile, Mmap
  <2>. QED
    BY <1>0, <2>1, <2>2, PutKeeps
<1>3. ASSUME NEW f \in Frames, PageLink(r, v, f) PROVE ZeroInv'
  <2>. DEFINE e == [Leaf(f, "rw", TRUE, "anon") EXCEPT !.shared = FALSE]
  <2>1. e \in Entries /\ Clean(e)
    BY DEF Leaf, Entries, Clean
  <2>2. mem' \in [Physical -> Values] /\ mem'[Zero] = Blank
    BY <1>0, <1>3, PageMapAssumption DEF PageLink
  <2>3. Put(r, v, e)
    BY <1>3 DEF PageLink
  <2>. QED
    BY <2>1, <2>2, <2>3, PutKeeps
<1>4. ASSUME Unmap(r, v) PROVE ZeroInv'
  BY <1>0, <1>4, PutKeeps DEF Unmap
<1>5. ASSUME NEW prot, Protect(r, v, prot) PROVE ZeroInv'
  <2>. DEFINE e == pt[r][v]
              copied == (~e.shared /\ e.file # "anon") \/ Multiple(e.frame)
              direct == e.shared \/ e.alias \/ ~copied
              new == [e EXCEPT !.present = prot # "none",
                               !.write = prot = "rw" /\ direct,
                               !.cow = prot = "rw" /\ ~direct]
  <2>1. e \in Entries /\ Clean(e)
    BY <1>0, <1>5 DEF Protect
  <2>2. e.frame = Zero => ~direct
    BY <2>1 DEF Clean, Multiple
  <2>3. new \in Entries /\ Clean(new)
    <3>. HIDE DEF direct
    <3>. QED BY <2>1, <2>2 DEF Entries, Clean
  <2>4. Put(r, v, new) /\ mem' = mem
    BY <1>5 DEF Protect
  <2>. QED
    BY <1>0, <2>3, <2>4, PutKeeps
<1>6. ASSUME DiscardAnonymous(r, v) PROVE ZeroInv'
  <2>. DEFINE e == pt[r][v]
              new == [e EXCEPT !.frame = Zero, !.write = FALSE, !.alias = FALSE,
                               !.cow = @ \/ e.write]
  <2>1. e \in Entries /\ ~e.shared
    BY <1>0, <1>6 DEF DiscardAnonymous
  <2>2. new \in Entries /\ Clean(new)
    BY <2>1 DEF Entries, Clean
  <2>3. Put(r, v, new) /\ mem' = mem
    BY <1>6 DEF DiscardAnonymous
  <2>. QED
    BY <1>0, <2>2, <2>3, PutKeeps
<1>7. ASSUME NEW f \in FileFrames, DiscardFile(r, v, f) PROVE ZeroInv'
  <2>. DEFINE e == pt[r][v]
              new == Leaf(f, IF e.write \/ e.cow THEN "rw" ELSE "r", FALSE, "private")
  <2>1. new \in Entries /\ Clean(new)
    BY LeafClean
  <2>2. Put(r, v, new) /\ mem' = mem
    BY <1>7 DEF DiscardFile
  <2>. QED
    BY <1>0, <2>1, <2>2, PutKeeps
<1>8. ASSUME NEW f \in Frames, WriteFault(r, v, f) PROVE ZeroInv'
  <2>. DEFINE e == pt[r][v]
  <2>1. e \in Entries /\ Clean(e)
    BY <1>0, <1>8 DEF WriteFault
  <2>2. Own(e, f) \in Entries /\ Clean(Own(e, f))
    BY <2>1, OwnClean DEF Clean
  <2>3. mem' \in [Physical -> Values] /\ mem'[Zero] = Blank
    BY <1>8, <2>1, CopyKeepsZero DEF WriteFault
  <2>4. Put(r, v, Own(e, f))
    BY <1>8 DEF WriteFault
  <2>. QED
    BY <2>2, <2>3, <2>4, PutKeeps
<1>9. ASSUME UnmapShared(r, v) PROVE ZeroInv'
  BY <1>0, <1>9, PutKeeps DEF UnmapShared
<1>. QED
  BY <1>1, <1>2, <1>3, <1>4, <1>5, <1>6, <1>7, <1>8, <1>9

LEMMA StoreStep ==
  ASSUME ZeroInv, NEW r \in Roots, NEW v \in Pages, NEW x \in Values, Store(r, v, x)
  PROVE  ZeroInv'
<1>1. pt[r][v] \in Entries /\ pt[r][v].frame # Zero
  BY DEF ZeroInv, Tables, Store, Clean
<1>2. mem' \in [Physical -> Values] /\ mem'[Zero] = Blank
  BY <1>1, FramesPhysical DEF Store, ZeroInv, Entries
<1>. QED
  BY <1>2 DEF Store, ZeroInv, Tables, Clean

LEMMA AliasStep ==
  ASSUME ZeroInv, NEW r \in Roots, NEW s \in Pages, NEW d \in Pages, NEW f \in Frames,
         Alias(r, s, d, f)
  PROVE  ZeroInv'
<1>. DEFINE e == pt[r][s]
            src == [Own(e, f) EXCEPT !.alias = TRUE]
            dst == [Leaf(Own(e, f).frame, "rw", TRUE, "anon")
                      EXCEPT !.shared = FALSE, !.alias = TRUE]
<1>1. e \in Entries /\ Clean(e)
  BY DEF ZeroInv, Tables, Alias
<1>2. Own(e, f) \in Entries /\ Own(e, f).frame = f /\ f \in Physical /\ f # Zero
  BY <1>1, OwnClean, FramesPhysical
<1>3. src \in Entries /\ Clean(src)
  BY <1>2 DEF Entries, Clean
<1>4. dst \in Entries /\ Clean(dst)
  BY <1>2 DEF Leaf, Entries, Clean
<1>5. pt' = [pt EXCEPT ![r][s] = src, ![r][d] = dst]
  BY DEF Alias
<1>6. mem' \in [Physical -> Values] /\ mem'[Zero] = Blank
  BY <1>1, CopyKeepsZero DEF Alias
<1>. HIDE DEF src, dst
<1>. QED
  BY <1>3, <1>4, <1>5, <1>6, PutTwoKeeps

LEMMA ShareStep ==
  ASSUME ZeroInv, NEW r \in Roots, NEW s \in Pages, NEW q \in Roots, NEW d \in Pages,
         NEW f \in Frames \cup FileFrames, Share(r, s, q, d, f)
  PROVE  ZeroInv'
<1>. DEFINE e == pt[r][s]
            src == [e EXCEPT !.frame = f, !.cow = FALSE, !.shared = TRUE,
                             !.write = TRUE, !.alias = @ /\ ~e.cow,
                             !.crossed = (@ \/ e.alias) /\ ~e.cow]
            dst == [src EXCEPT !.file = "anon"]
<1>1. e \in Entries
  BY DEF ZeroInv, Tables, Share
<1>2. f \in Physical /\ f # Zero
  BY FramesPhysical
<1>3. src \in Entries /\ Clean(src)
  BY <1>1, <1>2 DEF Entries, Clean
<1>4. dst \in Entries /\ Clean(dst)
  BY <1>1, <1>2 DEF Entries, Clean
<1>5. pt' = [pt EXCEPT ![r][s] = src, ![q][d] = dst]
  BY DEF Share
<1>6. mem' \in [Physical -> Values] /\ mem'[Zero] = Blank
  BY <1>1, CopyKeepsZero DEF Share
<1>. HIDE DEF src, dst
<1>. QED
  BY <1>3, <1>4, <1>5, <1>6, PutTwoKeeps

LEMMA ClonedClean ==
  ASSUME ZeroInv, NEW r \in Roots, NEW S \in SUBSET Pages
  PROVE  /\ Cloned(r, S) \in [Pages -> Entries \cup {None}]
         /\ \A v \in Pages : Cloned(r, S)[v] # None => Clean(Cloned(r, S)[v])
<1>1. \A v \in Pages : /\ pt[r][v] \in Entries \cup {None}
                       /\ pt[r][v] # None => Clean(pt[r][v])
  BY DEF ZeroInv, Tables
<1>2. \A v \in Pages : /\ Cow(pt[r][v]) \in Entries \cup {None}
                       /\ Cow(pt[r][v]) # None => Clean(Cow(pt[r][v]))
  BY <1>1, CowClean
<1>. QED
  BY <1>1, <1>2 DEF Cloned

\* A step that writes whole tables.
LEMMA TableKeeps ==
  ASSUME ZeroInv, NEW R \in SUBSET Roots, NEW t \in [Pages -> Entries \cup {None}],
         \A v \in Pages : t[v] # None => Clean(t[v]),
         pt' \in [Roots -> [Pages -> Entries \cup {None}]],
         \A q \in Roots : pt'[q] = IF q \in R THEN t ELSE pt[q],
         mem' = mem
  PROVE  ZeroInv'
BY DEF ZeroInv, Tables, Clean

LEMMA SpaceStep ==
  ASSUME ZeroInv, NEW r \in Roots
  PROVE  /\ \A new \in Roots : Fork(r, new) => ZeroInv'
         /\ \A S \in SUBSET Pages : ForkFails(r, S) => ZeroInv'
         /\ Empty(r) => ZeroInv'
         /\ Spawn(r) => ZeroInv'
<1>. USE DEF Tables
<1>1. ASSUME NEW new \in Roots, Fork(r, new) PROVE ZeroInv'
  <2>. DEFINE t == Cloned(r, Pages)
  <2>1. t \in [Pages -> Entries \cup {None}] /\ \A v \in Pages : t[v] # None => Clean(t[v])
    BY ClonedClean
  <2>2. pt' = [pt EXCEPT ![r] = t, ![new] = t] /\ mem' = mem
    BY <1>1 DEF Fork
  <2>. HIDE DEF t
  <2>3. /\ pt' \in [Roots -> [Pages -> Entries \cup {None}]]
        /\ \A q \in Roots : pt'[q] = IF q \in {r, new} THEN t ELSE pt[q]
    BY <2>1, <2>2 DEF ZeroInv
  <2>4. {r, new} \in SUBSET Roots
    OBVIOUS
  <2>. QED
    BY <2>1, <2>2, <2>3, <2>4, TableKeeps
<1>2. ASSUME NEW S \in SUBSET Pages, ForkFails(r, S) PROVE ZeroInv'
  <2>. DEFINE t == Cloned(r, S)
  <2>1. t \in [Pages -> Entries \cup {None}] /\ \A v \in Pages : t[v] # None => Clean(t[v])
    BY ClonedClean
  <2>2. pt' = [pt EXCEPT ![r] = t] /\ mem' = mem
    BY <1>2 DEF ForkFails
  <2>. HIDE DEF t
  <2>3. /\ pt' \in [Roots -> [Pages -> Entries \cup {None}]]
        /\ \A q \in Roots : pt'[q] = IF q \in {r} THEN t ELSE pt[q]
    BY <2>1, <2>2 DEF ZeroInv
  <2>4. {r} \in SUBSET Roots
    OBVIOUS
  <2>. QED
    BY <2>1, <2>2, <2>3, <2>4, TableKeeps
<1>3. ASSUME Empty(r) PROVE ZeroInv'
  <2>1. /\ Blanks \in [Pages -> Entries \cup {None}]
        /\ \A v \in Pages : Blanks[v] # None => Clean(Blanks[v])
    BY DEF Blanks
  <2>2. pt' = [pt EXCEPT ![r] = Blanks] /\ mem' = mem
    BY <1>3 DEF Empty
  <2>3. /\ pt' \in [Roots -> [Pages -> Entries \cup {None}]]
        /\ \A q \in Roots : pt'[q] = IF q \in {r} THEN Blanks ELSE pt[q]
    BY <2>1, <2>2 DEF ZeroInv
  <2>4. {r} \in SUBSET Roots
    OBVIOUS
  <2>. QED
    BY <2>1, <2>2, <2>3, <2>4, TableKeeps
<1>4. ASSUME Spawn(r) PROVE ZeroInv'
  BY <1>4 DEF Spawn, ZeroInv, Clean
<1>. QED
  BY <1>1, <1>2, <1>3, <1>4

-----------------------------------------------------------------------------
LEMMA NextKeeps ==
  ASSUME ZeroInv, live \subseteq Roots, [Next]_vars
  PROVE  ZeroInv' /\ live' \subseteq Roots
<1>. USE DEF Pages
<1>1. CASE UNCHANGED vars
  BY <1>1 DEF vars, ZeroInv, Tables, Clean
<1>2. ASSUME NEW r \in live, NEW v \in HeapPages, PageNext(r, v)
      PROVE  ZeroInv' /\ live' = live
  <2>1. r \in Roots /\ v \in Pages
    OBVIOUS
  <2>2. live' = live
    BY <1>2 DEF PageNext, MapAnonymous, MapFile, Mmap, Protect, Unmap, DiscardAnonymous,
                DiscardFile, PageLink, Alias, Share
  <2>3. ASSUME NEW w \in HeapPages, NEW f \in Frames, Alias(r, v, w, f) PROVE ZeroInv'
    BY <2>1, <2>3, AliasStep
  <2>4. ASSUME NEW q \in live, NEW d \in SharedPages, NEW f \in Frames \cup FileFrames,
               Share(r, v, q, d, f)
        PROVE  ZeroInv'
    <3>1. q \in Roots /\ d \in Pages
      OBVIOUS
    <3>. QED
      BY <2>1, <2>4, <3>1, ShareStep
  <2>5. ASSUME NEW prot \in Protections,
               \/ MapAnonymous(r, v, prot) \/ Protect(r, v, prot)
               \/ \E f \in FileFrames, file \in {"private", "shared"} :
                    v \in FilePages /\ MapFile(r, v, f, prot, file)
        PROVE  ZeroInv'
    BY <2>1, <2>5, PageStep
  <2>6. ASSUME \/ Unmap(r, v) \/ DiscardAnonymous(r, v)
               \/ \E f \in FileFrames : DiscardFile(r, v, f)
               \/ \E f \in Frames : PageLink(r, v, f)
        PROVE  ZeroInv'
    BY <2>1, <2>6, PageStep
  <2>. QED
    BY <1>2, <2>2, <2>3, <2>4, <2>5, <2>6 DEF PageNext
<1>3. ASSUME NEW r \in live,
             \/ \E v \in Pages, f \in Frames : WriteFault(r, v, f)
             \/ \E v \in Pages, x \in Values : Store(r, v, x)
             \/ \E d \in SharedPages : UnmapShared(r, d)
      PROVE  ZeroInv' /\ live' = live
  <2>1. r \in Roots
    OBVIOUS
  <2>2. live' = live
    BY <1>3 DEF WriteFault, Store, UnmapShared
  <2>. QED
    BY <1>3, <2>1, <2>2, PageStep, StoreStep
<1>4. ASSUME NEW r \in live,
             \/ \E new \in Roots \ live : Fork(r, new)
             \/ \E S \in SUBSET Pages : ForkFails(r, S)
             \/ Exec(r) \/ Exit(r)
      PROVE  ZeroInv' /\ live' \subseteq Roots
  <2>1. r \in Roots
    OBVIOUS
  <2>2. live' \subseteq Roots
    BY <1>4 DEF Fork, ForkFails, Exec, Exit
  <2>. QED
    BY <1>4, <2>1, <2>2, SpaceStep DEF Exec, Exit
<1>5. ASSUME NEW r \in Roots \ live, Spawn(r) PROVE ZeroInv' /\ live' \subseteq Roots
  BY <1>5, SpaceStep DEF Spawn
<1>. QED
  BY <1>1, <1>2, <1>3, <1>4, <1>5 DEF Next

LEMMA InitZero ==
  ASSUME Init
  PROVE  ZeroInv /\ live \subseteq Roots
<1>1. pt \in [Roots -> [Pages -> Entries \cup {None}]]
  BY DEF Init, Blanks
<1>2. \A r \in Roots, v \in Pages : pt[r][v] = None
  BY DEF Init, Blanks
<1>3. mem \in [Physical -> Values] /\ mem[Zero] = Blank
  BY PageMapAssumption, FramesPhysical DEF Init
<1>. QED
  BY <1>1, <1>2, <1>3 DEF ZeroInv, Tables, Init

\* The zero page that all untouched memory and all discarded memory maps is
\* never writable and stays zero, whatever the programs map, protect, alias,
\* share, fork and store (user_pages_change, arch_page_fault_resolve,
\* arch_user_alias, arch_address_space_share and table_clone).
THEOREM ZeroPageKept == Spec => []ZeroPageZero
<1>. DEFINE I == ZeroInv /\ live \subseteq Roots
<1>1. Init => I
  BY InitZero
<1>2. I /\ [Next]_vars => I'
  BY NextKeeps
<1>3. I => ZeroPageZero
  BY DEF ZeroInv, ZeroPageZero
<1>. QED
  BY <1>1, <1>2, <1>3, PTL DEF Spec

-----------------------------------------------------------------------------
(* Counting leaves.  The lemmas speak of any tables t and counts rc: a step *)
(* that writes two leaves goes through the table with one of them written.  *)

Counted == Frames \cup FileFrames
AllTables == [Roots -> [Pages -> Entries \cup {None}]]
Leaves(t, f) == {p \in Roots \X Pages : /\ t[p[1]][p[2]] # None
                                        /\ t[p[1]][p[2]].frame = f}
At(e, f) == IF e = None THEN 0 ELSE IF e.frame = f THEN 1 ELSE 0
Cache(f) == IF f \in FileFrames THEN 1 ELSE 0

Balanced(t, rc) ==
  /\ t \in AllTables
  /\ rc \in [Counted -> Nat]
  /\ \A f \in Counted : rc[f] = Cardinality(Leaves(t, f)) + Cache(f)

\* u is t with e at page v of root r.
Written(t, u, r, v, e) ==
  /\ u \in AllTables
  /\ \A q \in Roots, w \in Pages : u[q][w] = IF q = r /\ w = v THEN e ELSE t[q][w]

LEMMA LeavesFinite ==
  ASSUME NEW t, NEW f
  PROVE  IsFiniteSet(Leaves(t, f)) /\ Cardinality(Leaves(t, f)) \in Nat
<1>1. IsFiniteSet(Pages)
  BY PageMapAssumption, FS_Union DEF Pages
<1>2. IsFiniteSet(Roots \X Pages)
  BY <1>1, PageMapAssumption, FS_Product
<1>3. Leaves(t, f) \in SUBSET (Roots \X Pages)
  BY DEF Leaves
<1>. HIDE DEF Leaves
<1>4. IsFiniteSet(Leaves(t, f))
  BY <1>2, <1>3, FS_Subset
<1>. QED
  BY <1>4, FS_CardinalityType

\* A leaf written over another takes its place in the count.
LEMMA WrittenCount ==
  ASSUME NEW t \in AllTables, NEW u \in AllTables, NEW r \in Roots, NEW v \in Pages, NEW e,
         Written(t, u, r, v, e), NEW f
  PROVE  Cardinality(Leaves(u, f)) = Cardinality(Leaves(t, f)) + At(e, f) - At(t[r][v], f)
<1>. DEFINE x == <<r, v>>
            rest == Leaves(t, f) \ {x}
<1>0. x \in Roots \X Pages /\ x[1] = r /\ x[2] = v
  OBVIOUS
<1>1. x \in Leaves(t, f) <=> t[r][v] # None /\ t[r][v].frame = f
  BY <1>0 DEF Leaves
<1>2. x \in Leaves(u, f) <=> e # None /\ e.frame = f
  BY <1>0 DEF Leaves, Written
<1>3. Leaves(u, f) \ {x} = rest
  <2>1. ASSUME NEW p \in Roots \X Pages, p # x
        PROVE  u[p[1]][p[2]] = t[p[1]][p[2]]
    BY <2>1, <1>0 DEF Written
  <2>. QED
    BY <2>1 DEF Leaves
<1>4. /\ IsFiniteSet(Leaves(t, f)) /\ Cardinality(Leaves(t, f)) \in Nat
      /\ IsFiniteSet(Leaves(u, f)) /\ Cardinality(Leaves(u, f)) \in Nat
  BY LeavesFinite
<1>5. Cardinality(rest) = IF x \in Leaves(t, f) THEN Cardinality(Leaves(t, f)) - 1
                          ELSE Cardinality(Leaves(t, f))
  BY <1>4, FS_RemoveElement
<1>6. Cardinality(rest) = IF x \in Leaves(u, f) THEN Cardinality(Leaves(u, f)) - 1
                          ELSE Cardinality(Leaves(u, f))
  BY <1>3, <1>4, FS_RemoveElement
<1>. QED
  BY <1>1, <1>2, <1>4, <1>5, <1>6 DEF At

LEMMA WrittenBalanced ==
  ASSUME NEW t, NEW rc, Balanced(t, rc), NEW u, NEW d \in [Counted -> Int],
         NEW r \in Roots, NEW v \in Pages, NEW e, Written(t, u, r, v, e),
         \A f \in Counted : d[f] = rc[f] + At(e, f) - At(t[r][v], f)
  PROVE  Balanced(u, d)
<1>1. t \in AllTables /\ u \in AllTables
  BY DEF Balanced, Written
<1>2. ASSUME NEW f \in Counted
      PROVE  d[f] = Cardinality(Leaves(u, f)) + Cache(f) /\ d[f] \in Nat
  <2>1. Cardinality(Leaves(u, f)) = Cardinality(Leaves(t, f)) + At(e, f) - At(t[r][v], f)
    BY <1>1, WrittenCount
  <2>2. rc[f] = Cardinality(Leaves(t, f)) + Cache(f)
    BY DEF Balanced
  <2>3. Cardinality(Leaves(u, f)) \in Nat /\ Cardinality(Leaves(t, f)) \in Nat
    BY LeavesFinite
  <2>4. At(e, f) \in Nat /\ At(t[r][v], f) \in Nat /\ Cache(f) \in Nat
    BY DEF At, Cache
  <2>. QED
    BY <2>1, <2>2, <2>3, <2>4
<1>. QED
  BY <1>1, <1>2 DEF Balanced

\* A page without references is at no address.
LEMMA FreeUnmapped ==
  ASSUME NEW t, NEW rc, Balanced(t, rc), NEW f \in Counted, rc[f] = 0,
         NEW r \in Roots, NEW v \in Pages, t[r][v] # None
  PROVE  t[r][v].frame # f
<1>1. Cardinality(Leaves(t, f)) = 0
  BY LeavesFinite DEF Balanced, Cache
<1>2. Leaves(t, f) = {}
  BY <1>1, LeavesFinite, FS_EmptySet
<1>3. <<r, v>> \in Roots \X Pages /\ <<r, v>>[1] = r /\ <<r, v>>[2] = v
  OBVIOUS
<1>. QED
  BY <1>2, <1>3 DEF Leaves

\* A page that is not counted as one of several is at one address only, and
\* it is not a page of the file cache.
LEMMA SoleLeaf ==
  ASSUME NEW t, NEW rc, Balanced(t, rc), NEW f \in Counted, ~(rc[f] > 1),
         NEW r \in Roots, NEW v \in Pages, t[r][v] # None, t[r][v].frame = f
  PROVE  /\ f \notin FileFrames
         /\ \A q \in Roots, w \in Pages :
              t[q][w] # None /\ t[q][w].frame = f => q = r /\ w = v
<1>. DEFINE x == <<r, v>>
<1>0. x \in Roots \X Pages /\ x[1] = r /\ x[2] = v
  OBVIOUS
<1>1. x \in Leaves(t, f)
  BY <1>0 DEF Leaves
<1>2. IsFiniteSet(Leaves(t, f)) /\ Cardinality(Leaves(t, f)) \in Nat
  BY LeavesFinite
<1>3. /\ IsFiniteSet(Leaves(t, f) \ {x})
      /\ Cardinality(Leaves(t, f) \ {x}) = Cardinality(Leaves(t, f)) - 1
  BY <1>1, <1>2, FS_RemoveElement
<1>3a. Cardinality(Leaves(t, f) \ {x}) \in Nat
  BY <1>3, FS_CardinalityType
<1>4. rc[f] = Cardinality(Leaves(t, f)) + Cache(f) /\ rc[f] \in Nat
  BY DEF Balanced
<1>5. f \notin FileFrames /\ Cardinality(Leaves(t, f) \ {x}) = 0
  BY <1>2, <1>3, <1>3a, <1>4 DEF Cache
<1>6. Leaves(t, f) \ {x} = {}
  BY <1>3, <1>5, FS_EmptySet
<1>7. ASSUME NEW q \in Roots, NEW w \in Pages, t[q][w] # None, t[q][w].frame = f
      PROVE  q = r /\ w = v
  <2>1. <<q, w>> \in Roots \X Pages /\ <<q, w>>[1] = q /\ <<q, w>>[2] = w
    OBVIOUS
  <2>2. <<q, w>> \in Leaves(t, f)
    BY <1>7, <2>1 DEF Leaves
  <2>. QED
    BY <1>6, <2>2
<1>. QED
  BY <1>5, <1>7

-----------------------------------------------------------------------------
(* The leaves that the actions write *)

Linked(f) == [Leaf(f, "rw", TRUE, "anon") EXCEPT !.shared = FALSE]
Protected(e, prot, direct) ==
  [e EXCEPT !.present = prot # "none", !.write = prot = "rw" /\ direct,
            !.cow = prot = "rw" /\ ~direct]
Discarded(e) == [e EXCEPT !.frame = Zero, !.write = FALSE, !.alias = FALSE,
                          !.cow = @ \/ e.write]
Marked(e, f) == [Own(e, f) EXCEPT !.alias = TRUE]
Second(f) == [Leaf(f, "rw", TRUE, "anon") EXCEPT !.shared = FALSE, !.alias = TRUE]
Sent(e, f) == [e EXCEPT !.frame = f, !.cow = FALSE, !.shared = TRUE, !.write = TRUE,
                        !.alias = @ /\ ~e.cow, !.crossed = (@ \/ e.alias) /\ ~e.cow]
Received(e, f) == [Sent(e, f) EXCEPT !.file = "anon"]

LEMMA EntryFields ==
  ASSUME NEW e \in Entries
  PROVE  /\ e # None
         /\ e.frame \in Physical /\ e.present \in BOOLEAN /\ e.write \in BOOLEAN
         /\ e.cow \in BOOLEAN /\ e.shared \in BOOLEAN /\ e.alias \in BOOLEAN
         /\ e.crossed \in BOOLEAN
         /\ e.file \in {"anon", "private", "shared"}
BY NoneAssumption DEF Entries

LEMMA LinkedFields ==
  ASSUME NEW f \in Physical, NEW n, n = Linked(f)
  PROVE  /\ n \in Entries /\ n.frame = f /\ n.write /\ ~n.cow
         /\ ~n.shared /\ ~n.alias /\ ~n.crossed /\ n.file = "anon"
BY DEF Linked, Leaf, Entries

LEMMA ProtectedFields ==
  ASSUME NEW e \in Entries, NEW prot, NEW direct \in BOOLEAN,
         NEW n, n = Protected(e, prot, direct)
  PROVE  /\ n \in Entries /\ n.frame = e.frame
         /\ n.write = (prot = "rw" /\ direct) /\ n.cow = (prot = "rw" /\ ~direct)
         /\ n.shared = e.shared /\ n.alias = e.alias /\ n.crossed = e.crossed /\ n.file = e.file
BY DEF Protected, Entries

LEMMA DiscardedFields ==
  ASSUME NEW e \in Entries, NEW n, n = Discarded(e)
  PROVE  /\ n \in Entries /\ n.frame = Zero /\ ~n.write
         /\ n.shared = e.shared /\ n.crossed = e.crossed /\ ~n.alias
BY FramesPhysical DEF Discarded, Entries

LEMMA OwnFields ==
  ASSUME NEW e \in Entries, NEW f \in Physical, NEW n, n = Own(e, f)
  PROVE  /\ n \in Entries /\ n.frame = f /\ ~n.cow /\ n.write = (e.write \/ e.cow)
         /\ n.shared = e.shared /\ n.alias = e.alias /\ n.crossed = e.crossed /\ n.file = e.file
BY DEF Own, Entries

LEMMA MarkedFields ==
  ASSUME NEW e \in Entries, NEW f \in Physical, NEW n, n = Marked(e, f)
  PROVE  /\ n \in Entries /\ n.frame = f /\ ~n.cow
         /\ n.shared = e.shared /\ n.alias /\ n.crossed = e.crossed /\ n.file = e.file
<1>. DEFINE o == Own(e, f)
<1>1. /\ o \in Entries /\ o.frame = f /\ ~o.cow /\ o.shared = e.shared
      /\ o.crossed = e.crossed /\ o.file = e.file
  BY OwnFields
<1>2. n = [o EXCEPT !.alias = TRUE]
  BY DEF Marked
<1>. HIDE DEF o
<1>. QED
  BY <1>1, <1>2 DEF Entries

LEMMA SecondFields ==
  ASSUME NEW f \in Physical, NEW n, n = Second(f)
  PROVE  /\ n \in Entries /\ n.frame = f /\ ~n.cow
         /\ ~n.shared /\ n.alias /\ ~n.crossed /\ n.file = "anon"
BY DEF Second, Leaf, Entries

LEMMA SentFields ==
  ASSUME NEW e \in Entries, NEW f \in Physical, NEW n, n = Sent(e, f)
  PROVE  /\ n \in Entries /\ n.frame = f /\ ~n.cow /\ n.shared
         /\ n.alias = (e.alias /\ ~e.cow) /\ n.file = e.file
         /\ n.crossed = ((e.crossed \/ e.alias) /\ ~e.cow)
BY DEF Sent, Entries

LEMMA ReceivedFields ==
  ASSUME NEW e \in Entries, NEW f \in Physical, NEW n, n = Received(e, f)
  PROVE  /\ n \in Entries /\ n.frame = f /\ ~n.cow /\ n.shared
         /\ n.alias = (e.alias /\ ~e.cow)
         /\ n.crossed = ((e.crossed \/ e.alias) /\ ~e.cow)
<1>. DEFINE o == Sent(e, f)
<1>1. /\ o \in Entries /\ o.frame = f /\ ~o.cow /\ o.shared /\ o.alias = (e.alias /\ ~e.cow)
      /\ o.crossed = ((e.crossed \/ e.alias) /\ ~e.cow)
  BY SentFields
<1>2. n = [o EXCEPT !.file = "anon"]
  BY DEF Received
<1>. HIDE DEF o
<1>. QED
  BY <1>1, <1>2 DEF Entries

LEMMA CowFields ==
  ASSUME NEW e \in Entries, NEW n, n = Cow(e)
  PROVE  /\ n \in Entries /\ n.frame = e.frame /\ n.write = (e.write /\ e.shared)
         /\ n.cow = (e.cow \/ (e.write /\ ~e.shared))
         /\ n.shared = e.shared /\ ~n.alias /\ n.crossed = e.crossed /\ n.file = e.file
BY NoneAssumption DEF Cow, Entries

-----------------------------------------------------------------------------
(* References *)

Ints == [Counted -> Int]
One(f, g) == IF f = g THEN 1 ELSE 0

LEMMA RetainedCount ==
  ASSUME NEW rc \in Ints, NEW f \in Physical, NEW d, d = Retained(rc, f)
  PROVE  d \in Ints /\ \A g \in Counted : d[g] = rc[g] + One(f, g)
BY FramesPhysical DEF Retained, Ints, One, Counted, Physical

LEMMA ReleasedCount ==
  ASSUME NEW rc \in Ints, NEW e \in Entries \cup {None}, NEW d, d = Released(rc, e)
  PROVE  d \in Ints /\ \A g \in Counted : d[g] = rc[g] - At(e, g)
<1>1. CASE e = None
  BY <1>1 DEF Released, Ints, At
<1>2. CASE e # None /\ e.frame = Zero
  BY <1>2, FramesPhysical DEF Released, Ints, At, Counted
<1>3. CASE e # None /\ e.frame # Zero
  <2>1. e.frame \in Counted
    BY <1>3, EntryFields DEF Counted, Physical
  <2>2. d = [rc EXCEPT ![e.frame] = @ - 1]
    BY <1>3 DEF Released
  <2>. QED
    BY <1>3, <2>1, <2>2 DEF Ints, At
<1>. QED
  BY <1>1, <1>2, <1>3

LEMMA OwnRefsCount ==
  ASSUME refs \in Ints, NEW e \in Entries, NEW f \in Counted, f = e.frame \/ refs[f] = 0,
         NEW d, d = OwnRefs(e, f)
  PROVE  d \in Ints /\ \A g \in Counted : d[g] = refs[g] + One(f, g) - At(e, g)
<1>0. e # None
  BY EntryFields
<1>1. CASE f = e.frame
  BY <1>0, <1>1 DEF OwnRefs, Ints, At, One
<1>2. CASE f # e.frame
  <2>. DEFINE c == Count(f, 1)
  <2>1. c \in Ints /\ \A g \in Counted : c[g] = refs[g] + One(f, g)
    BY <1>2 DEF Count, Ints, One
  <2>2. d = Released(c, e)
    BY <1>2 DEF OwnRefs
  <2>. HIDE DEF c
  <2>3. d \in Ints /\ \A g \in Counted : d[g] = c[g] - At(e, g)
    BY <2>1, <2>2, ReleasedCount
  <2>. QED
    BY <2>1, <2>3 DEF Ints, At, One
<1>. QED
  BY <1>1, <1>2

LEMMA AtFrame ==
  ASSUME NEW e \in Entries, NEW f
  PROVE  At(e, f) = One(e.frame, f)
BY EntryFields DEF At, One

LEMMA BalancedTypes ==
  ASSUME Balanced(pt, refs), NEW r \in Roots, NEW v \in Pages
  PROVE  /\ refs \in Ints /\ pt \in AllTables /\ pt[r][v] \in Entries \cup {None}
         /\ pt[r][v] # None => pt[r][v] \in Entries
         /\ \A g \in Counted : At(pt[r][v], g) \in Int
BY DEF Balanced, Ints, AllTables, At

LEMMA PutWritten ==
  ASSUME pt \in AllTables, NEW r \in Roots, NEW v \in Pages, NEW e \in Entries \cup {None},
         Put(r, v, e)
  PROVE  Written(pt, pt', r, v, e)
BY DEF Put, Written, AllTables

LEMMA TwoWritten ==
  ASSUME pt \in AllTables, NEW r \in Roots, NEW v \in Pages, NEW e \in Entries,
         NEW q \in Roots, NEW w \in Pages, NEW o \in Entries,
         pt' = [pt EXCEPT ![r][v] = e, ![q][w] = o]
  PROVE  \E mid \in AllTables : Written(pt, mid, r, v, e) /\ Written(mid, pt', q, w, o)
<1>. DEFINE mid == [pt EXCEPT ![r] = [pt[r] EXCEPT ![v] = e]]
<1>. USE DEF AllTables
<1>1. mid \in AllTables
  OBVIOUS
<1>2. \A p \in Roots, x \in Pages :
        mid[p][x] = IF p = r /\ x = v THEN e ELSE pt[p][x]
  OBVIOUS
<1>3. pt' = [mid EXCEPT ![q] = [mid[q] EXCEPT ![w] = o]]
  OBVIOUS
<1>. HIDE DEF mid
<1>4. pt' \in AllTables
  <2>1. [mid[q] EXCEPT ![w] = o] \in [Pages -> Entries \cup {None}]
    BY <1>1
  <2>. QED
    BY <1>1, <1>3, <2>1
<1>5. \A p \in Roots, x \in Pages :
        pt'[p][x] = IF p = q /\ x = w THEN o ELSE mid[p][x]
  BY <1>1, <1>3
<1>. HIDE DEF AllTables
<1>. QED
  BY <1>1, <1>2, <1>4, <1>5 DEF Written

LEMMA PutBalanced ==
  ASSUME Balanced(pt, refs), NEW r \in Roots, NEW v \in Pages,
         NEW e \in Entries \cup {None}, Put(r, v, e), refs' \in Ints,
         \A f \in Counted : refs'[f] = refs[f] + At(e, f) - At(pt[r][v], f)
  PROVE  Balanced(pt', refs')
<1>1. Written(pt, pt', r, v, e)
  BY PutWritten, BalancedTypes
<1>. QED
  BY <1>1, WrittenBalanced DEF Ints

LEMMA PutTwoBalanced ==
  ASSUME Balanced(pt, refs), NEW r \in Roots, NEW v \in Pages, NEW e \in Entries,
         NEW q \in Roots, NEW w \in Pages, NEW o \in Entries, q = r => w # v,
         NEW mid \in AllTables, Written(pt, mid, r, v, e), Written(mid, pt', q, w, o),
         refs' \in Ints,
         \A f \in Counted : refs'[f] = refs[f] + One(e.frame, f) - At(pt[r][v], f)
                                       + One(o.frame, f) - At(pt[q][w], f)
  PROVE  Balanced(pt', refs')
<1>. DEFINE d == [f \in Counted |-> refs[f] + At(e, f) - At(pt[r][v], f)]
<1>0. \A f \in Counted : /\ At(e, f) = One(e.frame, f) /\ At(o, f) = One(o.frame, f)
                         /\ At(e, f) \in Int /\ At(o, f) \in Int
  BY AtFrame DEF One
<1>0a. \A f \in Counted : /\ At(pt[r][v], f) \in Int /\ At(pt[q][w], f) \in Int
                          /\ refs[f] \in Int
  BY BalancedTypes DEF Ints
<1>2. d \in [Counted -> Int] /\ \A f \in Counted : d[f] = refs[f] + At(e, f) - At(pt[r][v], f)
  BY <1>0, <1>0a
<1>. HIDE DEF d
<1>3. Balanced(mid, d)
  BY <1>2, WrittenBalanced
<1>4. mid[q][w] = pt[q][w]
  BY DEF Written
<1>5. \A f \in Counted : refs'[f] = d[f] + At(o, f) - At(mid[q][w], f)
  BY <1>0, <1>0a, <1>2, <1>4
<1>. QED
  BY <1>3, <1>5, WrittenBalanced DEF Ints

\* A page that becomes the caller's own is its own already or a free one.
LEMMA OwnsFree ==
  ASSUME NEW e \in Entries, NEW f \in Frames, Owns(e, f)
  PROVE  f \in Counted /\ (f = e.frame \/ refs[f] = 0)
BY DEF Owns, Free, Counted

LEMMA MmapBalanced ==
  ASSUME Balanced(pt, refs), NEW r \in Roots, NEW v \in Pages, NEW f \in Physical, NEW prot,
         NEW file \in {"anon", "private", "shared"}, Mmap(r, v, f, prot, file)
  PROVE  Balanced(pt', refs')
<1>. DEFINE n == Leaf(f, prot, file = "shared", file)
            d == Retained(refs, f)
<1>1. n \in Entries /\ n.frame = f
  BY DEF Leaf, Entries
<1>2. refs \in Ints /\ pt[r][v] \in Entries \cup {None}
      /\ \A g \in Counted : At(pt[r][v], g) \in Int
  BY BalancedTypes
<1>3. d \in Ints /\ \A g \in Counted : d[g] = refs[g] + One(f, g)
  BY <1>2, RetainedCount
<1>4. refs' = Released(d, pt[r][v]) /\ Put(r, v, n)
  BY DEF Mmap
<1>. HIDE DEF n, d
<1>5. refs' \in Ints /\ \A g \in Counted : refs'[g] = d[g] - At(pt[r][v], g)
  BY <1>2, <1>3, <1>4, ReleasedCount
<1>6. \A g \in Counted : At(n, g) = One(f, g)
  BY <1>1, AtFrame
<1>7. \A g \in Counted : refs'[g] = refs[g] + At(n, g) - At(pt[r][v], g)
  BY <1>2, <1>3, <1>5, <1>6 DEF Ints, One
<1>. QED
  BY <1>1, <1>4, <1>5, <1>7, PutBalanced

LEMMA PageBalanced ==
  ASSUME Balanced(pt, refs), NEW r \in Roots, NEW v \in Pages
  PROVE  /\ \A prot : MapAnonymous(r, v, prot) => Balanced(pt', refs')
         /\ \A prot : \A f \in FileFrames, file \in {"private", "shared"} :
              MapFile(r, v, f, prot, file) => Balanced(pt', refs')
         /\ \A f \in Frames : PageLink(r, v, f) => Balanced(pt', refs')
         /\ Unmap(r, v) \/ UnmapShared(r, v) => Balanced(pt', refs')
         /\ \A prot : Protect(r, v, prot) => Balanced(pt', refs')
         /\ DiscardAnonymous(r, v) => Balanced(pt', refs')
         /\ \A f \in FileFrames : DiscardFile(r, v, f) => Balanced(pt', refs')
         /\ \A f \in Frames : WriteFault(r, v, f) => Balanced(pt', refs')
<1>. DEFINE e == pt[r][v]
<1>0. /\ refs \in Ints /\ e \in Entries \cup {None} /\ (e # None => e \in Entries)
      /\ \A g \in Counted : At(e, g) \in Int /\ refs[g] \in Int
  BY BalancedTypes DEF Ints
<1>1. ASSUME NEW prot, MapAnonymous(r, v, prot) PROVE Balanced(pt', refs')
  BY <1>1, MmapBalanced, FramesPhysical DEF MapAnonymous
<1>2. ASSUME NEW prot, NEW f \in FileFrames, NEW file \in {"private", "shared"},
             MapFile(r, v, f, prot, file)
      PROVE  Balanced(pt', refs')
  BY <1>2, MmapBalanced, FramesPhysical DEF MapFile
<1>3. ASSUME NEW f \in Frames, PageLink(r, v, f) PROVE Balanced(pt', refs')
  <2>. DEFINE n == Linked(f)
  <2>1. n \in Entries /\ n.frame = f
    BY LinkedFields, FramesPhysical
  <2>2. Put(r, v, n) /\ refs' = Count(f, 1) /\ e = None /\ f \in Counted /\ refs[f] = 0
    BY <1>3 DEF PageLink, Linked, Counted, Free
  <2>. HIDE DEF n
  <2>3. \A g \in Counted : At(n, g) = One(f, g) /\ At(e, g) = 0
    BY <2>1, <2>2, AtFrame DEF At
  <2>4. refs' \in Ints /\ \A g \in Counted : refs'[g] = refs[g] + At(n, g) - At(e, g)
    BY <1>0, <2>2, <2>3 DEF Count, Ints, One
  <2>. QED
    BY <2>1, <2>2, <2>4, PutBalanced
<1>4. ASSUME Unmap(r, v) \/ UnmapShared(r, v) PROVE Balanced(pt', refs')
  <2>1. Put(r, v, None) /\ refs' = Released(refs, e)
    BY <1>4 DEF Unmap, UnmapShared
  <2>2. refs' \in Ints /\ \A g \in Counted : refs'[g] = refs[g] - At(e, g)
    BY <1>0, <2>1, ReleasedCount
  <2>3. \A g \in Counted : refs'[g] = refs[g] + At(None, g) - At(e, g)
    BY <1>0, <2>2 DEF At
  <2>. QED
    BY <2>1, <2>2, <2>3, PutBalanced
<1>5. ASSUME NEW prot, Protect(r, v, prot) PROVE Balanced(pt', refs')
  <2>. DEFINE direct == e.shared \/ e.alias
                        \/ ~((~e.shared /\ e.file # "anon") \/ Multiple(e.frame))
              n == Protected(e, prot, direct)
  <2>1. e \in Entries /\ direct \in BOOLEAN
    BY <1>0, <1>5 DEF Protect
  <2>2. Put(r, v, n) /\ refs' = refs
    BY <1>5 DEF Protect, Protected
  <2>. HIDE DEF direct
  <2>3. n \in Entries /\ n.frame = e.frame
    BY <2>1, ProtectedFields
  <2>. HIDE DEF n
  <2>4. \A g \in Counted : At(n, g) = At(e, g)
    BY <2>1, <2>3, AtFrame
  <2>5. \A g \in Counted : refs'[g] = refs[g] + At(n, g) - At(e, g)
    BY <1>0, <2>2, <2>4
  <2>. QED
    BY <1>0, <2>2, <2>3, <2>5, PutBalanced
<1>6. ASSUME DiscardAnonymous(r, v) PROVE Balanced(pt', refs')
  <2>. DEFINE n == Discarded(e)
  <2>1. e \in Entries
    BY <1>0, <1>6 DEF DiscardAnonymous
  <2>2. Put(r, v, n) /\ refs' = Released(refs, e)
    BY <1>6 DEF DiscardAnonymous, Discarded
  <2>3. n \in Entries /\ n.frame = Zero
    BY <2>1, DiscardedFields
  <2>. HIDE DEF n
  <2>4. refs' \in Ints /\ \A g \in Counted : refs'[g] = refs[g] - At(e, g)
    BY <1>0, <2>2, ReleasedCount
  <2>5. \A g \in Counted : At(n, g) = 0
    BY <2>3, FramesPhysical, AtFrame DEF One, Counted
  <2>6. \A g \in Counted : refs'[g] = refs[g] + At(n, g) - At(e, g)
    BY <1>0, <2>4, <2>5
  <2>. QED
    BY <2>2, <2>3, <2>4, <2>6, PutBalanced
<1>7. ASSUME NEW f \in FileFrames, DiscardFile(r, v, f) PROVE Balanced(pt', refs')
  <2>. DEFINE prot == IF e.write \/ e.cow THEN "rw" ELSE "r"
              n == Leaf(f, prot, FALSE, "private")
              d == Retained(refs, f)
  <2>1. Put(r, v, n) /\ refs' = Released(d, e)
    BY <1>7 DEF DiscardFile
  <2>. HIDE DEF prot
  <2>2. n \in Entries /\ n.frame = f
    BY FramesPhysical DEF Leaf, Entries
  <2>3. d \in Ints /\ \A g \in Counted : d[g] = refs[g] + One(f, g)
    BY <1>0, RetainedCount, FramesPhysical
  <2>. HIDE DEF n, d
  <2>4. refs' \in Ints /\ \A g \in Counted : refs'[g] = d[g] - At(e, g)
    BY <1>0, <2>1, <2>3, ReleasedCount
  <2>5. \A g \in Counted : At(n, g) = One(f, g)
    BY <2>2, AtFrame
  <2>6. \A g \in Counted : refs'[g] = refs[g] + At(n, g) - At(e, g)
    BY <1>0, <2>3, <2>4, <2>5 DEF One
  <2>. QED
    BY <2>1, <2>2, <2>4, <2>6, PutBalanced
<1>8. ASSUME NEW f \in Frames, WriteFault(r, v, f) PROVE Balanced(pt', refs')
  <2>. DEFINE n == Own(e, f)
  <2>1. e \in Entries
    BY <1>0, <1>8 DEF WriteFault
  <2>2. Put(r, v, n) /\ refs' = OwnRefs(e, f) /\ Owns(e, f)
    BY <1>8 DEF WriteFault
  <2>3. n \in Entries /\ n.frame = f
    BY <2>1, OwnFields, FramesPhysical
  <2>. HIDE DEF n
  <2>4. refs' \in Ints /\ \A g \in Counted : refs'[g] = refs[g] + One(f, g) - At(e, g)
    BY <1>0, <2>1, <2>2, OwnsFree, OwnRefsCount
  <2>5. \A g \in Counted : At(n, g) = One(f, g)
    BY <2>3, AtFrame
  <2>6. \A g \in Counted : refs'[g] = refs[g] + At(n, g) - At(e, g)
    BY <2>4, <2>5
  <2>. QED
    BY <2>2, <2>3, <2>4, <2>6, PutBalanced
<1>. QED
  BY <1>1, <1>2, <1>3, <1>4, <1>5, <1>6, <1>7, <1>8

LEMMA AliasBalanced ==
  ASSUME Balanced(pt, refs), NEW r \in Roots, NEW s \in Pages, NEW d \in Pages,
         NEW f \in Frames, Alias(r, s, d, f)
  PROVE  Balanced(pt', refs')
<1>. DEFINE e == pt[r][s]
            old == pt[r][d]
            a == OwnRefs(e, f)
            b == Retained(a, f)
            src == Marked(e, f)
            dst == Second(f)
<1>1. /\ refs \in Ints /\ e \in Entries /\ old \in Entries \cup {None} /\ s # d
      /\ Owns(e, f) /\ f \in Physical
  BY BalancedTypes, FramesPhysical DEF Alias
<1>2. \A g \in Counted : refs[g] \in Int /\ At(e, g) \in Int /\ At(old, g) \in Int
  BY BalancedTypes DEF Ints
<1>3. Own(e, f).frame = f
  BY <1>1, OwnFields
<1>4. pt' = [pt EXCEPT ![r][s] = src, ![r][d] = dst] /\ refs' = Released(b, old)
  BY <1>3 DEF Alias, Marked, Second
<1>5. src \in Entries /\ src.frame = f
  BY <1>1, MarkedFields
<1>6. dst \in Entries /\ dst.frame = f
  BY <1>1, SecondFields
<1>7. a \in Ints /\ \A g \in Counted : a[g] = refs[g] + One(f, g) - At(e, g)
  BY <1>1, OwnsFree, OwnRefsCount
<1>. HIDE DEF a, src, dst
<1>8. b \in Ints /\ \A g \in Counted : b[g] = a[g] + One(f, g)
  BY <1>1, <1>7, RetainedCount
<1>. HIDE DEF b
<1>9. refs' \in Ints /\ \A g \in Counted : refs'[g] = b[g] - At(old, g)
  BY <1>1, <1>4, <1>8, ReleasedCount
<1>10. \A g \in Counted : refs'[g] = refs[g] + One(src.frame, g) - At(e, g)
                                     + One(dst.frame, g) - At(old, g)
  BY <1>2, <1>5, <1>6, <1>7, <1>8, <1>9 DEF One
<1>11. PICK mid \in AllTables : Written(pt, mid, r, s, src) /\ Written(mid, pt', r, d, dst)
  BY <1>4, <1>5, <1>6, TwoWritten, BalancedTypes
<1>. QED
  BY <1>1, <1>5, <1>6, <1>9, <1>10, <1>11, PutTwoBalanced

LEMMA ShareBalanced ==
  ASSUME Balanced(pt, refs), NEW r \in Roots, NEW s \in Pages, NEW q \in Roots,
         NEW d \in Pages, NEW f \in Counted, Share(r, s, q, d, f)
  PROVE  Balanced(pt', refs')
<1>. DEFINE e == pt[r][s]
            a == OwnRefs(e, f)
            src == Sent(e, f)
            dst == Received(e, f)
<1>1. /\ refs \in Ints /\ e \in Entries /\ pt[q][d] = None
      /\ f \in Physical /\ (f = e.frame \/ refs[f] = 0)
  BY BalancedTypes DEF Share, Free, Counted, Physical
<1>2. \A g \in Counted : refs[g] \in Int /\ At(e, g) \in Int /\ At(pt[q][d], g) = 0
  BY <1>1, BalancedTypes DEF Ints, At
<1>3. q = r => d # s
  BY <1>1, EntryFields
<1>4. pt' = [pt EXCEPT ![r][s] = src, ![q][d] = dst] /\ refs' = Retained(a, f)
  BY DEF Share, Sent, Received
<1>5. src \in Entries /\ src.frame = f
  BY <1>1, SentFields
<1>6. dst \in Entries /\ dst.frame = f
  BY <1>1, ReceivedFields
<1>7. a \in Ints /\ \A g \in Counted : a[g] = refs[g] + One(f, g) - At(e, g)
  BY <1>1, OwnRefsCount
<1>. HIDE DEF a, src, dst
<1>8. refs' \in Ints /\ \A g \in Counted : refs'[g] = a[g] + One(f, g)
  BY <1>1, <1>4, <1>7, RetainedCount
<1>9. \A g \in Counted : refs'[g] = refs[g] + One(src.frame, g) - At(e, g)
                                    + One(dst.frame, g) - At(pt[q][d], g)
  BY <1>2, <1>5, <1>6, <1>7, <1>8 DEF One
<1>10. PICK mid \in AllTables : Written(pt, mid, r, s, src) /\ Written(mid, pt', q, d, dst)
  BY <1>4, <1>5, <1>6, TwoWritten, BalancedTypes
<1>. QED
  BY <1>3, <1>5, <1>6, <1>8, <1>9, <1>10, PutTwoBalanced

\* The leaves `many' are `few', of which root r has none, and r's at the pages V.
Column(r, V) == {r} \X V
Joins(few, many, r, V) == many = few \cup Column(r, V) /\ few \cap Column(r, V) = {}

LEMMA RowCount ==
  ASSUME NEW few, NEW many, NEW r, NEW V \in SUBSET Pages, IsFiniteSet(few),
         Joins(few, many, r, V)
  PROVE  /\ Cardinality(many) = Cardinality(few) + Cardinality(V)
         /\ Cardinality(V) \in Nat
<1>1. Cardinality(few) \in Nat
  BY FS_CardinalityType
<1>2. IsFiniteSet(V) /\ Cardinality(V) \in Nat
  <2>1. IsFiniteSet(Pages)
    BY PageMapAssumption, FS_Union DEF Pages
  <2>. QED
    BY <2>1, FS_Subset, FS_CardinalityType
<1>3. IsFiniteSet(Column(r, V)) /\ Cardinality(Column(r, V)) = Cardinality(V)
  <2>1. IsFiniteSet({r}) /\ Cardinality({r}) = 1
    BY FS_Singleton
  <2>2. IsFiniteSet({r} \X V) /\ Cardinality({r} \X V) = Cardinality({r}) * Cardinality(V)
    BY <1>2, <2>1, FS_Product
  <2>. QED
    BY <1>2, <2>1, <2>2 DEF Column
<1>4. Cardinality(few \cap Column(r, V)) = 0
  BY FS_EmptySet DEF Joins
<1>5. Cardinality(many)
      = Cardinality(few) + Cardinality(Column(r, V))
        - Cardinality(few \cap Column(r, V))
  BY <1>3, FS_Union DEF Joins
<1>. QED
  BY <1>1, <1>2, <1>3, <1>4, <1>5

\* The leaves of root r that have page f.
Row(r, f) == {v \in Pages : pt[r][v] # None /\ pt[r][v].frame = f}

LEMMA CowFrame ==
  ASSUME NEW e \in Entries \cup {None}
  PROVE  /\ Cow(e) \in Entries \cup {None} /\ (Cow(e) = None <=> e = None)
         /\ e # None => Cow(e).frame = e.frame
<1>1. CASE e = None
  BY <1>1 DEF Cow
<1>2. CASE e \in Entries
  BY <1>2, CowFields, EntryFields
<1>. QED
  BY <1>1, <1>2

\* After a fork, complete or not, the parent has its pages where it had them.
LEMMA ClonedFrames ==
  ASSUME pt \in AllTables, NEW r \in Roots, NEW S \in SUBSET Pages
  PROVE  /\ Cloned(r, S) \in [Pages -> Entries \cup {None}]
         /\ \A v \in Pages : /\ Cloned(r, S)[v] = None <=> pt[r][v] = None
                             /\ pt[r][v] # None => Cloned(r, S)[v].frame = pt[r][v].frame
<1>1. \A v \in Pages : pt[r][v] \in Entries \cup {None}
  BY DEF AllTables
<1>2. \A v \in Pages :
        /\ Cow(pt[r][v]) \in Entries \cup {None} /\ (Cow(pt[r][v]) = None <=> pt[r][v] = None)
        /\ pt[r][v] # None => Cow(pt[r][v]).frame = pt[r][v].frame
  BY <1>1, CowFrame
<1>. QED
  BY <1>1, <1>2 DEF Cloned

LEMMA ForkBalanced ==
  ASSUME Balanced(pt, refs), NEW r \in Roots, NEW new \in Roots, new # r,
         \A v \in Pages : pt[new][v] = None, Fork(r, new)
  PROVE  Balanced(pt', refs')
<1>. DEFINE t == Cloned(r, Pages)
<1>1. /\ t \in [Pages -> Entries \cup {None}]
      /\ \A v \in Pages : /\ t[v] = None <=> pt[r][v] = None
                          /\ pt[r][v] # None => t[v].frame = pt[r][v].frame
  BY ClonedFrames DEF Balanced
<1>2. pt' = [pt EXCEPT ![r] = t, ![new] = t] /\ pt \in AllTables
  BY DEF Fork, Balanced
<1>. HIDE DEF t
<1>3. /\ pt' \in AllTables
      /\ \A q \in Roots : pt'[q] = IF q \in {r, new} THEN t ELSE pt[q]
  BY <1>1, <1>2 DEF AllTables
<1>4. ASSUME NEW f \in Counted
      PROVE  refs'[f] = Cardinality(Leaves(pt', f)) + Cache(f)
  <2>1. Row(r, f) \in SUBSET Pages
    BY DEF Row
  <2>2. Leaves(pt', f) = Leaves(pt, f) \cup ({new} \X Row(r, f))
    <3>1. ASSUME NEW q \in Roots, NEW w \in Pages
          PROVE  (pt'[q][w] # None /\ pt'[q][w].frame = f)
                 <=> \/ pt[q][w] # None /\ pt[q][w].frame = f
                     \/ q = new /\ pt[r][w] # None /\ pt[r][w].frame = f
      BY <1>1, <1>3
    <3>. QED
      BY <3>1 DEF Leaves, Row
  <2>3. \A p \in Leaves(pt, f) : p[1] # new
    BY DEF Leaves
  <2>4. /\ Cardinality(Leaves(pt', f)) = Cardinality(Leaves(pt, f)) + Cardinality(Row(r, f))
        /\ Cardinality(Row(r, f)) \in Nat
    <3>. DEFINE few == Leaves(pt, f)
                many == Leaves(pt', f)
                V == Row(r, f)
    <3>1. /\ V \in SUBSET Pages /\ IsFiniteSet(few) /\ Joins(few, many, new, V)
      BY <2>1, <2>2, <2>3, LeavesFinite DEF Column, Joins
    <3>. HIDE DEF few, many, V
    <3>2. Cardinality(many) = Cardinality(few) + Cardinality(V) /\ Cardinality(V) \in Nat
      BY <3>1, RowCount
    <3>. QED
      BY <3>2 DEF few, many, V
  <2>5. refs'[f] = refs[f] + Cardinality(Row(r, f))
    BY DEF Fork, Balanced, Uses, Row, Counted
  <2>6. refs[f] = Cardinality(Leaves(pt, f)) + Cache(f) /\ Cardinality(Leaves(pt, f)) \in Nat
        /\ Cache(f) \in Nat
    BY LeavesFinite DEF Balanced, Cache
  <2>. QED
    BY <2>4, <2>5, <2>6
<1>5. refs' \in [Counted -> Nat]
  <2>1. \A f \in Counted : refs'[f] \in Nat
    BY <1>4, LeavesFinite DEF Cache
  <2>2. refs' = [f \in Counted |-> refs[f] + Uses(r, Pages, f)]
    BY DEF Fork, Balanced
  <2>. QED
    BY <2>1, <2>2
<1>. QED
  BY <1>3, <1>4, <1>5 DEF Balanced

LEMMA ForkFailsBalanced ==
  ASSUME Balanced(pt, refs), NEW r \in Roots, NEW S \in SUBSET Pages, ForkFails(r, S)
  PROVE  Balanced(pt', refs')
<1>. DEFINE t == Cloned(r, S)
<1>1. /\ t \in [Pages -> Entries \cup {None}]
      /\ \A v \in Pages : /\ t[v] = None <=> pt[r][v] = None
                          /\ pt[r][v] # None => t[v].frame = pt[r][v].frame
  BY ClonedFrames DEF Balanced
<1>2. pt' = [pt EXCEPT ![r] = t] /\ pt \in AllTables /\ refs' = refs
  BY DEF ForkFails, Balanced
<1>. HIDE DEF t
<1>3. /\ pt' \in AllTables
      /\ \A q \in Roots : pt'[q] = IF q = r THEN t ELSE pt[q]
  BY <1>1, <1>2 DEF AllTables
<1>4. ASSUME NEW f PROVE Leaves(pt', f) = Leaves(pt, f)
  BY <1>1, <1>3 DEF Leaves
<1>. QED
  BY <1>2, <1>3, <1>4 DEF Balanced

LEMMA EmptyBalanced ==
  ASSUME Balanced(pt, refs), NEW r \in Roots, Empty(r)
  PROVE  Balanced(pt', refs')
<1>1. Blanks \in [Pages -> Entries \cup {None}] /\ \A v \in Pages : Blanks[v] = None
  BY DEF Blanks
<1>2. pt' = [pt EXCEPT ![r] = Blanks] /\ pt \in AllTables
  BY DEF Empty, Balanced
<1>3. /\ pt' \in AllTables
      /\ \A q \in Roots : pt'[q] = IF q = r THEN Blanks ELSE pt[q]
  BY <1>1, <1>2 DEF AllTables
<1>4. ASSUME NEW f \in Counted
      PROVE  refs'[f] = Cardinality(Leaves(pt', f)) + Cache(f)
  <2>1. Row(r, f) \in SUBSET Pages
    BY DEF Row
  <2>2. Leaves(pt, f) = Leaves(pt', f) \cup ({r} \X Row(r, f))
    <3>1. ASSUME NEW q \in Roots, NEW w \in Pages
          PROVE  (pt[q][w] # None /\ pt[q][w].frame = f)
                 <=> \/ pt'[q][w] # None /\ pt'[q][w].frame = f
                     \/ q = r /\ pt[r][w] # None /\ pt[r][w].frame = f
      BY <1>1, <1>3
    <3>. QED
      BY <3>1 DEF Leaves, Row
  <2>3. \A p \in Leaves(pt', f) : p[1] # r
    BY <1>1, <1>3 DEF Leaves
  <2>4. /\ Cardinality(Leaves(pt, f)) = Cardinality(Leaves(pt', f)) + Cardinality(Row(r, f))
        /\ Cardinality(Row(r, f)) \in Nat
    <3>. DEFINE few == Leaves(pt', f)
                many == Leaves(pt, f)
                V == Row(r, f)
    <3>1. /\ V \in SUBSET Pages /\ IsFiniteSet(few) /\ Joins(few, many, r, V)
      BY <2>1, <2>2, <2>3, LeavesFinite DEF Column, Joins
    <3>. HIDE DEF few, many, V
    <3>2. Cardinality(many) = Cardinality(few) + Cardinality(V) /\ Cardinality(V) \in Nat
      BY <3>1, RowCount
    <3>. QED
      BY <3>2 DEF few, many, V
  <2>5. refs'[f] = refs[f] - Cardinality(Row(r, f))
    BY DEF Empty, Balanced, Uses, Row, Counted
  <2>6. refs[f] = Cardinality(Leaves(pt, f)) + Cache(f) /\ Cardinality(Leaves(pt', f)) \in Nat
        /\ Cache(f) \in Nat
    BY LeavesFinite DEF Balanced, Cache
  <2>. QED
    BY <2>4, <2>5, <2>6
<1>5. refs' \in [Counted -> Nat]
  <2>1. \A f \in Counted : refs'[f] \in Nat
    BY <1>4, LeavesFinite DEF Cache
  <2>2. refs' = [f \in Counted |-> refs[f] - Uses(r, Pages, f)]
    BY DEF Empty, Balanced
  <2>. QED
    BY <2>1, <2>2
<1>. QED
  BY <1>3, <1>4, <1>5 DEF Balanced

-----------------------------------------------------------------------------
(* Steps.  LeafAction has the actions that write one leaf. *)

LeafAction(r, v) ==
  \/ \E prot : MapAnonymous(r, v, prot) \/ Protect(r, v, prot)
  \/ \E prot : \E f \in FileFrames, file \in {"private", "shared"} :
       MapFile(r, v, f, prot, file)
  \/ \E f \in Frames : PageLink(r, v, f) \/ WriteFault(r, v, f)
  \/ Unmap(r, v) \/ UnmapShared(r, v) \/ DiscardAnonymous(r, v)
  \/ \E f \in FileFrames : DiscardFile(r, v, f)

LEMMA NextActions ==
  ASSUME Next
  PROVE  \/ \E r \in live, v \in Pages : LeafAction(r, v)
         \/ \E r \in live, s, d \in Pages, f \in Frames : Alias(r, s, d, f)
         \/ \E r, q \in live, s, d \in Pages, f \in Counted : Share(r, s, q, d, f)
         \/ \E r \in live, v \in Pages, x \in Values : Store(r, v, x)
         \/ \E r \in live, new \in Roots \ live : Fork(r, new)
         \/ \E r \in live, S \in SUBSET Pages : ForkFails(r, S)
         \/ \E r \in live : Exec(r) \/ Exit(r)
         \/ \E r \in Roots \ live : Spawn(r)
<1>0. HeapPages \subseteq Pages /\ SharedPages \subseteq Pages
  BY DEF Pages
<1>1. ASSUME NEW r \in live, NEW v \in HeapPages, PageNext(r, v)
      PROVE  \/ LeafAction(r, v)
             \/ \E d \in Pages, f \in Frames : Alias(r, v, d, f)
             \/ \E q \in live, d \in Pages, f \in Counted : Share(r, v, q, d, f)
  BY <1>0, <1>1 DEF PageNext, LeafAction, Counted
<1>2. ASSUME NEW r \in live, NEW v \in Pages, NEW f \in Frames, WriteFault(r, v, f)
      PROVE  LeafAction(r, v)
  BY <1>2 DEF LeafAction
<1>3. ASSUME NEW r \in live, NEW d \in SharedPages, UnmapShared(r, d)
      PROVE  LeafAction(r, d)
  BY <1>3 DEF LeafAction
<1>. QED
  BY <1>0, <1>1, <1>2, <1>3 DEF Next

\* An address space that is not in use has no pages.
DeadEmpty == \A r \in Roots \ live, v \in Pages : pt[r][v] = None

RefInv == Balanced(pt, refs) /\ live \subseteq Roots /\ DeadEmpty

LEMMA LeafActionOne ==
  ASSUME pt \in AllTables, NEW r \in Roots, NEW v \in Pages, LeafAction(r, v)
  PROVE  /\ live' = live
         /\ \A q \in Roots, w \in Pages : q # r => pt'[q][w] = pt[q][w]
<1>1. \A prot : MapAnonymous(r, v, prot) => \E e : Put(r, v, e) /\ live' = live
  BY DEF MapAnonymous, Mmap
<1>2. \A prot, f, file : MapFile(r, v, f, prot, file) => \E e : Put(r, v, e) /\ live' = live
  BY DEF MapFile, Mmap
<1>3. \A prot : Protect(r, v, prot) => \E e : Put(r, v, e) /\ live' = live
  BY Zenon DEF Protect
<1>4. \A f : PageLink(r, v, f) \/ WriteFault(r, v, f) => \E e : Put(r, v, e) /\ live' = live
  BY DEF PageLink, WriteFault
<1>5. Unmap(r, v) \/ UnmapShared(r, v) => \E e : Put(r, v, e) /\ live' = live
  BY DEF Unmap, UnmapShared
<1>6. DiscardAnonymous(r, v) => \E e : Put(r, v, e) /\ live' = live
  BY Zenon DEF DiscardAnonymous
<1>7. \A f : DiscardFile(r, v, f) => \E e : Put(r, v, e) /\ live' = live
  BY Zenon DEF DiscardFile
<1>8. \E e : Put(r, v, e) /\ live' = live
  BY <1>1, <1>2, <1>3, <1>4, <1>5, <1>6, <1>7, Zenon DEF LeafAction
<1>. QED
  BY <1>8 DEF Put, AllTables

LEMMA NextRefInv ==
  ASSUME RefInv, [Next]_vars
  PROVE  RefInv'
<1>. DEFINE B == Balanced(pt', refs')
<1>0. Balanced(pt, refs) /\ live \subseteq Roots /\ DeadEmpty /\ pt \in AllTables
  BY DEF RefInv, Balanced
<1>. SUFFICES B /\ live' \subseteq Roots /\ DeadEmpty'
  BY DEF RefInv
<1>1. CASE UNCHANGED vars
  BY <1>0, <1>1 DEF vars, DeadEmpty
<1>2. ASSUME NEW r \in live, NEW v \in Pages, LeafAction(r, v)
      PROVE  B /\ live' \subseteq Roots /\ DeadEmpty'
  <2>1. r \in Roots
    BY <1>0
  <2>2. B
    BY <1>0, <1>2, <2>1, PageBalanced DEF LeafAction
  <2>. QED
    BY <1>0, <1>2, <2>1, <2>2, LeafActionOne DEF DeadEmpty
<1>3. ASSUME NEW r \in live, NEW s \in Pages, NEW d \in Pages, NEW f \in Frames,
             Alias(r, s, d, f)
      PROVE  B /\ live' \subseteq Roots /\ DeadEmpty'
  <2>1. r \in Roots /\ live' = live
    BY <1>0, <1>3 DEF Alias
  <2>2. B
    BY <1>0, <1>3, <2>1, AliasBalanced
  <2>3. \A p \in Roots : p # r => pt'[p] = pt[p]
    BY <1>0, <1>3, <2>1 DEF Alias, AllTables
  <2>. QED
    BY <1>0, <2>1, <2>2, <2>3 DEF DeadEmpty
<1>4. ASSUME NEW r \in live, NEW q \in live, NEW s \in Pages, NEW d \in Pages,
             NEW f \in Counted, Share(r, s, q, d, f)
      PROVE  B /\ live' \subseteq Roots /\ DeadEmpty'
  <2>1. r \in Roots /\ q \in Roots /\ live' = live
    BY <1>0, <1>4 DEF Share
  <2>2. B
    BY <1>0, <1>4, <2>1, ShareBalanced
  <2>3. \A p \in Roots : p # r /\ p # q => pt'[p] = pt[p]
    BY <1>0, <1>4, <2>1 DEF Share, AllTables
  <2>. QED
    BY <1>0, <2>1, <2>2, <2>3 DEF DeadEmpty
<1>5. ASSUME NEW r \in live, NEW v \in Pages, NEW x \in Values, Store(r, v, x)
      PROVE  B /\ live' \subseteq Roots /\ DeadEmpty'
  BY <1>0, <1>5 DEF Store, DeadEmpty
<1>6. ASSUME NEW r \in live, NEW new \in Roots \ live, Fork(r, new)
      PROVE  B /\ live' \subseteq Roots /\ DeadEmpty'
  <2>1. r \in Roots /\ new # r /\ live' = live \cup {new}
    BY <1>0, <1>6 DEF Fork
  <2>2. B
    BY <1>0, <1>6, <2>1, ForkBalanced DEF DeadEmpty
  <2>3. \A p \in Roots : p # r /\ p # new => pt'[p] = pt[p]
    BY <1>0, <1>6, <2>1 DEF Fork, AllTables
  <2>. QED
    BY <1>0, <2>1, <2>2, <2>3 DEF DeadEmpty
<1>7. ASSUME NEW r \in live, NEW S \in SUBSET Pages, ForkFails(r, S)
      PROVE  B /\ live' \subseteq Roots /\ DeadEmpty'
  <2>1. r \in Roots /\ live' = live
    BY <1>0, <1>7 DEF ForkFails
  <2>2. B
    BY <1>0, <1>7, <2>1, ForkFailsBalanced
  <2>3. \A p \in Roots : p # r => pt'[p] = pt[p]
    BY <1>0, <1>7, <2>1 DEF ForkFails, AllTables
  <2>. QED
    BY <1>0, <2>1, <2>2, <2>3 DEF DeadEmpty
<1>8. ASSUME NEW r \in live, Exec(r) \/ Exit(r)
      PROVE  B /\ live' \subseteq Roots /\ DeadEmpty'
  <2>1. r \in Roots /\ live \ {r} \subseteq live' /\ live' \subseteq Roots /\ Empty(r)
    BY <1>0, <1>8 DEF Exec, Exit
  <2>2. B
    BY <1>0, <2>1, EmptyBalanced
  <2>3. \A p \in Roots, v \in Pages : pt'[p][v] = IF p = r THEN None ELSE pt[p][v]
    BY <1>0, <2>1 DEF Empty, AllTables, Blanks
  <2>. QED
    BY <1>0, <2>1, <2>2, <2>3 DEF DeadEmpty
<1>9. ASSUME NEW r \in Roots \ live, Spawn(r)
      PROVE  B /\ live' \subseteq Roots /\ DeadEmpty'
  BY <1>0, <1>9 DEF Spawn, DeadEmpty
<1>. QED
  BY <1>1, <1>2, <1>3, <1>4, <1>5, <1>6, <1>7, <1>8, <1>9, NextActions

LEMMA InitRefInv == Init => RefInv
<1>. SUFFICES ASSUME Init PROVE RefInv
  OBVIOUS
<1>1. pt \in AllTables /\ \A r \in Roots, v \in Pages : pt[r][v] = None
  BY DEF Init, Blanks, AllTables
<1>2. \A f : Leaves(pt, f) = {}
  BY <1>1 DEF Leaves
<1>3. \A f : Cardinality(Leaves(pt, f)) = 0
  BY <1>2, FS_EmptySet
<1>4. refs \in [Counted -> Nat] /\ \A f \in Counted : refs[f] = Cache(f)
  BY DEF Init, Counted, Cache
<1>5. Balanced(pt, refs)
  BY <1>1, <1>3, <1>4 DEF Balanced, Cache
<1>. QED
  BY <1>1, <1>5 DEF RefInv, DeadEmpty, Init

\* Whatever programs map, protect, discard, write, alias, share, fork, exec and
\* exit, also when a fork fails half way, the references of a page are exactly
\* the leaves that have it and the one of the file cache (page_retain and
\* page_release in arch/x86/x86_64/page.c).
THEOREM ReferencesCounted == Spec => []ReferencesExact
<1>1. RefInv /\ [Next]_vars => RefInv'
  BY NextRefInv
<1>2. RefInv => ReferencesExact
  BY DEF RefInv, Balanced, ReferencesExact, Leaves, Cache, Counted
<1>. QED
  BY InitRefInv, <1>1, <1>2, PTL DEF Spec

-----------------------------------------------------------------------------
(* Stores stay where they belong *)

\* What the flags of a leaf say together.
Flags(e) ==
  /\ Clean(e)
  /\ e.cow => ~e.shared /\ ~e.alias
  /\ e.alias => e.frame \in Frames
  /\ e.alias /\ e.shared => e.crossed
  /\ e.crossed => e.shared /\ e.frame \in Frames
  /\ e.frame \in FileFrames /\ ~e.shared => e.file # "anon" /\ ~e.write

\* What a leaf says of another to the same page.
Apart(r, e, q, o) == e.write \/ e.shared \/ e.alias => Joined(r, e, q, o)

Safe(t) ==
  /\ t \in AllTables
  /\ \A r \in Roots, v \in Pages : t[r][v] # None => Flags(t[r][v])
  /\ \A r, q \in Roots, v, w \in Pages :
       t[r][v] # None /\ t[q][w] # None /\ (q # r \/ w # v)
         /\ t[q][w].frame = t[r][v].frame
       => Apart(r, t[r][v], q, t[q][w])

\* The leaf e may be written at page v of root r.
Fits(t, r, v, e) ==
  \A q \in Roots, w \in Pages :
    t[q][w] # None /\ (q # r \/ w # v) /\ t[q][w].frame = e.frame
    => Apart(r, e, q, t[q][w]) /\ Apart(q, t[q][w], r, e)

LEMMA WrittenSafe ==
  ASSUME NEW t, NEW u, Safe(t), NEW r \in Roots, NEW v \in Pages, NEW e,
         Written(t, u, r, v, e), e # None => Flags(e) /\ Fits(t, r, v, e)
  PROVE  Safe(u)
<1>1. u \in AllTables /\ \A q \in Roots, w \in Pages :
                           u[q][w] = IF q = r /\ w = v THEN e ELSE t[q][w]
  BY DEF Written
<1>2. \A q \in Roots, w \in Pages : u[q][w] # None => Flags(u[q][w])
  BY <1>1 DEF Safe
<1>3. ASSUME NEW p \in Roots, NEW x \in Pages, NEW q \in Roots, NEW w \in Pages,
             u[p][x] # None, u[q][w] # None, q # p \/ w # x, u[q][w].frame = u[p][x].frame
      PROVE  Apart(p, u[p][x], q, u[q][w])
  <2>1. CASE p = r /\ x = v
    BY <1>1, <1>3, <2>1 DEF Fits
  <2>2. CASE q = r /\ w = v
    BY <1>1, <1>3, <2>2 DEF Fits
  <2>3. CASE ~(p = r /\ x = v) /\ ~(q = r /\ w = v)
    BY <1>1, <1>3, <2>3 DEF Safe
  <2>. QED
    BY <2>1, <2>2, <2>3
<1>. QED
  BY <1>1, <1>2, <1>3 DEF Safe

LEMMA FitsAlone ==
  ASSUME NEW t, NEW r \in Roots, NEW v \in Pages, NEW e,
         \A q \in Roots, w \in Pages :
           t[q][w] # None /\ t[q][w].frame = e.frame => q = r /\ w = v
  PROVE  Fits(t, r, v, e)
BY DEF Fits

\* The zero page and the pages of files may be anywhere.
LEMMA FitsCommon ==
  ASSUME NEW t, Safe(t), NEW r \in Roots, NEW v \in Pages, NEW e \in Entries, Flags(e),
         e.frame \in FileFrames \cup {Zero}
  PROVE  Fits(t, r, v, e)
<1>1. ASSUME NEW q \in Roots, NEW w \in Pages, t[q][w] # None, t[q][w].frame = e.frame
      PROVE  Apart(r, e, q, t[q][w]) /\ Apart(q, t[q][w], r, e)
  <2>. DEFINE o == t[q][w]
  <2>1. Flags(o) /\ Flags(e) /\ o.frame = e.frame
    BY <1>1 DEF Safe
  <2>. HIDE DEF o
  <2>2. Apart(r, e, q, o) /\ Apart(q, o, r, e)
    BY <2>1, PageMapAssumption DEF Flags, Clean, Apart, Joined
  <2>. QED
    BY <2>2 DEF o
<1>. QED
  BY <1>1 DEF Fits

\* A page that the caller has to itself, or gets, may have any flags.
LEMMA FitsOwn ==
  ASSUME Balanced(pt, refs), NEW r \in Roots, NEW v \in Pages, NEW f \in Counted,
         \/ refs[f] = 0
         \/ pt[r][v] # None /\ pt[r][v].frame = f /\ ~(refs[f] > 1)
  PROVE  \A q \in Roots, w \in Pages :
           pt[q][w] # None /\ pt[q][w].frame = f => q = r /\ w = v
<1>1. CASE refs[f] = 0
  BY <1>1, FreeUnmapped
<1>2. CASE pt[r][v] # None /\ pt[r][v].frame = f /\ ~(refs[f] > 1)
  BY <1>2, SoleLeaf
<1>. QED
  BY <1>1, <1>2

LEMMA OwnsAlone ==
  ASSUME Balanced(pt, refs), NEW r \in Roots, NEW v \in Pages, NEW f \in Frames,
         pt[r][v] \in Entries, Owns(pt[r][v], f)
  PROVE  \A q \in Roots, w \in Pages :
           pt[q][w] # None /\ pt[q][w].frame = f => q = r /\ w = v
<1>1. f \in Counted
  BY DEF Counted
<1>2. \/ refs[f] = 0
      \/ pt[r][v] # None /\ pt[r][v].frame = f /\ ~(refs[f] > 1)
  BY EntryFields DEF Owns, Free, Multiple
<1>. QED
  BY <1>1, <1>2, FitsOwn

LEMMA PutSafe ==
  ASSUME Safe(pt), NEW r \in Roots, NEW v \in Pages, NEW e \in Entries, Put(r, v, e),
         Flags(e), Fits(pt, r, v, e)
  PROVE  Safe(pt')
<1>1. Written(pt, pt', r, v, e)
  BY PutWritten DEF Safe
<1>. QED
  BY <1>1, WrittenSafe

LEMMA LeafFlags ==
  ASSUME NEW f \in FileFrames \cup {Zero}, NEW prot,
         NEW file \in {"anon", "private", "shared"}, f = Zero <=> file = "anon",
         NEW shared, shared = (file = "shared"), NEW n, n = Leaf(f, prot, shared, file)
  PROVE  n \in Entries /\ n.frame = f /\ Flags(n)
<1>1. f \in Physical /\ shared \in BOOLEAN
  BY DEF Physical
<1>2. /\ n \in Entries /\ n.frame = f
      /\ n.write = (prot = "rw" /\ shared) /\ n.cow = (prot = "rw" /\ ~shared)
      /\ n.shared = shared /\ n.alias = FALSE /\ n.crossed = FALSE /\ n.file = file
  BY <1>1 DEF Leaf, Entries
<1>3. f = Zero => ~shared /\ f \notin FileFrames
  BY PageMapAssumption
<1>. QED
  BY <1>2, <1>3 DEF Flags, Clean

LEMMA MmapSafe ==
  ASSUME Safe(pt), NEW r \in Roots, NEW v \in Pages,
         NEW f \in FileFrames \cup {Zero}, NEW prot,
         NEW file \in {"anon", "private", "shared"}, f = Zero <=> file = "anon",
         Put(r, v, Leaf(f, prot, file = "shared", file))
  PROVE  Safe(pt')
<1>. DEFINE shared == file = "shared"
            n == Leaf(f, prot, shared, file)
<1>1. n \in Entries /\ n.frame = f /\ Flags(n)
  BY LeafFlags
<1>2. Put(r, v, n)
  OBVIOUS
<1>. HIDE DEF n
<1>3. Fits(pt, r, v, n)
  BY <1>1, FitsCommon
<1>. QED
  BY <1>1, <1>2, <1>3, PutSafe

LEMMA ProtectSafe ==
  ASSUME Safe(pt), Balanced(pt, refs), NEW r \in Roots, NEW v \in Pages, NEW prot,
         Protect(r, v, prot)
  PROVE  Safe(pt')
<1>. DEFINE e == pt[r][v]
            direct == e.shared \/ e.alias
                      \/ ~((~e.shared /\ e.file # "anon") \/ Multiple(e.frame))
            n == Protected(e, prot, direct)
<1>1. e \in Entries /\ Flags(e) /\ direct \in BOOLEAN /\ e # None
  BY DEF Protect, Safe, AllTables
<1>2. Put(r, v, n)
  BY DEF Protect, Protected
<1>3. /\ direct => \/ e.shared \/ e.alias
                   \/ e.file = "anon" /\ e.frame # Zero /\ ~(refs[e.frame] > 1)
  BY <1>1, EntryFields DEF Multiple
<1>4. ~direct => ~e.shared /\ ~e.alias
  OBVIOUS
<1>. HIDE DEF direct
<1>5. /\ n \in Entries /\ n.frame = e.frame
      /\ n.write = (prot = "rw" /\ direct) /\ n.cow = (prot = "rw" /\ ~direct)
      /\ n.shared = e.shared /\ n.alias = e.alias /\ n.crossed = e.crossed /\ n.file = e.file
  BY <1>1, ProtectedFields
<1>. HIDE DEF n
<1>6. e.frame # Zero => e.frame \in Counted
  BY <1>1, EntryFields DEF Physical, Counted
<1>7. ASSUME direct, ~e.shared, ~e.alias
      PROVE  /\ e.frame \notin FileFrames
             /\ \A q \in Roots, w \in Pages :
                  pt[q][w] # None /\ pt[q][w].frame = e.frame => q = r /\ w = v
  <2>1. e.frame \in Counted /\ ~(refs[e.frame] > 1)
    BY <1>3, <1>6, <1>7
  <2>. QED
    BY <1>1, <2>1, SoleLeaf
<1>8. Flags(n)
  <2>1. e.frame = Zero => ~direct
    BY <1>1, <1>3 DEF Flags, Clean
  <2>2. e.frame \in FileFrames /\ ~e.shared => ~direct
    BY <1>1, <1>7, PageMapAssumption DEF Flags
  <2>. QED
    BY <1>1, <1>4, <1>5, <2>1, <2>2 DEF Flags, Clean
<1>9. Fits(pt, r, v, n)
  <2>1. ASSUME NEW q \in Roots, NEW w \in Pages, pt[q][w] # None, q # r \/ w # v,
               pt[q][w].frame = n.frame
        PROVE  Apart(r, n, q, pt[q][w]) /\ Apart(q, pt[q][w], r, n)
    <3>. DEFINE o == pt[q][w]
    <3>1. Apart(r, e, q, o) /\ Apart(q, o, r, e) /\ o.frame = e.frame
      BY <1>1, <1>5, <2>1 DEF Safe
    <3>2. n.write => e.shared \/ e.alias
      BY <1>5, <1>7, <2>1
    <3>. HIDE DEF o, e
    <3>3. Apart(q, o, r, n)
      BY <1>5, <3>1 DEF Apart, Joined
    <3>4. Apart(r, n, q, o)
      BY <1>5, <3>1, <3>2 DEF Apart, Joined
    <3>. QED
      BY <3>3, <3>4 DEF o
  <2>. QED
    BY <2>1 DEF Fits
<1>. QED
  BY <1>2, <1>5, <1>8, <1>9, PutSafe

LEMMA PageSafe ==
  ASSUME Safe(pt), Balanced(pt, refs), NEW r \in Roots, NEW v \in Pages, LeafAction(r, v)
  PROVE  Safe(pt')
<1>. DEFINE e == pt[r][v]
<1>0. e # None => e \in Entries /\ Flags(e)
  BY DEF Safe, AllTables
<1>1. ASSUME NEW prot, MapAnonymous(r, v, prot) PROVE Safe(pt')
  <2>1. Zero \notin FileFrames /\ Put(r, v, Leaf(Zero, prot, "anon" = "shared", "anon"))
    BY <1>1, FramesPhysical DEF MapAnonymous, Mmap
  <2>. QED
    BY <2>1, MmapSafe
<1>2. ASSUME NEW prot, NEW f \in FileFrames, NEW file \in {"private", "shared"},
             MapFile(r, v, f, prot, file)
      PROVE  Safe(pt')
  <2>1. f # Zero /\ Put(r, v, Leaf(f, prot, file = "shared", file)) /\ file # "anon"
    BY <1>2, FramesPhysical DEF MapFile, Mmap
  <2>. QED
    BY <2>1, MmapSafe
<1>3. ASSUME NEW f \in Frames, PageLink(r, v, f) PROVE Safe(pt')
  <2>. DEFINE n == Linked(f)
  <2>1. /\ n \in Entries /\ n.frame = f /\ n.write /\ ~n.cow
        /\ ~n.shared /\ ~n.alias /\ ~n.crossed /\ n.file = "anon"
    BY LinkedFields, FramesPhysical
  <2>2. Put(r, v, n) /\ f \in Counted /\ refs[f] = 0
    BY <1>3 DEF PageLink, Linked, Counted, Free
  <2>. HIDE DEF n
  <2>3. Flags(n)
    BY <2>1, PageMapAssumption DEF Flags, Clean
  <2>4. Fits(pt, r, v, n)
    BY <2>1, <2>2, FitsOwn, FitsAlone
  <2>. QED
    BY <2>1, <2>2, <2>3, <2>4, PutSafe
<1>4. ASSUME Unmap(r, v) \/ UnmapShared(r, v) PROVE Safe(pt')
  <2>1. Put(r, v, None)
    BY <1>4 DEF Unmap, UnmapShared
  <2>2. Written(pt, pt', r, v, None)
    BY <2>1, PutWritten DEF Safe
  <2>. QED
    BY <2>2, WrittenSafe
<1>5. ASSUME NEW prot, Protect(r, v, prot) PROVE Safe(pt')
  BY <1>5, ProtectSafe
<1>6. ASSUME DiscardAnonymous(r, v) PROVE Safe(pt')
  <2>. DEFINE n == Discarded(e)
  <2>1. e \in Entries /\ ~e.shared /\ ~e.crossed
    BY <1>0, <1>6 DEF DiscardAnonymous, Safe, Flags
  <2>2. Put(r, v, n)
    BY <1>6, Zenon DEF DiscardAnonymous, Discarded
  <2>3. n \in Entries /\ n.frame = Zero /\ ~n.write /\ n.shared = e.shared
        /\ n.crossed = e.crossed /\ ~n.alias
    BY <2>1, DiscardedFields
  <2>. HIDE DEF n
  <2>4. Flags(n)
    BY <2>1, <2>3, PageMapAssumption DEF Flags, Clean
  <2>5. Fits(pt, r, v, n)
    BY <2>3, <2>4, FitsCommon
  <2>. QED
    BY <2>2, <2>3, <2>4, <2>5, PutSafe
<1>7. ASSUME NEW f \in FileFrames, DiscardFile(r, v, f) PROVE Safe(pt')
  <2>. DEFINE prot == IF e.write \/ e.cow THEN "rw" ELSE "r"
  <2>1. f # Zero /\ Put(r, v, Leaf(f, prot, "private" = "shared", "private"))
    BY <1>7, FramesPhysical DEF DiscardFile
  <2>. HIDE DEF prot
  <2>. QED
    BY <2>1, MmapSafe
<1>8. ASSUME NEW f \in Frames, WriteFault(r, v, f) PROVE Safe(pt')
  <2>. DEFINE n == Own(e, f)
  <2>1. e \in Entries /\ Flags(e) /\ e.cow /\ Owns(e, f) /\ Put(r, v, n)
    BY <1>0, <1>8 DEF WriteFault
  <2>2. /\ n \in Entries /\ n.frame = f /\ ~n.cow
        /\ n.shared = e.shared /\ n.alias = e.alias /\ n.crossed = e.crossed /\ n.file = e.file
    BY <2>1, OwnFields, FramesPhysical
  <2>. HIDE DEF n
  <2>3. Flags(n)
    BY <2>1, <2>2, PageMapAssumption DEF Flags, Clean
  <2>4. Fits(pt, r, v, n)
    <3>1. \A q \in Roots, w \in Pages :
            pt[q][w] # None /\ pt[q][w].frame = f => q = r /\ w = v
      BY <2>1, OwnsAlone
    <3>. QED
      BY ONLY <2>2, <3>1 DEF Fits
  <2>. QED
    BY <2>1, <2>2, <2>3, <2>4, PutSafe
<1>. QED
  BY <1>1, <1>2, <1>3, <1>4, <1>5, <1>6, <1>7, <1>8 DEF LeafAction

\* A shared page may be shared further.
LEMMA FitsShared ==
  ASSUME NEW t, Safe(t), NEW r \in Roots, NEW s \in Pages, t[r][s] # None, t[r][s].shared,
         NEW q \in Roots, NEW d \in Pages, NEW n, n.shared, n.alias => n.crossed,
         n.frame = t[r][s].frame, n.crossed = t[r][s].crossed
  PROVE  Fits(t, q, d, n)
<1>. DEFINE e == t[r][s]
<1>1. ASSUME NEW p \in Roots, NEW x \in Pages, t[p][x] # None, t[p][x].frame = n.frame
      PROVE  Apart(q, n, p, t[p][x]) /\ Apart(p, t[p][x], q, n)
  <2>. DEFINE o == t[p][x]
  <2>1. CASE p = r /\ x = s
    BY <2>1 DEF Apart, Joined
  <2>2. CASE p # r \/ x # s
    <3>1. /\ Apart(r, e, p, o) /\ Apart(p, o, r, e) /\ o.frame = n.frame
          /\ n.frame = e.frame /\ n.crossed = e.crossed
      BY <1>1, <2>2 DEF Safe
    <3>2. Flags(e) /\ Flags(o) /\ e.shared
      BY <1>1 DEF Safe
    <3>. HIDE DEF e, o
    <3>3. o.shared \/ o.crossed \/ n.crossed \/ n.frame \in FileFrames
      BY <3>1, <3>2 DEF Apart, Joined, Flags
    <3>4. (o.alias => o.frame \in Frames) /\ (o.alias /\ o.shared => o.crossed)
      BY <3>2 DEF Flags
    <3>5. Apart(q, n, p, o)
      BY <3>3 DEF Apart, Joined
    <3>6. Apart(p, o, q, n)
      BY <3>1, <3>3, <3>4, PageMapAssumption DEF Apart, Joined
    <3>. QED
      BY <3>5, <3>6 DEF o
  <2>. QED
    BY <2>1, <2>2
<1>. QED
  BY <1>1 DEF Fits

LEMMA AliasSafe ==
  ASSUME Safe(pt), Balanced(pt, refs), NEW r \in Roots, NEW s \in Pages, NEW d \in Pages,
         NEW f \in Frames, Alias(r, s, d, f)
  PROVE  Safe(pt')
<1>. DEFINE e == pt[r][s]
            src == Marked(e, f)
            dst == Second(f)
<1>1. e \in Entries /\ Flags(e) /\ ~e.shared /\ s # d /\ Owns(e, f) /\ f \in Physical
  BY FramesPhysical DEF Alias, Safe, AllTables
<1>2. Own(e, f).frame = f
  BY <1>1, OwnFields
<1>3. pt' = [pt EXCEPT ![r][s] = src, ![r][d] = dst] /\ pt \in AllTables
  BY <1>2 DEF Alias, Marked, Second, Safe
<1>4. /\ src \in Entries /\ src.frame = f /\ ~src.cow /\ src.shared = e.shared
      /\ src.alias /\ ~src.crossed
  BY <1>1, MarkedFields DEF Flags
<1>5. /\ dst \in Entries /\ dst.frame = f /\ ~dst.cow /\ ~dst.shared
      /\ dst.alias /\ ~dst.crossed
  BY <1>1, SecondFields
<1>. HIDE DEF src, dst
<1>6. PICK mid \in AllTables : Written(pt, mid, r, s, src) /\ Written(mid, pt', r, d, dst)
  BY <1>3, <1>4, <1>5, TwoWritten
<1>7. Flags(src) /\ Flags(dst)
  BY <1>1, <1>4, <1>5, PageMapAssumption DEF Flags, Clean
<1>8. \A q \in Roots, w \in Pages :
        pt[q][w] # None /\ pt[q][w].frame = f => q = r /\ w = s
  BY <1>1, OwnsAlone
<1>9. Fits(pt, r, s, src)
  BY ONLY <1>4, <1>8 DEF Fits
<1>10. Safe(mid)
  BY <1>6, <1>7, <1>9, WrittenSafe
<1>11. Fits(mid, r, d, dst)
  <2>1. ASSUME NEW q \in Roots, NEW w \in Pages, mid[q][w] # None, mid[q][w].frame = f
        PROVE  q = r /\ mid[q][w] = src
    BY <1>6, <1>8, <2>1 DEF Written
  <2>2. Apart(r, dst, r, src) /\ Apart(r, src, r, dst)
    BY <1>4, <1>5 DEF Apart, Joined
  <2>. QED
    BY ONLY <1>5, <2>1, <2>2 DEF Fits
<1>. QED
  BY <1>6, <1>7, <1>10, <1>11, WrittenSafe

LEMMA ShareSafe ==
  ASSUME Safe(pt), Balanced(pt, refs), NEW r \in Roots, NEW s \in Pages,
         NEW q \in Roots, NEW d \in Pages, NEW f \in Counted, Share(r, s, q, d, f)
  PROVE  Safe(pt')
<1>. DEFINE e == pt[r][s]
            src == Sent(e, f)
            dst == Received(e, f)
<1>1. e \in Entries /\ Flags(e) /\ (e.write \/ e.cow) /\ pt[q][d] = None
  BY EntryFields DEF Share, Safe, AllTables
<1>2. /\ f \in Physical /\ f # Zero
      /\ e.cow => f \in Free
      /\ ~e.cow => f = e.frame
  BY <1>1, EntryFields, FramesPhysical DEF Share, Counted
<1>3. pt' = [pt EXCEPT ![r][s] = src, ![q][d] = dst] /\ pt \in AllTables
  BY DEF Share, Sent, Received, Safe
<1>4. /\ src \in Entries /\ src.frame = f /\ ~src.cow /\ src.shared
      /\ src.alias = (e.alias /\ ~e.cow) /\ src.crossed = ((e.crossed \/ e.alias) /\ ~e.cow)
  BY <1>1, <1>2, SentFields
<1>5. /\ dst \in Entries /\ dst.frame = f /\ ~dst.cow /\ dst.shared
      /\ dst.alias = (e.alias /\ ~e.cow) /\ dst.crossed = ((e.crossed \/ e.alias) /\ ~e.cow)
  BY <1>1, <1>2, ReceivedFields
<1>. HIDE DEF src, dst
<1>6. PICK mid \in AllTables : Written(pt, mid, r, s, src) /\ Written(mid, pt', q, d, dst)
  BY <1>3, <1>4, <1>5, TwoWritten
<1>7. Flags(src) /\ Flags(dst)
  BY <1>1, <1>2, <1>4, <1>5 DEF Flags, Clean
<1>8. Fits(pt, r, s, src)
  <2>1. CASE e.cow
    <3>1. refs[f] = 0
      BY <1>2, <2>1 DEF Free
    <3>2. \A p \in Roots, w \in Pages :
            pt[p][w] # None /\ pt[p][w].frame = f => p = r /\ w = s
      BY <3>1, FitsOwn
    <3>. QED
      BY ONLY <1>4, <3>2 DEF Fits
  <2>2. CASE ~e.cow /\ e.shared
    <3>1. (src.alias => src.crossed) /\ src.crossed = e.crossed
      BY <1>1, <1>4, <2>2, EntryFields DEF Flags
    <3>. QED
      BY <1>1, <1>2, <1>4, <2>2, <3>1, FitsShared, EntryFields
  <2>3. CASE ~e.cow /\ ~e.shared /\ e.alias
    <3>1. src.crossed
      BY <1>4, <2>3
    <3>. QED
      BY ONLY <3>1 DEF Fits, Apart, Joined
  <2>4. CASE ~e.cow /\ ~e.shared /\ ~e.alias
    <3>1. ASSUME NEW p \in Roots, NEW w \in Pages, pt[p][w] # None, p # r \/ w # s,
                 pt[p][w].frame = f
          PROVE  pt[p][w].crossed
      <4>1. Apart(r, e, p, pt[p][w])
        BY <1>1, <1>2, <2>4, <3>1, EntryFields DEF Safe
      <4>2. ~e.crossed
        BY <1>1, <2>4 DEF Flags
      <4>. QED
        BY <1>1, <2>4, <4>1, <4>2 DEF Apart, Joined
    <3>. QED
      BY ONLY <1>4, <3>1 DEF Fits, Apart, Joined
  <2>. QED
    BY <2>1, <2>2, <2>3, <2>4
<1>9. Safe(mid)
  BY <1>6, <1>7, <1>8, WrittenSafe
<1>10. Fits(mid, q, d, dst)
  <2>1. mid[r][s] = src /\ src # None
    BY <1>4, <1>6, EntryFields DEF Written
  <2>2. dst.crossed = src.crossed /\ (dst.alias => dst.crossed)
    BY <1>4, <1>5
  <2>. QED
    BY <1>4, <1>5, <1>9, <2>1, <2>2, FitsShared
<1>. QED
  BY <1>6, <1>7, <1>9, <1>10, WrittenSafe

\* What a fork leaves of a leaf is apart from all others, wherever both are.
LEMMA CowApart ==
  ASSUME NEW e \in Entries, Flags(e), NEW n, n = Cow(e)
  PROVE  /\ n \in Entries /\ Flags(n) /\ n.frame = e.frame
         /\ n.shared = e.shared /\ n.crossed = e.crossed
         /\ \A r, q, o, p, x, m :
              Apart(r, e, q, o) /\ m.shared = o.shared /\ m.crossed = o.crossed => Apart(p, n, x, m)
         /\ \A p, x, m : m.shared = e.shared => Apart(p, n, x, m)
<1>1. /\ n \in Entries /\ n.frame = e.frame /\ n.write = (e.write /\ e.shared)
      /\ n.cow = (e.cow \/ (e.write /\ ~e.shared))
      /\ n.shared = e.shared /\ ~n.alias /\ n.crossed = e.crossed /\ n.file = e.file
  BY CowFields
<1>2. n.write => n.shared
  BY <1>1
<1>3. n.cow => ~n.shared
  BY <1>1 DEF Flags
<1>4. n.frame \in FileFrames /\ ~n.shared => n.file # "anon" /\ ~n.write
  BY <1>1 DEF Flags
<1>5. n.frame = Zero => ~n.write /\ ~n.shared /\ ~n.alias
  BY <1>1, <1>2 DEF Flags, Clean
<1>6. Flags(n)
  BY <1>1, <1>3, <1>4, <1>5 DEF Flags, Clean
<1>7. e.shared /\ e.alias => e.crossed
  BY DEF Flags
<1>8. ASSUME NEW r, NEW q, NEW o, NEW p, NEW x, NEW m, Apart(r, e, q, o),
             m.shared = o.shared, m.crossed = o.crossed
      PROVE  Apart(p, n, x, m)
  BY <1>1, <1>2, <1>7, <1>8 DEF Apart, Joined
<1>9. ASSUME NEW p, NEW x, NEW m, m.shared = e.shared
      PROVE  Apart(p, n, x, m)
  BY <1>1, <1>2, <1>9 DEF Apart, Joined
<1>. QED
  BY <1>1, <1>6, <1>8, <1>9

\* u has leaf n where pt has leaf e, or a copy of it.
Kept(e, n) == n = e \/ n = Cow(e)

LEMMA KeptFields ==
  ASSUME NEW e \in Entries \cup {None}, e # None => Flags(e), NEW n, Kept(e, n)
  PROVE  /\ n \in Entries \cup {None} /\ (n = None <=> e = None)
         /\ e # None => Flags(n) /\ n.frame = e.frame /\ n.shared = e.shared
                      /\ n.crossed = e.crossed
<1>1. CASE e = None
  BY <1>1 DEF Kept, Cow
<1>2. CASE e \in Entries
  BY <1>2, CowApart, EntryFields DEF Kept
<1>. QED
  BY <1>1, <1>2

LEMMA ForkFailsSafe ==
  ASSUME Safe(pt), NEW r \in Roots, NEW S \in SUBSET Pages, ForkFails(r, S)
  PROVE  Safe(pt')
<1>1. \A q \in Roots, w \in Pages :
        pt[q][w] \in Entries \cup {None} /\ (pt[q][w] # None => Flags(pt[q][w]))
  BY DEF Safe, AllTables
<1>2. \A q \in Roots, w \in Pages : Kept(pt[q][w], pt'[q][w])
  <2>1. \A q \in Roots : pt'[q] = IF q = r THEN Cloned(r, S) ELSE pt[q]
    BY DEF ForkFails, Safe, AllTables
  <2>. QED
    BY <2>1 DEF Cloned, Kept
<1>3. \A q \in Roots, w \in Pages :
        LET e == pt[q][w]
            n == pt'[q][w] IN
        /\ n \in Entries \cup {None} /\ (n = None <=> e = None)
        /\ e # None => /\ Flags(n) /\ n.frame = e.frame
                       /\ n.shared = e.shared /\ n.crossed = e.crossed
  BY <1>1, <1>2, KeptFields
<1>4. pt' \in AllTables
  <2>1. Cloned(r, S) \in [Pages -> Entries \cup {None}]
    BY ClonedFrames DEF Safe
  <2>. QED
    BY <2>1 DEF ForkFails, Safe, AllTables
<1>5. ASSUME NEW p \in Roots, NEW x \in Pages, NEW q \in Roots, NEW w \in Pages,
             pt'[p][x] # None, pt'[q][w] # None, q # p \/ w # x,
             pt'[q][w].frame = pt'[p][x].frame
      PROVE  Apart(p, pt'[p][x], q, pt'[q][w])
  <2>. DEFINE e == pt[p][x]
              o == pt[q][w]
              n == pt'[p][x]
              m == pt'[q][w]
  <2>1. /\ e # None /\ o # None /\ o.frame = e.frame
        /\ m.shared = o.shared /\ m.crossed = o.crossed
    BY <1>3, <1>5
  <2>2. Apart(p, e, q, o)
    BY <1>5, <2>1 DEF Safe
  <2>3. e \in Entries /\ Flags(e) /\ Kept(e, n)
    BY <1>1, <1>2, <2>1
  <2>. HIDE DEF e, o, n, m
  <2>4. Apart(p, n, q, m)
    <3>1. CASE n = e
      BY <2>1, <2>2, <3>1 DEF Apart, Joined
    <3>2. CASE n = Cow(e)
      BY <2>1, <2>2, <2>3, <3>2, CowApart
    <3>. QED
      BY <2>3, <3>1, <3>2 DEF Kept
  <2>. QED
    BY <2>4 DEF n, m
<1>. QED
  BY <1>3, <1>4, <1>5 DEF Safe

LEMMA ForkSafe ==
  ASSUME Safe(pt), NEW r \in Roots, NEW new \in Roots, new # r, Fork(r, new)
  PROVE  Safe(pt')
<1>. DEFINE from(q) == IF q = new THEN r ELSE q
<1>1. \A q \in Roots, w \in Pages :
        pt[q][w] \in Entries \cup {None} /\ (pt[q][w] # None => Flags(pt[q][w]))
  BY DEF Safe, AllTables
<1>2. \A q \in Roots : from(q) \in Roots
  OBVIOUS
<1>3. \A q \in Roots, w \in Pages :
        pt'[q][w] = IF from(q) = r THEN Cow(pt[r][w]) ELSE pt[from(q)][w]
  <2>1. \A q \in Roots : pt'[q] = IF q \in {r, new} THEN Cloned(r, Pages) ELSE pt[q]
    BY DEF Fork, Safe, AllTables
  <2>2. \A q \in Roots : q \in {r, new} <=> from(q) = r
    OBVIOUS
  <2>3. \A q \in Roots : q \notin {r, new} => from(q) = q
    OBVIOUS
  <2>. HIDE DEF from
  <2>. QED
    BY <2>1, <2>2, <2>3 DEF Cloned
<1>4. \A p, q \in Roots : from(p) = from(q) /\ from(p) # r => p = q /\ from(p) = p
  OBVIOUS
<1>4a. \A p \in Roots : from(p) # r => from(p) = p
  OBVIOUS
<1>. HIDE DEF from
<1>5. \A q \in Roots, w \in Pages :
        LET e == pt[from(q)][w]
            n == pt'[q][w] IN
        /\ n \in Entries \cup {None} /\ (n = None <=> e = None)
        /\ e # None => /\ Flags(n) /\ n.frame = e.frame
                       /\ n.shared = e.shared /\ n.crossed = e.crossed
  <2>1. \A q \in Roots, w \in Pages : Kept(pt[from(q)][w], pt'[q][w])
    BY <1>3 DEF Kept
  <2>. QED
    BY <1>1, <1>2, <2>1, KeptFields
<1>6. pt' \in AllTables
  <2>1. Cloned(r, Pages) \in [Pages -> Entries \cup {None}]
    BY ClonedFrames DEF Safe
  <2>. DEFINE t == Cloned(r, Pages)
  <2>2. pt' = [pt EXCEPT ![r] = t, ![new] = t] /\ pt \in AllTables
    BY DEF Fork, Safe
  <2>. HIDE DEF t
  <2>3. t \in [Pages -> Entries \cup {None}]
    BY <2>1 DEF t
  <2>. QED
    BY <2>2, <2>3 DEF AllTables
<1>7. ASSUME NEW p \in Roots, NEW x \in Pages, NEW q \in Roots, NEW w \in Pages,
             pt'[p][x] # None, pt'[q][w] # None, q # p \/ w # x,
             pt'[q][w].frame = pt'[p][x].frame
      PROVE  Apart(p, pt'[p][x], q, pt'[q][w])
  <2>. DEFINE e == pt[from(p)][x]
              o == pt[from(q)][w]
              n == pt'[p][x]
              m == pt'[q][w]
  <2>1. /\ e # None /\ o # None /\ o.frame = e.frame
        /\ m.shared = o.shared /\ m.crossed = o.crossed /\ e \in Entries /\ Flags(e)
    BY <1>1, <1>2, <1>5, <1>7
  <2>2. from(p) # from(q) \/ x # w => Apart(from(p), e, from(q), o)
    BY <1>2, <2>1 DEF Safe
  <2>3. from(p) = from(q) /\ x = w => e = o /\ from(p) = r
    BY <1>4, <1>7
  <2>4. n = IF from(p) = r THEN Cow(e) ELSE e
    BY <1>3
  <2>. HIDE DEF e, o, n, m
  <2>5. CASE from(p) = r
    <3>1. n = Cow(e)
      BY <2>4, <2>5
    <3>2. CASE from(p) = from(q) /\ x = w
      <4>1. m.shared = e.shared
        BY <2>1, <2>3, <3>2
      <4>2. Apart(p, n, q, m)
        BY <2>1, <3>1, <4>1, CowApart
      <4>. QED
        BY <4>2 DEF n, m
    <3>3. CASE from(p) # from(q) \/ x # w
      <4>1. Apart(from(p), e, from(q), o)
        BY <2>2, <3>3
      <4>2. Apart(p, n, q, m)
        BY <2>1, <3>1, <4>1, CowApart
      <4>. QED
        BY <4>2 DEF n, m
    <3>. QED
      BY <3>2, <3>3
  <2>6. CASE from(p) # r
    <3>1. n = e /\ from(p) = p
      BY <1>4a, <2>4, <2>6
    <3>2. Apart(from(p), e, from(q), o)
      BY <2>2, <2>3, <2>6
    <3>3. from(q) = p => q = p
      BY <1>4, <2>6, <3>1
    <3>4. Apart(p, n, q, m)
      BY <2>1, <3>1, <3>2, <3>3 DEF Apart, Joined
    <3>. QED
      BY <3>4 DEF n, m
  <2>. QED
    BY <2>5, <2>6
<1>. QED
  BY <1>5, <1>2, <1>6, <1>7 DEF Safe

LEMMA EmptySafe ==
  ASSUME Safe(pt), NEW r \in Roots, Empty(r)
  PROVE  Safe(pt')
<1>1. Blanks \in [Pages -> Entries \cup {None}] /\ \A v \in Pages : Blanks[v] = None
  BY DEF Blanks
<1>2. \A q \in Roots : pt'[q] = IF q = r THEN Blanks ELSE pt[q]
  BY DEF Empty, Safe, AllTables
<1>3. pt' \in AllTables
  BY <1>1 DEF Empty, Safe, AllTables
<1>4. \A q \in Roots, w \in Pages : pt'[q][w] # None => pt'[q][w] = pt[q][w]
  BY <1>1, <1>2
<1>. QED
  BY <1>3, <1>4 DEF Safe

SafeInv == RefInv /\ Safe(pt)

LEMMA NextSafe ==
  ASSUME SafeInv, [Next]_vars
  PROVE  SafeInv'
<1>0. Balanced(pt, refs) /\ Safe(pt) /\ live \subseteq Roots
  BY DEF SafeInv, RefInv
<1>. SUFFICES Safe(pt')
  BY NextRefInv DEF SafeInv
<1>1. CASE UNCHANGED vars
  BY <1>0, <1>1 DEF vars
<1>2. ASSUME NEW r \in live, NEW v \in Pages, LeafAction(r, v) PROVE Safe(pt')
  BY <1>0, <1>2, PageSafe
<1>3. ASSUME NEW r \in live, NEW s \in Pages, NEW d \in Pages, NEW f \in Frames,
             Alias(r, s, d, f)
      PROVE  Safe(pt')
  BY <1>0, <1>3, AliasSafe
<1>4. ASSUME NEW r \in live, NEW q \in live, NEW s \in Pages, NEW d \in Pages,
             NEW f \in Counted, Share(r, s, q, d, f)
      PROVE  Safe(pt')
  BY <1>0, <1>4, ShareSafe
<1>5. ASSUME NEW r \in live, NEW v \in Pages, NEW x \in Values, Store(r, v, x)
      PROVE  Safe(pt')
  BY <1>0, <1>5 DEF Store
<1>6. ASSUME NEW r \in live, NEW new \in Roots \ live, Fork(r, new) PROVE Safe(pt')
  BY <1>0, <1>6, ForkSafe
<1>7. ASSUME NEW r \in live, NEW S \in SUBSET Pages, ForkFails(r, S) PROVE Safe(pt')
  BY <1>0, <1>7, ForkFailsSafe
<1>8. ASSUME NEW r \in live, Exec(r) \/ Exit(r) PROVE Safe(pt')
  BY <1>0, <1>8, EmptySafe DEF Exec, Exit
<1>9. ASSUME NEW r \in Roots \ live, Spawn(r) PROVE Safe(pt')
  BY <1>0, <1>9 DEF Spawn
<1>. QED
  BY <1>1, <1>2, <1>3, <1>4, <1>5, <1>6, <1>7, <1>8, <1>9, NextActions

LEMMA SafeContained ==
  ASSUME Safe(pt)
  PROVE  StoresContained
<1>1. ASSUME NEW r \in Roots, NEW v \in Pages, Writable(pt[r][v]),
             pt[r][v].frame \notin Frames
      PROVE  pt[r][v].shared /\ pt[r][v].frame \in FileFrames
  <2>. DEFINE e == pt[r][v]
  <2>1. e \in Entries /\ Flags(e) /\ e.write
    BY <1>1 DEF Writable, Safe, AllTables
  <2>2. e.frame # Zero /\ e.frame \in Physical
    BY <2>1, EntryFields DEF Flags, Clean
  <2>3. e.frame \in FileFrames
    BY <1>1, <2>2 DEF Physical
  <2>. QED
    BY <2>1, <2>3, EntryFields DEF Flags
<1>2. ASSUME NEW r \in Roots, NEW v \in Pages, NEW q \in Roots, NEW w \in Pages,
             Writable(pt[r][v]), pt[q][w] # None, <<r, v>> # <<q, w>>,
             pt[q][w].frame = pt[r][v].frame
      PROVE  Joined(r, pt[r][v], q, pt[q][w])
  <2>1. pt[r][v] # None /\ pt[r][v].write /\ (q # r \/ w # v)
    BY <1>2 DEF Writable
  <2>2. Apart(r, pt[r][v], q, pt[q][w])
    BY <1>2, <2>1 DEF Safe
  <2>. QED
    BY <2>1, <2>2 DEF Apart
<1>. QED
  BY <1>1, <1>2 DEF StoresContained

\* A page that a program can store to without a fault is at no other address
\* of any address space, unless it was shared or aliased there on purpose or was
\* shared while it had an alias: copy on write, protection changes, VM_ALIAS,
\* page sharing, forks and failed forks leave no second view of it.
THEOREM StoresApart == Spec => []StoresContained
<1>1. Init => SafeInv
  <2>1. ASSUME Init PROVE Safe(pt)
    <3>1. pt \in AllTables /\ \A r \in Roots, v \in Pages : pt[r][v] = None
      BY <2>1 DEF Init, Blanks, AllTables
    <3>. QED
      BY <3>1 DEF Safe
  <2>. QED
    BY <2>1, InitRefInv DEF SafeInv
<1>2. SafeInv /\ [Next]_vars => SafeInv'
  BY NextSafe
<1>3. SafeInv => StoresContained
  BY SafeContained DEF SafeInv
<1>. QED
  BY <1>1, <1>2, <1>3, PTL DEF Spec

-----------------------------------------------------------------------------
(* Contents *)

\* A step changes the contents of no page that some program has mapped.
Untouched ==
  \A q \in Roots, w \in Pages :
    pt[q][w] # None => mem'[pt[q][w].frame] = mem[pt[q][w].frame]

\* What ContentsKept says of one address.
ContentKept(r, v) ==
  pt[r][v] # None /\ pt'[r][v] # None /\ mem'[pt'[r][v].frame] # mem[pt[r][v].frame]
  => \/ pt'[r][v].frame \in FileFrames \cup {Zero}
     \/ ~pt[r][v].present /\ pt'[r][v].alias

\* Filling a free page disturbs nobody.
LEMMA FreeUntouched ==
  ASSUME Balanced(pt, refs), mem \in [Physical -> Values], NEW f \in Counted,
         NEW x, mem' = [mem EXCEPT ![f] = x], refs[f] = 0 \/ x = mem[f]
  PROVE  Untouched /\ mem'[f] = x
<1>1. f \in Physical
  BY DEF Counted, Physical
<1>2. ASSUME NEW q \in Roots, NEW w \in Pages, pt[q][w] # None
      PROVE  mem'[pt[q][w].frame] = mem[pt[q][w].frame]
  <2>1. pt[q][w].frame \in Physical
    BY <1>2, BalancedTypes, EntryFields
  <2>2. refs[f] = 0 => pt[q][w].frame # f
    BY <1>2, FreeUnmapped
  <2>. QED
    BY <1>1, <2>1, <2>2
<1>. QED
  BY <1>1, <1>2 DEF Untouched

LEMMA CopyUntouched ==
  ASSUME Balanced(pt, refs), mem \in [Physical -> Values], NEW e, NEW f \in Counted,
         mem' = Copied(e, f), refs[f] = 0 \/ f = e.frame
  PROVE  Untouched /\ mem'[f] = mem[e.frame]
<1>. DEFINE x == mem[e.frame]
<1>1. mem' = [mem EXCEPT ![f] = x] /\ (refs[f] = 0 \/ x = mem[f])
  BY DEF Copied
<1>. HIDE DEF x
<1>2. Untouched /\ mem'[f] = x
  BY <1>1, FreeUntouched
<1>. QED
  BY <1>2 DEF x

LEMMA WrittenContents ==
  ASSUME Untouched, NEW r \in Roots, NEW v \in Pages, NEW e, Written(pt, pt', r, v, e),
         e # None /\ pt[r][v] # None => ContentKept(r, v)
  PROVE  \A q \in Roots, w \in Pages : ContentKept(q, w)
<1>. SUFFICES ASSUME NEW q \in Roots, NEW w \in Pages PROVE ContentKept(q, w)
  OBVIOUS
<1>1. CASE q = r /\ w = v
  BY <1>1 DEF Written, ContentKept
<1>2. CASE ~(q = r /\ w = v)
  <2>1. pt'[q][w] = pt[q][w]
    BY <1>2 DEF Written
  <2>. QED
    BY <2>1 DEF Untouched, ContentKept
<1>. QED
  BY <1>1, <1>2

\* A step that writes one leaf, to a page with the same contents, to a page
\* that anyone may have, or over nothing.
LEMMA PutContents ==
  ASSUME Balanced(pt, refs), Untouched, NEW r \in Roots, NEW v \in Pages,
         NEW n \in Entries \cup {None}, Put(r, v, n),
         \/ n = None \/ pt[r][v] = None \/ n.frame \in FileFrames \cup {Zero}
         \/ mem'[n.frame] = mem[pt[r][v].frame]
  PROVE  \A q \in Roots, w \in Pages : ContentKept(q, w)
<1>1. Written(pt, pt', r, v, n)
  BY PutWritten DEF Balanced
<1>2. pt'[r][v] = n
  BY <1>1 DEF Written
<1>3. n # None /\ pt[r][v] # None => ContentKept(r, v)
  BY <1>2 DEF ContentKept
<1>. QED
  BY <1>1, <1>3, WrittenContents

LEMMA PageContents ==
  ASSUME Balanced(pt, refs), mem \in [Physical -> Values], NEW r \in Roots, NEW v \in Pages,
         LeafAction(r, v)
  PROVE  \A q \in Roots, w \in Pages : ContentKept(q, w)
<1>. DEFINE e == pt[r][v]
            All == \A q \in Roots, w \in Pages : ContentKept(q, w)
<1>0. e # None => e \in Entries
  BY BalancedTypes
<1>0a. mem' = mem => Untouched
  BY DEF Untouched
<1>1. ASSUME NEW prot, NEW f \in FileFrames \cup {Zero},
             NEW file \in {"anon", "private", "shared"}, Mmap(r, v, f, prot, file)
      PROVE  All
  <2>. DEFINE n == Leaf(f, prot, file = "shared", file)
  <2>1. n \in Entries /\ n.frame = f /\ f \in Physical
    BY DEF Leaf, Entries, Physical
  <2>2. Put(r, v, n) /\ mem' = mem
    BY <1>1 DEF Mmap
  <2>. HIDE DEF n
  <2>. QED
    BY <1>0a, <2>1, <2>2, PutContents
<1>2. ASSUME \/ \E prot : MapAnonymous(r, v, prot)
             \/ \E prot : \E f \in FileFrames, file \in {"private", "shared"} :
                  MapFile(r, v, f, prot, file)
      PROVE  All
  <2>. HIDE DEF All
  <2>. QED
    BY <1>1, <1>2 DEF MapAnonymous, MapFile
<1>3. ASSUME NEW f \in Frames, PageLink(r, v, f) PROVE All
  <2>. DEFINE n == Linked(f)
  <2>1. n \in Entries
    BY LinkedFields, FramesPhysical
  <2>2. Put(r, v, n) /\ e = None /\ mem' = [mem EXCEPT ![f] = Blank]
        /\ f \in Counted /\ refs[f] = 0
    BY <1>3 DEF PageLink, Linked, Free, Counted
  <2>. HIDE DEF n
  <2>3. Untouched
    BY <2>2, FreeUntouched
  <2>. QED
    BY <2>1, <2>2, <2>3, PutContents
<1>4. ASSUME Unmap(r, v) \/ UnmapShared(r, v) PROVE All
  <2>1. Put(r, v, None) /\ mem' = mem
    BY <1>4 DEF Unmap, UnmapShared
  <2>. QED
    BY <1>0a, <2>1, PutContents
<1>5. ASSUME NEW prot, Protect(r, v, prot) PROVE All
  <2>. DEFINE direct == e.shared \/ e.alias
                        \/ ~((~e.shared /\ e.file # "anon") \/ Multiple(e.frame))
              n == Protected(e, prot, direct)
  <2>1. e \in Entries /\ direct \in BOOLEAN
    BY <1>0, <1>5 DEF Protect
  <2>2. Put(r, v, n) /\ mem' = mem
    BY <1>5 DEF Protect, Protected
  <2>. HIDE DEF direct
  <2>3. n \in Entries /\ n.frame = e.frame
    BY <2>1, ProtectedFields
  <2>. HIDE DEF n
  <2>. QED
    BY <1>0a, <2>2, <2>3, PutContents
<1>6. ASSUME DiscardAnonymous(r, v) PROVE All
  <2>. DEFINE n == Discarded(e)
  <2>1. e \in Entries
    BY <1>0, <1>6 DEF DiscardAnonymous
  <2>2. Put(r, v, n)
    BY <1>6, Zenon DEF DiscardAnonymous, Discarded
  <2>3. mem' = mem
    BY <1>6 DEF DiscardAnonymous
  <2>4. n \in Entries /\ n.frame = Zero
    BY <2>1, DiscardedFields
  <2>. HIDE DEF n
  <2>. QED
    BY <1>0a, <2>2, <2>3, <2>4, PutContents
<1>7. ASSUME NEW f \in FileFrames, DiscardFile(r, v, f) PROVE All
  <2>. DEFINE prot == IF e.write \/ e.cow THEN "rw" ELSE "r"
              n == Leaf(f, prot, FALSE, "private")
  <2>1. Put(r, v, n) /\ mem' = mem
    BY <1>7 DEF DiscardFile
  <2>. HIDE DEF prot
  <2>2. n \in Entries /\ n.frame = f
    BY FramesPhysical DEF Leaf, Entries
  <2>. HIDE DEF n
  <2>. QED
    BY <1>0a, <2>1, <2>2, PutContents
<1>8. ASSUME NEW f \in Frames, WriteFault(r, v, f) PROVE All
  <2>. DEFINE n == Own(e, f)
  <2>1. e \in Entries
    BY <1>0, <1>8 DEF WriteFault
  <2>2. Put(r, v, n) /\ mem' = Copied(e, f) /\ Owns(e, f)
    BY <1>8 DEF WriteFault
  <2>3. n \in Entries /\ n.frame = f
    BY <2>1, OwnFields, FramesPhysical
  <2>. HIDE DEF n
  <2>4. Untouched /\ mem'[f] = mem[e.frame]
    BY <2>1, <2>2, OwnsFree, CopyUntouched
  <2>. QED
    BY <2>2, <2>3, <2>4, PutContents
<1>. HIDE DEF All
<1>9. All
  BY <1>2, <1>3, <1>4, <1>5, <1>6, <1>7, <1>8 DEF LeafAction
<1>. QED
  BY <1>9 DEF All

\* A step that writes two leaves: the second over nothing, or as an alias over
\* an address that was only reserved.
LEMMA TwoContents ==
  ASSUME Balanced(pt, refs), Untouched, NEW r \in Roots, NEW v \in Pages, NEW e \in Entries,
         NEW q \in Roots, NEW w \in Pages, NEW o \in Entries,
         NEW mid, Written(pt, mid, r, v, e), Written(mid, pt', q, w, o),
         mem'[e.frame] = mem[pt[r][v].frame],
         pt[q][w] # None => ~pt[q][w].present /\ o.alias
  PROVE  \A p \in Roots, x \in Pages : ContentKept(p, x)
<1>. SUFFICES ASSUME NEW p \in Roots, NEW x \in Pages PROVE ContentKept(p, x)
  OBVIOUS
<1>1. CASE p = q /\ x = w
  <2>1. pt'[p][x] = o
    BY <1>1 DEF Written
  <2>. QED
    BY <1>1, <2>1 DEF ContentKept
<1>2. CASE ~(p = q /\ x = w) /\ p = r /\ x = v
  <2>1. pt'[p][x] = e
    BY <1>2 DEF Written
  <2>. QED
    BY <1>2, <2>1 DEF ContentKept
<1>3. CASE ~(p = q /\ x = w) /\ ~(p = r /\ x = v)
  <2>1. pt'[p][x] = pt[p][x]
    BY <1>3 DEF Written
  <2>. QED
    BY <2>1 DEF ContentKept, Untouched
<1>. QED
  BY <1>1, <1>2, <1>3

LEMMA AliasContents ==
  ASSUME Balanced(pt, refs), mem \in [Physical -> Values], NEW r \in Roots, NEW s \in Pages,
         NEW d \in Pages, NEW f \in Frames, Alias(r, s, d, f)
  PROVE  \A p \in Roots, x \in Pages : ContentKept(p, x)
<1>. DEFINE e == pt[r][s]
            src == Marked(e, f)
            dst == Second(f)
<1>1. e \in Entries /\ Owns(e, f) /\ f \in Physical /\ mem' = Copied(e, f)
  BY BalancedTypes, FramesPhysical DEF Alias
<1>2. Own(e, f).frame = f
  BY <1>1, OwnFields
<1>3. pt' = [pt EXCEPT ![r][s] = src, ![r][d] = dst] /\ pt \in AllTables
  BY <1>2 DEF Alias, Marked, Second, Balanced
<1>4. src \in Entries /\ src.frame = f
  BY <1>1, MarkedFields
<1>5. dst \in Entries /\ dst.alias
  BY <1>1, SecondFields
<1>. HIDE DEF src, dst
<1>6. PICK mid \in AllTables : Written(pt, mid, r, s, src) /\ Written(mid, pt', r, d, dst)
  BY <1>3, <1>4, <1>5, TwoWritten
<1>7. Untouched /\ mem'[f] = mem[e.frame]
  BY <1>1, OwnsFree, CopyUntouched
<1>8. pt[r][d] # None => ~pt[r][d].present
  BY DEF Alias
<1>. QED
  BY <1>4, <1>5, <1>6, <1>7, <1>8, TwoContents

LEMMA ShareContents ==
  ASSUME Balanced(pt, refs), mem \in [Physical -> Values], NEW r \in Roots, NEW s \in Pages,
         NEW q \in Roots, NEW d \in Pages, NEW f \in Counted, Share(r, s, q, d, f)
  PROVE  \A p \in Roots, x \in Pages : ContentKept(p, x)
<1>. DEFINE e == pt[r][s]
            src == Sent(e, f)
            dst == Received(e, f)
<1>1. /\ e \in Entries /\ pt[q][d] = None /\ f \in Physical /\ mem' = Copied(e, f)
      /\ refs[f] = 0 \/ f = e.frame
  BY BalancedTypes DEF Share, Free, Counted, Physical
<1>2. pt' = [pt EXCEPT ![r][s] = src, ![q][d] = dst] /\ pt \in AllTables
  BY DEF Share, Sent, Received, Balanced
<1>3. src \in Entries /\ src.frame = f
  BY <1>1, SentFields
<1>4. dst \in Entries
  BY <1>1, ReceivedFields
<1>. HIDE DEF src, dst
<1>5. PICK mid \in AllTables : Written(pt, mid, r, s, src) /\ Written(mid, pt', q, d, dst)
  BY <1>2, <1>3, <1>4, TwoWritten
<1>6. Untouched /\ mem'[f] = mem[e.frame]
  BY <1>1, CopyUntouched
<1>. QED
  BY <1>1, <1>3, <1>4, <1>5, <1>6, TwoContents

LEMMA SpaceContents ==
  ASSUME RefInv, NEW r \in live
  PROVE  /\ \A new \in Roots \ live :
              Fork(r, new) => \A p \in Roots, x \in Pages : ContentKept(p, x)
         /\ \A S \in SUBSET Pages :
              ForkFails(r, S) => \A p \in Roots, x \in Pages : ContentKept(p, x)
         /\ Empty(r) => \A p \in Roots, x \in Pages : ContentKept(p, x)
<1>0. r \in Roots /\ pt \in AllTables
  BY DEF RefInv, Balanced
<1>1. ASSUME NEW new \in Roots \ live, Fork(r, new), NEW p \in Roots, NEW x \in Pages
      PROVE  ContentKept(p, x)
  <2>. DEFINE t == Cloned(r, Pages)
  <2>1. pt[r][x] # None => t[x].frame = pt[r][x].frame
    BY <1>0, ClonedFrames
  <2>2. pt'[p] = IF p \in {r, new} THEN t ELSE pt[p]
    BY <1>0, <1>1 DEF Fork, AllTables
  <2>3. mem' = mem /\ pt[new][x] = None
    BY <1>1 DEF Fork, RefInv, DeadEmpty
  <2>. HIDE DEF t
  <2>. QED
    BY <2>1, <2>2, <2>3 DEF ContentKept
<1>2. ASSUME NEW S \in SUBSET Pages, ForkFails(r, S), NEW p \in Roots, NEW x \in Pages
      PROVE  ContentKept(p, x)
  <2>. DEFINE t == Cloned(r, S)
  <2>1. pt[r][x] # None => t[x].frame = pt[r][x].frame
    BY <1>0, ClonedFrames
  <2>2. pt'[p] = IF p = r THEN t ELSE pt[p]
    BY <1>0, <1>2 DEF ForkFails, AllTables
  <2>3. mem' = mem
    BY <1>2 DEF ForkFails
  <2>. HIDE DEF t
  <2>. QED
    BY <2>1, <2>2, <2>3 DEF ContentKept
<1>3. ASSUME Empty(r), NEW p \in Roots, NEW x \in Pages
      PROVE  ContentKept(p, x)
  <2>1. pt'[p][x] = (IF p = r THEN None ELSE pt[p][x]) /\ mem' = mem
    BY <1>0, <1>3 DEF Empty, AllTables, Blanks
  <2>. QED
    BY <2>1 DEF ContentKept
<1>. QED
  BY <1>1, <1>2, <1>3

LEMMA NextContents ==
  ASSUME RefInv, mem \in [Physical -> Values], Next, pt' # pt
  PROVE  \A p \in Roots, x \in Pages : ContentKept(p, x)
<1>. DEFINE All == \A p \in Roots, x \in Pages : ContentKept(p, x)
<1>0. Balanced(pt, refs) /\ live \subseteq Roots
  BY DEF RefInv
<1>1. ASSUME NEW r \in live, NEW v \in Pages, LeafAction(r, v) PROVE All
  BY <1>0, <1>1, PageContents
<1>2. ASSUME NEW r \in live, NEW s \in Pages, NEW d \in Pages, NEW f \in Frames,
             Alias(r, s, d, f)
      PROVE  All
  BY <1>0, <1>2, AliasContents
<1>3. ASSUME NEW r \in live, NEW q \in live, NEW s \in Pages, NEW d \in Pages,
             NEW f \in Counted, Share(r, s, q, d, f)
      PROVE  All
  BY <1>0, <1>3, ShareContents
<1>4. ASSUME NEW r \in live,
             \/ \E new \in Roots \ live : Fork(r, new)
             \/ \E S \in SUBSET Pages : ForkFails(r, S)
             \/ Exec(r) \/ Exit(r)
      PROVE  All
  BY <1>4, SpaceContents DEF Exec, Exit
<1>. HIDE DEF All
<1>5. ASSUME NEW r, NEW v, NEW x PROVE ~Store(r, v, x) /\ ~Spawn(r)
  BY DEF Store, Spawn
<1>6. All
  BY <1>1, <1>2, <1>3, <1>4, <1>5, NextActions
<1>. QED
  BY <1>6 DEF All

\* A step that touches a page table changes no byte that any program sees at an
\* address that stays mapped, unless it maps the address anew: a copy on write
\* has the contents of its original, a page that is given out anew is nobody's,
\* and forks, complete or not, protection changes and sharing keep every page
\* (arch_page_fault_resolve, user_page_allocate, table_clone).
THEOREM ContentsStay == Spec => ContentsKept
<1>. DEFINE I == RefInv /\ ZeroInv
            A == pt' # pt =>
                   \A r \in Roots, v \in Pages :
                     LET old == pt[r][v]
                         new == pt'[r][v] IN
                     old # None /\ new # None /\ mem'[new.frame] # mem[old.frame]
                     => \/ new.frame \in FileFrames \cup {Zero}
                        \/ ~old.present /\ new.alias
<1>1. Init => I
  BY InitRefInv, InitZero
<1>2. I /\ [Next]_vars => I'
  BY NextRefInv, NextKeeps DEF RefInv
<1>3. I /\ [Next]_vars => [A]_vars
  <2>. SUFFICES ASSUME I, Next, pt' # pt, NEW r \in Roots, NEW v \in Pages
                PROVE  ContentKept(r, v)
    BY DEF ContentKept
  <2>1. mem \in [Physical -> Values]
    BY DEF ZeroInv
  <2>. QED
    BY <2>1, NextContents
<1>. QED
  BY <1>1, <1>2, <1>3, PTL DEF Spec, ContentsKept

\* Every action keeps the types of the tables, counts and contents: no count
\* falls below zero, no leaf has a page that does not exist.
THEOREM TypesKept == Spec => []TypeOK
<1>. DEFINE I == RefInv /\ ZeroInv
<1>1. Init => I
  BY InitRefInv, InitZero
<1>2. I /\ [Next]_vars => I'
  BY NextRefInv, NextKeeps DEF RefInv
<1>3. I => TypeOK
  BY DEF RefInv, ZeroInv, Balanced, AllTables, Counted, TypeOK
<1>. QED
  BY <1>1, <1>2, <1>3, PTL DEF Spec
=============================================================================
