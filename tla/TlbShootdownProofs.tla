------------------------- MODULE TlbShootdownProofs -------------------------
(***************************************************************************)
(* Proofs about TlbShootdown: for any number of CPUs, address spaces and   *)
(* pages, with or without PCIDs and however their tags collide, no CPU     *)
(* uses a stale translation after an invalidation or reaches a page that   *)
(* was given back.                                                         *)
(***************************************************************************)
EXTENDS TlbShootdown, TLAPS

\* One CPU holds the kernel lock, and only the holder has an edit under way.
HolderShape ==
  /\ \A c, d \in CPUs : mode[c] = "kernel" /\ mode[d] = "kernel" => c = d
  /\ job.step # "idle" => \E c \in CPUs : mode[c] = "kernel"
  /\ job.step \in {"idle", "send"} => pending = {}
  /\ flushed \subseteq pending
  /\ \A c \in pending : mode[c] # "kernel"

\* The tag of the current PCID is the current root's or none.
TagShape ==
  /\ active_roots = cr3
  /\ use_pcid => \A c \in CPUs :
       pcid_roots[c][Pcid[cr3[c]]] \in {cr3[c], None}

\* Between the send and the answer no CPU concerned holds the root's tag.
TagsDropped ==
  use_pcid /\ ~IsKernel => \A c \in CPUs :
    \/ c \in pending
    \/ job.step = "local" /\ mode[c] = "kernel"
    => pcid_roots[c][Pcid[job.root]] # job.root

\* A root without an address space is loaded nowhere and its tags are gone.
DeadRoots ==
  \A c \in CPUs, r \in Roots \ live :
    /\ cr3[c] # r
    /\ \/ use_pcid => pcid_roots[c][Pcid[r]] # r
       \/ job.step = "send" /\ job.root = r /\ ~IsKernel

\* ... and it maps nothing; a user root maps user pages only.
UserHalf == \A r \in Roots, v \in Pages :
              r \notin live \/ v \in KernelPages => pt[r][v] = None

\* What a CPU can reach is mapped, or kept until the edit ends.
Retained ==
  \A c \in CPUs, v \in Pages :
    Usable(c, v) # None => Usable(c, v).frame \in Mapped \cup job.retired

\* The inductive invariant.
TlbInv ==
  /\ TypeOK /\ HolderShape /\ TagShape /\ TagsDropped /\ DeadRoots /\ UserHalf
  /\ NoStaleTranslation /\ TagSound /\ Retained

\* The caches, current roots and tags agree with the tables as they are.
Settled(cache, roots, tags) ==
  /\ \A d \in CPUs, v \in Pages :
       cache[d][Slot(roots[d])][v] \in {None, Translate(roots[d], v)}
  /\ use_pcid => \A d \in CPUs : tags[d][Pcid[roots[d]]] \in {roots[d], None}
  /\ use_pcid => \A d \in CPUs, r \in AllRoots, v \in Pages :
       tags[d][Pcid[r]] = r => cache[d][Pcid[r]][v] \in {None, Translate(r, v)}

\* The slot of a root is a tag.
LEMMA SlotType == ASSUME TypeOK, NEW r \in AllRoots PROVE Slot(r) \in Pcids
BY TlbAssumption DEF Slot, TypeOK

\* No edit is under way, so nothing stale is cached where it can be used.
LEMMA IdleSettled ==
  ASSUME TlbInv, job.step = "idle"
  PROVE  Settled(tlb, cr3, pcid_roots)
BY DEF TlbInv, Settled, NoStaleTranslation, TagSound, TagShape, HolderShape, Awaited, Usable

\* A present translation is to a mapped page.
LEMMA TranslateMapped ==
  ASSUME TypeOK, NEW r \in AllRoots, NEW v \in Pages, Translate(r, v) # None
  PROVE  Translate(r, v) \in Entries /\ Translate(r, v).frame \in Mapped
BY TlbAssumption DEF TypeOK, Translate, Mapped, Entries, AllRoots

\* Loading a root keeps what the tag vouches for and flushes the rest.
LEMMA LoadSettles ==
  ASSUME TlbInv, job.step = "idle", NEW c \in CPUs, NEW r \in AllRoots, Load(c, r)
  PROVE  /\ Settled(tlb', cr3', pcid_roots')
         /\ active_roots' = cr3'
         /\ cr3' \in [CPUs -> AllRoots]
         /\ tlb' \in [CPUs -> [Pcids -> [Pages -> Entries \cup {None}]]]
         /\ pcid_roots' \in [CPUs -> [Pcids -> AllRoots \cup {None}]]
         /\ cr3'[c] = r
         /\ \A d \in CPUs \ {c} : cr3'[d] = cr3[d]
         /\ \A d \in CPUs, p \in Pcids :
              pcid_roots'[d][p] \in {pcid_roots[d][p], r}
<1> USE TlbAssumption
<1>1. TypeOK /\ Settled(tlb, cr3, pcid_roots) /\ active_roots = cr3
  BY IdleSettled DEF TlbInv, TagShape
<1>2. Slot(r) \in Pcids /\ \A d \in CPUs : Slot(cr3[d]) \in Pcids
  BY <1>1, SlotType DEF TypeOK
<1>3. Empty \in [Pages -> Entries \cup {None}] /\ \A v \in Pages : Empty[v] = None
  BY DEF Empty
<1>4. tlb' \in [CPUs -> [Pcids -> [Pages -> Entries \cup {None}]]]
  BY <1>1, <1>2, <1>3 DEF Load, TypeOK
<1>5. /\ active_roots' = cr3' /\ cr3' \in [CPUs -> AllRoots]
      /\ cr3'[c] = r /\ \A d \in CPUs \ {c} : cr3'[d] = cr3[d]
  BY <1>1 DEF Load, TypeOK
<1>6. /\ pcid_roots' \in [CPUs -> [Pcids -> AllRoots \cup {None}]]
      /\ \A d \in CPUs, p \in Pcids : pcid_roots'[d][p] =
           IF use_pcid /\ d = c /\ p = Pcid[r] THEN r ELSE pcid_roots[d][p]
  BY <1>1 DEF Load, TypeOK
<1>7. \A d \in CPUs, p \in Pcids : tlb'[d][p] =
        IF ~Keeps(c, r) /\ d = c /\ p = Slot(r) THEN Empty ELSE tlb[d][p]
  BY <1>1, <1>2 DEF Load, TypeOK
<1>8. \A d \in CPUs, v \in Pages :
        tlb'[d][Slot(cr3'[d])][v] \in {None, Translate(cr3'[d], v)}
  <2> SUFFICES ASSUME NEW d \in CPUs, NEW v \in Pages
               PROVE  tlb'[d][Slot(cr3'[d])][v] \in {None, Translate(cr3'[d], v)}
    OBVIOUS
  <2>1. CASE d # c
    BY <2>1, <1>1, <1>2, <1>5, <1>7 DEF Settled
  <2>2. CASE d = c /\ ~Keeps(c, r)
    BY <2>2, <1>2, <1>3, <1>5, <1>7
  <2>3. CASE d = c /\ Keeps(c, r)
    BY <2>3, <1>1, <1>2, <1>5, <1>7 DEF Settled, Keeps, Slot
  <2> QED BY <2>1, <2>2, <2>3
<1>9. use_pcid => \A d \in CPUs : pcid_roots'[d][Pcid[cr3'[d]]] \in {cr3'[d], None}
  BY <1>1, <1>5, <1>6 DEF Settled
<1>10. ASSUME use_pcid, NEW d \in CPUs, NEW q \in AllRoots, NEW v \in Pages,
              pcid_roots'[d][Pcid[q]] = q
       PROVE  tlb'[d][Pcid[q]][v] \in {None, Translate(q, v)}
  <2>1. Pcid[q] \in Pcids /\ Slot(r) = Pcid[r] /\ q # None
    BY <1>10 DEF Slot
  <2>2. CASE d = c /\ Pcid[q] = Pcid[r]
    <3>1. q = r
      BY <2>1, <2>2, <1>6, <1>10
    <3>2. CASE Keeps(c, r)
      BY <2>1, <2>2, <3>1, <3>2, <1>1, <1>7, <1>10 DEF Settled, Keeps
    <3>3. CASE ~Keeps(c, r)
      BY <2>1, <2>2, <3>1, <3>3, <1>3, <1>7
    <3> QED BY <3>2, <3>3
  <2>3. CASE ~(d = c /\ Pcid[q] = Pcid[r])
    BY <2>1, <2>3, <1>1, <1>6, <1>7, <1>10 DEF Settled
  <2> QED BY <2>2, <2>3
<1> QED
  BY <1>4, <1>5, <1>6, <1>8, <1>9, <1>10 DEF Settled

\* An edit only changes translations its invalidation covers, and keeps what
\* it unmaps; it may first load another root.
LEMMA EditStep ==
  ASSUME TlbInv, NEW c \in CPUs, Holds(c),
         NEW r \in AllRoots, NEW pages \in SUBSET Pages,
         NEW retired \in SUBSET Frames, Start(r, pages, retired),
         Settled(tlb', cr3', pcid_roots'),
         TypeOK', active_roots' = cr3', DeadRoots', UserHalf',
         \A q \in AllRoots, v \in Pages :
           Translate(q, v)' # Translate(q, v) =>
             \/ Covers(q, v)'
             \/ \A d \in CPUs : cr3'[d] # q
                               /\ (use_pcid => pcid_roots'[d][Pcid[q]] # q),
         Mapped \subseteq Mapped' \cup retired,
         UNCHANGED <<use_pcid, mode, pending, flushed>>
  PROVE  TlbInv'
<1> USE TlbAssumption
<1>1. job'.step = "send" /\ job'.retired = retired /\ job.step = "idle"
  BY DEF Start, Holds
<1>2. HolderShape'
  BY <1>1 DEF TlbInv, HolderShape, Holds
<1>3. TagShape'
  BY DEF Settled, TagShape
<1>4. TagsDropped'
  BY <1>1, <1>2 DEF TagsDropped, HolderShape
<1>5. NoStaleTranslation'
  <2> SUFFICES ASSUME NEW d \in CPUs, NEW v \in Pages
               PROVE  \/ Usable(d, v)' \in {None, Translate(cr3[d], v)'}
                      \/ Covers(cr3[d], v)' /\ Awaited(d)'
    BY DEF NoStaleTranslation
  <2>1. Usable(d, v)' \in {None, Translate(cr3'[d], v)}
    BY DEF Settled, Usable, Slot
  <2>2. Awaited(d)'
    BY <1>1 DEF Awaited
  <2>3. PICK q \in AllRoots : cr3'[d] = q
    BY DEF TypeOK
  <2>4. Translate(q, v)' = Translate(q, v) \/ Covers(q, v)'
    BY <2>3
  <2>5. Translate(cr3[d], v)' = Translate(q, v)' /\ Covers(cr3[d], v)' = Covers(q, v)'
    BY <2>3 DEF Translate, Covers
  <2> QED BY <2>1, <2>2, <2>3, <2>4, <2>5
<1>6. TagSound'
  <2> SUFFICES ASSUME use_pcid, NEW d \in CPUs, NEW q \in AllRoots, NEW v \in Pages,
                      pcid_roots'[d][Pcid[q]] = q
               PROVE  \/ tlb'[d][Pcid[q]][v] \in {None, Translate(q, v)'}
                      \/ Covers(q, v)' /\ Awaited(d)'
    BY DEF TagSound
  <2>1. tlb'[d][Pcid[q]][v] \in {None, Translate(q, v)}
    BY DEF Settled
  <2>2. Awaited(d)'
    BY <1>1 DEF Awaited
  <2> QED BY <2>1, <2>2
<1>7. Retained'
  <2> SUFFICES ASSUME NEW d \in CPUs, NEW v \in Pages, Usable(d, v)' # None
               PROVE  (Usable(d, v)').frame \in Mapped' \cup retired
    BY <1>1 DEF Retained
  <2>1. cr3'[d] \in AllRoots /\ TypeOK
    BY DEF TypeOK, TlbInv
  <2>2. Usable(d, v)' = Translate(cr3'[d], v)
    BY DEF Settled, Usable, Slot
  <2> QED BY <2>1, <2>2, TranslateMapped
<1> QED BY <1>2, <1>3, <1>4, <1>5, <1>6, <1>7 DEF TlbInv

\* At boot every CPU runs on the kernel's root with empty caches.
LEMMA InitTlb == Init => TlbInv
<1> SUFFICES ASSUME Init PROVE TlbInv
  OBVIOUS
<1> USE TlbAssumption DEF Init
<1>1. Empty \in [Pages -> Entries \cup {None}] /\ \A v \in Pages : Empty[v] = None
  BY DEF Empty
<1>2. TypeOK
  BY <1>1 DEF TypeOK, NoJob, AllRoots
<1>3. HolderShape /\ TagShape
  BY DEF HolderShape, TagShape, NoJob, AllRoots
<1>4. TagsDropped /\ DeadRoots /\ UserHalf
  BY <1>1 DEF TagsDropped, DeadRoots, UserHalf, NoJob, AllRoots
<1>5. \A c \in CPUs, p \in Pcids, v \in Pages : tlb[c][p][v] = None
  BY <1>1
<1>6. \A c \in CPUs : Slot(cr3[c]) \in Pcids /\ \A r \in AllRoots : Pcid[r] \in Pcids
  BY <1>2, SlotType DEF TypeOK
<1>7. NoStaleTranslation /\ TagSound /\ Retained
  BY <1>5, <1>6 DEF NoStaleTranslation, TagSound, Retained, Usable
<1> QED BY <1>2, <1>3, <1>4, <1>7 DEF TlbInv

\* Entering, taking and leaving the kernel lock.
LEMMA ModeStep ==
  ASSUME TlbInv, NEW c \in CPUs, Enter(c) \/ Acquire(c) \/ Leave(c)
  PROVE  TlbInv'
<1> USE TlbAssumption DEF TlbInv
<1>1. TypeOK'
  BY DEF TypeOK, Enter, Acquire, Leave
<1>2. HolderShape'
  <2>1. CASE Enter(c)
    <3>1. \A d \in CPUs : mode'[d] = "kernel" <=> mode[d] = "kernel"
      BY <2>1 DEF Enter, TypeOK
    <3> QED BY <2>1, <3>1 DEF Enter, HolderShape, TypeOK
  <2>2. CASE Acquire(c)
    <3>1. job.step = "idle" /\ \A d \in CPUs : mode'[d] = "kernel" <=> d = c
      BY <2>2 DEF Acquire, KernelFree, HolderShape, TypeOK
    <3> QED BY <2>2, <3>1 DEF Acquire, HolderShape, TypeOK
  <2>3. CASE Leave(c)
    <3>1. job.step = "idle" /\ \A d \in CPUs : mode'[d] # "kernel"
      BY <2>3 DEF Leave, Holds, HolderShape, TypeOK
    <3> QED BY <2>3, <3>1 DEF Leave, HolderShape, TypeOK
  <2> QED BY <2>1, <2>2, <2>3
<1>3. \A d \in CPUs : job.step = "local" => (mode'[d] = "kernel" <=> mode[d] = "kernel")
  BY DEF HolderShape, TypeOK, Enter, Acquire, Leave, KernelFree, Holds
<1>4. UNCHANGED <<use_pcid, active_roots, cr3, pcid_roots, tlb, pt, live, job,
                  pending, flushed>>
  BY DEF Enter, Acquire, Leave
<1>5. \A d \in CPUs : Awaited(d)' <=> Awaited(d)
  BY <1>3, <1>4 DEF Awaited
<1>6. TagShape' /\ DeadRoots' /\ UserHalf' /\ TagsDropped'
  BY <1>3, <1>4 DEF TagShape, DeadRoots, UserHalf, TagsDropped, IsKernel
<1>7. NoStaleTranslation' /\ TagSound'
  BY <1>4, <1>5 DEF NoStaleTranslation, TagSound, Usable, Slot, Translate, Covers, IsKernel
<1>8. Retained'
  BY <1>4 DEF Retained, Usable, Slot, Mapped
<1> QED BY <1>1, <1>2, <1>6, <1>7, <1>8

\* A page walk caches what the present table of the current root says.
LEMMA FillStep ==
  ASSUME TlbInv, NEW c \in CPUs, NEW w \in Pages, Fill(c, w)
  PROVE  TlbInv'
<1> USE TlbAssumption DEF TlbInv
<1>0. /\ Slot(cr3[c]) \in Pcids /\ cr3[c] \in AllRoots
      /\ \A d \in CPUs : cr3[d] \in AllRoots /\ Slot(cr3[d]) \in Pcids
  BY SlotType DEF TypeOK
<1>1. Translate(cr3[c], w) \in Entries /\ Translate(cr3[c], w).frame \in Mapped
  BY <1>0, TranslateMapped DEF Fill
<1>2. TypeOK'
  BY <1>0, <1>1 DEF TypeOK, Fill
<1>3. UNCHANGED <<use_pcid, mode, active_roots, cr3, pcid_roots, pt, live, job,
                  pending, flushed>>
  BY DEF Fill
<1>4. HolderShape' /\ TagShape' /\ DeadRoots' /\ UserHalf' /\ TagsDropped'
  BY <1>3 DEF HolderShape, TagShape, DeadRoots, UserHalf, TagsDropped, IsKernel
<1>5. \A d \in CPUs, p \in Pcids, v \in Pages : tlb'[d][p][v] =
        IF d = c /\ p = Slot(cr3[c]) /\ v = w THEN Translate(cr3[c], w)
        ELSE tlb[d][p][v]
  BY <1>0 DEF TypeOK, Fill
<1>6. NoStaleTranslation'
  BY <1>0, <1>3, <1>5 DEF NoStaleTranslation, Usable, Slot, Translate, Covers,
     IsKernel, Awaited
<1>7. TagSound'
  <2> SUFFICES ASSUME use_pcid, NEW d \in CPUs, NEW q \in AllRoots, NEW v \in Pages,
                      pcid_roots[d][Pcid[q]] = q
               PROVE  \/ tlb'[d][Pcid[q]][v] \in {None, Translate(q, v)}
                      \/ Covers(q, v) /\ Awaited(d)
    BY <1>3 DEF TagSound, Translate, Covers, IsKernel, Awaited
  <2>1. CASE d = c /\ Pcid[q] = Slot(cr3[c]) /\ v = w
    <3>1. q = cr3[c]
      BY <2>1, <1>0 DEF TagShape, Slot
    <3> QED BY <2>1, <3>1, <1>5
  <2>2. CASE ~(d = c /\ Pcid[q] = Slot(cr3[c]) /\ v = w)
    BY <2>2, <1>5 DEF TagSound
  <2> QED BY <2>1, <2>2
<1>8. Retained'
  <2> SUFFICES ASSUME NEW d \in CPUs, NEW v \in Pages, Usable(d, v)' # None
               PROVE  (Usable(d, v)').frame \in Mapped \cup job.retired
    BY <1>3 DEF Retained, Mapped
  <2>1. Usable(d, v)' = IF d = c /\ v = w THEN Translate(cr3[c], w) ELSE Usable(d, v)
    BY <1>0, <1>3, <1>5 DEF Usable, Slot
  <2> QED BY <1>1, <2>1 DEF Retained
<1> QED BY <1>2, <1>4, <1>6, <1>7, <1>8

\* A switch of address spaces; no edit is under way.
LEMMA ActivateStep ==
  ASSUME TlbInv, NEW c \in CPUs, NEW r \in AllRoots, Activate(c, r)
  PROVE  TlbInv'
<1> USE TlbAssumption
<1>1. job.step = "idle" /\ Load(c, r) /\ r \in live \cup {KernelRoot}
  BY DEF Activate, Holds
<1>2. UNCHANGED <<use_pcid, mode, pt, live, job, pending, flushed>>
  BY DEF Activate
<1>3. Settled(tlb', cr3', pcid_roots')
  BY <1>1, LoadSettles
<1>4. TypeOK'
  BY <1>1, <1>2, LoadSettles DEF TypeOK, TlbInv
<1>5. HolderShape' /\ TagShape' /\ TagsDropped'
  BY <1>1, <1>2, <1>3, LoadSettles DEF TlbInv, HolderShape, TagShape, TagsDropped, Settled
<1>9. UserHalf'
  BY <1>2 DEF TlbInv, UserHalf
<1>6. DeadRoots'
  <2> SUFFICES ASSUME NEW d \in CPUs, NEW q \in Roots \ live
               PROVE  cr3'[d] # q /\ (use_pcid => pcid_roots'[d][Pcid[q]] # q)
    BY <1>2 DEF DeadRoots
  <2>1. q # r /\ q \in AllRoots /\ Pcid[q] \in Pcids
    BY <1>1 DEF AllRoots
  <2>2. cr3'[d] \in {cr3[d], r}
    BY <1>1, LoadSettles
  <2>3. pcid_roots'[d][Pcid[q]] \in {pcid_roots[d][Pcid[q]], r}
    BY <1>1, <2>1, LoadSettles
  <2> QED BY <1>1, <2>1, <2>2, <2>3 DEF TlbInv, DeadRoots
<1>7. NoStaleTranslation' /\ TagSound'
  BY <1>2, <1>3 DEF NoStaleTranslation, TagSound, Settled, Usable, Slot, Translate
<1>8. Retained'
  <2> SUFFICES ASSUME NEW d \in CPUs, NEW v \in Pages, Usable(d, v)' # None
               PROVE  (Usable(d, v)').frame \in Mapped
    BY <1>2 DEF Retained, Mapped
  <2>1. cr3'[d] \in AllRoots /\ TypeOK
    BY <1>4 DEF TypeOK, TlbInv
  <2>2. Usable(d, v)' = Translate(cr3'[d], v)
    BY <1>2, <1>3 DEF Settled, Usable, Slot
  <2> QED BY <2>1, <2>2, TranslateMapped
<1> QED BY <1>4, <1>5, <1>6, <1>7, <1>8, <1>9 DEF TlbInv

\* Mapping where nothing was present needs no invalidation: nothing is cached.
LEMMA MapStep ==
  ASSUME TlbInv, NEW c \in CPUs, NEW r \in AllRoots, NEW w \in Pages,
         NEW f \in Frames, Editable(r, w), Map(c, r, w, f)
  PROVE  TlbInv'
<1> USE TlbAssumption
<1> DEFINE e == [frame |-> f, write |-> TRUE]
<1>1. job.step = "idle" /\ pt[r][w] = None /\ TypeOK /\ e \in Entries
  BY DEF Map, Holds, TlbInv, Entries
<1>2. UNCHANGED <<use_pcid, mode, active_roots, cr3, pcid_roots, tlb, live, job,
                  pending, flushed>>
  BY DEF Map
<1>3. \A q \in AllRoots, v \in Pages :
        pt'[q][v] = IF q = r /\ v = w THEN e ELSE pt[q][v]
  BY <1>1 DEF Map, TypeOK
<1>4. TypeOK'
  BY <1>1, <1>2 DEF TypeOK, Map
<1>5. HolderShape' /\ TagShape' /\ DeadRoots' /\ TagsDropped'
  BY <1>2 DEF TlbInv, HolderShape, TagShape, DeadRoots, TagsDropped, IsKernel
<1>11. UserHalf'
  BY <1>2, <1>3 DEF TlbInv, UserHalf, Editable, AllRoots
<1>6. \A q \in AllRoots, v \in Pages : Translate(q, v)' # Translate(q, v) => Translate(q, v) = None
  BY <1>1, <1>3 DEF Translate, AllRoots
<1>7. Settled(tlb, cr3, pcid_roots)
  BY <1>1, IdleSettled
<1>8. NoStaleTranslation'
  <2> SUFFICES ASSUME NEW d \in CPUs, NEW v \in Pages
               PROVE  Usable(d, v)' \in {None, Translate(cr3[d], v)'}
    BY DEF NoStaleTranslation
  <2>1. PICK q \in AllRoots : cr3[d] = q
    BY <1>1 DEF TypeOK
  <2>2. Usable(d, v)' \in {None, Translate(q, v)}
    BY <1>2, <1>7, <2>1 DEF Settled, Usable, Slot
  <2>3. Translate(cr3[d], v)' = Translate(q, v)'
    BY <1>2, <2>1 DEF Translate
  <2> QED BY <1>6, <2>1, <2>2, <2>3
<1>9. TagSound'
  <2> SUFFICES ASSUME use_pcid, NEW d \in CPUs, NEW q \in AllRoots, NEW v \in Pages,
                      pcid_roots[d][Pcid[q]] = q
               PROVE  tlb[d][Pcid[q]][v] \in {None, Translate(q, v)'}
    BY <1>2 DEF TagSound
  <2> QED BY <1>6, <1>7 DEF Settled
<1>10. Retained'
  <2>1. Mapped \subseteq Mapped'
    BY <1>1, <1>3 DEF Mapped
  <2> QED BY <1>2, <2>1 DEF TlbInv, Retained, Usable, Slot
<1> QED BY <1>4, <1>5, <1>8, <1>9, <1>10, <1>11 DEF TlbInv

\* A page of one root is replaced, protected or unmapped.
LEMMA PageEditStep ==
  ASSUME TlbInv, NEW c \in CPUs, NEW r \in AllRoots, NEW w \in Pages,
         Editable(r, w),
         \/ \E f \in Frames : Replace(c, r, w, f)
         \/ Protect(c, r, w)
         \/ Unmap(c, r, w)
  PROVE  TlbInv'
<1> USE TlbAssumption
<1>1. Holds(c) /\ job.step = "idle" /\ pt[r][w] \in Entries /\ TypeOK
      /\ pt[r][w].frame \in Frames
  BY DEF Replace, Protect, Unmap, Holds, TlbInv, TypeOK, Entries
<1>2. UNCHANGED <<use_pcid, mode, active_roots, cr3, pcid_roots, tlb, live,
                  pending, flushed>>
  BY DEF Replace, Protect, Unmap
<1>3. /\ Start(r, {w}, job'.retired)
      /\ job'.retired \in SUBSET Frames
      /\ pt' \in [AllRoots -> [Pages -> Entries \cup {None}]]
      /\ \A q \in AllRoots, v \in Pages : q # r \/ v # w => pt'[q][v] = pt[q][v]
      /\ \/ pt[r][w].frame \in job'.retired
         \/ pt'[r][w] # None /\ pt'[r][w].frame = pt[r][w].frame
  <2>1. CASE \E f \in Frames : Replace(c, r, w, f)
    <3>1. PICK f \in Frames : Replace(c, r, w, f)
      BY <2>1
    <3>2. [frame |-> f, write |-> TRUE] \in Entries
      BY DEF Entries
    <3>3. job'.retired = {pt[r][w].frame}
      BY <3>1 DEF Replace, Start
    <3> QED BY <1>1, <3>1, <3>2, <3>3 DEF Replace, Start, TypeOK
  <2>2. CASE Protect(c, r, w)
    <3> DEFINE g == [pt[r][w] EXCEPT !.write = ~@]
    <3>1. g \in Entries /\ g.frame = pt[r][w].frame
      BY <1>1 DEF Entries
    <3>2. pt' = [pt EXCEPT ![r][w] = g]
      BY <1>1, <2>2 DEF Protect, TypeOK
    <3>3. g # None
      BY <3>1
    <3>4. job'.retired = {}
      BY <2>2 DEF Protect, Start
    <3>5. Start(r, {w}, job'.retired)
      BY <2>2, <3>4 DEF Protect
    <3> HIDE DEF g
    <3> QED BY <1>1, <3>1, <3>2, <3>3, <3>4, <3>5 DEF TypeOK
  <2>3. CASE Unmap(c, r, w)
    <3>1. job'.retired = {pt[r][w].frame}
      BY <2>3 DEF Unmap, Start
    <3> QED BY <1>1, <2>3, <3>1 DEF Unmap, Start, TypeOK
  <2> QED BY <2>1, <2>2, <2>3
<1>4. \A q \in AllRoots, v \in Pages : Translate(q, v)' # Translate(q, v)
        => v = w /\ (r = q \/ v \in KernelPages)
  BY <1>3 DEF Translate, Editable, AllRoots
<1>5. job' \in [step : {"idle", "send", "local", "acks"}, root : AllRoots,
                pages : SUBSET Pages, retired : SUBSET Frames]
      /\ job'.root = r /\ job'.pages = {w}
  BY <1>3 DEF Start
<1>6. TypeOK'
  BY <1>1, <1>2, <1>3, <1>5 DEF TypeOK
<1>7. Settled(tlb', cr3', pcid_roots') /\ active_roots' = cr3'
  BY <1>1, <1>2, IdleSettled DEF TlbInv, TagShape
<1>8. DeadRoots' /\ UserHalf'
  BY <1>1, <1>2, <1>3 DEF TlbInv, DeadRoots, UserHalf, Editable, AllRoots
<1>9. \A q \in AllRoots, v \in Pages :
        Translate(q, v)' # Translate(q, v) => Covers(q, v)'
  BY <1>4, <1>5 DEF Translate, Covers, IsKernel, Editable, AllRoots
<1>10. Mapped \subseteq Mapped' \cup job'.retired
  <2> SUFFICES ASSUME NEW f \in Frames, NEW q \in AllRoots, NEW v \in Pages,
                      pt[q][v] # None, pt[q][v].frame = f
               PROVE  f \in Mapped' \cup job'.retired
    BY DEF Mapped
  <2>1. CASE q = r /\ v = w
    BY <2>1, <1>3 DEF Mapped
  <2>2. CASE ~(q = r /\ v = w)
    BY <2>2, <1>3 DEF Mapped
  <2> QED BY <2>1, <2>2
<1> QED BY <1>1, <1>2, <1>3, <1>6, <1>7, <1>8, <1>9, <1>10, EditStep

\* fork: the new root was loaded nowhere, the old one is invalidated.
LEMMA CloneStep ==
  ASSUME TlbInv, NEW c \in CPUs, NEW r \in AllRoots, NEW new \in Roots,
         Clone(c, r, new)
  PROVE  TlbInv'
<1> USE TlbAssumption
<1>1. /\ Holds(c) /\ job.step = "idle" /\ TypeOK
      /\ new \in Roots \ live /\ r # new /\ new # KernelRoot /\ new \in AllRoots
  BY DEF Clone, Holds, TlbInv, AllRoots
<1>2. UNCHANGED <<use_pcid, mode, active_roots, cr3, pcid_roots, tlb, pending,
                  flushed>>
  BY DEF Clone
<1>3. \A v \in Pages : /\ ReadOnly(pt[r][v]) \in Entries \cup {None}
                       /\ pt[r][v] # None => /\ ReadOnly(pt[r][v]) # None
                                            /\ ReadOnly(pt[r][v]).frame = pt[r][v].frame
  <2> SUFFICES ASSUME NEW v \in Pages
               PROVE  /\ ReadOnly(pt[r][v]) \in Entries \cup {None}
                      /\ pt[r][v] # None => /\ ReadOnly(pt[r][v]) # None
                                           /\ ReadOnly(pt[r][v]).frame = pt[r][v].frame
    OBVIOUS
  <2>1. pt[r][v] \in Entries \cup {None}
    BY <1>1 DEF TypeOK
  <2>2. pt[r][v] # None => ReadOnly(pt[r][v]) \in Entries
    BY <2>1 DEF ReadOnly, Entries
  <2> QED BY <2>1, <2>2 DEF ReadOnly, Entries
<1>4. \A q \in AllRoots, v \in Pages : pt'[q][v] =
        IF q = new THEN IF v \in UserPages THEN ReadOnly(pt[r][v]) ELSE None
        ELSE IF q = r /\ v \in UserPages THEN ReadOnly(pt[r][v])
        ELSE pt[q][v]
  BY <1>1 DEF Clone, Cow, TypeOK, Pages
<1>5. Cow(r) \in [Pages -> Entries \cup {None}]
  BY <1>1, <1>3 DEF Cow, TypeOK
<1>6. [v \in Pages |-> IF v \in UserPages THEN Cow(r)[v] ELSE None]
        \in [Pages -> Entries \cup {None}]
  BY <1>5
<1>7. /\ job'.pages = Pages /\ job'.root = r /\ job'.retired = {}
      /\ job' \in [step : {"idle", "send", "local", "acks"}, root : AllRoots,
                   pages : SUBSET Pages, retired : SUBSET Frames]
      /\ Start(r, Pages, {})
  BY DEF Clone, Start
<1>8. TypeOK'
  <2>1. pt' \in [AllRoots -> [Pages -> Entries \cup {None}]]
    BY <1>1, <1>5, <1>6 DEF Clone, TypeOK
  <2> QED BY <1>1, <1>2, <1>7, <2>1 DEF TypeOK, Clone
<1>9. Settled(tlb', cr3', pcid_roots') /\ active_roots' = cr3'
  BY <1>1, <1>2, IdleSettled DEF TlbInv, TagShape
<1>10. DeadRoots' /\ UserHalf'
  <2>1. live' = live \cup {new} /\ r \in live \cup {KernelRoot}
    BY DEF Clone
  <2>2. DeadRoots'
    BY <1>1, <1>2, <2>1 DEF TlbInv, DeadRoots
  <2>3. UserHalf'
    BY <1>1, <1>4, <2>1 DEF TlbInv, UserHalf, AllRoots
  <2> QED BY <2>2, <2>3
<1>11. \A q \in AllRoots, v \in Pages :
         Translate(q, v)' # Translate(q, v) => q \in {r, new} /\ v \in UserPages
  BY <1>1, <1>4 DEF Translate, AllRoots, Pages
<1>12. \A d \in CPUs : cr3'[d] # new /\ (use_pcid => pcid_roots'[d][Pcid[new]] # new)
  BY <1>1, <1>2 DEF TlbInv, DeadRoots
<1>13. \A q \in AllRoots, v \in Pages : Translate(q, v)' # Translate(q, v) =>
         \/ Covers(q, v)'
         \/ \A d \in CPUs : cr3'[d] # q /\ (use_pcid => pcid_roots'[d][Pcid[q]] # q)
  BY <1>7, <1>11, <1>12 DEF Covers
<1>14. Mapped \subseteq Mapped' \cup {}
  <2> SUFFICES ASSUME NEW f \in Frames, NEW q \in AllRoots, NEW v \in Pages,
                      pt[q][v] # None, pt[q][v].frame = f
               PROVE  f \in Mapped'
    BY DEF Mapped
  <2>1. CASE q # new
    BY <2>1, <1>3, <1>4 DEF Mapped
  <2>2. CASE q = new
    BY <2>2, <1>1 DEF TlbInv, UserHalf
  <2> QED BY <2>1, <2>2
<1> QED BY <1>1, <1>2, <1>7, <1>8, <1>9, <1>10, <1>13, <1>14, EditStep

\* exec and the release of an address space empty its user half.
LEMMA TeardownStep ==
  ASSUME TlbInv, NEW c \in CPUs, NEW r \in Roots, Exec(c, r) \/ Release(c, r)
  PROVE  TlbInv'
<1> USE TlbAssumption
<1> DEFINE retired == FramesOf(r, UserPages)
<1>1. /\ Holds(c) /\ job.step = "idle" /\ TypeOK /\ r \in live
      /\ r \in AllRoots /\ r # KernelRoot /\ KernelRoot \in AllRoots
  BY DEF Exec, Release, Holds, TlbInv, AllRoots
<1>2. UNCHANGED <<use_pcid, mode, pending, flushed>> /\ pt' = [pt EXCEPT ![r] = Empty]
      /\ Start(r, Pages, retired)
  BY DEF Exec, Release
<1>3. retired \in SUBSET Frames
  BY <1>1 DEF FramesOf, TypeOK, Entries, Pages
<1>4. \A q \in AllRoots, v \in Pages :
        pt'[q][v] = IF q = r THEN None ELSE pt[q][v]
  BY <1>1, <1>2 DEF TypeOK, Empty
<1>5. /\ job'.pages = Pages /\ job'.root = r
      /\ job' \in [step : {"idle", "send", "local", "acks"}, root : AllRoots,
                   pages : SUBSET Pages, retired : SUBSET Frames]
  BY <1>1, <1>2, <1>3 DEF Start
<1>6. pt' \in [AllRoots -> [Pages -> Entries \cup {None}]]
  BY <1>1, <1>2 DEF TypeOK, Empty
<1>7. /\ Settled(tlb', cr3', pcid_roots') /\ active_roots' = cr3'
      /\ cr3' \in [CPUs -> AllRoots]
      /\ tlb' \in [CPUs -> [Pcids -> [Pages -> Entries \cup {None}]]]
      /\ pcid_roots' \in [CPUs -> [Pcids -> AllRoots \cup {None}]]
      /\ \A d \in CPUs : cr3'[d] \in {cr3[d], KernelRoot}
      /\ \A d \in CPUs, p \in Pcids :
           pcid_roots'[d][p] \in {pcid_roots[d][p], KernelRoot}
  <2>1. CASE Release(c, r) /\ cr3[c] = r
    BY <2>1, <1>1, LoadSettles DEF Release
  <2>2. CASE ~(Release(c, r) /\ cr3[c] = r)
    <3>1. UNCHANGED <<active_roots, cr3, tlb, pcid_roots>>
      BY <2>2 DEF Exec, Release
    <3> QED BY <3>1, <1>1, IdleSettled DEF TlbInv, TagShape, TypeOK
  <2> QED BY <2>1, <2>2
<1>8. live' \in SUBSET Roots /\ live' \in {live, live \ {r}}
      /\ (live' # live => \A d \in CPUs : cr3'[d] # r)
  <2>1. CASE Exec(c, r)
    BY <2>1, <1>1 DEF Exec, TypeOK
  <2>2. CASE Release(c, r)
    <3>1. cr3'[c] # r
      BY <2>2, <1>1, LoadSettles DEF Release
    <3>2. \A d \in CPUs \ {c} : cr3'[d] # r
      BY <2>2, <1>1, <1>7 DEF Release, TlbInv, TagShape
    <3> QED BY <2>2, <3>1, <3>2, <1>1 DEF Release, TypeOK
  <2> QED BY <2>1, <2>2
<1>9. TypeOK'
  BY <1>1, <1>2, <1>5, <1>6, <1>7, <1>8 DEF TypeOK
<1>10. UserHalf'
  BY <1>1, <1>4, <1>8 DEF TlbInv, UserHalf, AllRoots
<1>11. ASSUME NEW d \in CPUs, NEW q \in Roots \ live'
       PROVE  /\ cr3'[d] # q
              /\ \/ use_pcid' => pcid_roots'[d][Pcid[q]] # q
                 \/ job'.step = "send" /\ job'.root = q /\ ~IsKernel'
  <2>1. q # KernelRoot /\ q \in AllRoots /\ Pcid[q] \in Pcids
    BY DEF AllRoots
  <2>2. CASE q = r
    <3>1. live' # live
      BY <2>2, <1>1
    <3>2. ~IsKernel' /\ job'.step = "send"
      BY <1>2, <1>5 DEF Start, IsKernel, Pages
    <3> QED BY <2>2, <3>1, <3>2, <1>5, <1>8
  <2>3. CASE q # r
    BY <2>1, <2>3, <1>1, <1>2, <1>7, <1>8 DEF TlbInv, DeadRoots
  <2> QED BY <2>2, <2>3
<1>12. DeadRoots'
  BY <1>11 DEF DeadRoots
<1>13. \A q \in AllRoots, v \in Pages :
         Translate(q, v)' # Translate(q, v) => Covers(q, v)'
  BY <1>1, <1>4, <1>5 DEF Translate, Covers
<1>14. Mapped \subseteq Mapped' \cup retired
  <2> SUFFICES ASSUME NEW f \in Frames, NEW q \in AllRoots, NEW v \in Pages,
                      pt[q][v] # None, pt[q][v].frame = f
               PROVE  f \in Mapped' \cup retired
    BY DEF Mapped
  <2>1. CASE q = r
    BY <2>1, <1>1 DEF FramesOf, TlbInv, UserHalf, Pages
  <2>2. CASE q # r
    BY <2>2, <1>4 DEF Mapped
  <2> QED BY <2>1, <2>2
<1> HIDE DEF retired
<1> QED BY <1>1, <1>2, <1>3, <1>7, <1>9, <1>10, <1>12, <1>13, <1>14, EditStep

\* The send drops the root's tags and awaits every CPU that runs on it.
LEMMA SendStep ==
  ASSUME TlbInv, NEW c \in CPUs, Send(c)
  PROVE  TlbInv'
<1> USE TlbAssumption
<1>1. TypeOK /\ mode[c] = "kernel" /\ job.step = "send" /\ pending = {} /\ flushed = {}
  BY DEF Send, TlbInv, HolderShape
<1>2. /\ UNCHANGED <<use_pcid, mode, active_roots, cr3, tlb, pt, live, flushed>>
      /\ job' = [job EXCEPT !.step = "local"] /\ pending' = Targets(c)
  BY DEF Send
<1>3. /\ job'.step = "local" /\ job'.root = job.root /\ job'.pages = job.pages
      /\ job'.retired = job.retired /\ IsKernel' = IsKernel
  BY <1>1, <1>2 DEF TypeOK, IsKernel
<1>4. job.root \in AllRoots /\ Pcid[job.root] \in Pcids
  BY <1>1 DEF TypeOK
<1>5. \A d \in CPUs, p \in Pcids : pcid_roots'[d][p] =
        IF use_pcid /\ ~IsKernel /\ p = Pcid[job.root] /\ pcid_roots[d][p] = job.root
        THEN None ELSE pcid_roots[d][p]
  BY <1>1 DEF Send, DropTags, TypeOK
<1>6. pcid_roots' \in [CPUs -> [Pcids -> AllRoots \cup {None}]]
  BY <1>1 DEF Send, DropTags, TypeOK
<1>7. TypeOK'
  BY <1>1, <1>2, <1>6 DEF TypeOK, Targets
<1>8. HolderShape'
  BY <1>1, <1>2, <1>3 DEF TlbInv, HolderShape, Targets
<1>9. TagShape'
  BY <1>1, <1>2, <1>5 DEF TlbInv, TagShape, TypeOK
<1>10. use_pcid /\ ~IsKernel => \A d \in CPUs : pcid_roots'[d][Pcid[job.root]] # job.root
  BY <1>4, <1>5
<1>11. TagsDropped'
  BY <1>2, <1>3, <1>10 DEF TagsDropped
<1>12. DeadRoots' /\ UserHalf'
  <2>1. DeadRoots'
    <3> SUFFICES ASSUME NEW d \in CPUs, NEW q \in Roots \ live
                 PROVE  cr3[d] # q /\ (use_pcid => pcid_roots'[d][Pcid[q]] # q)
      BY <1>2 DEF DeadRoots
    <3>1. q \in AllRoots /\ q # None /\ Pcid[q] \in Pcids
      BY DEF AllRoots
    <3> QED BY <3>1, <1>5, <1>10 DEF TlbInv, DeadRoots
  <2>2. UserHalf'
    BY <1>2 DEF TlbInv, UserHalf
  <2> QED BY <2>1, <2>2
<1>13. \A d \in CPUs : IsKernel \/ cr3[d] = job.root => Awaited(d)'
  BY <1>1, <1>2, <1>3 DEF Awaited, Targets, TlbInv, TagShape
<1>14. NoStaleTranslation'
  BY <1>2, <1>3, <1>13 DEF TlbInv, NoStaleTranslation, Usable, Slot, Translate, Covers
<1>15. TagSound'
  <2> SUFFICES ASSUME use_pcid, NEW d \in CPUs, NEW q \in AllRoots, NEW v \in Pages,
                      pcid_roots'[d][Pcid[q]] = q
               PROVE  \/ tlb[d][Pcid[q]][v] \in {None, Translate(q, v)}
                      \/ Covers(q, v) /\ Awaited(d)'
    BY <1>2, <1>3 DEF TagSound, Translate, Covers
  <2>1. pcid_roots[d][Pcid[q]] = q
    BY <1>5
  <2>2. q = job.root => IsKernel
    BY <1>10
  <2> QED BY <2>1, <2>2, <1>13 DEF TlbInv, TagSound, Covers
<1>16. Retained'
  BY <1>2, <1>3 DEF TlbInv, Retained, Usable, Slot, Mapped
<1> QED BY <1>7, <1>8, <1>9, <1>11, <1>12, <1>14, <1>15, <1>16 DEF TlbInv

\* Every target has answered: nobody can reach what is released.
LEMMA ReclaimStep ==
  ASSUME TlbInv, NEW c \in CPUs, Reclaim(c)
  PROVE  TlbInv'
<1> USE TlbAssumption
<1>1. UNCHANGED <<use_pcid, mode, active_roots, cr3, pcid_roots, tlb, pt, live,
                  pending, flushed>>
  BY DEF Reclaim
<1>2. job.step = "acks" /\ pending = {} /\ job' = NoJob /\ TypeOK
  BY DEF Reclaim, TlbInv
<1>3. \A d \in CPUs : ~Awaited(d)
  BY <1>2 DEF Awaited
<1>4. TypeOK'
  BY <1>1, <1>2 DEF TypeOK, NoJob, AllRoots
<1>5. HolderShape' /\ TagShape' /\ TagsDropped' /\ DeadRoots' /\ UserHalf'
  BY <1>1, <1>2 DEF TlbInv, HolderShape, TagShape, TagsDropped, DeadRoots,
     UserHalf, NoJob, IsKernel
<1>6. NoStaleTranslation' /\ TagSound'
  BY <1>1, <1>3 DEF TlbInv, NoStaleTranslation, TagSound, Usable, Slot, Translate
<1>7. Retained'
  <2> SUFFICES ASSUME NEW d \in CPUs, NEW v \in Pages, Usable(d, v) # None
               PROVE  Usable(d, v).frame \in Mapped
    BY <1>1 DEF Retained, Usable, Slot, Mapped
  <2>1. Usable(d, v) = Translate(cr3[d], v) /\ cr3[d] \in AllRoots
    BY <1>2, <1>3 DEF TlbInv, NoStaleTranslation, TypeOK
  <2> QED BY <1>2, <2>1, TranslateMapped
<1> QED BY <1>4, <1>5, <1>6, <1>7 DEF TlbInv

\* tlb_invalidate_local only removes entries, and all that the edit covers.
LEMMA InvalidateLemma ==
  ASSUME TypeOK, NEW c \in CPUs, tlb' = InvalidateLocal(c)
  PROVE  /\ tlb' \in [CPUs -> [Pcids -> [Pages -> Entries \cup {None}]]]
         /\ \A d \in CPUs, p \in Pcids, v \in Pages :
              tlb'[d][p][v] = IF /\ d = c
                                 /\ \/ IsKernel
                                    \/ /\ cr3[c] = job.root /\ p = Slot(job.root)
                                       /\ v \in job.pages
                              THEN None ELSE tlb[d][p][v]
<1>1. job.root \in AllRoots /\ Slot(job.root) \in Pcids
  BY SlotType DEF TypeOK
<1>2. Empty \in [Pages -> Entries \cup {None}] /\ \A v \in Pages : Empty[v] = None
  BY DEF Empty
<1>3. CASE IsKernel
  BY <1>2, <1>3 DEF InvalidateLocal, TypeOK
<1>4. CASE ~IsKernel /\ cr3[c] # job.root
  BY <1>4 DEF InvalidateLocal, TypeOK
<1>5. CASE ~IsKernel /\ cr3[c] = job.root
  <2> DEFINE kept == [v \in Pages |-> IF v \in job.pages THEN None
                                      ELSE tlb[c][Slot(job.root)][v]]
  <2>1. tlb' = [tlb EXCEPT ![c][Slot(job.root)] = kept]
    BY <1>1, <1>5 DEF InvalidateLocal, TypeOK
  <2>2. kept \in [Pages -> Entries \cup {None}]
    BY <1>1 DEF TypeOK
  <2>3. \A v \in Pages : kept[v] = IF v \in job.pages THEN None
                                   ELSE tlb[c][Slot(job.root)][v]
    OBVIOUS
  <2> HIDE DEF kept
  <2>4. tlb' \in [CPUs -> [Pcids -> [Pages -> Entries \cup {None}]]]
    BY <1>1, <2>1, <2>2 DEF TypeOK
  <2>5. \A d \in CPUs, p \in Pcids : tlb'[d][p] =
          IF d = c /\ p = Slot(job.root) THEN kept ELSE tlb[d][p]
    BY <1>1, <2>1 DEF TypeOK
  <2> QED BY <1>5, <2>3, <2>4, <2>5
<1> QED BY <1>3, <1>4, <1>5

\* A CPU drops what the edit covers and stops being awaited.
LEMMA FlushStep ==
  ASSUME TlbInv, NEW c \in CPUs, tlb' = InvalidateLocal(c),
         \A d \in CPUs \ {c} : Awaited(d) => Awaited(d)',
         IsKernel' = IsKernel, job'.pages = job.pages, job'.root = job.root,
         job'.retired = job.retired,
         use_pcid /\ ~IsKernel => pcid_roots[c][Pcid[job.root]] # job.root,
         UNCHANGED <<use_pcid, cr3, pt>>
  PROVE  /\ NoStaleTranslation' /\ Retained'
         /\ use_pcid => \A d \in CPUs, q \in AllRoots, v \in Pages :
              pcid_roots[d][Pcid[q]] = q =>
                \/ tlb'[d][Pcid[q]][v] \in {None, Translate(q, v)}
                \/ Covers(q, v) /\ Awaited(d)'
<1> USE TlbAssumption
<1>0. TypeOK /\ \A d \in CPUs : cr3[d] \in AllRoots /\ Slot(cr3[d]) \in Pcids
  BY SlotType DEF TlbInv, TypeOK
<1>1. \A d \in CPUs, p \in Pcids, v \in Pages :
        tlb'[d][p][v] = IF /\ d = c
                           /\ \/ IsKernel
                              \/ /\ cr3[c] = job.root /\ p = Slot(job.root)
                                 /\ v \in job.pages
                        THEN None ELSE tlb[d][p][v]
  BY <1>0, InvalidateLemma
<1>2. \A q \in AllRoots, v \in Pages : /\ Translate(q, v)' = Translate(q, v)
                                      /\ Covers(q, v)' = Covers(q, v)
  BY DEF Translate, Covers
<1>3. NoStaleTranslation'
  <2> SUFFICES ASSUME NEW d \in CPUs, NEW v \in Pages
               PROVE  \/ tlb'[d][Slot(cr3[d])][v] \in {None, Translate(cr3[d], v)}
                      \/ Covers(cr3[d], v) /\ Awaited(d)'
    BY <1>0, <1>2 DEF NoStaleTranslation, Usable, Slot, Translate, Covers
  <2>1. \/ tlb[d][Slot(cr3[d])][v] \in {None, Translate(cr3[d], v)}
        \/ Covers(cr3[d], v) /\ Awaited(d)
    BY DEF TlbInv, NoStaleTranslation, Usable
  <2>2. CASE d # c
    BY <1>0, <1>1, <2>1, <2>2
  <2>3. CASE d = c
    BY <1>0, <1>1, <2>1, <2>3 DEF Covers
  <2> QED BY <2>2, <2>3
<1>4. Retained'
  <2> SUFFICES ASSUME NEW d \in CPUs, NEW v \in Pages, Usable(d, v)' # None
               PROVE  (Usable(d, v)').frame \in Mapped \cup job.retired
    BY DEF Retained, Mapped
  <2>1. Usable(d, v)' = Usable(d, v)
    BY <1>0, <1>1 DEF Usable, Slot
  <2> QED BY <2>1 DEF TlbInv, Retained
<1>5. ASSUME use_pcid, NEW d \in CPUs, NEW q \in AllRoots, NEW v \in Pages,
             pcid_roots[d][Pcid[q]] = q
      PROVE  \/ tlb'[d][Pcid[q]][v] \in {None, Translate(q, v)}
             \/ Covers(q, v) /\ Awaited(d)'
  <2>1. \/ tlb[d][Pcid[q]][v] \in {None, Translate(q, v)}
        \/ Covers(q, v) /\ Awaited(d)
    BY <1>5 DEF TlbInv, TagSound
  <2>2. CASE d # c
    BY <1>1, <1>5, <2>1, <2>2
  <2>3. CASE d = c
    BY <1>1, <1>5, <2>1, <2>3 DEF Covers
  <2> QED BY <2>2, <2>3
<1> QED BY <1>3, <1>4, <1>5

\* The tag of the current root may be restored once its CPU has flushed.
LEMMA RetagSound ==
  ASSUME NEW c \in CPUs, ~Awaited(c)', NoStaleTranslation',
         use_pcid => \A d \in CPUs, q \in AllRoots, v \in Pages :
           pcid_roots[d][Pcid[q]] = q =>
             \/ tlb'[d][Pcid[q]][v] \in {None, Translate(q, v)}
             \/ Covers(q, v) /\ Awaited(d)',
         \A d \in CPUs, p \in Pcids : pcid_roots'[d][p] =
           IF use_pcid /\ ~IsKernel /\ d = c /\ cr3[c] = job.root /\ p = Pcid[job.root]
           THEN job.root ELSE pcid_roots[d][p],
         IsKernel' = IsKernel, job'.pages = job.pages, job'.root = job.root,
         UNCHANGED <<use_pcid, cr3, pt>>
  PROVE  TagSound'
<1> USE TlbAssumption
<1>1. \A q \in AllRoots, v \in Pages : /\ Translate(q, v)' = Translate(q, v)
                                      /\ Covers(q, v)' = Covers(q, v)
  BY DEF Translate, Covers
<1> SUFFICES ASSUME use_pcid, NEW d \in CPUs, NEW q \in AllRoots, NEW v \in Pages,
                    pcid_roots'[d][Pcid[q]] = q
             PROVE  \/ tlb'[d][Pcid[q]][v] \in {None, Translate(q, v)}
                    \/ Covers(q, v) /\ Awaited(d)'
  BY <1>1 DEF TagSound
<1>2. CASE pcid_roots[d][Pcid[q]] = q
  BY <1>2
<1>3. CASE pcid_roots[d][Pcid[q]] # q
  <2>1. d = c /\ q = job.root /\ cr3[c] = q
    BY <1>3
  <2>2. Usable(c, v)' = tlb'[c][Pcid[q]][v]
    BY <2>1 DEF Usable, Slot
  <2>3. Translate(cr3[c], v)' = Translate(q, v)
    BY <2>1 DEF Translate
  <2> QED BY <2>1, <2>2, <2>3 DEF NoStaleTranslation
<1> QED BY <1>2, <1>3

\* The sender flushes its own CPU and restores the tag if the root is active.
LEMMA LocalStep ==
  ASSUME TlbInv, NEW c \in CPUs, Local(c)
  PROVE  TlbInv'
<1> USE TlbAssumption
<1>1. TypeOK /\ mode[c] = "kernel" /\ job.step = "local" /\ active_roots = cr3
  BY DEF Local, TlbInv, TagShape
<1>2. /\ UNCHANGED <<use_pcid, mode, active_roots, cr3, pt, live, pending, flushed>>
      /\ job' = [job EXCEPT !.step = "acks"] /\ tlb' = InvalidateLocal(c)
  BY DEF Local
<1>3. /\ job'.step = "acks" /\ job'.root = job.root /\ job'.pages = job.pages
      /\ job'.retired = job.retired /\ IsKernel' = IsKernel
      /\ job.root \in AllRoots /\ job.root # None /\ Pcid[job.root] \in Pcids
  BY <1>1, <1>2 DEF TypeOK, IsKernel
<1>4. \A d \in CPUs \ {c} : Awaited(d) => Awaited(d)'
  BY <1>1, <1>2 DEF Awaited, TlbInv, HolderShape
<1>5. c \notin pending
  BY <1>1 DEF TlbInv, HolderShape
<1>6. use_pcid /\ ~IsKernel => pcid_roots[c][Pcid[job.root]] # job.root
  BY <1>1 DEF TlbInv, TagsDropped
<1>7. \A d \in CPUs, p \in Pcids : pcid_roots'[d][p] =
        IF use_pcid /\ ~IsKernel /\ d = c /\ cr3[c] = job.root /\ p = Pcid[job.root]
        THEN job.root ELSE pcid_roots[d][p]
  BY <1>1, <1>3 DEF Local, Retag, TypeOK
<1>8. TypeOK'
  BY <1>1, <1>2, <1>3, InvalidateLemma DEF TypeOK, Local, Retag
<1>9. HolderShape' /\ TagsDropped' /\ UserHalf'
  <2>1. HolderShape' /\ UserHalf'
    BY <1>1, <1>2, <1>3 DEF TlbInv, HolderShape, UserHalf
  <2>2. TagsDropped'
    BY <1>1, <1>2, <1>3, <1>5, <1>7 DEF TlbInv, TagsDropped, TypeOK
  <2> QED BY <2>1, <2>2
<1>10. TagShape'
  <2> SUFFICES ASSUME use_pcid, NEW d \in CPUs
               PROVE  pcid_roots'[d][Pcid[cr3[d]]] \in {cr3[d], None}
    BY <1>1, <1>2 DEF TagShape
  <2>1. cr3[d] \in AllRoots /\ Pcid[cr3[d]] \in Pcids
    BY <1>1 DEF TypeOK
  <2> QED BY <1>7, <2>1 DEF TlbInv, TagShape
<1>11. DeadRoots'
  <2> SUFFICES ASSUME NEW d \in CPUs, NEW q \in Roots \ live
               PROVE  cr3[d] # q /\ (use_pcid => pcid_roots'[d][Pcid[q]] # q)
    BY <1>2 DEF DeadRoots
  <2>1. q \in AllRoots /\ Pcid[q] \in Pcids
    BY DEF AllRoots
  <2>2. cr3[d] # q /\ cr3[c] # q /\ (use_pcid => pcid_roots[d][Pcid[q]] # q)
    BY <1>1 DEF TlbInv, DeadRoots
  <2> QED BY <1>7, <2>1, <2>2
<1>12. /\ NoStaleTranslation' /\ Retained'
       /\ use_pcid => \A d \in CPUs, q \in AllRoots, v \in Pages :
            pcid_roots[d][Pcid[q]] = q =>
              \/ tlb'[d][Pcid[q]][v] \in {None, Translate(q, v)}
              \/ Covers(q, v) /\ Awaited(d)'
  BY <1>2, <1>3, <1>4, <1>6, FlushStep
<1>13. ~Awaited(c)'
  BY <1>2, <1>3, <1>5 DEF Awaited
<1>14. TagSound'
  BY <1>2, <1>3, <1>7, <1>12, <1>13, RetagSound
<1> QED BY <1>8, <1>9, <1>10, <1>11, <1>12, <1>14 DEF TlbInv

\* A target flushes.
LEMMA PollFlushStep ==
  ASSUME TlbInv, NEW c \in CPUs, PollFlush(c)
  PROVE  TlbInv'
<1> USE TlbAssumption
<1>1. TypeOK /\ c \in pending \ flushed /\ job.step \in {"local", "acks"}
      /\ mode[c] # "kernel"
  BY DEF PollFlush, CanPoll, TlbInv, HolderShape, TypeOK
<1>2. /\ UNCHANGED <<use_pcid, mode, active_roots, cr3, pcid_roots, pt, live, job,
                    pending>>
      /\ tlb' = InvalidateLocal(c) /\ flushed' = flushed \cup {c}
  BY DEF PollFlush
<1>3. TypeOK'
  BY <1>1, <1>2, InvalidateLemma DEF TypeOK
<1>4. HolderShape' /\ TagShape' /\ TagsDropped' /\ DeadRoots' /\ UserHalf'
  BY <1>1, <1>2 DEF TlbInv, HolderShape, TagShape, TagsDropped, DeadRoots,
     UserHalf, IsKernel
<1>5. \A d \in CPUs \ {c} : Awaited(d) => Awaited(d)'
  BY <1>2 DEF Awaited
<1>6. use_pcid /\ ~IsKernel => pcid_roots[c][Pcid[job.root]] # job.root
  BY <1>1 DEF TlbInv, TagsDropped
<1>7. IsKernel' = IsKernel
  BY <1>2 DEF IsKernel
<1>8. /\ NoStaleTranslation' /\ Retained'
      /\ use_pcid => \A d \in CPUs, q \in AllRoots, v \in Pages :
           pcid_roots[d][Pcid[q]] = q =>
             \/ tlb'[d][Pcid[q]][v] \in {None, Translate(q, v)}
             \/ Covers(q, v) /\ Awaited(d)'
  BY <1>2, <1>5, <1>6, <1>7, FlushStep
<1>9. TagSound'
  BY <1>2, <1>7, <1>8 DEF TagSound, Translate, Covers
<1> QED BY <1>3, <1>4, <1>8, <1>9 DEF TlbInv

\* A target restores its tag and answers.
LEMMA PollAckStep ==
  ASSUME TlbInv, NEW c \in CPUs, PollAck(c)
  PROVE  TlbInv'
<1> USE TlbAssumption
<1>1. TypeOK /\ c \in flushed /\ c \in pending /\ job.step \in {"local", "acks"}
      /\ mode[c] # "kernel"
  BY DEF PollAck, TlbInv, HolderShape, TypeOK
<1>2. /\ UNCHANGED <<use_pcid, mode, active_roots, cr3, tlb, pt, live, job>>
      /\ pending' = pending \ {c} /\ flushed' = flushed \ {c} /\ IsKernel' = IsKernel
  BY DEF PollAck, IsKernel
<1>3. job.root \in AllRoots /\ job.root # None /\ Pcid[job.root] \in Pcids
  BY <1>1 DEF TypeOK
<1>4. \A d \in CPUs, p \in Pcids : pcid_roots'[d][p] =
        IF use_pcid /\ ~IsKernel /\ d = c /\ cr3[c] = job.root /\ p = Pcid[job.root]
        THEN job.root ELSE pcid_roots[d][p]
  BY <1>1, <1>3 DEF PollAck, Retag, TypeOK
<1>5. TypeOK'
  BY <1>1, <1>2, <1>3 DEF TypeOK, PollAck, Retag
<1>6. \A d \in CPUs : Awaited(d) => Awaited(d)'
  BY <1>1, <1>2 DEF Awaited
<1>7. ~Awaited(c)'
  BY <1>1, <1>2 DEF Awaited
<1>8. HolderShape' /\ UserHalf'
  BY <1>1, <1>2 DEF TlbInv, HolderShape, UserHalf
<1>9. TagsDropped'
  BY <1>1, <1>2, <1>4 DEF TlbInv, TagsDropped, TypeOK
<1>10. TagShape'
  <2> SUFFICES ASSUME use_pcid, NEW d \in CPUs
               PROVE  pcid_roots'[d][Pcid[cr3[d]]] \in {cr3[d], None}
    BY <1>2 DEF TagShape, TlbInv
  <2>1. cr3[d] \in AllRoots /\ Pcid[cr3[d]] \in Pcids
    BY <1>1 DEF TypeOK
  <2> QED BY <1>4, <2>1 DEF TlbInv, TagShape
<1>11. DeadRoots'
  <2> SUFFICES ASSUME NEW d \in CPUs, NEW q \in Roots \ live
               PROVE  cr3[d] # q /\ (use_pcid => pcid_roots'[d][Pcid[q]] # q)
    BY <1>2 DEF DeadRoots
  <2>1. q \in AllRoots /\ Pcid[q] \in Pcids
    BY DEF AllRoots
  <2>2. cr3[d] # q /\ cr3[c] # q /\ (use_pcid => pcid_roots[d][Pcid[q]] # q)
    BY <1>1 DEF TlbInv, DeadRoots
  <2> QED BY <1>4, <2>1, <2>2
<1>12. NoStaleTranslation' /\ Retained'
  <2>1. NoStaleTranslation'
    BY <1>2, <1>6 DEF TlbInv, NoStaleTranslation, Usable, Slot, Translate, Covers
  <2>2. Retained'
    BY <1>2 DEF TlbInv, Retained, Usable, Slot, Mapped
  <2> QED BY <2>1, <2>2
<1>13. TagSound'
  <2>1. use_pcid => \A d \in CPUs, q \in AllRoots, v \in Pages :
          pcid_roots[d][Pcid[q]] = q =>
            \/ tlb'[d][Pcid[q]][v] \in {None, Translate(q, v)}
            \/ Covers(q, v) /\ Awaited(d)'
    BY <1>2, <1>6 DEF TlbInv, TagSound
  <2> QED BY <1>2, <1>4, <1>7, <1>12, <2>1, RetagSound
<1> QED BY <1>5, <1>8, <1>9, <1>10, <1>11, <1>12, <1>13 DEF TlbInv

\* Every step preserves the invariant.
LEMMA TlbStep == TlbInv /\ [Next]_vars => TlbInv'
<1> SUFFICES ASSUME TlbInv, [Next]_vars PROVE TlbInv'
  OBVIOUS
<1>1. CASE UNCHANGED vars
  <2> USE <1>1 DEF vars
  <2>1. TypeOK' /\ HolderShape' /\ TagShape'
    BY DEF TlbInv, TypeOK, HolderShape, TagShape
  <2>2. TagsDropped' /\ DeadRoots' /\ UserHalf'
    BY DEF TlbInv, TagsDropped, DeadRoots, UserHalf, IsKernel
  <2>3. NoStaleTranslation' /\ TagSound'
    BY DEF TlbInv, NoStaleTranslation, TagSound, Usable, Slot, Translate, Covers,
       Awaited, IsKernel
  <2>4. Retained'
    BY DEF TlbInv, Retained, Usable, Slot, Mapped
  <2> QED BY <2>1, <2>2, <2>3, <2>4 DEF TlbInv
<1>2. CASE Next
  <2> PICK c \in CPUs :
        \/ Enter(c) \/ Acquire(c) \/ Leave(c)
        \/ \E r \in AllRoots : Activate(c, r)
        \/ EditNext(c)
        \/ Send(c) \/ Local(c) \/ Reclaim(c)
        \/ PollFlush(c) \/ PollAck(c)
        \/ \E v \in Pages : Fill(c, v)
    BY <1>2 DEF Next
  <2>1. CASE Enter(c) \/ Acquire(c) \/ Leave(c)
    BY <2>1, ModeStep
  <2>2. CASE \E r \in AllRoots : Activate(c, r)
    BY <2>2, ActivateStep
  <2>3. CASE EditNext(c)
    BY <2>3, MapStep, PageEditStep, CloneStep, TeardownStep DEF EditNext
  <2>4. CASE Send(c) \/ Local(c) \/ Reclaim(c)
    BY <2>4, SendStep, LocalStep, ReclaimStep
  <2>5. CASE PollFlush(c) \/ PollAck(c)
    BY <2>5, PollFlushStep, PollAckStep
  <2>6. CASE \E v \in Pages : Fill(c, v)
    BY <2>6, FillStep
  <2> QED BY <2>1, <2>2, <2>3, <2>4, <2>5, <2>6
<1> QED BY <1>1, <1>2 DEF TlbInv

\* The inductive invariant holds in every behaviour: tags vouch for what is
\* cached, and only CPUs the sender still waits for hold what an edit removed.
THEOREM TlbCorrect == Spec => []TlbInv
BY InitTlb, TlbStep, PTL DEF Spec

\* x64_tlb_invalidate leaves no usable stale translation on any CPU.
THEOREM TranslationsCurrent == Spec => []NoStaleTranslation
<1>1. TlbInv => NoStaleTranslation
  BY DEF TlbInv
<1> QED BY <1>1, TlbCorrect, PTL

\* A matching tag makes a switch without a flush safe.
THEOREM TagsSound == Spec => []TagSound
<1>1. TlbInv => TagSound
  BY DEF TlbInv
<1> QED BY <1>1, TlbCorrect, PTL

\* No CPU can use a page after it was released to the allocator.
THEOREM ReleasedUnreachable == Spec => []NoUseAfterFree
<1>1. TlbInv => NoUseAfterFree
  BY DEF TlbInv, Retained, NoUseAfterFree, Free
<1> QED BY <1>1, TlbCorrect, PTL
=============================================================================
