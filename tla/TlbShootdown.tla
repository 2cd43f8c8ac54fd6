---------------------------- MODULE TlbShootdown ----------------------------
(***************************************************************************)
(* Translation caches of the x86_64 kernel (arch/x86/x86_64/tlb.c) and the *)
(* page-table edits of page.c that depend on them.                         *)
(*                                                                         *)
(* Every CPU caches translations under the PCID of its CR3.  PCIDs are     *)
(* direct mapped from the root's physical address, so two address spaces   *)
(* may share one; pcid_roots remembers which root the entries of a PCID    *)
(* belong to and lets a switch skip the flush.  An edit of a page table is *)
(* followed by x64_tlb_invalidate, which drops the tags of the root,       *)
(* interrupts the CPUs that run on it, and waits for their answers before  *)
(* the old page is given back.  The sender holds the kernel lock, and its  *)
(* targets may be spinning for that very lock with interrupts disabled.    *)
(*                                                                         *)
(* The paging-structure caches, global translations and the one second     *)
(* time limit (a panic) are left out.                                      *)
(***************************************************************************)
EXTENDS Naturals, FiniteSets

CONSTANTS
  CPUs,         \* processors, all online
  Roots,        \* page-table roots of user address spaces
  KernelRoot,   \* x64_kernel_cr3
  UserPages,    \* virtual pages below USER_SPACE_END
  KernelPages,  \* virtual pages above it, shared by all roots
  Frames,       \* physical pages
  Pcids,        \* hardware tags
  Pcid,         \* the tag of a root: (root >> 12) & (PCID_COUNT - 1)
  None

AllRoots == Roots \cup {KernelRoot}
Pages == UserPages \cup KernelPages
Entries == [frame : Frames, write : BOOLEAN]

ASSUME TlbAssumption ==
  /\ KernelRoot \notin Roots
  /\ UserPages # {} /\ UserPages \cap KernelPages = {}
  /\ 0 \in Pcids
  /\ Pcid \in [AllRoots -> Pcids]
  /\ None \notin AllRoots \cup Entries

VARIABLES
  use_pcid,     \* static bool use_pcid, chosen at boot
  mode,         \* where a CPU is: user code, the kernel-lock loop, the kernel
  active_roots, \* active_roots[cpu]
  cr3,          \* the root in CR3
  pcid_roots,   \* pcid_roots[cpu][pcid]
  tlb,          \* cached translations: tlb[cpu][pcid][page]
  pt,           \* page tables: pt[root][page]
  live,         \* roots that belong to an address space
  job,          \* the edit under way: arguments, pages to give back, progress
  pending,      \* shootdown.pending
  flushed       \* CPUs in x64_tlb_poll between the flush and the answer

vars == <<use_pcid, mode, active_roots, cr3, pcid_roots, tlb, pt, live, job,
          pending, flushed>>

NoJob == [step |-> "idle", root |-> KernelRoot, pages |-> {}, retired |-> {}]

TypeOK ==
  /\ use_pcid \in BOOLEAN
  /\ mode \in [CPUs -> {"user", "spin", "kernel"}]
  /\ active_roots \in [CPUs -> AllRoots]
  /\ cr3 \in [CPUs -> AllRoots]
  /\ pcid_roots \in [CPUs -> [Pcids -> AllRoots \cup {None}]]
  /\ tlb \in [CPUs -> [Pcids -> [Pages -> Entries \cup {None}]]]
  /\ pt \in [AllRoots -> [Pages -> Entries \cup {None}]]
  /\ live \in SUBSET Roots
  /\ job \in [step : {"idle", "send", "local", "acks"}, root : AllRoots,
              pages : SUBSET Pages, retired : SUBSET Frames]
  /\ pending \in SUBSET CPUs
  /\ flushed \in SUBSET CPUs

-----------------------------------------------------------------------------
(* The hardware's view. *)

Slot(r) == IF use_pcid THEN Pcid[r] ELSE 0

\* All roots share the kernel half of the tables.
Translate(r, v) == pt[IF v \in KernelPages THEN KernelRoot ELSE r][v]

Mapped == {f \in Frames : \E r \in AllRoots, v \in Pages :
             pt[r][v] # None /\ pt[r][v].frame = f}
Free == Frames \ (Mapped \cup job.retired)

Empty == [v \in Pages |-> None]

\* A page walk caches the present translation of the current root, at any
\* time.  (Evictions only remove entries and are not modelled.)
Fill(c, v) ==
  LET p == Slot(cr3[c]) IN
  /\ tlb[c][p][v] = None
  /\ Translate(cr3[c], v) # None
  /\ tlb' = [tlb EXCEPT ![c][p][v] = Translate(cr3[c], v)]
  /\ UNCHANGED <<use_pcid, mode, active_roots, cr3, pcid_roots, pt, live, job,
                 pending, flushed>>

-----------------------------------------------------------------------------
(* The kernel lock, as far as the shootdown depends on it: a CPU waits for *)
(* it with interrupts disabled.                                            *)

KernelFree == \A c \in CPUs : mode[c] # "kernel"
Holds(c) == mode[c] = "kernel" /\ job.step = "idle"

Enter(c) ==
  /\ mode[c] = "user" /\ c \notin flushed
  /\ mode' = [mode EXCEPT ![c] = "spin"]
  /\ UNCHANGED <<use_pcid, active_roots, cr3, pcid_roots, tlb, pt, live, job,
                 pending, flushed>>

Acquire(c) ==
  /\ mode[c] = "spin" /\ c \notin flushed
  /\ KernelFree
  /\ mode' = [mode EXCEPT ![c] = "kernel"]
  /\ UNCHANGED <<use_pcid, active_roots, cr3, pcid_roots, tlb, pt, live, job,
                 pending, flushed>>

Leave(c) ==
  /\ Holds(c)
  /\ mode' = [mode EXCEPT ![c] = "user"]
  /\ UNCHANGED <<use_pcid, active_roots, cr3, pcid_roots, tlb, pt, live, job,
                 pending, flushed>>

-----------------------------------------------------------------------------
(* arch_address_space_activate *)

\* The tag decides whether the entries cached under the PCID may be kept.
Keeps(c, r) == IF use_pcid THEN pcid_roots[c][Pcid[r]] = r ELSE cr3[c] = r

Load(c, r) ==
  /\ active_roots' = [active_roots EXCEPT ![c] = r]
  /\ cr3' = [cr3 EXCEPT ![c] = r]
  /\ tlb' = IF Keeps(c, r) THEN tlb ELSE [tlb EXCEPT ![c][Slot(r)] = Empty]
  /\ pcid_roots' = IF use_pcid THEN [pcid_roots EXCEPT ![c][Pcid[r]] = r]
                   ELSE pcid_roots

Activate(c, r) ==
  /\ Holds(c)
  /\ r \in live \cup {KernelRoot}
  /\ Load(c, r)
  /\ UNCHANGED <<use_pcid, mode, pt, live, job, pending, flushed>>

-----------------------------------------------------------------------------
(* Page-table edits.  Each one changes pt and, where a present translation *)
(* may be cached, starts an invalidation that ends by releasing `retired'. *)

Start(r, pages, retired) ==
  job' = [step |-> "send", root |-> r, pages |-> pages, retired |-> retired]

FramesOf(r, pages) == {pt[r][v].frame : v \in {w \in pages : pt[r][w] # None}}

\* page_link, arch_user_map_pages, arch_module_allocate: nothing was present.
Map(c, r, v, f) ==
  /\ Holds(c) /\ pt[r][v] = None /\ f \in Free
  /\ pt' = [pt EXCEPT ![r][v] = [frame |-> f, write |-> TRUE]]
  /\ UNCHANGED <<use_pcid, mode, active_roots, cr3, pcid_roots, tlb, live, job,
                 pending, flushed>>

\* page_link over a page, VM_REPLACE, VM_DISCARD, the copy of a COW fault.
Replace(c, r, v, f) ==
  /\ Holds(c) /\ pt[r][v] # None /\ f \in Free
  /\ pt' = [pt EXCEPT ![r][v] = [frame |-> f, write |-> TRUE]]
  /\ Start(r, {v}, {pt[r][v].frame})
  /\ UNCHANGED <<use_pcid, mode, active_roots, cr3, pcid_roots, tlb, live,
                 pending, flushed>>

\* VM_PROTECT, arch_module_protect, a COW fault on a page nobody shares.
Protect(c, r, v) ==
  /\ Holds(c) /\ pt[r][v] # None
  /\ pt' = [pt EXCEPT ![r][v].write = ~@]
  /\ Start(r, {v}, {})
  /\ UNCHANGED <<use_pcid, mode, active_roots, cr3, pcid_roots, tlb, live,
                 pending, flushed>>

\* unmap_pages
Unmap(c, r, v) ==
  /\ Holds(c) /\ pt[r][v] # None
  /\ pt' = [pt EXCEPT ![r][v] = None]
  /\ Start(r, {v}, {pt[r][v].frame})
  /\ UNCHANGED <<use_pcid, mode, active_roots, cr3, pcid_roots, tlb, live,
                 pending, flushed>>

\* arch_address_space_clone: the user half of both tables loses write access.
ReadOnly(e) == IF e = None THEN None ELSE [e EXCEPT !.write = FALSE]
Cow(r) == [v \in Pages |-> IF v \in UserPages THEN ReadOnly(pt[r][v])
                           ELSE pt[r][v]]

Clone(c, r, new) ==
  /\ Holds(c) /\ r \in live \cup {KernelRoot} /\ new \in Roots \ live
  /\ pt' = [pt EXCEPT ![r] = Cow(r),
                      ![new] = [v \in Pages |-> IF v \in UserPages
                                                THEN Cow(r)[v] ELSE None]]
  /\ live' = live \cup {new}
  /\ Start(r, Pages, {})
  /\ UNCHANGED <<use_pcid, mode, active_roots, cr3, pcid_roots, tlb, pending,
                 flushed>>

\* arch_address_space_prepare_exec
Exec(c, r) ==
  /\ Holds(c) /\ r \in live
  /\ pt' = [pt EXCEPT ![r] = Empty]
  /\ Start(r, Pages, FramesOf(r, UserPages))
  /\ UNCHANGED <<use_pcid, mode, active_roots, cr3, pcid_roots, tlb, live,
                 pending, flushed>>

\* arch_address_space_release of the last reference: no other CPU runs on it.
Release(c, r) ==
  /\ Holds(c) /\ r \in live
  /\ \A d \in CPUs \ {c} : active_roots[d] # r
  /\ IF cr3[c] = r THEN Load(c, KernelRoot)
     ELSE UNCHANGED <<active_roots, cr3, tlb, pcid_roots>>
  /\ pt' = [pt EXCEPT ![r] = Empty]
  /\ live' = live \ {r}
  /\ Start(r, Pages, FramesOf(r, UserPages))
  /\ UNCHANGED <<use_pcid, mode, pending, flushed>>

-----------------------------------------------------------------------------
(* x64_tlb_invalidate by the holder, x64_tlb_poll on the targets. *)

IsKernel == job.pages # {} /\ job.pages \subseteq KernelPages

\* tlb_invalidate_local
InvalidateLocal(c) ==
  IF IsKernel THEN [tlb EXCEPT ![c] = [p \in Pcids |-> Empty]]
  ELSE IF cr3[c] # job.root THEN tlb
  ELSE [tlb EXCEPT ![c][Slot(job.root)] =
          [v \in Pages |-> IF v \in job.pages THEN None ELSE @[v]]]

Retag(c) == [pcid_roots EXCEPT ![c][Pcid[job.root]] = job.root]

\* The CPUs to interrupt: all for the kernel half, else those on the root.
Targets(c) == {d \in CPUs \ {c} : IsKernel \/ active_roots[d] = job.root}

\* Mutant: only the CPUs that run on the root lose its tag.
DropTags_ActiveOnly ==
  IF use_pcid /\ ~IsKernel
  THEN [d \in CPUs |-> [p \in Pcids |->
          IF p = Pcid[job.root] /\ active_roots[d] = job.root THEN None
          ELSE pcid_roots[d][p]]]
  ELSE pcid_roots

\* The tag of the root is dropped on every CPU.
DropTags ==
  IF use_pcid /\ ~IsKernel
  THEN [d \in CPUs |-> [p \in Pcids |->
          IF p = Pcid[job.root] /\ pcid_roots[d][p] = job.root THEN None
          ELSE pcid_roots[d][p]]]
  ELSE pcid_roots

Send(c) ==
  /\ mode[c] = "kernel" /\ job.step = "send"
  /\ pcid_roots' = DropTags
  /\ pending' = Targets(c)
  /\ job' = [job EXCEPT !.step = "local"]
  /\ UNCHANGED <<use_pcid, mode, active_roots, cr3, tlb, pt, live, flushed>>

Local(c) ==
  /\ mode[c] = "kernel" /\ job.step = "local"
  /\ tlb' = InvalidateLocal(c)
  /\ pcid_roots' = IF use_pcid /\ ~IsKernel /\ active_roots[c] = job.root
                   THEN Retag(c) ELSE pcid_roots
  /\ job' = [job EXCEPT !.step = "acks"]
  /\ UNCHANGED <<use_pcid, mode, active_roots, cr3, pt, live, pending, flushed>>

\* Mutant: the old page is released while answers are outstanding.
Reclaim_Early(c) ==
  /\ mode[c] = "kernel" /\ job.step = "acks"
  /\ job' = [job EXCEPT !.retired = {}]
  /\ UNCHANGED <<use_pcid, mode, active_roots, cr3, pcid_roots, tlb, pt, live,
                 pending, flushed>>

\* Only now are the old pages released.
Reclaim(c) ==
  /\ mode[c] = "kernel" /\ job.step = "acks"
  /\ pending = {}
  /\ job' = NoJob
  /\ UNCHANGED <<use_pcid, mode, active_roots, cr3, pcid_roots, tlb, pt, live,
                 pending, flushed>>

\* The interrupt reaches user code; the kernel-lock loop polls.
CanPoll(c) == mode[c] \in {"user", "spin"}

PollFlush(c) ==
  /\ CanPoll(c) /\ c \in pending \ flushed
  /\ tlb' = InvalidateLocal(c)
  /\ flushed' = flushed \cup {c}
  /\ UNCHANGED <<use_pcid, mode, active_roots, cr3, pcid_roots, pt, live, job,
                 pending>>

\* Mutant: the answer is not given.
PollAck_Silent(c) ==
  /\ c \in flushed
  /\ pcid_roots' = IF use_pcid /\ ~IsKernel /\ cr3[c] = job.root
                   THEN Retag(c) ELSE pcid_roots
  /\ flushed' = flushed \ {c}
  /\ UNCHANGED <<use_pcid, mode, active_roots, cr3, tlb, pt, live, job, pending>>

PollAck(c) ==
  /\ c \in flushed
  /\ pcid_roots' = IF use_pcid /\ ~IsKernel /\ cr3[c] = job.root
                   THEN Retag(c) ELSE pcid_roots
  /\ pending' = pending \ {c}
  /\ flushed' = flushed \ {c}
  /\ UNCHANGED <<use_pcid, mode, active_roots, cr3, tlb, pt, live, job>>

-----------------------------------------------------------------------------
Init ==
  /\ use_pcid \in BOOLEAN
  /\ mode = [c \in CPUs |-> "user"]
  /\ active_roots = [c \in CPUs |-> KernelRoot]
  /\ cr3 = [c \in CPUs |-> KernelRoot]
  /\ pcid_roots = [c \in CPUs |-> [p \in Pcids |->
                     IF use_pcid /\ p = Pcid[KernelRoot] THEN KernelRoot
                     ELSE None]]
  /\ tlb = [c \in CPUs |-> [p \in Pcids |-> Empty]]
  /\ pt = [r \in AllRoots |-> Empty]
  /\ live = {}
  /\ job = NoJob
  /\ pending = {}
  /\ flushed = {}

\* User pages are edited in a live root, kernel pages in the kernel's.
Editable(r, v) == IF v \in KernelPages THEN r = KernelRoot ELSE r \in live

EditNext(c) ==
  \/ \E r \in AllRoots, v \in Pages :
       /\ Editable(r, v)
       /\ \/ \E f \in Frames : Map(c, r, v, f) \/ Replace(c, r, v, f)
          \/ Protect(c, r, v)
          \/ Unmap(c, r, v)
  \/ \E r \in Roots : Exec(c, r) \/ Release(c, r)
  \/ \E r \in AllRoots, new \in Roots : Clone(c, r, new)

Next ==
  \E c \in CPUs :
    \/ Enter(c) \/ Acquire(c) \/ Leave(c)
    \/ \E r \in AllRoots : Activate(c, r)
    \/ EditNext(c)
    \/ Send(c) \/ Local(c) \/ Reclaim(c)
    \/ PollFlush(c) \/ PollAck(c)
    \/ \E v \in Pages : Fill(c, v)

Spec == Init /\ [][Next]_vars

\* The sender runs on; an interrupted or spinning CPU polls.
Fairness ==
  \A c \in CPUs :
    /\ WF_vars(Send(c) \/ Local(c) \/ Reclaim(c))
    /\ WF_vars(PollFlush(c) \/ PollAck(c))

FairSpec == Spec /\ Fairness

-----------------------------------------------------------------------------
(* Properties *)

\* The translations a CPU can use now.
Usable(c, v) == tlb[c][Slot(cr3[c])][v]

\* CPU c has yet to drop its copy of page v for the edit under way.
Awaited(c) ==
  \/ job.step = "send"
  \/ job.step = "local" /\ mode[c] = "kernel"
  \/ c \in pending \ flushed
Covers(r, v) == v \in job.pages /\ (IsKernel \/ r = job.root)

\* A CPU translates by the present page table, or by an edit of its own root
\* that is under way and that the CPU has not been made to acknowledge yet:
\* no stale translation outlives x64_tlb_invalidate, neither by a tag that a
\* later switch trusts nor by a CPU the sender did not interrupt.
NoStaleTranslation ==
  \A c \in CPUs, v \in Pages :
    \/ Usable(c, v) \in {None, Translate(cr3[c], v)}
    \/ Covers(cr3[c], v) /\ Awaited(c)

\* No CPU reaches a page that has been given back ("before an old page can be
\* reclaimed", x64_tlb_invalidate).
NoUseAfterFree ==
  \A c \in CPUs, v \in Pages :
    Usable(c, v) # None => Usable(c, v).frame \notin Free

\* A tag vouches for what is cached under its PCID: as long as pcid_roots
\* names a root, its entries there are those of its table, or are about to
\* be dropped.  This is what a switch without a flush relies on.
TagSound ==
  use_pcid => \A c \in CPUs, r \in AllRoots, v \in Pages :
    pcid_roots[c][Pcid[r]] = r =>
      \/ tlb[c][Pcid[r]][v] \in {None, Translate(r, v)}
      \/ Covers(r, v) /\ Awaited(c)

\* The sender, which holds the kernel lock, gets its answers although a target
\* may be waiting for that lock with interrupts disabled.
ShootdownEnds == []<>(job.step = "idle")
=============================================================================
