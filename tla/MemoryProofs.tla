----------------------------- MODULE MemoryProofs -----------------------------
(***************************************************************************)
(* Theorems about Memory, for any number of CPUs, processes and pages.      *)
(*                                                                         *)
(* What kalloc returns is left open: the walk through the buddy tree is a   *)
(* recursion, and nothing here depends on it.  So a PageDir is described by *)
(* its fields and not by a set it belongs to.                               *)
(***************************************************************************)
EXTENDS Memory, TLAPS

(* Z3 gets half a minute, through either encoding; a leaf for Zenon says so. *)
USE SMTT(30), Z3T(30)

IsEntry(e) == e.V \in BOOLEAN /\ e = [V |-> e.V, pa |-> e.pa, os |-> e.os]

IsDir(d) ==
  /\ d = [root |-> d.root, dirs |-> d.dirs, pte |-> d.pte,
          shared_page_start |-> d.shared_page_start,
          user_mem_bound |-> d.user_mem_bound, stack |-> d.stack]
  /\ d.pte = [va \in VAs |-> d.pte[va]]
  /\ \A va \in VAs : IsEntry(d.pte[va])
  /\ d.shared_page_start \in SharedStart .. SharedStart + MaxAttach

(* A heap and a PageDir, the argument of the PageDir operations. *)
IsMem(m) == m = [h |-> m.h, d |-> m.d, remapped |-> m.remapped] /\ IsDir(m.d)

Task == [p : Procs \cup {Idle}, block_num : Int, i : Nat, pages : Int]
Labels == {"user", "fault", "switch", "unmap", "exec", "load"}
Cpu == [pc : Labels, proc : Procs \cup {Idle},
        va : VAs, task : Task]

Shape ==
  /\ use \in Workloads
  /\ pd = [p \in Procs |-> pd[p]]
  /\ \A p \in Procs : IsDir(pd[p])
  /\ life \in [Procs -> {"none", "live", "killed", "deleted"}]
  /\ cpu \in [CPUs -> Cpu]
  /\ tlb = [c \in CPUs |-> tlb[c]]
  /\ \A c \in CPUs : \A e \in tlb[c] : e.va \in VAs
-----------------------------------------------------------------------------
(* The fields of a PageDir that an operation leaves alone. *)
Rest(d) == <<d.root, d.shared_page_start, d.user_mem_bound, d.stack>>

(* Directories are allocated beside the entries. *)
LEMMA LookupDir ==
  ASSUME NEW m, IsMem(m), NEW va, NEW n, n = lookup(m, va)
  PROVE  IsMem(n) /\ n.d.pte = m.d.pte /\ Rest(n.d) = Rest(m.d)
<1>1. CASE n = m
  BY <1>1
<1>2. CASE \E h, x : n = [h |-> h, d |-> [m.d EXCEPT !.dirs = x], remapped |-> m.remapped]
  <2>1. PICK h, x : n = [h |-> h, d |-> [m.d EXCEPT !.dirs = x], remapped |-> m.remapped]
    BY <1>2, Zenon
  <2>2. PICK d : d = [m.d EXCEPT !.dirs = x]
    BY Zenon
  <2>3. /\ d = [root |-> d.root, dirs |-> d.dirs, pte |-> d.pte,
                shared_page_start |-> d.shared_page_start,
                user_mem_bound |-> d.user_mem_bound, stack |-> d.stack]
        /\ d.pte = m.d.pte /\ Rest(d) = Rest(m.d)
        /\ d.shared_page_start = m.d.shared_page_start
    BY <2>2 DEF IsMem, IsDir, Rest
  <2>4. IsDir(d)
    BY <2>3, Zenon DEF IsMem, IsDir
  <2>5. n = [h |-> h, d |-> d, remapped |-> m.remapped]
    BY <2>1, <2>2, Zenon
  <2> QED
    BY <2>3, <2>4, <2>5 DEF IsMem
<1>3. n = m \/ \E h, x : n = [h |-> h, d |-> [m.d EXCEPT !.dirs = x], remapped |-> m.remapped]
  BY Zenon DEF lookup
<1> QED
  BY <1>1, <1>2, <1>3

(* One entry is written. *)
Entry(f, osflag) == [V |-> TRUE, pa |-> f, os |-> osflag]

(* The fields of a heap and its PageDir. *)
LEMMA MemFields ==
  ASSUME NEW h, NEW d, NEW a
  PROVE  LET m == [h |-> h, d |-> d, remapped |-> a]
         IN  /\ m.h = h /\ m.d = d /\ m.remapped = a
             /\ \A v : [m EXCEPT !.remapped = v] = [h |-> h, d |-> d, remapped |-> v]
             /\ \A v : [m EXCEPT !.h = v] = [h |-> v, d |-> d, remapped |-> a]
OBVIOUS

(* map_va_kva writes one page table entry, unless it is in use. *)
LEMMA MapDir ==
  ASSUME NEW m, IsMem(m), NEW va \in VAs, NEW f, NEW osflag,
         NEW k, k = map_va_kva(m, va, f, osflag)
  PROVE  /\ IsMem(k) /\ Rest(k.d) = Rest(m.d)
         /\ m.d.pte[va].V => k.d.pte = m.d.pte
         /\ ~m.d.pte[va].V => k.d.pte = [m.d.pte EXCEPT ![va] = Entry(f, osflag)]
<1>1. PICK n : n = lookup(m, va)
  BY Zenon
<1>2. IsMem(n) /\ n.d.pte = m.d.pte /\ Rest(n.d) = Rest(m.d)
  BY <1>1, LookupDir, Zenon
<1>11. CASE m.d.pte[va].V
  <2>1. k = [n EXCEPT !.remapped = TRUE]
    BY <1>1, <1>2, <1>11, Zenon DEF map_va_kva
  <2>2. k = [h |-> n.h, d |-> n.d, remapped |-> TRUE]
    BY <1>2, <2>1, MemFields, Zenon DEF IsMem
  <2>4. PICK a : k = [h |-> n.h, d |-> n.d, remapped |-> a]
    BY <2>2, Zenon
  <2>3. k = [h |-> k.h, d |-> k.d, remapped |-> k.remapped] /\ k.d = n.d
    BY <2>4
  <2> QED
    BY <1>2, <1>11, <2>3, Zenon DEF IsMem
<1>12. SUFFICES ASSUME ~m.d.pte[va].V
                PROVE  /\ IsMem(k) /\ Rest(k.d) = Rest(m.d)
                       /\ k.d.pte = [m.d.pte EXCEPT ![va] = Entry(f, osflag)]
  BY <1>11, Zenon
<1>3. PICK e : e = [n.d.pte EXCEPT ![va] = Entry(f, osflag)]
  BY Zenon
<1>4. PICK d : d = [n.d EXCEPT !.pte = e]
  BY Zenon
<1>5. k = [n EXCEPT !.d = d]
  BY <1>1, <1>2, <1>3, <1>4, <1>12, Zenon DEF map_va_kva, Entry
<1>6. [n EXCEPT !.d = d] = [h |-> n.h, d |-> d, remapped |-> n.remapped]
  BY <1>2 DEF IsMem
<1>7. /\ d = [root |-> d.root, dirs |-> d.dirs, pte |-> d.pte,
              shared_page_start |-> d.shared_page_start,
              user_mem_bound |-> d.user_mem_bound, stack |-> d.stack]
      /\ d.pte = e /\ Rest(d) = Rest(n.d) /\ d.shared_page_start = n.d.shared_page_start
  BY <1>2, <1>4 DEF IsMem, IsDir, Rest
<1>8. /\ e = [x \in VAs |-> e[x]]
      /\ \A x \in VAs : e[x] = IF x = va THEN Entry(f, osflag) ELSE n.d.pte[x]
  BY <1>2, <1>3 DEF IsMem, IsDir
<1>9. IsEntry(Entry(f, osflag))
  BY DEF Entry, IsEntry
<1>10. IsDir(d)
  BY <1>2, <1>7, <1>8, <1>9, Zenon DEF IsMem, IsDir
<1> QED
  BY <1>2, <1>3, <1>5, <1>6, <1>7, <1>10 DEF IsMem

(* A page that is not mapped gets a new frame. *)
(* A page table with va mapped: as it was, or with a new frame. *)
Fills(old, new, va) ==
  /\ old[va].V => new = old
  /\ ~old[va].V => \E f : new = [old EXCEPT ![va] = Entry(f, "Normal")]

(* alloc_page_for_va fills an entry that was empty. *)
LEMMA AllocDir ==
  ASSUME NEW m, IsMem(m), NEW va \in VAs, NEW a, a = alloc_page_for_va(m, va)
  PROVE  IsMem(a) /\ Rest(a.d) = Rest(m.d) /\ Fills(m.d.pte, a.d.pte, va)
<1>1. PICK n : n = lookup(m, va)
  BY Zenon
<1>2. IsMem(n) /\ n.d.pte = m.d.pte /\ Rest(n.d) = Rest(m.d)
  BY <1>1, LookupDir, Zenon
<1>3. PICK h : h = kalloc(n.h, 1)
  BY Zenon
<1>4. PICK b : b = [n EXCEPT !.h = h]
  BY Zenon
<1>5. IsMem(b) /\ b.d = n.d
  BY <1>2, <1>4 DEF IsMem
<1>6. PICK k : k = map_va_kva(b, va, h.at, "Normal")
  BY Zenon
<1>7. /\ IsMem(k) /\ Rest(k.d) = Rest(b.d)
      /\ ~b.d.pte[va].V => k.d.pte = [b.d.pte EXCEPT ![va] = Entry(h.at, "Normal")]
  <2>1. PICK f : f = h.at
    BY Zenon
  <2>2. k = map_va_kva(b, va, f, "Normal")
    BY <1>6, <2>1, Zenon
  <2> QED
    BY <1>5, <2>1, <2>2, MapDir
<1>8. a = IF n.d.pte[va].V THEN n ELSE k
  BY <1>1, <1>3, <1>4, <1>6, Zenon DEF alloc_page_for_va
<1> QED
  BY <1>2, <1>5, <1>7, <1>8, Zenon DEF Fills

-----------------------------------------------------------------------------
Loading(c) == cpu[c].pc \in {"exec", "load"}

(* A process that is being loaded is not live, and nobody else loads it; a  *)
(* CPU runs only processes that have been loaded, and handles the page      *)
(* faults of no other.                                                      *)
Loaders ==
  /\ \A c \in CPUs : Loading(c) => /\ cpu[c].task.p \in Procs /\ life[cpu[c].task.p] = "none"
                                  /\ cpu[c].task.pages <= Argv
  /\ \A c, d \in CPUs : Loading(c) /\ Loading(d) /\ cpu[c].task.p = cpu[d].task.p => c = d
  /\ \A c \in CPUs : cpu[c].proc \in Procs => life[cpu[c].proc] # "none"
  /\ \A c \in CPUs : cpu[c].pc = "fault" => cpu[c].proc \in Procs

IInv == Shape /\ Loaders

(* What may change without disturbing the shape: everything else. *)
Plain == UNCHANGED <<use, pd, life, cpu, tlb>>

(* Steps outside the page tables keep the invariant. *)
LEMMA PlainKeeps ==
  ASSUME IInv, Plain
  PROVE  IInv'
BY ZenonT(60) DEF IInv, Plain, Shape, Loaders, Loading, IsDir, IsEntry

(* The fields of the state, one at a time. *)
LEMMA CpuType ==
  ASSUME IInv, NEW c \in CPUs
  PROVE  /\ cpu[c] \in Cpu
         /\ cpu[c].task \in Task /\ cpu[c].proc \in Procs \cup {Idle}
         /\ User(c) => cpu[c].proc \in Procs /\ cpu[c].pc = "user"
BY DEF IInv, Shape, Cpu, User

(* A step that changes no PageDir but that of p, and leaves them in shape. *)
Paged(p) ==
  /\ pd' = [q \in Procs |-> pd'[q]]
  /\ \A q \in Procs : IsDir(pd'[q])
  /\ \A q \in Procs : q # p => pd'[q] = pd[q]

(* What a step may do to the entries of p: map va to a new frame if it is   *)
(* not mapped, map it to a shared page, or unmap it.                        *)
Filled(p, va) == Fills(pd[p].pte, pd'[p].pte, va)
Attached(p, va, f) ==
  /\ ~pd[p].pte[va].V
  /\ pd'[p].pte = [pd[p].pte EXCEPT ![va] = Entry(f, "Shared")]
Detached(p, va) ==
  /\ pd[p].pte[va].V
  /\ pd'[p].pte = [pd[p].pte EXCEPT ![va] = [V |-> FALSE, pa |-> @.pa, os |-> @.os]]

(* What a handler starts from is a heap and a directory. *)
LEMMA MemIsMem ==
  ASSUME IInv, NEW p \in Procs
  PROVE  IsMem(Mem(p)) /\ Mem(p).d = pd[p]
BY DEF IInv, Shape, Mem, IsMem

(* A step that writes no directory. *)
LEMMA SamePages ==
  ASSUME IInv, pd' = pd, NEW p
  PROVE  Paged(p)
BY Zenon DEF IInv, Shape, Paged

(* A step that writes the directory of p. *)
LEMMA DirPages ==
  ASSUME IInv, NEW p \in Procs, NEW d, IsDir(d), pd' = [pd EXCEPT ![p] = d]
  PROVE  Paged(p) /\ pd'[p] = d
<1>1. pd = [q \in Procs |-> pd[q]]
  BY Zenon DEF IInv, Shape
<1>2. /\ pd' = [q \in Procs |-> pd'[q]] /\ pd'[p] = d
      /\ \A q \in Procs : q # p => pd'[q] = pd[q]
  BY <1>1
<1> QED
  BY <1>2, Zenon DEF Paged, IInv, Shape

(* A page is allocated for p. *)
LEMMA AllocPages ==
  ASSUME IInv, NEW p \in Procs, NEW va \in VAs, Store(p, alloc_page_for_va(Mem(p), va))
  PROVE  Paged(p) /\ Filled(p, va) /\ Rest(pd'[p]) = Rest(pd[p])
<1>1. PICK a : a = alloc_page_for_va(Mem(p), va)
  BY Zenon
<1>2. IsMem(a) /\ Rest(a.d) = Rest(pd[p]) /\ Fills(pd[p].pte, a.d.pte, va)
  <2>1. PICK m : m = Mem(p)
    BY Zenon
  <2>2. IsMem(m) /\ m.d = pd[p] /\ a = alloc_page_for_va(m, va)
    BY <1>1, <2>1, MemIsMem, Zenon
  <2> QED
    BY <2>2, AllocDir, Zenon
<1>3. Paged(p) /\ pd'[p] = a.d
  BY <1>1, <1>2, DirPages, Zenon DEF Store, IsMem
<1> QED
  BY <1>2, <1>3, Zenon DEF Filled

(* The bound of the heap of p moves. *)
LEMMA BoundPages ==
  ASSUME IInv, NEW p \in Procs, NEW b, pd' = [pd EXCEPT ![p].user_mem_bound = b]
  PROVE  Paged(p) /\ pd'[p].pte = pd[p].pte
<1>1. PICK d : d = [pd[p] EXCEPT !.user_mem_bound = b]
  BY Zenon
<1>2. IsDir(pd[p])
  BY Zenon DEF IInv, Shape
<1>3. pd' = [pd EXCEPT ![p] = d]
  BY <1>1, Zenon
<1>5. /\ d = [root |-> d.root, dirs |-> d.dirs, pte |-> d.pte,
              shared_page_start |-> d.shared_page_start,
              user_mem_bound |-> d.user_mem_bound, stack |-> d.stack]
      /\ d.pte = pd[p].pte /\ d.shared_page_start = pd[p].shared_page_start
  BY <1>1, <1>2 DEF IsDir
<1>6. IsDir(d)
  BY <1>2, <1>5, Zenon DEF IsDir
<1> QED
  BY <1>3, <1>5, <1>6, DirPages, Zenon

(* An entry with V cleared. *)
LEMMA EntryOff ==
  ASSUME NEW e, IsEntry(e)
  PROVE  [e EXCEPT !.V = FALSE] = [V |-> FALSE, pa |-> e.pa, os |-> e.os]
<1>1. PICK a, b, f : a = e.V /\ b = e.pa /\ f = e.os
  BY Zenon
<1>2. e = [V |-> a, pa |-> b, os |-> f]
  BY <1>1, Zenon DEF IsEntry
<1>3. \A v : [[V |-> a, pa |-> b, os |-> f] EXCEPT !.V = v] = [V |-> v, pa |-> b, os |-> f]
  OBVIOUS
<1>4. [e EXCEPT !.V = FALSE] = [V |-> FALSE, pa |-> b, os |-> f]
  BY <1>2, <1>3, Zenon
<1> QED
  BY <1>1, <1>4, Zenon

(* The entry at va is cleared. *)
LEMMA UnmapPages ==
  ASSUME IInv, NEW p \in Procs, NEW va \in VAs, pd[p].pte[va].V,
         pd' = [pd EXCEPT ![p].pte[va].V = FALSE]
  PROVE  Paged(p) /\ Detached(p, va)
<1>1. PICK x : x = [pd[p].pte[va] EXCEPT !.V = FALSE]
  BY Zenon
<1>2. PICK e : e = [pd[p].pte EXCEPT ![va] = x]
  BY Zenon
<1>3. PICK d : d = [pd[p] EXCEPT !.pte = e]
  BY Zenon
<1>4. IsDir(pd[p])
  BY Zenon DEF IInv, Shape
<1>5. pd' = [pd EXCEPT ![p] = d]
  BY <1>1, <1>2, <1>3, Zenon
<1>7. x = [V |-> FALSE, pa |-> pd[p].pte[va].pa, os |-> pd[p].pte[va].os]
  BY <1>1, <1>4, EntryOff, Zenon DEF IsDir
<1>8. IsEntry(x)
  BY <1>7 DEF IsEntry
<1>9. /\ e = [y \in VAs |-> e[y]]
      /\ \A y \in VAs : e[y] = IF y = va THEN x ELSE pd[p].pte[y]
  BY <1>2, <1>4 DEF IsDir
<1>10. /\ d = [root |-> d.root, dirs |-> d.dirs, pte |-> d.pte,
               shared_page_start |-> d.shared_page_start,
               user_mem_bound |-> d.user_mem_bound, stack |-> d.stack]
       /\ d.pte = e /\ d.shared_page_start = pd[p].shared_page_start
  BY <1>3, <1>4 DEF IsDir
<1>11. IsDir(d)
  BY <1>4, <1>8, <1>9, <1>10, Zenon DEF IsDir
<1> QED
  BY <1>2, <1>5, <1>7, <1>10, <1>11, DirPages, Zenon DEF Detached

(* What attach_shared_page makes of the PageDir of p. *)
AttachTo(p, h, va, f, z, n) ==
  LET m == map_va_kva([Mem(p) EXCEPT !.h = h], va, f, "Shared")
  IN  z = m \/ z = [m EXCEPT !.d.shared_page_start = n]

(* A shared page is attached, unless its address is taken. *)
LEMMA AttachPages ==
  ASSUME IInv, NEW p \in Procs, NEW va \in VAs, NEW h, NEW f,
         NEW n \in SharedStart .. SharedStart + MaxAttach, NEW z,
         AttachTo(p, h, va, f, z, n), Store(p, z)
  PROVE  /\ Paged(p)
         /\ pd[p].pte[va].V => pd'[p].pte = pd[p].pte
         /\ ~pd[p].pte[va].V => Attached(p, va, f)
<1>6. PICK m : /\ m = map_va_kva([Mem(p) EXCEPT !.h = h], va, f, "Shared")
               /\ z = m \/ z = [m EXCEPT !.d.shared_page_start = n]
  BY Zenon DEF AttachTo
<1>1. PICK k : k = [Mem(p) EXCEPT !.h = h]
  BY Zenon
<1>2. IsMem(k) /\ k.d = pd[p]
  <2>1. k = [h |-> h, d |-> pd[p], remapped |-> FALSE]
    BY <1>1, MemFields, Zenon DEF Mem
  <2>2. k = [h |-> k.h, d |-> k.d, remapped |-> k.remapped] /\ k.d = pd[p]
    BY <2>1, MemFields, Zenon
  <2> QED
    BY <2>2, Zenon DEF IsMem, IInv, Shape
<1>3. /\ IsMem(m)
      /\ pd[p].pte[va].V => m.d.pte = pd[p].pte
      /\ ~pd[p].pte[va].V => m.d.pte = [pd[p].pte EXCEPT ![va] = Entry(f, "Shared")]
  <2>1. m = map_va_kva(k, va, f, "Shared")
    BY <1>1, <1>6, Zenon
  <2> QED
    <3>1. /\ IsMem(m)
          /\ k.d.pte[va].V => m.d.pte = k.d.pte
          /\ ~k.d.pte[va].V => m.d.pte = [k.d.pte EXCEPT ![va] = Entry(f, "Shared")]
      BY <1>2, <2>1, MapDir
    <3> QED
      BY <1>2, <3>1, Zenon
<1>4. IsDir(z.d) /\ z.d.pte = m.d.pte
  <2>1. CASE z = m
    BY <1>3, <2>1, Zenon DEF IsMem
  <2>2. CASE z = [m EXCEPT !.d.shared_page_start = n]
    <3>1. PICK d : d = [m.d EXCEPT !.shared_page_start = n]
      BY Zenon
    <3>2. z = [m EXCEPT !.d = d]
      BY <2>2, <3>1, Zenon
    <3>3. z.d = d
      BY <1>3, <3>2 DEF IsMem
    <3>4. /\ d = [root |-> d.root, dirs |-> d.dirs, pte |-> d.pte,
                  shared_page_start |-> d.shared_page_start,
                  user_mem_bound |-> d.user_mem_bound, stack |-> d.stack]
          /\ d.pte = m.d.pte /\ d.shared_page_start = n
      BY <1>3, <3>1 DEF IsMem, IsDir
    <3>5. IsDir(d)
      BY <1>3, <3>4, Zenon DEF IsMem, IsDir
    <3> QED
      BY <3>3, <3>4, <3>5, Zenon
  <2> QED
    BY <1>6, <2>1, <2>2, Zenon
<1>5. Paged(p) /\ pd'[p].pte = m.d.pte
  BY <1>4, DirPages, Zenon DEF Store
<1> QED
  BY <1>3, <1>5, Zenon DEF Attached

(* The fields of a new directory. *)
LEMMA DirFields ==
  ASSUME NEW x, NEW a, NEW e, NEW b, NEW y, NEW n, NEW r, NEW s
  PROVE  [[root |-> x, dirs |-> a, pte |-> e, shared_page_start |-> n,
           user_mem_bound |-> b, stack |-> y] EXCEPT !.root = r, !.stack = s]
         = [root |-> r, dirs |-> a, pte |-> e, shared_page_start |-> n,
            user_mem_bound |-> b, stack |-> s]
<1> DEFINE R(v, w) == [root |-> v, dirs |-> a, pte |-> e, shared_page_start |-> n,
                       user_mem_bound |-> b, stack |-> w]
<1>1. [R(x, y) EXCEPT !.root = r] = R(r, y)
  OBVIOUS
<1>2. [R(r, y) EXCEPT !.stack = s] = R(r, s)
  OBVIOUS
<1>3. [[R(x, y) EXCEPT !.root = r] EXCEPT !.stack = s] = R(r, s)
  BY <1>1, <1>2, Zenon
<1> QED
  BY <1>3

(* A new directory maps nothing. *)
LEMMA NewPages ==
  ASSUME IInv, NEW p \in Procs, NEW h, NEW r, NEW s,
         Store(p, [h |-> h, d |-> [NoDir EXCEPT !.root = r, !.stack = s], remapped |-> FALSE])
  PROVE  Paged(p) /\ pd'[p].pte = [va \in VAs |-> Unmapped]
<1>1. PICK d : d = [NoDir EXCEPT !.root = r, !.stack = s]
  BY Zenon
<1>2. /\ d = [root |-> d.root, dirs |-> d.dirs, pte |-> d.pte,
              shared_page_start |-> d.shared_page_start,
              user_mem_bound |-> d.user_mem_bound, stack |-> d.stack]
      /\ d.pte = [va \in VAs |-> Unmapped] /\ d.shared_page_start = SharedStart
  <2>1. PICK a, e, b : /\ NoDir = [root |-> -1, dirs |-> a, pte |-> e, shared_page_start |-> SharedStart,
                                  user_mem_bound |-> b, stack |-> -1]
                       /\ e = [va \in VAs |-> Unmapped]
    BY Zenon DEF NoDir
  <2>2. d = [root |-> r, dirs |-> a, pte |-> e, shared_page_start |-> SharedStart,
             user_mem_bound |-> b, stack |-> s]
    BY <1>1, <2>1, DirFields, Zenon
  <2> QED
    BY <2>1, <2>2
<1>3. IsEntry(Unmapped)
  BY DEF IsEntry, Unmapped
<1>4. d.pte = [va \in VAs |-> d.pte[va]] /\ \A va \in VAs : d.pte[va] = Unmapped
  BY <1>2
<1>5. SharedStart \in SharedStart .. SharedStart + MaxAttach
  BY MemoryAssumption
<1>6. IsDir(d)
  BY <1>2, <1>3, <1>4, <1>5, Zenon DEF IsDir
<1>7. pd' = [pd EXCEPT ![p] = d]
  <2>1. PICK z : z = [h |-> h, d |-> d, remapped |-> FALSE]
    BY Zenon
  <2>2. Store(p, z) /\ z.d = d
    BY <1>1, <2>1, Zenon
  <2> QED
    BY <2>2, Zenon DEF Store
<1> QED
  BY <1>2, <1>6, <1>7, DirPages, Zenon
-----------------------------------------------------------------------------
(* A step of one CPU: x is what it runs afterwards. *)
Moves(c, x) == x \in Cpu /\ cpu' = [cpu EXCEPT ![c] = x]

(* A process that has been loaded stays so. *)
Lives == life' \in [Procs -> {"none", "live", "killed", "deleted"}]
         /\ \A p \in Procs : life[p] # "none" => life'[p] # "none"

(* A CPU that moves leaves the others alone. *)
LEMMA MoveOthers ==
  ASSUME IInv, NEW c \in CPUs, NEW x, Moves(c, x)
  PROVE  /\ cpu' \in [CPUs -> Cpu] /\ cpu'[c] = x
         /\ \A d \in CPUs : d # c => cpu'[d] = cpu[d]
BY DEF IInv, Shape, Moves

(* The new entry of the CPU decides whether the loaders stay apart. *)
LEMMA MoveLoaders ==
  ASSUME IInv, NEW c \in CPUs, NEW x, Moves(c, x), Lives,
         x.pc \in {"exec", "load"} =>
           /\ x.task.p \in Procs /\ life'[x.task.p] = "none" /\ x.task.pages <= Argv
           /\ \A d \in CPUs : Loading(d) /\ cpu[d].task.p = x.task.p => d = c,
         x.proc \in Procs => life'[x.proc] # "none", x.pc = "fault" => x.proc \in Procs,
         \A d \in CPUs : d # c /\ Loading(d) => life'[cpu[d].task.p] = "none"
  PROVE  Loaders'
<1>1. cpu'[c] = x /\ \A d \in CPUs : d # c => cpu'[d] = cpu[d]
  BY MoveOthers, Zenon
<1>2. Loading(c)' <=> x.pc \in {"exec", "load"}
  BY <1>1, Zenon DEF Loading
<1>3. \A d \in CPUs : d # c => (Loading(d)' <=> Loading(d))
  BY <1>1, Zenon DEF Loading
<1>4. \A d \in CPUs : Loading(d)' => /\ cpu'[d].task.p \in Procs /\ life'[cpu'[d].task.p] = "none"
                                    /\ cpu'[d].task.pages <= Argv
  BY <1>1, <1>2, <1>3, ZenonT(60) DEF IInv, Loaders
<1>5. \A d \in CPUs : cpu'[d].proc \in Procs => life'[cpu'[d].proc] # "none"
  BY <1>1, Zenon DEF IInv, Loaders, Lives
<1>6. \A d, e \in CPUs : Loading(d)' /\ Loading(e)' /\ cpu'[d].task.p = cpu'[e].task.p => d = e
  BY <1>1, <1>2, <1>3, ZenonT(60) DEF IInv, Loaders
<1>7. \A d \in CPUs : cpu'[d].pc = "fault" => cpu'[d].proc \in Procs
  BY <1>1, Zenon DEF IInv, Loaders
<1> QED
  BY <1>4, <1>5, <1>6, <1>7, Zenon DEF Loaders

(* A CPU that moves keeps the shape of the state. *)
LEMMA MoveShape ==
  ASSUME IInv, NEW c \in CPUs, NEW x, Moves(c, x), Lives, NEW p, Paged(p), use' = use,
         tlb' = tlb \/ tlb' = [tlb EXCEPT ![c] = {}]
  PROVE  Shape'
<1>1. cpu' \in [CPUs -> Cpu]
  BY MoveOthers, Zenon
<1>2. tlb' = [d \in CPUs |-> tlb'[d]] /\ \A d \in CPUs : tlb'[d] = tlb[d] \/ tlb'[d] = {}
  <2>1. tlb = [d \in CPUs |-> tlb[d]]
    BY Zenon DEF IInv, Shape
  <2>2. CASE tlb' = tlb
    BY <2>1, <2>2, Zenon
  <2>3. CASE tlb' = [tlb EXCEPT ![c] = {}]
    BY <2>1, <2>3
  <2> QED
    BY <2>2, <2>3
<1>3. \A d \in CPUs : \A e \in tlb'[d] : e.va \in VAs
  BY <1>2, Zenon DEF IInv, Shape
<1> QED
  BY <1>1, <1>2, <1>3, Zenon DEF IInv, Shape, Paged, Lives

(* A step that moves no CPU. *)
LEMMA RestLoaders ==
  ASSUME IInv, UNCHANGED <<cpu, life>>
  PROVE  Loaders'
BY Zenon DEF IInv, Loaders, Loading

(* So does a step in which no CPU moves. *)
LEMMA RestShape ==
  ASSUME IInv, UNCHANGED <<cpu, life, use, tlb>>, NEW p, Paged(p)
  PROVE  Shape'
BY Zenon DEF IInv, Shape, Paged
-----------------------------------------------------------------------------
(* What the steps do, in these terms.  Those that move no CPU: *)
(* sys_brk and crt_init change the bound of their own process. *)
LEMMA BoundIs ==
  ASSUME IInv, NEW c \in CPUs, NEW b, sys_brk(c, b) \/ crt_init(c)
  PROVE  /\ cpu[c].proc \in Procs /\ UNCHANGED <<use, life, cpu, tlb, ipi, shared_pages>>
         /\ Paged(cpu[c].proc) /\ pd'[cpu[c].proc].pte = pd[cpu[c].proc].pte
<1>1. cpu[c].proc \in Procs /\ UNCHANGED <<use, life, cpu, tlb, ipi, shared_pages>>
  BY CpuType, Zenon DEF sys_brk, crt_init
<1>2. PICK p \in Procs : p = cpu[c].proc
  BY <1>1, Zenon
<1>3. PICK n : pd' = [pd EXCEPT ![p].user_mem_bound = n]
  BY <1>2, Zenon DEF sys_brk, crt_init
<1> QED
  BY <1>1, <1>2, <1>3, BoundPages, Zenon

(* The shared page that sys_shmpageget finds or makes. *)
Page(key) == IF Find(key) = {} THEN [key |-> key, kva |-> kalloc(heap, 1).at, cnt |-> 0]
             ELSE shared_pages[CHOOSE i \in Find(key) : TRUE]

(* sys_shmpageget maps a page of its own process. *)
LEMMA GetIs ==
  ASSUME IInv, NEW c \in CPUs, NEW key, sys_shmpageget(c, key)
  PROVE  /\ cpu[c].proc \in Procs /\ UNCHANGED <<use, life, cpu, tlb>>
         /\ pd[cpu[c].proc].shared_page_start \in VAs
         /\ Paged(cpu[c].proc) /\ send_intr_to_running_thread(cpu[c].proc)
         /\ \/ pd'[cpu[c].proc].pte = pd[cpu[c].proc].pte
            \/ Attached(cpu[c].proc, pd[cpu[c].proc].shared_page_start, Page(key).kva)
<1>1. /\ cpu[c].proc \in Procs /\ UNCHANGED <<use, life, cpu, tlb>>
      /\ send_intr_to_running_thread(cpu[c].proc)
  BY CpuType, Zenon DEF sys_shmpageget
<1>2. PICK p \in Procs : p = cpu[c].proc
  BY <1>1, Zenon
<1>3. PICK va : va = pd[p].shared_page_start
  BY Zenon
<1>4. va \in VAs /\ va + 1 \in SharedStart .. SharedStart + MaxAttach
  <2>1. va \in SharedStart .. SharedStart + MaxAttach
    BY <1>3, Zenon DEF IInv, Shape, IsDir
  <2>2. va < SharedStart + use.attach
    BY <1>2, <1>3, Zenon DEF sys_shmpageget
  <2>3. use.attach \in 0 .. MaxAttach
    BY MemoryAssumption, Zenon DEF IInv, Shape
  <2> QED
    BY <2>1, <2>2, <2>3, MemoryAssumption DEF VAs
<1>5. PICK h, f, z : f = Page(key).kva /\ AttachTo(p, h, va, f, z, va + 1) /\ Store(p, z)
  BY <1>2, <1>3, Zenon DEF sys_shmpageget, Page, AttachTo
<1>6. /\ Paged(p)
      /\ pd[p].pte[va].V => pd'[p].pte = pd[p].pte
      /\ ~pd[p].pte[va].V => Attached(p, va, f)
  BY <1>4, <1>5, AttachPages, Zenon
<1> QED
  BY <1>1, <1>2, <1>3, <1>4, <1>5, <1>6, Zenon

(* Two fields of what a CPU runs are written at once. *)
SetVa(c, l, v) == cpu' = [cpu EXCEPT ![c].pc = l, ![c].va = v]

(* The record of a CPU after an assignment to pc and va, *)
LEMMA PcAndVa ==
  ASSUME IInv, NEW c \in CPUs, NEW l \in Labels, NEW v \in VAs, SetVa(c, l, v)
  PROVE  \E x : /\ Moves(c, x) /\ x.pc = l /\ x.proc = cpu[c].proc
               /\ x.va = v /\ x.task = cpu[c].task
<1>1. PICK a : a = cpu[c]
  BY Zenon
<1>2. a \in Cpu /\ a = [pc |-> a.pc, proc |-> a.proc, va |-> a.va, task |-> a.task]
  BY <1>1, CpuType DEF Cpu
<1>3. PICK y : y = [pc |-> l, proc |-> a.proc, va |-> a.va, task |-> a.task]
  BY Zenon
<1>4. PICK x : x = [pc |-> l, proc |-> a.proc, va |-> v, task |-> a.task]
  BY Zenon
<1>5. [a EXCEPT !.pc = l] = y /\ [y EXCEPT !.va = v] = x
  BY <1>2, <1>3, <1>4
<1>6. PICK g : g = [cpu EXCEPT ![c] = y]
  BY Zenon
<1>7. g[c] = y /\ \A z : [g EXCEPT ![c] = z] = [cpu EXCEPT ![c] = z]
  BY <1>6 DEF IInv, Shape
<1>8. g = [cpu EXCEPT ![c].pc = l]
  BY <1>1, <1>5, <1>6, Zenon
<1>9. [g EXCEPT ![c].va = v] = [cpu EXCEPT ![c] = x]
  BY <1>5, <1>7, Zenon
<1>10. cpu' = [cpu EXCEPT ![c] = x]
  <2>1. [[cpu EXCEPT ![c].pc = l] EXCEPT ![c].va = v] = [cpu EXCEPT ![c] = x]
    BY <1>8, <1>9, Zenon
  <2> QED
    BY <2>1, Zenon DEF SetVa
<1>11. x \in Cpu /\ x.pc = l /\ x.proc = a.proc /\ x.va = v /\ x.task = a.task
  BY <1>2, <1>4 DEF Cpu, Labels
<1> QED
  BY <1>1, <1>10, <1>11, Zenon DEF Moves

SetTask(c, l, v) == cpu' = [cpu EXCEPT ![c].pc = l, ![c].task = v]

(* ... to pc and task, *)
LEMMA PcAndTask ==
  ASSUME IInv, NEW c \in CPUs, NEW l \in Labels, NEW v \in Task, SetTask(c, l, v)
  PROVE  \E x : /\ Moves(c, x) /\ x.pc = l /\ x.proc = cpu[c].proc
               /\ x.task = v
<1>1. PICK a : a = cpu[c]
  BY Zenon
<1>2. a \in Cpu /\ a = [pc |-> a.pc, proc |-> a.proc, va |-> a.va, task |-> a.task]
  BY <1>1, CpuType DEF Cpu
<1>3. PICK y : y = [pc |-> l, proc |-> a.proc, va |-> a.va, task |-> a.task]
  BY Zenon
<1>4. PICK x : x = [pc |-> l, proc |-> a.proc, va |-> a.va, task |-> v]
  BY Zenon
<1>5. [a EXCEPT !.pc = l] = y /\ [y EXCEPT !.task = v] = x
  BY <1>2, <1>3, <1>4
<1>6. PICK g : g = [cpu EXCEPT ![c] = y]
  BY Zenon
<1>7. g[c] = y /\ \A z : [g EXCEPT ![c] = z] = [cpu EXCEPT ![c] = z]
  BY <1>6 DEF IInv, Shape
<1>8. g = [cpu EXCEPT ![c].pc = l]
  BY <1>1, <1>5, <1>6, Zenon
<1>9. [g EXCEPT ![c].task = v] = [cpu EXCEPT ![c] = x]
  BY <1>5, <1>7, Zenon
<1>10. cpu' = [cpu EXCEPT ![c] = x]
  <2>1. [[cpu EXCEPT ![c].pc = l] EXCEPT ![c].task = v] = [cpu EXCEPT ![c] = x]
    BY <1>8, <1>9, Zenon
  <2> QED
    BY <2>1, Zenon DEF SetTask
<1>11. x \in Cpu /\ x.pc = l /\ x.proc = a.proc /\ x.va = a.va /\ x.task = v
  BY <1>2, <1>4 DEF Cpu, Labels
<1> QED
  BY <1>1, <1>10, <1>11, Zenon DEF Moves

(* Those that move a CPU: the fault, which stops the kernel or enters it, *)
LEMMA PageFaultIs ==
  ASSUME IInv, NEW c \in CPUs, NEW va \in VAs, PageFault(c, va)
  PROVE  /\ cpu[c].proc \in Procs /\ cpu[c].pc = "user"
         /\ UNCHANGED <<use, pd, life, tlb, ipi, shared_pages>>
         /\ \/ cpu' = cpu
            \/ \E x : /\ Moves(c, x) /\ x.pc = "fault" /\ x.proc = cpu[c].proc
                      /\ x.va = va /\ x.task = cpu[c].task
<1>1. /\ cpu[c].proc \in Procs /\ cpu[c].pc = "user"
      /\ UNCHANGED <<use, pd, life, tlb, ipi, shared_pages>>
  BY CpuType, Zenon DEF PageFault
<1>2. CASE SetVa(c, "fault", va)
  <2>1. "fault" \in Labels
    BY DEF Labels
  <2> QED
    BY <1>1, <1>2, <2>1, PcAndVa
<1> QED
  BY <1>1, <1>2, Zenon DEF PageFault, SetVa

(* the detach, *)
LEMMA UnmapIs ==
  ASSUME IInv, NEW c \in CPUs, NEW va \in VAs, Unmap(c, va)
  PROVE  /\ cpu[c].proc \in Procs /\ cpu[c].pc = "user"
         /\ UNCHANGED <<use, life, tlb, ipi, shared_pages>> /\ Paged(cpu[c].proc)
         /\ \/ UNCHANGED <<pd, cpu>> /\ hung' = "detach"
            \/ /\ Detached(cpu[c].proc, va)
               /\ \E x : /\ Moves(c, x) /\ x.pc = "unmap" /\ x.proc = cpu[c].proc
                         /\ x.va = va /\ x.task = cpu[c].task
<1>1. /\ cpu[c].proc \in Procs /\ cpu[c].pc = "user" /\ cpu[c] \in Cpu
      /\ UNCHANGED <<use, life, tlb, ipi, shared_pages>>
  BY CpuType, Zenon DEF Unmap
<1>2. PICK p \in Procs : p = cpu[c].proc
  BY <1>1, Zenon
<1>3. CASE UNCHANGED <<pd, cpu>> /\ hung' = "detach"
  BY <1>1, <1>3, SamePages, Zenon
<1>4. CASE pd[p].pte[va].V
  <2>1. pd' = [pd EXCEPT ![p].pte[va].V = FALSE]
    BY <1>2, <1>4, Zenon DEF Unmap
  <2>2. Paged(p) /\ Detached(p, va)
    BY <1>4, <2>1, UnmapPages, Zenon
  <2>3. SetVa(c, "unmap", va)
    BY <1>2, <1>4, Zenon DEF Unmap, SetVa
  <2>4. "unmap" \in Labels
    BY DEF Labels
  <2>5. \E x : /\ Moves(c, x) /\ x.pc = "unmap" /\ x.proc = cpu[c].proc
              /\ x.va = va /\ x.task = cpu[c].task
    BY <2>3, <2>4, PcAndVa
  <2> QED
    BY <1>1, <1>2, <2>2, <2>5, Zenon
<1> QED
  BY <1>2, <1>3, <1>4, Zenon DEF Unmap

(* ... and after a return to user code. *)
LEMMA RestingType ==
  ASSUME NEW q \in Procs \cup {Idle}
  PROVE  /\ Resting(q) \in Cpu /\ Resting(q).pc = "user" /\ Resting(q).proc = q
         /\ \A l \in Labels :
              LET x == [Resting(q) EXCEPT !.pc = l]
              IN  x \in Cpu /\ x.pc = l /\ x.proc = q
<1>1. NoTask \in Task
  BY DEF NoTask, Task
<1>2. 0 \in VAs
  BY MemoryAssumption DEF VAs
<1> QED
  BY <1>1, <1>2 DEF Resting, Cpu, Labels

(* The handler of the fault maps a page of its process, or finds it mapped. *)
LEMMA FaultEndIs ==
  ASSUME IInv, NEW c \in CPUs, FaultEnd(c)
  PROVE  /\ UNCHANGED <<use, life, tlb, shared_pages>> /\ Paged(cpu[c].proc)
         /\ cpu[c].pc = "fault" /\ cpu[c].proc \in Procs /\ Moves(c, Resting(cpu[c].proc))
         /\ \/ pd'[cpu[c].proc].pte = pd[cpu[c].proc].pte /\ ipi' = ipi
            \/ send_intr_to_running_thread(cpu[c].proc)
<1>2. UNCHANGED <<use, life, tlb, shared_pages>> /\ cpu[c].pc = "fault"
  BY Zenon DEF FaultEnd
<1>7. cpu[c].va \in VAs
  BY CpuType DEF Cpu
<1>1. PICK p \in Procs, va \in VAs : p = cpu[c].proc /\ va = cpu[c].va
  BY <1>2, <1>7, Zenon DEF IInv, Loaders
<1>3. Paged(p) /\ Filled(p, va)
  <2>1. Store(p, alloc_page_for_va(Mem(p), va))
    BY <1>1, Zenon DEF FaultEnd
  <2> QED
    BY <2>1, AllocPages, Zenon
<1>4. Moves(c, Resting(p))
  BY <1>1, RestingType, Zenon DEF FaultEnd, Moves
<1>5. CASE pd[p].pte[va].V
  <2>1. pd'[p].pte = pd[p].pte
    BY <1>3, <1>5, Zenon DEF Filled, Fills
  <2>2. ipi' = ipi
    BY <1>1, <1>5, Zenon DEF FaultEnd
  <2> QED
    BY <1>1, <1>2, <1>3, <1>4, <2>1, <2>2, Zenon
<1>6. CASE ~pd[p].pte[va].V
  <2>1. send_intr_to_running_thread(p)
    BY <1>1, <1>6, Zenon DEF FaultEnd
  <2> QED
    BY <1>1, <1>2, <1>3, <1>4, <2>1, Zenon
<1> QED
  BY <1>5, <1>6, Zenon

(* sys_shmpagedt interrupts the CPUs of its process and returns. *)
LEMMA DetachIs ==
  ASSUME IInv, NEW c \in CPUs, sys_shmpagedt(c)
  PROVE  /\ UNCHANGED <<use, life, pd, tlb>>
         /\ cpu[c].pc = "unmap" /\ Moves(c, Resting(cpu[c].proc))
         /\ send_intr_to_running_thread(cpu[c].proc)
<1>1. cpu[c].proc \in Procs \cup {Idle}
  BY CpuType, Zenon
<1> QED
  BY <1>1, RestingType, Zenon DEF sys_shmpagedt, Moves

(* The number of pages of an image is a number. *)
LEMMA PagesType ==
  ASSUME NEW n \in Nat
  PROVE  Pages(n) \in Nat
<1>1. n \div SectorsPerPage \in Nat
  BY MemoryAssumption
<1> QED
  BY <1>1 DEF Pages

(* The task that load_task_img is given. *)
ImageTask(p, n) == [p |-> p, block_num |-> n, i |-> 0, pages |-> Pages(n)]

(* exec makes the directory of a process that nobody runs yet. *)
LEMMA ExecIs ==
  ASSUME IInv, NEW c \in CPUs, NEW p \in Procs, NEW n \in Nat, Exec(c, p, n)
  PROVE  /\ UNCHANGED <<use, life, tlb, ipi, shared_pages, frame>>
         /\ life[p] = "none" /\ \A d \in CPUs : cpu[d].task.p # p
         /\ Paged(p) /\ pd'[p].pte = [va \in VAs |-> Unmapped]
         /\ cpu[c].pc = "user"
         /\ \E x : /\ Moves(c, x) /\ x.pc = "exec" /\ x.proc = cpu[c].proc
                   /\ x.task = ImageTask(p, n)
<1>1. /\ UNCHANGED <<use, life, tlb, ipi, shared_pages, frame>> /\ cpu[c].pc = "user"
      /\ life[p] = "none" /\ \A d \in CPUs : cpu[d].task.p # p
  BY Zenon DEF Exec, User
<1>2. Paged(p) /\ pd'[p].pte = [va \in VAs |-> Unmapped]
  <2>1. PICK h, r, s : Store(p, [h |-> h, d |-> [NoDir EXCEPT !.root = r, !.stack = s],
                                 remapped |-> FALSE])
    BY Zenon DEF Exec
  <2> QED
    BY <2>1, NewPages, Zenon
<1>3. PICK t : t = [p |-> p, block_num |-> n, i |-> 0, pages |-> Pages(n)]
  BY Zenon
<1>4. t \in Task /\ t = ImageTask(p, n)
  BY <1>3, PagesType DEF Task, ImageTask
<1>5. SetTask(c, "exec", t) /\ "exec" \in Labels
  BY <1>3, Zenon DEF Exec, SetTask, Labels
<1>6. \E x : Moves(c, x) /\ x.pc = "exec" /\ x.proc = cpu[c].proc /\ x.task = t
  BY <1>4, <1>5, PcAndTask
<1> QED
  BY <1>1, <1>2, <1>4, <1>6, Zenon

(* One field is written. *)
SetPc(c, l) == cpu' = [cpu EXCEPT ![c].pc = l]

(* The record of a CPU after an assignment to pc, *)
LEMMA PcOnly ==
  ASSUME IInv, NEW c \in CPUs, NEW l \in Labels, SetPc(c, l)
  PROVE  \E x : Moves(c, x) /\ x.pc = l /\ x.proc = cpu[c].proc /\ x.task = cpu[c].task
<1>1. PICK a : a = cpu[c]
  BY Zenon
<1>2. a \in Cpu
  BY <1>1, CpuType, Zenon
<1>3. PICK x : x = [a EXCEPT !.pc = l]
  BY Zenon
<1>4. x \in Cpu /\ x.pc = l /\ x.proc = a.proc /\ x.task = a.task
  BY <1>2, <1>3 DEF Cpu
<1>5. cpu' = [cpu EXCEPT ![c] = x]
  BY <1>1, <1>3, Zenon DEF SetPc
<1> QED
  BY <1>1, <1>4, <1>5, Zenon DEF Moves

NextTask(c, t) == cpu' = [cpu EXCEPT ![c].task = t]

(* ... and to task. *)
LEMMA TaskOnly ==
  ASSUME IInv, NEW c \in CPUs, NEW t \in Task, NextTask(c, t)
  PROVE  \E x : Moves(c, x) /\ x.pc = cpu[c].pc /\ x.proc = cpu[c].proc /\ x.task = t
<1>1. PICK a : a = cpu[c]
  BY Zenon
<1>2. a \in Cpu
  BY <1>1, CpuType, Zenon
<1>3. PICK x : x = [a EXCEPT !.task = t]
  BY Zenon
<1>4. x \in Cpu /\ x.pc = a.pc /\ x.proc = a.proc /\ x.task = t
  BY <1>2, <1>3 DEF Cpu
<1>5. cpu' = [cpu EXCEPT ![c] = x]
  BY <1>1, <1>3, Zenon DEF NextTask
<1> QED
  BY <1>1, <1>4, <1>5, Zenon DEF Moves

(* The loader starts while no other CPU loads. *)
LEMMA LoadBeginIs ==
  ASSUME IInv, NEW c \in CPUs, LoadBegin(c)
  PROVE  /\ UNCHANGED <<use, life, pd, tlb, ipi, shared_pages, frame>>
         /\ cpu[c].pc = "exec" /\ \A d \in CPUs : cpu[d].pc # "load"
         /\ \E x : /\ Moves(c, x) /\ x.pc = "load" /\ x.proc = cpu[c].proc
                   /\ x.task = cpu[c].task
<1>1. SetPc(c, "load") /\ "load" \in Labels
  BY Zenon DEF LoadBegin, Labels, SetPc
<1>2. \E x : Moves(c, x) /\ x.pc = "load" /\ x.proc = cpu[c].proc /\ x.task = cpu[c].task
  BY <1>1, PcOnly
<1> QED
  BY <1>2, Zenon DEF LoadBegin

(* enable sets satp and flushes. *)
LEMMA EnableIs ==
  ASSUME IInv, NEW c \in CPUs, enable(c)
  PROVE  /\ UNCHANGED <<use, life, pd, ipi, shared_pages>>
         /\ cpu[c].pc = "switch" /\ tlb' = [tlb EXCEPT ![c] = {}]
         /\ \E x : Moves(c, x) /\ x.pc = "user" /\ x.proc = cpu[c].proc
<1>1. SetPc(c, "user") /\ "user" \in Labels
  BY Zenon DEF enable, Labels, SetPc
<1>2. \E x : Moves(c, x) /\ x.pc = "user" /\ x.proc = cpu[c].proc /\ x.task = cpu[c].task
  BY <1>1, PcOnly
<1> QED
  BY <1>2, Zenon DEF enable

(* do_scheduler chooses a process. *)
LEMMA SwitchIs ==
  ASSUME IInv, NEW c \in CPUs, NEW q \in Ready, Switch(c, q)
  PROVE  /\ UNCHANGED <<use, life, pd, tlb, ipi, shared_pages>> /\ cpu[c].pc = "user"
         /\ \E x : Moves(c, x) /\ x.pc = "switch" /\ x.proc = q
<1>1. q \in Procs \cup {Idle} /\ "switch" \in Labels
  BY Zenon DEF Ready, Labels
<1>2. PICK x : x = [Resting(q) EXCEPT !.pc = "switch"]
  BY Zenon
<1>3. x \in Cpu /\ x.pc = "switch" /\ x.proc = q
  BY <1>1, <1>2, RestingType, ZenonT(60)
<1> QED
  BY <1>2, <1>3, Zenon DEF Switch, Moves

(* An interrupt flushes, or makes the CPU switch. *)
LEMMA SoftIrqIs ==
  ASSUME IInv, NEW c \in CPUs, SoftIrq(c)
  PROVE  /\ UNCHANGED <<use, life, pd, shared_pages>> /\ cpu[c].pc = "user" /\ ipi' = ipi \ {c}
         /\ \/ cpu' = cpu /\ tlb' = [tlb EXCEPT ![c] = {}]
            \/ /\ tlb' = tlb
               /\ \E q \in Ready : \E x : Moves(c, x) /\ x.pc = "switch" /\ x.proc = q
<1>1. ASSUME NEW q \in Ready, cpu' = [cpu EXCEPT ![c] = [Resting(q) EXCEPT !.pc = "switch"]]
      PROVE  \E x : Moves(c, x) /\ x.pc = "switch" /\ x.proc = q
  <2>1. q \in Procs \cup {Idle} /\ "switch" \in Labels
    BY Zenon DEF Ready, Labels
  <2>2. PICK x : x = [Resting(q) EXCEPT !.pc = "switch"]
    BY Zenon
  <2>3. x \in Cpu /\ x.pc = "switch" /\ x.proc = q
    BY <2>1, <2>2, RestingType, ZenonT(60)
  <2> QED
    BY <1>1, <2>2, <2>3, Zenon DEF Moves
<1> QED
  BY <1>1, Zenon DEF SoftIrq

(* The fields of the task of a loader. *)
LEMMA TaskFields ==
  ASSUME NEW t \in Task, NEW i, NEW b
  PROVE  [t EXCEPT !.i = i, !.block_num = b]
         = [p |-> t.p, block_num |-> b, i |-> i, pages |-> t.pages]
<1>1. PICK y : y = [p |-> t.p, block_num |-> t.block_num, i |-> i, pages |-> t.pages]
  BY Zenon
<1>2. [t EXCEPT !.i = i] = y
  BY <1>1 DEF Task
<1>3. [y EXCEPT !.block_num = b] = [p |-> t.p, block_num |-> b, i |-> i, pages |-> t.pages]
  BY <1>1
<1>4. [[t EXCEPT !.i = i] EXCEPT !.block_num = b]
      = [p |-> t.p, block_num |-> b, i |-> i, pages |-> t.pages]
  BY <1>2, <1>3, Zenon
<1> QED
  BY <1>4

(* The page of the image that load_task_img reads next. *)
LEMMA LoadPageIs ==
  ASSUME IInv, NEW c \in CPUs, LoadPage(c), cpu[c].task.i \in VAs
  PROVE  /\ UNCHANGED <<use, life, tlb, shared_pages>>
         /\ cpu[c].pc = "load" /\ cpu[c].task.p \in Procs
         /\ Paged(cpu[c].task.p) /\ Filled(cpu[c].task.p, cpu[c].task.i)
         /\ \E x : /\ Moves(c, x) /\ x.pc = "load" /\ x.proc = cpu[c].proc
                   /\ x.task = [p |-> cpu[c].task.p, block_num |-> cpu[c].task.block_num - SectorsPerPage,
                                i |-> cpu[c].task.i + 1, pages |-> cpu[c].task.pages]
         /\ send_intr_to_running_thread(cpu[c].proc)
<1>1. /\ UNCHANGED <<use, life, tlb, shared_pages>> /\ cpu[c].pc = "load"
      /\ send_intr_to_running_thread(cpu[c].proc)
  BY Zenon DEF LoadPage
<1>2. cpu[c].task.p \in Procs
  BY <1>1, Zenon DEF IInv, Loaders, Loading
<1>3. Paged(cpu[c].task.p) /\ Filled(cpu[c].task.p, cpu[c].task.i)
  <2>1. PICK p \in Procs, va \in VAs : p = cpu[c].task.p /\ va = cpu[c].task.i
    BY <1>2, Zenon
  <2>2. Store(p, alloc_page_for_va(Mem(p), va))
    BY <2>1, Zenon DEF LoadPage
  <2> QED
    BY <2>1, <2>2, AllocPages, Zenon
<1>4. PICK t \in Task : t = cpu[c].task
  BY CpuType, Zenon
<1>5. PICK u : u = [t EXCEPT !.i = t.i + 1, !.block_num = t.block_num - SectorsPerPage]
  BY Zenon
<1>6. u = [p |-> t.p, block_num |-> t.block_num - SectorsPerPage, i |-> t.i + 1, pages |-> t.pages]
  BY <1>5, TaskFields, Zenon
<1>7. u \in Task
  BY <1>4, <1>6, MemoryAssumption DEF Task
<1>8. NextTask(c, u)
  BY <1>4, <1>5, Zenon DEF NextTask, LoadPage
<1>9. \E x : Moves(c, x) /\ x.pc = cpu[c].pc /\ x.proc = cpu[c].proc /\ x.task = u
  BY <1>7, <1>8, TaskOnly
<1> QED
  BY <1>1, <1>2, <1>3, <1>4, <1>6, <1>9, Zenon

(* The loader maps the stack and makes the process live. *)
LEMMA LoadEndIs ==
  ASSUME IInv, NEW c \in CPUs, LoadEnd(c)
  PROVE  /\ UNCHANGED <<use, tlb, shared_pages, frame>>
         /\ cpu[c].pc = "load" /\ cpu[c].task.p \in Procs
         /\ life' = [life EXCEPT ![cpu[c].task.p] = "live"]
         /\ Paged(cpu[c].task.p) /\ Filled(cpu[c].task.p, Argv)
         /\ Moves(c, Resting(cpu[c].proc))
         /\ send_intr_to_running_thread(cpu[c].proc)
<1>1. /\ UNCHANGED <<use, tlb, shared_pages, frame>> /\ cpu[c].pc = "load"
      /\ life' = [life EXCEPT ![cpu[c].task.p] = "live"]
      /\ send_intr_to_running_thread(cpu[c].proc)
  BY Zenon DEF LoadEnd
<1>2. cpu[c].task.p \in Procs
  BY <1>1, Zenon DEF IInv, Loaders, Loading
<1>3. Argv \in VAs
  BY MemoryAssumption DEF VAs
<1>4. Paged(cpu[c].task.p) /\ Filled(cpu[c].task.p, Argv)
  <2>1. PICK p \in Procs : p = cpu[c].task.p
    BY <1>2, Zenon
  <2>2. Store(p, alloc_page_for_va(Mem(p), Argv))
    BY <2>1, Zenon DEF LoadEnd
  <2> QED
    BY <1>3, <2>1, <2>2, AllocPages, Zenon
<1>5. Moves(c, Resting(cpu[c].proc))
  BY CpuType, RestingType, Zenon DEF LoadEnd, Moves
<1> QED
  BY <1>1, <1>2, <1>4, <1>5, Zenon
-----------------------------------------------------------------------------
(* Every step keeps the invariant: those that move no CPU, ... *)
LEMMA WalkKeeps ==
  ASSUME IInv, NEW c \in CPUs, NEW va \in VAs, Walk(c, va)
  PROVE  IInv'
<1>1. /\ UNCHANGED <<use, pd, life, cpu>>
      /\ \E e : e.va = va /\ tlb' = [tlb EXCEPT ![c] = {e}]
  <2>1. PICK e : e = [va |-> va, pa |-> pd[cpu[c].proc].pte[va].pa]
    BY Zenon
  <2>2. e.va = va
    BY <2>1
  <2> QED
    BY <2>1, <2>2, Zenon DEF Walk
<1>2. PICK e : e.va = va /\ tlb' = [tlb EXCEPT ![c] = {e}]
  BY <1>1, Zenon
<1>3. /\ tlb' = [d \in CPUs |-> tlb'[d]] /\ tlb'[c] = {e}
      /\ \A d \in CPUs : d # c => tlb'[d] = tlb[d]
  BY <1>2 DEF IInv, Shape
<1>4. \A d \in CPUs : \A x \in tlb'[d] : x.va \in VAs
  BY <1>2, <1>3, Zenon DEF IInv, Shape
<1>5. Shape'
  BY <1>1, <1>3, <1>4, Zenon DEF IInv, Shape
<1> QED
  BY <1>1, <1>5, RestLoaders, Zenon DEF IInv

(* the heap bound, *)
LEMMA BoundKeeps ==
  ASSUME IInv, NEW c \in CPUs, NEW b, sys_brk(c, b) \/ crt_init(c)
  PROVE  IInv'
BY BoundIs, RestShape, RestLoaders, Zenon DEF IInv

(* the attachment of a shared page, *)
LEMMA GetKeeps ==
  ASSUME IInv, NEW c \in CPUs, NEW key, sys_shmpageget(c, key)
  PROVE  IInv'
BY GetIs, RestShape, RestLoaders, Zenon DEF IInv

(* ... those that move one, ... *)
LEMMA SameLives ==
  ASSUME IInv, life' = life
  PROVE  Lives
BY Zenon DEF IInv, Shape, Lives

(* A process that a CPU runs has been loaded. *)
LEMMA RunsLoaded ==
  ASSUME IInv, NEW c \in CPUs, cpu[c].proc \in Procs
  PROVE  life[cpu[c].proc] # "none"
BY Zenon DEF IInv, Loaders

Flushed(c) == tlb' = [tlb EXCEPT ![c] = {}]

(* A CPU that does not load afterwards and runs a loaded process. *)
LEMMA CalmKeeps ==
  ASSUME IInv, NEW c \in CPUs, NEW x, Moves(c, x), life' = life, use' = use,
         x.pc \notin {"exec", "load"}, x.proc \in Procs => life[x.proc] # "none",
         x.pc = "fault" => x.proc \in Procs,
         NEW p, Paged(p), tlb' = tlb \/ Flushed(c)
  PROVE  IInv'
<1>1. Lives
  BY SameLives, Zenon
<1>2. \A d \in CPUs : d # c /\ Loading(d) => life'[cpu[d].task.p] = "none"
  BY Zenon DEF IInv, Loaders
<1>3. Loaders'
  BY <1>1, <1>2, MoveLoaders, Zenon
<1>4. Shape'
  BY <1>1, MoveShape, Zenon DEF Flushed
<1> QED
  BY <1>3, <1>4, Zenon DEF IInv

(* the page fault, *)
LEMMA PageFaultKeeps ==
  ASSUME IInv, NEW c \in CPUs, NEW va \in VAs, PageFault(c, va)
  PROVE  IInv'
<1>1. Paged(cpu[c].proc)
  BY PageFaultIs, SamePages, Zenon
<1>2. CASE cpu' = cpu
  BY <1>1, <1>2, PageFaultIs, RestShape, RestLoaders, Zenon DEF IInv
<1>3. CASE \E x : Moves(c, x) /\ x.pc = "fault" /\ x.proc = cpu[c].proc
  BY <1>1, <1>3, PageFaultIs, RunsLoaded, CalmKeeps
<1> QED
  BY <1>2, <1>3, PageFaultIs, ZenonT(60)

(* its end, *)
LEMMA FaultEndKeeps ==
  ASSUME IInv, NEW c \in CPUs, FaultEnd(c)
  PROVE  IInv'
<1>1. PICK x : Moves(c, x) /\ x.pc = "user" /\ x.proc = cpu[c].proc
  BY FaultEndIs, CpuType, RestingType, Zenon
<1>2. UNCHANGED <<use, life, tlb>> /\ Paged(cpu[c].proc)
  BY FaultEndIs, Zenon
<1> QED
  BY <1>1, <1>2, RunsLoaded, CalmKeeps

(* the clearing of an entry, *)
LEMMA UnmapKeeps ==
  ASSUME IInv, NEW c \in CPUs, NEW va \in VAs, Unmap(c, va)
  PROVE  IInv'
<1>1. CASE cpu' = cpu
  BY <1>1, UnmapIs, RestShape, RestLoaders, Zenon DEF IInv
<1>2. CASE \E x : Moves(c, x) /\ x.pc = "unmap" /\ x.proc = cpu[c].proc
  BY <1>2, UnmapIs, RunsLoaded, CalmKeeps
<1> QED
  BY <1>1, <1>2, UnmapIs, Zenon

(* the interrupt after it, *)
LEMMA DetachKeeps ==
  ASSUME IInv, NEW c \in CPUs, sys_shmpagedt(c)
  PROVE  IInv'
<1>1. PICK x : Moves(c, x) /\ x.pc = "user" /\ x.proc = cpu[c].proc
  BY DetachIs, CpuType, RestingType, Zenon
<1>2. UNCHANGED <<use, life, pd, tlb>> /\ Paged(cpu[c].proc)
  BY DetachIs, SamePages, Zenon
<1> QED
  BY <1>1, <1>2, RunsLoaded, CalmKeeps

(* the switch of directories, *)
LEMMA EnableKeeps ==
  ASSUME IInv, NEW c \in CPUs, enable(c)
  PROVE  IInv'
<1>1. PICK x : Moves(c, x) /\ x.pc = "user" /\ x.proc = cpu[c].proc
  BY EnableIs, Zenon
<1>2. UNCHANGED <<use, life, pd>> /\ Paged(cpu[c].proc) /\ Flushed(c)
  BY EnableIs, SamePages, Zenon DEF Flushed
<1> QED
  BY <1>1, <1>2, RunsLoaded, CalmKeeps

(* A CPU that turns to a thread do_scheduler may pick. *)
LEMMA TurnKeeps ==
  ASSUME IInv, NEW c \in CPUs, NEW q \in Ready, UNCHANGED <<use, life, pd, tlb>>,
         \E x : Moves(c, x) /\ x.pc = "switch" /\ x.proc = q
  PROVE  IInv'
<1>1. PICK x : Moves(c, x) /\ x.pc = "switch" /\ x.proc = q
  BY Zenon
<1>2. x.proc \in Procs => life[x.proc] # "none"
  BY <1>1, MemoryAssumption DEF Ready
<1>3. Paged(q)
  BY SamePages, Zenon
<1> QED
  BY <1>1, <1>2, <1>3, CalmKeeps

(* the choice of a process, *)
LEMMA SwitchKeeps ==
  ASSUME IInv, NEW c \in CPUs, NEW q \in Ready, Switch(c, q)
  PROVE  IInv'
BY SwitchIs, TurnKeeps, ZenonT(60)

(* the software interrupt, *)
LEMMA SoftIrqKeeps ==
  ASSUME IInv, NEW c \in CPUs, SoftIrq(c)
  PROVE  IInv'
<1>1. CASE cpu' = cpu /\ tlb' = [tlb EXCEPT ![c] = {}]
  <2>1. PICK x : x = cpu[c]
    BY Zenon
  <2>2. UNCHANGED <<use, life, pd>> /\ Paged(cpu[c].proc) /\ x.pc = "user" /\ Flushed(c)
    BY <1>1, <2>1, SoftIrqIs, SamePages, Zenon DEF Flushed
  <2>3. Moves(c, x)
    BY <1>1, <2>1, CpuType DEF Moves, IInv, Shape
  <2> QED
    BY <2>1, <2>2, <2>3, RunsLoaded, CalmKeeps
<1>2. CASE \E q \in Ready : /\ tlb' = tlb
                            /\ \E x : Moves(c, x) /\ x.pc = "switch" /\ x.proc = q
  BY <1>2, SoftIrqIs, TurnKeeps, Zenon
<1> QED
  BY <1>1, <1>2, SoftIrqIs, Zenon

(* ... those of a loader, ... *)
LEMMA ExecKeeps ==
  ASSUME IInv, NEW c \in CPUs, NEW p \in Procs, NEW n \in use.images, Exec(c, p, n)
  PROVE  IInv'
<1>1. n \in Nat /\ n \div SectorsPerPage < Argv
  BY MemoryAssumption, Zenon DEF IInv, Shape
<1>2. Pages(n) <= Argv
  BY <1>1, MemoryAssumption DEF Pages
<1>3. PICK x : /\ Moves(c, x) /\ x.pc = "exec" /\ x.proc = cpu[c].proc
               /\ x.task = ImageTask(p, n)
  BY <1>1, ExecIs
<1>4. x.task.p = p /\ x.task.pages <= Argv
  BY <1>2, <1>3 DEF ImageTask
<1>5. /\ UNCHANGED <<use, life, tlb>> /\ life[p] = "none" /\ Paged(p)
      /\ \A d \in CPUs : cpu[d].task.p # p
  BY <1>1, ExecIs, ZenonT(60)
<1>6. Lives /\ \A d \in CPUs : d # c /\ Loading(d) => life'[cpu[d].task.p] = "none"
  BY <1>5, SameLives, Zenon DEF IInv, Loaders
<1>7. x.proc \in Procs => life'[x.proc] # "none"
  BY <1>3, <1>5, RunsLoaded, Zenon
<1>8. Loaders'
  BY <1>3, <1>4, <1>5, <1>6, <1>7, MoveLoaders
<1> QED
  BY <1>3, <1>5, <1>6, <1>8, MoveShape, Zenon DEF IInv

(* One that goes on loading. *)
LEMMA LoaderKeeps ==
  ASSUME IInv, NEW c \in CPUs, Loading(c), NEW x, Moves(c, x), UNCHANGED <<use, life, tlb>>,
         x.pc = "load", x.proc = cpu[c].proc,
         x.task.p = cpu[c].task.p, x.task.pages = cpu[c].task.pages, NEW p, Paged(p)
  PROVE  IInv'
<1>1. /\ x.task.p \in Procs /\ life'[x.task.p] = "none" /\ x.task.pages <= Argv
      /\ \A d \in CPUs : Loading(d) /\ cpu[d].task.p = x.task.p => d = c
  BY Zenon DEF IInv, Loaders
<1>2. Lives /\ \A d \in CPUs : d # c /\ Loading(d) => life'[cpu[d].task.p] = "none"
  BY SameLives, Zenon DEF IInv, Loaders
<1>3. x.proc \in Procs => life'[x.proc] # "none"
  BY RunsLoaded, Zenon
<1>4. Loaders'
  BY <1>1, <1>2, <1>3, MoveLoaders
<1> QED
  BY <1>2, <1>4, MoveShape, Zenon DEF IInv

(* the start of a load, *)
LEMMA LoadBeginKeeps ==
  ASSUME IInv, NEW c \in CPUs, LoadBegin(c)
  PROVE  IInv'
<1>1. PICK x : Moves(c, x) /\ x.pc = "load" /\ x.proc = cpu[c].proc /\ x.task = cpu[c].task
  BY LoadBeginIs, Zenon
<1>2. UNCHANGED <<use, life, tlb>> /\ Loading(c) /\ Paged(cpu[c].proc)
  BY LoadBeginIs, SamePages, Zenon DEF Loading
<1> QED
  BY <1>1, <1>2, LoaderKeeps

(* The pages of an image are pages. *)
LEMMA LoadsVAs ==
  ASSUME IInv, NEW c \in CPUs, LoadPage(c)
  PROVE  cpu[c].task.i \in VAs
<1>1. cpu[c].task.i < cpu[c].task.pages /\ cpu[c].task.pages <= Argv
  BY Zenon DEF IInv, Loaders, LoadPage, Loading
<1>2. cpu[c].task.i \in Nat /\ cpu[c].task.pages \in Int
  BY CpuType DEF Task
<1> QED
  BY <1>1, <1>2, MemoryAssumption DEF VAs

(* the load of a page, *)
LEMMA LoadPageKeeps ==
  ASSUME IInv, NEW c \in CPUs, LoadPage(c)
  PROVE  IInv'
<1>1. PICK x : /\ Moves(c, x) /\ x.pc = "load" /\ x.proc = cpu[c].proc
               /\ x.task = [p |-> cpu[c].task.p, block_num |-> cpu[c].task.block_num - SectorsPerPage,
                            i |-> cpu[c].task.i + 1, pages |-> cpu[c].task.pages]
  BY LoadsVAs, LoadPageIs, Zenon
<1>2. x.task.p = cpu[c].task.p /\ x.task.pages = cpu[c].task.pages
  BY <1>1
<1>3. UNCHANGED <<use, life, tlb>> /\ Loading(c) /\ Paged(cpu[c].task.p)
  BY LoadsVAs, LoadPageIs, Zenon DEF Loading
<1> QED
  BY <1>1, <1>2, <1>3, LoaderKeeps

(* the end of a load, *)
LEMMA LoadEndKeeps ==
  ASSUME IInv, NEW c \in CPUs, LoadEnd(c)
  PROVE  IInv'
<1>1. PICK x : Moves(c, x) /\ x.pc = "user" /\ x.proc = cpu[c].proc
  BY LoadEndIs, CpuType, RestingType, Zenon
<1>2. PICK p \in Procs : p = cpu[c].task.p
  BY LoadEndIs, Zenon
<1>3. /\ UNCHANGED <<use, tlb>> /\ Loading(c) /\ Paged(p)
      /\ life' = [life EXCEPT ![p] = "live"]
  BY <1>2, LoadEndIs, Zenon DEF Loading
<1>4. /\ Lives /\ life'[p] = "live"
      /\ \A q \in Procs : q # p => life'[q] = life[q]
  BY <1>3 DEF IInv, Shape, Lives
<1>5. \A d \in CPUs : d # c /\ Loading(d) => life'[cpu[d].task.p] = "none"
  BY <1>2, <1>3, <1>4, Zenon DEF IInv, Loaders
<1>6. x.proc \in Procs => life'[x.proc] # "none"
  BY <1>1, <1>4, RunsLoaded, Zenon DEF Lives
<1>7. Loaders'
  BY <1>1, <1>4, <1>5, <1>6, MoveLoaders
<1> QED
  BY <1>1, <1>3, <1>4, <1>7, MoveShape, Zenon DEF IInv

(* ... and the end of a process. *)
LEMMA EndKeeps ==
  ASSUME IInv, NEW c \in CPUs, NEW p \in Procs, Kill(c, p) \/ Cleanup(c, p)
  PROVE  IInv' /\ \A q \in Procs : life'[q] = "live" => life[q] = "live"
<1>1. /\ UNCHANGED <<use, pd, cpu, tlb>> /\ life[p] \in {"live", "killed"}
      /\ \E l \in {"killed", "deleted"} : life' = [life EXCEPT ![p] = l]
  BY Zenon DEF Kill, Cleanup
<1>2. PICK l \in {"killed", "deleted"} : life' = [life EXCEPT ![p] = l]
  BY <1>1, Zenon
<1>3. /\ life' \in [Procs -> {"none", "live", "killed", "deleted"}]
      /\ \A q \in Procs : life'[q] = IF q = p THEN l ELSE life[q]
  BY <1>2 DEF IInv, Shape
<1>4. /\ \A q \in Procs : life'[q] = "none" <=> life[q] = "none"
      /\ \A q \in Procs : life'[q] = "live" => life[q] = "live"
  BY <1>1, <1>3
<1>5. Loaders'
  BY <1>1, <1>4, Zenon DEF IInv, Loaders, Loading
<1>6. Shape'
  BY <1>1, <1>3, Zenon DEF IInv, Shape
<1> QED
  BY <1>4, <1>5, <1>6, Zenon DEF IInv

(* the calls of the user heap, *)
LEMMA HeapCallKeeps ==
  ASSUME IInv, NEW c, NEW u, HeapCall(c, u)
  PROVE  IInv'
BY PlainKeeps, Zenon DEF HeapCall, Plain

(* and a step that changes nothing. *)
LEMMA StutterKeeps ==
  ASSUME IInv, UNCHANGED vars
  PROVE  IInv'
BY PlainKeeps, Zenon DEF vars, Plain

(* IInv holds at start. *)
LEMMA InitIInv ==
  ASSUME Init
  PROVE  IInv
<1>1. \A va \in VAs : NoDir.pte[va] = Unmapped
  BY DEF NoDir
<1>2. IsEntry(Unmapped)
  BY DEF IsEntry, Unmapped
<1>3. IsDir(NoDir)
  <2>1. NoDir.pte = [va \in VAs |-> NoDir.pte[va]]
    BY DEF NoDir
  <2>2. NoDir.shared_page_start \in SharedStart .. SharedStart + MaxAttach
    BY MemoryAssumption DEF NoDir
  <2>3. NoDir = [root |-> NoDir.root, dirs |-> NoDir.dirs, pte |-> NoDir.pte,
                 shared_page_start |-> NoDir.shared_page_start,
                 user_mem_bound |-> NoDir.user_mem_bound, stack |-> NoDir.stack]
    BY DEF NoDir
  <2> QED
    BY <1>1, <1>2, <2>1, <2>2, <2>3, Zenon DEF IsDir
<1>4. Resting(Idle) \in Cpu /\ Resting(Idle).pc = "user" /\ Resting(Idle).proc = Idle
  BY RestingType
<1>5. \A c \in CPUs : cpu[c] = Resting(Idle)
  BY Zenon DEF Init
<1>6. Shape
  <2>1. cpu \in [CPUs -> Cpu]
    BY <1>4 DEF Init
  <2>2. life \in [Procs -> {"none", "live", "killed", "deleted"}]
    BY DEF Init
  <2>3. pd = [p \in Procs |-> pd[p]] /\ \A p \in Procs : IsDir(pd[p])
    BY <1>3, Zenon DEF Init
  <2>4. tlb = [c \in CPUs |-> tlb[c]] /\ \A c \in CPUs : tlb[c] = {}
    BY Zenon DEF Init
  <2> QED
    BY <2>1, <2>2, <2>3, <2>4, Zenon DEF Init, Shape
<1>7. Loaders
  BY <1>4, <1>5, MemoryAssumption DEF Loaders, Loading
<1> QED
  BY <1>6, <1>7, Zenon DEF IInv
-----------------------------------------------------------------------------
(* A CPU that runs a live process, or handles a page fault of it, with a    *)
(* translation that the page table no longer has.                           *)
Holds(c) ==
  LET p == cpu[c].proc
  IN  /\ cpu[c].pc \in {"user", "fault"} /\ p \in Ready \ {Idle}
      /\ \E e \in tlb[c] : ~ pd[p].pte[e.va].V \/ pd[p].pte[e.va].pa # e.pa

(* StaleIsInterrupted for one CPU, which stays so while a page fault is     *)
(* handled.                                                                 *)
Covered(d) == Holds(d) => d \in ipi \/ ~ Unlocked(cpu[d].proc)

(* A step that leaves CPU d, its TLB, the page table it uses, the interrupt *)
(* it waits for and the lock on that page table alone.                      *)
Still(d) ==
  /\ cpu'[d] = cpu[d] /\ tlb'[d] = tlb[d] /\ (d \in ipi => d \in ipi')
  /\ \A p \in Procs : p = cpu[d].proc /\ life'[p] = "live" =>
        /\ life[p] = "live" /\ pd'[p].pte = pd[p].pte
        /\ Unlocked(p)' => Unlocked(p)

(* Nothing that Covered speaks of changes at d. *)
LEMMA StillCovered ==
  ASSUME NEW d \in CPUs, Covered(d), Still(d)
  PROVE  Covered(d)'
<1>1. SUFFICES ASSUME Holds(d)', Unlocked(cpu[d].proc)'
               PROVE  d \in ipi'
  BY Zenon DEF Covered
<1>2. PICK p \in Procs : p = cpu[d].proc /\ life'[p] = "live"
  BY <1>1, Zenon DEF Holds, Ready, Still
<1>3. life[p] = "live" /\ pd'[p].pte = pd[p].pte /\ (Unlocked(p)' => Unlocked(p))
  BY <1>2, Zenon DEF Still
<1>4. cpu'[d] = cpu[d] /\ tlb'[d] = tlb[d] /\ (d \in ipi => d \in ipi')
  BY Zenon DEF Still
<1>5. Unlocked(p)'
  BY <1>1, <1>2, <1>4, Zenon DEF Unlocked
<1>6. Holds(d)
  <2>1. PICK e \in tlb'[d] : ~ pd'[p].pte[e.va].V \/ pd'[p].pte[e.va].pa # e.pa
    BY <1>1, <1>2, <1>4, Zenon DEF Holds
  <2>2. e \in tlb[d] /\ (~ pd[p].pte[e.va].V \/ pd[p].pte[e.va].pa # e.pa)
    BY <1>3, <1>4, <2>1, Zenon
  <2>3. cpu[d].pc \in {"user", "fault"} /\ p # Idle /\ p \in Ready
    BY <1>1, <1>2, <1>3, <1>4, MemoryAssumption, Zenon DEF Holds, Ready
  <2> QED
    BY <1>2, <2>2, <2>3, Zenon DEF Holds
<1> QED
  BY <1>2, <1>3, <1>4, <1>5, <1>6, Zenon DEF Covered

(* A CPU that has been interrupted or flushed, or that runs no user code. *)
LEMMA InterruptCovers ==
  ASSUME NEW p \in Procs, send_intr_to_running_thread(p), NEW d \in CPUs,
         cpu[d].proc = p, cpu'[d].proc = p, life'[p] = "live" => life[p] = "live"
  PROVE  Covered(d)'
<1>1. Holds(d)' => life'[p] = "live"
  BY MemoryAssumption DEF Holds, Ready
<1>2. life[p] = "live" => d \in ipi'
  BY MemoryAssumption DEF send_intr_to_running_thread
<1> QED
  BY <1>1, <1>2, Zenon DEF Covered

(* A CPU that has flushed, or is not in user code, is covered. *)
LEMMA FlushCovers ==
  ASSUME NEW d \in CPUs, tlb'[d] = {} \/ cpu'[d].pc \notin {"user", "fault"}
  PROVE  Covered(d)'
BY Zenon DEF Covered, Holds

(* Sending an interrupt takes none back. *)
LEMMA SendKeeps ==
  ASSUME NEW p, send_intr_to_running_thread(p), NEW d
  PROVE  d \in ipi => d \in ipi'
BY DEF send_intr_to_running_thread

(* Only the second step of a detach releases the lock of a page table. *)
LEMMA MoveUnlocked ==
  ASSUME IInv, NEW c \in CPUs, NEW x, Moves(c, x), NEW p, cpu[c].pc # "unmap" \/ cpu[c].proc # p
  PROVE  Unlocked(p)' => Unlocked(p)
<1>1. \A d \in CPUs : d # c => cpu'[d] = cpu[d]
  BY MoveOthers, Zenon
<1> QED
  BY <1>1, Zenon DEF Unlocked

(* The CPUs that a step of one of them does not touch: it changes the page *)
(* table of another process, or none.                                      *)
LEMMA RestStill ==
  ASSUME NEW d \in CPUs, UNCHANGED <<cpu, life>>, tlb'[d] = tlb[d], d \in ipi => d \in ipi',
         NEW p, Paged(p), cpu[d].proc # p \/ pd'[p].pte = pd[p].pte
  PROVE  Still(d)
BY Zenon DEF Still, Paged, Unlocked

(* A CPU that moves and unmaps nothing leaves the others still. *)
LEMMA MoveStill ==
  ASSUME IInv, NEW c \in CPUs, NEW x, Moves(c, x), NEW d \in CPUs, d # c,
         cpu[c].pc # "unmap" \/ cpu[c].proc # cpu[d].proc,
         tlb'[d] = tlb[d], d \in ipi => d \in ipi',
         cpu[d].proc \in Procs => life'[cpu[d].proc] = life[cpu[d].proc],
         NEW p, Paged(p), cpu[d].proc # p \/ pd' = pd
  PROVE  Still(d)
<1>1. cpu'[d] = cpu[d]
  BY MoveOthers, Zenon
<1>3. cpu[d].proc \in Procs => pd'[cpu[d].proc] = pd[cpu[d].proc]
  BY Zenon DEF Paged
<1>4. ASSUME NEW q \in Procs, q = cpu[d].proc
      PROVE  Unlocked(q)' => Unlocked(q)
  BY <1>4, MoveUnlocked, Zenon
<1> QED
  BY <1>1, <1>3, <1>4, Zenon DEF Still

(* A CPU that enters or leaves the handler of a fault keeps what it has.    *)
LEMMA HandlerCovers ==
  ASSUME IInv, NEW c \in CPUs, NEW x, Moves(c, x), x.proc = cpu[c].proc, Covered(c),
         cpu[c].pc \in {"user", "fault"}, UNCHANGED <<life, tlb, ipi>>,
         cpu[c].proc \in Procs => pd'[cpu[c].proc].pte = pd[cpu[c].proc].pte
  PROVE  Covered(c)'
<1>1. SUFFICES ASSUME Holds(c)', Unlocked(cpu[c].proc)'
               PROVE  c \in ipi'
  BY Zenon DEF Covered
<1>2. cpu'[c].proc = cpu[c].proc
  BY MoveOthers, Zenon
<1>3. PICK p \in Procs : p = cpu[c].proc /\ life[p] = "live" /\ p # Idle
  BY <1>1, <1>2, Zenon DEF Holds, Ready
<1>4. Holds(c)
  <2>1. PICK e \in tlb[c] : ~ pd'[p].pte[e.va].V \/ pd'[p].pte[e.va].pa # e.pa
    BY <1>1, <1>2, <1>3, Zenon DEF Holds
  <2>2. ~ pd[p].pte[e.va].V \/ pd[p].pte[e.va].pa # e.pa
    BY <1>3, <2>1, Zenon
  <2> QED
    BY <1>3, <2>1, <2>2, Zenon DEF Holds, Ready
<1>5. Unlocked(p)
  <2>1. cpu[c].pc # "unmap"
    OBVIOUS
  <2>2. Unlocked(p)'
    BY <1>1, <1>2, <1>3, Zenon DEF Unlocked
  <2> QED
    BY <2>1, <2>2, MoveUnlocked, Zenon
<1> QED
  BY <1>3, <1>4, <1>5, Zenon DEF Covered

(* Each action keeps d covered: the walk of the page table, *)
LEMMA WalkCovers ==
  ASSUME IInv, NEW c \in CPUs, NEW va \in VAs, Walk(c, va), NEW d \in CPUs, Covered(d)
  PROVE  Covered(d)'
<1>1. tlb = [b \in CPUs |-> tlb[b]]
  BY Zenon DEF IInv, Shape
<1>2. UNCHANGED <<life, pd, cpu, ipi>> /\ pd[cpu[c].proc].pte[va].V
  BY Zenon DEF Walk
<1>3. CASE d = c
  <2>1. PICK f : f = pd[cpu[c].proc].pte[va].pa
    BY Zenon
  <2>2. \A e \in tlb'[c] : e.va = va /\ e.pa = f
    <3>1. tlb' = [tlb EXCEPT ![c] = {[va |-> va, pa |-> f]}]
      BY <2>1, Zenon DEF Walk
    <3> QED
      BY <1>1, <3>1
  <2>3. ~ Holds(c)'
    BY <1>2, <2>1, <2>2, Zenon DEF Holds
  <2> QED
    BY <1>3, <2>3, Zenon DEF Covered
<1>4. CASE d # c
  <2>1. tlb'[d] = tlb[d]
    BY <1>1, <1>4 DEF Walk
  <2> QED
    BY <1>2, <2>1, SamePages, RestStill, StillCovered, Zenon
<1> QED
  BY <1>3, <1>4, Zenon

(* the page fault, *)
LEMMA PageFaultCovers ==
  ASSUME IInv, NEW c \in CPUs, NEW va \in VAs, PageFault(c, va), NEW d \in CPUs, Covered(d)
  PROVE  Covered(d)'
<1>1. UNCHANGED <<life, pd, tlb, ipi>> /\ cpu[c].pc = "user" /\ Paged(cpu[c].proc)
  BY PageFaultIs, SamePages, Zenon
<1>2. CASE cpu' = cpu
  BY <1>1, <1>2, RestStill, StillCovered, Zenon
<1>3. CASE \E x : Moves(c, x) /\ x.pc = "fault" /\ x.proc = cpu[c].proc
  <2>1. PICK x : Moves(c, x) /\ x.pc = "fault" /\ x.proc = cpu[c].proc
    BY <1>3, Zenon
  <2>2. cpu[c].pc # "unmap"
    BY <1>1
  <2>3. CASE d = c
    BY <1>1, <2>1, <2>2, <2>3, HandlerCovers
  <2>4. CASE d # c
    BY <1>1, <2>1, <2>2, <2>4, MoveStill, StillCovered, Zenon
  <2> QED
    BY <2>3, <2>4, Zenon
<1> QED
  BY <1>2, <1>3, PageFaultIs, Zenon

(* its end, *)
LEMMA FaultEndCovers ==
  ASSUME IInv, NEW c \in CPUs, FaultEnd(c), NEW d \in CPUs, Covered(d)
  PROVE  Covered(d)'
<1>1. PICK p \in Procs : p = cpu[c].proc
  BY FaultEndIs, Zenon
<1>2. UNCHANGED <<life, tlb>> /\ Paged(p) /\ cpu[c].pc = "fault"
  BY <1>1, FaultEndIs, Zenon
<1>3. PICK x : Moves(c, x) /\ x.pc = "user" /\ x.proc = p
  BY <1>1, FaultEndIs, CpuType, RestingType, Zenon
<1>4. cpu[c].pc # "unmap"
  BY <1>2
<1>5. CASE send_intr_to_running_thread(p) /\ cpu[d].proc = p
  <2>1. cpu'[d].proc = p
    BY <1>3, <1>5, MoveOthers, Zenon
  <2> QED
    BY <1>2, <1>5, <2>1, InterruptCovers, Zenon
<1>6. CASE cpu[d].proc # p /\ (d \in ipi => d \in ipi')
  <2>1. d # c
    BY <1>1, <1>6, Zenon
  <2> QED
    BY <1>2, <1>3, <1>4, <1>6, <2>1, MoveStill, StillCovered, Zenon
<1>7. CASE pd'[p].pte = pd[p].pte /\ ipi' = ipi
  <2>1. CASE d = c
    BY <1>1, <1>2, <1>3, <1>4, <1>7, <2>1, HandlerCovers
  <2>2. CASE d # c
    <3>1. cpu'[d] = cpu[d]
      BY <1>3, <2>2, MoveOthers, Zenon
    <3>2. \A q \in Procs : pd'[q].pte = pd[q].pte
      BY <1>2, <1>7, Zenon DEF Paged
    <3>3. \A q \in Procs : Unlocked(q)' => Unlocked(q)
      BY <1>3, <1>4, MoveUnlocked, Zenon
    <3>4. Still(d)
      BY <1>2, <1>7, <3>1, <3>2, <3>3, Zenon DEF Still
    <3> QED
      BY <3>4, StillCovered, Zenon
  <2> QED
    BY <2>1, <2>2, ZenonT(60)
<1> QED
  BY <1>1, <1>5, <1>6, <1>7, FaultEndIs, SendKeeps, Zenon

(* the heap bound, *)
LEMMA BoundCovers ==
  ASSUME IInv, NEW c \in CPUs, NEW b, sys_brk(c, b) \/ crt_init(c), NEW d \in CPUs, Covered(d)
  PROVE  Covered(d)'
BY BoundIs, RestStill, StillCovered, Zenon

(* the attachment of a shared page, *)
LEMMA GetCovers ==
  ASSUME IInv, NEW c \in CPUs, NEW key, sys_shmpageget(c, key), NEW d \in CPUs, Covered(d)
  PROVE  Covered(d)'
<1>1. PICK p \in Procs : p = cpu[c].proc
  BY GetIs, Zenon
<1>2. UNCHANGED <<life, cpu, tlb>> /\ Paged(p) /\ send_intr_to_running_thread(p)
  BY <1>1, GetIs, Zenon
<1>3. CASE cpu[d].proc = p
  BY <1>2, <1>3, InterruptCovers, Zenon
<1>4. CASE cpu[d].proc # p
  BY <1>2, <1>4, SendKeeps, RestStill, StillCovered, Zenon
<1> QED
  BY <1>3, <1>4, Zenon

(* The detach holds the lock until it has sent the interrupts. *)
LEMMA UnmapCovers ==
  ASSUME IInv, NEW c \in CPUs, NEW va \in VAs, Unmap(c, va), NEW d \in CPUs, Covered(d)
  PROVE  Covered(d)'
<1>1. PICK p \in Procs : p = cpu[c].proc
  BY UnmapIs, Zenon
<1>2. UNCHANGED <<life, tlb, ipi>> /\ Paged(p) /\ cpu[c].pc = "user"
  BY <1>1, UnmapIs, Zenon
<1>3. CASE UNCHANGED <<pd, cpu>>
  BY <1>2, <1>3, RestStill, StillCovered, Zenon
<1>4. CASE \E x : Moves(c, x) /\ x.pc = "unmap" /\ x.proc = cpu[c].proc
  <2>1. PICK x : Moves(c, x) /\ x.pc = "unmap" /\ x.proc = p
    BY <1>1, <1>4, Zenon
  <2>2. cpu'[c] = x /\ \A b \in CPUs : b # c => cpu'[b] = cpu[b]
    BY <2>1, MoveOthers, Zenon
  <2>3. CASE cpu[d].proc = p
    <3>1. cpu'[d].proc = p /\ ~ Unlocked(p)'
      BY <1>1, <2>1, <2>2, <2>3, Zenon DEF Unlocked
    <3> QED
      BY <3>1, Zenon DEF Covered, Unlocked
  <2>4. CASE cpu[d].proc # p
    <3>1. d # c /\ cpu[c].pc # "unmap"
      BY <1>1, <1>2, <2>4
    <3> QED
      BY <1>2, <2>1, <2>4, <3>1, MoveStill, StillCovered, Zenon
  <2> QED
    BY <2>3, <2>4, Zenon
<1> QED
  BY <1>3, <1>4, UnmapIs

(* the interrupt after an entry was cleared, *)
LEMMA DetachCovers ==
  ASSUME IInv, NEW c \in CPUs, sys_shmpagedt(c), NEW d \in CPUs, Covered(d)
  PROVE  Covered(d)'
<1>1. PICK p : p = cpu[c].proc
  BY Zenon
<1>2. /\ UNCHANGED <<life, pd, tlb>> /\ Paged(p)
      /\ Moves(c, Resting(p)) /\ send_intr_to_running_thread(p)
  BY <1>1, DetachIs, SamePages, Zenon
<1>3. CASE cpu[d].proc = p
  <2>1. cpu'[d].proc = p
    <3>1. PICK x : x = Resting(p)
      BY Zenon
    <3>2. Moves(c, x) /\ x.proc = p
      BY <1>1, <1>2, <3>1, CpuType, RestingType, Zenon
    <3> QED
      BY <1>3, <3>2, MoveOthers, Zenon
  <2>2. CASE p \in Procs
    BY <1>2, <1>3, <2>1, <2>2, InterruptCovers, Zenon
  <2>3. CASE p = Idle
    BY <2>1, <2>3, Zenon DEF Covered, Holds
  <2> QED
    BY <1>1, <2>2, <2>3, CpuType, Zenon
<1>4. CASE cpu[d].proc # p
  <2>1. d # c /\ cpu[c].proc # cpu[d].proc
    BY <1>1, <1>4, Zenon
  <2>2. PICK x : Moves(c, x)
    BY <1>2, Zenon
  <2> QED
    BY <1>2, <1>4, <2>1, <2>2, SendKeeps, MoveStill, StillCovered, Zenon
<1> QED
  BY <1>3, <1>4, Zenon

(* A CPU that enters the kernel, or turns to another thread. *)
LEMMA AwayCovers ==
  ASSUME IInv, NEW c \in CPUs, NEW x, Moves(c, x), x.pc \notin {"user", "fault"}, cpu[c].pc # "unmap",
         UNCHANGED <<life, tlb>>, NEW d \in CPUs, Covered(d), d # c /\ d \in ipi => d \in ipi',
         NEW p, Paged(p), cpu[d].proc # p \/ pd' = pd
  PROVE  Covered(d)'
<1>1. CASE d = c
  BY <1>1, MoveOthers, FlushCovers, Zenon
<1>2. CASE d # c
  BY <1>2, MoveStill, StillCovered, Zenon
<1> QED
  BY <1>1, <1>2, Zenon

(* the choice of a process, *)
LEMMA SwitchCovers ==
  ASSUME IInv, NEW c \in CPUs, NEW q \in Ready, Switch(c, q), NEW d \in CPUs, Covered(d)
  PROVE  Covered(d)'
<1>1. PICK x : Moves(c, x) /\ x.pc = "switch"
  BY SwitchIs, Zenon
<1>2. UNCHANGED <<life, pd, tlb, ipi>> /\ Paged(cpu[c].proc) /\ cpu[c].pc = "user"
  BY SwitchIs, SamePages, Zenon
<1>3. x.pc \notin {"user", "fault"} /\ cpu[c].pc # "unmap"
  BY <1>1, <1>2
<1> QED
  BY <1>1, <1>2, <1>3, AwayCovers, Zenon

(* the start of a load, *)
LEMMA LoadBeginCovers ==
  ASSUME IInv, NEW c \in CPUs, LoadBegin(c), NEW d \in CPUs, Covered(d)
  PROVE  Covered(d)'
<1>1. PICK x : Moves(c, x) /\ x.pc = "load"
  BY LoadBeginIs, Zenon
<1>2. UNCHANGED <<life, pd, tlb, ipi>> /\ Paged(cpu[c].proc) /\ cpu[c].pc = "exec"
  BY LoadBeginIs, SamePages, Zenon
<1>3. x.pc \notin {"user", "fault"} /\ cpu[c].pc # "unmap"
  BY <1>1, <1>2
<1> QED
  BY <1>1, <1>2, <1>3, AwayCovers, Zenon

(* The process that is being loaded runs nowhere. *)
LEMMA NotRun ==
  ASSUME IInv, NEW p \in Procs, life[p] = "none", NEW d \in CPUs
  PROVE  cpu[d].proc # p
BY RunsLoaded, Zenon

(* exec, *)
LEMMA ExecCovers ==
  ASSUME IInv, NEW c \in CPUs, NEW p \in Procs, NEW n \in Nat, Exec(c, p, n),
         NEW d \in CPUs, Covered(d)
  PROVE  Covered(d)'
<1>1. PICK x : Moves(c, x) /\ x.pc = "exec"
  BY ExecIs
<1>2. UNCHANGED <<life, tlb, ipi>> /\ Paged(p) /\ cpu[c].pc = "user" /\ cpu[d].proc # p
  BY ExecIs, NotRun, ZenonT(60)
<1>3. x.pc \notin {"user", "fault"} /\ cpu[c].pc # "unmap"
  BY <1>1, <1>2
<1> QED
  BY <1>1, <1>2, <1>3, AwayCovers, Zenon

(* the load of a page, *)
LEMMA LoadPageCovers ==
  ASSUME IInv, NEW c \in CPUs, LoadPage(c), NEW d \in CPUs, Covered(d)
  PROVE  Covered(d)'
<1>1. PICK x : Moves(c, x) /\ x.pc = "load"
  BY LoadsVAs, LoadPageIs, Zenon
<1>2. PICK p \in Procs : p = cpu[c].task.p
  BY LoadsVAs, LoadPageIs, Zenon
<1>3. UNCHANGED <<life, tlb>> /\ Paged(p) /\ cpu[c].pc = "load"
  BY <1>2, LoadsVAs, LoadPageIs, Zenon
<1>4. life[p] = "none" /\ cpu[d].proc # p
  BY <1>2, <1>3, NotRun, Zenon DEF IInv, Loaders, Loading
<1>5. d \in ipi => d \in ipi'
  BY LoadsVAs, LoadPageIs, SendKeeps, Zenon
<1>6. x.pc \notin {"user", "fault"} /\ cpu[c].pc # "unmap"
  BY <1>1, <1>3
<1> QED
  BY <1>1, <1>3, <1>4, <1>5, <1>6, AwayCovers, Zenon

(* the end of a load, *)
LEMMA LoadEndCovers ==
  ASSUME IInv, NEW c \in CPUs, LoadEnd(c), NEW d \in CPUs, Covered(d)
  PROVE  Covered(d)'
<1>1. PICK p \in Procs : p = cpu[c].task.p
  BY LoadEndIs, Zenon
<1>2. PICK q : q = cpu[c].proc
  BY Zenon
<1>3. /\ tlb' = tlb /\ Paged(p) /\ Moves(c, Resting(q)) /\ cpu[c].pc = "load"
      /\ send_intr_to_running_thread(q) /\ life' = [life EXCEPT ![p] = "live"]
  BY <1>1, <1>2, LoadEndIs, Zenon
<1>4. life[p] = "none" /\ cpu[d].proc # p /\ q # p
  BY <1>1, <1>2, <1>3, NotRun, ZenonT(60) DEF IInv, Loaders, Loading
<1>5. /\ q \in Procs => life'[q] = life[q]
      /\ cpu[d].proc \in Procs => life'[cpu[d].proc] = life[cpu[d].proc]
  BY <1>3, <1>4 DEF IInv, Shape
<1>6. CASE d = c
  <2>1. cpu'[d].proc = q
    <3>1. PICK x : x = Resting(q)
      BY Zenon
    <3>2. Moves(c, x) /\ x.proc = q
      BY <1>2, <1>3, <3>1, CpuType, RestingType, Zenon
    <3> QED
      BY <1>6, <3>2, MoveOthers, Zenon
  <2>2. CASE q \in Procs
    BY <1>2, <1>3, <1>5, <1>6, <2>1, <2>2, InterruptCovers, Zenon
  <2>3. CASE q = Idle
    BY <2>1, <2>3, Zenon DEF Covered, Holds
  <2> QED
    BY <1>2, <2>2, <2>3, CpuType, Zenon
<1>7. CASE d # c
  <2>1. PICK x : Moves(c, x)
    BY <1>3, Zenon
  <2>2. cpu[c].pc # "unmap" /\ (d \in ipi => d \in ipi')
    BY <1>3, SendKeeps
  <2> QED
    BY <1>3, <1>4, <1>5, <1>7, <2>1, <2>2, MoveStill, StillCovered, Zenon
<1> QED
  BY <1>6, <1>7, Zenon

(* the switch of directories, *)
LEMMA EnableCovers ==
  ASSUME IInv, NEW c \in CPUs, enable(c), NEW d \in CPUs, Covered(d)
  PROVE  Covered(d)'
<1>1. PICK x : Moves(c, x)
  BY EnableIs, Zenon
<1>2. UNCHANGED <<life, pd, ipi>> /\ Paged(cpu[c].proc) /\ cpu[c].pc = "switch"
  BY EnableIs, SamePages, Zenon
<1>3. cpu[c].pc # "unmap"
  BY <1>2
<1>4. tlb'[c] = {} /\ (d # c => tlb'[d] = tlb[d])
  BY EnableIs DEF IInv, Shape
<1> QED
  BY <1>1, <1>2, <1>3, <1>4, FlushCovers, MoveStill, StillCovered, Zenon

(* the software interrupt, *)
LEMMA SoftIrqCovers ==
  ASSUME IInv, NEW c \in CPUs, SoftIrq(c), NEW d \in CPUs, Covered(d)
  PROVE  Covered(d)'
<1>1. UNCHANGED <<life, pd>> /\ Paged(cpu[c].proc) /\ cpu[c].pc = "user"
  BY SoftIrqIs, SamePages, Zenon
<1>2. d # c /\ d \in ipi => d \in ipi'
  BY SoftIrqIs
<1>3. CASE cpu' = cpu /\ tlb' = [tlb EXCEPT ![c] = {}]
  <2>1. tlb'[c] = {} /\ (d # c => tlb'[d] = tlb[d])
    BY <1>3 DEF IInv, Shape
  <2> QED
    BY <1>1, <1>2, <1>3, <2>1, FlushCovers, RestStill, StillCovered, Zenon
<1>4. CASE /\ tlb' = tlb
           /\ \E q \in Ready : \E x : Moves(c, x) /\ x.pc = "switch" /\ x.proc = q
  <2>1. PICK x : Moves(c, x) /\ x.pc = "switch"
    BY <1>4, Zenon
  <2>2. x.pc \notin {"user", "fault"} /\ cpu[c].pc # "unmap"
    BY <1>1, <2>1
  <2> QED
    BY <1>1, <1>2, <1>4, <2>1, <2>2, AwayCovers, Zenon
<1> QED
  BY <1>3, <1>4, SoftIrqIs, Zenon

(* the end of a process, *)
LEMMA EndCovers ==
  ASSUME IInv, NEW c \in CPUs, NEW p \in Procs, Kill(c, p) \/ Cleanup(c, p),
         NEW d \in CPUs, Covered(d)
  PROVE  Covered(d)'
<1>1. UNCHANGED <<pd, cpu, tlb, ipi>>
  BY Zenon DEF Kill, Cleanup
<1>2. \A q \in Procs : life'[q] = "live" => life[q] = "live"
  BY EndKeeps, Zenon
<1> QED
  BY <1>1, <1>2, StillCovered, Zenon DEF Still, Unlocked

(* the calls of the user heap, *)
LEMMA HeapCallCovers ==
  ASSUME IInv, NEW c, NEW u, HeapCall(c, u), NEW d \in CPUs, Covered(d)
  PROVE  Covered(d)'
BY StillCovered, Zenon DEF HeapCall, Still, Unlocked

(* and a step that changes nothing. *)
LEMMA StutterCovers ==
  ASSUME IInv, UNCHANGED vars, NEW d \in CPUs, Covered(d)
  PROVE  Covered(d)'
BY StillCovered, Zenon DEF vars, Still, Unlocked
-----------------------------------------------------------------------------
(* The inductive invariant: the processes that are being loaded run nowhere, *)
(* and no CPU uses a translation that nobody will take from it.              *)
TInv == IInv /\ \A d \in CPUs : Covered(d)

(* The bounds of the workload name pages and processes. *)
LEMMA Workload ==
  ASSUME IInv
  PROVE  /\ use.pages \subseteq VAs /\ use.detached \subseteq VAs
         /\ use.procs \subseteq Procs /\ use.killed \subseteq Procs
         /\ use.images \subseteq Nat
BY MemoryAssumption, Zenon DEF IInv, Shape

(* Together: the invariant is inductive. *)
LEMMA StepTInv ==
  ASSUME TInv, [Next]_vars
  PROVE  TInv'
<1>1. IInv /\ \A d \in CPUs : Covered(d)
  BY Zenon DEF TInv
<1>2. /\ use.pages \subseteq VAs /\ use.detached \subseteq VAs
      /\ use.procs \subseteq Procs /\ use.killed \subseteq Procs
      /\ use.images \subseteq Nat
  BY <1>1, Workload, Zenon
<1>3. CASE UNCHANGED vars
  BY <1>1, <1>3, StutterKeeps, StutterCovers, Zenon DEF TInv
<1>4. ASSUME NEW c \in CPUs, NEW va \in use.pages, Walk(c, va)
      PROVE  TInv'
  BY <1>1, <1>2, <1>4, WalkKeeps, WalkCovers, Zenon DEF TInv
<1>5. ASSUME NEW c \in CPUs, NEW va \in use.pages, PageFault(c, va)
      PROVE  TInv'
  BY <1>1, <1>2, <1>5, PageFaultKeeps, PageFaultCovers, Zenon DEF TInv
<1>6. ASSUME NEW c \in CPUs, NEW va \in use.detached, Unmap(c, va)
      PROVE  TInv'
  BY <1>1, <1>2, <1>6, UnmapKeeps, UnmapCovers, Zenon DEF TInv
<1>7. ASSUME NEW c \in CPUs, NEW b, sys_brk(c, b) \/ crt_init(c)
      PROVE  TInv'
  BY <1>1, <1>7, BoundKeeps, BoundCovers, Zenon DEF TInv
<1>8. ASSUME NEW c \in CPUs, NEW u, HeapCall(c, u)
      PROVE  TInv'
  BY <1>1, <1>8, HeapCallKeeps, HeapCallCovers, Zenon DEF TInv
<1>9. ASSUME NEW c \in CPUs, NEW key, sys_shmpageget(c, key)
      PROVE  TInv'
  BY <1>1, <1>9, GetKeeps, GetCovers, Zenon DEF TInv
<1>10. ASSUME NEW c \in CPUs, NEW p \in use.procs, NEW n \in use.images, Exec(c, p, n)
       PROVE  TInv'
  BY <1>1, <1>2, <1>10, ExecKeeps, ExecCovers, Zenon DEF TInv
<1>11. ASSUME NEW c \in CPUs, NEW p \in use.killed, Kill(c, p) \/ Cleanup(c, p)
       PROVE  TInv'
  BY <1>1, <1>2, <1>11, EndKeeps, EndCovers, Zenon DEF TInv
<1>12. ASSUME NEW c \in CPUs, NEW q \in Ready, Switch(c, q)
       PROVE  TInv'
  BY <1>1, <1>12, SwitchKeeps, SwitchCovers, Zenon DEF TInv
<1>13. ASSUME NEW c \in CPUs, LoadBegin(c)
       PROVE  TInv'
  BY <1>1, <1>13, LoadBeginKeeps, LoadBeginCovers, Zenon DEF TInv
<1>14. ASSUME NEW c \in CPUs, LoadPage(c)
       PROVE  TInv'
  BY <1>1, <1>14, LoadPageKeeps, LoadPageCovers, ZenonT(60) DEF TInv
<1>15. ASSUME NEW c \in CPUs, LoadEnd(c)
       PROVE  TInv'
  BY <1>1, <1>15, LoadEndKeeps, LoadEndCovers, Zenon DEF TInv
<1>16. ASSUME NEW c \in CPUs, sys_shmpagedt(c)
       PROVE  TInv'
  BY <1>1, <1>16, DetachKeeps, DetachCovers, Zenon DEF TInv
<1>17. ASSUME NEW c \in CPUs, enable(c)
       PROVE  TInv'
  BY <1>1, <1>17, EnableKeeps, EnableCovers, Zenon DEF TInv
<1>18. ASSUME NEW c \in CPUs, SoftIrq(c)
       PROVE  TInv'
  BY <1>1, <1>18, SoftIrqKeeps, SoftIrqCovers, Zenon DEF TInv
<1>19. ASSUME NEW c \in CPUs, FaultEnd(c)
       PROVE  TInv'
  BY <1>1, <1>19, FaultEndKeeps, FaultEndCovers, Zenon DEF TInv
<1> QED
  BY <1>3, <1>4, <1>5, <1>6, <1>7, <1>8, <1>9, <1>10, <1>11, <1>12, <1>13, <1>14, <1>15,
     <1>16, <1>17, <1>18, <1>19, Zenon DEF Next

(* A stale translation of a live process is used only while a detach holds  *)
(* the lock of the page table or the interrupt that flushes it is pending:   *)
(* StaleIsInterrupted, for any number of CPUs, processes, pages and keys     *)
(* (free_shared_page, send_intr_to_running_thread and the flush in           *)
(* PageDir::enable).                                                         *)
THEOREM TranslationsAreFlushed == Spec => []StaleIsInterrupted
<1>1. Init => TInv
  <2>1. ASSUME Init
        PROVE  TInv
    <3>1. \A d \in CPUs : tlb[d] = {}
      BY <2>1, Zenon DEF Init
    <3> QED
      BY <2>1, <3>1, InitIInv, Zenon DEF TInv, Covered, Holds
  <2> QED
    BY <2>1, Zenon
<1>2. TInv /\ [Next]_vars => TInv'
  BY StepTInv, Zenon
<1>3. TInv => StaleIsInterrupted
  <2>1. \A d \in CPUs : Stale(d) => Holds(d)
    BY Zenon DEF Stale, Holds
  <2> QED
    BY <2>1, Zenon DEF TInv, Covered, StaleIsInterrupted
<1> QED
  BY <1>1, <1>2, <1>3, PTL DEF Spec
=============================================================================
