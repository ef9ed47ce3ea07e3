---------------------------- MODULE HabMemProofs -----------------------------
(***************************************************************************)
(* Proofs about HabMem, for every set of buffers: an export leaves nothing *)
(* behind, a list of pages lives exactly as long as it is used, the table  *)
(* of a buffer fits and expands to the exported pages.                     *)
(***************************************************************************)
EXTENDS HabMem, WellFoundedInduction, TLAPS

(***************************************************************************)
(* What the exporter holds after each of its steps.                        *)
(***************************************************************************)
ExpInv ==
  /\ ep \in {"idle", "failed", "released"} => dmaRef = FALSE /\ desc = FALSE
     /\ att = "none"
  /\ ep = "add" => dmaRef = TRUE /\ desc = FALSE /\ att = "none"
  /\ ep = "platform" => dmaRef = TRUE /\ desc = TRUE /\ att = "none"
  /\ ep = "attach" => dmaRef = TRUE /\ desc = TRUE /\ att = "none" /\ ~OwnPages(src)
  /\ ep = "map" => dmaRef = TRUE /\ desc = TRUE /\ att = "attached" /\ ~OwnPages(src)
  /\ ep \in {"compress", "exported"} =>
       /\ dmaRef = TRUE /\ desc = TRUE
       /\ \/ att = "none" /\ OwnPages(src)
          \/ att = "mapped" /\ ~OwnPages(src)

(***************************************************************************)
(* The references of the importer's dma-buf are those of the import and of *)
(* the mapping, and the list of pages follows them.                        *)
(***************************************************************************)
ImpInv ==
  /\ ip = "idle" => pgl = "none" /\ impRef = 0 /\ vma = 0
  /\ ip = "add" => pgl = "alloc" /\ impRef = 0 /\ vma = 0
  /\ ip = "dmabuf" => pgl = "listed" /\ impRef = 0 /\ vma = 0
  /\ ip = "fd" => pgl = "listed" /\ impRef = 1 /\ vma = 0
  /\ ip = "imported" => pgl = "listed" /\ impRef = (IF vma > 0 THEN 2 ELSE 1)
  /\ ip = "failed" => pgl \in {"none", "freed"} /\ impRef = 0 /\ vma = 0
  /\ ip = "done" =>
       \/ vma > 0 /\ impRef = 1 /\ pgl = "listed"
       \/ vma = 0 /\ impRef = 0 /\ pgl = "freed"

MemInv == TypeOK /\ ExpInv /\ ImpInv

(***************************************************************************)
(* Nothing is held and nothing imported at the start.                      *)
(***************************************************************************)
LEMMA MemInit == Init => MemInv
<1> SUFFICES ASSUME Init PROVE MemInv
  OBVIOUS
<1>1. vma \in 0 .. MaxMap /\ impRef \in 0 .. 2  BY MaxMapAssumption DEF Init
<1>2. TypeOK  BY <1>1 DEF Init, TypeOK
<1>3. ExpInv  BY DEF Init, ExpInv
<1>4. ImpInv  BY DEF Init, ImpInv
<1> QED  BY <1>2, <1>3, <1>4 DEF MemInv

(***************************************************************************)
(* Every step of the exporter, of either outcome, leaves MemInv true.      *)
(***************************************************************************)
LEMMA ExporterStep ==
  ASSUME MemInv,
         Grant \/ AddExport \/ AllocPlatformData \/ DmaBufAttach
           \/ DmaBufMapAttachment \/ CompressPfns \/ ExpRelease
  PROVE  MemInv'
<1> USE DEF MemInv, TypeOK, ExpInv, ImpInv, impVars
<1>1. CASE Grant  BY <1>1 DEF Grant
<1>2. CASE AddExport  BY <1>2 DEF AddExport
<1>3. CASE AllocPlatformData
  <2>1. src' = src /\ UNCHANGED impVars /\ OwnPages(src)' = OwnPages(src)
    BY <1>3 DEF AllocPlatformData, OwnPages
  <2>2. CASE ep' = "oops"  BY <1>3, <2>1, <2>2 DEF AllocPlatformData
  <2>3. CASE ep' = IF OwnPages(src) THEN "compress" ELSE "attach"
    BY <1>3, <2>1, <2>3 DEF AllocPlatformData
  <2> QED  BY <1>3, <2>2, <2>3 DEF AllocPlatformData
<1>4. CASE DmaBufAttach
  <2>1. OwnPages(src)' = OwnPages(src)  BY <1>4 DEF DmaBufAttach, OwnPages
  <2> QED  BY <1>4, <2>1 DEF DmaBufAttach, Undo
<1>5. CASE DmaBufMapAttachment
  <2>1. OwnPages(src)' = OwnPages(src)  BY <1>5 DEF DmaBufMapAttachment, OwnPages
  <2> QED  BY <1>5, <2>1 DEF DmaBufMapAttachment, Undo
<1>6. CASE CompressPfns
  <2>1. OwnPages(src)' = OwnPages(src)  BY <1>6 DEF CompressPfns, OwnPages
  <2> QED  BY <1>6, <2>1 DEF CompressPfns
<1>7. CASE ExpRelease  BY <1>7 DEF ExpRelease
<1> QED  BY <1>1, <1>2, <1>3, <1>4, <1>5, <1>6, <1>7

(***************************************************************************)
(* The importer does not touch what the exporter holds.                    *)
(***************************************************************************)
LEMMA ExpUntouched == ASSUME ExpInv, UNCHANGED expVars PROVE ExpInv'
  BY DEF ExpInv, expVars, OwnPages

(***************************************************************************)
(* Every step of the importer leaves MemInv true.                          *)
(***************************************************************************)
LEMMA ImporterStep ==
  ASSUME MemInv,
         \/ PagesListCreate \/ PagesListAdd \/ DmaBufExport \/ DmaBufFd \/ Unmap
         \/ \E n \in 1 .. MaxMap : Mmap(n)
         \/ Munmap
  PROVE  MemInv'
<1>0. UNCHANGED expVars
  BY DEF PagesListCreate, PagesListAdd, DmaBufExport, DmaBufFd, Unmap, Mmap, Munmap
<1>1. ExpInv'  BY <1>0, ExpUntouched DEF MemInv
<1>2. ImpInv' /\ TypeOK'
  <2> USE <1>0, MaxMapAssumption DEF MemInv, TypeOK, ImpInv, expVars, PagesListDestroy
  <2>1. CASE PagesListCreate  BY <2>1 DEF PagesListCreate
  <2>2. CASE PagesListAdd  BY <2>2 DEF PagesListAdd
  <2>3. CASE DmaBufExport  BY <2>3 DEF DmaBufExport
  <2>4. CASE DmaBufFd  BY <2>4 DEF DmaBufFd, DmaBufPut
  <2>5. CASE Unmap  BY <2>5 DEF Unmap, DmaBufPut
  <2>6. ASSUME NEW n \in 1 .. MaxMap, Mmap(n) PROVE ImpInv' /\ TypeOK'
    BY <2>6 DEF Mmap
  <2>7. CASE Munmap  BY <2>7 DEF Munmap, DmaBufPut
  <2> QED  BY <2>1, <2>2, <2>3, <2>4, <2>5, <2>6, <2>7
<1> QED  BY <1>1, <1>2 DEF MemInv

(***************************************************************************)
(* MemInv is an invariant.                                                 *)
(***************************************************************************)
THEOREM MemInvariant == Spec => []MemInv
<1>1. MemInv /\ [Next]_vars => MemInv'
  <2> SUFFICES ASSUME MemInv, [Next]_vars PROVE MemInv'
    OBVIOUS
  <2>1. CASE UNCHANGED vars
    BY <2>1 DEF MemInv, TypeOK, ExpInv, ImpInv, vars, expVars, impVars, OwnPages
  <2>2. CASE Next  BY <2>2, ExporterStep, ImporterStep DEF Next
  <2> QED  BY <2>1, <2>2
<1> QED  BY <1>1, MemInit, PTL DEF Spec

(***************************************************************************)
(* Whichever step of an export fails, HAB keeps neither the reference nor  *)
(* the attachment of the dma-buf, and a descriptor that exists has both.   *)
(***************************************************************************)
THEOREM ExportHeldByDescriptor == Spec => []HeldByDescriptor
<1>1. MemInv => HeldByDescriptor
  <2> SUFFICES ASSUME MemInv PROVE HeldByDescriptor
    OBVIOUS
  <2>1. ep \in {"idle", "failed", "released"} => ~dmaRef /\ ~desc /\ att = "none"
    BY DEF MemInv, ExpInv
  <2>2. ep = "exported" => dmaRef /\ desc /\ (att = "mapped" <=> ~OwnPages(src))
    BY DEF MemInv, ExpInv
  <2> QED  BY <2>1, <2>2 DEF HeldByDescriptor
<1> QED  BY <1>1, MemInvariant, PTL

(***************************************************************************)
(* A list of pages is neither freed nor taken out of imp_list while the    *)
(* import or a mapping uses it, and leaves the list when it is freed.      *)
(***************************************************************************)
THEOREM PagesListedWhileUsed == Spec => []ListedWhileUsed
<1>1. MemInv => ListedWhileUsed
  BY MaxMapAssumption DEF MemInv, TypeOK, ImpInv, ListedWhileUsed
<1> QED  BY <1>1, MemInvariant, PTL

(***************************************************************************)
(* A mapping is never larger than the list of pages behind it, which is    *)
(* made once, with as many pages as were exported.                         *)
(***************************************************************************)
MapInv == src \in Buffers /\ Len(pages) \in Nat /\ vma <= Len(pages)

(***************************************************************************)
(* What pages_list_create accepts has the exported number of pages.        *)
(***************************************************************************)
LEMMA ExpandedLength ==
  \A t, count : Expand(t, count).ok => Len(Expand(t, count).pages) = count
BY DEF Expand

(***************************************************************************)
(* hab_mem_mmap compares with the size in 32 bits, which can only be       *)
(* smaller than the list.                                                  *)
(***************************************************************************)
LEMMA MmapBounded ==
  ASSUME NEW n \in Nat, Len(pages) \in Nat, MmapFits(n)
  PROVE  n <= Len(pages)
<1>1. 2^20 \in Nat /\ 2^20 > 0
  OBVIOUS
<1>2. \A a, b \in Nat : b > 0 => a % b <= a
  OBVIOUS
<1> QED
  BY <1>1, <1>2 DEF MmapFits

(***************************************************************************)
(* hab_buffer_fault lets the page number be equal to npages, but no page   *)
(* of a mapping has that number: it never reads behind the list.           *)
(***************************************************************************)
THEOREM FaultsInRange == Spec => []FaultInRange
<1>1. Init => MapInv
  BY DEF Init, MapInv
<1>2. MemInv /\ MapInv /\ [Next]_vars => MapInv'
  <2> SUFFICES ASSUME MemInv, MapInv, [Next]_vars PROVE MapInv'
    OBVIOUS
  <2>1. CASE Grant \/ AddExport \/ AllocPlatformData \/ DmaBufAttach
               \/ DmaBufMapAttachment \/ CompressPfns \/ ExpRelease
    BY <2>1 DEF MapInv, Grant, AddExport, AllocPlatformData, DmaBufAttach,
       DmaBufMapAttachment, CompressPfns, ExpRelease, impVars
  <2>2. CASE PagesListCreate
    <3>1. src' = src /\ vma' = 0
      BY <2>2 DEF PagesListCreate, expVars, MemInv, ImpInv
    <3>2. CASE UNCHANGED pages
      BY <3>1, <3>2 DEF MapInv
    <3>3. CASE Expand(table, src.count).ok /\ pages' = Expand(table, src.count).pages
      <4>1. Len(pages') = src.count
        BY <3>3, ExpandedLength
      <4>2. src.count \in Nat \ {0}
        BY BuffersAssumption DEF MapInv
      <4> QED
        BY <3>1, <4>1, <4>2 DEF MapInv
    <3> QED
      BY <2>2, <3>2, <3>3 DEF PagesListCreate
  <2>3. CASE PagesListAdd \/ DmaBufExport \/ DmaBufFd \/ Unmap
    BY <2>3 DEF MapInv, PagesListAdd, DmaBufExport, DmaBufFd, Unmap, expVars
  <2>4. ASSUME NEW n \in 1 .. MaxMap, Mmap(n) PROVE MapInv'
    <3>1. n \in Nat
      BY MaxMapAssumption
    <3> QED
      BY <2>4, <3>1, MmapBounded DEF MapInv, Mmap, expVars
  <2>5. CASE Munmap
    BY <2>5 DEF MapInv, Munmap, expVars
  <2>6. CASE UNCHANGED vars
    BY <2>6 DEF MapInv, vars, expVars, impVars
  <2> QED
    BY <2>1, <2>2, <2>3, <2>4, <2>5, <2>6 DEF Next
<1>3. MemInv /\ MapInv => FaultInRange
  BY MaxMapAssumption DEF MemInv, TypeOK, MapInv, FaultInRange, FaultReads
<1> QED  BY <1>1, <1>2, <1>3, MemInvariant, PTL DEF Spec
-----------------------------------------------------------------------------
(* Numbers: induction and recursion up to a bound *)

(***************************************************************************)
(* Every set of naturals that is not empty has a least member.             *)
(***************************************************************************)
LEMMA LeastNat ==
  ASSUME NEW T \in SUBSET Nat, T # {}
  PROVE  \E n \in T : \A m \in T : n <= m
<1>1. PICK n \in T : \A m \in T : ~ (<<m, n>> \in OpToRel(<, Nat))
  BY NatLessThanWellFounded, WFMin
<1>2. \A m \in T : ~(m < n)
  BY <1>1, Zenon DEF OpToRel
<1>3. QED
  BY <1>2

(***************************************************************************)
(* Induction from lo to hi: a set that has lo, and with each number the    *)
(* next one, has them all.                                                 *)
(***************************************************************************)
LEMMA UpTo ==
  ASSUME NEW lo \in Nat, NEW hi \in Nat, NEW T, lo \in T,
         \A i \in lo + 1 .. hi : i - 1 \in T => i \in T
  PROVE  lo .. hi \subseteq T
<1> DEFINE Out == {i \in lo .. hi : i \notin T}
<1> SUFFICES ASSUME Out # {} PROVE FALSE
  OBVIOUS
<1>1. Out \in SUBSET Nat
  OBVIOUS
<1>2. PICK n \in Out : \A m \in Out : n <= m
  BY <1>1, LeastNat
<1>3. n \in lo + 1 .. hi /\ n - 1 \notin Out
  BY <1>2
<1>4. QED
  BY <1>2, <1>3

(***************************************************************************)
(* The function f is defined by recursion from lo to hi.                   *)
(***************************************************************************)
IsRec(f, lo, hi, a, G) ==
  f = [i \in lo .. hi |-> IF i = lo THEN a ELSE G[<<f[i - 1], i>>]]

(***************************************************************************)
(* A recursive function on lo .. hi whose step G keeps its values in S     *)
(* exists.                                                                 *)
(***************************************************************************)
LEMMA RecExists ==
  ASSUME NEW S, NEW lo \in Nat, NEW hi \in Nat, lo <= hi, NEW a \in S,
         NEW G \in [S \X (lo + 1 .. hi) -> S]
  PROVE  \E f \in [lo .. hi -> S] : IsRec(f, lo, hi, a, G)
<1> DEFINE T == {n \in lo .. hi : \E f \in [lo .. n -> S] : IsRec(f, lo, n, a, G)}
<1>1. lo \in T
  <2> DEFINE f == [i \in lo .. lo |-> a]
  <2>1. f \in [lo .. lo -> S] /\ IsRec(f, lo, lo, a, G)
    BY DEF IsRec
  <2>2. QED
    BY <2>1
<1>2. ASSUME NEW n \in lo + 1 .. hi, n - 1 \in T
      PROVE  n \in T
  <2>1. PICK f \in [lo .. n - 1 -> S] : IsRec(f, lo, n - 1, a, G)
    BY <1>2
  <2> DEFINE g == [i \in lo .. n |-> IF i = n THEN G[<<f[n - 1], n>>] ELSE f[i]]
  <2>2. f[n - 1] \in S /\ <<f[n - 1], n>> \in S \X (lo + 1 .. hi)
    OBVIOUS
  <2>3. G[<<f[n - 1], n>>] \in S
    BY <2>2
  <2>4. g \in [lo .. n -> S]
    BY <2>3
  <2>5. ASSUME NEW i \in lo .. n
        PROVE  g[i] = IF i = lo THEN a ELSE G[<<g[i - 1], i>>]
    <3>1. CASE i = n
      <4>1. i # lo /\ i - 1 \in lo .. n - 1 /\ i - 1 # n
        BY <3>1
      <4>2. g[i - 1] = f[n - 1]
        BY <4>1, <3>1
      <4>3. g[i] = G[<<f[n - 1], i>>]
        BY <3>1
      <4>4. QED
        BY <4>1, <4>2, <4>3
    <3>2. CASE i # n
      <4>1. i \in lo .. n - 1 /\ g[i] = f[i] /\ (i # lo => g[i - 1] = f[i - 1])
        BY <3>2
      <4>2. f[i] = IF i = lo THEN a ELSE G[<<f[i - 1], i>>]
        BY <4>1, <2>1 DEF IsRec
      <4>3. QED
        BY <4>1, <4>2
    <3>3. QED
      BY <3>1, <3>2
  <2> HIDE DEF g
  <2>6. g = [i \in lo .. n |-> IF i = lo THEN a ELSE G[<<g[i - 1], i>>]]
    BY <2>4, <2>5
  <2>7. IsRec(g, lo, n, a, G)
    BY <2>6 DEF IsRec
  <2>8. QED
    BY <2>4, <2>7, <1>2
<1> HIDE DEF T
<1>3. lo .. hi \subseteq T
  BY <1>1, <1>2, UpTo
<1>4. hi \in T
  BY <1>3
<1>5. QED
  BY <1>4 DEF T
-----------------------------------------------------------------------------
(* The scans are recursions over the chunks, the regions and the pages *)

(***************************************************************************)
(* The types of what the scans compute.                                    *)
(***************************************************************************)
Chunk == [pfn : Nat, n : Nat \ {0}]
Region == [size : Int, space : Int]
SgAcc == [off : Nat, left : Int, first : Nat, pre : Int, regions : Seq(Region),
          done : BOOLEAN]
SgStart(b) ==
  [off |-> b.off, left |-> b.count, first |-> 0, pre |-> 0, regions |-> << >>,
   done |-> FALSE]

(***************************************************************************)
(* A step of the scatterlist keeps the types.                              *)
(***************************************************************************)
LEMMA SgStepType ==
  ASSUME NEW a \in SgAcc, NEW c \in Chunk
  PROVE  SgStep(a, c) \in SgAcc
<1>0. CASE a.done
  BY <1>0 DEF SgStep
<1>1. CASE ~a.done /\ a.off >= c.n
  <2>1. SgStep(a, c) = [a EXCEPT !.off = a.off - c.n]
    BY <1>1 DEF SgStep
  <2>2. a.off - c.n \in Nat
    BY <1>1 DEF SgAcc, Chunk
  <2>3. QED
    BY <2>1, <2>2 DEF SgAcc
<1>2. CASE ~a.done /\ ~(a.off >= c.n)
  <2> DEFINE size == c.n - a.off
             j == Len(a.regions)
             old == IF j = 0 THEN << >>
                    ELSE [a.regions EXCEPT ![j].space = c.pfn - a.pre - 1]
             r == [size |-> IF size >= a.left THEN a.left ELSE size, space |-> 0]
  <2>1. size \in Nat /\ r \in Region
    BY <1>2 DEF SgAcc, Chunk, Region
  <2>2. old \in Seq(Region)
    <3>1. CASE j = 0
      BY <3>1
    <3>2. CASE j # 0
      <4>1. a.regions \in Seq(Region) /\ j \in DOMAIN a.regions
              /\ a.regions[j] \in Region
        BY <3>2 DEF SgAcc
      <4>2. [a.regions[j] EXCEPT !.space = c.pfn - a.pre - 1] \in Region
        <5>1. c.pfn - a.pre - 1 \in Int
          BY DEF SgAcc, Chunk
        <5>2. QED
          BY <4>1, <5>1 DEF Region
      <4>3. QED
        BY <4>1, <4>2, <3>2
    <3>3. QED
      BY <3>1, <3>2
  <2>3. Append(old, r) \in Seq(Region)
    BY <2>1, <2>2
  <2> HIDE DEF old, r
  <2>4. SgStep(a, c) =
          [off |-> 0, left |-> a.left - size,
           first |-> IF j = 0 THEN c.pfn + a.off ELSE a.first,
           pre |-> c.pfn + size - 1, regions |-> Append(old, r), done |-> size >= a.left]
    BY <1>2 DEF SgStep, old, r
  <2>5. /\ a.left - size \in Int /\ c.pfn + size - 1 \in Int
        /\ (IF j = 0 THEN c.pfn + a.off ELSE a.first) \in Nat
        /\ (size >= a.left) \in BOOLEAN
    BY <2>1 DEF SgAcc, Chunk
  <2>6. QED
    BY <2>3, <2>4, <2>5 DEF SgAcc
<1>3. QED
  BY <1>0, <1>1, <1>2

(***************************************************************************)
(* The scan of a scatterlist, entry by entry.                              *)
(***************************************************************************)
LEMMA SgScanRec ==
  ASSUME NEW b \in Buffers
  PROVE  /\ SgScan(b) \in [0 .. Len(b.chunks) -> SgAcc]
         /\ SgScan(b)[0] = SgStart(b)
         /\ \A i \in 1 .. Len(b.chunks) :
              SgScan(b)[i] = SgStep(SgScan(b)[i - 1], b.chunks[i])
<1> DEFINE N == Len(b.chunks)
           G == [x \in SgAcc \X (0 + 1 .. N) |-> SgStep(x[1], b.chunks[x[2]])]
<1>1. N \in Nat /\ b.chunks \in Seq(Chunk) /\ SgStart(b) \in SgAcc
  BY BuffersAssumption DEF Chunk, SgAcc, SgStart
<1>2. \A s \in SgAcc : \A i \in 0 + 1 .. N : SgStep(s, b.chunks[i]) \in SgAcc
  BY <1>1, SgStepType
<1>3. G \in [SgAcc \X (0 + 1 .. N) -> SgAcc]
  BY <1>2
<1>4. \A s \in SgAcc : \A i \in 0 + 1 .. N : G[<<s, i>>] = SgStep(s, b.chunks[i])
  OBVIOUS
<1> HIDE DEF G
<1>5. PICK f \in [0 .. N -> SgAcc] :
        f[0] = SgStart(b) /\ \A i \in 0 + 1 .. N : f[i - 1] \in SgAcc
          /\ f[i] = G[<<f[i - 1], i>>]
  <2>1. PICK f \in [0 .. N -> SgAcc] : IsRec(f, 0, N, SgStart(b), G)
    BY <1>1, <1>3, RecExists, 0 \in Nat, 0 <= N
  <2>2. \A i \in 0 .. N : f[i] = IF i = 0 THEN SgStart(b) ELSE G[<<f[i - 1], i>>]
    BY <2>1 DEF IsRec
  <2>3. 0 \in 0 .. N
        /\ \A i \in 0 + 1 .. N : i \in 0 .. N /\ i # 0 /\ i - 1 \in 0 .. N
    BY <1>1
  <2>4. f[0] = SgStart(b) /\ \A i \in 0 + 1 .. N : f[i] = G[<<f[i - 1], i>>]
    BY <2>2, <2>3, Zenon
  <2>5. \A i \in 0 + 1 .. N : f[i - 1] \in SgAcc
    BY <2>3, Zenon
  <2>6. QED
    BY <2>4, <2>5, Zenon
<1>6. \A i \in 0 + 1 .. N : f[i] = SgStep(f[i - 1], b.chunks[i])
  BY <1>4, <1>5, Zenon
<1>7. \A i \in 0 .. N : i = 0 \/ i \in 0 + 1 .. N
  BY <1>1
<1>8. \A i \in 0 .. N : f[i] =
        IF i = 0 THEN SgStart(b) ELSE SgStep(f[i - 1], b.chunks[i])
  BY <1>5, <1>6, <1>7, Zenon
<1>9. f = [i \in 0 .. N |-> IF i = 0 THEN SgStart(b) ELSE SgStep(f[i - 1], b.chunks[i])]
  BY <1>8
<1>10. SgScan(b) = [i \in 0 .. N |->
         IF i = 0 THEN SgStart(b) ELSE SgStep(SgScan(b)[i - 1], b.chunks[i])]
  BY <1>9, Zenon DEF SgScan, SgStart
<1>11. \A i \in 0 .. N : SgScan(b)[i] =
         IF i = 0 THEN SgStart(b) ELSE SgStep(SgScan(b)[i - 1], b.chunks[i])
  BY <1>10, Zenon
<1>12. 0 \in 0 .. N /\ \A i \in 0 + 1 .. N : i \in 0 .. N /\ i # 0
  BY <1>1
<1>13. SgScan(b)[0] = SgStart(b)
  BY <1>11, <1>12, Zenon
<1>14. \A i \in 0 + 1 .. N : SgScan(b)[i] = SgStep(SgScan(b)[i - 1], b.chunks[i])
  BY <1>11, <1>12, Zenon
<1>15. \A i \in 0 .. N : SgScan(b)[i] \in SgAcc
  <2> DEFINE T == {i \in 0 .. N : SgScan(b)[i] \in SgAcc}
  <2>1. 0 \in T
    BY <1>1, <1>12, <1>13, Zenon
  <2>2. ASSUME NEW i \in 0 + 1 .. N, i - 1 \in T  PROVE  i \in T
    BY <1>2, <1>12, <1>14, <2>2, Zenon
  <2> HIDE DEF T
  <2>3. 0 .. N \subseteq T
    BY <1>1, <2>1, <2>2, UpTo
  <2>4. QED
    BY <2>3 DEF T
<1>16. SgScan(b) \in [0 .. N -> SgAcc]
  <2>1. DOMAIN SgScan(b) = 0 .. N /\ SgScan(b) = [i \in 0 .. N |-> SgScan(b)[i]]
    BY <1>10, Zenon
  <2>2. QED
    BY <1>15, <2>1, Zenon
<1>17. 0 + 1 = 1
  OBVIOUS
<1>18. QED
  BY <1>13, <1>14, <1>16, <1>17, Zenon

RegAcc == [pages : Seq(Int), pfn : Int, ok : BOOLEAN]
Table == [first : Int, regions : Seq(Region)]
PageAcc == [regions : Seq(Region), size : Nat \ {0}]

(***************************************************************************)
(* The pages of a chunk.                                                   *)
(***************************************************************************)
LEMMA ChunkPagesType ==
  ASSUME NEW c \in Chunk
  PROVE  ChunkPages(c) \in Seq(Nat) /\ Len(ChunkPages(c)) = c.n
         /\ \A i \in 1 .. c.n : ChunkPages(c)[i] = c.pfn + i - 1
<1>1. \A i \in 1 .. c.n : c.pfn + i - 1 \in Nat
  BY DEF Chunk
<1>2. ChunkPages(c) \in [1 .. c.n -> Nat] /\ c.n \in Nat
  BY <1>1 DEF ChunkPages, Chunk
<1>3. Len(ChunkPages(c)) = c.n /\ ChunkPages(c) \in Seq(Nat)
  BY <1>2
<1>4. QED
  BY <1>2, <1>3 DEF ChunkPages

(***************************************************************************)
(* The pages of a buffer, chunk by chunk.                                  *)
(***************************************************************************)
LEMMA PagesToRec ==
  ASSUME NEW b \in Buffers
  PROVE  /\ PagesTo(b) \in [0 .. Len(b.chunks) -> Seq(Nat)]
         /\ PagesTo(b)[0] = << >>
         /\ \A i \in 1 .. Len(b.chunks) :
              PagesTo(b)[i] = PagesTo(b)[i - 1] \o ChunkPages(b.chunks[i])
<1> DEFINE N == Len(b.chunks)
           G == [x \in Seq(Nat) \X (0 + 1 .. N) |-> (x[1] \o ChunkPages(b.chunks[x[2]]))]
<1>1. N \in Nat /\ b.chunks \in Seq(Chunk) /\ << >> \in Seq(Nat)
  BY BuffersAssumption DEF Chunk
<1>2. \A s \in Seq(Nat) : \A i \in 0 + 1 .. N : (s \o ChunkPages(b.chunks[i])) \in Seq(Nat)
  BY <1>1, ChunkPagesType
<1>3. G \in [Seq(Nat) \X (0 + 1 .. N) -> Seq(Nat)]
  BY <1>2
<1>4. \A s \in Seq(Nat) : \A i \in 0 + 1 .. N : G[<<s, i>>] = (s \o ChunkPages(b.chunks[i]))
  OBVIOUS
<1> HIDE DEF G
<1>5. PICK f \in [0 .. N -> Seq(Nat)] :
        f[0] = << >> /\ \A i \in 0 + 1 .. N : f[i - 1] \in Seq(Nat)
          /\ f[i] = G[<<f[i - 1], i>>]
  <2>1. PICK f \in [0 .. N -> Seq(Nat)] : IsRec(f, 0, N, << >>, G)
    BY <1>1, <1>3, RecExists, 0 \in Nat, 0 <= N
  <2>2. \A i \in 0 .. N : f[i] = IF i = 0 THEN << >> ELSE G[<<f[i - 1], i>>]
    BY <2>1 DEF IsRec
  <2>3. 0 \in 0 .. N
        /\ \A i \in 0 + 1 .. N : i \in 0 .. N /\ i # 0 /\ i - 1 \in 0 .. N
    BY <1>1
  <2>4. f[0] = << >> /\ \A i \in 0 + 1 .. N : f[i] = G[<<f[i - 1], i>>]
    BY <2>2, <2>3, Zenon
  <2>5. \A i \in 0 + 1 .. N : f[i - 1] \in Seq(Nat)
    BY <2>3, Zenon
  <2>6. QED
    BY <2>4, <2>5, Zenon
<1>6. \A i \in 0 + 1 .. N : f[i] = (f[i - 1] \o ChunkPages(b.chunks[i]))
  BY <1>4, <1>5, Zenon
<1>7. \A i \in 0 .. N : i = 0 \/ i \in 0 + 1 .. N
  BY <1>1
<1>8. \A i \in 0 .. N : f[i] =
        IF i = 0 THEN << >> ELSE (f[i - 1] \o ChunkPages(b.chunks[i]))
  BY <1>5, <1>6, <1>7, Zenon
<1>9. f = [i \in 0 .. N |->
        IF i = 0 THEN << >> ELSE (f[i - 1] \o ChunkPages(b.chunks[i]))]
  BY <1>8
<1>10. PagesTo(b) = [i \in 0 .. N |->
         IF i = 0 THEN << >> ELSE (PagesTo(b)[i - 1] \o ChunkPages(b.chunks[i]))]
  BY <1>9, Zenon DEF PagesTo
<1>11. \A i \in 0 .. N : PagesTo(b)[i] =
         IF i = 0 THEN << >> ELSE (PagesTo(b)[i - 1] \o ChunkPages(b.chunks[i]))
  BY <1>10, Zenon
<1>12. 0 \in 0 .. N /\ \A i \in 0 + 1 .. N : i \in 0 .. N /\ i # 0
  BY <1>1
<1>13. PagesTo(b)[0] = << >>
  BY <1>11, <1>12, Zenon
<1>14. \A i \in 0 + 1 .. N : PagesTo(b)[i] = (PagesTo(b)[i - 1] \o ChunkPages(b.chunks[i]))
  BY <1>11, <1>12, Zenon
<1>15. \A i \in 0 .. N : PagesTo(b)[i] \in Seq(Nat)
  <2> DEFINE T == {i \in 0 .. N : PagesTo(b)[i] \in Seq(Nat)}
  <2>1. 0 \in T
    BY <1>1, <1>12, <1>13, Zenon
  <2>2. ASSUME NEW i \in 0 + 1 .. N, i - 1 \in T  PROVE  i \in T
    BY <1>2, <1>12, <1>14, <2>2, Zenon
  <2> HIDE DEF T
  <2>3. 0 .. N \subseteq T
    BY <1>1, <2>1, <2>2, UpTo
  <2>4. QED
    BY <2>3 DEF T
<1>16. PagesTo(b) \in [0 .. N -> Seq(Nat)]
  <2>1. DOMAIN PagesTo(b) = 0 .. N /\ PagesTo(b) = [i \in 0 .. N |-> PagesTo(b)[i]]
    BY <1>10, Zenon
  <2>2. QED
    BY <1>15, <2>1, Zenon
<1>17. 0 + 1 = 1
  OBVIOUS
<1>18. QED
  BY <1>13, <1>14, <1>16, <1>17, Zenon

(***************************************************************************)
(* A step of pages_list_create keeps the types.                            *)
(***************************************************************************)
LEMMA RegionStepType ==
  ASSUME NEW a \in RegAcc, NEW r \in Region, NEW m \in Nat
  PROVE  RegionStep(a, r, m) \in RegAcc
<1>1. CASE ~a.ok \/ r.size <= 0 \/ Len(a.pages) + r.size > m
  <2>1. RegionStep(a, r, m) = [a EXCEPT !.ok = FALSE]
    BY <1>1 DEF RegionStep
  <2>2. QED
    BY <2>1 DEF RegAcc
<1>2. CASE ~(~a.ok \/ r.size <= 0 \/ Len(a.pages) + r.size > m)
  <2> DEFINE new == [j \in 1 .. r.size |-> a.pfn + j - 1]
  <2>1. r.size \in Nat /\ a.pfn + r.size + r.space \in Int /\ a.pfn \in Int
    BY <1>2 DEF RegAcc, Region
  <2>2. new \in Seq(Int)
    BY <2>1
  <2>3. a.pages \o new \in Seq(Int)
    BY <2>2 DEF RegAcc
  <2>4. RegionStep(a, r, m) =
          [pages |-> a.pages \o new, pfn |-> a.pfn + r.size + r.space, ok |-> TRUE]
    BY <1>2 DEF RegionStep
  <2> HIDE DEF new
  <2>5. QED
    BY <2>1, <2>3, <2>4 DEF RegAcc
<1>3. QED
  BY <1>1, <1>2

RegionStart(t) == [pages |-> << >>, pfn |-> t.first, ok |-> TRUE]

(***************************************************************************)
(* pages_list_create, region by region.                                    *)
(***************************************************************************)
LEMMA RegionScanRec ==
  ASSUME NEW t \in Table, NEW m \in Nat
  PROVE  /\ RegionScan(t, m) \in [0 .. Len(t.regions) -> RegAcc]
         /\ RegionScan(t, m)[0] = RegionStart(t)
         /\ \A i \in 1 .. Len(t.regions) :
              RegionScan(t, m)[i] = RegionStep(RegionScan(t, m)[i - 1], t.regions[i], m)
<1> DEFINE N == Len(t.regions)
           G == [x \in RegAcc \X (0 + 1 .. N) |-> RegionStep(x[1], t.regions[x[2]], m)]
<1>1. N \in Nat /\ t.regions \in Seq(Region) /\ RegionStart(t) \in RegAcc
  BY DEF Table, RegAcc, RegionStart
<1>2. \A s \in RegAcc : \A i \in 0 + 1 .. N : RegionStep(s, t.regions[i], m) \in RegAcc
  BY <1>1, RegionStepType
<1>3. G \in [RegAcc \X (0 + 1 .. N) -> RegAcc]
  BY <1>2
<1>4. \A s \in RegAcc : \A i \in 0 + 1 .. N : G[<<s, i>>] = RegionStep(s, t.regions[i], m)
  OBVIOUS
<1> HIDE DEF G
<1>5. PICK f \in [0 .. N -> RegAcc] :
        f[0] = RegionStart(t) /\ \A i \in 0 + 1 .. N : f[i - 1] \in RegAcc
          /\ f[i] = G[<<f[i - 1], i>>]
  <2>1. PICK f \in [0 .. N -> RegAcc] : IsRec(f, 0, N, RegionStart(t), G)
    BY <1>1, <1>3, RecExists, 0 \in Nat, 0 <= N
  <2>2. \A i \in 0 .. N : f[i] = IF i = 0 THEN RegionStart(t) ELSE G[<<f[i - 1], i>>]
    BY <2>1 DEF IsRec
  <2>3. 0 \in 0 .. N
        /\ \A i \in 0 + 1 .. N : i \in 0 .. N /\ i # 0 /\ i - 1 \in 0 .. N
    BY <1>1
  <2>4. f[0] = RegionStart(t) /\ \A i \in 0 + 1 .. N : f[i] = G[<<f[i - 1], i>>]
    BY <2>2, <2>3, Zenon
  <2>5. \A i \in 0 + 1 .. N : f[i - 1] \in RegAcc
    BY <2>3, Zenon
  <2>6. QED
    BY <2>4, <2>5, Zenon
<1>6. \A i \in 0 + 1 .. N : f[i] = RegionStep(f[i - 1], t.regions[i], m)
  BY <1>4, <1>5, Zenon
<1>7. \A i \in 0 .. N : i = 0 \/ i \in 0 + 1 .. N
  BY <1>1
<1>8. \A i \in 0 .. N : f[i] =
        IF i = 0 THEN RegionStart(t) ELSE RegionStep(f[i - 1], t.regions[i], m)
  BY <1>5, <1>6, <1>7, Zenon
<1>9. f = [i \in 0 .. N |->
        IF i = 0 THEN RegionStart(t) ELSE RegionStep(f[i - 1], t.regions[i], m)]
  BY <1>8
<1>10. RegionScan(t, m) = [i \in 0 .. N |->
         IF i = 0 THEN RegionStart(t) ELSE RegionStep(RegionScan(t, m)[i - 1], t.regions[i], m)]
  BY <1>9, Zenon DEF RegionScan, RegionStart
<1>11. \A i \in 0 .. N : RegionScan(t, m)[i] =
         IF i = 0 THEN RegionStart(t) ELSE RegionStep(RegionScan(t, m)[i - 1], t.regions[i], m)
  BY <1>10, Zenon
<1>12. 0 \in 0 .. N /\ \A i \in 0 + 1 .. N : i \in 0 .. N /\ i # 0
  BY <1>1
<1>13. RegionScan(t, m)[0] = RegionStart(t)
  BY <1>11, <1>12, Zenon
<1>14. \A i \in 0 + 1 .. N : RegionScan(t, m)[i] = RegionStep(RegionScan(t, m)[i - 1], t.regions[i], m)
  BY <1>11, <1>12, Zenon
<1>15. \A i \in 0 .. N : RegionScan(t, m)[i] \in RegAcc
  <2> DEFINE T == {i \in 0 .. N : RegionScan(t, m)[i] \in RegAcc}
  <2>1. 0 \in T
    BY <1>1, <1>12, <1>13, Zenon
  <2>2. ASSUME NEW i \in 0 + 1 .. N, i - 1 \in T  PROVE  i \in T
    BY <1>2, <1>12, <1>14, <2>2, Zenon
  <2> HIDE DEF T
  <2>3. 0 .. N \subseteq T
    BY <1>1, <2>1, <2>2, UpTo
  <2>4. QED
    BY <2>3 DEF T
<1>16. RegionScan(t, m) \in [0 .. N -> RegAcc]
  <2>1. DOMAIN RegionScan(t, m) = 0 .. N
          /\ RegionScan(t, m) = [i \in 0 .. N |-> RegionScan(t, m)[i]]
    BY <1>10, Zenon
  <2>2. QED
    BY <1>15, <2>1, Zenon
<1>17. 0 + 1 = 1
  OBVIOUS
<1>18. QED
  BY <1>13, <1>14, <1>16, <1>17, Zenon

(***************************************************************************)
(* A step along a list of pages keeps the types.                           *)
(***************************************************************************)
LEMMA PageStepType ==
  ASSUME NEW pg \in Seq(Nat), NEW a \in PageAcc, NEW i \in 2 .. Len(pg)
  PROVE  PageStep(a, pg, i) \in PageAcc
<1>1. CASE pg[i] - 1 = pg[i - 1]
  <2>1. PageStep(a, pg, i) = [a EXCEPT !.size = a.size + 1]
    BY <1>1 DEF PageStep
  <2>2. QED
    BY <2>1 DEF PageAcc
<1>2. CASE pg[i] - 1 # pg[i - 1]
  <2> DEFINE r == [size |-> a.size, space |-> pg[i] - pg[i - 1] - 1]
  <2>1. pg[i] \in Nat /\ pg[i - 1] \in Nat
    OBVIOUS
  <2>2. r \in Region
    BY <2>1 DEF Region, PageAcc
  <2>3. PageStep(a, pg, i) = [regions |-> Append(a.regions, r), size |-> 1]
    BY <1>2 DEF PageStep
  <2> HIDE DEF r
  <2>4. Append(a.regions, r) \in Seq(Region)
    BY <2>2 DEF PageAcc
  <2>5. QED
    BY <2>3, <2>4 DEF PageAcc
<1>3. QED
  BY <1>1, <1>2

PageStart == [regions |-> << >>, size |-> 1]

(***************************************************************************)
(* The compression of a list of pages, page by page.                       *)
(***************************************************************************)
LEMMA PageScanRec ==
  ASSUME NEW pg \in Seq(Nat), Len(pg) >= 1
  PROVE  /\ PageScan(pg) \in [1 .. Len(pg) -> PageAcc]
         /\ PageScan(pg)[1] = PageStart
         /\ \A i \in 2 .. Len(pg) :
              PageScan(pg)[i] = PageStep(PageScan(pg)[i - 1], pg, i)
<1> DEFINE N == Len(pg)
           G == [x \in PageAcc \X (1 + 1 .. N) |-> PageStep(x[1], pg, x[2])]
<1>1. N \in Nat /\ N >= 1 /\ PageStart \in PageAcc
  BY DEF PageAcc, PageStart
<1>2. \A s \in PageAcc : \A i \in 1 + 1 .. N : PageStep(s, pg, i) \in PageAcc
  BY <1>1, PageStepType
<1>3. G \in [PageAcc \X (1 + 1 .. N) -> PageAcc]
  BY <1>2
<1>4. \A s \in PageAcc : \A i \in 1 + 1 .. N : G[<<s, i>>] = PageStep(s, pg, i)
  OBVIOUS
<1> HIDE DEF G
<1>5. PICK f \in [1 .. N -> PageAcc] :
        f[1] = PageStart /\ \A i \in 1 + 1 .. N : f[i - 1] \in PageAcc
          /\ f[i] = G[<<f[i - 1], i>>]
  <2>1. PICK f \in [1 .. N -> PageAcc] : IsRec(f, 1, N, PageStart, G)
    BY <1>1, <1>3, RecExists, 1 \in Nat, 1 <= N
  <2>2. \A i \in 1 .. N : f[i] = IF i = 1 THEN PageStart ELSE G[<<f[i - 1], i>>]
    BY <2>1 DEF IsRec
  <2>3. 1 \in 1 .. N
        /\ \A i \in 1 + 1 .. N : i \in 1 .. N /\ i # 1 /\ i - 1 \in 1 .. N
    BY <1>1
  <2>4. f[1] = PageStart /\ \A i \in 1 + 1 .. N : f[i] = G[<<f[i - 1], i>>]
    BY <2>2, <2>3, Zenon
  <2>5. \A i \in 1 + 1 .. N : f[i - 1] \in PageAcc
    BY <2>3, Zenon
  <2>6. QED
    BY <2>4, <2>5, Zenon
<1>6. \A i \in 1 + 1 .. N : f[i] = PageStep(f[i - 1], pg, i)
  BY <1>4, <1>5, Zenon
<1>7. \A i \in 1 .. N : i = 1 \/ i \in 1 + 1 .. N
  BY <1>1
<1>8. \A i \in 1 .. N : f[i] = IF i = 1 THEN PageStart ELSE PageStep(f[i - 1], pg, i)
  BY <1>5, <1>6, <1>7, Zenon
<1>9. f = [i \in 1 .. N |-> IF i = 1 THEN PageStart ELSE PageStep(f[i - 1], pg, i)]
  BY <1>8
<1>10. PageScan(pg) = [i \in 1 .. N |->
         IF i = 1 THEN PageStart ELSE PageStep(PageScan(pg)[i - 1], pg, i)]
  BY <1>9, Zenon DEF PageScan, PageStart
<1>11. \A i \in 1 .. N : PageScan(pg)[i] =
         IF i = 1 THEN PageStart ELSE PageStep(PageScan(pg)[i - 1], pg, i)
  BY <1>10, Zenon
<1>12. 1 \in 1 .. N /\ \A i \in 1 + 1 .. N : i \in 1 .. N /\ i # 1
  BY <1>1
<1>13. PageScan(pg)[1] = PageStart
  BY <1>11, <1>12, Zenon
<1>14. \A i \in 1 + 1 .. N : PageScan(pg)[i] = PageStep(PageScan(pg)[i - 1], pg, i)
  BY <1>11, <1>12, Zenon
<1>15. \A i \in 1 .. N : PageScan(pg)[i] \in PageAcc
  <2> DEFINE T == {i \in 1 .. N : PageScan(pg)[i] \in PageAcc}
  <2>1. 1 \in T
    BY <1>1, <1>12, <1>13, Zenon
  <2>2. ASSUME NEW i \in 1 + 1 .. N, i - 1 \in T  PROVE  i \in T
    BY <1>2, <1>12, <1>14, <2>2, Zenon
  <2> HIDE DEF T
  <2>3. 1 .. N \subseteq T
    BY <1>1, <2>1, <2>2, UpTo
  <2>4. QED
    BY <2>3 DEF T
<1>16. PageScan(pg) \in [1 .. N -> PageAcc]
  <2>1. DOMAIN PageScan(pg) = 1 .. N
          /\ PageScan(pg) = [i \in 1 .. N |-> PageScan(pg)[i]]
    BY <1>10, Zenon
  <2>2. QED
    BY <1>15, <2>1, Zenon
<1>17. 1 + 1 = 2
  OBVIOUS
<1>18. QED
  BY <1>13, <1>14, <1>16, <1>17, Zenon
-----------------------------------------------------------------------------
(* Lists of pages and tables that grow *)

(***************************************************************************)
(* The list p holds the n pages of P behind the first off.                 *)
(***************************************************************************)
Slice(p, P, off, n) == Len(p) = n /\ \A k \in 1 .. n : p[k] = P[off + k]

(***************************************************************************)
(* Behind the first off pages of P there are n pages in a row, from pfn.   *)
(***************************************************************************)
Run(P, off, n, pfn) == \A j \in 1 .. n : P[off + j] = pfn + j - 1

(***************************************************************************)
(* An element of a sequence is in its set.                                 *)
(***************************************************************************)
LEMMA ElementIn ==
  ASSUME NEW S, NEW s \in Seq(S), NEW k \in 1 .. Len(s)
  PROVE  s[k] \in S
OBVIOUS

(***************************************************************************)
(* The elements of a concatenation.                                        *)
(***************************************************************************)
LEMMA ConcatElements ==
  ASSUME NEW S, NEW s \in Seq(S), NEW t \in Seq(S)
  PROVE  /\ s \o t \in Seq(S) /\ Len(s \o t) = Len(s) + Len(t)
         /\ \A k \in 1 .. Len(s) : (s \o t)[k] = s[k]
         /\ \A j \in 1 .. Len(t) : (s \o t)[Len(s) + j] = t[j]
OBVIOUS

(***************************************************************************)
(* A region that pages_list_create accepts adds its pages.                 *)
(***************************************************************************)
LEMMA RegionStepOk ==
  ASSUME NEW a \in RegAcc, NEW r \in Region, NEW m \in Nat, RegionStep(a, r, m).ok
  PROVE  /\ a.ok /\ r.size \in Nat \ {0}
         /\ RegionStep(a, r, m).pfn = a.pfn + r.size + r.space
         /\ Len(RegionStep(a, r, m).pages) = Len(a.pages) + r.size
         /\ \A k \in 1 .. Len(a.pages) : RegionStep(a, r, m).pages[k] = a.pages[k]
         /\ \A j \in 1 .. r.size :
              RegionStep(a, r, m).pages[Len(a.pages) + j] = a.pfn + j - 1
<1> DEFINE new == [j \in 1 .. r.size |-> a.pfn + j - 1]
<1>1. ~(~a.ok \/ r.size <= 0 \/ Len(a.pages) + r.size > m)
  BY DEF RegionStep, RegAcc
<1>2. a.ok /\ r.size \in Nat \ {0} /\ a.pages \in Seq(Int) /\ a.pfn \in Int
  BY <1>1 DEF RegAcc, Region
<1>3. RegionStep(a, r, m) =
        [pages |-> a.pages \o new, pfn |-> a.pfn + r.size + r.space, ok |-> TRUE]
  BY <1>1 DEF RegionStep
<1>4. new \in Seq(Int) /\ Len(new) = r.size
  BY <1>2
<1>5. \A j \in 1 .. r.size : new[j] = a.pfn + j - 1
  OBVIOUS
<1> HIDE DEF new
<1>6. /\ Len(a.pages \o new) = Len(a.pages) + Len(new)
      /\ \A k \in 1 .. Len(a.pages) : (a.pages \o new)[k] = a.pages[k]
      /\ \A j \in 1 .. Len(new) : (a.pages \o new)[Len(a.pages) + j] = new[j]
  <2> DEFINE old == a.pages
  <2>1. old \in Seq(Int)
    BY <1>2
  <2>2. new \in Seq(Int)
    BY <1>4
  <2> HIDE DEF old
  <2>3. /\ Len(old \o new) = Len(old) + Len(new)
        /\ \A k \in 1 .. Len(old) : (old \o new)[k] = old[k]
        /\ \A j \in 1 .. Len(new) : (old \o new)[Len(old) + j] = new[j]
    BY <2>1, <2>2, ConcatElements
  <2>4. QED
    BY <2>3 DEF old
<1>7. QED
  BY <1>2, <1>3, <1>4, <1>5, <1>6

(***************************************************************************)
(* Only the size of a region decides which pages it adds.                  *)
(***************************************************************************)
LEMMA SpaceIsForTheNext ==
  ASSUME NEW a \in RegAcc, NEW r \in Region, NEW q \in Region, NEW m \in Nat,
         r.size = q.size
  PROVE  /\ RegionStep(a, r, m).ok = RegionStep(a, q, m).ok
         /\ RegionStep(a, r, m).pages = RegionStep(a, q, m).pages
<1>1. CASE ~a.ok \/ r.size <= 0 \/ Len(a.pages) + r.size > m
  BY <1>1 DEF RegionStep
<1>2. CASE ~(~a.ok \/ r.size <= 0 \/ Len(a.pages) + r.size > m)
  BY <1>2 DEF RegionStep
<1>3. QED
  BY <1>1, <1>2

(***************************************************************************)
(* Tables that begin alike expand alike.                                   *)
(***************************************************************************)
LEMMA RegionPrefix ==
  ASSUME NEW t \in Table, NEW u \in Table, NEW m \in Nat, t.first = u.first,
         NEW k \in Nat, k <= Len(t.regions), k <= Len(u.regions),
         \A j \in 1 .. k : t.regions[j] = u.regions[j]
  PROVE  RegionScan(t, m)[k] = RegionScan(u, m)[k]
<1> DEFINE T == {i \in 0 .. k : RegionScan(t, m)[i] = RegionScan(u, m)[i]}
<1>1. 0 \in T
  <2>1. RegionScan(t, m)[0] = RegionScan(u, m)[0]
    BY RegionScanRec DEF RegionStart
  <2>2. QED
    BY <2>1
<1>2. ASSUME NEW i \in 0 + 1 .. k, i - 1 \in T  PROVE  i \in T
  <2>1. i \in 1 .. k /\ i \in 1 .. Len(t.regions) /\ i \in 1 .. Len(u.regions)
          /\ i \in 0 .. k
    BY DEF Table
  <2>2. RegionScan(t, m)[i - 1] = RegionScan(u, m)[i - 1]
    BY <1>2
  <2>3. RegionScan(t, m)[i] = RegionStep(RegionScan(t, m)[i - 1], t.regions[i], m)
    BY <2>1, RegionScanRec
  <2>4. RegionScan(u, m)[i] = RegionStep(RegionScan(u, m)[i - 1], u.regions[i], m)
    BY <2>1, RegionScanRec
  <2>5. QED
    BY <2>1, <2>2, <2>3, <2>4
<1> HIDE DEF T
<1>3. 0 .. k \subseteq T
  BY <1>1, <1>2, UpTo
<1>4. QED
  BY <1>3 DEF T

(***************************************************************************)
(* The table u has a region r behind the k of t, and o is what they are    *)
(* then: only the space of the last one may have changed.                  *)
(***************************************************************************)
Longer(t, u, o, r, k) ==
  /\ k = Len(t.regions) /\ k = Len(o)
  /\ \A j \in 1 .. k - 1 : o[j] = t.regions[j]
  /\ o[k].size = t.regions[k].size
  /\ u = [first |-> t.first, regions |-> Append(o, r)]

(***************************************************************************)
(* The longer table expands to the same pages, and then the new region.    *)
(***************************************************************************)
LEMMA RegionAppend ==
  ASSUME NEW t \in Table, NEW m \in Nat, NEW o \in Seq(Region), NEW r \in Region,
         NEW k \in Nat \ {0}, NEW u, Longer(t, u, o, r, k)
  PROVE  /\ RegionScan(u, m)[k].ok = RegionScan(t, m)[k].ok
         /\ RegionScan(u, m)[k].pages = RegionScan(t, m)[k].pages
         /\ RegionScan(t, m)[k].ok =>
              RegionScan(u, m)[k].pfn = RegionScan(t, m)[k - 1].pfn + o[k].size + o[k].space
         /\ RegionScan(u, m)[k] \in RegAcc
         /\ RegionScan(u, m)[k + 1] = RegionStep(RegionScan(u, m)[k], r, m)
<1> DEFINE e == RegionScan(t, m)
           f == RegionScan(u, m)
<1>0. /\ k = Len(t.regions) /\ k = Len(o)
      /\ \A j \in 1 .. k - 1 : o[j] = t.regions[j]
      /\ o[k].size = t.regions[k].size
      /\ u = [first |-> t.first, regions |-> Append(o, r)]
  BY DEF Longer
<1>1. t.first \in Int /\ t.regions \in Seq(Region)
  BY DEF Table
<1>2. Append(o, r) \in Seq(Region) /\ Len(Append(o, r)) = k + 1
  BY <1>0
<1>3. u \in Table
  BY <1>0, <1>1, <1>2 DEF Table
<1>4. \A j \in 1 .. k : Append(o, r)[j] = o[j]
  BY <1>0
<1>5. Append(o, r)[k + 1] = r
  BY <1>0
<1>6. u.first = t.first /\ u.regions = Append(o, r)
  BY <1>0
<1>7. k - 1 \in Nat /\ k - 1 <= Len(t.regions) /\ k - 1 <= Len(u.regions)
        /\ k \in 1 .. k
      /\ \A j \in 1 .. k - 1 : j \in 1 .. k
  BY <1>0, <1>2, <1>6
<1>8. \A j \in 1 .. k - 1 : t.regions[j] = u.regions[j]
  BY <1>0, <1>4, <1>6, <1>7
<1>9. e[k - 1] = f[k - 1]
  BY <1>3, <1>6, <1>7, <1>8, RegionPrefix
<1>10. k \in 1 .. Len(t.regions) /\ k \in 1 .. Len(u.regions)
         /\ k + 1 \in 1 .. Len(u.regions)
       /\ k - 1 \in 0 .. Len(t.regions) /\ k \in 0 .. Len(u.regions) /\ k + 1 - 1 = k
  BY <1>0, <1>2, <1>6
<1>20. /\ e \in [0 .. Len(t.regions) -> RegAcc]
       /\ \A i \in 1 .. Len(t.regions) : e[i] = RegionStep(e[i - 1], t.regions[i], m)
  BY RegionScanRec, Zenon
<1>21. /\ f \in [0 .. Len(u.regions) -> RegAcc]
       /\ \A i \in 1 .. Len(u.regions) : f[i] = RegionStep(f[i - 1], u.regions[i], m)
  BY <1>3, RegionScanRec, Zenon
<1> HIDE DEF e, f
<1>11. e[k] = RegionStep(e[k - 1], t.regions[k], m) /\ e[k - 1] \in RegAcc
  BY <1>10, <1>20
<1>12. f[k] = RegionStep(f[k - 1], o[k], m) /\ f[k] \in RegAcc
  <2>1. f[k] = RegionStep(f[k - 1], u.regions[k], m) /\ f[k] \in RegAcc
    BY <1>10, <1>21
  <2>2. u.regions[k] = o[k]
    BY <1>4, <1>6, <1>7
  <2>3. QED
    BY <2>1, <2>2
<1>13. f[k + 1] = RegionStep(f[k], r, m)
  <2>1. f[k + 1] = RegionStep(f[k + 1 - 1], u.regions[k + 1], m)
    BY <1>10, <1>21
  <2>2. u.regions[k + 1] = r
    BY <1>5, <1>6
  <2>3. QED
    BY <2>1, <2>2, <1>10
<1>14. t.regions[k] \in Region /\ o[k] \in Region
  BY <1>0, <1>1, <1>10, ElementIn
<1>15. f[k].ok = e[k].ok /\ f[k].pages = e[k].pages
  BY <1>0, <1>9, <1>11, <1>12, <1>14, SpaceIsForTheNext
<1>16. e[k].ok => f[k].pfn = e[k - 1].pfn + o[k].size + o[k].space
  <2>1. e[k].ok => RegionStep(e[k - 1], o[k], m).ok
    BY <1>9, <1>12, <1>15
  <2>2. QED
    BY <2>1, <1>9, <1>11, <1>12, <1>14, RegionStepOk
<1>17. QED
  BY <1>12, <1>13, <1>15, <1>16 DEF e, f

(***************************************************************************)
(* An accepted region whose pages are the next ones of P.                  *)
(***************************************************************************)
LEMMA SliceStep ==
  ASSUME NEW a \in RegAcc, NEW r \in Region, NEW m \in Nat, RegionStep(a, r, m).ok,
         NEW P, NEW off \in Nat, NEW n \in Nat, Slice(a.pages, P, off, n),
         Run(P, off + n, r.size, a.pfn)
  PROVE  Slice(RegionStep(a, r, m).pages, P, off, n + r.size)
<1> DEFINE p == RegionStep(a, r, m).pages
<1>1. /\ r.size \in Nat \ {0} /\ Len(a.pages) = n
      /\ \A k \in 1 .. n : a.pages[k] = P[off + k]
  BY RegionStepOk DEF Slice
<1>2. /\ Len(p) = n + r.size
      /\ \A k \in 1 .. n : p[k] = a.pages[k]
      /\ \A j \in 1 .. r.size : p[n + j] = a.pfn + j - 1
  <2>1. /\ Len(p) = Len(a.pages) + r.size
        /\ \A k \in 1 .. Len(a.pages) : p[k] = a.pages[k]
        /\ \A j \in 1 .. r.size : p[Len(a.pages) + j] = a.pfn + j - 1
    BY RegionStepOk, Zenon
  <2>2. QED
    BY <1>1, <2>1, Zenon
<1> HIDE DEF p
<1>3. ASSUME NEW k \in 1 .. n + r.size  PROVE  p[k] = P[off + k]
  <2>1. CASE k <= n
    BY <1>1, <1>2, <2>1
  <2>2. CASE k > n
    <3>1. PICK j \in 1 .. r.size : k = n + j
      <4>1. k - n \in 1 .. r.size /\ k = n + (k - n)
        BY <1>1, <2>2
      <4>2. QED
        BY <4>1
    <3>2. off + k = off + n + j
      BY <3>1, <1>1
    <3>3. P[off + n + j] = a.pfn + j - 1
      BY <3>1 DEF Run
    <3>4. QED
      BY <1>2, <3>1, <3>2, <3>3
  <2>3. QED
    BY <1>1, <2>1, <2>2
<1>4. QED
  BY <1>2, <1>3 DEF Slice, p

(***************************************************************************)
(* Pages behind those of P do not matter.                                  *)
(***************************************************************************)
LEMMA SliceLonger ==
  ASSUME NEW p, NEW P, NEW Q, NEW off \in Nat, NEW n \in Nat, Slice(p, P, off, n),
         \A k \in 1 .. off + n : Q[k] = P[k]
  PROVE  Slice(p, Q, off, n)
BY DEF Slice

(***************************************************************************)
(* A part of a run.                                                        *)
(***************************************************************************)
LEMMA PartOfRun ==
  ASSUME NEW Q, NEW T \in Nat, NEW n \in Nat, NEW pfn \in Nat, Run(Q, T, n, pfn),
         NEW x \in Nat, NEW s \in Int, s <= n - x
  PROVE  Run(Q, T + x, s, pfn + x)
<1> SUFFICES ASSUME NEW j \in 1 .. s PROVE Q[(T + x) + j] = (pfn + x) + j - 1
  BY DEF Run
<1>1. x + j \in 1 .. n /\ (T + x) + j = T + (x + j)
  OBVIOUS
<1>2. Q[T + (x + j)] = pfn + (x + j) - 1
  BY <1>1 DEF Run
<1>3. QED
  BY <1>1, <1>2

(***************************************************************************)
(* A slice of P is the subsequence of P.                                   *)
(***************************************************************************)
LEMMA SliceIsSubSeq ==
  ASSUME NEW p \in Seq(Int), NEW P \in Seq(Nat), NEW off \in Nat, NEW n \in Nat,
         Slice(p, P, off, n), off + n <= Len(P)
  PROVE  p = SubSeq(P, off + 1, off + n)
<1> DEFINE q == SubSeq(P, off + 1, off + n)
<1>1. q \in Seq(Nat) /\ Len(q) = n /\ \A k \in 1 .. n : q[k] = P[off + k]
  OBVIOUS
<1> HIDE DEF q
<1>2. Len(p) = n /\ \A k \in 1 .. n : p[k] = q[k]
  BY <1>1 DEF Slice
<1>3. p = [k \in 1 .. n |-> p[k]] /\ q = [k \in 1 .. n |-> q[k]]
  BY <1>1, <1>2
<1>4. p = q
  BY <1>2, <1>3
<1>5. QED
  BY <1>4 DEF q

(***************************************************************************)
(* The pages up to a chunk are those before it and its own.                *)
(***************************************************************************)
LEMMA PagesToStep ==
  ASSUME NEW b \in Buffers, NEW i \in 1 .. Len(b.chunks)
  PROVE  LET P == PagesTo(b)[i - 1]
             Q == PagesTo(b)[i]
             c == b.chunks[i]
         IN /\ P \in Seq(Nat) /\ Q \in Seq(Nat) /\ c \in Chunk
            /\ Len(Q) = Len(P) + c.n
            /\ \A k \in 1 .. Len(P) : Q[k] = P[k]
            /\ Run(Q, Len(P), c.n, c.pfn)
<1> DEFINE P == PagesTo(b)[i - 1]
           Q == PagesTo(b)[i]
           c == b.chunks[i]
           R == ChunkPages(c)
<1>1. b.chunks \in Seq(Chunk) /\ Len(b.chunks) \in Nat
  BY BuffersAssumption DEF Chunk
<1>2. i - 1 \in 0 .. Len(b.chunks) /\ i \in 0 .. Len(b.chunks) /\ c \in Chunk
  BY <1>1
<1>3. P \in Seq(Nat) /\ Q \in Seq(Nat)
  BY <1>2, PagesToRec
<1>4. Q = P \o R
  BY PagesToRec
<1>5. R \in Seq(Nat) /\ Len(R) = c.n /\ \A j \in 1 .. c.n : R[j] = c.pfn + j - 1
  BY <1>2, ChunkPagesType
<1> HIDE DEF P, Q, R, c
<1>6. /\ Len(P \o R) = Len(P) + Len(R)
      /\ \A k \in 1 .. Len(P) : (P \o R)[k] = P[k]
      /\ \A j \in 1 .. Len(R) : (P \o R)[Len(P) + j] = R[j]
  <2>1. P \in Seq(Nat)
    BY <1>3
  <2>2. R \in Seq(Nat)
    BY <1>5
  <2>3. QED
    BY <2>1, <2>2, ConcatElements
<1>7. QED
  BY <1>2, <1>3, <1>4, <1>5, <1>6 DEF P, Q, c, Run

(***************************************************************************)
(* More chunks, not fewer pages.                                           *)
(***************************************************************************)
LEMMA PagesToMono ==
  ASSUME NEW b \in Buffers, NEW i \in 0 .. Len(b.chunks), NEW k \in i .. Len(b.chunks)
  PROVE  Len(PagesTo(b)[i]) <= Len(PagesTo(b)[k])
<1> DEFINE N == Len(b.chunks)
           T == {j \in i .. N : Len(PagesTo(b)[i]) <= Len(PagesTo(b)[j])}
<1>1. N \in Nat
  BY BuffersAssumption
<1>2. \A j \in 0 .. N : Len(PagesTo(b)[j]) \in Nat
  BY PagesToRec
<1>3. i \in T
  BY <1>1, <1>2
<1>4. ASSUME NEW j \in i + 1 .. N, j - 1 \in T  PROVE  j \in T
  <2>1. j \in 1 .. N /\ j - 1 \in i .. N /\ j \in i .. N /\ j - 1 \in 0 .. N
    BY <1>1
  <2>2. Len(PagesTo(b)[j]) = Len(PagesTo(b)[j - 1]) + b.chunks[j].n
          /\ b.chunks[j].n \in Nat
    BY <2>1, PagesToStep DEF Chunk
  <2>3. Len(PagesTo(b)[i]) <= Len(PagesTo(b)[j - 1])
    BY <1>4
  <2>4. Len(PagesTo(b)[i]) <= Len(PagesTo(b)[j])
    <3> DEFINE x == Len(PagesTo(b)[i])
               y == Len(PagesTo(b)[j - 1])
               z == Len(PagesTo(b)[j])
               n == b.chunks[j].n
    <3>1. x \in Nat /\ y \in Nat /\ n \in Nat /\ z = y + n /\ x <= y
      BY <1>2, <2>1, <2>2, <2>3
    <3> HIDE DEF x, y, z, n
    <3>2. x <= z
      BY <3>1
    <3>3. QED
      BY <3>2 DEF x, z
  <2>5. QED
    BY <2>1, <2>4
<1> HIDE DEF T
<1>5. i .. N \subseteq T
  BY <1>1, <1>3, <1>4, UpTo, i \in Nat
<1>6. QED
  BY <1>5 DEF T
-----------------------------------------------------------------------------
(* The table of a scatterlist *)

(***************************************************************************)
(* What the pages of the table are, after some entries of the scatterlist. *)
(***************************************************************************)
SgTable(a) == [first |-> a.first, regions |-> a.regions]
SgExpand(b, a) == RegionScan(SgTable(a), b.count)
Total(b, i) == Len(PagesTo(b)[i])

(***************************************************************************)
(* Whole chunks, or one region: then the regions so far expand to n pages  *)
(* behind the offset.                                                      *)
(***************************************************************************)
SgShows(b, a, i, n) ==
  LET L == Len(a.regions)
  IN (StartsAChunk(b) \/ L = 1) /\ SgExpand(b, a)[L].ok =>
       Slice(SgExpand(b, a)[L].pages, PagesTo(b)[i], b.off, n)

SgSkips(b, a, i) == a.off = b.off - Total(b, i) /\ a.left = b.count

SgTakes(b, a, i) ==
  LET L == Len(a.regions)
  IN /\ a.off = 0 /\ Total(b, i) > b.off
     /\ a.left = b.count - (Total(b, i) - b.off) /\ a.left > 0
     /\ L <= Total(b, i) - b.off
     /\ SgShows(b, a, i, Total(b, i) - b.off)
     /\ StartsAChunk(b) /\ SgExpand(b, a)[L].ok =>
          a.pre = SgExpand(b, a)[L - 1].pfn + a.regions[L].size - 1

SgEnds(b, a, i) ==
  /\ Len(a.regions) >= 1 /\ Len(a.regions) <= b.count
  /\ Total(b, i) >= b.off + b.count
  /\ SgShows(b, a, i, b.count)

SgInv(b, i) ==
  LET a == SgScan(b)[i]
  IN IF a.done THEN SgEnds(b, a, i)
     ELSE IF a.regions = << >> THEN SgSkips(b, a, i)
     ELSE SgTakes(b, a, i)

(***************************************************************************)
(* The region of a chunk that is not skipped, and the regions before it:   *)
(* the last of them gets its space now.                                    *)
(***************************************************************************)
TakenPages(a, c) == IF c.n - a.off >= a.left THEN a.left ELSE c.n - a.off
TakenRegion(a, c) == [size |-> TakenPages(a, c), space |-> 0]
RegionsBefore(a, c) ==
  IF Len(a.regions) = 0 THEN << >>
  ELSE [a.regions EXCEPT ![Len(a.regions)].space = c.pfn - a.pre - 1]

(***************************************************************************)
(* A chunk that is not skipped makes a region.                             *)
(***************************************************************************)
LEMMA SgStepTakes ==
  ASSUME NEW a \in SgAcc, NEW c \in Chunk, ~a.done, a.off < c.n
  PROVE  /\ SgStep(a, c).off = 0 /\ SgStep(a, c).left = a.left - (c.n - a.off)
         /\ SgStep(a, c).first = IF Len(a.regions) = 0 THEN c.pfn + a.off ELSE a.first
         /\ SgStep(a, c).pre = c.pfn + (c.n - a.off) - 1
         /\ SgStep(a, c).regions = Append(RegionsBefore(a, c), TakenRegion(a, c))
         /\ SgStep(a, c).done = (c.n - a.off >= a.left)
         /\ TakenRegion(a, c) \in Region /\ TakenRegion(a, c).size = TakenPages(a, c)
<1>1. ~(a.off >= c.n) /\ a.off \in Nat /\ c.n \in Nat /\ a.left \in Int
  BY DEF SgAcc, Chunk
<1>2. SgStep(a, c) =
        [off |-> 0, left |-> a.left - (c.n - a.off),
         first |-> IF Len(a.regions) = 0 THEN c.pfn + a.off ELSE a.first,
         pre |-> c.pfn + (c.n - a.off) - 1,
         regions |-> Append(RegionsBefore(a, c), TakenRegion(a, c)),
         done |-> c.n - a.off >= a.left]
  BY <1>1, Zenon DEF SgStep, RegionsBefore, TakenRegion, TakenPages
<1>3. TakenPages(a, c) \in Int
  BY <1>1 DEF TakenPages
<1>4. TakenRegion(a, c) \in Region /\ TakenRegion(a, c).size = TakenPages(a, c)
  BY <1>3 DEF TakenRegion, Region
<1> HIDE DEF TakenRegion
<1>5. QED
  BY <1>2, <1>4

(***************************************************************************)
(* The regions before keep their sizes; only the last one gets a space.    *)
(***************************************************************************)
LEMMA RegionsBeforeAre ==
  ASSUME NEW a \in SgAcc, NEW c \in Chunk, NEW L, L = Len(a.regions), L >= 1
  PROVE  /\ L \in Nat \ {0} /\ RegionsBefore(a, c) \in Seq(Region)
         /\ Len(RegionsBefore(a, c)) = L
         /\ \A j \in 1 .. L - 1 : RegionsBefore(a, c)[j] = a.regions[j]
         /\ RegionsBefore(a, c)[L].size = a.regions[L].size
         /\ RegionsBefore(a, c)[L].space = c.pfn - a.pre - 1
<1> DEFINE R == a.regions
           x == c.pfn - a.pre - 1
           q == [R[L] EXCEPT !.space = x]
           o == [R EXCEPT ![L] = q]
<1>1. R \in Seq(Region) /\ x \in Int /\ L \in Nat \ {0} /\ L \in 1 .. Len(R)
  BY DEF SgAcc, Chunk
<1>2. R[L] \in Region
  BY <1>1, ElementIn
<1>3. q \in Region /\ q.size = R[L].size /\ q.space = x
  BY <1>1, <1>2 DEF Region
<1>4. RegionsBefore(a, c) = o
  BY <1>1 DEF RegionsBefore
<1> HIDE DEF q, R
<1>5. o \in Seq(Region) /\ Len(o) = L /\ o[L] = q /\ \A j \in 1 .. L - 1 : o[j] = R[j]
  BY <1>1, <1>3 DEF R
<1> HIDE DEF o
<1>6. QED
  BY <1>1, <1>3, <1>4, <1>5 DEF R

(***************************************************************************)
(* The facts about one entry that all cases use.                           *)
(***************************************************************************)
LEMMA SgFacts ==
  ASSUME NEW b \in Buffers, NEW i \in 1 .. Len(b.chunks)
  PROVE  /\ b.off \in Nat /\ b.count \in Nat \ {0}
         /\ i \in 0 .. Len(b.chunks) /\ i - 1 \in 0 .. Len(b.chunks)
         /\ SgScan(b)[i - 1] \in SgAcc /\ SgScan(b)[i] \in SgAcc
         /\ b.chunks[i] \in Chunk /\ b.chunks[i].n \in Nat \ {0}
            /\ b.chunks[i].pfn \in Nat
         /\ SgScan(b)[i] = SgStep(SgScan(b)[i - 1], b.chunks[i])
         /\ Total(b, i - 1) \in Nat /\ Total(b, i) \in Nat
         /\ Total(b, i) = Total(b, i - 1) + b.chunks[i].n
         /\ \A k \in 1 .. Total(b, i - 1) : PagesTo(b)[i][k] = PagesTo(b)[i - 1][k]
         /\ Run(PagesTo(b)[i], Total(b, i - 1), b.chunks[i].n, b.chunks[i].pfn)
<1>1. b.off \in Nat /\ b.count \in Nat \ {0} /\ Len(b.chunks) \in Nat
  BY BuffersAssumption
<1>2. i \in 0 .. Len(b.chunks) /\ i - 1 \in 0 .. Len(b.chunks)
  BY <1>1
<1>3. /\ SgScan(b)[i - 1] \in SgAcc /\ SgScan(b)[i] \in SgAcc
      /\ SgScan(b)[i] = SgStep(SgScan(b)[i - 1], b.chunks[i])
  BY <1>2, SgScanRec
<1>4. /\ PagesTo(b)[i - 1] \in Seq(Nat) /\ b.chunks[i] \in Chunk
      /\ Total(b, i) = Total(b, i - 1) + b.chunks[i].n
      /\ \A k \in 1 .. Total(b, i - 1) : PagesTo(b)[i][k] = PagesTo(b)[i - 1][k]
      /\ Run(PagesTo(b)[i], Total(b, i - 1), b.chunks[i].n, b.chunks[i].pfn)
  BY PagesToStep, Zenon DEF Total
<1>5. Total(b, i - 1) \in Nat
  BY <1>4 DEF Total
<1>6. b.chunks[i].n \in Nat \ {0} /\ b.chunks[i].pfn \in Nat
  BY <1>4 DEF Chunk
<1>7. Total(b, i) \in Nat
  BY <1>4, <1>5, <1>6
<1>8. QED
  BY <1>1, <1>2, <1>3, <1>4, <1>5, <1>6, <1>7

(***************************************************************************)
(* An offset at which a chunk starts is the start of the chunk it is in.   *)
(***************************************************************************)
LEMMA AlignedStart ==
  ASSUME NEW b \in Buffers, NEW i \in 1 .. Len(b.chunks), StartsAChunk(b),
         Total(b, i - 1) <= b.off, b.off < Total(b, i)
  PROVE  b.off = Total(b, i - 1)
<1> DEFINE N == Len(b.chunks)
<1>1. PICK k \in 0 .. N : b.off = Total(b, k)
  BY DEF StartsAChunk, Total
<1>2. i \in 0 .. N /\ i - 1 \in 0 .. N /\ N \in Nat /\ b.off \in Nat
      /\ Total(b, i - 1) \in Nat /\ Total(b, i) \in Nat
  BY SgFacts, BuffersAssumption
<1>3. CASE k <= i - 1
  <2>1. i - 1 \in k .. N
    BY <1>2, <1>3
  <2>2. Total(b, k) <= Total(b, i - 1)
    BY <2>1, PagesToMono DEF Total
  <2>3. QED
    BY <1>1, <1>2, <2>2
<1>4. CASE k >= i
  <2>1. k \in i .. N
    BY <1>2, <1>4
  <2>2. Total(b, i) <= Total(b, k)
    BY <1>2, <2>1, PagesToMono DEF Total
  <2>3. QED
    BY <1>1, <1>2, <2>2
<1>5. QED
  BY <1>2, <1>3, <1>4

(***************************************************************************)
(* After the last region the rest of the scatterlist is not looked at.     *)
(***************************************************************************)
LEMMA SgStays ==
  ASSUME NEW b \in Buffers, NEW i \in 1 .. Len(b.chunks), SgInv(b, i - 1),
         SgScan(b)[i - 1].done
  PROVE  SgInv(b, i)
<1> DEFINE a == SgScan(b)[i - 1]
           T == Total(b, i - 1)
<1>1. SgScan(b)[i] = a
  BY SgFacts DEF SgStep
<1>2. SgEnds(b, a, i - 1)
  BY DEF SgInv
<1>3. /\ b.off \in Nat /\ b.count \in Nat \ {0} /\ T \in Nat /\ Total(b, i) >= T
      /\ Total(b, i) \in Nat
      /\ \A k \in 1 .. T : PagesTo(b)[i][k] = PagesTo(b)[i - 1][k]
  <2>1. /\ b.off \in Nat /\ b.count \in Nat \ {0} /\ T \in Nat /\ Total(b, i) \in Nat
        /\ Total(b, i) = T + b.chunks[i].n /\ b.chunks[i].n \in Nat \ {0}
        /\ \A k \in 1 .. T : PagesTo(b)[i][k] = PagesTo(b)[i - 1][k]
    BY SgFacts, Zenon
  <2> HIDE DEF T
  <2>2. QED
    BY <2>1
<1>4. T >= b.off + b.count
  BY <1>2 DEF SgEnds
<1>5. \A k \in 1 .. b.off + b.count : PagesTo(b)[i][k] = PagesTo(b)[i - 1][k]
  BY <1>3, <1>4
<1> HIDE DEF a, T
<1>6. SgShows(b, a, i - 1, b.count) => SgShows(b, a, i, b.count)
  BY <1>3, <1>5, SliceLonger DEF SgShows
<1>7. SgEnds(b, a, i)
  BY <1>2, <1>3, <1>4, <1>6 DEF SgEnds
<1>8. QED
  BY <1>1, <1>7 DEF SgInv, a

(***************************************************************************)
(* A chunk before the offset.                                              *)
(***************************************************************************)
LEMMA SgSkipsOne ==
  ASSUME NEW b \in Buffers, NEW i \in 1 .. Len(b.chunks), SgInv(b, i - 1),
         ~SgScan(b)[i - 1].done, SgScan(b)[i - 1].off >= b.chunks[i].n
  PROVE  SgInv(b, i)
<1> DEFINE a == SgScan(b)[i - 1]
           c == b.chunks[i]
<1>1. a \in SgAcc /\ c \in Chunk /\ Total(b, i) = Total(b, i - 1) + c.n
      /\ b.off \in Nat /\ Total(b, i - 1) \in Nat
  BY SgFacts
<1>2. SgScan(b)[i] = [a EXCEPT !.off = a.off - c.n]
  BY SgFacts DEF SgStep
<1>3. a.off # 0 /\ c.n \in Nat
  BY <1>1 DEF Chunk
<1>4. a.regions = << >> /\ SgSkips(b, a, i - 1)
  BY <1>3 DEF SgInv, SgTakes
<1>5. /\ SgScan(b)[i].done = a.done /\ SgScan(b)[i].regions = << >>
      /\ SgScan(b)[i].left = a.left /\ SgScan(b)[i].off = a.off - c.n
  BY <1>1, <1>2, <1>4 DEF SgAcc
<1> HIDE DEF a, c
<1>6. SgSkips(b, SgScan(b)[i], i)
  BY <1>1, <1>3, <1>4, <1>5 DEF SgSkips
<1>7. QED
  BY <1>5, <1>6 DEF SgInv, a

(***************************************************************************)
(* A table of one region.                                                  *)
(***************************************************************************)
LEMMA OneRegion ==
  ASSUME NEW t \in Table, NEW r \in Region, t.regions = Append(<< >>, r), NEW m \in Nat,
         NEW Q, NEW off \in Nat, Run(Q, off, r.size, t.first)
  PROVE  /\ RegionScan(t, m)[0].pfn = t.first
         /\ RegionScan(t, m)[1].ok => Slice(RegionScan(t, m)[1].pages, Q, off, r.size)
<1> DEFINE e == RegionScan(t, m)
<1>1. Len(t.regions) = 1 /\ t.regions[1] = r
  OBVIOUS
<1>2. 1 \in 1 .. Len(t.regions) /\ 0 \in 0 .. Len(t.regions) /\ 1 - 1 = 0
  BY <1>1
<1>3. e[0] = RegionStart(t) /\ e[0] \in RegAcc
        /\ e[1] = RegionStep(e[1 - 1], t.regions[1], m)
  BY <1>2, RegionScanRec
<1>4. e[1] = RegionStep(e[0], r, m)
  BY <1>1, <1>2, <1>3
<1>5. e[0].pages = << >> /\ e[0].pfn = t.first
  BY <1>3 DEF RegionStart
<1> HIDE DEF e
<1>6. Slice(e[0].pages, Q, off, 0)
  BY <1>5 DEF Slice
<1>7. Run(Q, off + 0, r.size, e[0].pfn)
  BY <1>5
<1>8. ASSUME e[1].ok  PROVE Slice(e[1].pages, Q, off, r.size)
  <2>1. Slice(e[1].pages, Q, off, 0 + r.size)
    BY <1>3, <1>4, <1>6, <1>7, <1>8, SliceStep, 0 \in Nat
  <2>2. 0 + r.size = r.size
    BY DEF Region
  <2>3. QED
    BY <2>1, <2>2
<1>9. QED
  BY <1>5, <1>8 DEF e

(***************************************************************************)
(* The chunk with the offset makes the first region.                       *)
(***************************************************************************)
LEMMA SgTakesFirst ==
  ASSUME NEW b \in Buffers, NEW i \in 1 .. Len(b.chunks), NEW a, a = SgScan(b)[i - 1],
         SgSkips(b, a, i - 1), ~a.done, a.regions = << >>, a.off < b.chunks[i].n
  PROVE  SgInv(b, i)
<1> DEFINE d == SgScan(b)[i]
           c == b.chunks[i]
           r == TakenRegion(a, c)
           T == Total(b, i - 1)
           Q == PagesTo(b)[i]
<1>1. a \in SgAcc /\ c \in Chunk /\ d = SgStep(a, c) /\ b.count \in Nat \ {0}
  BY SgFacts, Zenon
<1>2. Run(Q, T, c.n, c.pfn)
  BY SgFacts, Zenon
<1>3. /\ T \in Nat /\ c.n \in Nat /\ c.pfn \in Nat /\ b.off \in Nat /\ b.count \in Nat
      /\ Total(b, i) = T + c.n /\ a.off < c.n
  <2>1. T \in Nat /\ c.n \in Nat \ {0} /\ c.pfn \in Nat /\ b.off \in Nat
          /\ Total(b, i) = T + c.n
    BY SgFacts, Zenon
  <2>2. QED
    BY <1>1, <2>1
<1>4. a.off \in Nat
  BY <1>1 DEF SgAcc
<1>5. a.off = b.off - T /\ a.left = b.count
  BY DEF SgSkips
<1>6. RegionsBefore(a, c) = << >> /\ Len(a.regions) = 0
  BY DEF RegionsBefore
<1>7. /\ d.off = 0 /\ d.left = a.left - (c.n - a.off)
      /\ d.first = IF Len(a.regions) = 0 THEN c.pfn + a.off ELSE a.first
      /\ d.pre = c.pfn + (c.n - a.off) - 1 /\ d.regions = Append(RegionsBefore(a, c), r)
      /\ d.done = (c.n - a.off >= a.left)
      /\ r \in Region /\ r.size = TakenPages(a, c)
  <2>1. a \in SgAcc /\ c \in Chunk /\ ~a.done /\ a.off < c.n
    BY <1>1, <1>3, Zenon
  <2> HIDE DEF d
  <2>2. QED
    BY <1>1, <2>1, SgStepTakes
<1> HIDE DEF c, r, d, T, Q
<1>8. d.first = c.pfn + a.off
  BY <1>6, <1>7, Zenon
<1>9. Len(d.regions) = 1 /\ d.regions[1] = r /\ d.regions # << >>
        /\ d.regions \in Seq(Region)
  BY <1>6, <1>7
<1>10. r.size = IF c.n - a.off >= a.left THEN a.left ELSE c.n - a.off
  BY <1>7, Zenon DEF TakenPages
<1>11. r.size \in Int /\ r.size <= c.n - a.off
  BY <1>3, <1>4, <1>5, <1>10
<1>12. SgTable(d) \in Table /\ SgTable(d).first = d.first
         /\ SgTable(d).regions = Append(<< >>, r)
  <2>1. d.first \in Int
    BY <1>3, <1>4, <1>8
  <2>2. QED
    BY <1>6, <1>7, <1>9, <2>1 DEF Table, SgTable
<1>13. Run(Q, b.off, r.size, d.first)
  <2>1. T + a.off = b.off
    BY <1>3, <1>4, <1>5
  <2>2. Run(Q, T + a.off, r.size, c.pfn + a.off)
    BY <1>2, <1>3, <1>4, <1>11, PartOfRun
  <2>3. QED
    BY <1>8, <2>1, <2>2, Zenon
<1>14. /\ SgExpand(b, d)[0].pfn = d.first
       /\ SgExpand(b, d)[1].ok => Slice(SgExpand(b, d)[1].pages, Q, b.off, r.size)
  <2>1. Run(Q, b.off, r.size, SgTable(d).first)
    BY <1>12, <1>13, Zenon
  <2>2. r \in Region /\ b.off \in Nat /\ b.count \in Nat
    BY <1>3, <1>7, Zenon
  <2>3. /\ SgExpand(b, d)[0].pfn = SgTable(d).first
        /\ SgExpand(b, d)[1].ok => Slice(SgExpand(b, d)[1].pages, Q, b.off, r.size)
    BY <1>12, <2>1, <2>2, OneRegion, Zenon DEF SgExpand
  <2>4. QED
    BY <1>12, <2>3, Zenon
<1>15. SgShows(b, d, i, r.size)
  BY <1>9, <1>14 DEF SgShows, Q
<1>16. CASE c.n - a.off >= a.left
  <2>1. r.size = b.count /\ d.done
    BY <1>5, <1>7, <1>10, <1>16, Zenon
  <2>2. Total(b, i) >= b.off + b.count /\ 1 <= b.count
    BY <1>1, <1>3, <1>4, <1>5, <1>16
  <2>3. SgEnds(b, d, i)
    BY <1>9, <1>15, <2>1, <2>2 DEF SgEnds
  <2>4. QED
    BY <2>1, <2>3 DEF SgInv, d
<1>17. CASE ~(c.n - a.off >= a.left)
  <2>1. r.size = c.n - a.off /\ ~d.done
    BY <1>7, <1>10, <1>17, Zenon
  <2>2. c.n - a.off = Total(b, i) - b.off
    BY <1>3, <1>4, <1>5
  <2>3. d.left = b.count - (c.n - a.off)
    BY <1>5, <1>7, Zenon
  <2>4. /\ Total(b, i) > b.off /\ d.left > 0 /\ 1 <= Total(b, i) - b.off
        /\ d.left = b.count - (Total(b, i) - b.off)
    <3>1. c.n - a.off > 0 /\ c.n - a.off \in Nat
      BY <1>3, <1>4
    <3>2. d.left = b.count - (Total(b, i) - b.off)
      BY <2>2, <2>3, Zenon
    <3>3. d.left > 0
      BY <1>3, <1>4, <1>5, <1>17, <2>3
    <3>4. Total(b, i) > b.off /\ 1 <= Total(b, i) - b.off
      BY <1>3, <2>2, <3>1
    <3>5. QED
      BY <3>2, <3>3, <3>4
  <2>5. StartsAChunk(b) => d.pre = SgExpand(b, d)[0].pfn + r.size - 1
    <3>1. Total(b, i - 1) <= b.off /\ b.off < Total(b, i)
      BY <1>3, <1>4, <1>5 DEF T
    <3>2. StartsAChunk(b) => b.off = T
      BY <3>1, AlignedStart, Zenon DEF T
    <3>3. b.off = T => d.first = c.pfn
      BY <1>3, <1>4, <1>5, <1>8
    <3>4. d.pre = c.pfn + r.size - 1
      BY <1>7, <2>1, Zenon
    <3>5. QED
      BY <1>14, <3>2, <3>3, <3>4, Zenon
  <2>6. SgShows(b, d, i, Total(b, i) - b.off)
    BY <1>15, <2>1, <2>2, Zenon
  <2>7. 1 - 1 = 0
    OBVIOUS
  <2>8. SgTakes(b, d, i)
    BY <1>7, <1>9, <2>4, <2>5, <2>6, <2>7, Zenon DEF SgTakes
  <2>9. QED
    BY <1>9, <2>1, <2>8, Zenon DEF SgInv, d
<1>18. QED
  BY <1>16, <1>17

(***************************************************************************)
(* A further chunk makes a further region.                                 *)
(***************************************************************************)
LEMMA SgTakesNext ==
  ASSUME NEW b \in Buffers, NEW i \in 1 .. Len(b.chunks), NEW a, a = SgScan(b)[i - 1],
         SgTakes(b, a, i - 1), ~a.done, a.regions # << >>
  PROVE  SgInv(b, i)
<1> DEFINE d == SgScan(b)[i]
           c == b.chunks[i]
           o == RegionsBefore(a, c)
           r == TakenRegion(a, c)
           L == Len(a.regions)
           T == Total(b, i - 1)
           U == Total(b, i)
           P == PagesTo(b)[i - 1]
           Q == PagesTo(b)[i]
           e == SgExpand(b, a)
           f == SgExpand(b, d)
           x == T - b.off
<1>1. a \in SgAcc /\ c \in Chunk /\ d = SgStep(a, c) /\ Run(Q, T, c.n, c.pfn)
  BY SgFacts, Zenon
<1>2. \A k \in 1 .. T : Q[k] = P[k]
  BY SgFacts, Zenon
<1>3. /\ T \in Nat /\ U \in Nat /\ c.n \in Nat /\ c.n > 0 /\ c.pfn \in Nat
         /\ b.off \in Nat
      /\ b.count \in Nat /\ U = T + c.n
  <2>1. /\ T \in Nat /\ U \in Nat /\ c.n \in Nat \ {0} /\ c.pfn \in Nat /\ b.off \in Nat
        /\ b.count \in Nat \ {0} /\ U = T + c.n
    BY SgFacts, Zenon
  <2>2. QED
    BY <2>1
<1>4. a.off = 0 /\ T > b.off /\ a.left = b.count - x /\ a.left > 0 /\ L <= x
  BY DEF SgTakes
<1>30. /\ SgShows(b, a, i - 1, x)
       /\ StartsAChunk(b) /\ e[L].ok => a.pre = e[L - 1].pfn + a.regions[L].size - 1
  BY DEF SgTakes
<1>5. L \in Nat \ {0} /\ L >= 1
  BY <1>1 DEF SgAcc
<1>6. x \in Nat /\ b.off + x = T
  BY <1>3, <1>4
<1>7. /\ d.off = 0 /\ d.left = a.left - (c.n - a.off)
      /\ d.first = IF Len(a.regions) = 0 THEN c.pfn + a.off ELSE a.first
      /\ d.pre = c.pfn + (c.n - a.off) - 1 /\ d.regions = Append(o, r)
      /\ d.done = (c.n - a.off >= a.left)
      /\ r \in Region /\ r.size = TakenPages(a, c)
  <2>1. a \in SgAcc /\ c \in Chunk /\ ~a.done /\ a.off < c.n
    BY <1>1, <1>3, <1>4
  <2> HIDE DEF d
  <2>2. QED
    BY <1>1, <2>1, SgStepTakes
<1>8. /\ o \in Seq(Region) /\ Len(o) = L
      /\ \A j \in 1 .. L - 1 : o[j] = a.regions[j]
      /\ o[L].size = a.regions[L].size /\ o[L].space = c.pfn - a.pre - 1
  <2>1. L = Len(a.regions) /\ a \in SgAcc /\ c \in Chunk
    BY <1>1
  <2> HIDE DEF L, c, d, e, f, P, Q, T, U, x
  <2>2. QED
    BY <1>5, <2>1, RegionsBeforeAre
<1>9. SgTable(a) \in Table /\ SgTable(a).first = a.first
        /\ SgTable(a).regions = a.regions
  BY <1>1 DEF SgTable, Table, SgAcc
<1>10. d.first = a.first
  BY <1>5, <1>7
<1> HIDE DEF c, r, o, d, T, U, P, Q, x
<1>11. d.off = 0 /\ d.left = a.left - c.n /\ d.pre = c.pfn + c.n - 1
         /\ d.done = (c.n >= a.left)
  BY <1>3, <1>4, <1>7
<1>12. r.size = IF c.n >= a.left THEN a.left ELSE c.n
  <2>1. r.size = IF c.n - 0 >= a.left THEN a.left ELSE c.n - 0
    BY <1>4, <1>7, Zenon DEF TakenPages
  <2>2. c.n - 0 = c.n
    BY <1>3
  <2>3. QED
    BY <2>1, <2>2, Zenon
<1>31. a.left \in Int
  BY <1>1 DEF SgAcc
<1>13. r.size \in Nat /\ r.size <= c.n - 0 /\ r.size >= 1
  <2>1. CASE c.n >= a.left
    BY <1>3, <1>4, <1>12, <1>31, <2>1
  <2>2. CASE ~(c.n >= a.left)
    BY <1>3, <1>4, <1>12, <1>31, <2>2
  <2>3. QED
    BY <2>1, <2>2
<1>14. Len(d.regions) = L + 1 /\ d.regions[L + 1] = r /\ d.regions # << >>
  <2>1. d.regions = Append(o, r) /\ o \in Seq(Region) /\ Len(o) = L /\ L \in Nat \ {0}
    BY <1>5, <1>7, <1>8, Zenon
  <2> HIDE DEF L
  <2>2. QED
    BY <2>1
\* the expansion of the longer table
<1>15. SgTable(d) = [first |-> a.first, regions |-> Append(o, r)]
  BY <1>7, <1>10, Zenon DEF SgTable
<1>16. /\ f[L].ok = e[L].ok /\ f[L].pages = e[L].pages
       /\ e[L].ok => f[L].pfn = e[L - 1].pfn + o[L].size + o[L].space
       /\ f[L] \in RegAcc /\ f[L + 1] = RegionStep(f[L], r, b.count)
  <2>1. L = Len(SgTable(a).regions) /\ L = Len(o)
        /\ \A j \in 1 .. L - 1 : o[j] = SgTable(a).regions[j]
    BY <1>8, <1>9, Zenon
  <2>2. o[L].size = SgTable(a).regions[L].size
    BY <1>8, <1>9, Zenon
  <2>3. b.count \in Nat /\ o \in Seq(Region) /\ r \in Region /\ SgTable(a) \in Table
        /\ L \in Nat \ {0}
    BY <1>3, <1>5, <1>7, <1>8, <1>9, Zenon
  <2>4. SgTable(d) = [first |-> SgTable(a).first, regions |-> Append(o, r)]
    BY <1>9, <1>15, Zenon
  <2> HIDE DEF L
  <2> HIDE DEF e, f
  <2> DEFINE t == SgTable(a)
             m == b.count
             u == SgTable(d)
             ee == RegionScan(t, m)
             ff == RegionScan(u, m)
  <2>5. /\ t \in Table /\ m \in Nat /\ o \in Seq(Region) /\ r \in Region
           /\ L \in Nat \ {0}
        /\ L = Len(t.regions) /\ L = Len(o)
        /\ \A j \in 1 .. L - 1 : o[j] = t.regions[j]
        /\ o[L].size = t.regions[L].size
        /\ u = [first |-> t.first, regions |-> Append(o, r)]
    BY <2>1, <2>2, <2>3, <2>4, Zenon
  <2>8. Longer(t, u, o, r, L)
    BY <2>5, Zenon DEF Longer
  <2>9. t \in Table /\ m \in Nat /\ o \in Seq(Region) /\ r \in Region /\ L \in Nat \ {0}
    BY <2>5, Zenon
  <2> HIDE DEF t, m, u
  <2>6. /\ ff[L].ok = ee[L].ok /\ ff[L].pages = ee[L].pages
        /\ ee[L].ok => ff[L].pfn = ee[L - 1].pfn + o[L].size + o[L].space
        /\ ff[L] \in RegAcc /\ ff[L + 1] = RegionStep(ff[L], r, m)
    BY <2>8, <2>9, RegionAppend
  <2>7. QED
    BY <2>6, Zenon DEF e, f, t, u, m, SgExpand
<1>17. f[L + 1].ok => f[L].ok /\ e[L].ok
  BY <1>3, <1>7, <1>16, RegionStepOk
<1>18. StartsAChunk(b) /\ e[L].ok => f[L].pfn = c.pfn
  <2> SUFFICES ASSUME StartsAChunk(b), e[L].ok  PROVE f[L].pfn = c.pfn
    OBVIOUS
  <2>1. a.pre = e[L - 1].pfn + a.regions[L].size - 1
    BY <1>30
  <2>2. f[L].pfn = e[L - 1].pfn + a.regions[L].size + (c.pfn - a.pre - 1)
    BY <1>8, <1>16, Zenon
  <2>5. c.pfn \in Int
    BY <1>3
  <2>3. e[L - 1].pfn \in Int /\ a.regions[L].size \in Int /\ a.pre \in Int
    <3>1. L - 1 \in 0 .. Len(SgTable(a).regions) /\ b.count \in Nat
      BY <1>3, <1>5, <1>9
    <3>2. e[L - 1] \in RegAcc
      BY <1>9, <3>1, RegionScanRec DEF SgExpand
    <3>3. L \in 1 .. Len(a.regions) /\ a.regions \in Seq(Region) /\ a.pre \in Int
      BY <1>1, <1>5 DEF SgAcc
    <3>4. a.regions[L] \in Region
      BY <3>3, ElementIn
    <3>5. QED
      BY <3>2, <3>3, <3>4 DEF RegAcc, Region
  <2> HIDE DEF e, f, L
  <2> DEFINE y == e[L - 1].pfn
             z == a.regions[L].size
             w == a.pre
             v == c.pfn
  <2>6. y \in Int /\ z \in Int /\ w \in Int /\ v \in Int /\ w = y + z - 1
        /\ f[L].pfn = y + z + (v - w - 1)
    BY <2>1, <2>2, <2>3, <2>5
  <2> HIDE DEF y, z, w, v
  <2>7. f[L].pfn = v
    BY <2>6
  <2>4. QED
    BY <2>7 DEF v
<1> HIDE DEF e, f, L
<1>19. L + 1 # 1 /\ L + 1 - 1 = L
  BY <1>5
<1>20. SgShows(b, d, i, x + r.size)
  <2> SUFFICES ASSUME StartsAChunk(b), f[L + 1].ok
               PROVE  Slice(f[L + 1].pages, Q, b.off, x + r.size)
    BY <1>14, <1>19 DEF SgShows, f, Q
  <2>1. Slice(e[L].pages, P, b.off, x)
    BY <1>30, <1>17 DEF SgShows, e, L, P
  <2>2. Slice(f[L].pages, Q, b.off, x)
    <3>1. Slice(e[L].pages, Q, b.off, x)
      BY <1>2, <1>3, <1>6, <2>1, SliceLonger
    <3>2. QED
      BY <1>16, <3>1, Zenon
  <2>3. Run(Q, b.off + x, r.size, f[L].pfn)
    <3>1. Run(Q, T + 0, r.size, c.pfn + 0)
      <4>1. Run(Q, T, c.n, c.pfn)
        BY <1>1 DEF c, T, Q
      <4>2. r.size \in Int
        BY <1>13
      <4>3. QED
        BY <1>3, <1>13, <4>1, <4>2, PartOfRun, 0 \in Nat
    <3>2. T + 0 = T /\ c.pfn + 0 = c.pfn
      BY <1>3
    <3>3. Run(Q, T, r.size, c.pfn)
      BY <3>1, <3>2, Zenon
    <3>4. QED
      BY <1>6, <1>17, <1>18, <3>3, Zenon
  <2>4. RegionStep(f[L], r, b.count).ok
    BY <1>16, Zenon
  <2>5. Slice(RegionStep(f[L], r, b.count).pages, Q, b.off, x + r.size)
    BY <1>3, <1>6, <1>7, <1>16, <2>2, <2>3, <2>4, SliceStep
  <2>6. QED
    BY <1>16, <2>5, Zenon
<1> DEFINE n == c.n
           al == a.left
           of == b.off
           m == b.count
<1>32. /\ n \in Nat /\ al \in Int /\ of \in Nat /\ m \in Nat /\ T \in Nat /\ U \in Nat
       /\ x \in Nat /\ L \in Nat \ {0} /\ U = T + n /\ of + x = T /\ n > 0
  BY <1>3, <1>5, <1>6, <1>31
<1>33. al = m - x /\ al > 0 /\ L <= x /\ d.left = al - n
  BY <1>4, <1>11, Zenon
<1> HIDE DEF n, al, of, m
<1>34. x + n = U - of /\ U > of /\ L + 1 <= U - of
  BY <1>32, <1>33
<1>35. al - n = m - (U - of) /\ x + al = m /\ L + 1 >= 1
  BY <1>32, <1>33
<1>36. n >= al => U >= of + m /\ L + 1 <= m
  BY <1>32, <1>33
<1>37. ~(n >= al) => al - n > 0
  BY <1>32
<1>21. CASE c.n >= a.left
  <2>1. r.size = a.left /\ d.done
    BY <1>11, <1>12, <1>21, Zenon
  <2>2. x + a.left = b.count /\ U >= b.off + b.count /\ L + 1 <= b.count /\ L + 1 >= 1
    BY <1>21, <1>35, <1>36, Zenon DEF n, al, of, m
  <2>3. SgShows(b, d, i, b.count)
    BY <1>20, <2>1, <2>2, Zenon
  <2>4. SgEnds(b, d, i)
    BY <1>14, <2>2, <2>3, Zenon DEF SgEnds, U
  <2>5. QED
    BY <2>1, <2>4, Zenon DEF SgInv, d
<1>22. CASE ~(c.n >= a.left)
  <2>1. r.size = c.n /\ ~d.done
    BY <1>11, <1>12, <1>22, Zenon
  <2>2. /\ x + c.n = U - b.off /\ U > b.off /\ d.left = b.count - (U - b.off)
           /\ d.left > 0
        /\ L + 1 <= U - b.off
    BY <1>22, <1>33, <1>34, <1>35, <1>37, Zenon DEF n, al, of, m
  <2>3. SgShows(b, d, i, U - b.off)
    BY <1>20, <2>1, <2>2, Zenon
  <2>4. StartsAChunk(b) /\ f[L + 1].ok => d.pre = f[L].pfn + r.size - 1
    BY <1>11, <1>17, <1>18, <2>1, Zenon
  <2>5. SgTakes(b, d, i)
    <3>1. /\ d.off = 0 /\ Total(b, i) > b.off
          /\ d.left = b.count - (Total(b, i) - b.off) /\ d.left > 0
          /\ L + 1 <= Total(b, i) - b.off
          /\ SgShows(b, d, i, Total(b, i) - b.off)
      BY <1>11, <2>2, <2>3, Zenon DEF U
    <3>2. StartsAChunk(b) /\ SgExpand(b, d)[L + 1].ok =>
            d.pre = SgExpand(b, d)[L + 1 - 1].pfn + d.regions[L + 1].size - 1
      BY <1>14, <1>19, <2>4, Zenon DEF f
    <3>3. Len(d.regions) = L + 1
      BY <1>14, Zenon
    <3>5. Len(d.regions) - 1 = L + 1 - 1
      BY <1>5, <3>3 DEF L
    <3>6. StartsAChunk(b) /\ SgExpand(b, d)[Len(d.regions)].ok =>
            d.pre = SgExpand(b, d)[Len(d.regions) - 1].pfn
                    + d.regions[Len(d.regions)].size - 1
      BY <3>2, <3>3, <3>5, Zenon
    <3>7. Len(d.regions) <= Total(b, i) - b.off
      BY <3>1, <3>3, Zenon
    <3>4. QED
      BY <3>1, <3>6, <3>7, Zenon DEF SgTakes
  <2>6. QED
    BY <1>14, <2>1, <2>5, Zenon DEF SgInv, d
<1>23. QED
  BY <1>21, <1>22

(***************************************************************************)
(* So it is for every entry of the scatterlist.                            *)
(***************************************************************************)
LEMMA SgInvAll ==
  ASSUME NEW b \in Buffers
  PROVE  \A i \in 0 .. Len(b.chunks) : SgInv(b, i)
<1> DEFINE N == Len(b.chunks)
           T == {i \in 0 .. N : SgInv(b, i)}
<1>1. N \in Nat
  BY BuffersAssumption
<1>2. SgInv(b, 0)
  <2>1. SgScan(b)[0] = SgStart(b) /\ PagesTo(b)[0] = << >>
    BY SgScanRec, PagesToRec
  <2>2. SgScan(b)[0].done = FALSE /\ SgScan(b)[0].regions = << >>
        /\ SgScan(b)[0].off = b.off /\ SgScan(b)[0].left = b.count
    BY <2>1 DEF SgStart
  <2>3. Total(b, 0) = 0 /\ b.off \in Nat
    BY <2>1, BuffersAssumption DEF Total
  <2>4. b.off - Total(b, 0) = b.off
    BY <2>3
  <2>5. QED
    BY <2>2, <2>4 DEF SgInv, SgSkips
<1>3. ASSUME NEW i \in 0 + 1 .. N, i - 1 \in T  PROVE  i \in T
  <2>1. i \in 1 .. N /\ i \in 0 .. N
    BY <1>1
  <2>2. SgInv(b, i - 1)
    BY <1>3
  <2> HIDE DEF T, N
  <2> DEFINE a == SgScan(b)[i - 1]
             c == b.chunks[i]
  <2>3. a \in SgAcc /\ c.n \in Nat \ {0}
    BY <2>1, SgFacts, Zenon DEF N
  <2>4. a.off \in Nat /\ c.n > 0
    BY <2>3 DEF SgAcc
  <2> SUFFICES SgInv(b, i)
    BY <2>1 DEF T
  <2>5. CASE a.done
    BY <2>1, <2>2, <2>5, SgStays DEF N
  <2>6. CASE ~a.done /\ a.off >= c.n
    BY <2>1, <2>2, <2>6, SgSkipsOne DEF N
  <2>7. CASE ~a.done /\ ~(a.off >= c.n) /\ a.regions = << >>
    <3>1. SgSkips(b, a, i - 1)
      BY <2>2, <2>7 DEF SgInv
    <3>2. a.off < c.n
      BY <2>3, <2>4, <2>7
    <3>3. QED
      BY <2>1, <2>7, <3>1, <3>2, SgTakesFirst DEF N
  <2>8. CASE ~a.done /\ a.regions # << >>
    <3>1. SgTakes(b, a, i - 1)
      BY <2>2, <2>8 DEF SgInv
    <3>2. QED
      BY <2>1, <2>8, <3>1, SgTakesNext DEF N
  <2>9. QED
    BY <2>5, <2>6, <2>7, <2>8
<1> HIDE DEF T
<1>4. 0 \in T
  BY <1>1, <1>2 DEF T
<1>5. 0 .. N \subseteq T
  BY <1>1, <1>3, <1>4, UpTo, 0 \in Nat
<1>6. QED
  BY <1>5 DEF T
-----------------------------------------------------------------------------
(* The table of a list of pages *)

OneMore(t, r, u) == u = [first |-> t.first, regions |-> Append(t.regions, r)]

(***************************************************************************)
(* A table with one region more expands to the same and then that region.  *)
(***************************************************************************)
LEMMA RegionMore ==
  ASSUME NEW t \in Table, NEW r \in Region, NEW m \in Nat,
    NEW k \in Nat, k = Len(t.regions),
         NEW u, OneMore(t, r, u)
  PROVE  /\ u \in Table /\ Len(u.regions) = k + 1
         /\ RegionScan(t, m)[k] \in RegAcc
         /\ RegionScan(u, m)[k + 1] = RegionStep(RegionScan(t, m)[k], r, m)
<1> DEFINE e == RegionScan(t, m)
           f == RegionScan(u, m)
           R == t.regions
<1>1. t.first \in Int /\ R \in Seq(Region) /\ k = Len(R)
  BY DEF Table
<1>2. u.regions = Append(R, r) /\ u.first = t.first
      /\ u = [first |-> t.first, regions |-> Append(R, r)]
  BY DEF OneMore
<1>3. u \in Table
  <2>1. Append(R, r) \in Seq(Region)
    BY <1>1
  <2> HIDE DEF R
  <2>2. QED
    BY <1>1, <1>2, <2>1 DEF Table
<1> HIDE DEF R
<1>4. /\ Len(u.regions) = k + 1 /\ u.regions[k + 1] = r
      /\ \A j \in 1 .. k : u.regions[j] = R[j]
  BY <1>1, <1>2
<1>5. k <= Len(t.regions) /\ k <= Len(u.regions)
        /\ \A j \in 1 .. k : t.regions[j] = u.regions[j]
  BY <1>1, <1>4 DEF R
<1>6. e[k] = f[k]
  BY <1>2, <1>3, <1>5, RegionPrefix
<1>7. e \in [0 .. Len(t.regions) -> RegAcc]
  BY RegionScanRec, Zenon
<1>8. \A i \in 1 .. Len(u.regions) : f[i] = RegionStep(f[i - 1], u.regions[i], m)
  BY <1>3, RegionScanRec, Zenon
<1> HIDE DEF e, f
<1>9. e[k] \in RegAcc
  BY <1>7
<1>10. f[k + 1] = RegionStep(f[k + 1 - 1], u.regions[k + 1], m)
  BY <1>4, <1>8
<1>11. k + 1 - 1 = k
  OBVIOUS
<1>12. f[k + 1] = RegionStep(e[k], r, m)
  BY <1>4, <1>6, <1>10, <1>11
<1>13. QED
  BY <1>3, <1>4, <1>9, <1>12 DEF e, f

(***************************************************************************)
(* Along a list of pages: the regions so far expand to the pages before    *)
(* the last run, which is still counted.                                   *)
(***************************************************************************)
PageTable(pg, a) == [first |-> pg[1], regions |-> a.regions]
PageExpand(pg, a, m) == RegionScan(PageTable(pg, a), m)[Len(a.regions)]

PageShows(pg, a, s, m) ==
  LET e == PageExpand(pg, a, m)
  IN e.ok => Slice(e.pages, pg, 0, s) /\ e.pfn = pg[s + 1]

PageInv(pg, i, m) ==
  LET a == PageScan(pg)[i]
  IN /\ Len(a.regions) + a.size <= i
     /\ Run(pg, i - a.size, a.size, pg[i - a.size + 1])
     /\ PageShows(pg, a, i - a.size, m)

(***************************************************************************)
(* The table u has the run of a, with x pages between it and the next, as  *)
(* its last region; it expands to the first j pages, and the next is y.    *)
(***************************************************************************)
RunAdded(pg, a, x, u) == OneMore(PageTable(pg, a), [size |-> a.size, space |-> x], u)

TableShows(pg, u, k, m, j, y) ==
  LET e == RegionScan(u, m)[k]
  IN e.ok => Slice(e.pages, pg, 0, j) /\ e.pfn = y

(***************************************************************************)
(* A run that the next page ends.                                          *)
(***************************************************************************)
LEMMA PageRunEnds ==
  ASSUME NEW pg \in Seq(Nat), NEW m \in Nat, NEW a \in PageAcc, NEW s \in Nat,
         NEW j, j = s + a.size, j \in 1 .. Len(pg),
         Run(pg, s, a.size, pg[s + 1]), PageShows(pg, a, s, m),
         NEW x \in Int,
         NEW u, RunAdded(pg, a, x, u)
  PROVE  /\ u \in Table /\ Len(u.regions) = Len(a.regions) + 1
         /\ TableShows(pg, u, Len(a.regions) + 1, m, j, pg[j] + 1 + x)
<1> DEFINE r == [size |-> a.size, space |-> x]
           t == PageTable(pg, a)
           k == Len(a.regions)
           e == RegionScan(t, m)[k]
           f == RegionScan(u, m)[k + 1]
           z == a.size
<1>1. /\ r \in Region /\ a.regions \in Seq(Region) /\ k \in Nat /\ z \in Nat /\ z > 0
      /\ r.size = z /\ r.space = x
  BY DEF PageAcc, Region
<1>2. pg[1] \in Nat /\ pg[s + 1] \in Nat /\ pg[j] \in Nat
  <2>1. j = s + z /\ z \in Nat /\ z > 0
    BY <1>1, Zenon
  <2> HIDE DEF z
  <2>2. 1 \in 1 .. Len(pg) /\ s + 1 \in 1 .. Len(pg)
    BY <2>1
  <2>3. QED
    BY <2>2, ElementIn
<1>3. t \in Table /\ t.first = pg[1] /\ t.regions = a.regions
  BY <1>1, <1>2 DEF PageTable, Table
<1>4. OneMore(t, r, u) /\ k = Len(t.regions)
  BY <1>3 DEF RunAdded
<1>5. PageShows(pg, a, s, m)
  OBVIOUS
<1> HIDE DEF r, t, k, z
<1>6. /\ u \in Table /\ Len(u.regions) = k + 1 /\ e \in RegAcc
      /\ f = RegionStep(e, r, m)
  <2>1. t \in Table /\ r \in Region /\ k \in Nat /\ k = Len(t.regions)
    BY <1>1, <1>3, <1>4, Zenon
  <2>2. OneMore(t, r, u)
    BY <1>4
  <2>3. QED
    BY <2>1, <2>2, RegionMore
<1>7. ASSUME f.ok  PROVE Slice(f.pages, pg, 0, j) /\ f.pfn = pg[j] + 1 + x
  <2>1. RegionStep(e, r, m).ok
    BY <1>6, <1>7
  <2>2. e.ok
    BY <1>1, <1>6, <2>1, RegionStepOk
  <2>3. f.pfn = e.pfn + z + x
    <3>1. RegionStep(e, r, m).pfn = e.pfn + r.size + r.space
      BY <1>1, <1>6, <2>1, RegionStepOk
    <3>2. QED
      BY <1>1, <1>6, <3>1, Zenon
  <2>4. Slice(e.pages, pg, 0, s) /\ e.pfn = pg[s + 1]
    BY <1>5, <2>2, Zenon DEF PageShows, PageExpand, t, k
  <2> HIDE DEF e, f
  <2>5. Slice(f.pages, pg, 0, s + r.size)
    <3>1. 0 + s = s
      OBVIOUS
    <3>2. Run(pg, s, z, pg[s + 1])
      BY DEF z
    <3>3. Run(pg, 0 + s, r.size, e.pfn)
      BY <1>1, <2>4, <3>1, <3>2, Zenon
    <3>4. Slice(RegionStep(e, r, m).pages, pg, 0, s + r.size)
      BY <1>1, <1>6, <2>1, <2>4, <3>3, SliceStep, 0 \in Nat
    <3>5. QED
      BY <1>6, <3>4, Zenon
  <2>6. s + r.size = j
    BY <1>1 DEF z
  <2>7. pg[j] = pg[s + 1] + z - 1
    <3>1. z \in 1 .. z /\ s + z = j
      BY <1>1 DEF z
    <3>2. Run(pg, s, z, pg[s + 1])
      BY DEF z
    <3>3. pg[s + z] = pg[s + 1] + z - 1
      BY <3>1, <3>2 DEF Run
    <3>4. QED
      BY <3>1, <3>3, Zenon
  <2>8. f.pfn = pg[j] + 1 + x
    <3>1. f.pfn = pg[s + 1] + z + x
      BY <2>3, <2>4, Zenon
    <3>2. QED
      BY <1>1, <1>2, <2>7, <3>1
  <2>9. QED
    BY <2>5, <2>6, <2>8, Zenon
<1>8. QED
  BY <1>6, <1>7, Zenon DEF k, TableShows

(***************************************************************************)
(* The next page of a list.                                                *)
(***************************************************************************)
LEMMA PageInvStep ==
  ASSUME NEW pg \in Seq(Nat), NEW m \in Nat,
    NEW i \in 2 .. Len(pg), PageInv(pg, i - 1, m)
  PROVE  PageInv(pg, i, m)
<1> DEFINE a == PageScan(pg)[i - 1]
           d == PageScan(pg)[i]
           s == i - 1 - a.size
           z == a.size
           L == Len(a.regions)
<1>1. i \in Nat /\ i >= 2 /\ i <= Len(pg) /\ i - 1 \in 1 .. Len(pg) /\ Len(pg) >= 1
  OBVIOUS
<1>2. a \in PageAcc /\ d = PageStep(a, pg, i)
  BY <1>1, PageScanRec
<1>3. z \in Nat /\ z > 0 /\ L \in Nat /\ a.regions \in Seq(Region)
  BY <1>2 DEF PageAcc
<1>4. Run(pg, s, z, pg[s + 1]) /\ PageShows(pg, a, s, m)
  BY DEF PageInv
<1>11. L + z <= i - 1
  BY DEF PageInv
<1> HIDE DEF a, d, s, z, L
<1>5. s \in Nat /\ s + z = i - 1
  <2>1. s = i - 1 - z
    BY DEF s, z
  <2>2. QED
    BY <1>1, <1>3, <1>11, <2>1
<1>6. pg[i] \in Nat /\ pg[i - 1] \in Nat /\ pg[s + 1] \in Nat
  <2>1. s + 1 \in 1 .. Len(pg) /\ i \in 1 .. Len(pg)
    BY <1>1, <1>3, <1>5
  <2>2. QED
    BY <1>1, <2>1, ElementIn
<1>7. pg[i - 1] = pg[s + 1] + z - 1
  <2>1. z \in 1 .. z
    BY <1>3
  <2>2. pg[s + z] = pg[s + 1] + z - 1
    BY <1>4, <2>1 DEF Run
  <2>3. QED
    BY <1>5, <2>2, Zenon
<1>8. CASE pg[i] - 1 = pg[i - 1]
  <2>1. d = [a EXCEPT !.size = a.size + 1]
    BY <1>2, <1>8 DEF PageStep
  <2>2. d.size = z + 1 /\ d.regions = a.regions
    BY <1>2, <2>1 DEF PageAcc, z
  <2>3. i - d.size = s
    BY <1>1, <1>3, <1>5, <2>2
  <2>4. Len(d.regions) + d.size <= i
    <3>1. Len(d.regions) = L /\ d.size = z + 1
      BY <2>2 DEF L
    <3>2. QED
      BY <1>1, <1>3, <1>11, <3>1
  <2>5. Run(pg, s, d.size, pg[s + 1])
    <3> SUFFICES ASSUME NEW k \in 1 .. z + 1  PROVE pg[s + k] = pg[s + 1] + k - 1
      BY <2>2 DEF Run
    <3>1. CASE k = z + 1
      <4>1. s + k = i
        BY <1>1, <1>3, <1>5, <3>1
      <4>2. pg[i] = pg[s + 1] + k - 1
        <5> DEFINE v == pg[i]
                   w == pg[i - 1]
                   y == pg[s + 1]
        <5>1. v \in Nat /\ w \in Nat /\ y \in Nat /\ w = y + z - 1 /\ v - 1 = w
          BY <1>6, <1>7, <1>8
        <5> HIDE DEF v, w, y
        <5>2. v = y + k - 1
          BY <1>3, <3>1, <5>1
        <5>3. QED
          BY <5>2 DEF v, y
      <4>3. QED
        BY <4>1, <4>2, Zenon
    <3>2. CASE k # z + 1
      <4>1. k \in 1 .. z
        BY <1>3, <3>2
      <4>2. QED
        BY <1>4, <4>1 DEF Run
    <3>3. QED
      BY <3>1, <3>2
  <2>6. PageShows(pg, d, s, m)
    BY <1>4, <2>2, Zenon DEF PageShows, PageExpand, PageTable
  <2>7. QED
    BY <2>3, <2>4, <2>5, <2>6, Zenon DEF PageInv, d
<1>9. CASE pg[i] - 1 # pg[i - 1]
  <2> DEFINE x == pg[i] - pg[i - 1] - 1
             r == [size |-> a.size, space |-> x]
             u == [first |-> pg[1], regions |-> Append(a.regions, r)]
  <2>1. d = [regions |-> Append(a.regions, r), size |-> 1]
    BY <1>2, <1>9 DEF PageStep
  <2>2. d.size = 1 /\ d.regions = Append(a.regions, r)
    BY <2>1
  <2>3. PageTable(pg, d) = u
    BY <2>2 DEF PageTable
  <2>4. x \in Int /\ pg[i - 1] + 1 + x = pg[i]
    BY <1>6
  <2>5. /\ u \in Table /\ Len(u.regions) = L + 1
        /\ TableShows(pg, u, L + 1, m, i - 1, pg[i - 1] + 1 + x)
    <3> HIDE DEF x
    <3>1. i - 1 = s + a.size /\ i - 1 \in 1 .. Len(pg)
      BY <1>1, <1>5 DEF z
    <3>2. Run(pg, s, a.size, pg[s + 1]) /\ PageShows(pg, a, s, m)
      BY <1>4 DEF z
    <3>3. RunAdded(pg, a, x, u)
      BY DEF RunAdded, OneMore, PageTable
    <3> HIDE DEF u
    <3>5. x \in Int
      BY <2>4
    <3> DEFINE j == i - 1
    <3>6. j = s + a.size /\ j \in 1 .. Len(pg)
      BY <3>1
    <3>7. a \in PageAcc /\ s \in Nat
      BY <1>2, <1>5
    <3> HIDE DEF j
    <3>8. /\ u \in Table /\ Len(u.regions) = Len(a.regions) + 1
          /\ TableShows(pg, u, Len(a.regions) + 1, m, j, pg[j] + 1 + x)
      BY <3>2, <3>3, <3>5, <3>6, <3>7, PageRunEnds
    <3>9. QED
      BY <3>8, Zenon DEF L, j
  <2>6. Len(d.regions) = L + 1
    BY <2>2, <2>5
  <2> HIDE DEF x, r, u
  <2>7. PageShows(pg, d, i - 1, m)
    <3>1. PageExpand(pg, d, m) = RegionScan(u, m)[L + 1]
      BY <2>3, <2>6, Zenon DEF PageExpand
    <3>2. i - 1 + 1 = i
      BY <1>1
    <3>3. QED
      BY <2>4, <2>5, <3>1, <3>2, Zenon DEF PageShows, TableShows
  <2>8. Run(pg, i - 1, 1, pg[i - 1 + 1])
    BY <1>1, <1>6 DEF Run
  <2>9. Len(d.regions) + d.size <= i
    BY <1>1, <1>3, <1>11, <2>2, <2>6
  <2>10. QED
    BY <2>2, <2>7, <2>8, <2>9, Zenon DEF PageInv, d
<1>10. QED
  BY <1>8, <1>9

(***************************************************************************)
(* So it is for every page of a list.                                      *)
(***************************************************************************)
LEMMA PageInvAll ==
  ASSUME NEW pg \in Seq(Nat), Len(pg) >= 1, NEW m \in Nat
  PROVE  \A i \in 1 .. Len(pg) : PageInv(pg, i, m)
<1> DEFINE N == Len(pg)
           T == {i \in 1 .. N : PageInv(pg, i, m)}
<1>1. N \in Nat /\ N >= 1
  OBVIOUS
<1>2. PageInv(pg, 1, m)
  <2> DEFINE a == PageScan(pg)[1]
             t == PageTable(pg, a)
  <2>1. a = PageStart
    BY PageScanRec
  <2>2. a.regions = << >> /\ a.size = 1 /\ Len(a.regions) = 0
    BY <2>1 DEF PageStart
  <2>3. pg[1] \in Nat
    BY <1>1
  <2>4. << >> \in Seq(Region)
    OBVIOUS
  <2>5. t \in Table /\ t.first = pg[1]
    BY <2>2, <2>3, <2>4 DEF PageTable, Table
  <2>6. PageExpand(pg, a, m) = RegionStart(t)
    BY <2>2, <2>5, RegionScanRec DEF PageExpand
  <2> HIDE DEF t
  <2>7. PageExpand(pg, a, m).pages = << >> /\ PageExpand(pg, a, m).pfn = pg[1]
    BY <2>5, <2>6 DEF RegionStart
  <2> HIDE DEF a
  <2>8. PageShows(pg, a, 0, m)
    BY <2>7 DEF PageShows, Slice
  <2>9. Run(pg, 0, 1, pg[0 + 1])
    BY <2>3 DEF Run
  <2>10. 1 - a.size = 0 /\ Len(a.regions) + a.size <= 1
    BY <2>2
  <2>11. QED
    BY <2>2, <2>8, <2>9, <2>10, Zenon DEF PageInv, a
<1>3. ASSUME NEW i \in 1 + 1 .. N, i - 1 \in T  PROVE  i \in T
  <2>1. i \in 2 .. N /\ i \in 1 .. N
    BY <1>1
  <2>2. QED
    BY <1>3, <2>1, PageInvStep
<1> HIDE DEF T
<1>4. 1 \in T
  BY <1>1, <1>2 DEF T
<1>5. 1 .. N \subseteq T
  BY <1>1, <1>3, <1>4, UpTo, 1 \in Nat
<1>6. QED
  BY <1>5 DEF T
-----------------------------------------------------------------------------
(* Tables and buffers *)

(***************************************************************************)
(* The pages of a buffer are those up to its last chunk.                   *)
(***************************************************************************)
LEMMA AllPagesAre ==
  ASSUME NEW b \in Buffers
  PROVE  AllPages(b) \in Seq(Nat) /\ Len(AllPages(b)) = Total(b, Len(b.chunks))
<1>1. Len(b.chunks) \in 0 .. Len(b.chunks)
  BY BuffersAssumption
<1>2. QED
  BY <1>1, PagesToRec DEF AllPages, Total

(***************************************************************************)
(* HAB's own list of pages has one page for each chunk, from the first on. *)
(***************************************************************************)
LEMMA OwnPagesCount ==
  ASSUME NEW b \in Buffers, OwnPages(b)
  PROVE  b.off = 0 /\ b.count \in Nat \ {0} /\ Len(AllPages(b)) = b.count
<1> DEFINE N == Len(b.chunks)
           T == {i \in 0 .. N : Total(b, i) = i}
<1>1. /\ b.off = 0 /\ b.count \in Nat \ {0} /\ N = b.count /\ N \in Nat
      /\ \A i \in 1 .. N : b.chunks[i].n = 1
  <2>1. /\ b.how \in {"uva", "kva"} /\ b.chunks \in Seq([pfn : Nat, n : Nat \ {0}])
        /\ b.count \in Nat \ {0}
        /\ b.how # "va" => b.off = 0
        /\ b.how \in {"uva", "kva"} =>
             Len(b.chunks) = b.count /\ \A i \in DOMAIN b.chunks : b.chunks[i].n = 1
    BY BuffersAssumption DEF OwnPages
  <2>2. DOMAIN b.chunks = 1 .. N
    BY <2>1
  <2>3. QED
    BY <2>1, <2>2
<1>2. 0 \in T
  <2>2. PagesTo(b)[0] = << >>
    BY PagesToRec, Zenon
  <2>1. Total(b, 0) = 0
    BY <2>2 DEF Total
  <2>3. QED
    BY <1>1, <2>1
<1>3. ASSUME NEW i \in 0 + 1 .. N, i - 1 \in T  PROVE  i \in T
  <2>1. i \in 1 .. N /\ i \in 0 .. N
    BY <1>1
  <2>2. Total(b, i) = Total(b, i - 1) + b.chunks[i].n
    BY <2>1, SgFacts, Zenon
  <2>3. b.chunks[i].n = 1 /\ Total(b, i - 1) = i - 1
    BY <1>1, <1>3, <2>1
  <2>4. Total(b, i) = i
    BY <2>1, <2>2, <2>3
  <2>5. QED
    BY <2>1, <2>4
<1> HIDE DEF T
<1>4. 0 .. N \subseteq T
  BY <1>1, <1>2, <1>3, UpTo, 0 \in Nat
<1>5. Total(b, N) = N
  BY <1>1, <1>4 DEF T
<1>6. QED
  BY <1>1, <1>5, AllPagesAre

(***************************************************************************)
(* What the table of a buffer must be for an importer.                     *)
(***************************************************************************)
TableIsRight(b) ==
  LET t == Compress(b)
  IN /\ t \in Table
     /\ Len(t.regions) <= b.count
     /\ Expand(t, b.count).ok /\ (StartsAChunk(b) \/ Len(t.regions) = 1) =>
          Expand(t, b.count).pages = Wanted(b)

(***************************************************************************)
(* A slice of all pages is what the user named.                            *)
(***************************************************************************)
LEMMA SliceIsWanted ==
  ASSUME NEW b \in Buffers, NEW p \in Seq(Int), Slice(p, AllPages(b), b.off, b.count),
         b.off + b.count <= Len(AllPages(b))
  PROVE  p = Wanted(b)
<1>1. b.off \in Nat /\ b.count \in Nat
  BY BuffersAssumption
<1>2. QED
  BY <1>1, AllPagesAre, SliceIsSubSeq DEF Wanted

(***************************************************************************)
(* The table of a list of pages of HAB's own.                              *)
(***************************************************************************)
LEMMA OwnTable ==
  ASSUME NEW b \in Buffers, OwnPages(b)
  PROVE  TableIsRight(b)
<1> DEFINE pg == AllPages(b)
           m == b.count
           a == PageScan(pg)[m]
           t == Compress(b)
           L == Len(a.regions)
           s == m - a.size
           z == a.size
<1>1. pg \in Seq(Nat) /\ Len(pg) = m /\ m \in Nat /\ m >= 1 /\ b.off = 0
        /\ m \in 1 .. Len(pg)
  BY AllPagesAre, OwnPagesCount
<1>2. a \in PageAcc
  BY <1>1, PageScanRec
<1>3. z \in Nat /\ z > 0 /\ L \in Nat
  BY <1>2 DEF PageAcc
<1>4. PageInv(pg, m, m)
  BY <1>1, PageInvAll
<1>5. L + z <= m
  BY <1>4 DEF PageInv
<1>6. Run(pg, s, z, pg[s + 1]) /\ PageShows(pg, a, s, m)
  BY <1>4 DEF PageInv
<1>7. t = [first |-> pg[1], regions |-> Append(a.regions, [size |-> z, space |-> 0])]
  BY <1>1 DEF Compress, CompressPages
<1>8. OneMore(PageTable(pg, a), [size |-> z, space |-> 0], t)
  BY <1>7 DEF OneMore, PageTable
<1> HIDE DEF t, a, L, s, pg, m, z
<1>9. s \in Nat /\ m = s + z
  <2>1. s = m - z
    BY DEF s, z
  <2>2. QED
    BY <1>1, <1>3, <1>5, <2>1
<1>10. /\ t \in Table /\ Len(t.regions) = L + 1
       /\ LET e == RegionScan(t, m)[L + 1]
          IN e.ok => Slice(e.pages, pg, 0, m)
  <2> DEFINE x == 0
  <2>1. RunAdded(pg, a, x, t)
    BY <1>8 DEF RunAdded, z
  <2>2. Run(pg, s, a.size, pg[s + 1]) /\ m = s + a.size
    BY <1>6, <1>9 DEF z
  <2>3. x \in Int
    OBVIOUS
  <2> HIDE DEF x
  <2>4. /\ t \in Table /\ Len(t.regions) = Len(a.regions) + 1
        /\ TableShows(pg, t, Len(a.regions) + 1, m, m, pg[m] + 1 + x)
    BY <1>1, <1>2, <1>6, <1>9, <2>1, <2>2, <2>3, PageRunEnds
  <2>5. QED
    BY <2>4, Zenon DEF L, TableShows
<1>11. L + 1 <= m
  BY <1>1, <1>3, <1>5
<1>12. Expand(t, m).ok => Expand(t, m).pages = Wanted(b)
  <2> DEFINE e == RegionScan(t, m)[L + 1]
  <2>1. L + 1 \in 0 .. Len(t.regions)
    BY <1>3, <1>10
  <2>2. e \in RegAcc
    BY <1>1, <1>10, <2>1, RegionScanRec
  <2>3. Expand(t, m).pages = e.pages /\ (Expand(t, m).ok => e.ok)
    BY <1>10 DEF Expand
  <2>4. e.pages \in Seq(Int)
    BY <2>2 DEF RegAcc
  <2>5. e.ok => Slice(e.pages, pg, b.off, m)
    BY <1>1, <1>10
  <2> HIDE DEF e
  <2>6. b.off + b.count <= Len(AllPages(b))
    BY <1>1 DEF pg, m
  <2>7. e.ok => e.pages = Wanted(b)
    BY <2>4, <2>5, <2>6, SliceIsWanted DEF pg, m
  <2>8. QED
    BY <2>3, <2>7, Zenon
<1>13. QED
  BY <1>10, <1>11, <1>12, Zenon DEF TableIsRight, t, m

(***************************************************************************)
(* The table of a scatterlist.                                             *)
(***************************************************************************)
LEMMA SgTableRight ==
  ASSUME NEW b \in Buffers, ~OwnPages(b)
  PROVE  TableIsRight(b)
<1> DEFINE N == Len(b.chunks)
           a == SgScan(b)[N]
           m == b.count
           t == Compress(b)
           L == Len(a.regions)
           zero == [size |-> 0, space |-> 0]
<1>1. N \in 0 .. N /\ m \in Nat /\ m >= 1 /\ b.off \in Nat
  BY BuffersAssumption
<1>2. a \in SgAcc
  BY <1>1, SgScanRec
<1>3. SgInv(b, N)
  BY <1>1, SgInvAll
<1>4. /\ a.first \in Int /\ a.regions \in Seq(Region) /\ L \in Nat
         /\ SgTable(a) \in Table
      /\ SgTable(a).regions = a.regions /\ SgTable(a).first = a.first
  BY <1>2 DEF SgAcc, SgTable, Table
<1>5. t = [first |-> a.first,
           regions |-> IF a.done THEN a.regions ELSE Append(a.regions, zero)]
  BY DEF Compress, CompressSg
<1> HIDE DEF t, a, L, m, zero
<1>6. CASE a.done
  <2>1. SgEnds(b, a, N)
    BY <1>3, <1>6 DEF SgInv, a
  <2>2. t = SgTable(a)
    BY <1>5, <1>6 DEF SgTable
  <2>3. t \in Table /\ Len(t.regions) = L /\ L <= m
    BY <1>4, <2>1, <2>2 DEF SgEnds, L, m
  <2>4. b.off + b.count <= Len(AllPages(b))
    <3>1. Total(b, N) >= b.off + b.count
      BY <2>1 DEF SgEnds
    <3>2. Len(AllPages(b)) = Total(b, N) /\ Len(AllPages(b)) \in Nat
      BY AllPagesAre
    <3> HIDE DEF N
    <3>3. QED
      BY <1>1, <3>1, <3>2 DEF m
  <2>5. ASSUME Expand(t, m).ok, StartsAChunk(b) \/ Len(t.regions) = 1
        PROVE  Expand(t, m).pages = Wanted(b)
    <3> DEFINE e == SgExpand(b, a)[L]
    <3>1. Expand(t, m).pages = e.pages /\ e.ok
      BY <2>2, <2>3, <2>5 DEF Expand, SgExpand, m
    <3>2. e \in RegAcc
      <4>1. L \in 0 .. Len(t.regions)
        BY <1>4, <2>3
      <4>2. RegionScan(t, m)[L] \in RegAcc
        BY <1>1, <2>3, <4>1, RegionScanRec
      <4>3. QED
        BY <2>2, <4>2 DEF SgExpand, m
    <3>3. e.pages \in Seq(Int)
      BY <3>2 DEF RegAcc
    <3>4. Slice(e.pages, AllPages(b), b.off, b.count)
      BY <2>1, <2>3, <2>5, <3>1 DEF SgEnds, SgShows, AllPages, L
    <3> HIDE DEF e
    <3>5. e.pages = Wanted(b)
      BY <2>4, <3>3, <3>4, SliceIsWanted
    <3>6. QED
      BY <3>1, <3>5, Zenon
  <2>6. QED
    BY <2>3, <2>5, Zenon DEF TableIsRight, t, m
<1>7. CASE ~a.done
  <2>1. zero \in Region /\ zero.size = 0
    BY DEF zero, Region
  <2>2. OneMore(SgTable(a), zero, t)
    BY <1>4, <1>5, <1>7 DEF OneMore
  <2>3. /\ t \in Table /\ Len(t.regions) = L + 1
        /\ RegionScan(t, m)[L + 1] = RegionStep(RegionScan(SgTable(a), m)[L], zero, m)
        /\ RegionScan(SgTable(a), m)[L] \in RegAcc
    <3>1. L = Len(SgTable(a).regions)
      BY <1>4 DEF L
    <3>2. QED
      BY <1>1, <1>4, <2>1, <2>2, <3>1, RegionMore
  <2>4. ~RegionScan(t, m)[L + 1].ok
    <3> DEFINE e == RegionScan(SgTable(a), m)[L]
    <3>1. RegionStep(e, zero, m) = [e EXCEPT !.ok = FALSE]
      BY <2>1 DEF RegionStep
    <3>2. e \in RegAcc
      BY <2>3
    <3> HIDE DEF e
    <3>3. RegionStep(e, zero, m).ok = FALSE
      BY <3>1, <3>2 DEF RegAcc
    <3>4. QED
      BY <2>3, <3>3 DEF e
  <2>5. ~Expand(t, m).ok
    BY <2>3, <2>4 DEF Expand
  <2>6. L + 1 <= m
    <3>1. CASE a.regions = << >>
      BY <1>1, <3>1 DEF L
    <3>2. CASE a.regions # << >>
      <4>1. SgTakes(b, a, N)
        BY <1>3, <1>7, <3>2 DEF SgInv, a
      <4>2. L <= Total(b, N) - b.off /\ a.left = m - (Total(b, N) - b.off) /\ a.left > 0
        BY <4>1 DEF SgTakes, L, m
      <4>3. Total(b, N) \in Nat
        BY AllPagesAre
      <4> HIDE DEF N
      <4>4. QED
        BY <1>1, <1>4, <4>2, <4>3
    <3>3. QED
      BY <3>1, <3>2
  <2>7. QED
    BY <2>3, <2>5, <2>6, Zenon DEF TableIsRight, t, m
<1>8. QED
  BY <1>6, <1>7

(***************************************************************************)
(* Every buffer has a table that fits and that says which pages it has.    *)
(***************************************************************************)
THEOREM TablesAreRight == \A b \in Buffers : TableIsRight(b)
BY OwnTable, SgTableRight
-----------------------------------------------------------------------------
(* The table and the list of pages while they are in use *)

(***************************************************************************)
(* The table is the one of the exported buffer, from habmem_compress_pfns  *)
(* on, and the list of pages is what pages_list_create made of it.         *)
(***************************************************************************)
DataInv ==
  /\ src \in Buffers
  /\ table \in {NoTable, Compress(src)}
  /\ ep = "exported" => table = Compress(src)
  /\ pgl \in {"alloc", "listed"} =>
       /\ ep \in {"exported", "released"} /\ table = Compress(src)
       /\ Expand(table, src.count).ok /\ pages = Expand(table, src.count).pages

(***************************************************************************)
(* No step of either side changes a table or a list that is in use.        *)
(***************************************************************************)
LEMMA DataStep == MemInv /\ DataInv /\ [Next]_vars => DataInv'
<1> SUFFICES ASSUME MemInv, DataInv, [Next]_vars PROVE DataInv'
  OBVIOUS
<1>1. CASE Grant \/ AddExport \/ AllocPlatformData \/ DmaBufAttach \/ DmaBufMapAttachment
  <2>1. /\ UNCHANGED <<src, table, pages, pgl>> /\ ep' # "exported"
        /\ ep \in {"idle", "add", "platform", "attach", "map"}
    BY <1>1 DEF Grant, AddExport, AllocPlatformData, DmaBufAttach, DmaBufMapAttachment,
       Undo, impVars
  <2>2. pgl \notin {"alloc", "listed"}
    BY <2>1 DEF DataInv
  <2> QED
    BY <2>1, <2>2 DEF DataInv
<1>2. CASE CompressPfns
  <2>1. UNCHANGED <<src, pages, pgl>> /\ table' = Compress(src) /\ ep = "compress"
    BY <1>2 DEF CompressPfns, impVars
  <2>2. pgl \notin {"alloc", "listed"}
    BY <2>1 DEF DataInv
  <2> QED
    BY <2>1, <2>2 DEF DataInv
<1>3. CASE ExpRelease
  <2>1. UNCHANGED <<src, table, pages, pgl>> /\ ep' = "released"
    BY <1>3 DEF ExpRelease, impVars
  <2> QED
    BY <2>1 DEF DataInv
<1>4. CASE PagesListCreate
  <2>1. UNCHANGED <<ep, src, table>> /\ ep = "exported"
    BY <1>4 DEF PagesListCreate, expVars
  <2>2. \/ /\ Expand(table, src.count).ok
           /\ pages' = Expand(table, src.count).pages
        \/ UNCHANGED <<pages, pgl>>
    BY <1>4 DEF PagesListCreate
  <2> QED
    BY <2>1, <2>2 DEF DataInv
<1>5. CASE PagesListAdd
  <2>1. UNCHANGED <<ep, src, table, pages>> /\ pgl = "alloc"
    BY <1>5 DEF PagesListAdd, expVars, MemInv, ImpInv
  <2> QED
    BY <2>1 DEF DataInv
<1>6. CASE \/ DmaBufExport \/ DmaBufFd \/ Unmap
           \/ \E n \in 1 .. MaxMap : Mmap(n)
           \/ Munmap
  <2>1. UNCHANGED <<ep, src, table, pages>> /\ (UNCHANGED pgl \/ pgl' = "freed")
    BY <1>6 DEF DmaBufExport, DmaBufFd, Unmap, Mmap, Munmap, DmaBufPut, PagesListDestroy,
       expVars
  <2> QED
    BY <2>1 DEF DataInv
<1>7. CASE UNCHANGED vars
  <2>1. UNCHANGED <<ep, src, table, pages, pgl>>
    BY <1>7 DEF vars, expVars, impVars
  <2> QED
    BY <2>1 DEF DataInv
<1> QED
  BY <1>1, <1>2, <1>3, <1>4, <1>5, <1>6, <1>7 DEF Next

(***************************************************************************)
(* The importer's list of pages is made of the table of the buffer that is *)
(* exported, as long as there is one.                                      *)
(***************************************************************************)
THEOREM DataInvariant == Spec => []DataInv
<1>1. Init => DataInv
  BY DEF Init, DataInv
<1> QED
  BY <1>1, DataStep, MemInvariant, PTL DEF Spec

(***************************************************************************)
(* habmem_compress_pfns never writes behind the regions that               *)
(* habmem_add_export_compress allocated, whatever the scatterlist, the     *)
(* offset and the number of pages, also when the list ends too early.      *)
(***************************************************************************)
THEOREM TableFitsAlways == Spec => []TableFits
<1>1. DataInv => TableFits
  <2> SUFFICES ASSUME DataInv PROVE TableFits
    OBVIOUS
  <2>1. src \in Buffers /\ src.count \in Nat /\ table \in {NoTable, Compress(src)}
    BY BuffersAssumption DEF DataInv
  <2>2. CASE table = NoTable
    BY <2>1, <2>2 DEF NoTable, TableFits
  <2>3. CASE table = Compress(src)
    BY <2>1, <2>3, TablesAreRight DEF TableIsRight, TableFits
  <2> QED
    BY <2>1, <2>2, <2>3
<1> QED
  BY <1>1, DataInvariant, PTL

(***************************************************************************)
(* Compression and expansion cancel out for every buffer: a list of pages  *)
(* that pages_list_create makes is that of the exported pages, in their    *)
(* order, if the export starts with a chunk or is in one.                  *)
(***************************************************************************)
THEOREM AlignedPagesAlwaysAgree == Spec => []AlignedPagesAgree
<1>1. DataInv => AlignedPagesAgree
  <2> SUFFICES ASSUME DataInv, StartsAChunk(src) \/ Len(table.regions) = 1,
                      pgl \in {"alloc", "listed"}
               PROVE  pages = Wanted(src)
    BY DEF AlignedPagesAgree, PagesAgree
  <2>1. /\ src \in Buffers /\ table = Compress(src)
        /\ Expand(table, src.count).ok /\ pages = Expand(table, src.count).pages
    BY DEF DataInv
  <2>2. TableIsRight(src)
    BY <2>1, TablesAreRight
  <2> QED
    BY <2>1, <2>2 DEF TableIsRight
<1> QED
  BY <1>1, DataInvariant, PTL
=============================================================================
