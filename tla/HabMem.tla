-------------------------------- MODULE HabMem -------------------------------
(***************************************************************************)
(* The memory back end, hab_mem_linux.c: an exporter turns a buffer into a *)
(* table of runs of pages (struct compressed_pfns), the importer turns the *)
(* table back into a list of pages behind a dma-buf of its own.  One       *)
(* export and one import of it, memory sharing protocol 1.                 *)
(*                                                                         *)
(* When the exporter may release is decided by the protocol (HabMimex).    *)
(* The dma-buf core, get_user_pages and the page tables are the kernel's.  *)
(***************************************************************************)
EXTENDS Integers, Sequences

(***************************************************************************)
(* A buffer to export: how it is named ("uva" or "kva", for which HAB      *)
(* makes the list of pages; "fd", "dmabuf" or "va", a dma-buf of another   *)
(* driver with a scatterlist), its chunks of contiguous pages, and which   *)
(* pages are exported.  Only "va" may start inside the buffer.             *)
(***************************************************************************)
CONSTANTS
  Buffers,
  MaxMap      \* bound: pages the importer asks mmap for

ASSUME MaxMapAssumption == MaxMap \in Nat

ASSUME BuffersAssumption ==
  \A b \in Buffers :
       /\ b.how \in {"uva", "kva", "fd", "dmabuf", "va"}
       /\ b.chunks \in Seq([pfn : Nat, n : Nat \ {0}])
       /\ b.off \in Nat /\ b.count \in Nat \ {0}
       /\ b.how # "va" => b.off = 0
       /\ b.how \in {"uva", "kva"} =>
            Len(b.chunks) = b.count /\ \A i \in DOMAIN b.chunks : b.chunks[i].n = 1

VARIABLES
  ep,      \* the exporting thread
  src,     \* the buffer that is exported
  dmaRef,  \* HAB holds a reference of the exported dma-buf
  att,     \* its attachment: "none", "attached", "mapped"
  desc,    \* the export descriptor exists
  table,   \* its payload, the compressed_pfns
  ip,      \* the importing thread
  pages,   \* pglist->pages
  pgl,     \* the struct pages_list: "none", "alloc", "listed" in imp_list, "freed"
  impRef,  \* references of the importer's dma-buf
  vma      \* pages the importer has mapped

expVars == <<ep, src, dmaRef, att, desc, table>>
impVars == <<ip, pages, pgl, impRef, vma>>
vars == <<expVars, impVars>>

NoTable == [first |-> 0, regions |-> << >>]

Init ==
  /\ ep = "idle" /\ src \in Buffers
  /\ dmaRef = FALSE /\ att = "none" /\ desc = FALSE /\ table = NoTable
  /\ ip = "idle" /\ pages = << >> /\ pgl = "none" /\ impRef = 0 /\ vma = 0
-----------------------------------------------------------------------------
(* Compression and expansion *)

ChunkPages(c) == [i \in 1 .. c.n |-> c.pfn + i - 1]

(***************************************************************************)
(* The pages of the first chunks of a buffer, for every number of chunks.  *)
(***************************************************************************)
PagesTo(b) ==
  LET pg[i \in 0 .. Len(b.chunks)] ==
        IF i = 0 THEN << >> ELSE pg[i - 1] \o ChunkPages(b.chunks[i])
  IN pg

AllPages(b) == PagesTo(b)[Len(b.chunks)]
OwnPages(b) == b.how \in {"uva", "kva"}

\* Mutant: the space between two chunks is one page too large.
SgStepSpace(acc, c) ==
  IF acc.done THEN acc
  ELSE IF acc.off >= c.n THEN [acc EXCEPT !.off = @ - c.n]
  ELSE
    LET size == c.n - acc.off
        j == Len(acc.regions)
    IN [off |-> 0,
        left |-> acc.left - size,
        first |-> IF j = 0 THEN c.pfn + acc.off ELSE acc.first,
        pre |-> c.pfn + size - 1,
        regions |-> Append(IF j = 0 THEN << >>
                           ELSE [acc.regions EXCEPT ![j].space = c.pfn - acc.pre],
                           [size |-> IF size >= acc.left THEN acc.left ELSE size,
                            space |-> 0]),
        done |-> size >= acc.left]

(***************************************************************************)
(* One entry of the scatterlist.  Chunks before the offset are skipped,    *)
(* a new region also sets the space behind the one before it, and the last *)
(* one is cut to what is left.  pre is the page pre_page, counted from the *)
(* start of the chunk whatever the offset was.                             *)
(***************************************************************************)
SgStep(acc, c) ==
  IF acc.done THEN acc
  ELSE IF acc.off >= c.n THEN [acc EXCEPT !.off = @ - c.n]
  ELSE
    LET size == c.n - acc.off
        j == Len(acc.regions)
    IN [off |-> 0,
        left |-> acc.left - size,
        first |-> IF j = 0 THEN c.pfn + acc.off ELSE acc.first,
        pre |-> c.pfn + size - 1,
        regions |-> Append(IF j = 0 THEN << >>
                           ELSE [acc.regions EXCEPT ![j].space = c.pfn - acc.pre - 1],
                           [size |-> IF size >= acc.left THEN acc.left ELSE size,
                            space |-> 0]),
        done |-> size >= acc.left]

(***************************************************************************)
(* The scatterlist after each of its entries.                              *)
(***************************************************************************)
SgScan(b) ==
  LET acc[i \in 0 .. Len(b.chunks)] ==
        IF i = 0 THEN [off |-> b.off, left |-> b.count, first |-> 0, pre |-> 0,
                       regions |-> << >>, done |-> FALSE]
        ELSE SgStep(acc[i - 1], b.chunks[i])
  IN acc

\* Mutant: one region more also after a break.
CompressSgOneMore(b) ==
  LET acc == SgScan(b)[Len(b.chunks)]
  IN [first |-> acc.first, regions |-> Append(acc.regions, [size |-> 0, space |-> 0])]

(***************************************************************************)
(* When the list ends too early, nregions counts one region more, which is *)
(* still zero (vzalloc).                                                   *)
(***************************************************************************)
CompressSg(b) ==
  LET acc == SgScan(b)[Len(b.chunks)]
  IN [first |-> acc.first,
      regions |-> IF acc.done THEN acc.regions
                  ELSE Append(acc.regions, [size |-> 0, space |-> 0])]

(***************************************************************************)
(* A list of pages: a region ends where the next page is not its           *)
(* neighbour.                                                              *)
(***************************************************************************)
PageStep(acc, pg, i) ==
  IF pg[i] - 1 = pg[i - 1] THEN [acc EXCEPT !.size = @ + 1]
  ELSE [regions |-> Append(acc.regions, [size |-> acc.size,
                                         space |-> pg[i] - pg[i - 1] - 1]),
        size |-> 1]

PageScan(pg) ==
  LET acc[i \in 1 .. Len(pg)] ==
        IF i = 1 THEN [regions |-> << >>, size |-> 1] ELSE PageStep(acc[i - 1], pg, i)
  IN acc

CompressPages(pg) ==
  LET acc == PageScan(pg)[Len(pg)]
  IN [first |-> pg[1], regions |-> Append(acc.regions, [size |-> acc.size, space |-> 0])]

Compress(b) == IF OwnPages(b) THEN CompressPages(AllPages(b)) ELSE CompressSg(b)

(***************************************************************************)
(* pages_list_create: region by region, or an error.                       *)
(***************************************************************************)
RegionStep(acc, r, count) ==
  IF ~acc.ok \/ r.size <= 0 \/ Len(acc.pages) + r.size > count
  THEN [acc EXCEPT !.ok = FALSE]
  ELSE [pages |-> acc.pages \o [j \in 1 .. r.size |-> acc.pfn + j - 1],
        pfn |-> acc.pfn + r.size + r.space,
        ok |-> TRUE]

RegionScan(t, count) ==
  LET acc[i \in 0 .. Len(t.regions)] ==
        IF i = 0 THEN [pages |-> << >>, pfn |-> t.first, ok |-> TRUE]
        ELSE RegionStep(acc[i - 1], t.regions[i], count)
  IN acc

Expand(t, count) ==
  LET acc == RegionScan(t, count)[Len(t.regions)]
  IN [pages |-> acc.pages, ok |-> acc.ok /\ Len(acc.pages) = count]
-----------------------------------------------------------------------------
(* The exporter *)

(***************************************************************************)
(* habmem_hyp_grant_user and habmem_hyp_grant find the dma-buf of the      *)
(* buffer or make one of its pages.                                        *)
(***************************************************************************)
Grant ==
  /\ ep = "idle"
  /\ \/ ep' = "add" /\ dmaRef' = TRUE
     \/ ep' = "failed" /\ UNCHANGED dmaRef
  /\ UNCHANGED <<src, att, desc, table, impVars>>

(***************************************************************************)
(* habmem_add_export_compress.  After a failed kzalloc of platform_data    *)
(* the error path goes through "export", which is still NULL.              *)
(***************************************************************************)
AddExport ==
  /\ ep = "add"
  /\ \/ ep' = "platform" /\ desc' = TRUE /\ UNCHANGED dmaRef
     \/ ep' = "failed" /\ dmaRef' = FALSE /\ UNCHANGED desc
  /\ UNCHANGED <<src, att, table, impVars>>

AllocPlatformData ==
  /\ ep = "platform"
  /\ \/ ep' = IF OwnPages(src) THEN "compress" ELSE "attach"
     \/ ep' = "oops"
  /\ UNCHANGED <<src, dmaRef, att, desc, table, impVars>>

\* Mutant: the attachment is not undone.
UndoNoDetach == ep' = "failed" /\ desc' = FALSE /\ dmaRef' = FALSE /\ UNCHANGED att

(***************************************************************************)
(* The error paths of habmem_compress_pfns and of its caller.              *)
(***************************************************************************)
Undo == ep' = "failed" /\ att' = "none" /\ desc' = FALSE /\ dmaRef' = FALSE

DmaBufAttach ==
  /\ ep = "attach"
  /\ \/ ep' = "map" /\ att' = "attached" /\ UNCHANGED <<desc, dmaRef>>
     \/ Undo
  /\ UNCHANGED <<src, table, impVars>>

DmaBufMapAttachment ==
  /\ ep = "map"
  /\ \/ ep' = "compress" /\ att' = "mapped" /\ UNCHANGED <<desc, dmaRef>>
     \/ Undo
  /\ UNCHANGED <<src, table, impVars>>

CompressPfns ==
  /\ ep = "compress"
  /\ table' = Compress(src)
  /\ ep' = "exported"
  /\ UNCHANGED <<src, dmaRef, att, desc, impVars>>

(***************************************************************************)
(* habmem_exp_release, when the protocol knows of no import.               *)
(***************************************************************************)
ExpRelease ==
  /\ ep = "exported" /\ ip \in {"idle", "failed", "done"}
  /\ ep' = "released"
  /\ att' = "none" /\ desc' = FALSE /\ dmaRef' = FALSE
  /\ UNCHANGED <<src, table, impVars>>
-----------------------------------------------------------------------------
(* The importer *)

(***************************************************************************)
(* pages_list_put of the last reference: pages_list_destroy takes the list *)
(* out of imp_list and frees it.                                           *)
(***************************************************************************)
PagesListDestroy == pgl' = "freed"

\* Mutant: the list of pages goes with the first reference.
DmaBufPutFirst == impRef' = impRef - 1 /\ PagesListDestroy

(***************************************************************************)
(* dma_buf_put: the last one calls hab_mem_dma_buf_release.                *)
(***************************************************************************)
DmaBufPut ==
  /\ impRef' = impRef - 1
  /\ \/ impRef > 1 /\ UNCHANGED pgl
     \/ impRef <= 1 /\ PagesListDestroy

(***************************************************************************)
(* habmem_imp_hyp_map and habmem_import_to_dma_buf.  The list of pages is  *)
(* not made if the table is not consistent, its first page is not valid or *)
(* there is no memory.                                                     *)
(***************************************************************************)
PagesListCreate ==
  /\ ip = "idle" /\ ep = "exported"
  /\ \/ /\ Expand(table, src.count).ok
        /\ pages' = Expand(table, src.count).pages
        /\ pgl' = "alloc"
        /\ ip' = "add"
     \/ ip' = "failed" /\ UNCHANGED <<pages, pgl>>
  /\ UNCHANGED <<impRef, vma, expVars>>

PagesListAdd ==
  /\ ip = "add"
  /\ pgl' = "listed"
  /\ ip' = "dmabuf"
  /\ UNCHANGED <<pages, impRef, vma, expVars>>

DmaBufExport ==
  /\ ip = "dmabuf"
  /\ \/ ip' = "fd" /\ impRef' = 1 /\ UNCHANGED pgl
     \/ ip' = "failed" /\ PagesListDestroy /\ UNCHANGED impRef
  /\ UNCHANGED <<pages, vma, expVars>>

(***************************************************************************)
(* A kernel client gets the dma-buf, a user a descriptor of it, if there   *)
(* is one.                                                                 *)
(***************************************************************************)
DmaBufFd ==
  /\ ip = "fd"
  /\ \/ ip' = "imported" /\ UNCHANGED <<impRef, pgl>>
     \/ ip' = "failed" /\ DmaBufPut
  /\ UNCHANGED <<pages, vma, expVars>>

(***************************************************************************)
(* habmm_imp_hyp_unmap, and the user's close of the descriptor.            *)
(***************************************************************************)
Unmap ==
  /\ ip = "imported"
  /\ ip' = "done"
  /\ DmaBufPut
  /\ UNCHANGED <<pages, vma, expVars>>

\* Mutant: no check of the size.
MmapFitsAlways(n) == TRUE

(***************************************************************************)
(* hab_mem_mmap: the size of the buffer is kept in 32 bits, which is 2^20  *)
(* pages.                                                                  *)
(***************************************************************************)
MmapFits(n) == n <= Len(pages) % 2^20

Mmap(n) ==
  /\ ip = "imported" /\ vma = 0 /\ MmapFits(n)
  /\ vma' = n
  /\ impRef' = impRef + 1
  /\ UNCHANGED <<ip, pages, pgl, expVars>>

Munmap ==
  /\ vma > 0
  /\ vma' = 0
  /\ DmaBufPut
  /\ UNCHANGED <<ip, pages, expVars>>

(***************************************************************************)
(* hab_buffer_fault looks up page number k of the mapping in the list.     *)
(***************************************************************************)
FaultReads(k) == ~(k > Len(pages))
-----------------------------------------------------------------------------
Next ==
  \/ Grant \/ AddExport \/ AllocPlatformData
  \/ DmaBufAttach \/ DmaBufMapAttachment \/ CompressPfns \/ ExpRelease
  \/ PagesListCreate \/ PagesListAdd \/ DmaBufExport \/ DmaBufFd \/ Unmap
  \/ \E n \in 1 .. MaxMap : Mmap(n)
  \/ Munmap

Spec == Init /\ [][Next]_vars
-----------------------------------------------------------------------------
(* Properties *)

TypeOK ==
  /\ ep \in {"idle", "add", "platform", "attach", "map", "compress", "exported",
             "released", "failed", "oops"}
  /\ ip \in {"idle", "add", "dmabuf", "fd", "imported", "failed", "done"}
  /\ dmaRef \in BOOLEAN /\ desc \in BOOLEAN
  /\ att \in {"none", "attached", "mapped"}
  /\ pgl \in {"none", "alloc", "listed", "freed"}
  /\ impRef \in 0 .. 2 /\ vma \in 0 .. MaxMap

(***************************************************************************)
(* The pages the user named: those of the buffer from the offset on.       *)
(***************************************************************************)
Wanted(b) == SubSeq(AllPages(b), b.off + 1, b.off + b.count)

(***************************************************************************)
(* The importer's pages are the ones that were exported, in their order:   *)
(* compression and expansion cancel out, and a buffer with too few pages   *)
(* is refused.                                                             *)
(***************************************************************************)
PagesAgree == pgl \in {"alloc", "listed"} => pages = Wanted(src)

(***************************************************************************)
(* PagesAgree for exports that start with a chunk or end in the chunk they *)
(* start in.  For the others pre_page is wrong in habmem_compress_pfns.    *)
(***************************************************************************)
StartsAChunk(b) ==
  \E k \in 0 .. Len(b.chunks) : b.off = Len(PagesTo(b)[k])

AlignedPagesAgree == StartsAChunk(src) \/ Len(table.regions) = 1 => PagesAgree

(***************************************************************************)
(* The table has no more regions than habmem_add_export_compress allocated *)
(* (one for each page), also when the scatterlist is too short.            *)
(***************************************************************************)
TableFits == Len(table.regions) <= src.count

(***************************************************************************)
(* The exported dma-buf is attached and referenced exactly as long as      *)
(* there is a descriptor that remembers it: whichever step of an export    *)
(* fails, nothing stays behind (habmem_add_export_compress,                *)
(* habmem_compress_pfns, habmem_exp_release).                              *)
(***************************************************************************)
HeldByDescriptor ==
  /\ ep \in {"idle", "failed", "released"} => ~dmaRef /\ ~desc /\ att = "none"
  /\ ep = "exported" => dmaRef /\ desc /\ (att = "mapped" <=> ~OwnPages(src))

(***************************************************************************)
(* A list of pages stays in imp_list, and is not freed, while the importer *)
(* holds its dma-buf or has it mapped, even after the unimport; after that *)
(* it is gone (pages_list_put, hab_mem_dma_buf_release).                   *)
(***************************************************************************)
ListedWhileUsed ==
  /\ impRef > 0 \/ vma > 0 => pgl = "listed"
  /\ ip \in {"idle", "failed", "done"} /\ vma = 0 => pgl \in {"none", "freed"}

(***************************************************************************)
(* A fault never reads behind the list of pages, although hab_buffer_fault *)
(* lets the page number be equal to npages.                                *)
(***************************************************************************)
FaultInRange == \A k \in 0 .. vma - 1 : FaultReads(k) => k < Len(pages)
=============================================================================
