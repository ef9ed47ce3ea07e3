------------------------------- MODULE MCHabMem ------------------------------
(***************************************************************************)
(* HabMem for all buffers of up to three chunks in a small memory.         *)
(***************************************************************************)
EXTENDS HabMem, SequencesExt

Disjoint(s) == IsInjective(FlattenSeq([i \in DOMAIN s |-> ChunkPages(s[i])]))

Lists(n, chunks) == {s \in UNION {[1 .. k -> chunks] : k \in 1 .. n} : Disjoint(s)}

SgBuffers(hows, n, lens, offs) ==
  [how : hows, off : offs, count : 1 .. 4,
   chunks : Lists(n, [pfn : 1 .. 6, n : lens])]

MCBuffers ==
  SgBuffers({"fd"}, 3, 1 .. 2, {0})
    \cup SgBuffers({"va"}, 2, 1 .. 3, 0 .. 3)
    \cup {[how |-> "uva", off |-> 0, count |-> Len(s), chunks |-> s] :
            s \in Lists(4, [pfn : 1 .. 5, n : {1}])}

MCOffset == SgBuffers({"va"}, 2, 1 .. 2, 0 .. 1)
=============================================================================
