-------------------------- MODULE MCChunkDownload --------------------------
(***************************************************************************)
(* Instances of ChunkDownload for TLC.                                     *)
(***************************************************************************)
EXTENDS ChunkDownload

\* What the sources hold, for the cfg files.
Everything == Peers \X Chunks
Nothing == {}

\* Source 0 has a copy that ends before the last chunk.
AllButTail == Everything \ {<<0, NumChunks - 1>>}

Source0 == {0}
AllSources == Peers

\* What sources 0 has at chunk 1 is not what the index describes.
Chunk1OfSource0 == {<<0, 1>>}
=============================================================================
