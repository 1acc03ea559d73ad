--------------------------- MODULE MCChunkWriter ---------------------------
(* Files for ChunkWriter, with chunks of two bytes: three chunks of which  *)
(* the last is short, one short chunk, no chunk, and an edit of the first. *)
EXTENDS ChunkWriter

Long == <<1, 2, 1, 1, 2>>
Short == <<2>>
Edited == <<2, 2, 1, 1, 2>>

LongShortEmpty == {Long, Short, <<>>}
LongOrEdited == {Long, Edited}
=============================================================================
