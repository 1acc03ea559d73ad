---------------------------- MODULE ChunkWriter ----------------------------
(***************************************************************************)
(* The resumable cache of a receiver (core/transfer/chunk.go): ChunkReader *)
(* cuts a file into chunks, ChunkWriter verifies them against the sender's *)
(* manifest, stores each in a file of its own, records in a .meta file     *)
(* which ones it has, and assembles them.  All writers here are of one     *)
(* task: they share the cache directory and the .meta file.                *)
(*                                                                         *)
(* A file is a sequence of bytes and stands for its manifest; a hash is    *)
(* the bytes it is taken of.  A step is one file operation, so a crash or  *)
(* a failure may come between any two.  Calls that return an error before  *)
(* they touch a file, and WriteChunk of a chunk already received, change   *)
(* nothing and are stuttering steps.                                       *)
(***************************************************************************)
EXTENDS Integers, Sequences, FiniteSets

CONSTANTS Files,       \* files the sender may offer under the task
          ChunkSize,   \* ChunkSize, in bytes
          MaxCrashes,  \* bound on crashes of the receiver
          MaxFaults    \* bound on failures of a file operation

ASSUME ChunkAssumption ==
    /\ Files # {} /\ \A f \in Files : f \in Seq(Nat)
    /\ ChunkSize \in Nat \ {0}
    /\ MaxCrashes \in Nat /\ MaxFaults \in Nat

VARIABLES
    file,      \* cw.manifest: the file of the writer in memory
    writer,    \* "none", "open", or "cleaned" once Cleanup was called on it
    received,  \* cw.received, as the set of indices
    at,        \* what the holder of cw.mu is doing, "free" if nobody holds it
    cur,       \* index and data of the WriteChunk that holds the mutex
    chunks,    \* chunk_<idx> files on disk, by index
    dir,       \* whether the cache directory exists
    meta,      \* the .meta file: {}, or the record it holds
    asm,       \* "idle", "copying" in Assemble, "ok" once it returned nil
    out,       \* bytes in the destination file
    copied,    \* chunks Assemble has copied
    acked,     \* chunks WriteChunk reported stored, and no Cleanup or unread
               \* .meta file has made the receiver forget
    mixed, blind, partial,  \* what befell the .meta file, see below
    crashes, faults

chunkVars == <<chunks, dir>>
asmVars == <<asm, out, copied>>
history == <<mixed, blind, partial>>
vars == <<file, writer, received, at, cur, chunks, dir, meta, asm, out, copied,
          acked, mixed, blind, partial, crashes, faults>>

-----------------------------------------------------------------------------
(* Layout of a file.                                                       *)

ChunkCount(f) == (Len(f) + ChunkSize - 1) \div ChunkSize

Indices(f) == 0 .. ChunkCount(f) - 1

(* What ChunkReader.Next returns: ChunkSize bytes, or those that remain. *)
Chunk(f, i) ==
    LET remaining == Len(f) - i * ChunkSize
        n == IF ChunkSize > remaining THEN remaining ELSE ChunkSize
    IN  SubSeq(f, i * ChunkSize + 1, i * ChunkSize + n)

(* The length WriteChunk insists on. *)
Expected(f, i) ==
    LET rem == Len(f) - i * ChunkSize
    IN  IF i = ChunkCount(f) - 1 /\ rem > 0 THEN rem ELSE ChunkSize

(* Anything a sender of the task may put into a DATA frame. *)
Payloads == UNION {{Chunk(f, i) : i \in Indices(f)} : f \in Files}

(* The checks of WriteChunk. *)
Accepts(i, data) ==
    /\ i \in Indices(file)
    /\ data = Chunk(file, i)
    /\ Len(data) = Expected(file, i)

-----------------------------------------------------------------------------
Init ==
    /\ file \in Files
    /\ writer = "none"
    /\ received = {}
    /\ at = "free"
    /\ cur = [idx |-> 0, data |-> <<>>]
    /\ chunks = <<>>
    /\ dir = FALSE
    /\ meta = {}
    /\ asm = "idle"
    /\ out = <<>>
    /\ copied = 0
    /\ acked = {}
    /\ mixed = FALSE /\ blind = FALSE /\ partial = FALSE
    /\ crashes = 0
    /\ faults = 0

(* What the .meta file on disk went through, for the properties to say     *)
(* how far each damage can go.  A writer that finds no .meta file starts   *)
(* with a clean record.                                                    *)
(*   mixed    a writer of another file met it                              *)
(*   blind    a writer could not read it and left it where it was          *)
(*   partial  it may list chunks that a Cleanup removed                    *)
Inherits(f) ==
    /\ mixed' = (\E m \in meta : mixed \/ m.file # f)
    /\ partial' = (partial /\ meta # {})

(* One call at a time holds the mutex. *)
Free == writer # "none" /\ at = "free"

(* Mistake: the lengths are not compared. *)
AdoptedAny(f) == meta

(* The metadata loadMeta adopts: equal number of chunks. *)
Adopted(f) == {m \in meta : ChunkCount(m.file) = ChunkCount(f)}

LoadMeta(f) ==
    /\ received' = UNION {m.received : m \in Adopted(f)}
    /\ blind' = (blind /\ meta # {})
    /\ UNCHANGED <<acked, faults>>

(* loadMeta returns without a word when the .meta file cannot be read or   *)
(* parsed: the writer starts with nothing received, and the file and the   *)
(* chunks stay.                                                            *)
LoadMetaFails ==
    /\ meta # {}
    /\ faults < MaxFaults
    /\ received' = {}
    /\ acked' = {}
    /\ blind' = TRUE
    /\ faults' = faults + 1

(* One writer exists at a time. *)
NewChunkWriter(f) ==
    /\ at = "free" /\ asm # "copying"
    /\ file' = f
    /\ writer' = "open"
    /\ dir' = TRUE
    /\ asm' = "idle"
    /\ Inherits(f)
    /\ LoadMeta(f) \/ LoadMetaFails
    /\ UNCHANGED <<at, cur, chunks, meta, out, copied, crashes>>

(* Mistake: the chunk is marked received before it is on disk. *)
StartChunkMarked(i, data) ==
    /\ Free
    /\ i \notin received
    /\ Accepts(i, data)
    /\ dir
    /\ at' = "chunk"
    /\ cur' = [idx |-> i, data |-> data]
    /\ received' = received \cup {i}
    /\ \E k \in 0 .. Len(data) - 1 :
           chunks' = [j \in DOMAIN chunks \cup {i} |->
                         IF j = i THEN SubSeq(data, 1, k) ELSE chunks[j]]
    /\ UNCHANGED <<file, writer, dir, meta, asmVars, acked, history, crashes, faults>>

(* WriteChunk, first part: the checks, then os.WriteFile truncates the     *)
(* chunk file and has written some of the data.                            *)
StartChunk(i, data) ==
    /\ Free
    /\ i \notin received
    /\ Accepts(i, data)
    /\ dir
    /\ at' = "chunk"
    /\ cur' = [idx |-> i, data |-> data]
    /\ \E k \in 0 .. Len(data) - 1 :
           chunks' = [j \in DOMAIN chunks \cup {i} |->
                         IF j = i THEN SubSeq(data, 1, k) ELSE chunks[j]]
    /\ UNCHANGED <<file, writer, received, dir, meta, asmVars, acked, history,
                   crashes, faults>>

(* The chunk is written: received, though not yet in the .meta file. *)
ChunkWritten ==
    /\ at = "chunk"
    /\ chunks' = [chunks EXCEPT ![cur.idx] = cur.data]
    /\ received' = received \cup {cur.idx}
    /\ at' = "meta"
    /\ UNCHANGED <<file, writer, cur, dir, meta, asmVars, acked, history, crashes, faults>>

(* saveMeta renames the new .meta file into place; WriteChunk returns nil. *)
MetaSaved ==
    /\ at = "meta"
    /\ meta' = {[file |-> file, received |-> received]}
    /\ acked' = acked \cup {cur.idx}
    /\ at' = "free"
    /\ partial' = (partial \/ writer = "cleaned")
    /\ UNCHANGED <<file, writer, received, cur, chunkVars, asmVars, mixed, blind,
                   crashes, faults>>

(* Writing the chunk or its metadata fails and WriteChunk returns an error. *)
WriteFails ==
    /\ faults < MaxFaults
    /\ at \in {"chunk", "meta"}
    /\ at' = "free"
    /\ faults' = faults + 1
    /\ UNCHANGED <<file, writer, received, cur, chunkVars, meta, asmVars, acked,
                   history, crashes>>

-----------------------------------------------------------------------------
(* Assemble holds the mutex only for its first check. One Assemble runs at *)
(* a time.                                                                 *)

StartAssemble ==
    /\ Free /\ asm # "copying"
    /\ Cardinality(received) = ChunkCount(file)
    /\ asm' = "copying"
    /\ out' = <<>>
    /\ copied' = 0
    /\ UNCHANGED <<file, writer, received, at, cur, chunkVars, meta, acked, history,
                   crashes, faults>>

CopyChunk ==
    /\ asm = "copying"
    /\ copied < ChunkCount(file)
    /\ \/ /\ copied \in DOMAIN chunks
          /\ out' = out \o chunks[copied]
          /\ copied' = copied + 1
          /\ UNCHANGED asm
       \/ /\ copied \notin DOMAIN chunks
          /\ asm' = "idle"
          /\ UNCHANGED <<out, copied>>
    /\ UNCHANGED <<file, writer, received, at, cur, chunkVars, meta, acked, history,
                   crashes, faults>>

(* Mistake: the total size is not compared. *)
FinishAssembleUnchecked ==
    /\ asm = "copying"
    /\ copied = ChunkCount(file)
    /\ asm' = "ok"
    /\ UNCHANGED <<file, writer, received, at, cur, chunkVars, meta, out, copied, acked,
                   history, crashes, faults>>

(* The total size is all that Assemble verifies. *)
FinishAssemble ==
    /\ asm = "copying"
    /\ copied = ChunkCount(file)
    /\ asm' = IF Len(out) = Len(file) THEN "ok" ELSE "idle"
    /\ UNCHANGED <<file, writer, received, at, cur, chunkVars, meta, out, copied, acked,
                   history, crashes, faults>>

AssembleFails ==
    /\ faults < MaxFaults
    /\ asm = "copying"
    /\ asm' = "idle"
    /\ faults' = faults + 1
    /\ UNCHANGED <<file, writer, received, at, cur, chunkVars, meta, out, copied, acked,
                   history, crashes>>

Assemble == StartAssemble \/ CopyChunk \/ FinishAssemble \/ AssembleFails

-----------------------------------------------------------------------------
(* Cleanup: RemoveAll takes the chunks away one by one, its error is       *)
(* ignored, and the .meta file goes last.  What cw remembers stays.        *)

StartCleanup ==
    /\ Free
    /\ at' = "removing"
    /\ writer' = "cleaned"
    /\ acked' = {}
    /\ UNCHANGED <<file, received, cur, chunkVars, meta, asmVars, history, crashes, faults>>

RemoveChunk(i) ==
    /\ at = "removing"
    /\ i \in DOMAIN chunks
    /\ chunks' = [j \in DOMAIN chunks \ {i} |-> chunks[j]]
    /\ UNCHANGED <<file, writer, received, at, cur, dir, meta, asmVars, acked, history,
                   crashes, faults>>

RemoveDir ==
    /\ at = "removing"
    /\ DOMAIN chunks = {}
    /\ dir' = FALSE
    /\ at' = "unlinking"
    /\ UNCHANGED <<file, writer, received, cur, chunks, meta, asmVars, acked, history,
                   crashes, faults>>

RemoveAllFails ==
    /\ faults < MaxFaults
    /\ at = "removing"
    /\ at' = "unlinking"
    /\ faults' = faults + 1
    /\ UNCHANGED <<file, writer, received, cur, chunkVars, meta, asmVars, acked, history,
                   crashes>>

RemoveMeta ==
    /\ at = "unlinking"
    /\ at' = "free"
    /\ \/ /\ meta' = {}
          /\ UNCHANGED <<partial, faults>>
       \/ /\ faults < MaxFaults /\ meta # {}
          /\ faults' = faults + 1
          /\ partial' = TRUE
          /\ UNCHANGED meta
    /\ UNCHANGED <<file, writer, received, cur, chunkVars, asmVars, acked, mixed, blind,
                   crashes>>

Cleanup ==
    \/ StartCleanup \/ RemoveDir \/ RemoveAllFails \/ RemoveMeta
    \/ \E i \in DOMAIN chunks : RemoveChunk(i)

-----------------------------------------------------------------------------
(* The process dies: memory is gone, what was written stays. *)
Crash ==
    /\ writer # "none"
    /\ crashes < MaxCrashes
    /\ crashes' = crashes + 1
    /\ writer' = "none"
    /\ received' = {}
    /\ at' = "free"
    /\ asm' = "idle"
    /\ partial' = (partial \/ (at \in {"removing", "unlinking"} /\ meta # {}))
    /\ UNCHANGED <<file, cur, chunkVars, meta, out, copied, acked, mixed, blind, faults>>

WriteChunk ==
    \/ \E data \in Payloads, i \in Indices(file) : StartChunk(i, data)
    \/ ChunkWritten \/ MetaSaved \/ WriteFails

Next ==
    \/ \E f \in Files : NewChunkWriter(f)
    \/ WriteChunk
    \/ Assemble
    \/ Cleanup
    \/ Crash

Spec == Init /\ [][Next]_vars

-----------------------------------------------------------------------------
(* Properties.                                                             *)

TypeOK ==
    /\ file \in Files
    /\ writer \in {"none", "open", "cleaned"}
    /\ received \in SUBSET Indices(file)
    /\ at \in {"free", "chunk", "meta", "removing", "unlinking"}
    /\ cur.idx \in Nat /\ cur.data \in {<<>>} \cup Payloads
    /\ \A i \in DOMAIN chunks : i \in Nat /\ chunks[i] \in Seq(Nat)
    /\ dir \in BOOLEAN
    /\ Cardinality(meta) <= 1
    /\ \A m \in meta : m.file \in Files /\ m.received \subseteq Nat
    /\ asm \in {"idle", "copying", "ok"}
    /\ out \in Seq(Nat)
    /\ copied \in Nat
    /\ acked \subseteq Nat
    /\ mixed \in BOOLEAN /\ blind \in BOOLEAN /\ partial \in BOOLEAN
    /\ crashes \in 0 .. MaxCrashes /\ faults \in 0 .. MaxFaults

(* chunk.go:240, IsReceived: "chunk idx was already verified and cached".  *)
(* Over crashes between the write of a chunk and that of its metadata,     *)
(* torn writes and resumption, a chunk counted as received is on disk in   *)
(* full; nobody would ask for it again.  A Cleanup that was interrupted    *)
(* can only make chunks disappear: those that remain are whole.  A .meta   *)
(* file that could not be read for once can only leave chunks cut short.   *)
ReceivedIsCached ==
    writer = "open" =>
        /\ partial \/ received \subseteq DOMAIN chunks
        /\ \/ mixed \/ blind
           \/ \A i \in received \cap DOMAIN chunks : chunks[i] = Chunk(file, i)

(* When Assemble returns nil the destination is the sender's file, though  *)
(* it reads the chunks without the mutex while Cleanup may remove them,    *)
(* and though an interrupted Cleanup or an unread .meta file may have left *)
(* chunks listed that are missing or cut short: the total size tells.      *)
AssembledIsFile == asm = "ok" /\ ~mixed => out = file

(* docs/PROTOCOL.md:173: retransmission skips what was acknowledged.  What *)
(* WriteChunk reported stored is in the .meta file that a restart reads,   *)
(* until Cleanup, or until a writer cannot read that file.                 *)
AckedIsResumable == ~mixed => \A i \in acked : \E m \in meta : i \in m.received

-----------------------------------------------------------------------------
(* What the repository says and the code does not do.                      *)

(* chunk.go:215, "Adopt received state only if it matches the current      *)
(* manifest": Assemble returns nil only for the file of the manifest.      *)
AssembledMatchesManifest == asm = "ok" => out = file
=============================================================================
