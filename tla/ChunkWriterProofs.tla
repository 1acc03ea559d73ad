------------------------- MODULE ChunkWriterProofs -------------------------
(***************************************************************************)
(* ChunkWriter keeps what it promises for any files, chunk size and number *)
(* of crashes and failures.  The properties are not inductive: whether the *)
(* chunks a new writer adopts are on disk depends on the .meta file, and   *)
(* what Assemble reads depends on which chunks can still be rewritten.     *)
(***************************************************************************)
EXTENDS ChunkWriter, FiniteSetTheorems, SequenceTheorems, TLAPS

Removing == at \in {"removing", "unlinking"}

(* A chunk being written is the right one, and not yet counted. *)
WriteInv ==
    /\ writer \in {"none", "open", "cleaned"}
    /\ at \in {"chunk", "meta"} => writer # "none" /\ cur.data = Chunk(file, cur.idx)
    /\ at = "chunk" => cur.idx \notin received /\ cur.idx \in DOMAIN chunks
    /\ at = "meta" => cur.idx \in received
    /\ Removing => writer = "cleaned"
    /\ Removing \/ meta = {} => acked = {}

(* The chunks that the writer counts, and those the .meta file lists for   *)
(* the next one, are on disk unless a Cleanup removed them.                *)
PresentInv ==
    \/ partial
    \/ /\ writer = "open" => received \subseteq DOMAIN chunks
       /\ writer # "cleaned" => \A m \in meta : m.received \subseteq DOMAIN chunks
       /\ writer = "cleaned" /\ ~Removing => meta = {}

(* The .meta file against the writer in memory: a chunk it lists is not    *)
(* written again, unless by a writer that could not read it.               *)
ListInv ==
    writer # "none" =>
        /\ \A m \in meta : m.file = file
        /\ blind \/ \A m \in meta : m.received \subseteq received
        /\ acked \subseteq received

(* s is what a write of w may leave behind. *)
Part(s, w) == \E k \in 0 .. Len(w) : s = SubSeq(w, 1, k)

(* What is in the files of chunks S of file f, those that exist. *)
Holds(S, f) ==
    \A i \in S : i \in DOMAIN chunks =>
        \/ chunks[i] = Chunk(f, i)
        \/ blind /\ Part(chunks[i], Chunk(f, i))

ContentInv ==
    /\ writer # "none" => Holds(received, file)
    /\ \A m \in meta : Holds(m.received, m.file)

Inv ==
    /\ WriteInv
    /\ PresentInv
    /\ mixed \/ (ListInv /\ ContentInv)
    /\ AckedIsResumable

-----------------------------------------------------------------------------
LEMMA InitInv == Init => Inv
  BY DEF Init, Inv, WriteInv, Removing, PresentInv, ListInv, ContentInv, Holds,
         AckedIsResumable

(* A new writer counts what the .meta file lists, or nothing. *)
LEMMA OpenInv ==
  ASSUME Inv, NEW f \in Files, NewChunkWriter(f)
  PROVE  Inv'
<1> USE DEF NewChunkWriter, Inherits
<1>1. /\ writer' = "open" /\ at' = "free" /\ file' = f
      /\ UNCHANGED <<chunks, meta>>
      /\ received' = {} \/ received' = UNION {m.received : m \in Adopted(f)}
      /\ acked' = acked \/ acked' = {}
      /\ meta = {} => acked = {}
  BY DEF LoadMeta, LoadMetaFails, Inv, WriteInv
<1>2. \A m \in Adopted(f) : m \in meta
  BY DEF Adopted
<1>3. WriteInv'
  BY <1>1 DEF WriteInv, Removing
<1>4. PresentInv'
  <2>1. SUFFICES ASSUME ~partial' PROVE \A m \in meta : m.received \subseteq DOMAIN chunks
    BY <1>1, <1>2 DEF PresentInv
  <2>2. CASE meta = {}
    BY <2>2
  <2>3. CASE meta # {}
    <3>1. ~partial /\ ~Removing
      BY <2>1, <2>3 DEF Removing
    <3> QED
      BY <2>3, <3>1 DEF Inv, PresentInv
  <2> QED
    BY <2>2, <2>3
<1>5. AckedIsResumable'
  <2>1. CASE meta = {}
    BY <1>1, <2>1 DEF AckedIsResumable
  <2>2. CASE meta # {}
    BY <1>1, <2>2 DEF AckedIsResumable, Inv
  <2> QED
    BY <2>1, <2>2
<1>6. ASSUME ~mixed' PROVE (ListInv /\ ContentInv)'
  <2>1. \A m \in meta : ~mixed /\ m.file = f
    BY <1>6
  <2>2. \A m \in meta : m \in Adopted(f)
    BY <2>1 DEF Adopted
  <2>3. \A m \in meta : Holds(m.received, f)
    BY <2>1 DEF Inv, ContentInv
  <2>4. blind' = FALSE => meta = {} \/ ~blind
    BY DEF LoadMeta, LoadMetaFails
  <2>5. \A m \in meta : Holds(m.received, f)'
    BY <1>1, <2>3, <2>4 DEF Holds, LoadMeta, LoadMetaFails
  <2>6. Holds(received, f)'
    BY <1>1, <1>2, <2>5 DEF Holds
  <2>7. ContentInv'
    BY <1>1, <2>1, <2>5, <2>6 DEF ContentInv
  <2>8. ListInv'
    <3>1. blind' \/ \A m \in meta : m.received \subseteq received'
      BY <2>2 DEF LoadMeta, LoadMetaFails
    <3>2. acked' \subseteq received'
      <4>1. CASE LoadMetaFails
        BY <4>1 DEF LoadMetaFails
      <4>2. CASE LoadMeta(f)
        <5>1. \A i \in acked : \E m \in meta : i \in m.received
          <6>1. CASE meta = {}
            BY <1>1, <6>1
          <6>2. CASE meta # {}
            BY <2>1, <6>2 DEF Inv, AckedIsResumable
          <6> QED
            BY <6>1, <6>2
        <5> QED
          BY <2>2, <4>2, <5>1 DEF LoadMeta
      <4> QED
        BY <4>1, <4>2
    <3> QED
      BY <1>1, <2>1, <3>1, <3>2 DEF ListInv
  <2> QED
    BY <2>7, <2>8
<1> QED
  BY <1>3, <1>4, <1>5, <1>6 DEF Inv

(* What holds of the files of S is kept when none of them is written. *)
LEMMA HoldsKept ==
  ASSUME NEW S, NEW f, Holds(S, f), blind' = blind,
         \A i \in S : i \in DOMAIN chunks' => i \in DOMAIN chunks /\ chunks'[i] = chunks[i]
  PROVE  Holds(S, f)'
  BY DEF Holds

(* A chunk that is torn now is one the writer does not count, and the      *)
(* .meta file lists it only if some writer could not read that file.       *)
LEMMA StartChunkInv ==
  ASSUME Inv, NEW data \in Payloads, NEW i \in Indices(file), StartChunk(i, data)
  PROVE  Inv'
<1> USE DEF StartChunk, Free, asmVars, history
<1>1. i \notin received /\ data = Chunk(file, i) /\ writer # "none"
  BY DEF Accepts
<1>2. PICK k \in 0 .. Len(data) - 1 :
          chunks' = [j \in DOMAIN chunks \cup {i} |->
                        IF j = i THEN SubSeq(data, 1, k) ELSE chunks[j]]
  OBVIOUS
<1>3. /\ DOMAIN chunks' = DOMAIN chunks \cup {i}
      /\ \A j \in DOMAIN chunks : j # i => chunks'[j] = chunks[j]
      /\ Part(chunks'[i], data)
  <2>1. chunks'[i] = SubSeq(data, 1, k) /\ k \in 0 .. Len(data)
    BY <1>2
  <2> QED
    BY <1>2, <2>1 DEF Part
<1>4. WriteInv'
  BY <1>1, <1>3 DEF Inv, WriteInv, Removing
<1>5. PresentInv'
  BY <1>3 DEF Inv, PresentInv, Removing
<1>6. ASSUME ~mixed PROVE (ListInv /\ ContentInv)'
  <2>1. ListInv /\ ContentInv
    BY <1>6 DEF Inv
  <2>2. ListInv'
    BY <2>1 DEF ListInv
  <2>3. Holds(received, file)'
    <3>1. Holds(received, file)
      BY <1>1, <2>1 DEF ContentInv
    <3> QED
      BY <1>1, <1>3, <3>1, HoldsKept
  <2>4. ASSUME NEW m \in meta PROVE Holds(m.received, m.file)'
    <3>1. m.file = file /\ Holds(m.received, m.file) /\ (blind \/ i \notin m.received)
      BY <1>1, <2>1 DEF ListInv, ContentInv
    <3>2. CASE i \notin m.received
      BY <1>3, <3>1, <3>2, HoldsKept
    <3>3. CASE blind
      BY <1>1, <1>3, <3>1, <3>3 DEF Holds
    <3> QED
      BY <3>1, <3>2, <3>3
  <2> QED
    BY <2>2, <2>3, <2>4 DEF ContentInv
<1>7. AckedIsResumable'
  BY DEF Inv, AckedIsResumable
<1> QED
  BY <1>4, <1>5, <1>6, <1>7 DEF Inv

LEMMA ChunkWrittenInv ==
  ASSUME Inv, ChunkWritten
  PROVE  Inv'
<1> USE DEF ChunkWritten, asmVars, history
<1> DEFINE i == cur.idx
<1>1. i \notin received /\ i \in DOMAIN chunks /\ cur.data = Chunk(file, i) /\ writer # "none"
  BY DEF Inv, WriteInv
<1>2. /\ DOMAIN chunks' = DOMAIN chunks
      /\ chunks'[i] = Chunk(file, i)
      /\ \A j \in DOMAIN chunks : j # i => chunks'[j] = chunks[j]
  BY <1>1
<1>3. WriteInv'
  BY <1>1 DEF Inv, WriteInv, Removing
<1>4. PresentInv'
  BY <1>1, <1>2 DEF Inv, PresentInv, Removing
<1>5. ASSUME ~mixed PROVE (ListInv /\ ContentInv)'
  <2>1. ListInv /\ ContentInv
    BY <1>5 DEF Inv
  <2>2. ListInv'
    BY <2>1 DEF ListInv
  <2>3. ASSUME NEW S, Holds(S, file) PROVE Holds(S \cup {i}, file)'
    BY <1>2, <2>3 DEF Holds
  <2>4. Holds(received, file)'
    BY <1>1, <2>1, <2>3 DEF ContentInv
  <2>5. ASSUME NEW m \in meta PROVE Holds(m.received, m.file)'
    <3>1. m.file = file /\ Holds(m.received, file)
      BY <1>1, <2>1 DEF ListInv, ContentInv
    <3> QED
      BY <1>2, <3>1 DEF Holds
  <2> QED
    BY <2>2, <2>4, <2>5 DEF ContentInv
<1>6. AckedIsResumable'
  BY DEF Inv, AckedIsResumable
<1> QED
  BY <1>3, <1>4, <1>5, <1>6 DEF Inv

(* The new .meta file lists what the writer has on disk. *)
LEMMA MetaSavedInv ==
  ASSUME Inv, MetaSaved
  PROVE  Inv'
<1> USE DEF MetaSaved, asmVars, chunkVars
<1>1. cur.idx \in received /\ writer \in {"open", "cleaned"} /\ ~Removing /\ ~Removing'
  BY DEF Inv, WriteInv, Removing
<1>2. meta' # {} /\ \A m \in meta' : m.file = file /\ m.received = received
  OBVIOUS
<1>3. WriteInv'
  BY <1>1, <1>2 DEF Inv, WriteInv
<1>4. PresentInv'
  <2>1. ASSUME ~partial' PROVE writer = "open" /\ received \subseteq DOMAIN chunks
    BY <1>1, <2>1 DEF Inv, PresentInv
  <2> QED
    BY <1>2, <2>1 DEF PresentInv
<1>5. ASSUME ~mixed PROVE (ListInv /\ ContentInv)'
  <2>1. ListInv /\ ContentInv
    BY <1>5 DEF Inv
  <2>2. Holds(received, file)' /\ ListInv'
    BY <1>1, <1>2, <2>1 DEF ListInv, ContentInv, Holds
  <2>3. \A m \in meta' : Holds(m.received, m.file)'
    BY <1>2, <2>2
  <2> QED
    BY <2>2, <2>3 DEF ContentInv
<1>6. AckedIsResumable'
  <2>1. ASSUME ~mixed PROVE acked' \subseteq received
    BY <1>1, <2>1 DEF Inv, ListInv
  <2> QED
    BY <1>2, <2>1 DEF AckedIsResumable
<1> QED
  BY <1>3, <1>4, <1>5, <1>6 DEF Inv

(* Steps that touch neither the disk nor what is remembered of it. *)
LEMMA KeptInv ==
  ASSUME Inv, UNCHANGED <<file, writer, received, chunks, meta, acked, history>>, WriteInv',
         Removing => Removing'
  PROVE  Inv'
<1> USE DEF history
<1>1. PresentInv' /\ AckedIsResumable'
  BY DEF Inv, PresentInv, AckedIsResumable
<1>2. ASSUME ~mixed PROVE (ListInv /\ ContentInv)'
  BY <1>2 DEF Inv, ListInv, ContentInv, Holds
<1> QED
  BY <1>1, <1>2 DEF Inv

LEMMA WriteFailsInv ==
  ASSUME Inv, WriteFails
  PROVE  Inv'
<1>1. WriteInv' /\ ~Removing
  BY DEF Inv, WriteInv, WriteFails, Removing
<1> QED
  BY <1>1, KeptInv DEF WriteFails, chunkVars

LEMMA AssembleInv ==
  ASSUME Inv, Assemble
  PROVE  Inv'
<1>1. UNCHANGED <<file, writer, received, at, cur, chunks, meta, acked, history>>
  BY DEF Assemble, StartAssemble, CopyChunk, FinishAssemble, AssembleFails, chunkVars
<1>2. WriteInv' /\ Removing' = Removing
  BY <1>1 DEF Inv, WriteInv, Removing
<1> QED
  BY <1>1, <1>2, KeptInv

(* The .meta file outlives the chunks only while the mutex is held. *)
LEMMA CleanupInv ==
  ASSUME Inv, Cleanup
  PROVE  Inv'
<1> USE DEF chunkVars, asmVars, history, Removing
<1>1. CASE StartCleanup
  <2>1. WriteInv' /\ PresentInv' /\ AckedIsResumable'
    BY <1>1 DEF StartCleanup, Inv, WriteInv, PresentInv, AckedIsResumable
  <2>2. ~mixed => (ListInv /\ ContentInv)'
    BY <1>1 DEF StartCleanup, Free, Inv, ListInv, ContentInv, Holds
  <2> QED
    BY <1>1, <2>1, <2>2 DEF Inv, StartCleanup
<1>2. ASSUME NEW i \in DOMAIN chunks, RemoveChunk(i) PROVE Inv'
  <2>1. writer = "cleaned" /\ Removing
    BY <1>2 DEF RemoveChunk, Inv, WriteInv
  <2>2. WriteInv' /\ PresentInv' /\ AckedIsResumable'
    BY <1>2, <2>1 DEF RemoveChunk, Inv, WriteInv, PresentInv, AckedIsResumable
  <2>3. \A j \in DOMAIN chunks' : j \in DOMAIN chunks /\ chunks'[j] = chunks[j]
    BY <1>2 DEF RemoveChunk
  <2>4. \A S, f : Holds(S, f) => Holds(S, f)'
    BY <1>2, <2>3, HoldsKept DEF RemoveChunk
  <2>5. ~mixed => (ListInv /\ ContentInv)'
    BY <1>2, <2>4 DEF RemoveChunk, Inv, ListInv, ContentInv
  <2> QED
    BY <1>2, <2>2, <2>5 DEF Inv, RemoveChunk
<1>3. CASE RemoveDir \/ RemoveAllFails
  <2>1. WriteInv'
    BY <1>3 DEF RemoveDir, RemoveAllFails, Inv, WriteInv
  <2> QED
    BY <1>3, <2>1, KeptInv DEF RemoveDir, RemoveAllFails
<1>4. CASE RemoveMeta
  <2>1. writer = "cleaned" /\ acked = {}
    BY <1>4 DEF RemoveMeta, Inv, WriteInv
  <2>2. meta' = {} \/ (meta' = meta /\ partial')
    BY <1>4 DEF RemoveMeta
  <2>3. WriteInv' /\ PresentInv' /\ AckedIsResumable'
    BY <1>4, <2>1, <2>2 DEF RemoveMeta, Inv, WriteInv, PresentInv, AckedIsResumable
  <2>4. UNCHANGED <<file, writer, received, chunks, acked, mixed, blind>>
    BY <1>4 DEF RemoveMeta
  <2>5. \A m \in meta' : m \in meta
    BY <2>2
  <2>6. ~mixed => ListInv'
    BY <2>4, <2>5 DEF Inv, ListInv
  <2>7. ~mixed => ContentInv'
    BY <2>4, <2>5 DEF Inv, ContentInv, Holds
  <2> QED
    BY <2>3, <2>4, <2>6, <2>7 DEF Inv
<1> QED
  BY <1>1, <1>2, <1>3, <1>4 DEF Cleanup

(* A crash forgets the writer; what the .meta file lists is on disk unless *)
(* it came in the middle of Cleanup.                                       *)
LEMMA CrashInv ==
  ASSUME Inv, Crash
  PROVE  Inv'
<1> USE DEF Crash, chunkVars, Removing
<1>1. WriteInv' /\ AckedIsResumable'
  BY DEF Inv, WriteInv, AckedIsResumable
<1>2. PresentInv'
  <2>1. ASSUME ~partial' PROVE \A m \in meta : m.received \subseteq DOMAIN chunks
    BY <2>1 DEF Inv, PresentInv
  <2> QED
    BY <2>1 DEF PresentInv
<1>3. ~mixed => (ListInv /\ ContentInv)'
  BY DEF Inv, ListInv, ContentInv, Holds
<1> QED
  BY <1>1, <1>2, <1>3 DEF Inv

LEMMA StepInv == Inv /\ [Next]_vars => Inv'
<1> SUFFICES ASSUME Inv, [Next]_vars PROVE Inv'
  OBVIOUS
<1>1. ASSUME NEW f \in Files, NewChunkWriter(f) PROVE Inv'
  BY <1>1, OpenInv
<1>2. CASE WriteChunk
  BY <1>2, StartChunkInv, ChunkWrittenInv, MetaSavedInv, WriteFailsInv DEF WriteChunk
<1>3. CASE Assemble
  BY <1>3, AssembleInv
<1>4. CASE Cleanup
  BY <1>4, CleanupInv
<1>5. CASE Crash
  BY <1>5, CrashInv
<1>6. CASE UNCHANGED vars
  <2>1. WriteInv' /\ Removing' = Removing
    BY <1>6 DEF vars, Inv, WriteInv, Removing
  <2> QED
    BY <1>6, <2>1, KeptInv DEF vars, history
<1> QED
  BY <1>1, <1>2, <1>3, <1>4, <1>5, <1>6 DEF Next

(* The inductive invariant: what the mutex holder is doing, the .meta file *)
(* and the disk fit together at every step of chunk.go.                    *)
THEOREM ChunkInvariant == Spec => []Inv
  BY InitInv, StepInv, PTL DEF Spec

(* A chunk that IsReceived reports is on disk in full, also after torn     *)
(* writes and crashes between a chunk and its metadata.  It can be missing *)
(* only after a Cleanup that left the .meta file, and cut short only after *)
(* a .meta file that was there could not be read.                          *)
THEOREM ChunkCached == Spec => []ReceivedIsCached
<1>1. Inv => ReceivedIsCached
  BY DEF Inv, PresentInv, ContentInv, Holds, ReceivedIsCached
<1> QED
  BY <1>1, ChunkInvariant, PTL

(* What WriteChunk acknowledged is in the .meta file a restart reads, also *)
(* after an interrupted Cleanup and for the writer that started with       *)
(* nothing because it could not read the file.                             *)
THEOREM ChunkResumable == Spec => []AckedIsResumable
<1>1. Inv => AckedIsResumable
  BY DEF Inv
<1> QED
  BY <1>1, ChunkInvariant, PTL

-----------------------------------------------------------------------------
(* Assemble.  The mutex is released before the chunks are read; what makes *)
(* it right is that a full set of chunks is never rewritten, only removed, *)
(* and that a chunk cut short leaves too few bytes for the total size.     *)

ReceivedInv ==
    /\ file \in Files
    /\ received \subseteq Indices(file)
    /\ at \in {"chunk", "meta"} => cur.idx \in Indices(file)
    /\ \A m \in meta : m.received \subseteq Indices(m.file)

(* The first c chunks of f, or as many bytes as it has. *)
Cut(f, c) == IF c * ChunkSize <= Len(f) THEN c * ChunkSize ELSE Len(f)
Prefix(f, c) == SubSeq(f, 1, Cut(f, c))

CopyInv ==
    /\ asm = "copying" =>
          /\ writer # "none"
          /\ received = Indices(file)
          /\ copied \in Nat
          /\ out \in Seq(Nat)
          /\ Len(out) <= Cut(file, copied)
          /\ Len(out) = Cut(file, copied) => out = Prefix(file, copied)
    /\ asm = "ok" => out = file

AssembleInvariant == ReceivedInv /\ (~mixed => CopyInv)

LEMMA ReceivedStep == ReceivedInv /\ [Next]_vars => ReceivedInv'
<1> SUFFICES ASSUME ReceivedInv, [Next]_vars PROVE ReceivedInv'
  OBVIOUS
<1> USE DEF ReceivedInv, chunkVars, asmVars, history
<1>1. ASSUME NEW f \in Files, NewChunkWriter(f) PROVE ReceivedInv'
  <2>1. \A m \in Adopted(f) : m.received \subseteq Indices(f)
    BY DEF Adopted, Indices
  <2> QED
    BY <1>1, <2>1 DEF NewChunkWriter, LoadMeta, LoadMetaFails
<1>2. ASSUME NEW data, NEW i \in Indices(file), StartChunk(i, data) PROVE ReceivedInv'
  BY <1>2 DEF StartChunk
<1>3. CASE ChunkWritten \/ WriteFails
  BY <1>3 DEF ChunkWritten, WriteFails
<1>4. CASE MetaSaved
  BY <1>4 DEF MetaSaved
<1>5. CASE Assemble
  BY <1>5 DEF Assemble, StartAssemble, CopyChunk, FinishAssemble, AssembleFails
<1>6. CASE Cleanup
  BY <1>6 DEF Cleanup, StartCleanup, RemoveChunk, RemoveDir, RemoveAllFails, RemoveMeta
<1>7. CASE Crash
  BY <1>7 DEF Crash
<1>8. CASE UNCHANGED vars
  BY <1>8 DEF vars
<1> QED
  BY <1>1, <1>2, <1>3, <1>4, <1>5, <1>6, <1>7, <1>8 DEF Next, WriteChunk

LEMMA CountType ==
  ASSUME NEW f \in Files
  PROVE  f \in Seq(Nat) /\ Len(f) \in Nat /\ ChunkCount(f) \in Int
<1>1. f \in Seq(Nat) /\ Len(f) \in Nat
  BY ChunkAssumption
<1> QED
  BY <1>1, ChunkAssumption DEF ChunkCount

(* As many chunks as the manifest counts are all of them. *)
LEMMA AllReceived ==
  ASSUME NEW f \in Files, NEW S, S \subseteq Indices(f), Cardinality(S) = ChunkCount(f)
  PROVE  S = Indices(f)
<1>1. ChunkCount(f) \in Int
  BY CountType
<1>2. IsFiniteSet(Indices(f)) /\ IsFiniteSet(S)
  <2>1. IsFiniteSet(0 .. ChunkCount(f) - 1)
    BY <1>1, FS_Interval
  <2> QED
    BY <2>1, FS_Subset DEF Indices
<1>3. Cardinality(S) \in Nat
  BY <1>2, FS_CardinalityType
<1>4. Cardinality(Indices(f)) = ChunkCount(f)
  BY <1>1, <1>3, FS_Interval DEF Indices
<1> QED
  BY <1>2, <1>4, FS_Subset

(* Copying one more chunk extends the prefix. *)
LEMMA PrefixGrows ==
  ASSUME NEW f \in Files, NEW c \in Nat
  PROVE  Prefix(f, c) \o Chunk(f, c) = Prefix(f, c + 1)
<1> DEFINE L == Len(f)
           n == c * ChunkSize
<1>1. f \in Seq(Nat) /\ L \in Nat /\ ChunkSize \in Nat \ {0}
  BY CountType, ChunkAssumption
<1>2. n \in Nat /\ (c + 1) * ChunkSize = n + ChunkSize
  BY <1>1
<1> DEFINE k == IF n <= L THEN n ELSE L
           e == IF n + ChunkSize <= L THEN n + ChunkSize ELSE L
           r == IF ChunkSize > L - n THEN L - n ELSE ChunkSize
<1>3. Prefix(f, c) = SubSeq(f, 1, k) /\ Prefix(f, c + 1) = SubSeq(f, 1, e)
  BY <1>2 DEF Prefix, Cut
<1>6. Chunk(f, c) = SubSeq(f, n + 1, n + r)
  BY DEF Chunk
<1>4. CASE n <= L
  <2>1. Chunk(f, c) = SubSeq(f, k + 1, e)
    <3>1. n = k /\ n + r = e
      <4> HIDE DEF n, L
      <4> QED
        BY <1>1, <1>2, <1>4
    <3> QED
      BY <1>6, <3>1
  <2>2. k \in 0 .. L /\ e \in k .. L
    BY <1>1, <1>2, <1>4
  <2>3. SubSeq(f, 1, k) \o SubSeq(f, k + 1, e) = SubSeq(f, 1, e)
    <3> HIDE DEF k, e
    <3> QED
      BY <1>1, <2>2, ConcatAdjacentSubSeq
  <2> QED
    BY <1>3, <2>1, <2>3
<1>5. CASE ~(n <= L)
  <2>1. k = L /\ e = L
    BY <1>1, <1>2, <1>5
  <2>2. Chunk(f, c) = SubSeq(f, n + 1, L)
    <3>1. n + r = L
      <4> HIDE DEF n, L
      <4> QED
        BY <1>1, <1>2, <1>5
    <3> QED
      BY <1>6, <3>1
  <2>3. Chunk(f, c) = <<>>
    <3>1. L < n + 1 /\ n + 1 \in Int /\ L \in Int
      BY <1>1, <1>2, <1>5
    <3> HIDE DEF n, L
    <3> QED
      BY <2>2, <3>1, SubSeqEmpty
  <2>4. SubSeq(f, 1, L) = f
    BY <1>1, SubSeqFull
  <2> QED
    <3>1. Prefix(f, c) = f /\ Prefix(f, c + 1) = f
      BY <1>3, <2>1, <2>4
    <3>2. f \o <<>> = f
      BY <1>1, ConcatEmptySeq
    <3> QED
      BY <2>3, <3>1, <3>2
<1> QED
  BY <1>4, <1>5

LEMMA CutType ==
  ASSUME NEW f \in Files, NEW c \in Nat
  PROVE  Cut(f, c) \in 0 .. Len(f)
<1> DEFINE n == c * ChunkSize
<1>1. n \in Nat /\ Len(f) \in Nat
  BY CountType, ChunkAssumption
<1> HIDE DEF n
<1>2. (IF n <= Len(f) THEN n ELSE Len(f)) \in 0 .. Len(f)
  BY <1>1
<1> QED
  BY <1>2 DEF Cut, n

LEMMA PrefixLen ==
  ASSUME NEW f \in Files, NEW c \in Nat
  PROVE  Prefix(f, c) \in Seq(Nat) /\ Len(Prefix(f, c)) = Cut(f, c)
<1>1. f \in Seq(Nat) /\ Cut(f, c) \in 0 .. Len(f)
  BY CountType, CutType
<1>2. \A j \in 1 .. Cut(f, c) : f[j] \in Nat
  BY <1>1
<1> QED
  BY <1>1, <1>2, SubSeqProperties DEF Prefix

(* What is left of a chunk that was being written is shorter than it, or   *)
(* is all of it.                                                           *)
LEMMA PartLen ==
  ASSUME NEW w \in Seq(Nat), NEW s, Part(s, w)
  PROVE  /\ s \in Seq(Nat) /\ Len(s) <= Len(w)
         /\ Len(s) = Len(w) => s = w
<1>1. PICK k \in 0 .. Len(w) : s = SubSeq(w, 1, k)
  BY DEF Part
<1>2. \A j \in 1 .. k : w[j] \in Nat
  OBVIOUS
<1>3. SubSeq(w, 1, k) \in Seq(Nat) /\ Len(SubSeq(w, 1, k)) = k
  BY <1>2, SubSeqProperties
<1>4. SubSeq(w, 1, Len(w)) = w
  BY SubSeqFull
<1>5. s \in Seq(Nat) /\ Len(s) = k /\ k <= Len(w)
  BY <1>1, <1>3
<1>6. Len(s) = Len(w) => s = w
  BY <1>1, <1>4, <1>5
<1> QED
  BY <1>5, <1>6

LEMMA ChunkType ==
  ASSUME NEW f \in Files, NEW i \in Nat
  PROVE  Chunk(f, i) \in Seq(Nat)
<1> DEFINE n == i * ChunkSize
           e == n + (IF ChunkSize > Len(f) - n THEN Len(f) - n ELSE ChunkSize)
<1>1. f \in Seq(Nat) /\ Len(f) \in Nat /\ ChunkSize \in Nat \ {0}
  BY CountType, ChunkAssumption
<1>2. n \in Nat
  BY <1>1
<1>3. Chunk(f, i) = SubSeq(f, n + 1, e)
  BY DEF Chunk
<1>4. n + 1 \in Nat \ {0} /\ e \in Int /\ e <= Len(f)
  <2> HIDE DEF n
  <2> QED
    BY <1>1, <1>2
<1> HIDE DEF n, e
<1>5. \A j \in (n + 1) .. e : f[j] \in Nat
  <2>1. \A j \in (n + 1) .. e : j \in 1 .. Len(f)
    BY <1>1, <1>2, <1>4
  <2> QED
    BY <1>1, <2>1
<1>6. SubSeq(f, n + 1, e) \in Seq(Nat)
  BY <1>4, <1>5, SubSeqProperties
<1> QED
  BY <1>3, <1>6

(* The bytes of a chunk that is copied are those that follow in the file,  *)
(* or too few.                                                             *)
LEMMA CopyOne ==
  ASSUME NEW f \in Files, NEW c \in Nat, NEW o \in Seq(Nat), NEW s,
         Len(o) <= Cut(f, c), Len(o) = Cut(f, c) => o = Prefix(f, c),
         s = Chunk(f, c) \/ Part(s, Chunk(f, c))
  PROVE  /\ o \o s \in Seq(Nat)
         /\ Len(o \o s) <= Cut(f, c + 1)
         /\ Len(o \o s) = Cut(f, c + 1) => o \o s = Prefix(f, c + 1)
<1> DEFINE w == Chunk(f, c)
<1>1. w \in Seq(Nat) /\ Prefix(f, c) \o w = Prefix(f, c + 1)
  BY ChunkType, PrefixGrows
<1>0. c + 1 \in Nat
  OBVIOUS
<1>2. /\ Prefix(f, c) \in Seq(Nat) /\ Len(Prefix(f, c)) = Cut(f, c)
      /\ Len(Prefix(f, c + 1)) = Cut(f, c + 1)
  BY <1>0, PrefixLen
<1>3. s \in Seq(Nat) /\ Len(s) <= Len(w) /\ (Len(s) = Len(w) => s = w)
  BY <1>1, PartLen
<1>4. Cut(f, c) \in Nat /\ Cut(f, c + 1) \in Nat
  <2>1. Cut(f, c) \in 0 .. Len(f) /\ Cut(f, c + 1) \in 0 .. Len(f)
    BY <1>0, CutType
  <2> QED
    BY <2>1, CountType
<1> HIDE DEF w
<1>5. Cut(f, c + 1) = Cut(f, c) + Len(w)
  <2>1. Len(Prefix(f, c) \o w) = Len(Prefix(f, c)) + Len(w)
    BY <1>1, <1>2
  <2> QED
    BY <1>1, <1>2, <2>1
<1>6. o \o s \in Seq(Nat) /\ Len(o \o s) = Len(o) + Len(s)
  BY <1>3
<1>7. Len(o) \in Nat /\ Len(s) \in Nat /\ Len(w) \in Nat
  BY <1>1, <1>3
<1>8. Len(o \o s) <= Cut(f, c + 1)
  BY <1>3, <1>4, <1>5, <1>6, <1>7
<1>9. ASSUME Len(o \o s) = Cut(f, c + 1) PROVE o \o s = Prefix(f, c + 1)
  <2>1. Len(o) = Cut(f, c) /\ Len(s) = Len(w)
    BY <1>3, <1>4, <1>5, <1>6, <1>7, <1>9
  <2> QED
    BY <1>1, <1>3, <2>1
<1> QED
  BY <1>6, <1>8, <1>9

LEMMA CopyStep ==
  Inv /\ ReceivedInv /\ (~mixed => CopyInv) /\ [Next]_vars => (~mixed => CopyInv)'
<1> SUFFICES ASSUME Inv, ReceivedInv, ~mixed => CopyInv, [Next]_vars, ~mixed'
             PROVE  CopyInv'
  OBVIOUS
<1> USE DEF chunkVars, asmVars, history
<1>3. ASSUME NEW f \in Files, NewChunkWriter(f) PROVE CopyInv'
  BY <1>3 DEF NewChunkWriter, CopyInv
(* A mixture of two files starts only with a new writer. *)
<1>1. ASSUME mixed' = mixed PROVE CopyInv /\ ListInv /\ ContentInv
  BY <1>1 DEF Inv
(* Steps that leave the goroutine of Assemble and the chunks it counts alone. *)
<1>2. ASSUME UNCHANGED <<file, writer, received, asm, out, copied, mixed>> PROVE CopyInv'
  BY <1>1, <1>2 DEF CopyInv
<1>4. ASSUME NEW data, NEW i \in Indices(file), StartChunk(i, data) PROVE CopyInv'
  BY <1>2, <1>4 DEF StartChunk
<1>5. CASE ChunkWritten
  <2>1. cur.idx \in Indices(file)
    BY <1>5 DEF ReceivedInv, ChunkWritten
  <2> QED
    BY <1>1, <1>5, <2>1 DEF ChunkWritten, CopyInv
<1>6. CASE MetaSaved \/ WriteFails
  BY <1>2, <1>6 DEF MetaSaved, WriteFails
<1>7. CASE StartAssemble
  <2>1. received = Indices(file)
    BY <1>7, AllReceived DEF StartAssemble, ReceivedInv
  <2>2. Len(<<>>) = 0 /\ <<>> \in Seq(Nat) /\ Cut(file, 0) = 0 /\ Prefix(file, 0) = <<>>
    <3>1. Len(file) \in Nat /\ ChunkSize \in Nat
      BY CountType, ChunkAssumption DEF ReceivedInv
    <3>2. Cut(file, 0) = 0
      BY <3>1 DEF Cut
    <3> QED
      BY <3>2, SubSeqEmpty DEF Prefix
  <2> QED
    BY <1>7, <2>1, <2>2 DEF StartAssemble, Free, CopyInv
<1>8. CASE CopyChunk
  <2> USE <1>8 DEF CopyChunk
  <2>0. CopyInv /\ ContentInv /\ asm = "copying"
    BY <1>1
  <2>1. CASE copied \in DOMAIN chunks /\ out' = out \o chunks[copied] /\ copied' = copied + 1
    <3>1. copied \in received /\ copied \in Nat
      <4>1. copied \in Nat /\ copied < ChunkCount(file) /\ received = Indices(file)
        BY <2>0 DEF CopyInv
      <4>2. ChunkCount(file) \in Int
        BY CountType DEF ReceivedInv
      <4> QED
        BY <4>1, <4>2 DEF Indices
    <3>2. \/ chunks[copied] = Chunk(file, copied)
          \/ Part(chunks[copied], Chunk(file, copied))
      BY <2>0, <2>1, <3>1 DEF CopyInv, ContentInv, Holds
    <3>3. /\ out \in Seq(Nat) /\ Len(out) <= Cut(file, copied)
          /\ Len(out) = Cut(file, copied) => out = Prefix(file, copied)
      BY <2>0 DEF CopyInv
    <3>4. file \in Files
      BY DEF ReceivedInv
    <3>5. /\ out' \in Seq(Nat) /\ Len(out') <= Cut(file, copied + 1)
          /\ Len(out') = Cut(file, copied + 1) => out' = Prefix(file, copied + 1)
      BY <2>1, <3>1, <3>2, <3>3, <3>4, CopyOne
    <3>6. asm' # "ok" /\ UNCHANGED <<file, writer, received>> /\ copied' \in Nat
      BY <2>0, <2>1, <3>1
    <3> QED
      BY <2>0, <2>1, <3>5, <3>6 DEF CopyInv, Cut, Prefix
  <2>2. CASE copied \notin DOMAIN chunks /\ asm' = "idle"
    BY <2>2 DEF CopyInv
  <2> QED
    BY <2>1, <2>2
<1>9. CASE FinishAssemble
  <2>1. ASSUME Len(out) = Len(file) PROVE out = file
    <3>1. /\ copied \in Nat /\ out \in Seq(Nat) /\ Len(out) <= Cut(file, copied)
          /\ Len(out) = Cut(file, copied) => out = Prefix(file, copied)
      BY <1>1, <1>9 DEF FinishAssemble, CopyInv
    <3>2. file \in Files /\ file \in Seq(Nat) /\ Len(file) \in Nat
      BY CountType DEF ReceivedInv
    <3>3. Cut(file, copied) \in 0 .. Len(file)
      BY <3>1, <3>2, CutType
    <3>4. Cut(file, copied) = Len(file)
      BY <2>1, <3>1, <3>2, <3>3
    <3> QED
      BY <2>1, <3>1, <3>2, <3>4, SubSeqFull DEF Prefix
  <2> QED
    BY <1>9, <2>1 DEF FinishAssemble, CopyInv
<1>10. CASE AssembleFails
  BY <1>10 DEF AssembleFails, CopyInv
<1>11. CASE Cleanup
  <2>1. CASE StartCleanup
    BY <1>1, <2>1 DEF StartCleanup, CopyInv
  <2>2. CASE ~StartCleanup
    BY <1>2, <1>11, <2>2 DEF Cleanup, RemoveChunk, RemoveDir, RemoveAllFails, RemoveMeta
  <2> QED
    BY <2>1, <2>2
<1>12. CASE Crash
  BY <1>1, <1>12 DEF Crash, CopyInv
<1>13. CASE UNCHANGED vars
  BY <1>2, <1>13 DEF vars
<1> QED
  BY <1>3, <1>4, <1>5, <1>6, <1>7, <1>8, <1>9, <1>10, <1>11, <1>12, <1>13
     DEF Next, WriteChunk, Assemble

(* What Assemble reports as done is the sender's file, byte for byte,      *)
(* whatever Cleanup removes while it reads, and whatever an interrupted    *)
(* Cleanup or an unread .meta file left missing or cut short before.       *)
THEOREM ChunkAssembled == Spec => []AssembledIsFile
<1>1. Init => AssembleInvariant
  BY DEF Init, AssembleInvariant, ReceivedInv, CopyInv
<1>2. Inv /\ AssembleInvariant /\ [Next]_vars => AssembleInvariant'
  BY ReceivedStep, CopyStep DEF AssembleInvariant
<1>3. AssembleInvariant => AssembledIsFile
  BY DEF AssembleInvariant, CopyInv, AssembledIsFile
<1> QED
  BY <1>1, <1>2, <1>3, ChunkInvariant, PTL DEF Spec

-----------------------------------------------------------------------------
(* Types.  The received chunks are those of the file only because of what  *)
(* ReceivedInv says of the .meta file, the bytes on disk only because what *)
(* a sender may offer are chunks of files.                                 *)

LEMMA PayloadType ==
  ASSUME NEW data \in {<<>>} \cup Payloads
  PROVE  data \in Seq(Nat)
<1>1. CASE data = <<>>
  BY <1>1
<1>2. CASE data \in Payloads
  <2>1. PICK f \in Files : \E i \in Indices(f) : data = Chunk(f, i)
    BY <1>2 DEF Payloads
  <2>2. \A i \in Indices(f) : i \in Nat /\ Chunk(f, i) \in Seq(Nat)
    BY CountType, ChunkType DEF Indices
  <2> QED
    BY <2>1, <2>2
<1> QED
  BY <1>1, <1>2

(* What a torn write leaves of a chunk. *)
LEMMA TornType ==
  ASSUME NEW data \in Seq(Nat), NEW k \in 0 .. Len(data) - 1
  PROVE  SubSeq(data, 1, k) \in Seq(Nat)
<1>1. \A j \in 1 .. k : data[j] \in Nat
  OBVIOUS
<1>2. k \in Int /\ 1 \in Int
  OBVIOUS
<1> QED
  BY <1>1, <1>2, SubSeqProperties

LEMMA IndicesType ==
  ASSUME NEW f \in Files
  PROVE  Indices(f) \subseteq Nat
BY CountType DEF Indices

LEMMA TypeStep == TypeOK /\ ReceivedInv /\ [Next]_vars => TypeOK'
<1> SUFFICES ASSUME TypeOK, ReceivedInv, [Next]_vars PROVE TypeOK'
  OBVIOUS
<1> USE DEF chunkVars, asmVars, history
<1>1. received' \in SUBSET Indices(file') /\ \A m \in meta' : m.received \subseteq Indices(m.file)
  BY ReceivedStep DEF ReceivedInv
<1>2. received \subseteq Nat
  BY IndicesType DEF TypeOK
<1>3. ASSUME NEW f \in Files, NewChunkWriter(f) PROVE TypeOK'
  <2>1. /\ acked' \subseteq Nat /\ blind' \in BOOLEAN
        /\ faults' = faults \/ (faults' = faults + 1 /\ faults < MaxFaults)
    BY <1>3 DEF NewChunkWriter, LoadMeta, LoadMetaFails, TypeOK
  <2>2. faults' \in 0 .. MaxFaults
    <3>1. faults \in 0 .. MaxFaults /\ MaxFaults \in Nat
      BY ChunkAssumption DEF TypeOK
    <3> QED
      BY <2>1, <3>1
  <2>3. mixed' \in BOOLEAN /\ partial' \in BOOLEAN
    BY <1>3 DEF NewChunkWriter, Inherits
  <2> QED
    BY <1>1, <1>3, <2>1, <2>2, <2>3 DEF NewChunkWriter, TypeOK
<1>4. ASSUME NEW data \in Payloads, NEW i \in Indices(file), StartChunk(i, data) PROVE TypeOK'
  <2>1. data \in Seq(Nat) /\ i \in Nat
    BY PayloadType, IndicesType DEF TypeOK
  <2>2. PICK k \in 0 .. Len(data) - 1 :
            chunks' = [j \in DOMAIN chunks \cup {i} |->
                          IF j = i THEN SubSeq(data, 1, k) ELSE chunks[j]]
    BY <1>4 DEF StartChunk
  <2>3. SubSeq(data, 1, k) \in Seq(Nat)
    BY <2>1, TornType
  <2>4. \A j \in DOMAIN chunks' : j \in Nat /\ chunks'[j] \in Seq(Nat)
    BY <2>1, <2>2, <2>3 DEF TypeOK
  <2>5. cur' = [idx |-> i, data |-> data] /\ at' = "chunk"
    BY <1>4 DEF StartChunk
  <2>6. cur'.idx \in Nat /\ cur'.data \in {<<>>} \cup Payloads
    BY <2>1, <2>5
  <2> QED
    BY <1>4, <2>4, <2>5, <2>6 DEF StartChunk, TypeOK
<1>5. CASE ChunkWritten
  <2>1. cur.data \in Seq(Nat)
    BY PayloadType DEF TypeOK
  <2>2. \A j \in DOMAIN chunks' : j \in Nat /\ chunks'[j] \in Seq(Nat)
    BY <1>5, <2>1 DEF ChunkWritten, TypeOK
  <2> QED
    BY <1>1, <1>5, <2>2 DEF ChunkWritten, TypeOK
<1>6. CASE MetaSaved
  <2>1. Cardinality(meta') <= 1
    <3>1. Cardinality(meta') = 1
      BY <1>6, FS_Singleton DEF MetaSaved
    <3> QED
      BY <3>1
  <2>2. \A m \in meta' : m.file \in Files /\ m.received \subseteq Nat
    BY <1>2, <1>6 DEF MetaSaved, TypeOK
  <2> QED
    BY <1>6, <2>1, <2>2 DEF MetaSaved, TypeOK
<1>7. CASE WriteFails
  BY <1>7, ChunkAssumption DEF WriteFails, TypeOK
<1>8. CASE StartAssemble
  BY <1>8 DEF StartAssemble, TypeOK
<1>9. CASE CopyChunk
  <2>1. CASE copied \in DOMAIN chunks
    <3>1. out' = out \o chunks[copied] /\ copied' = copied + 1 /\ asm' = asm
      BY <1>9, <2>1 DEF CopyChunk
    <3>2. out' \in Seq(Nat) /\ copied' \in Nat /\ asm' = asm
      BY <2>1, <3>1 DEF TypeOK
    <3>3. UNCHANGED <<file, writer, received, at, cur, chunkVars, meta, acked, history,
                      crashes, faults>>
      BY <1>9 DEF CopyChunk
    <3> QED
      BY <3>2, <3>3 DEF TypeOK
  <2>2. CASE copied \notin DOMAIN chunks
    BY <1>9, <2>2 DEF CopyChunk, TypeOK
  <2> QED
    BY <2>1, <2>2
<1>10. CASE FinishAssemble
  BY <1>10 DEF FinishAssemble, TypeOK
<1>11. CASE AssembleFails
  BY <1>11, ChunkAssumption DEF AssembleFails, TypeOK
<1>12. CASE StartCleanup \/ RemoveDir
  BY <1>12 DEF StartCleanup, RemoveDir, TypeOK
<1>13. ASSUME NEW i \in DOMAIN chunks, RemoveChunk(i) PROVE TypeOK'
  BY <1>13 DEF RemoveChunk, TypeOK
<1>14. CASE RemoveAllFails
  BY <1>14, ChunkAssumption DEF RemoveAllFails, TypeOK
<1>15. CASE RemoveMeta
  <2>1. Cardinality({}) <= 1
    BY FS_EmptySet
  <2>2. /\ meta' = {} \/ meta' = meta
        /\ faults' = faults \/ (faults' = faults + 1 /\ faults < MaxFaults)
        /\ partial' = partial \/ partial' = TRUE
    BY <1>15 DEF RemoveMeta
  <2>3. faults' \in 0 .. MaxFaults
    <3>1. faults \in 0 .. MaxFaults /\ MaxFaults \in Nat
      BY ChunkAssumption DEF TypeOK
    <3> QED
      BY <2>2, <3>1
  <2>4. partial' \in BOOLEAN
    BY <2>2 DEF TypeOK
  <2>5. Cardinality(meta') <= 1 /\ \A m \in meta' : m.file \in Files /\ m.received \subseteq Nat
    BY <2>1, <2>2 DEF TypeOK
  <2> QED
    BY <1>15, <2>3, <2>4, <2>5 DEF RemoveMeta, TypeOK
<1>16. CASE Crash
  BY <1>16, ChunkAssumption DEF Crash, TypeOK
<1>17. CASE UNCHANGED vars
  BY <1>17 DEF vars, TypeOK
<1> QED
  BY <1>3, <1>4, <1>5, <1>6, <1>7, <1>8, <1>9, <1>10, <1>11, <1>12, <1>13, <1>14, <1>15,
     <1>16, <1>17 DEF Next, WriteChunk, Assemble, Cleanup

(* Every variable keeps its type: in particular IsReceived never reports   *)
(* an index the manifest of the writer does not have, also when what it    *)
(* adopted was saved for another file (chunk.go:213-222).                  *)
THEOREM ChunkTypes == Spec => []TypeOK
<1>1. ASSUME Init PROVE TypeOK /\ ReceivedInv
  <2>1. ReceivedInv
    BY <1>1 DEF Init, ReceivedInv
  <2>2. Cardinality(meta) <= 1 /\ \A m \in meta : m.file \in Files /\ m.received \subseteq Nat
    BY <1>1, FS_EmptySet DEF Init
  <2>3. cur.idx \in Nat /\ cur.data \in {<<>>} \cup Payloads
    BY <1>1 DEF Init
  <2>4. DOMAIN chunks = {} /\ out \in Seq(Nat)
    BY <1>1 DEF Init
  <2>5. crashes \in 0 .. MaxCrashes /\ faults \in 0 .. MaxFaults
    BY <1>1, ChunkAssumption DEF Init
  <2> QED
    BY <1>1, <2>1, <2>2, <2>3, <2>4, <2>5 DEF Init, TypeOK
<1>2. TypeOK /\ ReceivedInv /\ [Next]_vars => (TypeOK /\ ReceivedInv)'
  BY TypeStep, ReceivedStep
<1> QED
  BY <1>1, <1>2, PTL DEF Spec
=============================================================================
