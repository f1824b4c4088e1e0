----------------------- MODULE ArtifactRetentionProofs -----------------------
(***************************************************************************)
(* Proofs about what ArtifactUpload keeps on the disk, for any number of   *)
(* handlers, cleaners and uploads and any failures: no cleaner takes the   *)
(* file of an artifact before it expires, a session that did not fail can  *)
(* be resumed, no file is left that no row leads to unless an operation on *)
(* this very file failed, and seen from outside artifacts are an           *)
(* ArtifactStore.                                                          *)
(*                                                                         *)
(* A cleaner removes the files it has selected long after it has read the  *)
(* rows, without a lock.  That is safe because an identifier whose         *)
(* artifact was registered once is settled: nobody can ever give it a file *)
(* again, so what was selected is what is removed.  It deletes the rows    *)
(* later still, by comparing with the same instant again: whatever expired *)
(* by then was selected, so a row goes before its file only when its own   *)
(* reading or removing failed.                                             *)
(***************************************************************************)
EXTENDS ArtifactUploadProofs

\* A worker that is about to register an artifact has its file, and one that
\* removes files has chosen them among what had expired.
Held(w) ==
    /\ pc[w] \in {"renamed", "received"} => files[id[w]] # None
    /\ pc[w] \in {"renamed"} \cup Solo => parts[id[w]] = None
    /\ due[w] <= now
    /\ pc[w] = "remove" =>
         \A i \in paths[w] : Settled(i) /\ (artifacts[i] # None => Expired(artifacts[i]))

Stored(i) ==
    /\ announced[i] = 0 => parts[i] = None
    /\ artifacts[i] # None => Settled(i) /\ (Expired(artifacts[i]) \/ files[i] # None)

KeepInv == (\A w \in Worker : Held(w)) /\ (\A i \in Id : Stored(i))

USE ArtifactUploadAssumption DEF Goto, Tables, Disk, Locals, Solo, Cleaning, Locked, Worker

-----------------------------------------------------------------------------
(* A settled identifier stays settled *)

LEMMA BeginSettles ==
    ASSUME Inv, NEW h \in Handler, Begin(h), NEW i \in Id, Settled(i)
    PROVE  Settled(i)'
<1>1. announced'[i] # 0 /\ parts'[i] = None
  BY DEF Begin, Settled
<1>2. ASSUME NEW v \in Worker PROVE ~Making(v, i)'
  BY DEF Begin, Settled, Making, Inv, TypeOK, Lock, Take, StartCleaning
<1>. QED BY <1>1, <1>2 DEF Settled

LEMMA CreatePartSettles ==
    ASSUME Inv, NEW h \in Handler, CreatePart(h), NEW i \in Id, Settled(i)
    PROVE  Settled(i)'
<1>1. announced'[i] # 0 /\ parts'[i] = None
  BY DEF CreatePart, Settled, Making
<1>2. ASSUME NEW v \in Worker PROVE ~Making(v, i)'
  BY DEF CreatePart, Settled, Making
<1>. QED BY <1>1, <1>2 DEF Settled

LEMMA PutUploadSettles ==
    ASSUME Inv, NEW h \in Handler, PutUpload(h), NEW i \in Id, Settled(i)
    PROVE  Settled(i)'
<1>1. announced'[i] # 0 /\ parts'[i] = None
  BY DEF PutUpload, Settled
<1>2. ASSUME NEW v \in Worker PROVE ~Making(v, i)'
  BY DEF PutUpload, Settled, Making, Return
<1>. QED BY <1>1, <1>2 DEF Settled

LEMMA PutUploadFailsSettles ==
    ASSUME Inv, NEW h \in Handler, PutUploadFails(h), NEW i \in Id, Settled(i)
    PROVE  Settled(i)'
<1>1. announced'[i] # 0 /\ parts'[i] = None
  BY DEF PutUploadFails, Settled
<1>2. ASSUME NEW v \in Worker PROVE ~Making(v, i)'
  BY DEF PutUploadFails, Settled, Making, Return
<1>. QED BY <1>1, <1>2 DEF Settled

LEMMA CreatePartFailsSettles ==
    ASSUME Inv, NEW h \in Handler, CreatePartFails(h), NEW i \in Id, Settled(i)
    PROVE  Settled(i)'
<1>1. announced'[i] # 0 /\ parts'[i] = None
  <2>1. id[h] # i
    BY DEF CreatePartFails, Settled, Making
  <2>. QED BY <2>1 DEF CreatePartFails, Settled, Inv, TypeOK
<1>2. ASSUME NEW v \in Worker PROVE ~Making(v, i)'
  BY DEF CreatePartFails, Settled, Making, Return
<1>. QED BY <1>1, <1>2 DEF Settled

LEMMA StartChunkSettles ==
    ASSUME Inv, NEW h \in Handler, StartChunk(h), NEW i \in Id, Settled(i)
    PROVE  Settled(i)'
<1>1. announced'[i] # 0 /\ parts'[i] = None
  BY DEF StartChunk, Settled
<1>2. ASSUME NEW v \in Worker PROVE ~Making(v, i)'
  BY DEF StartChunk, Settled, Making, Lock, Take
<1>. QED BY <1>1, <1>2 DEF Settled

LEMMA AppendChunkSettles ==
    ASSUME Inv, NEW h \in Handler, AppendChunk(h), NEW i \in Id, Settled(i)
    PROVE  Settled(i)'
<1>1. announced'[i] # 0 /\ parts'[i] = None
  BY DEF AppendChunk, Settled, Inv, TypeOK
<1>2. ASSUME NEW v \in Worker PROVE ~Making(v, i)'
  BY DEF AppendChunk, Settled, Making, Inv, TypeOK, Return
<1>. QED BY <1>1, <1>2 DEF Settled

LEMMA AppendFailsSettles ==
    ASSUME Inv, NEW h \in Handler, AppendFails(h), NEW i \in Id, Settled(i)
    PROVE  Settled(i)'
<1>1. announced'[i] # 0 /\ parts'[i] = None
  BY DEF AppendFails, Settled, Inv, TypeOK
<1>2. ASSUME NEW v \in Worker PROVE ~Making(v, i)'
  BY DEF AppendFails, Settled, Making, Return
<1>. QED BY <1>1, <1>2 DEF Settled

LEMMA AdvanceSettles ==
    ASSUME Inv, NEW h \in Handler, Advance(h), NEW i \in Id, Settled(i)
    PROVE  Settled(i)'
<1>1. announced'[i] # 0 /\ parts'[i] = None
  BY DEF Advance, Settled
<1>2. ASSUME NEW v \in Worker PROVE ~Making(v, i)'
  BY DEF Advance, Settled, Making, Return
<1>. QED BY <1>1, <1>2 DEF Settled

LEMMA AdvanceFailsSettles ==
    ASSUME Inv, NEW h \in Handler, AdvanceFails(h), NEW i \in Id, Settled(i)
    PROVE  Settled(i)'
<1>1. announced'[i] # 0 /\ parts'[i] = None
  BY DEF AdvanceFails, Settled
<1>2. ASSUME NEW v \in Worker PROVE ~Making(v, i)'
  BY DEF AdvanceFails, Settled, Making, Return
<1>. QED BY <1>1, <1>2 DEF Settled

LEMMA CompleteSettles ==
    ASSUME Inv, NEW h \in Handler, Complete(h), NEW i \in Id, Settled(i)
    PROVE  Settled(i)'
<1>1. announced'[i] # 0 /\ parts'[i] = None
  BY DEF Complete, Settled
<1>2. ASSUME NEW v \in Worker PROVE ~Making(v, i)'
  BY DEF Complete, Settled, Making, Lock, Take
<1>. QED BY <1>1, <1>2 DEF Settled

LEMMA RenamePartSettles ==
    ASSUME Inv, NEW h \in Handler, RenamePart(h), NEW i \in Id, Settled(i)
    PROVE  Settled(i)'
<1>1. announced'[i] # 0 /\ parts'[i] = None
  BY DEF RenamePart, Settled, Inv, TypeOK
<1>2. ASSUME NEW v \in Worker PROVE ~Making(v, i)'
  <2>1. CASE parts[id[h]] # None
    BY <2>1 DEF RenamePart, Settled, Making, Inv, TypeOK
  <2>2. CASE parts[id[h]] = None
    BY <2>2 DEF RenamePart, Settled, Making, Inv, TypeOK, Return
  <2>. QED BY <2>1, <2>2
<1>. QED BY <1>1, <1>2 DEF Settled

LEMMA PutArtifactSettles ==
    ASSUME Inv, NEW h \in Handler, PutArtifact(h), NEW i \in Id, Settled(i)
    PROVE  Settled(i)'
<1>1. announced'[i] # 0 /\ parts'[i] = None
  BY DEF PutArtifact, Settled
<1>2. ASSUME NEW v \in Worker PROVE ~Making(v, i)'
  BY DEF PutArtifact, Settled, Making, Inv, TypeOK, StartCleaning
<1>. QED BY <1>1, <1>2 DEF Settled

LEMMA PutArtifactFailsSettles ==
    ASSUME Inv, NEW h \in Handler, PutArtifactFails(h), NEW i \in Id, Settled(i)
    PROVE  Settled(i)'
<1>1. announced'[i] # 0 /\ parts'[i] = None
  BY DEF PutArtifactFails, Settled, Making
<1>2. ASSUME NEW v \in Worker PROVE ~Making(v, i)'
  BY DEF PutArtifactFails, Settled, Making, Return
<1>. QED BY <1>1, <1>2 DEF Settled

LEMMA DeleteUploadSettles ==
    ASSUME Inv, NEW h \in Handler, DeleteUpload(h), NEW i \in Id, Settled(i)
    PROVE  Settled(i)'
<1>1. announced'[i] # 0 /\ parts'[i] = None
  BY DEF DeleteUpload, Settled
<1>2. ASSUME NEW v \in Worker PROVE ~Making(v, i)'
  BY DEF DeleteUpload, Settled, Making, Return
<1>. QED BY <1>1, <1>2 DEF Settled

LEMMA ReceiveSettles ==
    ASSUME Inv, NEW h \in Handler, Receive(h), NEW i \in Id, Settled(i)
    PROVE  Settled(i)'
<1>1. announced'[i] # 0 /\ parts'[i] = None
  BY DEF Receive, Settled
<1>2. ASSUME NEW v \in Worker PROVE ~Making(v, i)'
  BY DEF Receive, Settled, Making, Inv, TypeOK
<1>. QED BY <1>1, <1>2 DEF Settled

LEMMA ReceiveAllSettles ==
    ASSUME Inv, NEW h \in Handler, ReceiveAll(h), NEW i \in Id, Settled(i)
    PROVE  Settled(i)'
<1>1. announced'[i] # 0 /\ parts'[i] = None
  BY DEF ReceiveAll, Settled
<1>2. ASSUME NEW v \in Worker PROVE ~Making(v, i)'
  BY DEF ReceiveAll, Settled, Making
<1>. QED BY <1>1, <1>2 DEF Settled

LEMMA RefuseFileSettles ==
    ASSUME Inv, NEW h \in Handler, RefuseFile(h), NEW i \in Id, Settled(i)
    PROVE  Settled(i)'
<1>1. announced'[i] # 0 /\ parts'[i] = None
  BY DEF RefuseFile, Settled
<1>2. ASSUME NEW v \in Worker PROVE ~Making(v, i)'
  BY DEF RefuseFile, Settled, Making, Return
<1>. QED BY <1>1, <1>2 DEF Settled

LEMMA ProbeFailsSettles ==
    ASSUME Inv, NEW h \in Handler, ProbeFails(h), NEW i \in Id, Settled(i)
    PROVE  Settled(i)'
<1>1. announced'[i] # 0 /\ parts'[i] = None
  BY DEF ProbeFails, Settled
<1>2. ASSUME NEW v \in Worker PROVE ~Making(v, i)'
  BY DEF ProbeFails, Settled, Making, Return
<1>. QED BY <1>1, <1>2 DEF Settled

LEMMA UndoFailsSettles ==
    ASSUME Inv, NEW h \in Handler, UndoFails(h), NEW i \in Id, Settled(i)
    PROVE  Settled(i)'
<1>1. announced'[i] # 0 /\ parts'[i] = None
  BY DEF UndoFails, Settled
<1>2. ASSUME NEW v \in Worker PROVE ~Making(v, i)'
  BY DEF UndoFails, Settled, Making, Return
<1>. QED BY <1>1, <1>2 DEF Settled

LEMMA SelectArtifactsSettles ==
    ASSUME Inv, NEW w \in Worker, SelectArtifacts(w), NEW i \in Id, Settled(i)
    PROVE  Settled(i)'
<1>1. announced'[i] # 0 /\ parts'[i] = None
  BY DEF SelectArtifacts, Settled
<1>2. ASSUME NEW v \in Worker PROVE ~Making(v, i)'
  BY DEF SelectArtifacts, Settled, Making
<1>. QED BY <1>1, <1>2 DEF Settled

LEMMA SelectArtifactsInPartSettles ==
    ASSUME Inv, NEW w \in Worker, SelectArtifactsInPart(w), NEW i \in Id, Settled(i)
    PROVE  Settled(i)'
<1>1. announced'[i] # 0 /\ parts'[i] = None
  BY DEF SelectArtifactsInPart, Settled
<1>2. ASSUME NEW v \in Worker PROVE ~Making(v, i)'
  BY DEF SelectArtifactsInPart, Settled, Making
<1>. QED BY <1>1, <1>2 DEF Settled

LEMMA SelectUploadsSettles ==
    ASSUME Inv, NEW w \in Worker, SelectUploads(w), NEW i \in Id, Settled(i)
    PROVE  Settled(i)'
<1>1. announced'[i] # 0 /\ parts'[i] = None
  BY DEF SelectUploads, Settled
<1>2. ASSUME NEW v \in Worker PROVE ~Making(v, i)'
  BY DEF SelectUploads, Settled, Making
<1>. QED BY <1>1, <1>2 DEF Settled

LEMMA SelectUploadsInPartSettles ==
    ASSUME Inv, NEW w \in Worker, SelectUploadsInPart(w), NEW i \in Id, Settled(i)
    PROVE  Settled(i)'
<1>1. announced'[i] # 0 /\ parts'[i] = None
  BY DEF SelectUploadsInPart, Settled
<1>2. ASSUME NEW v \in Worker PROVE ~Making(v, i)'
  BY DEF SelectUploadsInPart, Settled, Making
<1>. QED BY <1>1, <1>2 DEF Settled

LEMMA RemoveSettles ==
    ASSUME Inv, NEW w \in Worker, Remove(w), NEW i \in Id, Settled(i)
    PROVE  Settled(i)'
<1>1. announced'[i] # 0 /\ parts'[i] = None
  BY DEF Remove, Settled, Inv, TypeOK
<1>2. ASSUME NEW v \in Worker PROVE ~Making(v, i)'
  BY DEF Remove, Settled, Making
<1>. QED BY <1>1, <1>2 DEF Settled

LEMMA RemoveFailsSettles ==
    ASSUME Inv, NEW w \in Worker, RemoveFails(w), NEW i \in Id, Settled(i)
    PROVE  Settled(i)'
<1>1. announced'[i] # 0 /\ parts'[i] = None
  BY DEF RemoveFails, Settled, Inv, TypeOK
<1>2. ASSUME NEW v \in Worker PROVE ~Making(v, i)'
  BY DEF RemoveFails, Settled, Making
<1>. QED BY <1>1, <1>2 DEF Settled

LEMMA DeleteArtifactsSettles ==
    ASSUME Inv, NEW w \in Worker, DeleteArtifacts(w), NEW i \in Id, Settled(i)
    PROVE  Settled(i)'
<1>1. announced'[i] # 0 /\ parts'[i] = None
  BY DEF DeleteArtifacts, Settled
<1>2. ASSUME NEW v \in Worker PROVE ~Making(v, i)'
  BY DEF DeleteArtifacts, Settled, Making
<1>. QED BY <1>1, <1>2 DEF Settled

LEMMA DeleteUploadsSettles ==
    ASSUME Inv, NEW w \in Worker, DeleteUploads(w), NEW i \in Id, Settled(i)
    PROVE  Settled(i)'
<1>1. announced'[i] # 0 /\ parts'[i] = None
  BY DEF DeleteUploads, Settled
<1>2. ASSUME NEW v \in Worker PROVE ~Making(v, i)'
  BY ZenonT(60) DEF DeleteUploads, Settled, Making, Inv, TypeOK, Return, EndCleaning
<1>. QED BY <1>1, <1>2 DEF Settled

LEMMA CleaningFailsSettles ==
    ASSUME Inv, NEW w \in Worker, CleaningFails(w), NEW i \in Id, Settled(i)
    PROVE  Settled(i)'
<1>1. announced'[i] # 0 /\ parts'[i] = None
  BY DEF CleaningFails, Settled
<1>2. ASSUME NEW v \in Worker PROVE ~Making(v, i)'
  BY ZenonT(60) DEF CleaningFails, Settled, Making, Inv, TypeOK, Return, EndCleaning
<1>. QED BY <1>1, <1>2 DEF Settled

LEMMA CleanSettles ==
    ASSUME Inv, NEW c \in Cleaner, Clean(c), NEW i \in Id, Settled(i)
    PROVE  Settled(i)'
<1>1. announced'[i] # 0 /\ parts'[i] = None
  BY DEF Clean, Settled
<1>2. ASSUME NEW v \in Worker PROVE ~Making(v, i)'
  BY DEF Clean, Settled, Making, Inv, WorkerInv, Mutexed, StartCleaning
<1>. QED BY <1>1, <1>2 DEF Settled

LEMMA CrashSettles ==
    ASSUME Inv, Crash(Handler) \/ Crash(Cleaner), NEW i \in Id, Settled(i)
    PROVE  Settled(i)'
<1>1. announced'[i] # 0 /\ parts'[i] = None
  BY DEF Crash, Settled
<1>2. ASSUME NEW v \in Worker PROVE ~Making(v, i)'
  BY DEF Crash, Settled, Making
<1>. QED BY <1>1, <1>2 DEF Settled

LEMMA StepSettles ==
    ASSUME Inv, [Next]_vars, NEW i \in Id, Settled(i)
    PROVE  Settled(i)'
<1>1. ASSUME NEW h \in Handler, Chunked(h) \/ Single(h) PROVE Settled(i)'
  BY <1>1, BeginSettles, CreatePartSettles, CreatePartFailsSettles, PutUploadSettles,
     PutUploadFailsSettles,
     StartChunkSettles, AppendChunkSettles, AppendFailsSettles, AdvanceSettles,
     AdvanceFailsSettles, CompleteSettles, RenamePartSettles, PutArtifactSettles,
     PutArtifactFailsSettles, DeleteUploadSettles, ReceiveSettles, ReceiveAllSettles,
     RefuseFileSettles, ProbeFailsSettles DEF Chunked, Single
<1>2. ASSUME NEW c \in Cleaner, Clean(c) PROVE Settled(i)'
  BY <1>2, CleanSettles
<1>6. ASSUME NEW h \in Handler, UndoFails(h) PROVE Settled(i)'
  BY <1>6, UndoFailsSettles
<1>3. ASSUME NEW w \in Worker, Cleanup(w) PROVE Settled(i)'
  BY <1>3, SelectArtifactsSettles, SelectArtifactsInPartSettles,
     SelectUploadsSettles, SelectUploadsInPartSettles, RemoveSettles, RemoveFailsSettles,
     DeleteArtifactsSettles, DeleteUploadsSettles, CleaningFailsSettles DEF Cleanup
<1>4. CASE Crash(Handler) \/ Crash(Cleaner)
  BY <1>4, CrashSettles
<1>5. CASE Tick \/ UNCHANGED vars
  BY <1>5 DEF Tick, vars, Settled, Making
<1>. QED BY <1>1, <1>2, <1>3, <1>4, <1>5, <1>6 DEF Next

-----------------------------------------------------------------------------
(* No step takes a file that is still needed *)

\* What was settled before a step is settled after it.
Settling == \A i \in Id : Settled(i) => Settled(i)'

LEMMA BeginKeeps ==
    ASSUME Inv, KeepInv, Settling, NEW h \in Handler, Begin(h)
    PROVE  KeepInv'
<1>1. ASSUME NEW v \in Worker PROVE Held(v)'
  BY DEF Begin, KeepInv, Held, Settling, Expired, Inv, TypeOK, Take, StartCleaning
<1>2. ASSUME NEW i \in Id PROVE Stored(i)'
  BY DEF Begin, KeepInv, Stored, Settling, Expired
<1>. QED BY <1>1, <1>2 DEF KeepInv

LEMMA CreatePartKeeps ==
    ASSUME Inv, KeepInv, Settling, NEW h \in Handler, CreatePart(h)
    PROVE  KeepInv'
<1>1. ASSUME NEW v \in Worker PROVE Held(v)'
  BY DEF CreatePart, KeepInv, Held, Settling, Expired, Inv, TypeOK, WorkerInv, Mutexed,
     Alone
<1>2. ASSUME NEW i \in Id PROVE Stored(i)'
  <2>1. announced[i] = 0 => id[h] # i
    BY DEF Inv, StoreInv, Fresh
  <2>2. announced'[i] = 0 => parts'[i] = None
    BY <2>1 DEF CreatePart, KeepInv, Stored
  <2>. QED BY <2>2 DEF CreatePart, KeepInv, Stored, Settling, Expired
<1>. QED BY <1>1, <1>2 DEF KeepInv

LEMMA CreatePartFailsKeeps ==
    ASSUME Inv, KeepInv, Settling, NEW h \in Handler, CreatePartFails(h)
    PROVE  KeepInv'
<1>1. ASSUME NEW v \in Worker PROVE Held(v)'
  BY DEF CreatePartFails, KeepInv, Held, Settling, Expired, Inv, TypeOK, WorkerInv, Mutexed,
     Alone, Return
<1>2. ASSUME NEW i \in Id PROVE Stored(i)'
  <2>1. announced[i] = 0 => id[h] # i
    BY DEF Inv, StoreInv, Fresh
  <2>2. announced'[i] = 0 => parts'[i] = None
    BY <2>1 DEF CreatePartFails, KeepInv, Stored, Inv, TypeOK
  <2>. QED BY <2>2 DEF CreatePartFails, KeepInv, Stored, Settling, Expired
<1>. QED BY <1>1, <1>2 DEF KeepInv

LEMMA PutUploadKeeps ==
    ASSUME Inv, KeepInv, Settling, NEW h \in Handler, PutUpload(h)
    PROVE  KeepInv'
<1>1. ASSUME NEW v \in Worker PROVE Held(v)'
  BY DEF PutUpload, KeepInv, Held, Settling, Expired, Inv, TypeOK, Return
<1>2. ASSUME NEW i \in Id PROVE Stored(i)'
  BY DEF PutUpload, KeepInv, Stored, Settling, Expired
<1>. QED BY <1>1, <1>2 DEF KeepInv

LEMMA PutUploadFailsKeeps ==
    ASSUME Inv, KeepInv, Settling, NEW h \in Handler, PutUploadFails(h)
    PROVE  KeepInv'
<1>1. ASSUME NEW v \in Worker PROVE Held(v)'
  BY DEF PutUploadFails, KeepInv, Held, Settling, Expired, Inv, TypeOK, Return
<1>2. ASSUME NEW i \in Id PROVE Stored(i)'
  BY DEF PutUploadFails, KeepInv, Stored, Settling, Expired
<1>. QED BY <1>1, <1>2 DEF KeepInv

LEMMA StartChunkKeeps ==
    ASSUME Inv, KeepInv, Settling, NEW h \in Handler, StartChunk(h)
    PROVE  KeepInv'
<1>1. ASSUME NEW v \in Worker PROVE Held(v)'
  BY DEF StartChunk, KeepInv, Held, Settling, Expired, Inv, TypeOK, Take
<1>2. ASSUME NEW i \in Id PROVE Stored(i)'
  BY DEF StartChunk, KeepInv, Stored, Settling, Expired
<1>. QED BY <1>1, <1>2 DEF KeepInv

LEMMA AppendChunkKeeps ==
    ASSUME Inv, KeepInv, Settling, NEW h \in Handler, AppendChunk(h)
    PROVE  KeepInv'
<1>1. ASSUME NEW v \in Worker PROVE Held(v)'
  BY DEF AppendChunk, KeepInv, Held, Settling, Expired, Inv, TypeOK, WorkerInv, Mutexed,
     Alone, Return
<1>2. ASSUME NEW i \in Id PROVE Stored(i)'
  BY DEF AppendChunk, KeepInv, Stored, Settling, Expired, Inv, TypeOK
<1>. QED BY <1>1, <1>2 DEF KeepInv

LEMMA AppendFailsKeeps ==
    ASSUME Inv, KeepInv, Settling, NEW h \in Handler, AppendFails(h)
    PROVE  KeepInv'
<1>1. ASSUME NEW v \in Worker PROVE Held(v)'
  BY DEF AppendFails, KeepInv, Held, Settling, Expired, Inv, TypeOK, WorkerInv, Mutexed,
     Alone, Return
<1>2. ASSUME NEW i \in Id PROVE Stored(i)'
  BY DEF AppendFails, KeepInv, Stored, Settling, Expired, Inv, TypeOK
<1>. QED BY <1>1, <1>2 DEF KeepInv

LEMMA AdvanceKeeps ==
    ASSUME Inv, KeepInv, Settling, NEW h \in Handler, Advance(h)
    PROVE  KeepInv'
<1>1. ASSUME NEW v \in Worker PROVE Held(v)'
  BY DEF Advance, KeepInv, Held, Settling, Expired, Inv, TypeOK, Return
<1>2. ASSUME NEW i \in Id PROVE Stored(i)'
  BY DEF Advance, KeepInv, Stored, Settling, Expired
<1>. QED BY <1>1, <1>2 DEF KeepInv

LEMMA AdvanceFailsKeeps ==
    ASSUME Inv, KeepInv, Settling, NEW h \in Handler, AdvanceFails(h)
    PROVE  KeepInv'
<1>1. ASSUME NEW v \in Worker PROVE Held(v)'
  BY DEF AdvanceFails, KeepInv, Held, Settling, Expired, Inv, TypeOK, Return
<1>2. ASSUME NEW i \in Id PROVE Stored(i)'
  BY DEF AdvanceFails, KeepInv, Stored, Settling, Expired
<1>. QED BY <1>1, <1>2 DEF KeepInv

LEMMA CompleteKeeps ==
    ASSUME Inv, KeepInv, Settling, NEW h \in Handler, Complete(h)
    PROVE  KeepInv'
<1>1. ASSUME NEW v \in Worker PROVE Held(v)'
  BY DEF Complete, KeepInv, Held, Settling, Expired, Inv, TypeOK, Take
<1>2. ASSUME NEW i \in Id PROVE Stored(i)'
  BY DEF Complete, KeepInv, Stored, Settling, Expired
<1>. QED BY <1>1, <1>2 DEF KeepInv

LEMMA RenamePartKeeps ==
    ASSUME Inv, KeepInv, Settling, NEW h \in Handler, RenamePart(h)
    PROVE  KeepInv'
<1>1. ASSUME NEW v \in Worker PROVE Held(v)'
  BY DEF RenamePart, KeepInv, Held, Stored, Settling, Expired, Inv, TypeOK, WorkerInv,
     Mutexed, Alone, Return
<1>2. ASSUME NEW i \in Id PROVE Stored(i)'
  BY DEF RenamePart, KeepInv, Stored, Settling, Expired, Inv, TypeOK
<1>. QED BY <1>1, <1>2 DEF KeepInv

LEMMA PutArtifactKeeps ==
    ASSUME Inv, KeepInv, Settling, NEW h \in Handler, PutArtifact(h)
    PROVE  KeepInv'
<1>. DEFINE j == id[h]
<1>1. j \in Id /\ Making(h, j)
  BY DEF PutArtifact, Making, Inv, WorkerInv, Mutexed, Alone
<1>2. /\ files' = files /\ parts' = parts /\ paths' = paths /\ id' = id /\ now' = now
      /\ announced' = announced /\ uploadMu' = uploadMu
      /\ artifacts' = [artifacts EXCEPT ![j] = [digest |-> digest[h], expires |-> now + TTL]]
      /\ pc' = [pc EXCEPT ![h] = IF pc[h] = "renamed" THEN "registered" ELSE "select"]
      /\ due' \in {due, [due EXCEPT ![h] = now]}
  BY DEF PutArtifact, StartCleaning
<1>3. files[j] # None /\ parts[j] = None
  BY DEF PutArtifact, KeepInv, Held
<1>4. Settled(j)'
  <2>1. announced[j] # 0
    BY <1>1 DEF Inv, StoreInv, Fresh
  <2>2. ASSUME NEW v \in Worker PROVE ~Making(v, j)'
    <3>1. CASE v = h
      BY <1>2, <3>1 DEF Making, PutArtifact, Inv, TypeOK, WorkerInv, Mutexed
    <3>2. CASE v # h /\ pc[h] = "renamed"
      BY <1>2, <3>2 DEF Making, Inv, WorkerInv, Mutexed, Alone
    <3>3. CASE v # h /\ pc[h] = "received"
      BY <1>2, <3>3 DEF Making, Inv, WorkerInv, Alone
    <3>. QED BY <3>1, <3>2, <3>3 DEF PutArtifact
  <2>. QED BY <1>2, <1>3, <2>1, <2>2 DEF Settled
<1>5. ASSUME NEW v \in Worker PROVE Held(v)'
  <2>1. pc'[v] \in {"renamed", "remove"} \cup Solo => pc'[v] = pc[v]
    BY <1>2 DEF Inv, TypeOK
  <2>2. due'[v] <= now'
    <3>1. due[v] <= now /\ now <= now /\ due \in [Worker -> 0..MaxTime]
      BY DEF KeepInv, Held, Inv, TypeOK
    <3>. QED BY <1>2, <3>1
  <2>3. ASSUME NEW i \in paths[v], pc[v] = "remove"
        PROVE  i # j /\ Settled(i)' /\ artifacts'[i] = artifacts[i]
    <3>1. i \in Id /\ Settled(i)
      BY <2>3 DEF KeepInv, Held, Inv, TypeOK
    <3>2. i # j
      BY <1>1, <3>1 DEF Settled
    <3>. QED BY <1>2, <3>1, <3>2 DEF Settling, Inv, TypeOK
  <2>. QED BY <1>2, <2>1, <2>2, <2>3 DEF KeepInv, Held, Expired
<1>6. ASSUME NEW i \in Id PROVE Stored(i)'
  <2>1. CASE i = j
    BY <1>2, <1>3, <1>4, <2>1 DEF Stored, Settled
  <2>2. CASE i # j
    <3>1. artifacts'[i] = artifacts[i]
      BY <1>2, <2>2 DEF Inv, TypeOK
    <3>. QED BY <1>2, <3>1 DEF KeepInv, Stored, Settling, Expired
  <2>. QED BY <2>1, <2>2
<1>. QED BY <1>5, <1>6 DEF KeepInv

LEMMA PutArtifactFailsKeeps ==
    ASSUME Inv, KeepInv, Settling, NEW h \in Handler, PutArtifactFails(h)
    PROVE  KeepInv'
<1>1. ASSUME NEW v \in Worker PROVE Held(v)'
  BY DEF PutArtifactFails, KeepInv, Held, Settling, Expired, Inv, TypeOK, WorkerInv,
     Mutexed, Alone, Return
<1>2. ASSUME NEW i \in Id PROVE Stored(i)'
  <2>1. id[h] = i => announced[i] # 0 /\ artifacts[i] = None
    BY DEF PutArtifactFails, KeepInv, Stored, Settled, Making, Inv, StoreInv, Fresh
  <2>2. id[h] # i => files'[i] = files[i] /\ parts'[i] = parts[i]
    BY DEF PutArtifactFails, Inv, TypeOK
  <2>. QED BY <2>1, <2>2 DEF PutArtifactFails, KeepInv, Stored, Settling, Expired
<1>. QED BY <1>1, <1>2 DEF KeepInv

LEMMA DeleteUploadKeeps ==
    ASSUME Inv, KeepInv, Settling, NEW h \in Handler, DeleteUpload(h)
    PROVE  KeepInv'
<1>1. ASSUME NEW v \in Worker PROVE Held(v)'
  BY DEF DeleteUpload, KeepInv, Held, Settling, Expired, Inv, TypeOK, Return
<1>2. ASSUME NEW i \in Id PROVE Stored(i)'
  BY DEF DeleteUpload, KeepInv, Stored, Settling, Expired
<1>. QED BY <1>1, <1>2 DEF KeepInv

LEMMA ReceiveKeeps ==
    ASSUME Inv, KeepInv, Settling, NEW h \in Handler, Receive(h)
    PROVE  KeepInv'
<1>1. <<Cut>> # None
  <2>1. Cut \in Nat \cup {Cut}
    OBVIOUS
  <2>2. <<Cut>> \in Seq(Nat \cup {Cut})
    BY <2>1
  <2>. QED BY <2>2
<1>2. PICK j \in Id, total \in 1..MaxChunks :
         /\ announced[j] = 0 /\ announced' = [announced EXCEPT ![j] = total]
         /\ id' = [id EXCEPT ![h] = j] /\ files' = [files EXCEPT ![j] = <<Cut>>]
  BY DEF Receive
<1>3. parts'[j] = None /\ artifacts[j] = None /\ \A v \in Worker : id[v] # j
  BY <1>2 DEF Receive, KeepInv, Stored, Inv, StoreInv, Fresh
<1>4. ASSUME NEW v \in Worker PROVE Held(v)'
  <2>1. CASE v = h
    BY <1>2, <1>3, <2>1 DEF Receive, KeepInv, Held, Inv, TypeOK
  <2>2. CASE v # h
    BY <1>2, <1>3, <2>2 DEF Receive, KeepInv, Held, Settling, Expired, Inv, TypeOK
  <2>. QED BY <2>1, <2>2
<1>5. ASSUME NEW i \in Id PROVE Stored(i)'
  BY <1>1, <1>2, <1>3 DEF Receive, KeepInv, Stored, Settling, Expired
<1>. QED BY <1>4, <1>5 DEF KeepInv

LEMMA ReceiveAllKeeps ==
    ASSUME Inv, KeepInv, Settling, NEW h \in Handler, ReceiveAll(h)
    PROVE  KeepInv'
<1>1. /\ id[h] \in Id /\ files' = [files EXCEPT ![id[h]] = Whole(announced[id[h]])]
      /\ Whole(announced[id[h]]) # None
  BY SMTT(30), WholeFacts, NoneIsNoValue DEF ReceiveAll, Inv, TypeOK, WorkerInv, Alone
<1>2. ASSUME NEW v \in Worker PROVE Held(v)'
  BY <1>1 DEF ReceiveAll, KeepInv, Held, Settling, Expired, Inv, TypeOK
<1>3. ASSUME NEW i \in Id PROVE Stored(i)'
  BY <1>1 DEF ReceiveAll, KeepInv, Stored, Settling, Expired
<1>. QED BY <1>2, <1>3 DEF KeepInv

LEMMA RefuseFileKeeps ==
    ASSUME Inv, KeepInv, Settling, NEW h \in Handler, RefuseFile(h)
    PROVE  KeepInv'
<1>1. ASSUME NEW v \in Worker PROVE Held(v)'
  BY DEF RefuseFile, KeepInv, Held, Settling, Expired, Inv, TypeOK, WorkerInv, Alone,
     Return
<1>2. ASSUME NEW i \in Id PROVE Stored(i)'
  BY DEF RefuseFile, KeepInv, Stored, Settling, Expired, Inv, WorkerInv, Alone
<1>. QED BY <1>1, <1>2 DEF KeepInv

LEMMA ProbeFailsKeeps ==
    ASSUME Inv, KeepInv, Settling, NEW h \in Handler, ProbeFails(h)
    PROVE  KeepInv'
<1>1. ASSUME NEW v \in Worker PROVE Held(v)'
  BY DEF ProbeFails, KeepInv, Held, Settling, Expired, Inv, TypeOK, Return
<1>2. ASSUME NEW i \in Id PROVE Stored(i)'
  BY DEF ProbeFails, KeepInv, Stored, Settling, Expired
<1>. QED BY <1>1, <1>2 DEF KeepInv

LEMMA UndoFailsKeeps ==
    ASSUME Inv, KeepInv, Settling, NEW h \in Handler, UndoFails(h)
    PROVE  KeepInv'
<1>1. ASSUME NEW v \in Worker PROVE Held(v)'
  BY DEF UndoFails, KeepInv, Held, Settling, Expired, Inv, TypeOK, Return
<1>2. ASSUME NEW i \in Id PROVE Stored(i)'
  BY DEF UndoFails, KeepInv, Stored, Settling, Expired
<1>. QED BY <1>1, <1>2 DEF KeepInv

LEMMA SelectArtifactsKeeps ==
    ASSUME Inv, KeepInv, Settling, NEW w \in Worker, SelectArtifacts(w)
    PROVE  KeepInv'
<1>1. /\ paths' = [paths EXCEPT ![w] = Overdue(artifacts, w)]
      /\ pc' = [pc EXCEPT ![w] = "remove"]
      /\ UNCHANGED <<artifacts, parts, files, uploadMu, id, due, now, announced>>
  BY DEF SelectArtifacts
<1>2. ASSUME NEW i \in Overdue(artifacts, w) PROVE Settled(i)' /\ Expired(artifacts[i])
  <2>1. i \in Id /\ artifacts[i] # None /\ artifacts[i].expires <= due[w]
    BY <1>2 DEF Overdue
  <2>2. artifacts[i].expires \in Nat /\ due[w] \in Nat /\ now \in Nat /\ due[w] <= now
    BY <2>1 DEF KeepInv, Held, Inv, TypeOK, Artifact
  <2>3. Settled(i)'
    BY <2>1 DEF KeepInv, Stored, Settling
  <2>. QED BY <2>1, <2>2, <2>3 DEF Expired
<1>3. ASSUME NEW v \in Worker PROVE Held(v)'
  <2>1. CASE v = w
    BY <1>1, <1>2, <2>1 DEF KeepInv, Held, Expired, Inv, TypeOK
  <2>2. CASE v # w
    BY <1>1, <2>2 DEF KeepInv, Held, Settling, Expired, Inv, TypeOK
  <2>. QED BY <2>1, <2>2
<1>4. ASSUME NEW i \in Id PROVE Stored(i)'
  BY <1>1 DEF KeepInv, Stored, Settling, Expired
<1>. QED BY <1>3, <1>4 DEF KeepInv

LEMMA SelectArtifactsInPartKeeps ==
    ASSUME Inv, KeepInv, Settling, NEW w \in Worker, SelectArtifactsInPart(w)
    PROVE  KeepInv'
<1>1. PICK missed \in SUBSET Overdue(artifacts, w) :
      /\ paths' = [paths EXCEPT ![w] = Overdue(artifacts, w) \ missed]
      /\ pc' = [pc EXCEPT ![w] = "remove"]
      /\ UNCHANGED <<artifacts, parts, files, uploadMu, id, due, now, announced>>
  BY DEF SelectArtifactsInPart
<1>2. ASSUME NEW i \in Overdue(artifacts, w) PROVE Settled(i)' /\ Expired(artifacts[i])
  <2>1. i \in Id /\ artifacts[i] # None /\ artifacts[i].expires <= due[w]
    BY <1>2 DEF Overdue
  <2>2. artifacts[i].expires \in Nat /\ due[w] \in Nat /\ now \in Nat /\ due[w] <= now
    BY <2>1 DEF KeepInv, Held, Inv, TypeOK, Artifact
  <2>3. Settled(i)'
    BY <2>1 DEF KeepInv, Stored, Settling
  <2>. QED BY <2>1, <2>2, <2>3 DEF Expired
<1>3. ASSUME NEW v \in Worker PROVE Held(v)'
  <2>1. CASE v = w
    BY <1>1, <1>2, <2>1 DEF KeepInv, Held, Expired, Inv, TypeOK
  <2>2. CASE v # w
    BY <1>1, <2>2 DEF KeepInv, Held, Settling, Expired, Inv, TypeOK
  <2>. QED BY <2>1, <2>2
<1>4. ASSUME NEW i \in Id PROVE Stored(i)'
  BY <1>1 DEF KeepInv, Stored, Settling, Expired
<1>. QED BY <1>3, <1>4 DEF KeepInv

LEMMA SelectUploadsKeeps ==
    ASSUME Inv, KeepInv, Settling, NEW w \in Worker, SelectUploads(w)
    PROVE  KeepInv'
<1>1. ASSUME NEW v \in Worker PROVE Held(v)'
  BY DEF SelectUploads, KeepInv, Held, Settling, Expired, Inv, TypeOK
<1>2. ASSUME NEW i \in Id PROVE Stored(i)'
  BY DEF SelectUploads, KeepInv, Stored, Settling, Expired
<1>. QED BY <1>1, <1>2 DEF KeepInv

LEMMA SelectUploadsInPartKeeps ==
    ASSUME Inv, KeepInv, Settling, NEW w \in Worker, SelectUploadsInPart(w)
    PROVE  KeepInv'
<1>1. ASSUME NEW v \in Worker PROVE Held(v)'
  BY DEF SelectUploadsInPart, KeepInv, Held, Settling, Expired, Inv, TypeOK
<1>2. ASSUME NEW i \in Id PROVE Stored(i)'
  BY DEF SelectUploadsInPart, KeepInv, Stored, Settling, Expired
<1>. QED BY <1>1, <1>2 DEF KeepInv

LEMMA RemoveKeeps ==
    ASSUME Inv, KeepInv, Settling, NEW w \in Worker, Remove(w)
    PROVE  KeepInv'
<1>1. PICK j \in paths[w] :
         /\ paths' = [paths EXCEPT ![w] = @ \ {j}]
         /\ \/ pc[w] = "remove" /\ files' = [files EXCEPT ![j] = None] /\ parts' = parts
            \/ pc[w] = "removeParts" /\ parts' = [parts EXCEPT ![j] = None] /\ files' = files
  BY DEF Remove
<1>2. UNCHANGED <<artifacts, uploadMu, pc, id, due, now, announced>>
  BY DEF Remove
<1>3. j \in Id
  BY DEF Inv, TypeOK
<1>4. pc[w] = "remove" => Settled(j) /\ (artifacts[j] # None => Expired(artifacts[j]))
  BY DEF KeepInv, Held
<1>5. ASSUME NEW v \in Worker PROVE Held(v)'
  <2>0. pc[v] \in {"renamed"} \cup Solo => id[v] \in Id /\ parts[id[v]] = None
    BY DEF KeepInv, Held, Inv, WorkerInv, Mutexed, Alone
  <2>1. pc[v] \in {"renamed", "received"} => files'[id[v]] # None
    <3>1. pc[v] \in {"renamed", "received"} => files[id[v]] # None
      BY DEF KeepInv, Held
    <3>2. pc[w] = "remove" /\ pc[v] \in {"renamed", "received"} => id[v] # j
      BY <1>4 DEF Settled, Making
    <3>. QED BY <1>1, <2>0, <3>1, <3>2 DEF Inv, TypeOK
  <2>2. pc[v] \in {"renamed"} \cup Solo => parts'[id[v]] = None
    BY <1>1, <2>0 DEF Inv, TypeOK
  <2>3. paths'[v] \subseteq paths[v] /\ paths[v] \subseteq Id
    BY <1>1 DEF Inv, TypeOK
  <2>. QED BY <1>2, <2>1, <2>2, <2>3 DEF KeepInv, Held, Settling, Expired
<1>6. ASSUME NEW i \in Id PROVE Stored(i)'
  BY <1>1, <1>2, <1>4 DEF KeepInv, Stored, Settling, Expired, Inv, TypeOK
<1>. QED BY <1>5, <1>6 DEF KeepInv

LEMMA RemoveFailsKeeps ==
    ASSUME Inv, KeepInv, Settling, NEW w \in Worker, RemoveFails(w)
    PROVE  KeepInv'
<1>1. ASSUME NEW v \in Worker PROVE Held(v)'
  <2>1. paths'[v] \subseteq paths[v] /\ paths[v] \subseteq Id
    BY DEF RemoveFails, Inv, TypeOK
  <2>. QED BY <2>1 DEF RemoveFails, KeepInv, Held, Settling, Expired
<1>2. ASSUME NEW i \in Id PROVE Stored(i)'
  BY DEF RemoveFails, KeepInv, Stored, Settling, Expired
<1>. QED BY <1>1, <1>2 DEF KeepInv

LEMMA DeleteArtifactsKeeps ==
    ASSUME Inv, KeepInv, Settling, NEW w \in Worker, DeleteArtifacts(w)
    PROVE  KeepInv'
<1>1. ASSUME NEW v \in Worker PROVE Held(v)'
  BY DEF DeleteArtifacts, KeepInv, Held, Settling, Expired, Inv, TypeOK, Delete
<1>2. ASSUME NEW i \in Id PROVE Stored(i)'
  BY DEF DeleteArtifacts, KeepInv, Stored, Settling, Expired, Delete
<1>. QED BY <1>1, <1>2 DEF KeepInv

LEMMA DeleteUploadsKeeps ==
    ASSUME Inv, KeepInv, Settling, NEW w \in Worker, DeleteUploads(w)
    PROVE  KeepInv'
<1>. USE DEF DeleteUploads, EndCleaning
<1>1. ASSUME NEW v \in Worker PROVE Held(v)'
  <2>1. CASE uploadMu = w
    BY <2>1 DEF KeepInv, Held, Settling, Expired, Inv, TypeOK
  <2>2. CASE uploadMu # w
    <3>1. now \in Nat /\ Held(v)
      BY DEF KeepInv, Inv, TypeOK
    <3>2. CASE v = w
      BY <2>2, <3>1, <3>2 DEF Held, Inv, TypeOK, Return
    <3>3. CASE v # w
      BY <2>2, <3>1, <3>3 DEF Held, Settling, Expired, Inv, TypeOK, Return
    <3>. QED BY <3>2, <3>3
  <2>. QED BY <2>1, <2>2
<1>2. ASSUME NEW i \in Id PROVE Stored(i)'
  BY DEF KeepInv, Stored, Settling, Expired
<1>. QED BY <1>1, <1>2 DEF KeepInv

LEMMA CleaningFailsKeeps ==
    ASSUME Inv, KeepInv, Settling, NEW w \in Worker, CleaningFails(w)
    PROVE  KeepInv'
<1>1. ASSUME NEW v \in Worker PROVE Held(v)'
  BY DEF CleaningFails, KeepInv, Held, Settling, Expired, Inv, TypeOK, WorkerInv, Alone,
     Return, EndCleaning
<1>2. ASSUME NEW i \in Id PROVE Stored(i)'
  BY DEF CleaningFails, KeepInv, Stored, Settling, Expired
<1>. QED BY <1>1, <1>2 DEF KeepInv

LEMMA CleanKeeps ==
    ASSUME Inv, KeepInv, Settling, NEW c \in Cleaner, Clean(c)
    PROVE  KeepInv'
<1>1. ASSUME NEW v \in Worker PROVE Held(v)'
  BY DEF Clean, KeepInv, Held, Settling, Expired, Inv, TypeOK, StartCleaning
<1>2. ASSUME NEW i \in Id PROVE Stored(i)'
  BY DEF Clean, KeepInv, Stored, Settling, Expired
<1>. QED BY <1>1, <1>2 DEF KeepInv

LEMMA CrashKeeps ==
    ASSUME Inv, KeepInv, Settling, Crash(Handler) \/ Crash(Cleaner)
    PROVE  KeepInv'
<1>1. ASSUME NEW v \in Worker PROVE Held(v)'
  BY DEF Crash, KeepInv, Held, Settling, Expired, Inv, TypeOK
<1>2. ASSUME NEW i \in Id PROVE Stored(i)'
  BY DEF Crash, KeepInv, Stored, Settling, Expired
<1>. QED BY <1>1, <1>2 DEF KeepInv

LEMMA TickKeeps ==
    ASSUME Inv, KeepInv, Settling, Tick \/ UNCHANGED vars
    PROVE  KeepInv'
<1>1. now' >= now /\ {now, now'} \subseteq Nat
  BY DEF Tick, vars, Inv, TypeOK
<1>2. ASSUME NEW i \in Id, artifacts[i] # None, Expired(artifacts[i])
      PROVE  Expired(artifacts[i])'
  <2>1. artifacts'[i] = artifacts[i] /\ artifacts[i].expires \in Nat
    BY <1>2 DEF Tick, vars, Inv, TypeOK, Artifact
  <2>. QED BY <1>1, <1>2, <2>1 DEF Expired
<1>3. ASSUME NEW v \in Worker PROVE Held(v)'
  <2>1. due[v] \in Nat
    BY DEF Inv, TypeOK
  <2>. QED BY <1>1, <1>2, <2>1 DEF Tick, vars, KeepInv, Held, Settling, Inv, TypeOK
<1>4. ASSUME NEW i \in Id PROVE Stored(i)'
  BY <1>2 DEF Tick, vars, KeepInv, Stored, Settling
<1>. QED BY <1>3, <1>4 DEF KeepInv

LEMMA InitKeep == Init => KeepInv
BY DEF Init, KeepInv, Held, Stored

LEMMA StepKeep == Inv /\ KeepInv /\ [Next]_vars => KeepInv'
<1>. SUFFICES ASSUME Inv, KeepInv, [Next]_vars PROVE KeepInv'
  OBVIOUS
<1>0. Settling
  BY StepSettles DEF Settling
<1>1. ASSUME NEW h \in Handler, Chunked(h) \/ Single(h) PROVE KeepInv'
  BY <1>0, <1>1, BeginKeeps, CreatePartKeeps, CreatePartFailsKeeps, PutUploadKeeps,
     PutUploadFailsKeeps,
     StartChunkKeeps, AppendChunkKeeps, AppendFailsKeeps, AdvanceKeeps,
     AdvanceFailsKeeps, CompleteKeeps, RenamePartKeeps, PutArtifactKeeps,
     PutArtifactFailsKeeps, DeleteUploadKeeps, ReceiveKeeps, ReceiveAllKeeps,
     RefuseFileKeeps, ProbeFailsKeeps DEF Chunked, Single
<1>2. ASSUME NEW c \in Cleaner, Clean(c) PROVE KeepInv'
  BY <1>0, <1>2, CleanKeeps
<1>6. ASSUME NEW h \in Handler, UndoFails(h) PROVE KeepInv'
  BY <1>0, <1>6, UndoFailsKeeps
<1>3. ASSUME NEW w \in Worker, Cleanup(w) PROVE KeepInv'
  BY <1>0, <1>3, SelectArtifactsKeeps, SelectArtifactsInPartKeeps, SelectUploadsKeeps,
     SelectUploadsInPartKeeps, RemoveKeeps, RemoveFailsKeeps,
     DeleteArtifactsKeeps, DeleteUploadsKeeps, CleaningFailsKeeps DEF Cleanup
<1>4. CASE Crash(Handler) \/ Crash(Cleaner)
  BY <1>0, <1>4, CrashKeeps
<1>5. CASE Tick \/ UNCHANGED vars
  BY <1>0, <1>5, TickKeeps
<1>. QED BY <1>1, <1>2, <1>3, <1>4, <1>5, <1>6 DEF Next

-----------------------------------------------------------------------------
\* Until an artifact expires no cleaner, of the server or the helper, and no request
\* takes its file away (CleanupArtifacts), whatever fails or dies in between.
THEOREM ArtifactsAreKept == Spec => []KeptUntilExpiry
<1>1. KeepInv => KeptUntilExpiry
  BY DEF KeepInv, Stored, KeptUntilExpiry
<1>. QED BY <1>1, InitInv, StepInv, InitKeep, StepKeep, PTL DEF Spec

-----------------------------------------------------------------------------
(* What is on the disk can be resumed, or is known to a row *)

\* A new upload has nothing but its identifier until its row is inserted.
Beginning(h, i) ==
    uploadMu = h /\ id[h] = i /\ pc[h] \in Cleaning \cup {"create", "record"}

\* What a worker knows of its upload besides Holding.
Recording(w) == pc[w] = "record" => parts[id[w]] = Whole(0)
Reading(w) ==
    pc[w] \in {"open", "advance", "hashed", "renamed"} =>
        IF uploads[id[w]] = None THEN Expired(row[w])
        ELSE uploads[id[w]].expires = row[w].expires
Registering(w) == pc[w] = "registered" => parts[id[w]] = None

\* What is to be removed had expired when it was chosen, and the rows that are then
\* deleted have nothing left on the disk.
Choosing(w) ==
    pc[w] = "removeParts" =>
        \A i \in paths[w] :
            /\ announced[i] # 0 /\ (uploads[i] # None => uploads[i].expires <= due[w])
            /\ \A h \in Worker : ~Beginning(h, i)
ClearingParts(w) ==
    pc[w] = "removeParts" =>
        \A i \in Overdue(uploads, w) \ maimed : i \in paths[w] \/ parts[i] = None
ClearingFiles(w) ==
    pc[w] = "remove" =>
        \A i \in Overdue(artifacts, w) \ maimed : i \in paths[w] \/ files[i] = None

\* A session can go on, or a worker is about to see to that or to end it.
Resuming(i) ==
    uploads[i] # None /\ ~Expired(uploads[i]) =>
        \/ parts[i] = Whole(uploads[i].next)
        \/ \E h \in Worker : /\ uploadMu = h /\ id[h] = i
                             /\ \/ pc[h] = "advance" /\ parts[i] # None
                                \/ pc[h] \in {"renamed", "registered"}

\* A row leads to what is on the disk, or a worker is about to insert it.
LeadsToPart(i) ==
    parts[i] # None /\ uploads[i] = None =>
        \E h \in Worker : id[h] = i /\ pc[h] = "record"
LeadsToFile(i) ==
    files[i] # None /\ artifacts[i] = None =>
        \E h \in Worker : id[h] = i /\ pc[h] \in {"renamed"} \cup Solo

Tending(w) == /\ Recording(w) /\ Reading(w) /\ Registering(w)
              /\ Choosing(w) /\ ClearingParts(w) /\ ClearingFiles(w)
Tended(i) == Resuming(i) /\ LeadsToPart(i) /\ LeadsToFile(i)

TendInv == (\A w \in Worker : Tending(w)) /\ (\A i \in Id \ maimed : Tended(i))

\* What the steps need of the other invariants.
Known == /\ TypeOK
         /\ \A w \in Worker : Mutexed(w) /\ Holding(w) /\ Alone(w) /\ Held(w)
         /\ \A i \in Id : Fresh(i) /\ Session(i) /\ Stored(i)

LEMMA WhatIsKnown == Inv /\ KeepInv => Known
BY DEF Inv, KeepInv, Known, WorkerInv, StoreInv

LEMMA NewWhole == Whole(0) = <<>>
BY WholeFacts

\* The worker and what it holds do not change.
Stays(v) ==
    /\ pc'[v] = pc[v] /\ id'[v] = id[v] /\ row'[v] = row[v] /\ due'[v] = due[v]
    /\ paths'[v] = paths[v] /\ (uploadMu' = v <=> uploadMu = v)

LEMMA Tends == ASSUME TendInv, NEW i \in Id, i \notin maimed PROVE Tended(i)
BY DEF TendInv

LEMMA Rows == Known => now \in Nat /\ \A i \in Id : uploads[i] \in Upload \cup {None}
BY DEF Known, TypeOK

\* An identifier nobody moves on keeps what leads to it.
LEMMA ResumingStays ==
    ASSUME Known, TendInv, NEW i \in Id, i \notin maimed,
           uploads'[i] \in {uploads[i], None}, parts'[i] = parts[i],
           now' \in Nat, now <= now',
           \A g \in Worker : /\ uploadMu = g /\ id[g] = i
                             /\ pc[g] \in {"advance", "renamed", "registered"}
                             => Stays(g)
    PROVE  Resuming(i)'
<1>1. ASSUME uploads'[i] # None, ~Expired(uploads[i])' PROVE ~Expired(uploads[i])
  <2>1. uploads'[i] = uploads[i] /\ uploads[i] # None
    BY <1>1
  <2>2. uploads[i] \in Upload /\ now \in Nat
    BY <2>1, Rows
  <2>. QED BY <1>1, <2>1, <2>2 DEF Expired, Upload
<1>2. Resuming(i)
  BY Tends DEF Tended
<1>. QED BY <1>1, <1>2 DEF Resuming, Stays

LEMMA FileStays ==
    ASSUME TendInv, NEW i \in Id, i \notin maimed, files'[i] \in {files[i], None},
           artifacts'[i] = None => artifacts[i] = None,
           \A g \in Worker : id[g] = i /\ pc[g] \in {"renamed"} \cup Solo => Stays(g)
    PROVE  LeadsToFile(i)'
BY DEF TendInv, Tended, LeadsToFile, Stays

LEMMA PartStays ==
    ASSUME TendInv, NEW i \in Id, i \notin maimed, parts'[i] = None \/ parts[i] # None,
           uploads'[i] = None => uploads[i] = None,
           \A g \in Worker : id[g] = i /\ pc[g] = "record" => Stays(g)
    PROVE  LeadsToPart(i)'
BY DEF TendInv, Tended, LeadsToPart, Stays

\* A worker that does not move keeps what it knows, as long as the step only takes
\* things away from what it works on.
LEMMA ReadingStays ==
    ASSUME Known, TendInv, NEW v \in Worker, Stays(v), now' \in Nat, now <= now',
           pc[v] \in {"open", "advance", "hashed", "renamed"}
             => uploads'[id[v]] = uploads[id[v]]
    PROVE  Reading(v)'
<1>1. Reading(v) /\ now \in Nat
  BY DEF TendInv, Tending, Known, TypeOK
<1>2. CASE pc[v] \in {"open", "advance", "hashed", "renamed"}
  <2>1. row[v] \in Upload
    BY <1>2 DEF Known, Mutexed
  <2>2. Expired(row[v]) => Expired(row[v])'
    BY <1>1, <2>1 DEF Expired, Upload, Stays
  <2>. QED BY <1>1, <1>2, <2>2 DEF Reading, Stays
<1>3. CASE pc[v] \notin {"open", "advance", "hashed", "renamed"}
  BY <1>3 DEF Reading, Stays
<1>. QED BY <1>2, <1>3

LEMMA ChoosingStays ==
    ASSUME TendInv, NEW v \in Worker, Stays(v), paths[v] \subseteq Id,
           \A i \in Id : /\ announced[i] # 0 => announced'[i] # 0
                         /\ uploads'[i] \in {uploads[i], None},
           \A g \in Worker, i \in Id : announced[i] # 0 /\ Beginning(g, i)' => Beginning(g, i)
    PROVE  Choosing(v)'
<1>1. Choosing(v)
  BY DEF TendInv, Tending
<1>2. SUFFICES ASSUME pc[v] = "removeParts", NEW i \in paths[v]
               PROVE  /\ announced'[i] # 0
                      /\ uploads'[i] # None => uploads'[i].expires <= due[v]
                      /\ \A g \in Worker : ~Beginning(g, i)'
  BY DEF Choosing, Stays
<1>3. /\ announced[i] # 0 /\ (uploads[i] # None => uploads[i].expires <= due[v])
      /\ \A g \in Worker : ~Beginning(g, i)
  BY <1>1, <1>2 DEF Choosing
<1>. QED BY <1>2, <1>3

LEMMA ClearingPartsStays ==
    ASSUME TendInv, NEW v \in Worker, Stays(v), maimed \subseteq maimed',
           \A i \in Overdue(uploads, v)' \ maimed' :
             i \in Overdue(uploads, v) /\ parts'[i] \in {parts[i], None}
    PROVE  ClearingParts(v)'
<1>1. ClearingParts(v)
  BY DEF TendInv, Tending
<1>. QED BY <1>1 DEF ClearingParts, Stays

LEMMA ClearingFilesStays ==
    ASSUME TendInv, NEW v \in Worker, Stays(v), maimed \subseteq maimed',
           \A i \in Overdue(artifacts, v)' \ maimed' :
             i \in Overdue(artifacts, v) /\ files'[i] \in {files[i], None}
    PROVE  ClearingFiles(v)'
<1>1. ClearingFiles(v)
  BY DEF TendInv, Tending
<1>. QED BY <1>1 DEF ClearingFiles, Stays

LEMMA BeginTends ==
    ASSUME Known, TendInv, NEW h \in Handler, Begin(h)
    PROVE  TendInv'
<1>1. ASSUME NEW v \in Worker PROVE Recording(v)'
  BY DEF Begin, Lock, Take, StartCleaning, Known, TypeOK, Mutexed, Recording, Tending,
     TendInv
<1>2. ASSUME NEW v \in Worker PROVE Reading(v)'
  BY DEF Begin, Lock, Take, StartCleaning, Expired, Known, TypeOK, Mutexed, Reading,
     Tending, TendInv
<1>3. ASSUME NEW v \in Worker PROVE Registering(v)'
  BY DEF Begin, Lock, Take, StartCleaning, Known, TypeOK, Mutexed, Registering, Tending,
     TendInv
<1>4. ASSUME NEW v \in Worker PROVE Choosing(v)'
  BY DEF Begin, Lock, Take, StartCleaning, Beginning, Known, TypeOK, Mutexed, Choosing,
     Tending, TendInv
<1>5. ASSUME NEW v \in Worker PROVE ClearingParts(v)'
  BY DEF Begin, Lock, Take, StartCleaning, Overdue, Known, TypeOK, Mutexed,
     ClearingParts, Tending, TendInv
<1>6. ASSUME NEW v \in Worker PROVE ClearingFiles(v)'
  BY DEF Begin, Lock, Take, StartCleaning, Overdue, Known, TypeOK, Mutexed,
     ClearingFiles, Tending, TendInv
<1>7. ASSUME NEW i \in Id \ maimed' PROVE Resuming(i)'
  <2>1. /\ uploads'[i] \in {uploads[i], None} /\ parts'[i] = parts[i] /\ i \notin maimed
        /\ now' \in Nat /\ now <= now'
    BY DEF Begin, Lock, Take, StartCleaning, Known, TypeOK
  <2>2. ASSUME NEW g \in Worker, uploadMu = g, id[g] = i,
               pc[g] \in {"advance", "renamed", "registered"}
        PROVE  Stays(g)
    BY <2>2 DEF Begin, Lock, Take, StartCleaning, Stays, Known, TypeOK, Mutexed
  <2>. QED BY <2>1, <2>2, ResumingStays
<1>8. ASSUME NEW i \in Id \ maimed' PROVE LeadsToPart(i)'
  BY DEF Begin, Lock, Take, StartCleaning, Known, TypeOK, Mutexed, LeadsToPart, Tended,
     TendInv
<1>9. ASSUME NEW i \in Id \ maimed' PROVE LeadsToFile(i)'
  <2>1. /\ files'[i] \in {files[i], None} /\ i \notin maimed
        /\ artifacts'[i] = None => artifacts[i] = None
    BY DEF Begin, Lock, Take, StartCleaning, Known, TypeOK
  <2>2. ASSUME NEW g \in Worker, id[g] = i, pc[g] \in {"renamed"} \cup Solo PROVE Stays(g)
    BY <2>2 DEF Begin, Lock, Take, StartCleaning, Stays, Known, TypeOK, Mutexed
  <2>. QED BY <2>1, <2>2, FileStays
<1>. QED BY <1>1, <1>2, <1>3, <1>4, <1>5, <1>6, <1>7, <1>8, <1>9 DEF TendInv, Tending,
   Tended

LEMMA CreatePartTends ==
    ASSUME Known, TendInv, NEW h \in Handler, CreatePart(h)
    PROVE  TendInv'
<1>1. ASSUME NEW v \in Worker PROVE Recording(v)'
  BY NewWhole DEF CreatePart, Known, TypeOK, Mutexed, Recording, Tending, TendInv
<1>2. ASSUME NEW v \in Worker PROVE Reading(v)'
  BY DEF CreatePart, Expired, Known, TypeOK, Mutexed, Reading, Tending, TendInv
<1>3. ASSUME NEW v \in Worker PROVE Registering(v)'
  BY DEF CreatePart, Known, TypeOK, Mutexed, Registering, Tending, TendInv
<1>4. ASSUME NEW v \in Worker PROVE Choosing(v)'
  BY DEF CreatePart, Beginning, Known, TypeOK, Mutexed, Choosing, Tending, TendInv
<1>5. ASSUME NEW v \in Worker PROVE ClearingParts(v)'
  BY DEF CreatePart, Overdue, Known, TypeOK, Mutexed, ClearingParts, Tending, TendInv,
     Holding
<1>6. ASSUME NEW v \in Worker PROVE ClearingFiles(v)'
  BY DEF CreatePart, Overdue, Known, TypeOK, Mutexed, ClearingFiles, Tending, TendInv
<1>7. ASSUME NEW i \in Id \ maimed' PROVE Resuming(i)'
  <2>1. CASE i = id[h]
    <3>1. uploads'[i] = None
      BY <2>1 DEF CreatePart, Known, Mutexed, Holding
    <3>. QED BY <3>1 DEF Resuming
  <2>2. CASE i # id[h]
    <3>1. /\ uploads'[i] = uploads[i] /\ parts'[i] = parts[i] /\ i \notin maimed
          /\ now' \in Nat /\ now <= now'
      BY <2>2 DEF CreatePart, Known, TypeOK
    <3>2. ASSUME NEW g \in Worker, uploadMu = g, id[g] = i PROVE Stays(g)
      BY <2>2, <3>2 DEF CreatePart, Stays, Known, TypeOK, Mutexed
    <3>. QED BY <3>1, <3>2, ResumingStays
  <2>. QED BY <2>1, <2>2
<1>8. ASSUME NEW i \in Id \ maimed' PROVE LeadsToPart(i)'
  BY DEF CreatePart, Known, TypeOK, Mutexed, LeadsToPart, Tended, TendInv
<1>9. ASSUME NEW i \in Id \ maimed' PROVE LeadsToFile(i)'
  <2>1. /\ files'[i] \in {files[i], None} /\ i \notin maimed
        /\ artifacts'[i] = None => artifacts[i] = None
    BY DEF CreatePart, Known, TypeOK
  <2>2. ASSUME NEW g \in Worker, id[g] = i, pc[g] \in {"renamed"} \cup Solo PROVE Stays(g)
    BY <2>2 DEF CreatePart, Stays, Known, TypeOK, Mutexed
  <2>. QED BY <2>1, <2>2, FileStays
<1>. QED BY <1>1, <1>2, <1>3, <1>4, <1>5, <1>6, <1>7, <1>8, <1>9 DEF TendInv, Tending,
   Tended

LEMMA CreatePartFailsTends ==
    ASSUME Known, TendInv, NEW h \in Handler, CreatePartFails(h)
    PROVE  TendInv'
<1>1. ASSUME NEW v \in Worker PROVE Recording(v)'
  BY DEF CreatePartFails, Return, Fail, Known, TypeOK, Mutexed, Recording, Tending,
     TendInv
<1>2. ASSUME NEW v \in Worker PROVE Reading(v)'
  BY DEF CreatePartFails, Return, Fail, Expired, Known, TypeOK, Mutexed, Reading,
     Tending, TendInv
<1>3. ASSUME NEW v \in Worker PROVE Registering(v)'
  BY DEF CreatePartFails, Return, Fail, Known, TypeOK, Mutexed, Registering, Tending,
     TendInv
<1>4. ASSUME NEW v \in Worker PROVE Choosing(v)'
  BY DEF CreatePartFails, Return, Fail, Beginning, Known, TypeOK, Mutexed, Choosing,
     Tending, TendInv
<1>5. ASSUME NEW v \in Worker PROVE ClearingParts(v)'
  BY DEF CreatePartFails, Return, Fail, Overdue, Known, TypeOK, Mutexed, ClearingParts,
     Tending, TendInv
<1>6. ASSUME NEW v \in Worker PROVE ClearingFiles(v)'
  BY DEF CreatePartFails, Return, Fail, Overdue, Known, TypeOK, Mutexed, ClearingFiles,
     Tending, TendInv
<1>0. \/ UNCHANGED <<parts, maimed>>
      \/ parts' = [parts EXCEPT ![id[h]] = <<>>] /\ maimed' = maimed \cup {id[h]}
  BY DEF CreatePartFails
<1>7. ASSUME NEW i \in Id \ maimed' PROVE Resuming(i)'
  <2>1. CASE i = id[h]
    <3>1. uploads'[i] = None
      BY <2>1 DEF CreatePartFails, Return, Fail, Known, Mutexed, Holding
    <3>. QED BY <3>1 DEF Resuming
  <2>2. CASE i # id[h]
    <3>1. /\ uploads'[i] = uploads[i] /\ parts'[i] = parts[i] /\ i \notin maimed
          /\ now' \in Nat /\ now <= now'
      BY <2>2 DEF CreatePartFails, Return, Fail, Known, TypeOK
    <3>2. ASSUME NEW g \in Worker, uploadMu = g, id[g] = i PROVE Stays(g)
      BY <2>2, <3>2 DEF CreatePartFails, Return, Fail, Stays, Known, TypeOK, Mutexed
    <3>. QED BY <3>1, <3>2, ResumingStays
  <2>. QED BY <2>1, <2>2
<1>8. ASSUME NEW i \in Id \ maimed' PROVE LeadsToPart(i)'
  BY DEF CreatePartFails, Return, Fail, Known, TypeOK, Mutexed, LeadsToPart, Tended,
     TendInv
<1>9. ASSUME NEW i \in Id \ maimed' PROVE LeadsToFile(i)'
  <2>1. /\ files'[i] \in {files[i], None} /\ i \notin maimed
        /\ artifacts'[i] = None => artifacts[i] = None
    BY DEF CreatePartFails, Return, Fail, Known, TypeOK
  <2>2. ASSUME NEW g \in Worker, id[g] = i, pc[g] \in {"renamed"} \cup Solo PROVE Stays(g)
    BY <2>2 DEF CreatePartFails, Return, Fail, Stays, Known, TypeOK, Mutexed
  <2>. QED BY <2>1, <2>2, FileStays
<1>. QED BY <1>1, <1>2, <1>3, <1>4, <1>5, <1>6, <1>7, <1>8, <1>9 DEF TendInv, Tending,
   Tended

LEMMA PutUploadTends ==
    ASSUME Known, TendInv, NEW h \in Handler, PutUpload(h)
    PROVE  TendInv'
<1>1. ASSUME NEW v \in Worker PROVE Recording(v)'
  BY DEF PutUpload, Return, Known, TypeOK, Mutexed, Recording, Tending, TendInv
<1>2. ASSUME NEW v \in Worker PROVE Reading(v)'
  BY DEF PutUpload, Return, Expired, Known, TypeOK, Mutexed, Reading, Tending, TendInv
<1>3. ASSUME NEW v \in Worker PROVE Registering(v)'
  BY DEF PutUpload, Return, Known, TypeOK, Mutexed, Registering, Tending, TendInv
<1>4. ASSUME NEW v \in Worker PROVE Choosing(v)'
  BY DEF PutUpload, Return, Beginning, Known, TypeOK, Mutexed, Choosing, Tending,
     TendInv
<1>5. ASSUME NEW v \in Worker PROVE ClearingParts(v)'
  <2>1. /\ row[h] \in Upload /\ id[h] \in Id /\ pc'[h] = "idle"
        /\ uploads' = [uploads EXCEPT ![id[h]] = [row[h] EXCEPT !.expires = now + TTL]]
        /\ v # h => Stays(v)
        /\ UNCHANGED <<parts, maimed>>
    BY DEF PutUpload, Return, Stays, Known, TypeOK, Mutexed
  <2>2. due[v] <= now /\ due[v] \in Nat /\ now \in Nat /\ TTL \in Nat \ {0}
    BY DEF Known, Held, TypeOK
  <2>3. uploads'[id[h]].expires = now + TTL /\ \A j \in Id \ {id[h]} : uploads'[j] = uploads[j]
    BY <2>1 DEF Known, TypeOK, Upload
  <2>4. v # h => Overdue(uploads, v)' \subseteq Overdue(uploads, v)
    BY <2>1, <2>2, <2>3 DEF Overdue, Stays
  <2>. QED BY <2>1, <2>4 DEF ClearingParts, TendInv, Tending, Stays
<1>6. ASSUME NEW v \in Worker PROVE ClearingFiles(v)'
  BY DEF PutUpload, Return, Overdue, Known, TypeOK, Mutexed, ClearingFiles, Tending,
     TendInv
<1>7. ASSUME NEW i \in Id \ maimed' PROVE Resuming(i)'
  <2>1. CASE i = id[h]
    <3>1. /\ id[h] \in Id /\ row[h] \in Upload /\ row[h].next = 0
          /\ uploads'[i] = [row[h] EXCEPT !.expires = now + TTL]
      BY <2>1 DEF PutUpload, Return, Known, TypeOK, Mutexed, Holding
    <3>2. uploads'[i].next = 0 /\ parts'[i] = Whole(0)
      BY <2>1, <3>1 DEF PutUpload, Return, Upload, TendInv, Tending, Recording
    <3>. QED BY <3>2 DEF Resuming
  <2>2. CASE i # id[h]
    <3>1. /\ uploads'[i] = uploads[i] /\ parts'[i] = parts[i] /\ i \notin maimed
          /\ now' \in Nat /\ now <= now'
      BY <2>2 DEF PutUpload, Return, Known, TypeOK
    <3>2. ASSUME NEW g \in Worker, uploadMu = g, id[g] = i PROVE Stays(g)
      BY <2>2, <3>2 DEF PutUpload, Return, Stays, Known, TypeOK, Mutexed
    <3>. QED BY <3>1, <3>2, ResumingStays
  <2>. QED BY <2>1, <2>2
<1>8. ASSUME NEW i \in Id \ maimed' PROVE LeadsToPart(i)'
  <2>1. /\ row[h] \in Upload /\ id[h] \in Id
        /\ uploads' = [uploads EXCEPT ![id[h]] = [row[h] EXCEPT !.expires = now + TTL]]
    BY DEF PutUpload, Return, Known, Mutexed
  <2>2. [row[h] EXCEPT !.expires = now + TTL] \in Upload
    <3>1. now + TTL \in Nat
      BY DEF Known, TypeOK
    <3>. QED BY <2>1, <3>1 DEF Upload
  <2>3. uploads'[id[h]] # None /\ \A j \in Id \ {id[h]} : uploads'[j] = uploads[j]
    BY <2>1, <2>2, NoneIsNoValue DEF Known, TypeOK
  <2>4. /\ parts'[i] = parts[i] /\ i \notin maimed
        /\ i # id[h] => \A g \in Worker : id[g] = i => Stays(g)
    BY DEF PutUpload, Return, Stays, Known, TypeOK, Mutexed
  <2>5. CASE i = id[h]
    BY <2>3, <2>5 DEF LeadsToPart
  <2>6. CASE i # id[h]
    BY <2>3, <2>4, <2>6, PartStays
  <2>. QED BY <2>5, <2>6
<1>9. ASSUME NEW i \in Id \ maimed' PROVE LeadsToFile(i)'
  <2>1. /\ files'[i] \in {files[i], None} /\ i \notin maimed
        /\ artifacts'[i] = None => artifacts[i] = None
    BY DEF PutUpload, Return, Known, TypeOK
  <2>2. ASSUME NEW g \in Worker, id[g] = i, pc[g] \in {"renamed"} \cup Solo PROVE Stays(g)
    BY <2>2 DEF PutUpload, Return, Stays, Known, TypeOK, Mutexed
  <2>. QED BY <2>1, <2>2, FileStays
<1>. QED BY <1>1, <1>2, <1>3, <1>4, <1>5, <1>6, <1>7, <1>8, <1>9 DEF TendInv, Tending,
   Tended

LEMMA PutUploadFailsTends ==
    ASSUME Known, TendInv, NEW h \in Handler, PutUploadFails(h)
    PROVE  TendInv'
<1>1. ASSUME NEW v \in Worker PROVE Recording(v)'
  BY DEF PutUploadFails, Return, Fail, Known, TypeOK, Mutexed, Recording, Tending,
     TendInv
<1>2. ASSUME NEW v \in Worker PROVE Reading(v)'
  BY DEF PutUploadFails, Return, Fail, Expired, Known, TypeOK, Mutexed, Reading,
     Tending, TendInv
<1>3. ASSUME NEW v \in Worker PROVE Registering(v)'
  BY DEF PutUploadFails, Return, Fail, Known, TypeOK, Mutexed, Registering, Tending,
     TendInv
<1>4. ASSUME NEW v \in Worker PROVE Choosing(v)'
  BY DEF PutUploadFails, Return, Fail, Beginning, Known, TypeOK, Mutexed, Choosing,
     Tending, TendInv
<1>5. ASSUME NEW v \in Worker PROVE ClearingParts(v)'
  BY DEF PutUploadFails, Return, Fail, Overdue, Known, TypeOK, Mutexed, ClearingParts,
     Tending, TendInv
<1>6. ASSUME NEW v \in Worker PROVE ClearingFiles(v)'
  BY DEF PutUploadFails, Return, Fail, Overdue, Known, TypeOK, Mutexed, ClearingFiles,
     Tending, TendInv
<1>7. ASSUME NEW i \in Id \ maimed' PROVE Resuming(i)'
  <2>1. CASE i = id[h]
    <3>1. uploads'[i] = None
      BY <2>1 DEF PutUploadFails, Return, Fail, Known, Mutexed, Holding
    <3>. QED BY <3>1 DEF Resuming
  <2>2. CASE i # id[h]
    <3>1. /\ uploads'[i] = uploads[i] /\ parts'[i] = parts[i] /\ i \notin maimed
          /\ now' \in Nat /\ now <= now'
      BY <2>2 DEF PutUploadFails, Return, Fail, Known, TypeOK
    <3>2. ASSUME NEW g \in Worker, uploadMu = g, id[g] = i PROVE Stays(g)
      BY <2>2, <3>2 DEF PutUploadFails, Return, Fail, Stays, Known, TypeOK, Mutexed
    <3>. QED BY <3>1, <3>2, ResumingStays
  <2>. QED BY <2>1, <2>2
<1>8. ASSUME NEW i \in Id \ maimed' PROVE LeadsToPart(i)'
  BY DEF PutUploadFails, Return, Fail, Known, TypeOK, Mutexed, LeadsToPart, Tended,
     TendInv
<1>9. ASSUME NEW i \in Id \ maimed' PROVE LeadsToFile(i)'
  <2>1. /\ files'[i] \in {files[i], None} /\ i \notin maimed
        /\ artifacts'[i] = None => artifacts[i] = None
    BY DEF PutUploadFails, Return, Fail, Known, TypeOK
  <2>2. ASSUME NEW g \in Worker, id[g] = i, pc[g] \in {"renamed"} \cup Solo PROVE Stays(g)
    BY <2>2 DEF PutUploadFails, Return, Fail, Stays, Known, TypeOK, Mutexed
  <2>. QED BY <2>1, <2>2, FileStays
<1>. QED BY <1>1, <1>2, <1>3, <1>4, <1>5, <1>6, <1>7, <1>8, <1>9 DEF TendInv, Tending,
   Tended

LEMMA StartChunkTends ==
    ASSUME Known, TendInv, NEW h \in Handler, StartChunk(h)
    PROVE  TendInv'
<1>1. ASSUME NEW v \in Worker PROVE Recording(v)'
  BY DEF StartChunk, Lock, Take, Expired, Known, TypeOK, Mutexed, Recording, Tending,
     TendInv
<1>2. ASSUME NEW v \in Worker PROVE Reading(v)'
  BY DEF StartChunk, Lock, Take, Expired, Known, TypeOK, Mutexed, Reading, Tending,
     TendInv
<1>3. ASSUME NEW v \in Worker PROVE Registering(v)'
  BY DEF StartChunk, Lock, Take, Expired, Known, TypeOK, Mutexed, Registering, Tending,
     TendInv
<1>4. ASSUME NEW v \in Worker PROVE Choosing(v)'
  BY DEF StartChunk, Lock, Take, Expired, Beginning, Known, TypeOK, Mutexed, Choosing,
     Tending, TendInv
<1>5. ASSUME NEW v \in Worker PROVE ClearingParts(v)'
  BY DEF StartChunk, Lock, Take, Expired, Overdue, Known, TypeOK, Mutexed,
     ClearingParts, Tending, TendInv
<1>6. ASSUME NEW v \in Worker PROVE ClearingFiles(v)'
  BY DEF StartChunk, Lock, Take, Expired, Overdue, Known, TypeOK, Mutexed,
     ClearingFiles, Tending, TendInv
<1>7. ASSUME NEW i \in Id \ maimed' PROVE Resuming(i)'
  <2>1. /\ uploads'[i] \in {uploads[i], None} /\ parts'[i] = parts[i] /\ i \notin maimed
        /\ now' \in Nat /\ now <= now'
    BY DEF StartChunk, Lock, Take, Expired, Known, TypeOK
  <2>2. ASSUME NEW g \in Worker, uploadMu = g, id[g] = i,
               pc[g] \in {"advance", "renamed", "registered"}
        PROVE  Stays(g)
    BY <2>2 DEF StartChunk, Lock, Take, Expired, Stays, Known, TypeOK, Mutexed
  <2>. QED BY <2>1, <2>2, ResumingStays
<1>8. ASSUME NEW i \in Id \ maimed' PROVE LeadsToPart(i)'
  BY DEF StartChunk, Lock, Take, Expired, Known, TypeOK, Mutexed, LeadsToPart, Tended,
     TendInv
<1>9. ASSUME NEW i \in Id \ maimed' PROVE LeadsToFile(i)'
  <2>1. /\ files'[i] \in {files[i], None} /\ i \notin maimed
        /\ artifacts'[i] = None => artifacts[i] = None
    BY DEF StartChunk, Lock, Take, Expired, Known, TypeOK
  <2>2. ASSUME NEW g \in Worker, id[g] = i, pc[g] \in {"renamed"} \cup Solo PROVE Stays(g)
    BY <2>2 DEF StartChunk, Lock, Take, Expired, Stays, Known, TypeOK, Mutexed
  <2>. QED BY <2>1, <2>2, FileStays
<1>. QED BY <1>1, <1>2, <1>3, <1>4, <1>5, <1>6, <1>7, <1>8, <1>9 DEF TendInv, Tending,
   Tended

LEMMA AppendChunkTends ==
    ASSUME Known, TendInv, NEW h \in Handler, AppendChunk(h)
    PROVE  TendInv'
<1>1. ASSUME NEW v \in Worker PROVE Recording(v)'
  BY DEF AppendChunk, Return, Known, TypeOK, Mutexed, Recording, Tending, TendInv
<1>2. ASSUME NEW v \in Worker PROVE Reading(v)'
  <2>1. CASE v = h
    <3>1. /\ pc'[h] = "idle" \/ (pc'[h] = "advance" /\ id'[h] = id[h] /\ row'[h] = row[h])
          /\ uploads' = uploads /\ now' = now /\ pc[h] = "open"
      BY DEF AppendChunk, Return, Known, TypeOK
    <3>. QED BY <2>1, <3>1 DEF Reading, TendInv, Tending, Expired
  <2>2. CASE v # h
    <3>1. Stays(v)
      BY <2>2 DEF AppendChunk, Return, Stays, Known, TypeOK, Mutexed
    <3>2. uploads' = uploads /\ now' \in Nat /\ now <= now'
      BY DEF AppendChunk, Return, Known, TypeOK
    <3>. QED BY <3>1, <3>2, ReadingStays
  <2>. QED BY <2>1, <2>2
<1>3. ASSUME NEW v \in Worker PROVE Registering(v)'
  BY DEF AppendChunk, Return, Known, TypeOK, Mutexed, Registering, Tending, TendInv
<1>4. ASSUME NEW v \in Worker PROVE Choosing(v)'
  <2>1. CASE v = h
    <3>1. pc'[h] \in {"idle", "advance"}
      BY DEF AppendChunk, Return, Known, TypeOK, Mutexed
    <3>. QED BY <2>1, <3>1 DEF Choosing
  <2>2. CASE v # h
    <3>1. Stays(v)
      BY <2>2 DEF AppendChunk, Return, Stays, Known, TypeOK, Mutexed
    <3>2. paths[v] \subseteq Id
      BY DEF Known, TypeOK
    <3>3. \A j \in Id : /\ announced[j] # 0 => announced'[j] # 0
                      /\ uploads'[j] \in {uploads[j], None}
      BY DEF AppendChunk, Return, Known, TypeOK, Overdue
    <3>4. \A g \in Worker, j \in Id : announced[j] # 0 /\ Beginning(g, j)' => Beginning(g, j)
      BY DEF AppendChunk, Return, Known, TypeOK, Mutexed, Beginning
    <3>. QED BY <3>1, <3>2, <3>3, <3>4, ChoosingStays
  <2>. QED BY <2>1, <2>2
<1>5. ASSUME NEW v \in Worker PROVE ClearingParts(v)'
  BY DEF AppendChunk, Return, Overdue, Known, TypeOK, Mutexed, ClearingParts, Tending,
     TendInv
<1>6. ASSUME NEW v \in Worker PROVE ClearingFiles(v)'
  <2>1. CASE v = h
    <3>1. pc'[h] \in {"idle", "advance"}
      BY DEF AppendChunk, Return, Known, TypeOK, Mutexed
    <3>. QED BY <2>1, <3>1 DEF ClearingFiles
  <2>2. CASE v # h
    <3>1. Stays(v)
      BY <2>2 DEF AppendChunk, Return, Stays, Known, TypeOK, Mutexed
    <3>2. maimed \subseteq maimed' /\ \A j \in Id : files'[j] \in {files[j], None}
      BY DEF AppendChunk, Return, Known, TypeOK
    <3>3. Overdue(artifacts, v)' \subseteq Overdue(artifacts, v)
      BY <2>2, <3>1 DEF AppendChunk, Return, Stays, Overdue
    <3>4. \A j \in Overdue(artifacts, v)' : j \in Id
      BY DEF Overdue
    <3>. QED BY <3>1, <3>2, <3>3, <3>4, ClearingFilesStays
  <2>. QED BY <2>1, <2>2
<1>7. ASSUME NEW i \in Id \ maimed' PROVE Resuming(i)'
  <2>1. CASE i = id[h] /\ parts[i] # None
    <3>1. /\ pc[h] = "open" /\ uploadMu = h /\ row[h] \in Upload /\ id[h] \in Id
          /\ pc'[h] = "advance" /\ id'[h] = i /\ uploadMu' = h
          /\ parts'[i] = Append(parts[i], row[h].next)
      BY <2>1 DEF AppendChunk, Return, Known, TypeOK, Mutexed
    <3>2. /\ row[h].next \in 0..MaxChunks - 1 /\ parts[i] = Whole(row[h].next)
      BY <2>1, <3>1 DEF Known, Holding, Upload
    <3>3. parts'[i] = Whole(row[h].next + 1) /\ Whole(row[h].next + 1) \in Content
      <4>1. row[h].next \in Nat /\ row[h].next + 1 \in Nat /\ row[h].next + 1 <= MaxChunks
        BY <3>2
      <4>2. Append(Whole(row[h].next), row[h].next) = Whole(row[h].next + 1)
        BY <4>1, WholeFacts
      <4>3. Whole(row[h].next + 1) \in Content
        BY <4>1, WholeFacts
      <4>. QED BY <3>1, <3>2, <4>2, <4>3
    <3>. QED BY <3>1, <3>3, NoneIsNoValue DEF Resuming
  <2>2. CASE ~(i = id[h] /\ parts[i] # None)
    <3>1. /\ uploads'[i] = uploads[i] /\ parts'[i] = parts[i] /\ i \notin maimed
          /\ now' \in Nat /\ now <= now'
      BY <2>2 DEF AppendChunk, Return, Known, TypeOK, Mutexed
    <3>2. ASSUME NEW g \in Worker, uploadMu = g, id[g] = i,
                 pc[g] \in {"advance", "renamed", "registered"}
          PROVE  Stays(g)
      BY <3>2 DEF AppendChunk, Return, Stays, Known, TypeOK, Mutexed
    <3>. QED BY <3>1, <3>2, ResumingStays
  <2>. QED BY <2>1, <2>2
<1>8. ASSUME NEW i \in Id \ maimed' PROVE LeadsToPart(i)'
  BY DEF AppendChunk, Return, Known, TypeOK, Mutexed, LeadsToPart, Tended, TendInv
<1>9. ASSUME NEW i \in Id \ maimed' PROVE LeadsToFile(i)'
  <2>1. /\ files'[i] \in {files[i], None} /\ i \notin maimed
        /\ artifacts'[i] = None => artifacts[i] = None
    BY DEF AppendChunk, Return, Known, TypeOK
  <2>2. ASSUME NEW g \in Worker, id[g] = i, pc[g] \in {"renamed"} \cup Solo PROVE Stays(g)
    BY <2>2 DEF AppendChunk, Return, Stays, Known, TypeOK, Mutexed
  <2>. QED BY <2>1, <2>2, FileStays
<1>. QED BY <1>1, <1>2, <1>3, <1>4, <1>5, <1>6, <1>7, <1>8, <1>9 DEF TendInv, Tending,
   Tended

LEMMA AppendFailsTends ==
    ASSUME Known, TendInv, NEW h \in Handler, AppendFails(h)
    PROVE  TendInv'
<1>1. ASSUME NEW v \in Worker PROVE Recording(v)'
  BY DEF AppendFails, Return, Fail, Known, TypeOK, Mutexed, Recording, Tending, TendInv
<1>2. ASSUME NEW v \in Worker PROVE Reading(v)'
  BY DEF AppendFails, Return, Fail, Expired, Known, TypeOK, Mutexed, Reading, Tending,
     TendInv
<1>3. ASSUME NEW v \in Worker PROVE Registering(v)'
  BY DEF AppendFails, Return, Fail, Known, TypeOK, Mutexed, Registering, Tending,
     TendInv
<1>4. ASSUME NEW v \in Worker PROVE Choosing(v)'
  BY DEF AppendFails, Return, Fail, Beginning, Known, TypeOK, Mutexed, Choosing,
     Tending, TendInv
<1>5. ASSUME NEW v \in Worker PROVE ClearingParts(v)'
  BY DEF AppendFails, Return, Fail, Overdue, Known, TypeOK, Mutexed, ClearingParts,
     Tending, TendInv
<1>6. ASSUME NEW v \in Worker PROVE ClearingFiles(v)'
  BY DEF AppendFails, Return, Fail, Overdue, Known, TypeOK, Mutexed, ClearingFiles,
     Tending, TendInv
<1>7. ASSUME NEW i \in Id \ maimed' PROVE Resuming(i)'
  <2>1. /\ uploads'[i] \in {uploads[i], None} /\ parts'[i] = parts[i] /\ i \notin maimed
        /\ now' \in Nat /\ now <= now'
    BY DEF AppendFails, Return, Fail, Known, TypeOK
  <2>2. ASSUME NEW g \in Worker, uploadMu = g, id[g] = i,
               pc[g] \in {"advance", "renamed", "registered"}
        PROVE  Stays(g)
    BY <2>2 DEF AppendFails, Return, Fail, Stays, Known, TypeOK, Mutexed
  <2>. QED BY <2>1, <2>2, ResumingStays
<1>8. ASSUME NEW i \in Id \ maimed' PROVE LeadsToPart(i)'
  BY DEF AppendFails, Return, Fail, Known, TypeOK, Mutexed, LeadsToPart, Tended, TendInv
<1>9. ASSUME NEW i \in Id \ maimed' PROVE LeadsToFile(i)'
  <2>1. /\ files'[i] \in {files[i], None} /\ i \notin maimed
        /\ artifacts'[i] = None => artifacts[i] = None
    BY DEF AppendFails, Return, Fail, Known, TypeOK
  <2>2. ASSUME NEW g \in Worker, id[g] = i, pc[g] \in {"renamed"} \cup Solo PROVE Stays(g)
    BY <2>2 DEF AppendFails, Return, Fail, Stays, Known, TypeOK, Mutexed
  <2>. QED BY <2>1, <2>2, FileStays
<1>. QED BY <1>1, <1>2, <1>3, <1>4, <1>5, <1>6, <1>7, <1>8, <1>9 DEF TendInv, Tending,
   Tended

LEMMA AdvanceTends ==
    ASSUME Known, TendInv, NEW h \in Handler, Advance(h)
    PROVE  TendInv'
<1>1. ASSUME NEW v \in Worker PROVE Recording(v)'
  BY DEF Advance, Return, Known, TypeOK, Mutexed, Recording, Tending, TendInv
<1>2. ASSUME NEW v \in Worker PROVE Reading(v)'
  BY DEF Advance, Return, Expired, Known, TypeOK, Mutexed, Reading, Tending, TendInv
<1>3. ASSUME NEW v \in Worker PROVE Registering(v)'
  BY DEF Advance, Return, Known, TypeOK, Mutexed, Registering, Tending, TendInv
<1>4. ASSUME NEW v \in Worker PROVE Choosing(v)'
  BY DEF Advance, Return, Beginning, Known, TypeOK, Mutexed, Choosing, Tending, TendInv
<1>5. ASSUME NEW v \in Worker PROVE ClearingParts(v)'
  BY DEF Advance, Return, Overdue, Known, TypeOK, Mutexed, ClearingParts, Tending,
     TendInv
<1>6. ASSUME NEW v \in Worker PROVE ClearingFiles(v)'
  BY DEF Advance, Return, Overdue, Known, TypeOK, Mutexed, ClearingFiles, Tending,
     TendInv
<1>7. ASSUME NEW i \in Id \ maimed' PROVE Resuming(i)'
  <2>1. CASE i = id[h]
    <3>1. /\ pc[h] = "advance" /\ uploadMu = h /\ row[h] \in Upload /\ i \notin maimed
          /\ parts' = parts /\ now' = now /\ uploads[i] \in Upload \cup {None}
          /\ uploads'[i] = IF uploads[i] = None THEN None
                           ELSE [uploads[i] EXCEPT !.next = row[h].next + 1]
      BY <2>1 DEF Advance, Return, Known, TypeOK, Mutexed
    <3>2. CASE uploads[i] = None
      BY <3>1, <3>2 DEF Resuming
    <3>3. CASE uploads[i] # None /\ Expired(uploads[i])
      BY <3>1, <3>3 DEF Resuming, Expired, Upload
    <3>4. CASE uploads[i] # None /\ ~Expired(uploads[i])
      <4>1. Resuming(i)
        BY <3>1 DEF TendInv, Tended
      <4>2. /\ uploads[i].next \in 0..MaxChunks /\ uploads[i].next = row[h].next
            /\ parts[i] \in {Whole(row[h].next + 1), None}
        BY <2>1, <3>1, <3>4 DEF Known, Holding, Upload
      <4>3. parts[i] # None
        <5>1. Whole(uploads[i].next) \in Content
          <6>1. uploads[i].next \in Nat /\ uploads[i].next <= MaxChunks
            BY <4>2
          <6>. QED BY <6>1, WholeFacts
        <5>2. \A g \in Worker : uploadMu = g => g = h
          BY <3>1
        <5>. QED BY <3>1, <3>4, <4>1, <5>1, <5>2, NoneIsNoValue DEF Resuming
      <4>4. parts'[i] = Whole(uploads'[i].next)
        BY <3>1, <3>4, <4>2, <4>3 DEF Upload
      <4>. QED BY <4>4 DEF Resuming
    <3>. QED BY <3>1, <3>2, <3>3, <3>4
  <2>2. CASE i # id[h]
    <3>1. /\ uploads'[i] = uploads[i] /\ parts'[i] = parts[i] /\ i \notin maimed
          /\ now' \in Nat /\ now <= now'
      BY <2>2 DEF Advance, Return, Known, TypeOK
    <3>2. ASSUME NEW g \in Worker, uploadMu = g, id[g] = i PROVE Stays(g)
      BY <2>2, <3>2 DEF Advance, Return, Stays, Known, TypeOK, Mutexed
    <3>. QED BY <3>1, <3>2, ResumingStays
  <2>. QED BY <2>1, <2>2
<1>8. ASSUME NEW i \in Id \ maimed' PROVE LeadsToPart(i)'
  <2>1. /\ parts' = parts /\ i \notin maimed
        /\ uploads'[i] = None => uploads[i] = None
    <3>0. /\ id[h] \in Id /\ row[h] \in Upload /\ uploadMu = h /\ pc[h] = "advance"
          /\ parts' = parts /\ maimed' = maimed
          /\ uploads' = [uploads EXCEPT ![id[h]] = IF @ = None THEN None
                                       ELSE [@ EXCEPT !.next = row[h].next + 1]]
      BY DEF Advance, Return, Known, Mutexed
    <3>1. /\ uploads[i] \in Upload \cup {None} /\ parts' = parts /\ i \notin maimed
          /\ \/ uploads'[i] = uploads[i]
             \/ uploads[i] = None
             \/ i = id[h] /\ uploads'[i] = [uploads[i] EXCEPT !.next = row[h].next + 1]
      BY <3>0 DEF Known, TypeOK
    <3>2. row[h].next + 1 \in 0..MaxChunks
      BY <3>0 DEF Known, Holding, Upload
    <3>3. uploads[i] # None => [uploads[i] EXCEPT !.next = row[h].next + 1] \in Upload
      BY <3>1, <3>2 DEF Upload
    <3>. QED BY <3>1, <3>3, NoneIsNoValue
  <2>2. ASSUME NEW g \in Worker, id[g] = i, pc[g] = "record" PROVE Stays(g)
    BY <2>2 DEF Advance, Return, Stays, Known, TypeOK, Mutexed
  <2>. QED BY <2>1, <2>2, PartStays
<1>9. ASSUME NEW i \in Id \ maimed' PROVE LeadsToFile(i)'
  <2>1. /\ files'[i] \in {files[i], None} /\ i \notin maimed
        /\ artifacts'[i] = None => artifacts[i] = None
    BY DEF Advance, Return, Known, TypeOK
  <2>2. ASSUME NEW g \in Worker, id[g] = i, pc[g] \in {"renamed"} \cup Solo PROVE Stays(g)
    BY <2>2 DEF Advance, Return, Stays, Known, TypeOK, Mutexed
  <2>. QED BY <2>1, <2>2, FileStays
<1>. QED BY <1>1, <1>2, <1>3, <1>4, <1>5, <1>6, <1>7, <1>8, <1>9 DEF TendInv, Tending,
   Tended

LEMMA AdvanceFailsTends ==
    ASSUME Known, TendInv, NEW h \in Handler, AdvanceFails(h)
    PROVE  TendInv'
<1>1. ASSUME NEW v \in Worker PROVE Recording(v)'
  BY DEF AdvanceFails, Return, Fail, Known, TypeOK, Mutexed, Recording, Tending, TendInv
<1>2. ASSUME NEW v \in Worker PROVE Reading(v)'
  BY DEF AdvanceFails, Return, Fail, Expired, Known, TypeOK, Mutexed, Reading, Tending,
     TendInv
<1>3. ASSUME NEW v \in Worker PROVE Registering(v)'
  BY DEF AdvanceFails, Return, Fail, Known, TypeOK, Mutexed, Registering, Tending,
     TendInv
<1>4. ASSUME NEW v \in Worker PROVE Choosing(v)'
  BY DEF AdvanceFails, Return, Fail, Beginning, Known, TypeOK, Mutexed, Choosing,
     Tending, TendInv
<1>5. ASSUME NEW v \in Worker PROVE ClearingParts(v)'
  BY DEF AdvanceFails, Return, Fail, Overdue, Known, TypeOK, Mutexed, ClearingParts,
     Tending, TendInv
<1>6. ASSUME NEW v \in Worker PROVE ClearingFiles(v)'
  BY DEF AdvanceFails, Return, Fail, Overdue, Known, TypeOK, Mutexed, ClearingFiles,
     Tending, TendInv
<1>7. ASSUME NEW i \in Id \ maimed' PROVE Resuming(i)'
  <2>1. i # id[h] /\ i \notin maimed
    BY DEF AdvanceFails, Return, Fail
  <2>2. /\ uploads'[i] = uploads[i] /\ parts'[i] = parts[i]
        /\ now' \in Nat /\ now <= now'
    BY <2>1 DEF AdvanceFails, Return, Fail, Known, TypeOK
  <2>3. ASSUME NEW g \in Worker, uploadMu = g, id[g] = i PROVE Stays(g)
    BY <2>1, <2>3 DEF AdvanceFails, Return, Fail, Stays, Known, TypeOK, Mutexed
  <2>. QED BY <2>1, <2>2, <2>3, ResumingStays
<1>8. ASSUME NEW i \in Id \ maimed' PROVE LeadsToPart(i)'
  BY DEF AdvanceFails, Return, Fail, Known, TypeOK, Mutexed, LeadsToPart, Tended,
     TendInv
<1>9. ASSUME NEW i \in Id \ maimed' PROVE LeadsToFile(i)'
  <2>1. /\ files'[i] \in {files[i], None} /\ i \notin maimed
        /\ artifacts'[i] = None => artifacts[i] = None
    BY DEF AdvanceFails, Return, Fail, Known, TypeOK
  <2>2. ASSUME NEW g \in Worker, id[g] = i, pc[g] \in {"renamed"} \cup Solo PROVE Stays(g)
    BY <2>2 DEF AdvanceFails, Return, Fail, Stays, Known, TypeOK, Mutexed
  <2>. QED BY <2>1, <2>2, FileStays
<1>. QED BY <1>1, <1>2, <1>3, <1>4, <1>5, <1>6, <1>7, <1>8, <1>9 DEF TendInv, Tending,
   Tended

LEMMA CompleteTends ==
    ASSUME Known, TendInv, NEW h \in Handler, Complete(h)
    PROVE  TendInv'
<1>1. ASSUME NEW v \in Worker PROVE Recording(v)'
  BY DEF Complete, Lock, Take, Expired, Known, TypeOK, Mutexed, Recording, Tending,
     TendInv
<1>2. ASSUME NEW v \in Worker PROVE Reading(v)'
  BY DEF Complete, Lock, Take, Expired, Known, TypeOK, Mutexed, Reading, Tending,
     TendInv
<1>3. ASSUME NEW v \in Worker PROVE Registering(v)'
  BY DEF Complete, Lock, Take, Expired, Known, TypeOK, Mutexed, Registering, Tending,
     TendInv
<1>4. ASSUME NEW v \in Worker PROVE Choosing(v)'
  BY DEF Complete, Lock, Take, Expired, Beginning, Known, TypeOK, Mutexed, Choosing,
     Tending, TendInv
<1>5. ASSUME NEW v \in Worker PROVE ClearingParts(v)'
  BY DEF Complete, Lock, Take, Expired, Overdue, Known, TypeOK, Mutexed, ClearingParts,
     Tending, TendInv
<1>6. ASSUME NEW v \in Worker PROVE ClearingFiles(v)'
  BY DEF Complete, Lock, Take, Expired, Overdue, Known, TypeOK, Mutexed, ClearingFiles,
     Tending, TendInv
<1>7. ASSUME NEW i \in Id \ maimed' PROVE Resuming(i)'
  <2>1. /\ uploads'[i] \in {uploads[i], None} /\ parts'[i] = parts[i] /\ i \notin maimed
        /\ now' \in Nat /\ now <= now'
    BY DEF Complete, Lock, Take, Expired, Known, TypeOK
  <2>2. ASSUME NEW g \in Worker, uploadMu = g, id[g] = i,
               pc[g] \in {"advance", "renamed", "registered"}
        PROVE  Stays(g)
    BY <2>2 DEF Complete, Lock, Take, Expired, Stays, Known, TypeOK, Mutexed
  <2>. QED BY <2>1, <2>2, ResumingStays
<1>8. ASSUME NEW i \in Id \ maimed' PROVE LeadsToPart(i)'
  BY DEF Complete, Lock, Take, Expired, Known, TypeOK, Mutexed, LeadsToPart, Tended,
     TendInv
<1>9. ASSUME NEW i \in Id \ maimed' PROVE LeadsToFile(i)'
  <2>1. /\ files'[i] \in {files[i], None} /\ i \notin maimed
        /\ artifacts'[i] = None => artifacts[i] = None
    BY DEF Complete, Lock, Take, Expired, Known, TypeOK
  <2>2. ASSUME NEW g \in Worker, id[g] = i, pc[g] \in {"renamed"} \cup Solo PROVE Stays(g)
    BY <2>2 DEF Complete, Lock, Take, Expired, Stays, Known, TypeOK, Mutexed
  <2>. QED BY <2>1, <2>2, FileStays
<1>. QED BY <1>1, <1>2, <1>3, <1>4, <1>5, <1>6, <1>7, <1>8, <1>9 DEF TendInv, Tending,
   Tended

LEMMA RenamePartTends ==
    ASSUME Known, TendInv, NEW h \in Handler, RenamePart(h)
    PROVE  TendInv'
<1>1. ASSUME NEW v \in Worker PROVE Recording(v)'
  BY DEF RenamePart, Return, Known, TypeOK, Mutexed, Recording, Tending, TendInv
<1>2. ASSUME NEW v \in Worker PROVE Reading(v)'
  <2>1. CASE v = h
    <3>1. /\ pc'[h] = "idle" \/ (pc'[h] = "renamed" /\ id'[h] = id[h] /\ row'[h] = row[h])
          /\ uploads' = uploads /\ now' = now /\ pc[h] = "hashed"
      BY DEF RenamePart, Return, Known, TypeOK
    <3>. QED BY <2>1, <3>1 DEF Reading, TendInv, Tending, Expired
  <2>2. CASE v # h
    <3>1. Stays(v)
      BY <2>2 DEF RenamePart, Return, Stays, Known, TypeOK, Mutexed
    <3>2. uploads' = uploads /\ now' \in Nat /\ now <= now'
      BY DEF RenamePart, Return, Known, TypeOK
    <3>. QED BY <3>1, <3>2, ReadingStays
  <2>. QED BY <2>1, <2>2
<1>3. ASSUME NEW v \in Worker PROVE Registering(v)'
  <2>1. CASE v = h
    <3>1. pc'[h] \in {"idle", "renamed"}
      BY DEF RenamePart, Return, Known, TypeOK
    <3>. QED BY <2>1, <3>1 DEF Registering
  <2>2. CASE v # h
    <3>1. Stays(v)
      BY <2>2 DEF RenamePart, Return, Stays, Known, TypeOK, Mutexed
    <3>2. pc[v] = "registered" => uploadMu = v
      BY DEF Known, Mutexed
    <3>3. uploadMu = h
      BY DEF RenamePart, Return, Known, Mutexed
    <3>. QED BY <2>2, <3>1, <3>2, <3>3 DEF Registering, Stays
  <2>. QED BY <2>1, <2>2
<1>4. ASSUME NEW v \in Worker PROVE Choosing(v)'
  <2>1. CASE v = h
    <3>1. pc'[h] \in {"idle", "renamed"}
      BY DEF RenamePart, Return, Known, TypeOK, Mutexed
    <3>. QED BY <2>1, <3>1 DEF Choosing
  <2>2. CASE v # h
    <3>1. Stays(v)
      BY <2>2 DEF RenamePart, Return, Stays, Known, TypeOK, Mutexed
    <3>2. paths[v] \subseteq Id
      BY DEF Known, TypeOK
    <3>3. \A j \in Id : /\ announced[j] # 0 => announced'[j] # 0
                      /\ uploads'[j] \in {uploads[j], None}
      BY DEF RenamePart, Return, Known, TypeOK, Overdue
    <3>4. \A g \in Worker, j \in Id : announced[j] # 0 /\ Beginning(g, j)' => Beginning(g, j)
      BY DEF RenamePart, Return, Known, TypeOK, Mutexed, Beginning
    <3>. QED BY <3>1, <3>2, <3>3, <3>4, ChoosingStays
  <2>. QED BY <2>1, <2>2
<1>5. ASSUME NEW v \in Worker PROVE ClearingParts(v)'
  <2>1. CASE v = h
    <3>1. pc'[h] \in {"idle", "renamed"}
      BY DEF RenamePart, Return, Known, TypeOK, Mutexed
    <3>. QED BY <2>1, <3>1 DEF ClearingParts
  <2>2. CASE v # h
    <3>1. Stays(v)
      BY <2>2 DEF RenamePart, Return, Stays, Known, TypeOK, Mutexed
    <3>2. maimed \subseteq maimed' /\ \A j \in Id : parts'[j] \in {parts[j], None}
      BY DEF RenamePart, Return, Known, TypeOK
    <3>3. Overdue(uploads, v)' \subseteq Overdue(uploads, v)
      BY <2>2, <3>1 DEF RenamePart, Return, Stays, Overdue
    <3>4. \A j \in Overdue(uploads, v)' : j \in Id
      BY DEF Overdue
    <3>. QED BY <3>1, <3>2, <3>3, <3>4, ClearingPartsStays
  <2>. QED BY <2>1, <2>2
<1>6. ASSUME NEW v \in Worker PROVE ClearingFiles(v)'
  <2>1. CASE v = h
    <3>1. pc'[h] \in {"idle", "renamed"}
      BY DEF RenamePart, Return, Known, TypeOK, Mutexed
    <3>. QED BY <2>1, <3>1 DEF ClearingFiles
  <2>2. CASE v # h
    <3>1. Stays(v)
      BY <2>2 DEF RenamePart, Return, Stays, Known, TypeOK, Mutexed
    <3>2. maimed' = maimed /\ Overdue(artifacts, v)' \subseteq Overdue(artifacts, v)
      BY <2>2, <3>1 DEF RenamePart, Return, Stays, Overdue
    <3>3. \A j \in Overdue(artifacts, v) : j \in Id /\ artifacts[j] # None
      BY DEF Overdue
    <3>4. \A j \in Id : artifacts[j] # None => parts[j] = None
      BY DEF Known, Stored, Settled
    <3>5. \A j \in Id : parts[j] = None => files'[j] = files[j]
      BY DEF RenamePart, Return, Known, TypeOK
    <3>. QED BY <3>1, <3>2, <3>3, <3>4, <3>5, ClearingFilesStays
  <2>. QED BY <2>1, <2>2
<1>7. ASSUME NEW i \in Id \ maimed' PROVE Resuming(i)'
  <2>1. CASE i = id[h] /\ parts[i] # None
    <3>1. pc'[h] = "renamed" /\ id'[h] = i /\ uploadMu' = h
      BY <2>1 DEF RenamePart, Return, Known, TypeOK, Mutexed
    <3>. QED BY <3>1 DEF Resuming
  <2>2. CASE ~(i = id[h] /\ parts[i] # None)
    <3>1. /\ uploads'[i] = uploads[i] /\ parts'[i] = parts[i] /\ i \notin maimed
          /\ now' \in Nat /\ now <= now'
      BY <2>2 DEF RenamePart, Return, Known, TypeOK
    <3>2. ASSUME NEW g \in Worker, uploadMu = g, id[g] = i,
                 pc[g] \in {"advance", "renamed", "registered"}
          PROVE  Stays(g)
      BY <3>2 DEF RenamePart, Return, Stays, Known, TypeOK, Mutexed
    <3>. QED BY <3>1, <3>2, ResumingStays
  <2>. QED BY <2>1, <2>2
<1>8. ASSUME NEW i \in Id \ maimed' PROVE LeadsToPart(i)'
  BY DEF RenamePart, Return, Known, TypeOK, Mutexed, LeadsToPart, Tended, TendInv
<1>9. ASSUME NEW i \in Id \ maimed' PROVE LeadsToFile(i)'
  <2>1. CASE i = id[h] /\ parts[i] # None
    <3>1. pc'[h] = "renamed" /\ id'[h] = i
      BY <2>1 DEF RenamePart, Return, Known, TypeOK
    <3>. QED BY <3>1 DEF LeadsToFile
  <2>2. CASE ~(i = id[h] /\ parts[i] # None)
    <3>1. files'[i] = files[i] /\ artifacts'[i] = artifacts[i] /\ i \notin maimed
      BY <2>2 DEF RenamePart, Return, Known, TypeOK
    <3>2. ASSUME NEW g \in Worker, id[g] = i, pc[g] \in {"renamed"} \cup Solo PROVE Stays(g)
      BY <3>2 DEF RenamePart, Return, Stays, Known, TypeOK, Mutexed
    <3>. QED BY <3>1, <3>2, FileStays
  <2>. QED BY <2>1, <2>2
<1>. QED BY <1>1, <1>2, <1>3, <1>4, <1>5, <1>6, <1>7, <1>8, <1>9 DEF TendInv, Tending,
   Tended

LEMMA PutArtifactTends ==
    ASSUME Known, TendInv, NEW h \in Handler, PutArtifact(h)
    PROVE  TendInv'
<1>1. ASSUME NEW v \in Worker PROVE Recording(v)'
  BY DEF PutArtifact, StartCleaning, Known, TypeOK, Mutexed, Recording, Tending, TendInv
<1>2. ASSUME NEW v \in Worker PROVE Reading(v)'
  <2>1. CASE v = h
    <3>1. pc'[h] \in {"registered", "select"}
      BY DEF PutArtifact, StartCleaning, Known, TypeOK, Mutexed
    <3>. QED BY <2>1, <3>1 DEF Reading
  <2>2. CASE v # h
    <3>1. Stays(v)
      BY <2>2 DEF PutArtifact, StartCleaning, Stays, Known, TypeOK, Mutexed
    <3>2. now' \in Nat /\ now <= now'
      BY DEF PutArtifact, StartCleaning, Known, TypeOK
    <3>3. uploads' = uploads
      BY DEF PutArtifact, StartCleaning
    <3>. QED BY <3>1, <3>2, <3>3, ReadingStays
  <2>. QED BY <2>1, <2>2
<1>3. ASSUME NEW v \in Worker PROVE Registering(v)'
  <2>1. CASE v = h
    <3>1. pc[h] \in {"renamed", "received"} /\ id'[h] = id[h] /\ parts' = parts
      BY DEF PutArtifact, StartCleaning
    <3>. QED BY <2>1, <3>1 DEF Registering, Known, Held
  <2>2. CASE v # h
    <3>1. Stays(v) /\ parts' = parts
      BY <2>2 DEF PutArtifact, StartCleaning, Stays, Known, TypeOK, Mutexed
    <3>. QED BY <3>1 DEF Registering, TendInv, Tending, Stays
  <2>. QED BY <2>1, <2>2
<1>4. ASSUME NEW v \in Worker PROVE Choosing(v)'
  <2>1. CASE v = h
    <3>1. pc'[h] \in {"registered", "select"}
      BY DEF PutArtifact, StartCleaning, Known, TypeOK, Mutexed
    <3>. QED BY <2>1, <3>1 DEF Choosing
  <2>2. CASE v # h
    <3>1. Stays(v)
      BY <2>2 DEF PutArtifact, StartCleaning, Stays, Known, TypeOK, Mutexed
    <3>2. paths[v] \subseteq Id
      BY DEF Known, TypeOK
    <3>3. \A j \in Id : /\ announced[j] # 0 => announced'[j] # 0
                      /\ uploads'[j] \in {uploads[j], None}
      BY DEF PutArtifact, StartCleaning, Known, TypeOK, Overdue
    <3>4. \A g \in Worker, j \in Id : announced[j] # 0 /\ Beginning(g, j)' => Beginning(g, j)
      BY DEF PutArtifact, StartCleaning, Known, TypeOK, Mutexed, Beginning
    <3>. QED BY <3>1, <3>2, <3>3, <3>4, ChoosingStays
  <2>. QED BY <2>1, <2>2
<1>5. ASSUME NEW v \in Worker PROVE ClearingParts(v)'
  <2>1. CASE v = h
    <3>1. pc'[h] \in {"registered", "select"}
      BY DEF PutArtifact, StartCleaning, Known, TypeOK, Mutexed
    <3>. QED BY <2>1, <3>1 DEF ClearingParts
  <2>2. CASE v # h
    <3>1. Stays(v)
      BY <2>2 DEF PutArtifact, StartCleaning, Stays, Known, TypeOK, Mutexed
    <3>2. maimed \subseteq maimed' /\ \A j \in Id : parts'[j] \in {parts[j], None}
      BY DEF PutArtifact, StartCleaning, Known, TypeOK
    <3>3. Overdue(uploads, v)' \subseteq Overdue(uploads, v)
      BY <2>2, <3>1 DEF PutArtifact, StartCleaning, Stays, Overdue
    <3>4. \A j \in Overdue(uploads, v)' : j \in Id
      BY DEF Overdue
    <3>. QED BY <3>1, <3>2, <3>3, <3>4, ClearingPartsStays
  <2>. QED BY <2>1, <2>2
<1>6. ASSUME NEW v \in Worker PROVE ClearingFiles(v)'
  <2>1. CASE v = h
    <3>1. pc'[h] \in {"registered", "select"}
      BY DEF PutArtifact, StartCleaning, Known, TypeOK, Mutexed
    <3>. QED BY <2>1, <3>1 DEF ClearingFiles
  <2>2. CASE v # h
    <3>1. Stays(v)
      BY <2>2 DEF PutArtifact, StartCleaning, Stays, Known, TypeOK, Mutexed
    <3>2. due[v] \in Nat /\ due[v] <= now /\ now + TTL > now /\ now \in Nat
      BY DEF Known, TypeOK, Held
    <3>3. /\ artifacts'[id[h]].expires = now + TTL /\ maimed' = maimed /\ files' = files
          /\ \A j \in Id \ {id[h]} : artifacts'[j] = artifacts[j]
      BY DEF PutArtifact, StartCleaning, Known, TypeOK, Mutexed, Alone
    <3>4. Overdue(artifacts, v)' \subseteq Overdue(artifacts, v)
      BY <3>1, <3>2, <3>3 DEF Stays, Overdue
    <3>. QED BY <3>1, <3>2, <3>3, <3>4, ClearingFilesStays
  <2>. QED BY <2>1, <2>2
<1>7. ASSUME NEW i \in Id \ maimed' PROVE Resuming(i)'
  <2>1. CASE i = id[h] /\ pc[h] = "renamed"
    <3>1. pc'[h] = "registered" /\ id'[h] = i /\ uploadMu' = h
      BY <2>1 DEF PutArtifact, StartCleaning, Known, TypeOK, Mutexed
    <3>. QED BY <3>1 DEF Resuming
  <2>2. CASE ~(i = id[h] /\ pc[h] = "renamed")
    <3>1. /\ uploads'[i] = uploads[i] /\ parts'[i] = parts[i] /\ i \notin maimed
          /\ now' \in Nat /\ now <= now'
      BY <2>2 DEF PutArtifact, StartCleaning, Known, TypeOK
    <3>2. ASSUME NEW g \in Worker, uploadMu = g, id[g] = i,
                 pc[g] \in {"advance", "renamed", "registered"}
          PROVE  Stays(g)
      BY <2>2, <3>2 DEF PutArtifact, StartCleaning, Stays, Known, TypeOK, Mutexed
    <3>. QED BY <3>1, <3>2, ResumingStays
  <2>. QED BY <2>1, <2>2
<1>8. ASSUME NEW i \in Id \ maimed' PROVE LeadsToPart(i)'
  BY DEF PutArtifact, StartCleaning, Known, TypeOK, Mutexed, LeadsToPart, Tended,
     TendInv
<1>9. ASSUME NEW i \in Id \ maimed' PROVE LeadsToFile(i)'
  <2>1. id[h] \in Id /\ artifacts'[id[h]] = [digest |-> digest[h], expires |-> now + TTL]
    BY DEF PutArtifact, StartCleaning, Known, TypeOK, Mutexed, Alone
  <2>2. [digest |-> digest[h], expires |-> now + TTL] # None
    <3>1. now + TTL \in Nat
      BY DEF Known, TypeOK
    <3>2. digest[h] = Whole(announced[id[h]]) /\ announced[id[h]] \in 0..MaxChunks
      BY <2>1 DEF PutArtifact, StartCleaning, Known, TypeOK, Mutexed, Holding, Alone
    <3>3. digest[h] \in Content
      BY <3>2, WholeFacts
    <3>. QED BY <3>1, <3>3, NoneIsNoValue DEF Artifact
  <2>3. CASE i = id[h]
    BY <2>1, <2>2, <2>3 DEF LeadsToFile
  <2>4. CASE i # id[h]
    <3>1. files'[i] = files[i] /\ artifacts'[i] = artifacts[i] /\ i \notin maimed
      BY <2>4 DEF PutArtifact, StartCleaning, Known, TypeOK
    <3>2. ASSUME NEW g \in Worker, id[g] = i PROVE Stays(g)
      BY <2>4, <3>2 DEF PutArtifact, StartCleaning, Stays, Known, TypeOK, Mutexed
    <3>. QED BY <3>1, <3>2, FileStays
  <2>. QED BY <2>3, <2>4
<1>. QED BY <1>1, <1>2, <1>3, <1>4, <1>5, <1>6, <1>7, <1>8, <1>9 DEF TendInv, Tending,
   Tended

LEMMA PutArtifactFailsTends ==
    ASSUME Known, TendInv, NEW h \in Handler, PutArtifactFails(h)
    PROVE  TendInv'
<1>1. ASSUME NEW v \in Worker PROVE Recording(v)'
  BY DEF PutArtifactFails, Return, Fail, Expired, Known, TypeOK, Mutexed, Recording,
     Tending, TendInv
<1>2. ASSUME NEW v \in Worker PROVE Reading(v)'
  BY DEF PutArtifactFails, Return, Fail, Expired, Known, TypeOK, Mutexed, Reading,
     Tending, TendInv
<1>3. ASSUME NEW v \in Worker PROVE Registering(v)'
  BY DEF PutArtifactFails, Return, Fail, Expired, Known, TypeOK, Mutexed, Registering,
     Tending, TendInv
<1>4. ASSUME NEW v \in Worker PROVE Choosing(v)'
  BY DEF PutArtifactFails, Return, Fail, Expired, Beginning, Known, TypeOK, Mutexed,
     Choosing, Tending, TendInv
<1>5. ASSUME NEW v \in Worker PROVE ClearingParts(v)'
  <2>1. /\ pc[h] = "renamed" /\ uploadMu = h /\ id[h] \in Id /\ row[h] \in Upload
        /\ uploads' = uploads /\ now' = now /\ maimed \subseteq maimed'
        /\ \A j \in Id \ {id[h]} : parts'[j] = parts[j] /\ files'[j] = files[j]
        /\ parts'[id[h]] = files[id[h]]
        /\ Expired(row[h]) => id[h] \in maimed'
    BY DEF PutArtifactFails, Return, Fail, Expired, Known, TypeOK, Mutexed
  <2>2. /\ uploads[id[h]] = None => Expired(row[h])
        /\ uploads[id[h]] # None => uploads[id[h]].expires = row[h].expires
    BY <2>1 DEF TendInv, Tending, Reading
  <2>3. CASE v = h
    <3>1. pc'[h] = "idle"
      BY DEF PutArtifactFails, Return, Fail, Expired, Known, TypeOK
    <3>. QED BY <2>3, <3>1 DEF ClearingParts
  <2>4. CASE v # h
    <3>1. Stays(v)
      BY <2>4 DEF PutArtifactFails, Return, Fail, Expired, Stays, Known, TypeOK, Mutexed
    <3>2. due[v] \in Nat /\ due[v] <= now /\ now \in Nat
      BY DEF Known, TypeOK, Held
    <3>3. id[h] \in Overdue(uploads, v) => Expired(row[h])
      BY <2>1, <2>2, <3>2 DEF Overdue, Expired, Upload
    <3>4. Overdue(uploads, v)' = Overdue(uploads, v) /\ \A j \in Overdue(uploads, v) : j \in Id
      BY <2>1, <3>1 DEF Overdue, Stays
    <3>. QED BY <2>1, <3>1, <3>3, <3>4, ClearingPartsStays
  <2>. QED BY <2>3, <2>4
<1>6. ASSUME NEW v \in Worker PROVE ClearingFiles(v)'
  BY DEF PutArtifactFails, Return, Fail, Expired, Overdue, Known, TypeOK, Mutexed,
     ClearingFiles, Tending, TendInv
<1>7. ASSUME NEW i \in Id \ maimed' PROVE Resuming(i)'
  <2>1. /\ pc[h] = "renamed" /\ uploadMu = h /\ id[h] \in Id /\ row[h] \in Upload
        /\ uploads' = uploads /\ now' = now /\ maimed \subseteq maimed'
        /\ \A j \in Id \ {id[h]} : parts'[j] = parts[j] /\ files'[j] = files[j]
        /\ parts'[id[h]] = files[id[h]]
        /\ Expired(row[h]) => id[h] \in maimed'
    BY DEF PutArtifactFails, Return, Fail, Expired, Known, TypeOK, Mutexed
  <2>2. /\ uploads[id[h]] = None => Expired(row[h])
        /\ uploads[id[h]] # None => uploads[id[h]].expires = row[h].expires
    BY <2>1 DEF TendInv, Tending, Reading
  <2>3. CASE i = id[h]
    <3>1. uploads[i] # None /\ uploads[i] \in Upload /\ announced[i] \in Nat
      BY <2>1, <2>2, <2>3 DEF Known, TypeOK
    <3>2. files[i] # None
      BY <2>1, <2>3 DEF Known, Held
    <3>3. files[i] = Whole(announced[i]) /\ uploads[i].next = announced[i]
      BY <2>1, <2>3, <3>1, <3>2 DEF Known, Holding, Mutexed
    <3>. QED BY <2>1, <2>3, <3>3 DEF Resuming
  <2>4. CASE i # id[h]
    <3>1. ASSUME NEW g \in Worker, uploadMu = g, id[g] = i PROVE Stays(g)
      BY <2>1, <2>4, <3>1
    <3>2. now \in Nat /\ i \notin maimed
      BY <2>1 DEF Known, TypeOK
    <3>. QED BY <2>1, <2>4, <3>1, <3>2, ResumingStays
  <2>. QED BY <2>3, <2>4
<1>8. ASSUME NEW i \in Id \ maimed' PROVE LeadsToPart(i)'
  <2>1. /\ pc[h] = "renamed" /\ uploadMu = h /\ id[h] \in Id /\ row[h] \in Upload
        /\ uploads' = uploads /\ now' = now /\ maimed \subseteq maimed'
        /\ \A j \in Id \ {id[h]} : parts'[j] = parts[j] /\ files'[j] = files[j]
        /\ parts'[id[h]] = files[id[h]]
        /\ Expired(row[h]) => id[h] \in maimed'
    BY DEF PutArtifactFails, Return, Fail, Expired, Known, TypeOK, Mutexed
  <2>2. /\ uploads[id[h]] = None => Expired(row[h])
        /\ uploads[id[h]] # None => uploads[id[h]].expires = row[h].expires
    BY <2>1 DEF TendInv, Tending, Reading
  <2>3. CASE i = id[h]
    BY <2>1, <2>2, <2>3 DEF LeadsToPart
  <2>4. CASE i # id[h]
    <3>1. ASSUME NEW g \in Worker, id[g] = i, pc[g] = "record" PROVE Stays(g)
      BY <2>4, <3>1 DEF PutArtifactFails, Return, Fail, Expired, Stays, Known, TypeOK,
         Mutexed
    <3>. QED BY <2>1, <2>4, <3>1, PartStays
  <2>. QED BY <2>3, <2>4
<1>9. ASSUME NEW i \in Id \ maimed' PROVE LeadsToFile(i)'
  BY DEF PutArtifactFails, Return, Fail, Expired, Known, TypeOK, Mutexed, LeadsToFile,
     Tended, TendInv
<1>. QED BY <1>1, <1>2, <1>3, <1>4, <1>5, <1>6, <1>7, <1>8, <1>9 DEF TendInv, Tending,
   Tended

LEMMA DeleteUploadTends ==
    ASSUME Known, TendInv, NEW h \in Handler, DeleteUpload(h)
    PROVE  TendInv'
<1>1. ASSUME NEW v \in Worker PROVE Recording(v)'
  BY DEF DeleteUpload, Return, Fail, Known, TypeOK, Mutexed, Recording, Tending, TendInv
<1>2. ASSUME NEW v \in Worker PROVE Reading(v)'
  BY DEF DeleteUpload, Return, Fail, Expired, Known, TypeOK, Mutexed, Reading, Tending,
     TendInv
<1>3. ASSUME NEW v \in Worker PROVE Registering(v)'
  BY DEF DeleteUpload, Return, Fail, Known, TypeOK, Mutexed, Registering, Tending,
     TendInv
<1>4. ASSUME NEW v \in Worker PROVE Choosing(v)'
  BY DEF DeleteUpload, Return, Fail, Beginning, Known, TypeOK, Mutexed, Choosing,
     Tending, TendInv
<1>5. ASSUME NEW v \in Worker PROVE ClearingParts(v)'
  <2>1. CASE v = h
    <3>1. pc'[h] \in {"idle"}
      BY DEF DeleteUpload, Return, Fail, Known, TypeOK, Mutexed
    <3>. QED BY <2>1, <3>1 DEF ClearingParts
  <2>2. CASE v # h
    <3>1. Stays(v)
      BY <2>2 DEF DeleteUpload, Return, Fail, Stays, Known, TypeOK, Mutexed
    <3>2. maimed \subseteq maimed' /\ parts' = parts
      BY DEF DeleteUpload, Return, Fail
    <3>3. \A j \in Id : uploads'[j] \in {uploads[j], None}
      BY DEF DeleteUpload, Return, Fail, Known, TypeOK
    <3>4. /\ Overdue(uploads, v)' \subseteq Overdue(uploads, v)
          /\ \A j \in Overdue(uploads, v) : j \in Id
      BY <3>1, <3>3 DEF Stays, Overdue
    <3>. QED BY <3>1, <3>2, <3>3, <3>4, ClearingPartsStays
  <2>. QED BY <2>1, <2>2
<1>6. ASSUME NEW v \in Worker PROVE ClearingFiles(v)'
  BY DEF DeleteUpload, Return, Fail, Overdue, Known, TypeOK, Mutexed, ClearingFiles,
     Tending, TendInv
<1>7. ASSUME NEW i \in Id \ maimed' PROVE Resuming(i)'
  <2>1. CASE i = id[h]
    <3>1. uploads'[i] = None
      BY <2>1 DEF DeleteUpload, Return, Fail, Known, TypeOK
    <3>. QED BY <3>1 DEF Resuming
  <2>2. CASE i # id[h]
    <3>1. /\ uploads'[i] = uploads[i] /\ parts'[i] = parts[i] /\ i \notin maimed
          /\ now' \in Nat /\ now <= now'
      BY <2>2 DEF DeleteUpload, Return, Fail, Known, TypeOK
    <3>2. ASSUME NEW g \in Worker, uploadMu = g, id[g] = i PROVE Stays(g)
      BY <2>2, <3>2 DEF DeleteUpload, Return, Fail, Stays, Known, TypeOK, Mutexed
    <3>. QED BY <3>1, <3>2, ResumingStays
  <2>. QED BY <2>1, <2>2
<1>8. ASSUME NEW i \in Id \ maimed' PROVE LeadsToPart(i)'
  <2>1. /\ pc[h] = "registered" /\ parts' = parts /\ i \notin maimed
        /\ i # id[h] => uploads'[i] = uploads[i]
    BY DEF DeleteUpload, Return, Fail, Known, TypeOK
  <2>2. CASE i = id[h]
    BY <2>1, <2>2 DEF LeadsToPart, TendInv, Tending, Registering
  <2>3. CASE i # id[h]
    <3>1. ASSUME NEW g \in Worker, id[g] = i, pc[g] = "record" PROVE Stays(g)
      BY <2>3, <3>1 DEF DeleteUpload, Return, Fail, Stays, Known, TypeOK, Mutexed
    <3>. QED BY <2>1, <2>3, <3>1, PartStays
  <2>. QED BY <2>2, <2>3
<1>9. ASSUME NEW i \in Id \ maimed' PROVE LeadsToFile(i)'
  <2>1. /\ files'[i] \in {files[i], None} /\ i \notin maimed
        /\ artifacts'[i] = None => artifacts[i] = None
    BY DEF DeleteUpload, Return, Fail, Known, TypeOK
  <2>2. ASSUME NEW g \in Worker, id[g] = i, pc[g] \in {"renamed"} \cup Solo PROVE Stays(g)
    BY <2>2 DEF DeleteUpload, Return, Fail, Stays, Known, TypeOK, Mutexed
  <2>. QED BY <2>1, <2>2, FileStays
<1>. QED BY <1>1, <1>2, <1>3, <1>4, <1>5, <1>6, <1>7, <1>8, <1>9 DEF TendInv, Tending,
   Tended

LEMMA ReceiveTends ==
    ASSUME Known, TendInv, NEW h \in Handler, Receive(h)
    PROVE  TendInv'
<1>1. ASSUME NEW v \in Worker PROVE Recording(v)'
  BY DEF Receive, Known, TypeOK, Mutexed, Recording, Tending, TendInv
<1>2. ASSUME NEW v \in Worker PROVE Reading(v)'
  BY DEF Receive, Expired, Known, TypeOK, Mutexed, Reading, Tending, TendInv
<1>3. ASSUME NEW v \in Worker PROVE Registering(v)'
  BY DEF Receive, Known, TypeOK, Mutexed, Registering, Tending, TendInv
<1>4. ASSUME NEW v \in Worker PROVE Choosing(v)'
  BY DEF Receive, Beginning, Known, TypeOK, Mutexed, Choosing, Tending, TendInv
<1>5. ASSUME NEW v \in Worker PROVE ClearingParts(v)'
  BY DEF Receive, Overdue, Known, TypeOK, Mutexed, ClearingParts, Tending, TendInv
<1>6. ASSUME NEW v \in Worker PROVE ClearingFiles(v)'
  <2>1. PICK k \in Id, total \in 1..MaxChunks :
          /\ announced[k] = 0 /\ id' = [id EXCEPT ![h] = k]
          /\ files' = [files EXCEPT ![k] = <<Cut>>]
    BY DEF Receive
  <2>2. /\ artifacts' = artifacts /\ maimed' = maimed
        /\ \A j \in Id \ {k} : files'[j] = files[j]
        /\ \A g \in Worker \ {h} : Stays(g)
    BY <2>1 DEF Receive, Stays, Known, TypeOK
  <2>3. CASE v = h
    <3>1. pc'[h] = "receiving"
      BY DEF Receive, Known, TypeOK
    <3>. QED BY <2>3, <3>1 DEF ClearingFiles
  <2>4. CASE v # h
    <3>1. artifacts[k] = None
      BY <2>1 DEF Known, Fresh
    <3>2. Overdue(artifacts, v)' = Overdue(artifacts, v) /\ k \notin Overdue(artifacts, v)
      BY <2>2, <2>4, <3>1 DEF Overdue, Stays
    <3>3. \A j \in Overdue(artifacts, v) : j \in Id
      BY DEF Overdue
    <3>. QED BY <2>2, <2>4, <3>2, <3>3, ClearingFilesStays
  <2>. QED BY <2>3, <2>4
<1>7. ASSUME NEW i \in Id \ maimed' PROVE Resuming(i)'
  <2>1. /\ uploads'[i] \in {uploads[i], None} /\ parts'[i] = parts[i] /\ i \notin maimed
        /\ now' \in Nat /\ now <= now'
    BY DEF Receive, Known, TypeOK
  <2>2. ASSUME NEW g \in Worker, uploadMu = g, id[g] = i,
               pc[g] \in {"advance", "renamed", "registered"}
        PROVE  Stays(g)
    BY <2>2 DEF Receive, Stays, Known, TypeOK, Mutexed
  <2>. QED BY <2>1, <2>2, ResumingStays
<1>8. ASSUME NEW i \in Id \ maimed' PROVE LeadsToPart(i)'
  BY DEF Receive, Known, TypeOK, Mutexed, LeadsToPart, Tended, TendInv
<1>9. ASSUME NEW i \in Id \ maimed' PROVE LeadsToFile(i)'
  <2>1. PICK k \in Id, total \in 1..MaxChunks :
          /\ announced[k] = 0 /\ id' = [id EXCEPT ![h] = k]
          /\ files' = [files EXCEPT ![k] = <<Cut>>]
    BY DEF Receive
  <2>2. /\ artifacts' = artifacts /\ maimed' = maimed
        /\ \A j \in Id \ {k} : files'[j] = files[j]
        /\ \A g \in Worker \ {h} : Stays(g)
    BY <2>1 DEF Receive, Stays, Known, TypeOK
  <2>3. CASE i = k
    <3>1. pc'[h] = "receiving" /\ id'[h] = k
      BY <2>1 DEF Receive, Known, TypeOK
    <3>. QED BY <2>3, <3>1 DEF LeadsToFile
  <2>4. CASE i # k
    <3>1. pc[h] = "idle"
      BY DEF Receive
    <3>2. ASSUME NEW g \in Worker, id[g] = i, pc[g] \in {"renamed"} \cup Solo PROVE Stays(g)
      BY <2>2, <3>1, <3>2
    <3>. QED BY <2>2, <2>4, <3>2, FileStays
  <2>. QED BY <2>3, <2>4
<1>. QED BY <1>1, <1>2, <1>3, <1>4, <1>5, <1>6, <1>7, <1>8, <1>9 DEF TendInv, Tending,
   Tended

LEMMA ReceiveAllTends ==
    ASSUME Known, TendInv, NEW h \in Handler, ReceiveAll(h)
    PROVE  TendInv'
<1>1. ASSUME NEW v \in Worker PROVE Recording(v)'
  BY DEF ReceiveAll, Known, TypeOK, Mutexed, Recording, Tending, TendInv
<1>2. ASSUME NEW v \in Worker PROVE Reading(v)'
  BY DEF ReceiveAll, Expired, Known, TypeOK, Mutexed, Reading, Tending, TendInv
<1>3. ASSUME NEW v \in Worker PROVE Registering(v)'
  BY DEF ReceiveAll, Known, TypeOK, Mutexed, Registering, Tending, TendInv
<1>4. ASSUME NEW v \in Worker PROVE Choosing(v)'
  BY DEF ReceiveAll, Beginning, Known, TypeOK, Mutexed, Choosing, Tending, TendInv
<1>5. ASSUME NEW v \in Worker PROVE ClearingParts(v)'
  BY DEF ReceiveAll, Overdue, Known, TypeOK, Mutexed, ClearingParts, Tending, TendInv
<1>6. ASSUME NEW v \in Worker PROVE ClearingFiles(v)'
  <2>1. CASE v = h
    <3>1. pc'[h] \in {"received"}
      BY DEF ReceiveAll, Known, TypeOK, Mutexed
    <3>. QED BY <2>1, <3>1 DEF ClearingFiles
  <2>2. CASE v # h
    <3>1. Stays(v)
      BY <2>2 DEF ReceiveAll, Stays, Known, TypeOK, Mutexed
    <3>2. id[h] \in Id /\ artifacts[id[h]] = None
      BY DEF ReceiveAll, Known, Alone
    <3>3. /\ maimed' = maimed /\ artifacts' = artifacts
          /\ \A j \in Id \ {id[h]} : files'[j] = files[j]
      BY <3>2 DEF ReceiveAll, Known, TypeOK
    <3>4. /\ Overdue(artifacts, v)' = Overdue(artifacts, v)
          /\ \A j \in Overdue(artifacts, v) : j \in Id \ {id[h]}
      BY <3>1, <3>2, <3>3 DEF Stays, Overdue
    <3>. QED BY <3>1, <3>2, <3>3, <3>4, ClearingFilesStays
  <2>. QED BY <2>1, <2>2
<1>7. ASSUME NEW i \in Id \ maimed' PROVE Resuming(i)'
  <2>1. /\ uploads'[i] \in {uploads[i], None} /\ parts'[i] = parts[i] /\ i \notin maimed
        /\ now' \in Nat /\ now <= now'
    BY DEF ReceiveAll, Known, TypeOK
  <2>2. ASSUME NEW g \in Worker, uploadMu = g, id[g] = i,
               pc[g] \in {"advance", "renamed", "registered"}
        PROVE  Stays(g)
    BY <2>2 DEF ReceiveAll, Stays, Known, TypeOK, Mutexed
  <2>. QED BY <2>1, <2>2, ResumingStays
<1>8. ASSUME NEW i \in Id \ maimed' PROVE LeadsToPart(i)'
  BY DEF ReceiveAll, Known, TypeOK, Mutexed, LeadsToPart, Tended, TendInv
<1>9. ASSUME NEW i \in Id \ maimed' PROVE LeadsToFile(i)'
  BY DEF ReceiveAll, Known, TypeOK, Mutexed, LeadsToFile, Tended, TendInv
<1>. QED BY <1>1, <1>2, <1>3, <1>4, <1>5, <1>6, <1>7, <1>8, <1>9 DEF TendInv, Tending,
   Tended

LEMMA RefuseFileTends ==
    ASSUME Known, TendInv, NEW h \in Handler, RefuseFile(h)
    PROVE  TendInv'
<1>1. ASSUME NEW v \in Worker PROVE Recording(v)'
  BY DEF RefuseFile, Return, Fail, Known, TypeOK, Mutexed, Recording, Tending, TendInv
<1>2. ASSUME NEW v \in Worker PROVE Reading(v)'
  BY DEF RefuseFile, Return, Fail, Expired, Known, TypeOK, Mutexed, Reading, Tending,
     TendInv
<1>3. ASSUME NEW v \in Worker PROVE Registering(v)'
  BY DEF RefuseFile, Return, Fail, Known, TypeOK, Mutexed, Registering, Tending, TendInv
<1>4. ASSUME NEW v \in Worker PROVE Choosing(v)'
  BY DEF RefuseFile, Return, Fail, Beginning, Known, TypeOK, Mutexed, Choosing, Tending,
     TendInv
<1>5. ASSUME NEW v \in Worker PROVE ClearingParts(v)'
  BY DEF RefuseFile, Return, Fail, Overdue, Known, TypeOK, Mutexed, ClearingParts,
     Tending, TendInv
<1>6. ASSUME NEW v \in Worker PROVE ClearingFiles(v)'
  BY DEF RefuseFile, Return, Fail, Overdue, Known, TypeOK, Mutexed, ClearingFiles,
     Tending, TendInv
<1>7. ASSUME NEW i \in Id \ maimed' PROVE Resuming(i)'
  <2>1. /\ uploads'[i] \in {uploads[i], None} /\ parts'[i] = parts[i] /\ i \notin maimed
        /\ now' \in Nat /\ now <= now'
    BY DEF RefuseFile, Return, Fail, Known, TypeOK
  <2>2. ASSUME NEW g \in Worker, uploadMu = g, id[g] = i,
               pc[g] \in {"advance", "renamed", "registered"}
        PROVE  Stays(g)
    BY <2>2 DEF RefuseFile, Return, Fail, Stays, Known, TypeOK, Mutexed
  <2>. QED BY <2>1, <2>2, ResumingStays
<1>8. ASSUME NEW i \in Id \ maimed' PROVE LeadsToPart(i)'
  BY DEF RefuseFile, Return, Fail, Known, TypeOK, Mutexed, LeadsToPart, Tended, TendInv
<1>9. ASSUME NEW i \in Id \ maimed' PROVE LeadsToFile(i)'
  BY DEF RefuseFile, Return, Fail, Known, TypeOK, Mutexed, LeadsToFile, Tended, TendInv
<1>. QED BY <1>1, <1>2, <1>3, <1>4, <1>5, <1>6, <1>7, <1>8, <1>9 DEF TendInv, Tending,
   Tended

LEMMA ProbeFailsTends ==
    ASSUME Known, TendInv, NEW h \in Handler, ProbeFails(h)
    PROVE  TendInv'
<1>1. ASSUME NEW v \in Worker PROVE Recording(v)'
  BY DEF ProbeFails, Return, Fail, Known, TypeOK, Mutexed, Recording, Tending, TendInv
<1>2. ASSUME NEW v \in Worker PROVE Reading(v)'
  BY DEF ProbeFails, Return, Fail, Expired, Known, TypeOK, Mutexed, Reading, Tending,
     TendInv
<1>3. ASSUME NEW v \in Worker PROVE Registering(v)'
  BY DEF ProbeFails, Return, Fail, Known, TypeOK, Mutexed, Registering, Tending, TendInv
<1>4. ASSUME NEW v \in Worker PROVE Choosing(v)'
  BY DEF ProbeFails, Return, Fail, Beginning, Known, TypeOK, Mutexed, Choosing, Tending,
     TendInv
<1>5. ASSUME NEW v \in Worker PROVE ClearingParts(v)'
  BY DEF ProbeFails, Return, Fail, Overdue, Known, TypeOK, Mutexed, ClearingParts,
     Tending, TendInv
<1>6. ASSUME NEW v \in Worker PROVE ClearingFiles(v)'
  BY DEF ProbeFails, Return, Fail, Overdue, Known, TypeOK, Mutexed, ClearingFiles,
     Tending, TendInv
<1>7. ASSUME NEW i \in Id \ maimed' PROVE Resuming(i)'
  <2>1. /\ uploads'[i] \in {uploads[i], None} /\ parts'[i] = parts[i] /\ i \notin maimed
        /\ now' \in Nat /\ now <= now'
    BY DEF ProbeFails, Return, Fail, Known, TypeOK
  <2>2. ASSUME NEW g \in Worker, uploadMu = g, id[g] = i,
               pc[g] \in {"advance", "renamed", "registered"}
        PROVE  Stays(g)
    BY <2>2 DEF ProbeFails, Return, Fail, Stays, Known, TypeOK, Mutexed
  <2>. QED BY <2>1, <2>2, ResumingStays
<1>8. ASSUME NEW i \in Id \ maimed' PROVE LeadsToPart(i)'
  BY DEF ProbeFails, Return, Fail, Known, TypeOK, Mutexed, LeadsToPart, Tended, TendInv
<1>9. ASSUME NEW i \in Id \ maimed' PROVE LeadsToFile(i)'
  <2>1. /\ files'[i] \in {files[i], None} /\ i \notin maimed
        /\ artifacts'[i] = None => artifacts[i] = None
    BY DEF ProbeFails, Return, Fail, Known, TypeOK
  <2>2. ASSUME NEW g \in Worker, id[g] = i, pc[g] \in {"renamed"} \cup Solo PROVE Stays(g)
    BY <2>2 DEF ProbeFails, Return, Fail, Stays, Known, TypeOK, Mutexed
  <2>. QED BY <2>1, <2>2, FileStays
<1>. QED BY <1>1, <1>2, <1>3, <1>4, <1>5, <1>6, <1>7, <1>8, <1>9 DEF TendInv, Tending,
   Tended

LEMMA UndoFailsTends ==
    ASSUME Known, TendInv, NEW h \in Handler, UndoFails(h)
    PROVE  TendInv'
<1>1. ASSUME NEW v \in Worker PROVE Recording(v)'
  BY DEF UndoFails, Return, Fail, Known, TypeOK, Mutexed, Recording, Tending, TendInv
<1>2. ASSUME NEW v \in Worker PROVE Reading(v)'
  BY DEF UndoFails, Return, Fail, Expired, Known, TypeOK, Mutexed, Reading, Tending,
     TendInv
<1>3. ASSUME NEW v \in Worker PROVE Registering(v)'
  BY DEF UndoFails, Return, Fail, Known, TypeOK, Mutexed, Registering, Tending, TendInv
<1>4. ASSUME NEW v \in Worker PROVE Choosing(v)'
  BY DEF UndoFails, Return, Fail, Beginning, Known, TypeOK, Mutexed, Choosing, Tending,
     TendInv
<1>5. ASSUME NEW v \in Worker PROVE ClearingParts(v)'
  BY DEF UndoFails, Return, Fail, Overdue, Known, TypeOK, Mutexed, ClearingParts,
     Tending, TendInv
<1>6. ASSUME NEW v \in Worker PROVE ClearingFiles(v)'
  BY DEF UndoFails, Return, Fail, Overdue, Known, TypeOK, Mutexed, ClearingFiles,
     Tending, TendInv
<1>7. ASSUME NEW i \in Id \ maimed' PROVE Resuming(i)'
  <2>1. /\ uploads'[i] \in {uploads[i], None} /\ parts'[i] = parts[i] /\ i \notin maimed
        /\ now' \in Nat /\ now <= now'
    BY DEF UndoFails, Return, Fail, Known, TypeOK
  <2>2. ASSUME NEW g \in Worker, uploadMu = g, id[g] = i,
               pc[g] \in {"advance", "renamed", "registered"}
        PROVE  Stays(g)
    BY <2>2 DEF UndoFails, Return, Fail, Stays, Known, TypeOK, Mutexed
  <2>. QED BY <2>1, <2>2, ResumingStays
<1>8. ASSUME NEW i \in Id \ maimed' PROVE LeadsToPart(i)'
  BY DEF UndoFails, Return, Fail, Known, TypeOK, Mutexed, LeadsToPart, Tended, TendInv
<1>9. ASSUME NEW i \in Id \ maimed' PROVE LeadsToFile(i)'
  <2>1. /\ files'[i] \in {files[i], None} /\ i \notin maimed
        /\ artifacts'[i] = None => artifacts[i] = None
    BY DEF UndoFails, Return, Fail, Known, TypeOK
  <2>2. ASSUME NEW g \in Worker, id[g] = i, pc[g] \in {"renamed"} \cup Solo PROVE Stays(g)
    BY <2>2 DEF UndoFails, Return, Fail, Stays, Known, TypeOK, Mutexed
  <2>. QED BY <2>1, <2>2, FileStays
<1>. QED BY <1>1, <1>2, <1>3, <1>4, <1>5, <1>6, <1>7, <1>8, <1>9 DEF TendInv, Tending,
   Tended

LEMMA CleanTends ==
    ASSUME Known, TendInv, NEW c \in Cleaner, Clean(c)
    PROVE  TendInv'
<1>1. ASSUME NEW v \in Worker PROVE Recording(v)'
  BY DEF Clean, StartCleaning, Known, TypeOK, Mutexed, Recording, Tending, TendInv
<1>2. ASSUME NEW v \in Worker PROVE Reading(v)'
  BY DEF Clean, StartCleaning, Expired, Known, TypeOK, Mutexed, Reading, Tending,
     TendInv
<1>3. ASSUME NEW v \in Worker PROVE Registering(v)'
  BY DEF Clean, StartCleaning, Known, TypeOK, Mutexed, Registering, Tending, TendInv
<1>4. ASSUME NEW v \in Worker PROVE Choosing(v)'
  BY DEF Clean, StartCleaning, Beginning, Known, TypeOK, Mutexed, Choosing, Tending,
     TendInv
<1>5. ASSUME NEW v \in Worker PROVE ClearingParts(v)'
  BY DEF Clean, StartCleaning, Overdue, Known, TypeOK, Mutexed, ClearingParts, Tending,
     TendInv
<1>6. ASSUME NEW v \in Worker PROVE ClearingFiles(v)'
  BY DEF Clean, StartCleaning, Overdue, Known, TypeOK, Mutexed, ClearingFiles, Tending,
     TendInv
<1>7. ASSUME NEW i \in Id \ maimed' PROVE Resuming(i)'
  <2>1. /\ uploads'[i] \in {uploads[i], None} /\ parts'[i] = parts[i] /\ i \notin maimed
        /\ now' \in Nat /\ now <= now'
    BY DEF Clean, StartCleaning, Known, TypeOK
  <2>2. ASSUME NEW g \in Worker, uploadMu = g, id[g] = i,
               pc[g] \in {"advance", "renamed", "registered"}
        PROVE  Stays(g)
    BY <2>2 DEF Clean, StartCleaning, Stays, Known, TypeOK, Mutexed
  <2>. QED BY <2>1, <2>2, ResumingStays
<1>8. ASSUME NEW i \in Id \ maimed' PROVE LeadsToPart(i)'
  BY DEF Clean, StartCleaning, Known, TypeOK, Mutexed, LeadsToPart, Tended, TendInv
<1>9. ASSUME NEW i \in Id \ maimed' PROVE LeadsToFile(i)'
  <2>1. /\ files'[i] \in {files[i], None} /\ i \notin maimed
        /\ artifacts'[i] = None => artifacts[i] = None
    BY DEF Clean, StartCleaning, Known, TypeOK
  <2>2. ASSUME NEW g \in Worker, id[g] = i, pc[g] \in {"renamed"} \cup Solo PROVE Stays(g)
    BY <2>2 DEF Clean, StartCleaning, Stays, Known, TypeOK, Mutexed
  <2>. QED BY <2>1, <2>2, FileStays
<1>. QED BY <1>1, <1>2, <1>3, <1>4, <1>5, <1>6, <1>7, <1>8, <1>9 DEF TendInv, Tending,
   Tended

LEMMA SelectArtifactsTends ==
    ASSUME Known, TendInv, NEW w \in Worker, SelectArtifacts(w)
    PROVE  TendInv'
<1>1. ASSUME NEW v \in Worker PROVE Recording(v)'
  BY DEF SelectArtifacts, Overdue, Known, TypeOK, Mutexed, Recording, Tending, TendInv
<1>2. ASSUME NEW v \in Worker PROVE Reading(v)'
  BY DEF SelectArtifacts, Overdue, Expired, Known, TypeOK, Mutexed, Reading, Tending,
     TendInv
<1>3. ASSUME NEW v \in Worker PROVE Registering(v)'
  BY DEF SelectArtifacts, Overdue, Known, TypeOK, Mutexed, Registering, Tending, TendInv
<1>4. ASSUME NEW v \in Worker PROVE Choosing(v)'
  BY DEF SelectArtifacts, Overdue, Beginning, Known, TypeOK, Mutexed, Choosing, Tending,
     TendInv
<1>5. ASSUME NEW v \in Worker PROVE ClearingParts(v)'
  BY DEF SelectArtifacts, Overdue, Known, TypeOK, Mutexed, ClearingParts, Tending,
     TendInv
<1>6. ASSUME NEW v \in Worker PROVE ClearingFiles(v)'
  BY DEF SelectArtifacts, Overdue, Known, TypeOK, Mutexed, ClearingFiles, Tending,
     TendInv
<1>7. ASSUME NEW i \in Id \ maimed' PROVE Resuming(i)'
  <2>1. /\ uploads'[i] \in {uploads[i], None} /\ parts'[i] = parts[i] /\ i \notin maimed
        /\ now' \in Nat /\ now <= now'
    BY DEF SelectArtifacts, Known, TypeOK
  <2>2. ASSUME NEW g \in Worker, uploadMu = g, id[g] = i,
               pc[g] \in {"advance", "renamed", "registered"}
        PROVE  Stays(g)
    BY <2>2 DEF SelectArtifacts, Stays, Known, TypeOK, Mutexed
  <2>. QED BY <2>1, <2>2, ResumingStays
<1>8. ASSUME NEW i \in Id \ maimed' PROVE LeadsToPart(i)'
  BY DEF SelectArtifacts, Overdue, Known, TypeOK, Mutexed, LeadsToPart, Tended, TendInv
<1>9. ASSUME NEW i \in Id \ maimed' PROVE LeadsToFile(i)'
  <2>1. /\ files'[i] \in {files[i], None} /\ i \notin maimed
        /\ artifacts'[i] = None => artifacts[i] = None
    BY DEF SelectArtifacts, Known, TypeOK
  <2>2. ASSUME NEW g \in Worker, id[g] = i, pc[g] \in {"renamed"} \cup Solo PROVE Stays(g)
    BY <2>2 DEF SelectArtifacts, Stays, Known, TypeOK, Mutexed
  <2>. QED BY <2>1, <2>2, FileStays
<1>. QED BY <1>1, <1>2, <1>3, <1>4, <1>5, <1>6, <1>7, <1>8, <1>9 DEF TendInv, Tending,
   Tended

LEMMA SelectArtifactsInPartTends ==
    ASSUME Known, TendInv, NEW w \in Worker, SelectArtifactsInPart(w)
    PROVE  TendInv'
<1>1. ASSUME NEW v \in Worker PROVE Recording(v)'
  BY DEF SelectArtifactsInPart, Fail, Overdue, Known, TypeOK, Mutexed, Recording, Tending, TendInv
<1>2. ASSUME NEW v \in Worker PROVE Reading(v)'
  BY DEF SelectArtifactsInPart, Fail, Overdue, Expired, Known, TypeOK, Mutexed, Reading, Tending,
     TendInv
<1>3. ASSUME NEW v \in Worker PROVE Registering(v)'
  BY DEF SelectArtifactsInPart, Fail, Overdue, Known, TypeOK, Mutexed, Registering, Tending, TendInv
<1>4. ASSUME NEW v \in Worker PROVE Choosing(v)'
  BY DEF SelectArtifactsInPart, Fail, Overdue, Beginning, Known, TypeOK, Mutexed, Choosing, Tending,
     TendInv
<1>5. ASSUME NEW v \in Worker PROVE ClearingParts(v)'
  BY DEF SelectArtifactsInPart, Fail, Overdue, Known, TypeOK, Mutexed, ClearingParts, Tending,
     TendInv
<1>6. ASSUME NEW v \in Worker PROVE ClearingFiles(v)'
  BY DEF SelectArtifactsInPart, Fail, Overdue, Known, TypeOK, Mutexed, ClearingFiles, Tending,
     TendInv
<1>7. ASSUME NEW i \in Id \ maimed' PROVE Resuming(i)'
  <2>1. /\ uploads'[i] \in {uploads[i], None} /\ parts'[i] = parts[i] /\ i \notin maimed
        /\ now' \in Nat /\ now <= now'
    BY DEF SelectArtifactsInPart, Fail, Known, TypeOK
  <2>2. ASSUME NEW g \in Worker, uploadMu = g, id[g] = i,
               pc[g] \in {"advance", "renamed", "registered"}
        PROVE  Stays(g)
    BY <2>2 DEF SelectArtifactsInPart, Fail, Stays, Known, TypeOK, Mutexed
  <2>. QED BY <2>1, <2>2, ResumingStays
<1>8. ASSUME NEW i \in Id \ maimed' PROVE LeadsToPart(i)'
  BY DEF SelectArtifactsInPart, Fail, Overdue, Known, TypeOK, Mutexed, LeadsToPart, Tended, TendInv
<1>9. ASSUME NEW i \in Id \ maimed' PROVE LeadsToFile(i)'
  <2>1. /\ files'[i] \in {files[i], None} /\ i \notin maimed
        /\ artifacts'[i] = None => artifacts[i] = None
    BY DEF SelectArtifactsInPart, Fail, Known, TypeOK
  <2>2. ASSUME NEW g \in Worker, id[g] = i, pc[g] \in {"renamed"} \cup Solo PROVE Stays(g)
    BY <2>2 DEF SelectArtifactsInPart, Fail, Stays, Known, TypeOK, Mutexed
  <2>. QED BY <2>1, <2>2, FileStays
<1>. QED BY <1>1, <1>2, <1>3, <1>4, <1>5, <1>6, <1>7, <1>8, <1>9 DEF TendInv, Tending,
   Tended

LEMMA SelectUploadsTends ==
    ASSUME Known, TendInv, NEW w \in Worker, SelectUploads(w)
    PROVE  TendInv'
<1>1. ASSUME NEW v \in Worker PROVE Recording(v)'
  BY DEF SelectUploads, Overdue, Known, TypeOK, Mutexed, Recording, Tending, TendInv
<1>2. ASSUME NEW v \in Worker PROVE Reading(v)'
  BY DEF SelectUploads, Overdue, Expired, Known, TypeOK, Mutexed, Reading, Tending,
     TendInv
<1>3. ASSUME NEW v \in Worker PROVE Registering(v)'
  BY DEF SelectUploads, Overdue, Known, TypeOK, Mutexed, Registering, Tending, TendInv
<1>4. ASSUME NEW v \in Worker PROVE Choosing(v)'
  <2>1. CASE v = w
    <3>1. /\ paths'[w] = Overdue(uploads, w) /\ due' = due /\ uploads' = uploads
          /\ announced' = announced /\ id' = id /\ uploadMu' = uploadMu
          /\ pc[w] = "selectParts" /\ pc' = [pc EXCEPT ![w] = "removeParts"]
      BY DEF SelectUploads, Known, TypeOK
    <3>2. \A j \in Overdue(uploads, w) :
            j \in Id /\ announced[j] # 0 /\ uploads[j] # None /\ uploads[j].expires <= due[w]
      BY DEF Overdue, Known, Fresh
    <3>3. ASSUME NEW g \in Worker, NEW j \in Overdue(uploads, w), Beginning(g, j)' PROVE FALSE
      <4>1. uploadMu = g /\ id[g] = j /\ pc[g] \in Cleaning \cup {"create", "record"}
        BY <3>1, <3>3 DEF Beginning, Known, TypeOK
      <4>2. uploads[j] = None
        BY <4>1 DEF Known, Holding
      <4>. QED BY <3>2, <4>2
    <3>. QED BY <2>1, <3>1, <3>2, <3>3 DEF Choosing
  <2>2. CASE v # w
    <3>1. Stays(v)
      BY <2>2 DEF SelectUploads, Stays, Known, TypeOK, Mutexed
    <3>2. paths[v] \subseteq Id
      BY DEF Known, TypeOK
    <3>3. \A j \in Id : /\ announced[j] # 0 => announced'[j] # 0
                      /\ uploads'[j] \in {uploads[j], None}
      BY DEF SelectUploads, Known, TypeOK, Overdue
    <3>4. \A g \in Worker, j \in Id : announced[j] # 0 /\ Beginning(g, j)' => Beginning(g, j)
      BY DEF SelectUploads, Known, TypeOK, Mutexed, Beginning
    <3>. QED BY <3>1, <3>2, <3>3, <3>4, ChoosingStays
  <2>. QED BY <2>1, <2>2
<1>5. ASSUME NEW v \in Worker PROVE ClearingParts(v)'
  BY DEF SelectUploads, Overdue, Known, TypeOK, Mutexed, ClearingParts, Tending, TendInv
<1>6. ASSUME NEW v \in Worker PROVE ClearingFiles(v)'
  BY DEF SelectUploads, Overdue, Known, TypeOK, Mutexed, ClearingFiles, Tending, TendInv
<1>7. ASSUME NEW i \in Id \ maimed' PROVE Resuming(i)'
  <2>1. /\ uploads'[i] \in {uploads[i], None} /\ parts'[i] = parts[i] /\ i \notin maimed
        /\ now' \in Nat /\ now <= now'
    BY DEF SelectUploads, Known, TypeOK
  <2>2. ASSUME NEW g \in Worker, uploadMu = g, id[g] = i,
               pc[g] \in {"advance", "renamed", "registered"}
        PROVE  Stays(g)
    BY <2>2 DEF SelectUploads, Stays, Known, TypeOK, Mutexed
  <2>. QED BY <2>1, <2>2, ResumingStays
<1>8. ASSUME NEW i \in Id \ maimed' PROVE LeadsToPart(i)'
  BY DEF SelectUploads, Overdue, Known, TypeOK, Mutexed, LeadsToPart, Tended, TendInv
<1>9. ASSUME NEW i \in Id \ maimed' PROVE LeadsToFile(i)'
  <2>1. /\ files'[i] \in {files[i], None} /\ i \notin maimed
        /\ artifacts'[i] = None => artifacts[i] = None
    BY DEF SelectUploads, Known, TypeOK
  <2>2. ASSUME NEW g \in Worker, id[g] = i, pc[g] \in {"renamed"} \cup Solo PROVE Stays(g)
    BY <2>2 DEF SelectUploads, Stays, Known, TypeOK, Mutexed
  <2>. QED BY <2>1, <2>2, FileStays
<1>. QED BY <1>1, <1>2, <1>3, <1>4, <1>5, <1>6, <1>7, <1>8, <1>9 DEF TendInv, Tending,
   Tended

LEMMA SelectUploadsInPartTends ==
    ASSUME Known, TendInv, NEW w \in Worker, SelectUploadsInPart(w)
    PROVE  TendInv'
<1>1. ASSUME NEW v \in Worker PROVE Recording(v)'
  BY DEF SelectUploadsInPart, Fail, Overdue, Known, TypeOK, Mutexed, Recording, Tending, TendInv
<1>2. ASSUME NEW v \in Worker PROVE Reading(v)'
  BY DEF SelectUploadsInPart, Fail, Overdue, Expired, Known, TypeOK, Mutexed, Reading, Tending,
     TendInv
<1>3. ASSUME NEW v \in Worker PROVE Registering(v)'
  BY DEF SelectUploadsInPart, Fail, Overdue, Known, TypeOK, Mutexed, Registering, Tending, TendInv
<1>4. ASSUME NEW v \in Worker PROVE Choosing(v)'
  <2>1. CASE v = w
    <3>1. /\ paths'[w] \subseteq Overdue(uploads, w) /\ due' = due /\ uploads' = uploads
          /\ announced' = announced /\ id' = id /\ uploadMu' = uploadMu
          /\ pc[w] = "selectParts" /\ pc' = [pc EXCEPT ![w] = "removeParts"]
      BY DEF SelectUploadsInPart, Fail, Known, TypeOK
    <3>2. \A j \in Overdue(uploads, w) :
            j \in Id /\ announced[j] # 0 /\ uploads[j] # None /\ uploads[j].expires <= due[w]
      BY DEF Overdue, Known, Fresh
    <3>3. ASSUME NEW g \in Worker, NEW j \in Overdue(uploads, w), Beginning(g, j)' PROVE FALSE
      <4>1. uploadMu = g /\ id[g] = j /\ pc[g] \in Cleaning \cup {"create", "record"}
        BY <3>1, <3>3 DEF Beginning, Known, TypeOK
      <4>2. uploads[j] = None
        BY <4>1 DEF Known, Holding
      <4>. QED BY <3>2, <4>2
    <3>. QED BY <2>1, <3>1, <3>2, <3>3 DEF Choosing
  <2>2. CASE v # w
    <3>1. Stays(v)
      BY <2>2 DEF SelectUploadsInPart, Fail, Stays, Known, TypeOK, Mutexed
    <3>2. paths[v] \subseteq Id
      BY DEF Known, TypeOK
    <3>3. \A j \in Id : /\ announced[j] # 0 => announced'[j] # 0
                      /\ uploads'[j] \in {uploads[j], None}
      BY DEF SelectUploadsInPart, Fail, Known, TypeOK, Overdue
    <3>4. \A g \in Worker, j \in Id : announced[j] # 0 /\ Beginning(g, j)' => Beginning(g, j)
      BY DEF SelectUploadsInPart, Fail, Known, TypeOK, Mutexed, Beginning
    <3>. QED BY <3>1, <3>2, <3>3, <3>4, ChoosingStays
  <2>. QED BY <2>1, <2>2
<1>5. ASSUME NEW v \in Worker PROVE ClearingParts(v)'
  BY DEF SelectUploadsInPart, Fail, Overdue, Known, TypeOK, Mutexed, ClearingParts, Tending, TendInv
<1>6. ASSUME NEW v \in Worker PROVE ClearingFiles(v)'
  BY DEF SelectUploadsInPart, Fail, Overdue, Known, TypeOK, Mutexed, ClearingFiles, Tending, TendInv
<1>7. ASSUME NEW i \in Id \ maimed' PROVE Resuming(i)'
  <2>1. /\ uploads'[i] \in {uploads[i], None} /\ parts'[i] = parts[i] /\ i \notin maimed
        /\ now' \in Nat /\ now <= now'
    BY DEF SelectUploadsInPart, Fail, Known, TypeOK
  <2>2. ASSUME NEW g \in Worker, uploadMu = g, id[g] = i,
               pc[g] \in {"advance", "renamed", "registered"}
        PROVE  Stays(g)
    BY <2>2 DEF SelectUploadsInPart, Fail, Stays, Known, TypeOK, Mutexed
  <2>. QED BY <2>1, <2>2, ResumingStays
<1>8. ASSUME NEW i \in Id \ maimed' PROVE LeadsToPart(i)'
  BY DEF SelectUploadsInPart, Fail, Overdue, Known, TypeOK, Mutexed, LeadsToPart, Tended, TendInv
<1>9. ASSUME NEW i \in Id \ maimed' PROVE LeadsToFile(i)'
  <2>1. /\ files'[i] \in {files[i], None} /\ i \notin maimed
        /\ artifacts'[i] = None => artifacts[i] = None
    BY DEF SelectUploadsInPart, Fail, Known, TypeOK
  <2>2. ASSUME NEW g \in Worker, id[g] = i, pc[g] \in {"renamed"} \cup Solo PROVE Stays(g)
    BY <2>2 DEF SelectUploadsInPart, Fail, Stays, Known, TypeOK, Mutexed
  <2>. QED BY <2>1, <2>2, FileStays
<1>. QED BY <1>1, <1>2, <1>3, <1>4, <1>5, <1>6, <1>7, <1>8, <1>9 DEF TendInv, Tending,
   Tended

LEMMA RemoveTends ==
    ASSUME Known, TendInv, NEW w \in Worker, Remove(w)
    PROVE  TendInv'
<1>1. ASSUME NEW v \in Worker PROVE Recording(v)'
  <2>1. PICK k \in paths[w] :
          \/ pc[w] = "remove" /\ files' = [files EXCEPT ![k] = None] /\ UNCHANGED parts
          \/ pc[w] = "removeParts" /\ parts' = [parts EXCEPT ![k] = None] /\ UNCHANGED files
    BY DEF Remove
  <2>2. /\ UNCHANGED <<uploads, artifacts, uploadMu, pc, id, row, due, now, maimed>>
        /\ k \in Id
    BY DEF Remove, Known, TypeOK
  <2>3. CASE pc[v] = "record" /\ pc[w] = "removeParts" /\ id[v] = k
    <3>1. Beginning(v, k)
      BY <2>3 DEF Beginning, Known, Mutexed
    <3>. QED BY <2>3, <3>1 DEF TendInv, Tending, Choosing
  <2>4. CASE ~(pc[v] = "record" /\ pc[w] = "removeParts" /\ id[v] = k)
    <3>1. pc[v] = "record" => id[v] \in Id
      BY DEF Known, Mutexed
    <3>2. pc[v] = "record" => parts'[id[v]] = parts[id[v]]
      BY <2>1, <2>4, <3>1 DEF Known, TypeOK
    <3>. QED BY <2>2, <3>2 DEF Recording, TendInv, Tending
  <2>. QED BY <2>3, <2>4
<1>2. ASSUME NEW v \in Worker PROVE Reading(v)'
  BY DEF Remove, Expired, Known, TypeOK, Mutexed, Reading, Tending, TendInv
<1>3. ASSUME NEW v \in Worker PROVE Registering(v)'
  BY DEF Remove, Known, TypeOK, Mutexed, Registering, Tending, TendInv
<1>4. ASSUME NEW v \in Worker PROVE Choosing(v)'
  BY DEF Remove, Beginning, Known, TypeOK, Mutexed, Choosing, Tending, TendInv
<1>5. ASSUME NEW v \in Worker PROVE ClearingParts(v)'
  BY DEF Remove, Overdue, Known, TypeOK, Mutexed, ClearingParts, Tending, TendInv
<1>6. ASSUME NEW v \in Worker PROVE ClearingFiles(v)'
  BY DEF Remove, Overdue, Known, TypeOK, Mutexed, ClearingFiles, Tending, TendInv
<1>7. ASSUME NEW i \in Id \ maimed' PROVE Resuming(i)'
  <2>1. PICK k \in paths[w] :
          \/ pc[w] = "remove" /\ files' = [files EXCEPT ![k] = None] /\ UNCHANGED parts
          \/ pc[w] = "removeParts" /\ parts' = [parts EXCEPT ![k] = None] /\ UNCHANGED files
    BY DEF Remove
  <2>2. /\ UNCHANGED <<uploads, artifacts, uploadMu, pc, id, row, due, now, maimed>>
        /\ k \in Id
    BY DEF Remove, Known, TypeOK
  <2>3. CASE pc[w] = "removeParts" /\ i = k
    <3>1. uploads[k] # None => uploads[k].expires <= due[w]
      BY <2>3 DEF TendInv, Tending, Choosing
    <3>2. due[w] \in Nat /\ due[w] <= now /\ now \in Nat /\ uploads[k] \in Upload \cup {None}
      BY <2>2 DEF Known, TypeOK, Held
    <3>. QED BY <2>2, <2>3, <3>1, <3>2 DEF Resuming, Expired, Upload
  <2>4. CASE ~(pc[w] = "removeParts" /\ i = k)
    <3>1. parts'[i] = parts[i] /\ i \notin maimed
      BY <2>1, <2>2, <2>4 DEF Known, TypeOK
    <3>2. Resuming(i)
      BY <3>1, Tends DEF Tended
    <3>. QED BY <2>2, <3>1, <3>2 DEF Resuming, Expired
  <2>. QED BY <2>3, <2>4
<1>8. ASSUME NEW i \in Id \ maimed' PROVE LeadsToPart(i)'
  BY DEF Remove, Known, TypeOK, Mutexed, LeadsToPart, Tended, TendInv
<1>9. ASSUME NEW i \in Id \ maimed' PROVE LeadsToFile(i)'
  <2>1. /\ files'[i] \in {files[i], None} /\ i \notin maimed
        /\ artifacts'[i] = None => artifacts[i] = None
    BY DEF Remove, Known, TypeOK
  <2>2. ASSUME NEW g \in Worker, id[g] = i, pc[g] \in {"renamed"} \cup Solo PROVE Stays(g)
    BY <2>2 DEF Remove, Stays, Known, TypeOK, Mutexed
  <2>. QED BY <2>1, <2>2, FileStays
<1>. QED BY <1>1, <1>2, <1>3, <1>4, <1>5, <1>6, <1>7, <1>8, <1>9 DEF TendInv, Tending,
   Tended

LEMMA RemoveFailsTends ==
    ASSUME Known, TendInv, NEW w \in Worker, RemoveFails(w)
    PROVE  TendInv'
<1>1. ASSUME NEW v \in Worker PROVE Recording(v)'
  BY DEF RemoveFails, Fail, Known, TypeOK, Mutexed, Recording, Tending, TendInv
<1>2. ASSUME NEW v \in Worker PROVE Reading(v)'
  BY DEF RemoveFails, Fail, Expired, Known, TypeOK, Mutexed, Reading, Tending,
     TendInv
<1>3. ASSUME NEW v \in Worker PROVE Registering(v)'
  BY DEF RemoveFails, Fail, Known, TypeOK, Mutexed, Registering, Tending, TendInv
<1>4. ASSUME NEW v \in Worker PROVE Choosing(v)'
  BY DEF RemoveFails, Fail, Beginning, Known, TypeOK, Mutexed, Choosing, Tending,
     TendInv
<1>5. ASSUME NEW v \in Worker PROVE ClearingParts(v)'
  BY DEF RemoveFails, Fail, Overdue, Known, TypeOK, Mutexed, ClearingParts,
     Tending, TendInv
<1>6. ASSUME NEW v \in Worker PROVE ClearingFiles(v)'
  BY DEF RemoveFails, Fail, Overdue, Known, TypeOK, Mutexed, ClearingFiles,
     Tending, TendInv
<1>7. ASSUME NEW i \in Id \ maimed' PROVE Resuming(i)'
  <2>1. /\ uploads'[i] \in {uploads[i], None} /\ parts'[i] = parts[i] /\ i \notin maimed
        /\ now' \in Nat /\ now <= now'
    BY DEF RemoveFails, Fail, Known, TypeOK
  <2>2. ASSUME NEW g \in Worker, uploadMu = g, id[g] = i,
               pc[g] \in {"advance", "renamed", "registered"}
        PROVE  Stays(g)
    BY <2>2 DEF RemoveFails, Fail, Stays, Known, TypeOK, Mutexed
  <2>. QED BY <2>1, <2>2, ResumingStays
<1>8. ASSUME NEW i \in Id \ maimed' PROVE LeadsToPart(i)'
  BY DEF RemoveFails, Fail, Known, TypeOK, Mutexed, LeadsToPart, Tended, TendInv
<1>9. ASSUME NEW i \in Id \ maimed' PROVE LeadsToFile(i)'
  <2>1. /\ files'[i] \in {files[i], None} /\ i \notin maimed
        /\ artifacts'[i] = None => artifacts[i] = None
    BY DEF RemoveFails, Fail, Known, TypeOK
  <2>2. ASSUME NEW g \in Worker, id[g] = i, pc[g] \in {"renamed"} \cup Solo PROVE Stays(g)
    BY <2>2 DEF RemoveFails, Fail, Stays, Known, TypeOK, Mutexed
  <2>. QED BY <2>1, <2>2, FileStays
<1>. QED BY <1>1, <1>2, <1>3, <1>4, <1>5, <1>6, <1>7, <1>8, <1>9 DEF TendInv, Tending,
   Tended

LEMMA DeleteArtifactsTends ==
    ASSUME Known, TendInv, NEW w \in Worker, DeleteArtifacts(w)
    PROVE  TendInv'
<1>1. ASSUME NEW v \in Worker PROVE Recording(v)'
  BY DEF DeleteArtifacts, Delete, Overdue, Known, TypeOK, Mutexed, Recording, Tending,
     TendInv
<1>2. ASSUME NEW v \in Worker PROVE Reading(v)'
  BY DEF DeleteArtifacts, Delete, Overdue, Expired, Known, TypeOK, Mutexed, Reading,
     Tending, TendInv
<1>3. ASSUME NEW v \in Worker PROVE Registering(v)'
  BY DEF DeleteArtifacts, Delete, Overdue, Known, TypeOK, Mutexed, Registering, Tending,
     TendInv
<1>4. ASSUME NEW v \in Worker PROVE Choosing(v)'
  BY DEF DeleteArtifacts, Delete, Overdue, Beginning, Known, TypeOK, Mutexed, Choosing,
     Tending, TendInv
<1>5. ASSUME NEW v \in Worker PROVE ClearingParts(v)'
  BY DEF DeleteArtifacts, Delete, Overdue, Known, TypeOK, Mutexed, ClearingParts,
     Tending, TendInv
<1>6. ASSUME NEW v \in Worker PROVE ClearingFiles(v)'
  BY DEF DeleteArtifacts, Delete, Overdue, Known, TypeOK, Mutexed, ClearingFiles,
     Tending, TendInv
<1>7. ASSUME NEW i \in Id \ maimed' PROVE Resuming(i)'
  <2>1. /\ uploads'[i] \in {uploads[i], None} /\ parts'[i] = parts[i] /\ i \notin maimed
        /\ now' \in Nat /\ now <= now'
    BY DEF DeleteArtifacts, Delete, Known, TypeOK
  <2>2. ASSUME NEW g \in Worker, uploadMu = g, id[g] = i,
               pc[g] \in {"advance", "renamed", "registered"}
        PROVE  Stays(g)
    BY <2>2 DEF DeleteArtifacts, Delete, Stays, Known, TypeOK, Mutexed
  <2>. QED BY <2>1, <2>2, ResumingStays
<1>8. ASSUME NEW i \in Id \ maimed' PROVE LeadsToPart(i)'
  BY DEF DeleteArtifacts, Delete, Overdue, Known, TypeOK, Mutexed, LeadsToPart, Tended,
     TendInv
<1>9. ASSUME NEW i \in Id \ maimed' PROVE LeadsToFile(i)'
  <2>1. /\ pc[w] = "remove" /\ paths[w] = {} /\ files' = files /\ i \notin maimed
        /\ artifacts'[i] = None => artifacts[i] = None \/ i \in Overdue(artifacts, w)
    BY DEF DeleteArtifacts, Delete, Known, TypeOK
  <2>2. CASE i \in Overdue(artifacts, w)
    BY <2>1, <2>2 DEF LeadsToFile, TendInv, Tending, ClearingFiles
  <2>3. CASE i \notin Overdue(artifacts, w)
    <3>1. ASSUME NEW g \in Worker, id[g] = i, pc[g] \in {"renamed"} \cup Solo PROVE Stays(g)
      BY <3>1 DEF DeleteArtifacts, Delete, Stays, Known, TypeOK
    <3>. QED BY <2>1, <2>3, <3>1, FileStays
  <2>. QED BY <2>2, <2>3
<1>. QED BY <1>1, <1>2, <1>3, <1>4, <1>5, <1>6, <1>7, <1>8, <1>9 DEF TendInv, Tending,
   Tended

LEMMA DeleteUploadsTends ==
    ASSUME Known, TendInv, NEW w \in Worker, DeleteUploads(w)
    PROVE  TendInv'
<1>a. /\ pc[w] = "removeParts" /\ paths[w] = {} /\ pc'[w] \in {"create", "idle"}
      /\ UNCHANGED <<artifacts, parts, files, now, announced, maimed>>
      /\ \A j \in Id : uploads'[j] = IF j \in Overdue(uploads, w) THEN None ELSE uploads[j]
  BY DEF DeleteUploads, Delete, EndCleaning, Return, Known, TypeOK
<1>b. ASSUME NEW g \in Worker, g # w PROVE Stays(g)
  BY <1>b DEF DeleteUploads, Delete, EndCleaning, Return, Stays, Known, TypeOK, Mutexed
<1>c. now \in Nat /\ \A g \in Worker : due[g] \in Nat /\ due[g] <= now
  BY DEF Known, TypeOK, Held
<1>1. ASSUME NEW v \in Worker PROVE Recording(v)'
  <2>1. CASE v = w
    BY <1>a, <2>1 DEF Recording
  <2>2. CASE v # w
    BY <1>a, <1>b, <2>2 DEF Recording, TendInv, Tending, Stays
  <2>. QED BY <2>1, <2>2
<1>2. ASSUME NEW v \in Worker PROVE Reading(v)'
  <2>1. CASE v = w
    BY <1>a, <2>1 DEF Reading
  <2>2. CASE v # w
    <3>1. Stays(v)
      BY <1>b, <2>2
    <3>2. CASE pc[v] \in {"open", "advance", "hashed", "renamed"}
      <4>1. id[v] \in Id /\ row[v] \in Upload
        BY <3>2 DEF Known, Mutexed
      <4>2. CASE id[v] \in Overdue(uploads, w)
        <5>1. uploads[id[v]] # None /\ uploads[id[v]].expires <= due[w]
          BY <4>2 DEF Overdue
        <5>2. uploads[id[v]].expires = row[v].expires
          BY <3>2, <5>1 DEF TendInv, Tending, Reading
        <5>3. Expired(row[v])
          BY <1>c, <4>1, <5>1, <5>2 DEF Expired, Upload
        <5>. QED BY <1>a, <3>1, <4>1, <4>2, <5>3 DEF Reading, Stays, Expired
      <4>3. CASE id[v] \notin Overdue(uploads, w)
        BY <1>a, <1>c, <3>1, <4>1, <4>3, ReadingStays
      <4>. QED BY <4>2, <4>3
    <3>3. CASE pc[v] \notin {"open", "advance", "hashed", "renamed"}
      BY <3>1, <3>3 DEF Reading, Stays
    <3>. QED BY <3>2, <3>3
  <2>. QED BY <2>1, <2>2
<1>3. ASSUME NEW v \in Worker PROVE Registering(v)'
  <2>1. CASE v = w
    BY <1>a, <2>1 DEF Registering
  <2>2. CASE v # w
    BY <1>a, <1>b, <2>2 DEF Registering, TendInv, Tending, Stays
  <2>. QED BY <2>1, <2>2
<1>4. ASSUME NEW v \in Worker PROVE Choosing(v)'
  <2>1. CASE v = w
    BY <1>a, <2>1 DEF Choosing
  <2>2. CASE v # w
    <3>1. paths[v] \subseteq Id
      BY DEF Known, TypeOK
    <3>2. \A g \in Worker, j \in Id : Beginning(g, j)' => Beginning(g, j)
      BY DEF DeleteUploads, Delete, EndCleaning, Return, Known, TypeOK, Mutexed,
         Beginning
    <3>. QED BY <1>a, <1>b, <2>2, <3>1, <3>2, ChoosingStays
  <2>. QED BY <2>1, <2>2
<1>5. ASSUME NEW v \in Worker PROVE ClearingParts(v)'
  <2>1. CASE v = w
    BY <1>a, <2>1 DEF ClearingParts
  <2>2. CASE v # w
    <3>1. Overdue(uploads, v)' \subseteq Overdue(uploads, v)
      BY <1>a, <1>b, <2>2 DEF Overdue, Stays
    <3>. QED BY <1>a, <1>b, <2>2, <3>1, ClearingPartsStays
  <2>. QED BY <2>1, <2>2
<1>6. ASSUME NEW v \in Worker PROVE ClearingFiles(v)'
  <2>1. CASE v = w
    BY <1>a, <2>1 DEF ClearingFiles
  <2>2. CASE v # w
    <3>1. Overdue(artifacts, v)' \subseteq Overdue(artifacts, v)
      BY <1>a, <1>b, <2>2 DEF Overdue, Stays
    <3>. QED BY <1>a, <1>b, <2>2, <3>1, ClearingFilesStays
  <2>. QED BY <2>1, <2>2
<1>7. ASSUME NEW i \in Id \ maimed' PROVE Resuming(i)'
  <2>1. /\ uploads'[i] \in {uploads[i], None} /\ parts'[i] = parts[i] /\ i \notin maimed
        /\ now' \in Nat /\ now <= now'
    BY DEF DeleteUploads, Delete, EndCleaning, Return, Known, TypeOK
  <2>2. ASSUME NEW g \in Worker, uploadMu = g, id[g] = i,
               pc[g] \in {"advance", "renamed", "registered"}
        PROVE  Stays(g)
    BY <2>2 DEF DeleteUploads, Delete, EndCleaning, Return, Stays, Known, TypeOK,
       Mutexed
  <2>. QED BY <2>1, <2>2, ResumingStays
<1>8. ASSUME NEW i \in Id \ maimed' PROVE LeadsToPart(i)'
  <2>1. CASE i \in Overdue(uploads, w)
    BY <1>a, <2>1 DEF LeadsToPart, TendInv, Tending, ClearingParts
  <2>2. CASE i \notin Overdue(uploads, w)
    <3>1. ASSUME NEW g \in Worker, id[g] = i, pc[g] = "record" PROVE Stays(g)
      BY <1>a, <1>b, <3>1
    <3>. QED BY <1>a, <2>2, <3>1, PartStays
  <2>. QED BY <2>1, <2>2
<1>9. ASSUME NEW i \in Id \ maimed' PROVE LeadsToFile(i)'
  <2>1. /\ files'[i] \in {files[i], None} /\ i \notin maimed
        /\ artifacts'[i] = None => artifacts[i] = None
    BY DEF DeleteUploads, Delete, EndCleaning, Return, Known, TypeOK
  <2>2. ASSUME NEW g \in Worker, id[g] = i, pc[g] \in {"renamed"} \cup Solo PROVE Stays(g)
    BY <2>2 DEF DeleteUploads, Delete, EndCleaning, Return, Stays, Known, TypeOK,
       Mutexed
  <2>. QED BY <2>1, <2>2, FileStays
<1>. QED BY <1>1, <1>2, <1>3, <1>4, <1>5, <1>6, <1>7, <1>8, <1>9 DEF TendInv, Tending,
   Tended

LEMMA CleaningFailsTends ==
    ASSUME Known, TendInv, NEW w \in Worker, CleaningFails(w)
    PROVE  TendInv'
<1>a. /\ pc'[w] \in {"create", "idle"}
      /\ UNCHANGED <<uploads, artifacts, parts, files, now, announced, maimed>>
  BY DEF CleaningFails, EndCleaning, Return, Fail, Known, TypeOK
<1>b. ASSUME NEW g \in Worker, g # w PROVE Stays(g)
  BY <1>b DEF CleaningFails, EndCleaning, Return, Fail, Stays, Known, TypeOK, Mutexed
<1>1. ASSUME NEW v \in Worker PROVE Recording(v)'
  BY DEF CleaningFails, Fail, EndCleaning, Return, Known, TypeOK, Mutexed, Recording,
     Tending, TendInv
<1>2. ASSUME NEW v \in Worker PROVE Reading(v)'
  <2>1. CASE v = w
    BY <1>a, <2>1 DEF Reading
  <2>2. CASE v # w
    <3>1. now \in Nat
      BY DEF Known, TypeOK
    <3>. QED BY <1>a, <1>b, <2>2, <3>1, ReadingStays
  <2>. QED BY <2>1, <2>2
<1>3. ASSUME NEW v \in Worker PROVE Registering(v)'
  <2>1. CASE v = w
    BY <1>a, <2>1 DEF Registering
  <2>2. CASE v # w
    BY <1>a, <1>b, <2>2 DEF Registering, TendInv, Tending, Stays
  <2>. QED BY <2>1, <2>2
<1>4. ASSUME NEW v \in Worker PROVE Choosing(v)'
  <2>1. CASE v = w
    BY <1>a, <2>1 DEF Choosing
  <2>2. CASE v # w
    <3>1. paths[v] \subseteq Id
      BY DEF Known, TypeOK
    <3>2. \A g \in Worker, j \in Id : Beginning(g, j)' => Beginning(g, j)
      BY DEF CleaningFails, EndCleaning, Return, Fail, Known, TypeOK, Mutexed,
         Beginning
    <3>. QED BY <1>a, <1>b, <2>2, <3>1, <3>2, ChoosingStays
  <2>. QED BY <2>1, <2>2
<1>5. ASSUME NEW v \in Worker PROVE ClearingParts(v)'
  <2>1. CASE v = w
    BY <1>a, <2>1 DEF ClearingParts
  <2>2. CASE v # w
    <3>1. Overdue(uploads, v)' \subseteq Overdue(uploads, v)
      BY <1>a, <1>b, <2>2 DEF Overdue, Stays
    <3>. QED BY <1>a, <1>b, <2>2, <3>1, ClearingPartsStays
  <2>. QED BY <2>1, <2>2
<1>6. ASSUME NEW v \in Worker PROVE ClearingFiles(v)'
  <2>1. CASE v = w
    BY <1>a, <2>1 DEF ClearingFiles
  <2>2. CASE v # w
    <3>1. Overdue(artifacts, v)' \subseteq Overdue(artifacts, v)
      BY <1>a, <1>b, <2>2 DEF Overdue, Stays
    <3>. QED BY <1>a, <1>b, <2>2, <3>1, ClearingFilesStays
  <2>. QED BY <2>1, <2>2
<1>7. ASSUME NEW i \in Id \ maimed' PROVE Resuming(i)'
  <2>1. /\ uploads'[i] \in {uploads[i], None} /\ parts'[i] = parts[i] /\ i \notin maimed
        /\ now' \in Nat /\ now <= now'
    BY DEF CleaningFails, EndCleaning, Return, Fail, Known, TypeOK
  <2>2. ASSUME NEW g \in Worker, uploadMu = g, id[g] = i,
               pc[g] \in {"advance", "renamed", "registered"}
        PROVE  Stays(g)
    BY <2>2 DEF CleaningFails, EndCleaning, Return, Fail, Stays, Known, TypeOK, Mutexed
  <2>. QED BY <2>1, <2>2, ResumingStays
<1>8. ASSUME NEW i \in Id \ maimed' PROVE LeadsToPart(i)'
  <2>1. /\ parts'[i] = None \/ parts[i] # None
        /\ i \notin maimed /\ (uploads'[i] = None => uploads[i] = None)
    BY DEF CleaningFails, EndCleaning, Return, Fail, Known, TypeOK
  <2>2. ASSUME NEW g \in Worker, id[g] = i, pc[g] = "record" PROVE Stays(g)
    BY <2>2 DEF CleaningFails, EndCleaning, Return, Fail, Stays, Known, TypeOK, Mutexed
  <2>. QED BY <2>1, <2>2, PartStays
<1>9. ASSUME NEW i \in Id \ maimed' PROVE LeadsToFile(i)'
  <2>1. /\ files'[i] \in {files[i], None} /\ i \notin maimed
        /\ artifacts'[i] = None => artifacts[i] = None
    BY DEF CleaningFails, EndCleaning, Return, Fail, Known, TypeOK
  <2>2. ASSUME NEW g \in Worker, id[g] = i, pc[g] \in {"renamed"} \cup Solo PROVE Stays(g)
    BY <2>2 DEF CleaningFails, EndCleaning, Return, Fail, Stays, Known, TypeOK, Mutexed
  <2>. QED BY <2>1, <2>2, FileStays
<1>. QED BY <1>1, <1>2, <1>3, <1>4, <1>5, <1>6, <1>7, <1>8, <1>9 DEF TendInv, Tending,
   Tended

LEMMA CrashTends ==
    ASSUME Known, TendInv, Crash(Handler) \/ Crash(Cleaner)
    PROVE  TendInv'
<1>1. ASSUME NEW v \in Worker PROVE Recording(v)'
  BY DEF Crash, Fail, HalfWay, Known, TypeOK, Mutexed, Recording, Tending, TendInv
<1>2. ASSUME NEW v \in Worker PROVE Reading(v)'
  BY DEF Crash, Fail, HalfWay, Expired, Known, TypeOK, Mutexed, Reading, Tending,
     TendInv
<1>3. ASSUME NEW v \in Worker PROVE Registering(v)'
  BY DEF Crash, Fail, HalfWay, Known, TypeOK, Mutexed, Registering, Tending, TendInv
<1>4. ASSUME NEW v \in Worker PROVE Choosing(v)'
  BY DEF Crash, Fail, HalfWay, Beginning, Known, TypeOK, Mutexed, Choosing, Tending,
     TendInv
<1>5. ASSUME NEW v \in Worker PROVE ClearingParts(v)'
  BY DEF Crash, Fail, HalfWay, Overdue, Known, TypeOK, Mutexed, ClearingParts, Tending,
     TendInv
<1>6. ASSUME NEW v \in Worker PROVE ClearingFiles(v)'
  BY DEF Crash, Fail, HalfWay, Overdue, Known, TypeOK, Mutexed, ClearingFiles, Tending,
     TendInv
<1>7. ASSUME NEW i \in Id \ maimed' PROVE Resuming(i)'
  <2>1. /\ uploads'[i] = uploads[i] /\ parts'[i] = parts[i] /\ i \notin maimed
        /\ now' \in Nat /\ now <= now'
    BY DEF Crash, Fail, HalfWay, Known, TypeOK
  <2>2. ASSUME NEW g \in Worker, uploadMu = g, id[g] = i,
               pc[g] \in {"advance", "renamed", "registered"}
        PROVE  Stays(g)
    <3>1. \A W \in {Handler, Cleaner} : Crash(W) => g \notin W
      BY <2>2 DEF Crash, HalfWay
    <3>. QED BY <2>2, <3>1 DEF Crash, Stays, Known, TypeOK
  <2>. QED BY <2>1, <2>2, ResumingStays
<1>8. ASSUME NEW i \in Id \ maimed' PROVE LeadsToPart(i)'
  <2>1. /\ parts'[i] = None \/ parts[i] # None
        /\ i \notin maimed /\ (uploads'[i] = None => uploads[i] = None)
    BY DEF Crash, Fail, HalfWay, Known, TypeOK
  <2>2. ASSUME NEW g \in Worker, id[g] = i, pc[g] = "record" PROVE Stays(g)
    BY <2>2 DEF Crash, Fail, HalfWay, Stays, Known, TypeOK, Mutexed
  <2>. QED BY <2>1, <2>2, PartStays
<1>9. ASSUME NEW i \in Id \ maimed' PROVE LeadsToFile(i)'
  <2>1. files' = files /\ artifacts' = artifacts /\ maimed \subseteq maimed'
    BY DEF Crash
  <2>2. ASSUME NEW g \in Worker, id[g] = i, pc[g] \in {"renamed"} \cup Solo PROVE Stays(g)
    BY <2>2 DEF Crash, Fail, HalfWay, Stays, Known, TypeOK, Mutexed
  <2>. QED BY <2>1, <2>2, FileStays
<1>. QED BY <1>1, <1>2, <1>3, <1>4, <1>5, <1>6, <1>7, <1>8, <1>9 DEF TendInv, Tending,
   Tended

LEMMA TickTends ==
    ASSUME Known, TendInv, Tick \/ UNCHANGED vars
    PROVE  TendInv'
<1>1. ASSUME NEW v \in Worker PROVE Recording(v)'
  BY DEF Tick, vars, Known, TypeOK, Mutexed, Recording, Tending, TendInv
<1>2. ASSUME NEW v \in Worker PROVE Reading(v)'
  <2>1. uploads' = uploads /\ now' \in Nat /\ now <= now' /\ Stays(v)
    BY DEF Tick, vars, Known, TypeOK, Stays
  <2>. QED BY <2>1, ReadingStays
<1>3. ASSUME NEW v \in Worker PROVE Registering(v)'
  BY DEF Tick, vars, Known, TypeOK, Mutexed, Registering, Tending, TendInv
<1>4. ASSUME NEW v \in Worker PROVE Choosing(v)'
  BY DEF Tick, vars, Beginning, Known, TypeOK, Mutexed, Choosing, Tending, TendInv
<1>5. ASSUME NEW v \in Worker PROVE ClearingParts(v)'
  BY DEF Tick, vars, Overdue, Known, TypeOK, Mutexed, ClearingParts, Tending, TendInv
<1>6. ASSUME NEW v \in Worker PROVE ClearingFiles(v)'
  BY DEF Tick, vars, Overdue, Known, TypeOK, Mutexed, ClearingFiles, Tending, TendInv
<1>7. ASSUME NEW i \in Id \ maimed' PROVE Resuming(i)'
  <2>1. /\ uploads'[i] \in {uploads[i], None} /\ parts'[i] = parts[i] /\ i \notin maimed
        /\ now' \in Nat /\ now <= now'
    BY DEF Tick, vars, Known, TypeOK
  <2>2. ASSUME NEW g \in Worker, uploadMu = g, id[g] = i,
               pc[g] \in {"advance", "renamed", "registered"}
        PROVE  Stays(g)
    BY <2>2 DEF Tick, vars, Stays, Known, TypeOK, Mutexed
  <2>. QED BY <2>1, <2>2, ResumingStays
<1>8. ASSUME NEW i \in Id \ maimed' PROVE LeadsToPart(i)'
  <2>1. /\ parts'[i] = None \/ parts[i] # None
        /\ i \notin maimed /\ (uploads'[i] = None => uploads[i] = None)
    BY DEF Tick, vars, Known, TypeOK
  <2>2. ASSUME NEW g \in Worker, id[g] = i, pc[g] = "record" PROVE Stays(g)
    BY <2>2 DEF Tick, vars, Stays, Known, TypeOK, Mutexed
  <2>. QED BY <2>1, <2>2, PartStays
<1>9. ASSUME NEW i \in Id \ maimed' PROVE LeadsToFile(i)'
  <2>1. /\ files'[i] \in {files[i], None} /\ i \notin maimed
        /\ artifacts'[i] = None => artifacts[i] = None
    BY DEF Tick, vars, Known, TypeOK
  <2>2. ASSUME NEW g \in Worker, id[g] = i, pc[g] \in {"renamed"} \cup Solo PROVE Stays(g)
    BY <2>2 DEF Tick, vars, Stays, Known, TypeOK, Mutexed
  <2>. QED BY <2>1, <2>2, FileStays
<1>. QED BY <1>1, <1>2, <1>3, <1>4, <1>5, <1>6, <1>7, <1>8, <1>9 DEF TendInv, Tending,
   Tended

LEMMA InitTends == Init => TendInv
BY DEF Init, TendInv, Tending, Tended, Recording, Reading, Registering, Choosing, ClearingParts,
       ClearingFiles, Resuming, LeadsToPart, LeadsToFile

LEMMA StepTends == Known /\ TendInv /\ [Next]_vars => TendInv'
<1> SUFFICES ASSUME Known, TendInv, [Next]_vars PROVE TendInv'
  OBVIOUS
<1>1. ASSUME NEW h \in Handler, Chunked(h) PROVE TendInv'
  BY <1>1, BeginTends, CreatePartTends, CreatePartFailsTends, PutUploadTends,
     PutUploadFailsTends,
     StartChunkTends, AppendChunkTends, AppendFailsTends, AdvanceTends,
     AdvanceFailsTends, CompleteTends, RenamePartTends, PutArtifactTends,
     PutArtifactFailsTends, DeleteUploadTends DEF Chunked
<1>2. ASSUME NEW h \in Handler, Single(h) PROVE TendInv'
  BY <1>2, ReceiveTends, ReceiveAllTends, RefuseFileTends, ProbeFailsTends DEF Single
<1>3. ASSUME NEW w \in Worker, Cleanup(w) PROVE TendInv'
  BY <1>3, SelectArtifactsTends, SelectArtifactsInPartTends, SelectUploadsTends,
     SelectUploadsInPartTends, RemoveTends, RemoveFailsTends, DeleteArtifactsTends,
     DeleteUploadsTends, CleaningFailsTends DEF Cleanup
<1>4. ASSUME NEW c \in Cleaner, Clean(c) PROVE TendInv'
  BY <1>4, CleanTends
<1>5. ASSUME NEW h \in Handler, UndoFails(h) PROVE TendInv'
  BY <1>5, UndoFailsTends
<1>. QED BY <1>1, <1>2, <1>3, <1>4, <1>5, CrashTends, TickTends DEF Next

\* Every run of the system keeps what ArtifactUpload is proved to keep, and this.
LEMMA AlwaysTended == Spec => [](Known /\ TendInv)
<1>1. Init => Inv /\ KeepInv /\ TendInv
  BY InitInv, InitKeep, InitTends
<1>2. Inv /\ KeepInv /\ TendInv /\ [Next]_vars => Inv' /\ KeepInv' /\ TendInv'
  BY StepInv, StepKeep, StepTends, WhatIsKnown
<1>3. Inv /\ KeepInv /\ TendInv => Known /\ TendInv
  BY WhatIsKnown
<1>. QED BY <1>1, <1>2, <1>3, PTL DEF Spec

-----------------------------------------------------------------------------
\* Between two requests an upload can be resumed, for any number of requests,
\* cleaners, uploads and chunks: whatever was retried, removed or killed, the part
\* file holds exactly the chunks its row acknowledges, unless a request on it
\* failed between file and row.
THEOREM UploadsAreResumable == Spec => []Resumable
<1>1. Known /\ TendInv => Resumable
  <2> SUFFICES ASSUME Known, TendInv, NEW i \in Id \ maimed,
                      uploads[i] # None, ~Expired(uploads[i]), uploadMu = None
               PROVE  parts[i] = Whole(uploads[i].next)
    BY DEF Resumable
  <2>1. Resuming(i)
    BY Tends DEF Tended
  <2>2. \A g \in Worker : uploadMu # g
    OBVIOUS
  <2>. QED BY <2>1, <2>2 DEF Resuming
<1>. QED BY <1>1, AlwaysTended, PTL

\* When nothing runs, every file on the disk is known to a row, which the cleaner
\* will select once it has expired.  Only a failure on this very file lets go of it: a
\* request interrupted between file and row, a file that cannot be removed or a row that
\* is not read, whose row goes all the same (operations.go:168-172).  What cleaners and
\* requests do to each other between reading rows, removing files and deleting rows
\* never does, and neither does a failure on another file.
THEOREM NothingIsOrphaned == Spec => []NoOrphans
<1>1. Known /\ TendInv => NoOrphans
  <2> SUFFICES ASSUME TendInv, \A w \in Worker : pc[w] = "idle", NEW i \in Id \ maimed
               PROVE  /\ parts[i] # None => uploads[i] # None
                      /\ files[i] # None => artifacts[i] # None
    BY DEF NoOrphans
  <2>. QED BY Tends DEF Tended, LeadsToPart, LeadsToFile
<1>. QED BY <1>1, AlwaysTended, PTL

-----------------------------------------------------------------------------
(* Seen from outside, file and row are one thing *)

\* A step that does no more to what can be read than taking away what has expired.
Fades(i) ==
    \/ artifacts'[i] = artifacts[i] /\ files'[i] = files[i]
    \/ artifacts[i] = None /\ artifacts'[i] = None
    \/ /\ artifacts[i] # None /\ Expired(artifacts[i])
       /\ artifacts'[i] = None \/ (artifacts'[i] = artifacts[i] /\ files'[i] = None)

LEMMA ReadsRow ==
    ASSUME TypeOK, NEW i \in Id, artifacts[i] # None, files[i] # None
    PROVE  /\ Readable(i) = [digest |-> files[i], expires |-> artifacts[i].expires]
           /\ Readable(i) # None /\ Readable(i).expires = artifacts[i].expires
<1>1. Readable(i) = [digest |-> files[i], expires |-> artifacts[i].expires]
  BY DEF Readable
<1>2. files[i] \in Content /\ artifacts[i].expires \in Nat
  BY DEF TypeOK, Artifact
<1>3. [digest |-> files[i], expires |-> artifacts[i].expires] \in Artifact
  BY <1>2 DEF Artifact
<1>. QED BY <1>1, <1>3, NoneIsNoValue

LEMMA FadesReadable ==
    ASSUME TypeOK, NEW i \in Id, Fades(i), now' = now, Readable(i)' # Readable(i)
    PROVE  Readable(i)' = None /\ Readable(i) # None /\ Readable(i).expires <= now
<1>1. artifacts[i] # None /\ files[i] # None /\ Expired(artifacts[i]) /\ Readable(i)' = None
  BY DEF Fades, Readable, Expired
<1>2. Readable(i) # None /\ Readable(i).expires = artifacts[i].expires
  BY <1>1, ReadsRow
<1>. QED BY <1>1, <1>2 DEF Expired

LEMMA FadesWithdraws ==
    ASSUME TypeOK, announced' = announced, now' = now, \A i \in Id : Fades(i)
    PROVE  Store!Withdraw
<1> DEFINE gone == {i \in Id : Readable(i)' # Readable(i)}
<1>1. \A i \in gone : Readable(i)' = None /\ Readable(i) # None /\ Readable(i).expires <= now
  BY FadesReadable
<1>2. gone \in SUBSET Store!Overdue
  BY <1>1 DEF Store!Overdue
<1>3. [i \in Id |-> Readable(i)]'
        = [k \in Id |-> IF k \in gone THEN None ELSE [i \in Id |-> Readable(i)][k]]
  BY <1>1
<1>. QED BY <1>2, <1>3 DEF Store!Withdraw

\* What was announced is what the store was promised.
Promise(i) == IF announced[i] = 0 THEN None ELSE Whole(announced[i])

LEMMA Promised ==
    ASSUME NEW n \in 1..MaxChunks PROVE Whole(n) # None
<1>1. n \in Nat /\ n <= MaxChunks
  OBVIOUS
<1>. QED BY <1>1, WholeFacts, NoneIsNoValue

LEMMA NewKeyAnnounces ==
    ASSUME Inv, NEW i \in Id, NEW total \in 1..MaxChunks, announced[i] = 0,
           announced' = [announced EXCEPT ![i] = total], now' = now,
           \A j \in Id : artifacts'[j] = artifacts[j],
           \A j \in Id \ {i} : files'[j] = files[j]
    PROVE  Store!Announce(i)
<1>1. artifacts[i] = None
  BY DEF Inv, StoreInv, Fresh
<1>2. \A j \in Id : Readable(j)' = Readable(j)
  BY <1>1 DEF Readable, Expired
<1>3. Promise(i) = None /\ total # 0
  BY DEF Promise
<1>4. [j \in Id |-> Promise(j)]' = [[j \in Id |-> Promise(j)] EXCEPT ![i] = Whole(total)]
  <2>1. announced'[i] = total /\ \A j \in Id \ {i} : announced'[j] = announced[j]
    BY DEF Inv, TypeOK
  <2>2. Promise(i)' = Whole(total) /\ \A j \in Id \ {i} : Promise(j)' = Promise(j)
    BY <1>3, <2>1 DEF Promise
  <2>. QED BY <2>2
<1>. QED BY <1>2, <1>3, <1>4 DEF Store!Announce, Promise

LEMMA BeginAnnounces ==
    ASSUME Inv, NEW h \in Handler, Begin(h) PROVE \E i \in Id : Store!Announce(i)
<1>1. PICK i \in Id, total \in 1..MaxChunks :
        announced[i] = 0 /\ announced' = [announced EXCEPT ![i] = total]
  BY DEF Begin
<1>2. artifacts' = artifacts /\ files' = files /\ now' = now
  BY DEF Begin
<1>. QED BY <1>1, <1>2, NewKeyAnnounces

LEMMA ReceiveAnnounces ==
    ASSUME Inv, NEW h \in Handler, Receive(h) PROVE \E i \in Id : Store!Announce(i)
<1>1. PICK i \in Id, total \in 1..MaxChunks :
        /\ announced[i] = 0 /\ announced' = [announced EXCEPT ![i] = total]
        /\ files' = [files EXCEPT ![i] = <<Cut>>]
  BY DEF Receive
<1>2. artifacts' = artifacts /\ now' = now /\ \A j \in Id \ {i} : files'[j] = files[j]
  BY <1>1 DEF Receive, Inv, TypeOK
<1>. QED BY <1>1, <1>2, NewKeyAnnounces

LEMMA PutArtifactPublishes ==
    ASSUME Inv, KeepInv, KeepInv', NEW h \in Handler, PutArtifact(h)
    PROVE  \E i \in Id : Store!Publish(i)
<1>0. PICK i \in Id : id[h] = i
  BY DEF PutArtifact, Inv, WorkerInv, Mutexed, Alone
<1>1. /\ pc[h] \in {"renamed", "received"} /\ Making(h, i)
      /\ digest[h] = Whole(announced[i]) /\ files[i] \in {Whole(announced[i]), None}
  BY <1>0 DEF PutArtifact, Making, Inv, WorkerInv, Mutexed, Holding, Alone
<1>2. /\ artifacts' = [artifacts EXCEPT ![i] = [digest |-> digest[h], expires |-> now + TTL]]
      /\ files' = files /\ announced' = announced /\ now' = now
  BY <1>0 DEF PutArtifact
<1>3. announced[i] \in 1..MaxChunks /\ announced[i] # 0
  <2>1. announced[i] \in 0..MaxChunks /\ announced[i] # 0
    BY <1>0 DEF Inv, TypeOK, StoreInv, Fresh
  <2>. QED BY <2>1
<1>4. files[i] = Whole(announced[i])
  BY <1>0, <1>1 DEF KeepInv, Held
<1>5. /\ artifacts'[i] = [digest |-> digest[h], expires |-> now + TTL]
      /\ \A j \in Id \ {i} : artifacts'[j] = artifacts[j]
  BY <1>2 DEF Inv, TypeOK
<1>6. artifacts'[i] # None
  <2>1. Whole(announced[i]) \in Content
    <3>1. announced[i] \in Nat /\ announced[i] <= MaxChunks
      BY <1>3
    <3>. QED BY <3>1, WholeFacts
  <2>2. now + TTL \in Nat
    BY DEF Inv, TypeOK
  <2>3. artifacts'[i] \in Artifact
    BY <1>1, <1>5, <2>1, <2>2 DEF Artifact
  <2>. QED BY <2>3, NoneIsNoValue
<1>7. ~Settled(i) /\ Settled(i)'
  <2>1. ~Settled(i)
    BY <1>1 DEF Settled
  <2>2. Settled(i)'
    BY <1>6 DEF KeepInv, Stored
  <2>. QED BY <2>1, <2>2
<1>8. files'[i] # None /\ artifacts'[i].expires = now + TTL
  BY <1>2, <1>3, <1>4, <1>5, Promised
<1>9. /\ Readable(i)' = [digest |-> Promise(i), expires |-> now + TTL]
      /\ \A j \in Id \ {i} : Readable(j)' = Readable(j)
  BY <1>2, <1>3, <1>4, <1>5, <1>6, <1>8 DEF Readable, Promise, Expired
<1>10. [j \in Id |-> Readable(j)]'
         = [[j \in Id |-> Readable(j)] EXCEPT ![i] = [digest |-> Promise(i), expires |-> now + TTL]]
  BY <1>9
<1>11. Promise(i) # None /\ Promise(i) = Whole(announced[i])
  BY <1>3, Promised DEF Promise
<1>. QED BY <1>1, <1>2, <1>7, <1>10, <1>11 DEF Store!Publish, Promise

\* The steps of chunked and single uploads besides those two.
LEMMA UploadFades ==
    ASSUME Inv, KeepInv, NEW h \in Handler, Chunked(h) \/ Single(h), ~Begin(h), ~Receive(h),
           ~PutArtifact(h)
    PROVE  announced' = announced /\ now' = now /\ \A i \in Id : Fades(i)
<1>1. CASE RenamePart(h)
  <2>1. /\ announced' = announced /\ now' = now /\ artifacts' = artifacts
        /\ \A i \in Id : (i = id[h] /\ parts[i] # None) \/ files'[i] = files[i]
    BY <1>1 DEF RenamePart, Inv, TypeOK
  <2>2. \A i \in Id : parts[i] # None => artifacts[i] = None
    BY DEF KeepInv, Stored, Settled
  <2>. QED BY <2>1, <2>2 DEF Fades
<1>2. CASE PutArtifactFails(h) \/ ReceiveAll(h) \/ RefuseFile(h)
  <2>1. /\ announced' = announced /\ now' = now /\ artifacts' = artifacts
        /\ \A i \in Id \ {id[h]} : files'[i] = files[i]
    BY <1>2 DEF PutArtifactFails, ReceiveAll, RefuseFile, Inv, TypeOK
  <2>2. Making(h, id[h])
    BY <1>2 DEF PutArtifactFails, ReceiveAll, RefuseFile, Making
  <2>3. \A i \in Id : i = id[h] => artifacts[i] = None
    BY <2>2 DEF KeepInv, Stored, Settled
  <2>. QED BY <2>1, <2>3 DEF Fades
<1>3. CASE \/ CreatePart(h) \/ CreatePartFails(h) \/ PutUpload(h) \/ PutUploadFails(h)
           \/ StartChunk(h)
           \/ AppendChunk(h) \/ AppendFails(h) \/ Advance(h) \/ AdvanceFails(h)
           \/ Complete(h) \/ DeleteUpload(h) \/ ProbeFails(h)
  <2>1. announced' = announced /\ now' = now /\ artifacts' = artifacts /\ files' = files
    BY <1>3 DEF CreatePart, CreatePartFails, PutUpload, PutUploadFails, StartChunk, AppendChunk, AppendFails,
       Advance, AdvanceFails, Complete, DeleteUpload, ProbeFails
  <2>. QED BY <2>1 DEF Fades
<1>. QED BY <1>1, <1>2, <1>3 DEF Chunked, Single

LEMMA CleanupFades ==
    ASSUME Inv, KeepInv, NEW w \in Worker, Cleanup(w)
    PROVE  announced' = announced /\ now' = now /\ \A i \in Id : Fades(i)
<1>1. CASE Remove(w)
  <2>1. PICK k \in paths[w] :
          \/ pc[w] = "remove" /\ files' = [files EXCEPT ![k] = None]
          \/ pc[w] = "removeParts" /\ files' = files
    BY <1>1 DEF Remove
  <2>2. announced' = announced /\ now' = now /\ artifacts' = artifacts
    BY <1>1 DEF Remove
  <2>3. pc[w] = "remove" => (artifacts[k] # None => Expired(artifacts[k]))
    BY DEF KeepInv, Held
  <2>4. \A i \in Id : files'[i] = files[i] \/ (i = k /\ pc[w] = "remove" /\ files'[i] = None)
    BY <2>1 DEF Inv, TypeOK
  <2>. QED BY <2>2, <2>3, <2>4 DEF Fades
<1>2. CASE DeleteArtifacts(w)
  <2>1. /\ announced' = announced /\ now' = now /\ files' = files
        /\ \A i \in Id : artifacts'[i] = artifacts[i]
                         \/ (i \in Overdue(artifacts, w) /\ artifacts'[i] = None)
    BY <1>2 DEF DeleteArtifacts, Delete
  <2>2. \A i \in Overdue(artifacts, w) : artifacts[i] # None /\ Expired(artifacts[i])
    <3>1. due[w] <= now /\ due[w] \in Nat /\ now \in Nat
      BY DEF KeepInv, Held, Inv, TypeOK
    <3>2. \A i \in Overdue(artifacts, w) : artifacts[i] \in Artifact
      BY DEF Overdue, Inv, TypeOK
    <3>. QED BY <3>1, <3>2 DEF Overdue, Expired, Artifact
  <2>. QED BY <2>1, <2>2 DEF Fades
<1>3. CASE \/ SelectArtifacts(w) \/ SelectUploads(w) \/ SelectArtifactsInPart(w)
           \/ SelectUploadsInPart(w) \/ RemoveFails(w) \/ DeleteUploads(w) \/ CleaningFails(w)
  <2>1. announced' = announced /\ now' = now /\ artifacts' = artifacts /\ files' = files
    BY <1>3 DEF SelectArtifacts, SelectUploads, SelectArtifactsInPart, SelectUploadsInPart,
       RemoveFails, DeleteUploads, CleaningFails
  <2>. QED BY <2>1 DEF Fades
<1>. QED BY <1>1, <1>2, <1>3 DEF Cleanup

LEMMA InitStore == Init => Store!Init
<1> SUFFICES ASSUME Init PROVE Store!Init
  OBVIOUS
<1>1. \A i \in Id : announced[i] = 0 /\ artifacts[i] = None
  BY DEF Init
<1>2. \A i \in Id : Readable(i) = None /\ ~Settled(i)
  BY <1>1 DEF Readable, Settled
<1>. QED BY <1>1, <1>2 DEF Init, Store!Init

LEMMA StepStore ==
    ASSUME Inv, KeepInv, KeepInv', [Next]_vars PROVE [Store!Next]_(Store!vars)
<1>1. {i \in Id : Settled(i)} \subseteq {i \in Id : Settled(i)}'
  BY StepSettles
<1>2. TypeOK
  BY DEF Inv
<1>3. ASSUME NEW h \in Handler, Chunked(h) \/ Single(h)
      PROVE  (\E i \in Id : Store!Announce(i) \/ Store!Publish(i)) \/ Store!Withdraw
  BY <1>2, <1>3, BeginAnnounces, ReceiveAnnounces, PutArtifactPublishes, UploadFades,
     FadesWithdraws
<1>4. ASSUME NEW w \in Worker, Cleanup(w) PROVE Store!Withdraw
  BY <1>2, <1>4, CleanupFades, FadesWithdraws
<1>5. CASE \/ (\E c \in Cleaner : Clean(c)) \/ (\E h \in Handler : UndoFails(h))
           \/ Crash(Handler) \/ Crash(Cleaner) \/ UNCHANGED vars
  <2>1. announced' = announced /\ now' = now /\ artifacts' = artifacts /\ files' = files
    BY <1>5 DEF Clean, UndoFails, Crash, vars
  <2>2. \A i \in Id : Fades(i)
    BY <2>1 DEF Fades
  <2>3. Store!Withdraw
    BY <1>2, <2>1, <2>2, FadesWithdraws
  <2>. QED BY <1>1, <2>3 DEF Store!Next
<1>6. CASE Tick
  <2>1. now' = now + 1 /\ announced' = announced /\ artifacts' = artifacts /\ files' = files
    BY <1>6 DEF Tick
  <2>2. ASSUME NEW i \in Id PROVE Readable(i)' = Readable(i)
    <3>1. CASE files[i] # None
      BY <2>1, <3>1 DEF Readable
    <3>2. CASE files[i] = None /\ artifacts[i] # None
      <4>1. Expired(artifacts[i]) /\ artifacts[i].expires \in Nat /\ now \in Nat
        BY <1>2, <3>2 DEF KeepInv, Stored, TypeOK, Artifact
      <4>2. Expired(artifacts[i])'
        BY <2>1, <4>1 DEF Expired
      <4>. QED BY <2>1, <3>2, <4>1, <4>2 DEF Readable
    <3>3. CASE artifacts[i] = None
      BY <2>1, <3>3 DEF Readable
    <3>. QED BY <3>1, <3>2, <3>3
  <2>3. Store!Tick
    BY <2>1, <2>2 DEF Store!Tick
  <2>. QED BY <1>1, <2>3 DEF Store!Next
<1>. QED BY <1>1, <1>3, <1>4, <1>5, <1>6 DEF Next, Store!Next

\* Managed artifacts are a store that publishes each key at most once, whole, and takes
\* it away only after it has expired (ArtifactStore), for any number of requests,
\* cleaners, uploads and chunks and under every failure and crash.
THEOREM ArtifactsArePublished == Spec => PublishesOnce
<1>1. Inv /\ KeepInv /\ [Next]_vars => Inv' /\ KeepInv' /\ [Store!Next]_(Store!vars)
  BY StepInv, StepKeep, StepStore
<1>2. Init => Inv /\ KeepInv /\ Store!Init
  BY InitInv, InitKeep, InitStore
<1>. QED BY <1>1, <1>2, PTL DEF Spec, PublishesOnce, Store!Spec
=============================================================================
