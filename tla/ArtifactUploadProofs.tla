------------------------- MODULE ArtifactUploadProofs -------------------------
(***************************************************************************)
(* Proofs about ArtifactUpload for any number of handlers, cleaners and    *)
(* uploads, any number of chunks and any failures.                         *)
(***************************************************************************)
EXTENDS ArtifactUpload, TLAPS

Solo == {"receiving", "received"}

\* The mutex is held throughout a chunked operation, by the worker on an upload.
Mutexed(w) ==
    /\ pc[w] \in Locked => uploadMu = w
    /\ uploadMu = w =>
         /\ pc[w] \in Locked \cup Cleaning
         /\ id[w] \in Id /\ row[w] \in Upload
         /\ row[w].total = announced[id[w]]

\* An identifier that was never handed out is not in use anywhere.
Fresh(i) ==
    announced[i] = 0 =>
        /\ uploads[i] = None /\ artifacts[i] = None
        /\ \A w \in Worker : id[w] # i

\* A part file holds the acknowledged chunks in order; if it holds more than is
\* acknowledged, the session is not complete and never will be.
Session(i) ==
    uploads[i] # None =>
        /\ uploads[i].total = announced[i] /\ uploads[i].next <= uploads[i].total
        /\ parts[i] # None =>
             \/ parts[i] = Whole(uploads[i].next)
             \/ uploads[i].next < uploads[i].total /\ Len(parts[i]) > uploads[i].next

\* What the holder of the mutex knows at each stage; the cleaner can only take
\* the row or the file away.
Holding(w) ==
    uploadMu = w =>
        /\ pc[w] \in Cleaning \cup {"create", "record"} =>
             uploads[id[w]] = None /\ row[w].next = 0
        /\ pc[w] = "record" => parts[id[w]] \in {Whole(0), None}
        /\ pc[w] \in {"open", "advance", "hashed", "renamed"} /\ uploads[id[w]] # None =>
             uploads[id[w]].next = row[w].next
        /\ pc[w] \in {"open", "advance"} => row[w].next < row[w].total
        /\ pc[w] = "open" => parts[id[w]] \in {Whole(row[w].next), None}
        /\ pc[w] = "advance" => parts[id[w]] \in {Whole(row[w].next + 1), None}
        /\ pc[w] \in {"hashed", "renamed"} =>
             row[w].next = row[w].total /\ digest[w] = Whole(announced[id[w]])
        /\ pc[w] = "hashed" => parts[id[w]] \in {Whole(announced[id[w]]), None}
        /\ pc[w] = "renamed" => files[id[w]] \in {Whole(announced[id[w]]), None}

\* An upload in one piece is nobody else's until it is registered.
Alone(w) ==
    pc[w] \in Solo =>
        /\ w \in Handler /\ id[w] \in Id
        /\ uploads[id[w]] = None /\ artifacts[id[w]] = None
        /\ \A v \in Worker \ {w} : id[v] # id[w]
        /\ pc[w] = "received" => /\ digest[w] = Whole(announced[id[w]])
                                 /\ files[id[w]] \in {digest[w], None}

WholeAt(i) ==
    artifacts[i] # None =>
        /\ artifacts[i].digest = Whole(announced[i])
        /\ files[i] \in {None, artifacts[i].digest}

WorkerInv(w) == Mutexed(w) /\ Holding(w) /\ Alone(w)
StoreInv(i) == Fresh(i) /\ Session(i) /\ WholeAt(i)

Inv == /\ TypeOK
       /\ \A w \in Worker : WorkerInv(w)
       /\ \A i \in Id : StoreInv(i)

USE ArtifactUploadAssumption

LEMMA WholeFacts ==
    ASSUME NEW n \in Nat
    PROVE  /\ Whole(n) \in Seq(Nat) /\ Len(Whole(n)) = n
           /\ Append(Whole(n), n) = Whole(n + 1)
           /\ n <= MaxChunks => Whole(n) \in Content
           /\ Whole(0) = <<>>
<1>1. Whole(n) \in Seq(Nat) /\ Len(Whole(n)) = n
  BY DEF Whole
<1>2. Append(Whole(n), n) = Whole(n + 1)
  BY DEF Whole
<1>3. n <= MaxChunks => Whole(n) \in Content
  BY DEF Whole, Content, Chunk
<1>4. Whole(0) = <<>>
  BY DEF Whole
<1>5. QED BY <1>1, <1>2, <1>3, <1>4

LEMMA NoneIsNoValue == None \notin Upload /\ None \notin Artifact /\ None \notin Content
<1>1. None \notin Upload
  <2>1. Upload \subseteq [next : Nat, total : Nat, expires : Nat]
    BY DEF Upload
  <2>2. QED BY <2>1
<1>2. Content \subseteq Seq(Nat \cup {Cut})
  BY DEF Content, Chunk
<1>3. None \notin Artifact
  <2>1. Artifact \subseteq [digest : Seq(Nat \cup {Cut}), expires : Nat]
    BY <1>2 DEF Artifact
  <2>2. QED BY <2>1
<1>4. QED BY <1>1, <1>2, <1>3

LEMMA InitInv == Init => Inv
<1> SUFFICES ASSUME Init PROVE Inv
  OBVIOUS
<1> USE DEF Init
<1>1. TypeOK
  BY DEF TypeOK, Stage
<1>2. ASSUME NEW w \in Worker PROVE WorkerInv(w)
  BY DEF WorkerInv, Mutexed, Holding, Alone, Solo, Locked, Worker
<1>3. ASSUME NEW i \in Id PROVE StoreInv(i)
  BY DEF StoreInv, Fresh, Session, WholeAt
<1>4. QED BY <1>1, <1>2, <1>3 DEF Inv

-----------------------------------------------------------------------------
\* A step that does no more than taking i's rows and files away.
LessAt(i) ==
    /\ uploads'[i] \in {uploads[i], None} /\ artifacts'[i] \in {artifacts[i], None}
    /\ parts'[i] \in {parts[i], None} /\ files'[i] \in {files[i], None}

SameWorker(v) ==
    /\ pc'[v] = pc[v] /\ id'[v] = id[v] /\ row'[v] = row[v] /\ digest'[v] = digest[v]
    /\ uploadMu' = v <=> uploadMu = v

\* What one worker does to its own upload leaves the others' invariants alone.
LEMMA OthersKeep ==
    ASSUME Inv, NEW w \in Worker, announced' = announced,
           \A v \in Worker \ {w} : SameWorker(v),
           id'[w] \in {id[w], None} \/ (id'[w] \in Id /\ uploads[id'[w]] # None),
           \A i \in Id : LessAt(i) \/ (i = id[w] /\ (uploadMu = w \/ pc[w] \in Solo))
    PROVE  /\ \A v \in Worker \ {w} : WorkerInv(v)'
           /\ \A i \in Id : Fresh(i)'
           /\ \A i \in Id : LessAt(i) => StoreInv(i)'
<1> USE DEF Inv
<1>1. ASSUME NEW v \in Worker \ {w} PROVE WorkerInv(v)'
  <2>1. WorkerInv(v) /\ WorkerInv(w) /\ SameWorker(v)
    OBVIOUS
  <2>2. Mutexed(v)'
    BY <2>1 DEF SameWorker, WorkerInv, Mutexed
  <2>3. ASSUME uploadMu = v \/ pc[v] \in Solo PROVE id[v] \in Id /\ LessAt(id[v])
    <3>1. id[v] \in Id
      BY <2>1, <2>3 DEF WorkerInv, Mutexed, Alone
    <3>2. CASE id[v] # id[w]
      BY <3>1, <3>2
    <3>3. CASE id[v] = id[w]
      BY <2>1, <2>3, <3>1, <3>3 DEF WorkerInv, Alone
    <3>4. QED BY <3>1, <3>2, <3>3
  <2>4. Holding(v)'
    BY <2>1, <2>3 DEF SameWorker, WorkerInv, Holding, LessAt
  <2>5. Alone(v)'
    <3>1. SUFFICES ASSUME pc[v] \in Solo PROVE Alone(v)'
      BY <2>1 DEF SameWorker, Alone
    <3>2. id[v] \in Id /\ LessAt(id[v]) /\ uploads[id[v]] = None /\ artifacts[id[v]] = None
      BY <2>1, <2>3, <3>1 DEF WorkerInv, Alone
    <3>3. ASSUME NEW u \in Worker \ {v} PROVE id'[u] # id[v]
      <4>1. id[u] # id[v]
        BY <2>1, <3>1 DEF WorkerInv, Alone
      <4>2. CASE u # w
        BY <4>1, <4>2 DEF SameWorker
      <4>3. CASE u = w
        BY <4>1, <4>3, <3>2
      <4>4. QED BY <4>2, <4>3
    <3>4. QED BY <2>1, <3>1, <3>2, <3>3 DEF SameWorker, WorkerInv, Alone, LessAt
  <2>6. QED BY <2>2, <2>4, <2>5 DEF WorkerInv
<1>2. ASSUME NEW i \in Id PROVE Fresh(i)'
  <2>1. SUFFICES ASSUME announced[i] = 0
                 PROVE  /\ uploads'[i] = None /\ artifacts'[i] = None
                        /\ \A v \in Worker : id'[v] # i
    BY DEF Fresh
  <2>2. uploads[i] = None /\ artifacts[i] = None /\ \A v \in Worker : id[v] # i
    BY <2>1 DEF StoreInv, Fresh
  <2>3. uploads'[i] = None /\ artifacts'[i] = None
    BY <2>2 DEF LessAt
  <2>4. ASSUME NEW v \in Worker PROVE id'[v] # i
    <3>1. CASE v # w
      BY <2>2, <3>1 DEF SameWorker
    <3>2. CASE v = w
      BY <2>2, <3>2
    <3>3. QED BY <3>1, <3>2
  <2>5. QED BY <2>3, <2>4
<1>3. ASSUME NEW i \in Id, LessAt(i) PROVE StoreInv(i)'
  <2>1. Session(i)' /\ WholeAt(i)'
    BY <1>3 DEF StoreInv, Session, WholeAt, LessAt
  <2>2. QED BY <2>1, <1>2 DEF StoreInv
<1>4. QED BY <1>1, <1>2, <1>3

\* A worker's change of its own upload.
OwnAt(w, i) ==
    /\ i = id[w] /\ (uploadMu = w \/ pc[w] \in Solo)
    /\ Session(i)' /\ WholeAt(i)'

\* A step of one worker keeps the invariant if it does what it should with its own
\* upload and no more than clean up the others.
LEMMA StepKeeps ==
    ASSUME Inv, NEW w \in Worker, announced' = announced,
           TypeOK', WorkerInv(w)',
           \A v \in Worker \ {w} : SameWorker(v),
           id'[w] \in {id[w], None} \/ (id'[w] \in Id /\ uploads[id'[w]] # None),
           \A i \in Id : LessAt(i) \/ OwnAt(w, i)
    PROVE  Inv'
<1>1. \A i \in Id : LessAt(i) \/ (i = id[w] /\ (uploadMu = w \/ pc[w] \in Solo))
  BY DEF OwnAt
<1>2. /\ \A v \in Worker \ {w} : WorkerInv(v)'
      /\ \A i \in Id : Fresh(i)'
      /\ \A i \in Id : LessAt(i) => StoreInv(i)'
  BY <1>1, OthersKeep
<1>3. \A i \in Id : StoreInv(i)'
  BY <1>2 DEF StoreInv, OwnAt
<1>4. QED BY <1>2, <1>3 DEF Inv

LocalsTyped ==
    /\ uploadMu \in Handler \cup {None}
    /\ pc \in [Worker -> Stage]
    /\ id \in [Worker -> Id \cup {None}]
    /\ row \in [Worker -> Upload \cup {None}]
    /\ digest \in [Worker -> Content \cup {None}]
    /\ due \in [Worker -> 0..MaxTime]
    /\ paths \in [Worker -> SUBSET Id]
    /\ announced \in [Id -> 0..MaxChunks]

StoresTyped ==
    /\ uploads \in [Id -> Upload \cup {None}]
    /\ artifacts \in [Id -> Artifact \cup {None}]
    /\ parts \in [Id -> Content \cup {None}]
    /\ files \in [Id -> Content \cup {None}]
    /\ now \in 0..MaxTime
    /\ maimed \subseteq Id
    /\ faults \in 0..MaxFaults

LEMMA Typed == Inv => StoresTyped /\ LocalsTyped
BY DEF Inv, TypeOK, StoresTyped, LocalsTyped

LEMMA FailTyped == ASSUME Inv, NEW kind, Fail(kind) PROVE faults' \in 0..MaxFaults
BY DEF Inv, TypeOK, Fail

\* The same for a step with which the operation returns.
LEMMA ReturnKeeps ==
    ASSUME Inv, NEW w \in Worker, announced' = announced, Return(w), StoresTyped',
           \A i \in Id : LessAt(i) \/ OwnAt(w, i)
    PROVE  Inv'
<1> USE DEF Return, Goto
<1>1. TypeOK'
  BY DEF Inv, TypeOK, StoresTyped, Stage
<1>2. pc'[w] = "idle" /\ uploadMu' # w
  BY DEF Inv, TypeOK, Worker
<1>3. WorkerInv(w)'
  BY <1>2 DEF WorkerInv, Mutexed, Holding, Alone, Locked, Solo
<1>4. ASSUME NEW v \in Worker \ {w} PROVE SameWorker(v)
  BY DEF Inv, TypeOK, SameWorker, Worker
<1>5. id'[w] = None
  BY DEF Inv, TypeOK
<1>6. QED BY <1>1, <1>3, <1>4, <1>5, StepKeeps

-----------------------------------------------------------------------------
\* What is known about the worker of a locked stage.
LEMMA Holder ==
    ASSUME Inv, NEW h \in Worker, pc[h] \in Locked
    PROVE  /\ uploadMu = h /\ id[h] \in Id /\ row[h] \in Upload
           /\ row[h].total = announced[id[h]]
           /\ StoreInv(id[h]) /\ Holding(h) /\ announced[id[h]] \in 1..MaxChunks
<1>1. uploadMu = h /\ id[h] \in Id /\ row[h] \in Upload /\ row[h].total = announced[id[h]]
  BY DEF Inv, WorkerInv, Mutexed
<1>2. QED BY <1>1 DEF Inv, WorkerInv, Upload

LEMMA CreatePartStep == ASSUME Inv, NEW h \in Handler, CreatePart(h) PROVE Inv'
<1> USE DEF CreatePart, Goto, Tables, Locals
<1>1. /\ uploadMu = h /\ id[h] \in Id /\ row[h] \in Upload
      /\ row[h].total = announced[id[h]]
      /\ uploads[id[h]] = None /\ row[h].next = 0 /\ WholeAt(id[h])
  BY Holder DEF Worker, Locked, Holding, StoreInv
<1>2. parts'[id[h]] = Whole(0) /\ pc'[h] = "record"
  BY <1>1, WholeFacts DEF Inv, TypeOK, Worker
<1>3. TypeOK'
  <2>1. <<>> \in Content
    BY DEF Content
  <2>2. QED BY <2>1 DEF Inv, TypeOK, Stage, Locked
<1>4. WorkerInv(h)'
  BY <1>1, <1>2 DEF WorkerInv, Mutexed, Holding, Alone, Locked, Cleaning, Solo
<1>5. ASSUME NEW v \in Worker \ {h} PROVE SameWorker(v)
  BY DEF SameWorker, Inv, TypeOK
<1>6. ASSUME NEW i \in Id PROVE LessAt(i) \/ OwnAt(h, i)
  BY <1>1 DEF LessAt, OwnAt, Session, WholeAt, Inv, TypeOK
<1>7. QED BY <1>3, <1>4, <1>5, <1>6, StepKeeps DEF Worker

LEMMA PutUploadStep == ASSUME Inv, NEW h \in Handler, PutUpload(h) PROVE Inv'
<1> USE Typed DEF StoresTyped
<1>1. /\ uploadMu = h /\ id[h] \in Id /\ row[h] \in Upload
      /\ row[h].total = announced[id[h]]
      /\ row[h].next = 0 /\ parts[id[h]] \in {Whole(0), None} /\ WholeAt(id[h])
  BY Holder DEF Worker, Locked, Holding, StoreInv, PutUpload
<1> DEFINE r == [row[h] EXCEPT !.expires = now + TTL]
<1>2. r \in Upload /\ r.next = 0 /\ r.total = announced[id[h]]
  <2>1. now + TTL \in Nat
    OBVIOUS
  <2>2. QED BY <1>1, <2>1 DEF Upload
<1> HIDE DEF r
<1>3. StoresTyped'
  BY <1>2 DEF PutUpload, Disk, r
<1>4. uploads'[id[h]] = r
  BY <1>1 DEF PutUpload, r
<1>5. ASSUME NEW i \in Id, i = id[h] PROVE Session(i)' /\ WholeAt(i)'
  <2>1. r.next \in Nat /\ r.total \in Nat /\ r.next <= r.total
    BY <1>2 DEF Upload
  <2>2. QED BY <1>1, <1>2, <1>4, <1>5, <2>1 DEF Session, WholeAt, PutUpload, Disk
<1>6. ASSUME NEW i \in Id PROVE LessAt(i) \/ OwnAt(h, i)
  <2>1. CASE i = id[h]
    BY <1>1, <1>5, <2>1 DEF OwnAt
  <2>2. CASE i # id[h]
    BY <2>2 DEF LessAt, PutUpload, Disk
  <2>3. QED BY <2>1, <2>2
<1>7. QED BY <1>3, <1>6, ReturnKeeps DEF Worker, PutUpload

LEMMA PutUploadFailsStep == ASSUME Inv, NEW h \in Handler, PutUploadFails(h) PROVE Inv'
<1> USE Typed DEF StoresTyped, PutUploadFails, Tables
<1>1. StoresTyped'
  BY FailTyped
<1>2. ASSUME NEW i \in Id PROVE LessAt(i)
  BY DEF LessAt
<1>3. QED BY <1>1, <1>2, ReturnKeeps DEF Worker

LEMMA CreatePartFailsStep == ASSUME Inv, NEW h \in Handler, CreatePartFails(h) PROVE Inv'
<1> USE Typed DEF StoresTyped, LocalsTyped, Tables
<1>1. /\ uploadMu = h /\ id[h] \in Id /\ uploads[id[h]] = None /\ WholeAt(id[h])
  BY Holder DEF Worker, Locked, Holding, StoreInv, CreatePartFails
<1>2. <<>> \in Content
  BY DEF Content
<1>3. parts' \in {parts, [parts EXCEPT ![id[h]] = <<>>]} /\ maimed' \in {maimed, maimed \cup {id[h]}}
  BY DEF CreatePartFails
<1>4. StoresTyped'
  <2>1. parts' \in [Id -> Content \cup {None}]
    BY <1>1, <1>2, <1>3
  <2>2. maimed' \subseteq Id
    BY <1>1, <1>3
  <2>3. faults' \in 0..MaxFaults
    BY FailTyped DEF CreatePartFails
  <2>4. QED BY <2>1, <2>2, <2>3 DEF CreatePartFails
<1>5. ASSUME NEW i \in Id PROVE LessAt(i) \/ OwnAt(h, i)
  BY <1>1, <1>3 DEF LessAt, OwnAt, Session, WholeAt, CreatePartFails
<1>6. QED BY <1>4, <1>5, ReturnKeeps DEF Worker, CreatePartFails

LEMMA AppendChunkStep == ASSUME Inv, NEW h \in Handler, AppendChunk(h) PROVE Inv'
<1> USE Typed DEF StoresTyped, LocalsTyped
<1>1. /\ pc[h] = "open" /\ uploadMu = h /\ id[h] \in Id /\ row[h] \in Upload
      /\ row[h].total = announced[id[h]]
      /\ row[h].next < row[h].total
      /\ parts[id[h]] \in {Whole(row[h].next), None}
      /\ uploads[id[h]] # None => uploads[id[h]].next = row[h].next
      /\ Session(id[h]) /\ WholeAt(id[h])
  BY Holder DEF Worker, Locked, Holding, StoreInv, AppendChunk
<1>2. CASE Return(h)
  <2>1. parts' = parts
    BY <1>1, <1>2 DEF AppendChunk, Return, Goto, Worker
  <2>2. StoresTyped' /\ \A i \in Id : LessAt(i)
    BY <2>1 DEF LessAt, AppendChunk, Tables
  <2>3. QED BY <1>2, <2>2, ReturnKeeps DEF Worker, AppendChunk
<1>3. CASE Goto(h, "advance") /\ UNCHANGED <<uploadMu, Locals>>
  <2> DEFINE n == row[h].next
  <2>1. n \in Nat /\ n < MaxChunks /\ n \in Chunk
    BY <1>1 DEF Upload, Chunk
  <2> HIDE DEF n
  <2>2. Append(Whole(n), n) = Whole(n + 1) /\ Whole(n + 1) \in Content /\ Len(Whole(n + 1)) = n + 1
    <3>1. n + 1 \in Nat /\ n + 1 <= MaxChunks
      BY <2>1
    <3>2. QED BY <2>1, <3>1, WholeFacts
  <2>3. parts[id[h]] = None => parts' = parts
    BY <1>1 DEF AppendChunk
  <2>4. parts[id[h]] # None => parts' = [parts EXCEPT ![id[h]] = Whole(n + 1)]
    BY <1>1, <2>2, <1>3 DEF AppendChunk, n
  <2>5. parts' \in {parts, [parts EXCEPT ![id[h]] = Whole(n + 1)]}
    BY <2>3, <2>4
  <2>6. parts'[id[h]] \in {Whole(n + 1), None}
    BY <1>1, <2>3, <2>4
  <2>7. TypeOK'
    <3>1. parts' \in [Id -> Content \cup {None}]
      BY <2>2, <2>5
    <3>2. pc' \in [Worker -> Stage]
      BY <1>3 DEF Goto, Stage, Locked
    <3>3. QED BY <1>3, <3>1, <3>2 DEF TypeOK, AppendChunk, Tables, Locals
  <2>8. pc'[h] = "advance"
    BY <1>3 DEF Goto, Worker
  <2>9. WorkerInv(h)'
    BY <1>1, <1>3, <2>6, <2>8
    DEF n, WorkerInv, Mutexed, Holding, Alone, Locked, Cleaning, Solo, AppendChunk, Locals, Tables
  <2>10. ASSUME NEW v \in Worker \ {h} PROVE SameWorker(v)
    BY <1>3 DEF SameWorker, Goto, Locals
  <2>11. ASSUME NEW i \in Id, i = id[h] PROVE Session(i)' /\ WholeAt(i)'
    <3>1. uploads' = uploads /\ artifacts' = artifacts /\ files' = files /\ announced' = announced
      BY DEF AppendChunk, Tables
    <3>2. uploads[i] # None => /\ uploads[i].total = announced[i]
                               /\ uploads[i].next = n /\ n < uploads[i].total
      BY <1>1, <2>11 DEF Session, n
    <3>3. Session(i)'
      BY <2>1, <2>2, <2>6, <2>11, <3>1, <3>2 DEF Session
    <3>4. WholeAt(i)'
      BY <1>1, <2>11, <3>1 DEF WholeAt
    <3>5. QED BY <3>3, <3>4
  <2>12. ASSUME NEW i \in Id PROVE LessAt(i) \/ OwnAt(h, i)
    <3>1. CASE i = id[h]
      BY <1>1, <2>11, <3>1 DEF OwnAt
    <3>2. CASE i # id[h]
      BY <2>5, <3>2 DEF LessAt, AppendChunk, Tables
    <3>3. QED BY <3>1, <3>2
  <2>13. announced' = announced /\ id'[h] = id[h]
    BY <1>3 DEF AppendChunk, Locals
  <2>14. QED BY <2>7, <2>9, <2>10, <2>12, <2>13, StepKeeps DEF Worker
<1>4. QED BY <1>2, <1>3 DEF AppendChunk

LEMMA AppendFailsStep == ASSUME Inv, NEW h \in Handler, AppendFails(h) PROVE Inv'
<1> USE Typed DEF StoresTyped, LocalsTyped
<1>1. /\ uploadMu = h /\ id[h] \in Id /\ row[h] \in Upload
      /\ row[h].total = announced[id[h]]
      /\ row[h].next < row[h].total
      /\ parts[id[h]] = Whole(row[h].next)
      /\ uploads[id[h]] # None => uploads[id[h]].next = row[h].next
      /\ Session(id[h]) /\ WholeAt(id[h])
  BY Holder DEF Worker, Locked, Holding, StoreInv, AppendFails
<1> DEFINE n == row[h].next
<1>2. n \in Nat /\ n < MaxChunks
  BY <1>1 DEF Upload
<1> HIDE DEF n
<1>3. Whole(n) \in Content /\ Len(Whole(n)) = n
  <2>1. n <= MaxChunks
    BY <1>2
  <2>2. QED BY <1>2, <2>1, WholeFacts
<1>4. Append(Whole(n), Cut) \in Content /\ Len(Append(Whole(n), Cut)) = n + 1
  BY <1>3 DEF Content, Chunk
<1>5. parts' \in {parts, [parts EXCEPT ![id[h]] = Append(Whole(n), Cut)]}
  BY <1>1 DEF AppendFails, n
<1>6. maimed' \subseteq Id
  BY <1>1 DEF AppendFails
<1>7. StoresTyped'
  <2>1. parts' \in [Id -> Content \cup {None}]
    BY ZenonT(60), <1>4, <1>5
  <2>2. faults' \in 0..MaxFaults
    BY FailTyped DEF AppendFails
  <2>3. QED BY <1>6, <2>1, <2>2 DEF AppendFails, Tables
<1>8. parts'[id[h]] \in {Whole(n), Append(Whole(n), Cut)}
  BY <1>1, <1>5 DEF n
<1>9. ASSUME NEW i \in Id PROVE LessAt(i) \/ OwnAt(h, i)
  <2>1. CASE i = id[h]
    <3>1. uploads' = uploads /\ artifacts' = artifacts /\ files' = files /\ announced' = announced
      BY DEF AppendFails, Tables
    <3>2. uploads[i] # None => /\ uploads[i].total = announced[i]
                               /\ uploads[i].next = n /\ n < uploads[i].total
      BY <1>1, <2>1 DEF Session, n
    <3>3. Session(i)'
      BY <1>2, <1>3, <1>4, <1>8, <2>1, <3>1, <3>2 DEF Session
    <3>4. WholeAt(i)'
      BY <1>1, <2>1, <3>1 DEF WholeAt
    <3>5. QED BY <1>1, <2>1, <3>3, <3>4 DEF OwnAt
  <2>2. CASE i # id[h]
    BY <1>5, <2>2 DEF LessAt, AppendFails, Tables
  <2>3. QED BY <2>1, <2>2
<1>10. QED BY <1>7, <1>9, ReturnKeeps DEF Worker, AppendFails

LEMMA AdvanceStep == ASSUME Inv, NEW h \in Handler, Advance(h) PROVE Inv'
<1> USE Typed DEF StoresTyped, LocalsTyped
<1>1. /\ uploadMu = h /\ id[h] \in Id /\ row[h] \in Upload
      /\ row[h].total = announced[id[h]]
      /\ row[h].next < row[h].total
      /\ parts[id[h]] \in {Whole(row[h].next + 1), None}
      /\ Session(id[h]) /\ WholeAt(id[h])
  BY Holder DEF Worker, Locked, Holding, StoreInv, Advance
<1> DEFINE n == row[h].next
           old == uploads[id[h]]
           new == IF old = None THEN None ELSE [old EXCEPT !.next = n + 1]
<1>2. n \in Nat /\ n < MaxChunks
  BY <1>1 DEF Upload
<1>3. old # None => /\ [old EXCEPT !.next = n + 1] \in Upload
                    /\ new.next = n + 1 /\ new.total = announced[id[h]]
  <2>1. n + 1 \in 0..MaxChunks
    BY <1>2
  <2>2. old # None => old \in Upload /\ old.total = announced[id[h]]
    BY <1>1 DEF Session
  <2> HIDE DEF n, old
  <2>3. QED BY <2>1, <2>2 DEF Upload
<1>4. new \in Upload \cup {None}
  BY <1>3
<1>5. uploads' = [uploads EXCEPT ![id[h]] = new]
  BY DEF Advance
<1> HIDE DEF new, old, n
<1>6. uploads'[id[h]] = new
  BY <1>1, <1>5
<1>7. StoresTyped'
  <2>1. uploads' \in [Id -> Upload \cup {None}]
    BY <1>4, <1>5
  <2>2. QED BY <2>1 DEF Advance, Disk
<1>8. ASSUME NEW i \in Id PROVE LessAt(i) \/ OwnAt(h, i)
  <2>1. CASE i = id[h]
    <3>1. parts' = parts /\ artifacts' = artifacts /\ files' = files /\ announced' = announced
      BY DEF Advance, Disk
    <3>2. n + 1 <= announced[i] /\ announced[i] \in Nat
      BY <1>1, <1>2, <2>1 DEF Upload, n
    <3>3. new # None => new.next = n + 1 /\ new.total = announced[i]
      BY <1>3, <2>1 DEF new
    <3>4. uploads'[i] = new /\ parts[i] \in {Whole(n + 1), None}
      BY <1>1, <1>6, <2>1 DEF n
    <3>5. Session(i)' /\ WholeAt(i)'
      BY <1>1, <1>2, <2>1, <3>1, <3>2, <3>3, <3>4 DEF Session, WholeAt
    <3>6. QED BY <1>1, <2>1, <3>5 DEF OwnAt
  <2>2. CASE i # id[h]
    BY <1>5, <2>2 DEF LessAt, Advance, Disk
  <2>3. QED BY <2>1, <2>2
<1>9. QED BY <1>7, <1>8, ReturnKeeps DEF Worker, Advance

LEMMA AdvanceFailsStep == ASSUME Inv, NEW h \in Handler, AdvanceFails(h) PROVE Inv'
<1> USE Typed DEF StoresTyped, AdvanceFails, Tables, Disk
<1>1. id[h] \in Id
  BY Holder DEF Worker, Locked
<1>2. StoresTyped'
  BY <1>1, FailTyped
<1>3. ASSUME NEW i \in Id PROVE LessAt(i)
  BY DEF LessAt
<1>4. QED BY <1>2, <1>3, ReturnKeeps DEF Worker

LEMMA RenamePartStep == ASSUME Inv, NEW h \in Handler, RenamePart(h) PROVE Inv'
<1> USE Typed DEF StoresTyped, LocalsTyped
<1>1. /\ pc[h] = "hashed" /\ uploadMu = h /\ id[h] \in Id /\ row[h] \in Upload
      /\ row[h].total = announced[id[h]]
      /\ row[h].next = row[h].total
      /\ digest[h] = Whole(announced[id[h]])
      /\ parts[id[h]] \in {Whole(announced[id[h]]), None}
      /\ uploads[id[h]] # None => uploads[id[h]].next = row[h].next
      /\ Session(id[h]) /\ WholeAt(id[h])
  BY Holder DEF Worker, Locked, Holding, StoreInv, RenamePart
<1>2. CASE parts[id[h]] = None /\ Return(h) /\ UNCHANGED Disk
  <2>1. StoresTyped' /\ \A i \in Id : LessAt(i)
    BY <1>2 DEF LessAt, RenamePart, Tables, Disk
  <2>2. QED BY <1>2, <2>1, ReturnKeeps DEF Worker, RenamePart
<1>3. CASE /\ parts[id[h]] # None
           /\ files' = [files EXCEPT ![id[h]] = parts[id[h]]]
           /\ parts' = [parts EXCEPT ![id[h]] = None]
           /\ Goto(h, "renamed") /\ UNCHANGED <<uploadMu, Locals>>
  <2>1. files'[id[h]] = Whole(announced[id[h]]) /\ parts'[id[h]] = None
    BY <1>1, <1>3
  <2>2. pc'[h] = "renamed" /\ pc' \in [Worker -> Stage]
    BY <1>3 DEF Goto, Worker, Stage, Locked
  <2>3. parts' \in [Id -> Content \cup {None}] /\ files' \in [Id -> Content \cup {None}]
    BY <1>1, <1>3
  <2>4. TypeOK'
    BY <1>3, <2>2, <2>3 DEF TypeOK, RenamePart, Tables, Locals
  <2>5. WorkerInv(h)'
    BY <1>1, <1>3, <2>1, <2>2
    DEF WorkerInv, Mutexed, Holding, Alone, Locked, Cleaning, Solo, RenamePart, Locals, Tables
  <2>6. ASSUME NEW v \in Worker \ {h} PROVE SameWorker(v)
    BY <1>3 DEF SameWorker, Goto, Locals
  <2>7. ASSUME NEW i \in Id PROVE LessAt(i) \/ OwnAt(h, i)
    <3>1. CASE i = id[h]
      BY <1>1, <2>1, <3>1 DEF OwnAt, Session, WholeAt, RenamePart, Tables
    <3>2. CASE i # id[h]
      BY <1>3, <3>2 DEF LessAt, RenamePart, Tables
    <3>3. QED BY <3>1, <3>2
  <2>8. QED BY <1>3, <2>4, <2>5, <2>6, <2>7, StepKeeps DEF Worker, RenamePart, Locals
<1>4. QED BY <1>2, <1>3 DEF RenamePart

\* The digest is that of the whole content, and the file, if it is still there.
LEMMA PutArtifactStep == ASSUME Inv, NEW h \in Handler, PutArtifact(h) PROVE Inv'
<1> USE Typed DEF StoresTyped, LocalsTyped
<1> DEFINE a == [digest |-> digest[h], expires |-> now + TTL]
<1>1. /\ id[h] \in Id /\ (uploadMu = h \/ pc[h] \in Solo)
      /\ digest[h] = Whole(announced[id[h]])
      /\ files[id[h]] \in {digest[h], None} /\ Session(id[h])
  <2>1. CASE pc[h] = "renamed"
    BY <2>1, Holder DEF Worker, Locked, Holding, StoreInv
  <2>2. CASE pc[h] = "received"
    BY <2>2 DEF Inv, WorkerInv, StoreInv, Alone, Solo, Worker
  <2>3. QED BY <2>1, <2>2 DEF PutArtifact
<1>2. a \in Artifact /\ a.digest = Whole(announced[id[h]])
  <2>1. now + TTL \in Nat
    OBVIOUS
  <2>2. digest[h] \in Content
    <3>1. announced[id[h]] \in 0..MaxChunks
      BY <1>1
    <3>2. announced[id[h]] \in Nat /\ announced[id[h]] <= MaxChunks
      BY <3>1, ArtifactUploadAssumption
    <3>3. Whole(announced[id[h]]) \in Content
      BY <3>2, WholeFacts
    <3>4. QED BY <1>1, <3>3
  <2>3. QED BY <1>1, <2>1, <2>2 DEF Artifact
<1> HIDE DEF a
<1>3. artifacts' = [artifacts EXCEPT ![id[h]] = a]
  BY DEF PutArtifact, a
<1>4. artifacts' \in [Id -> Artifact \cup {None}] /\ artifacts'[id[h]] = a
  BY <1>1, <1>2, <1>3
<1>5. /\ pc' \in [Worker -> Stage] /\ due' \in [Worker -> 0..MaxTime]
      /\ pc'[h] \in {"registered", "select"}
      /\ pc'[h] = "registered" => pc[h] = "renamed"
      /\ pc'[h] = "select" => pc[h] = "received"
  BY DEF PutArtifact, Goto, StartCleaning, Stage, Locked, Cleaning, Worker
<1>6. TypeOK'
  BY <1>4, <1>5 DEF TypeOK, PutArtifact, Disk
<1>7. WorkerInv(h)'
  <2>1. WorkerInv(h)
    BY DEF Inv, Worker
  <2>2. pc[h] = "received" => uploadMu # h
    BY <2>1 DEF WorkerInv, Mutexed, Locked, Cleaning
  <2>3. QED
    BY <1>5, <2>1, <2>2 DEF WorkerInv, Mutexed, Holding, Alone, Locked, Cleaning, Solo, PutArtifact
<1>8. ASSUME NEW v \in Worker \ {h} PROVE SameWorker(v)
  BY DEF SameWorker, Goto, StartCleaning, PutArtifact
<1>9. ASSUME NEW i \in Id PROVE LessAt(i) \/ OwnAt(h, i)
  <2>1. CASE i = id[h]
    BY <1>1, <1>2, <1>4, <2>1 DEF OwnAt, Session, WholeAt, PutArtifact, Disk
  <2>2. CASE i # id[h]
    BY <1>3, <2>2 DEF LessAt, PutArtifact, Disk
  <2>3. QED BY <2>1, <2>2
<1>10. QED BY <1>6, <1>7, <1>8, <1>9, StepKeeps DEF Worker, PutArtifact

LEMMA PutArtifactFailsStep == ASSUME Inv, NEW h \in Handler, PutArtifactFails(h) PROVE Inv'
<1> USE Typed DEF StoresTyped, LocalsTyped
<1>1. /\ uploadMu = h /\ id[h] \in Id /\ row[h] \in Upload
      /\ row[h].total = announced[id[h]]
      /\ row[h].next = row[h].total
      /\ files[id[h]] \in {Whole(announced[id[h]]), None}
      /\ uploads[id[h]] # None => uploads[id[h]].next = row[h].next
      /\ Session(id[h]) /\ WholeAt(id[h])
  BY Holder DEF Worker, Locked, Holding, StoreInv, PutArtifactFails
<1>2. StoresTyped'
  <2>1. parts' \in [Id -> Content \cup {None}] /\ files' \in [Id -> Content \cup {None}]
    BY <1>1 DEF PutArtifactFails
  <2>2. faults' \in 0..MaxFaults /\ maimed' \subseteq Id
    BY <1>1, FailTyped DEF PutArtifactFails
  <2>3. QED BY <2>1, <2>2 DEF PutArtifactFails, Tables
<1>3. ASSUME NEW i \in Id PROVE LessAt(i) \/ OwnAt(h, i)
  <2>1. CASE i = id[h]
    <3>1. parts'[i] \in {Whole(announced[i]), None} /\ files'[i] = None
      BY <1>1, <2>1 DEF PutArtifactFails
    <3>2. QED
      BY <1>1, <2>1, <3>1 DEF OwnAt, Session, WholeAt, PutArtifactFails, Tables
  <2>2. CASE i # id[h]
    BY <2>2 DEF LessAt, PutArtifactFails, Tables
  <2>3. QED BY <2>1, <2>2
<1>4. QED BY <1>2, <1>3, ReturnKeeps DEF Worker, PutArtifactFails

LEMMA DeleteUploadStep == ASSUME Inv, NEW h \in Handler, DeleteUpload(h) PROVE Inv'
<1> USE Typed DEF StoresTyped
<1>1. id[h] \in Id
  BY Holder DEF Worker, Locked, DeleteUpload
<1>2. uploads' \in [Id -> Upload \cup {None}] /\ faults' \in 0..MaxFaults /\ maimed' \subseteq Id
  BY <1>1, FailTyped DEF DeleteUpload
<1>3. StoresTyped'
  BY <1>2 DEF DeleteUpload, Disk
<1>4. ASSUME NEW i \in Id PROVE LessAt(i)
  BY DEF LessAt, DeleteUpload, Disk
<1>5. QED BY <1>3, <1>4, ReturnKeeps DEF Worker, DeleteUpload

\* A new identifier is taken, which nothing else refers to.
LEMMA FreshKeeps ==
    ASSUME Inv, NEW w \in Worker, NEW i \in Id, announced[i] = 0,
           NEW total \in 1..MaxChunks, announced' = [announced EXCEPT ![i] = total],
           uploads' = uploads, artifacts' = artifacts, parts' = parts,
           files' \in {files, [files EXCEPT ![i] = <<Cut>>]},
           id'[w] = i, \A v \in Worker \ {w} : SameWorker(v),
           TypeOK', WorkerInv(w)'
    PROVE  Inv'
<1> USE Typed DEF StoresTyped, LocalsTyped
<1>1. uploads[i] = None /\ artifacts[i] = None /\ \A v \in Worker : id[v] # i
  BY DEF Inv, StoreInv, Fresh
<1>2. \A j \in Id \ {i} : announced'[j] = announced[j] /\ files'[j] = files[j]
  OBVIOUS
<1>3. ASSUME NEW v \in Worker \ {w} PROVE WorkerInv(v)'
  <2>1. WorkerInv(v) /\ SameWorker(v) /\ id[v] # i
    BY <1>1 DEF Inv
  <2>2. uploadMu = v \/ pc[v] \in Solo => id[v] \in Id \ {i}
    BY <2>1 DEF WorkerInv, Mutexed, Alone
  <2>3. Mutexed(v)'
    BY <1>2, <2>1, <2>2 DEF WorkerInv, Mutexed, SameWorker
  <2>4. Holding(v)'
    BY <1>2, <2>1, <2>2 DEF WorkerInv, Holding, SameWorker
  <2>5. Alone(v)'
    <3>1. SUFFICES ASSUME pc[v] \in Solo PROVE Alone(v)'
      BY <2>1 DEF SameWorker, Alone
    <3>2. ASSUME NEW u \in Worker \ {v} PROVE id'[u] # id[v]
      <4>1. CASE u = w
        BY <2>1, <4>1
      <4>2. CASE u # w
        BY <2>1, <3>1, <4>2 DEF WorkerInv, Alone, SameWorker
      <4>3. QED BY <4>1, <4>2
    <3>3. QED BY <1>2, <2>1, <2>2, <3>1, <3>2 DEF WorkerInv, Alone, SameWorker
  <2>6. QED BY <2>3, <2>4, <2>5 DEF WorkerInv
<1>4. ASSUME NEW j \in Id PROVE StoreInv(j)'
  <2>1. CASE j = i
    <3>1. announced'[j] # 0
      BY <2>1
    <3>2. QED BY <1>1, <2>1, <3>1 DEF StoreInv, Fresh, Session, WholeAt
  <2>2. CASE j # i
    <3>1. StoreInv(j) /\ announced'[j] = announced[j] /\ files'[j] = files[j]
      BY <1>2, <2>2 DEF Inv
    <3>2. announced[j] = 0 => \A v \in Worker : id'[v] # j
      <4>1. SUFFICES ASSUME announced[j] = 0, NEW v \in Worker PROVE id'[v] # j
        OBVIOUS
      <4>2. CASE v = w
        BY <2>2, <4>2
      <4>3. CASE v # w
        BY <3>1, <4>1, <4>3 DEF StoreInv, Fresh, SameWorker
      <4>4. QED BY <4>2, <4>3
    <3>3. QED BY <3>1, <3>2 DEF StoreInv, Fresh, Session, WholeAt
  <2>3. QED BY <2>1, <2>2
<1>5. QED BY <1>3, <1>4 DEF Inv

LEMMA BeginStep == ASSUME Inv, NEW h \in Handler, Begin(h) PROVE Inv'
<1> USE Typed DEF StoresTyped, LocalsTyped, Begin, Lock, StartCleaning, Goto, Take, Tables, Disk
<1>1. PICK i \in Id, total \in 1..MaxChunks :
        /\ announced[i] = 0
        /\ announced' = [announced EXCEPT ![i] = total]
        /\ Take(h, i, [next |-> 0, total |-> total, expires |-> 0])
  OBVIOUS
<1> DEFINE r == [next |-> 0, total |-> total, expires |-> 0]
<1>2. r \in Upload /\ r.next = 0 /\ r.total = total
  BY DEF Upload
<1> HIDE DEF r
<1>3. id' = [id EXCEPT ![h] = i] /\ row' = [row EXCEPT ![h] = r]
  BY <1>1 DEF r
<1>4. /\ id'[h] = i /\ row'[h] = r /\ pc'[h] = "select" /\ uploadMu' = h
      /\ announced'[i] = total /\ uploads'[i] = None
  BY <1>1, <1>3 DEF Worker, Inv, StoreInv, Fresh
<1>5. TypeOK'
  <2>1. row' \in [Worker -> Upload \cup {None}] /\ id' \in [Worker -> Id \cup {None}]
    BY <1>2, <1>3
  <2>2. pc' \in [Worker -> Stage]
    BY DEF Stage, Cleaning
  <2>3. announced' \in [Id -> 0..MaxChunks]
    BY <1>1
  <2>4. QED BY <2>1, <2>2, <2>3 DEF TypeOK
<1>6. WorkerInv(h)'
  BY <1>2, <1>4 DEF WorkerInv, Mutexed, Holding, Alone, Locked, Cleaning, Solo
<1>7. ASSUME NEW v \in Worker \ {h} PROVE SameWorker(v)
  BY <1>3, <1>4 DEF SameWorker, Worker
<1>8. QED BY <1>1, <1>4, <1>5, <1>6, <1>7, FreshKeeps DEF Worker

LEMMA ReceiveStep == ASSUME Inv, NEW h \in Handler, Receive(h) PROVE Inv'
<1> USE Typed DEF StoresTyped, LocalsTyped, Receive, Goto, Tables
<1>1. PICK i \in Id, total \in 1..MaxChunks :
        /\ announced[i] = 0
        /\ announced' = [announced EXCEPT ![i] = total]
        /\ id' = [id EXCEPT ![h] = i]
        /\ files' = [files EXCEPT ![i] = <<Cut>>]
  OBVIOUS
<1>2. /\ id'[h] = i /\ pc'[h] = "receiving" /\ uploadMu' = uploadMu /\ uploadMu # h
      /\ uploads[i] = None /\ artifacts[i] = None /\ \A v \in Worker : id[v] # i
  BY <1>1 DEF Worker, Inv, StoreInv, Fresh, WorkerInv, Mutexed, Locked, Cleaning
<1>3. TypeOK'
  <2>1. <<Cut>> \in Content
    BY DEF Content, Chunk
  <2>2. files' \in [Id -> Content \cup {None}] /\ id' \in [Worker -> Id \cup {None}]
    BY <1>1, <2>1
  <2>3. pc' \in [Worker -> Stage]
    BY DEF Stage
  <2>4. announced' \in [Id -> 0..MaxChunks]
    BY <1>1
  <2>5. QED BY <2>2, <2>3, <2>4 DEF TypeOK
<1>4. WorkerInv(h)'
  <2>1. \A v \in Worker \ {h} : id'[v] # i
    BY <1>1, <1>2
  <2>2. QED BY <1>2, <2>1 DEF WorkerInv, Mutexed, Holding, Alone, Locked, Cleaning, Solo
<1>5. ASSUME NEW v \in Worker \ {h} PROVE SameWorker(v)
  BY <1>1 DEF SameWorker, Worker
<1>6. QED BY <1>1, <1>2, <1>3, <1>4, <1>5, FreshKeeps DEF Worker

LEMMA ReceiveAllStep == ASSUME Inv, NEW h \in Handler, ReceiveAll(h) PROVE Inv'
<1> USE Typed DEF StoresTyped, LocalsTyped
<1>1. /\ WorkerInv(h) /\ id[h] \in Id /\ uploadMu # h /\ pc[h] \in Solo
      /\ uploads[id[h]] = None /\ artifacts[id[h]] = None
  BY DEF Inv, WorkerInv, Mutexed, Alone, Worker, Locked, Cleaning, Solo, ReceiveAll
<1> DEFINE all == Whole(announced[id[h]])
<1>2. all \in Content
  <2>1. announced[id[h]] \in Nat /\ announced[id[h]] <= MaxChunks
    BY <1>1
  <2>2. QED BY <2>1, WholeFacts
<1> HIDE DEF all
<1>3. files' = [files EXCEPT ![id[h]] = all] /\ digest' = [digest EXCEPT ![h] = all]
  BY DEF ReceiveAll, all
<1>4. files'[id[h]] = all /\ digest'[h] = all /\ pc'[h] = "received"
  BY <1>1, <1>3 DEF ReceiveAll, Goto, Worker
<1>5. TypeOK'
  <2>1. files' \in [Id -> Content \cup {None}] /\ digest' \in [Worker -> Content \cup {None}]
    BY <1>2, <1>3
  <2>2. pc' \in [Worker -> Stage]
    BY DEF Stage, ReceiveAll, Goto
  <2>3. QED BY <2>1, <2>2 DEF TypeOK, ReceiveAll, Tables
<1>6. WorkerInv(h)'
  BY <1>1, <1>4
  DEF WorkerInv, Mutexed, Holding, Alone, Locked, Cleaning, Solo, ReceiveAll, Tables, all
<1>7. ASSUME NEW v \in Worker \ {h} PROVE SameWorker(v)
  BY <1>3 DEF SameWorker, ReceiveAll, Goto
<1>8. ASSUME NEW i \in Id PROVE LessAt(i) \/ OwnAt(h, i)
  <2>1. CASE i = id[h]
    BY <1>1, <2>1 DEF OwnAt, Session, WholeAt, ReceiveAll, Tables
  <2>2. CASE i # id[h]
    BY <1>3, <2>2 DEF LessAt, ReceiveAll, Tables
  <2>3. QED BY <2>1, <2>2
<1>9. QED BY <1>5, <1>6, <1>7, <1>8, StepKeeps DEF Worker, ReceiveAll

LEMMA RefuseStep ==
    ASSUME Inv, NEW h \in Handler, RefuseFile(h) \/ ProbeFails(h) \/ UndoFails(h) PROVE Inv'
<1> USE Typed DEF StoresTyped
<1>1. id[h] \in Id
  BY DEF Inv, WorkerInv, Mutexed, Locked, Alone, Worker, Solo, RefuseFile, ProbeFails, UndoFails
<1>2. files' \in [Id -> Content \cup {None}] /\ maimed' \subseteq Id /\ faults' \in 0..MaxFaults
  BY <1>1, FailTyped DEF RefuseFile, ProbeFails, UndoFails, Disk
<1>3. StoresTyped'
  BY <1>2 DEF RefuseFile, ProbeFails, UndoFails, Tables, Disk
<1>4. ASSUME NEW i \in Id PROVE LessAt(i)
  BY DEF LessAt, RefuseFile, ProbeFails, UndoFails, Tables, Disk
<1>5. QED BY <1>3, <1>4, ReturnKeeps DEF Worker, RefuseFile, ProbeFails, UndoFails

-----------------------------------------------------------------------------
\* A handler takes up a session whose row it has read.
LEMMA TakeKeeps ==
    ASSUME Inv, NEW h \in Handler, pc[h] = "idle", Lock(h), NEW i \in Id,
           uploads[i] # None, Take(h, i, uploads[i]), NEW stage \in {"open", "hashed"},
           Goto(h, stage), UNCHANGED <<Tables, Disk, due, paths, now, announced, maimed, faults>>,
           parts[i] # None, digest' \in [Worker -> Content \cup {None}],
           \A v \in Worker \ {h} : digest'[v] = digest[v],
           stage = "open" => /\ uploads[i].next < uploads[i].total
                             /\ Len(parts[i]) = uploads[i].next,
           stage = "hashed" => uploads[i].next = uploads[i].total /\ digest'[h] = parts[i]
    PROVE  Inv'
<1> USE Typed DEF StoresTyped, LocalsTyped, Lock, Take, Goto, Tables, Disk
<1>1. uploads[i] \in Upload /\ Session(i)
  BY DEF Inv, StoreInv
<1>2. /\ id'[h] = i /\ row'[h] = uploads[i] /\ pc'[h] = stage /\ uploadMu' = h
      /\ uploads'[i] = uploads[i] /\ parts'[i] = parts[i] /\ announced'[i] = announced[i]
  BY DEF Worker
<1>3. parts[i] = Whole(uploads[i].next) /\ uploads[i].total = announced[i]
  BY <1>1 DEF Session, Upload
<1>4. TypeOK'
  <2>1. row' \in [Worker -> Upload \cup {None}] /\ id' \in [Worker -> Id \cup {None}]
    BY <1>1
  <2>2. pc' \in [Worker -> Stage]
    BY DEF Stage, Locked
  <2>3. QED BY <2>1, <2>2 DEF TypeOK
<1>5. WorkerInv(h)'
  BY <1>1, <1>2, <1>3 DEF WorkerInv, Mutexed, Holding, Alone, Locked, Cleaning, Solo
<1>6. ASSUME NEW v \in Worker \ {h} PROVE SameWorker(v)
  BY DEF SameWorker, Worker
<1>7. ASSUME NEW j \in Id PROVE LessAt(j)
  BY DEF LessAt
<1>8. QED BY <1>2, <1>4, <1>5, <1>6, <1>7, StepKeeps DEF Worker

LEMMA StartChunkStep == ASSUME Inv, NEW h \in Handler, StartChunk(h) PROVE Inv'
<1>1. PICK i \in Id :
        /\ uploads[i] # None /\ uploads[i].next < uploads[i].total
        /\ parts[i] # None /\ Len(parts[i]) = uploads[i].next
        /\ Take(h, i, uploads[i])
  BY DEF StartChunk
<1>2. digest' = digest /\ digest \in [Worker -> Content \cup {None}]
  BY Typed DEF LocalsTyped, StartChunk
<1>3. QED BY <1>1, <1>2, TakeKeeps DEF StartChunk, Worker

LEMMA CompleteStep == ASSUME Inv, NEW h \in Handler, Complete(h) PROVE Inv'
<1>1. PICK i \in Id :
        /\ uploads[i] # None /\ uploads[i].next = uploads[i].total
        /\ parts[i] # None /\ digest' = [digest EXCEPT ![h] = parts[i]]
        /\ Take(h, i, uploads[i])
  BY DEF Complete
<1>2. /\ digest' \in [Worker -> Content \cup {None}] /\ digest'[h] = parts[i]
      /\ \A v \in Worker \ {h} : digest'[v] = digest[v]
  BY <1>1, Typed DEF LocalsTyped, StoresTyped, Worker
<1>3. QED BY <1>1, <1>2, TakeKeeps DEF Complete

-----------------------------------------------------------------------------
\* While it cleans, a worker touches nothing but rows and files it takes away.
LEMMA CleaningKeeps ==
    ASSUME Inv, NEW w \in Worker, pc[w] \in Cleaning, pc'[w] \in Cleaning \cup {"create"},
           pc'[w] = "create" => uploadMu = w,
           UNCHANGED <<uploadMu, id, row, digest, announced>>,
           \A v \in Worker \ {w} : pc'[v] = pc[v],
           \A i \in Id : LessAt(i), TypeOK'
    PROVE  Inv'
<1>1. WorkerInv(w)
  BY DEF Inv
<1>2. uploadMu = w => LessAt(id[w])
  BY <1>1 DEF WorkerInv, Mutexed
<1>3. WorkerInv(w)'
  BY <1>1, <1>2 DEF WorkerInv, Mutexed, Holding, Alone, Locked, Cleaning, Solo, LessAt
<1>4. \A v \in Worker \ {w} : SameWorker(v)
  BY DEF SameWorker
<1>5. QED BY <1>3, <1>4, StepKeeps

LEMMA SelectStep ==
    ASSUME Inv, NEW w \in Worker, SelectArtifacts(w) \/ SelectUploads(w) PROVE Inv'
<1> USE Typed DEF StoresTyped, LocalsTyped, Goto, Tables, Disk
<1>1. Overdue(artifacts, w) \subseteq Id /\ Overdue(uploads, w) \subseteq Id
  BY DEF Overdue
<1>2. /\ pc' \in [Worker -> Stage] /\ paths' \in [Worker -> SUBSET Id]
      /\ pc[w] \in Cleaning /\ pc'[w] \in Cleaning
      /\ \A v \in Worker \ {w} : pc'[v] = pc[v]
  <2>1. CASE SelectArtifacts(w)
    <3>1. pc[w] = "select" /\ pc' = [pc EXCEPT ![w] = "remove"]
      BY <2>1 DEF SelectArtifacts
    <3>2. paths' = [paths EXCEPT ![w] = Overdue(artifacts, w)]
      BY <2>1 DEF SelectArtifacts
    <3>3. paths' \in [Worker -> SUBSET Id]
      BY <1>1, <3>2
    <3>4. QED BY <3>1, <3>3 DEF Stage, Cleaning
  <2>2. CASE SelectUploads(w)
    <3>1. pc[w] = "selectParts" /\ pc' = [pc EXCEPT ![w] = "removeParts"]
      BY <2>2 DEF SelectUploads
    <3>2. paths' = [paths EXCEPT ![w] = Overdue(uploads, w)]
      BY <2>2 DEF SelectUploads
    <3>3. paths' \in [Worker -> SUBSET Id]
      BY <1>1, <3>2
    <3>4. QED BY <3>1, <3>3 DEF Stage, Cleaning
  <2>3. QED BY <2>1, <2>2
<1>3. TypeOK'
  BY <1>2 DEF TypeOK, SelectArtifacts, SelectUploads
<1>4. \A i \in Id : LessAt(i)
  BY DEF LessAt, SelectArtifacts, SelectUploads
<1>5. pc'[w] # "create"
  BY <1>2 DEF Cleaning
<1>6. QED BY <1>2, <1>3, <1>4, <1>5, CleaningKeeps DEF SelectArtifacts, SelectUploads

LEMMA SelectInPartStep ==
    ASSUME Inv, NEW w \in Worker, SelectArtifactsInPart(w) \/ SelectUploadsInPart(w) PROVE Inv'
<1> USE Typed DEF StoresTyped, LocalsTyped, Goto, Tables, Disk
<1>1. Overdue(artifacts, w) \subseteq Id /\ Overdue(uploads, w) \subseteq Id
  BY DEF Overdue
<1>2. /\ pc' \in [Worker -> Stage] /\ paths' \in [Worker -> SUBSET Id]
      /\ pc[w] \in Cleaning /\ pc'[w] \in Cleaning
      /\ \A v \in Worker \ {w} : pc'[v] = pc[v]
  <2>1. CASE SelectArtifactsInPart(w)
    <3>1. pc[w] = "select" /\ pc' = [pc EXCEPT ![w] = "remove"]
      BY <2>1 DEF SelectArtifactsInPart
    <3>2. PICK missed \in SUBSET Overdue(artifacts, w) :
            paths' = [paths EXCEPT ![w] = Overdue(artifacts, w) \ missed]
      BY <2>1 DEF SelectArtifactsInPart
    <3>3. paths' \in [Worker -> SUBSET Id]
      BY <1>1, <3>2
    <3>4. QED BY <3>1, <3>3 DEF Stage, Cleaning
  <2>2. CASE SelectUploadsInPart(w)
    <3>1. pc[w] = "selectParts" /\ pc' = [pc EXCEPT ![w] = "removeParts"]
      BY <2>2 DEF SelectUploadsInPart
    <3>2. PICK missed \in SUBSET Overdue(uploads, w) :
            paths' = [paths EXCEPT ![w] = Overdue(uploads, w) \ missed]
      BY <2>2 DEF SelectUploadsInPart
    <3>3. paths' \in [Worker -> SUBSET Id]
      BY <1>1, <3>2
    <3>4. QED BY <3>1, <3>3 DEF Stage, Cleaning
  <2>3. QED BY <2>1, <2>2
<1>3. TypeOK'
  <2>1. faults' \in 0..MaxFaults /\ maimed' \subseteq Id
    BY <1>1, FailTyped DEF SelectArtifactsInPart, SelectUploadsInPart
  <2>2. QED BY <1>2, <2>1 DEF TypeOK, SelectArtifactsInPart, SelectUploadsInPart
<1>4. \A i \in Id : LessAt(i)
  BY DEF LessAt, SelectArtifactsInPart, SelectUploadsInPart
<1>5. pc'[w] # "create"
  BY <1>2 DEF Cleaning
<1>6. QED BY <1>2, <1>3, <1>4, <1>5, CleaningKeeps DEF SelectArtifactsInPart, SelectUploadsInPart

LEMMA RemoveStep == ASSUME Inv, NEW w \in Worker, Remove(w) PROVE Inv'
<1> USE Typed DEF StoresTyped, LocalsTyped, Tables
<1>1. PICK i \in paths[w] :
        /\ paths' = [paths EXCEPT ![w] = @ \ {i}]
        /\ \/ /\ pc[w] = "remove"
              /\ files' = [files EXCEPT ![i] = None] /\ parts' = parts
           \/ /\ pc[w] = "removeParts"
              /\ parts' = [parts EXCEPT ![i] = None] /\ files' = files
  BY DEF Remove
<1>2. /\ parts' \in [Id -> Content \cup {None}] /\ files' \in [Id -> Content \cup {None}]
      /\ paths' \in [Worker -> SUBSET Id] /\ pc[w] \in Cleaning
  BY <1>1 DEF Cleaning
<1>3. TypeOK'
  BY <1>2 DEF TypeOK, Remove
<1>4. \A j \in Id : LessAt(j)
  BY <1>1 DEF LessAt, Remove
<1>5. pc'[w] \in Cleaning /\ pc'[w] # "create"
  BY <1>2 DEF Remove, Cleaning
<1>6. QED BY <1>2, <1>3, <1>4, <1>5, CleaningKeeps DEF Remove

LEMMA RemoveFailsStep == ASSUME Inv, NEW w \in Worker, RemoveFails(w) PROVE Inv'
<1> USE Typed DEF StoresTyped, LocalsTyped, Tables, Disk
<1>1. PICK i \in paths[w] :
        /\ pc[w] \in {"remove", "removeParts"}
        /\ paths' = [paths EXCEPT ![w] = @ \ {i}] /\ maimed' = maimed \cup {i}
  BY DEF RemoveFails
<1>2. /\ paths' \in [Worker -> SUBSET Id] /\ maimed' \subseteq Id /\ pc[w] \in Cleaning
      /\ faults' \in 0..MaxFaults
  BY <1>1, FailTyped DEF Cleaning, RemoveFails
<1>3. TypeOK'
  BY <1>2 DEF TypeOK, RemoveFails
<1>4. \A j \in Id : LessAt(j)
  BY DEF LessAt, RemoveFails
<1>5. pc'[w] \in Cleaning /\ pc'[w] # "create"
  BY <1>2 DEF RemoveFails, Cleaning
<1>6. QED BY <1>2, <1>3, <1>4, <1>5, CleaningKeeps DEF RemoveFails

LEMMA DeleteArtifactsStep == ASSUME Inv, NEW w \in Worker, DeleteArtifacts(w) PROVE Inv'
<1> USE Typed DEF StoresTyped, LocalsTyped, Goto, Disk, Locals, DeleteArtifacts
<1>1. artifacts' \in [Id -> Artifact \cup {None}]
  BY DEF Delete
<1>2. /\ pc' \in [Worker -> Stage] /\ pc[w] \in Cleaning /\ pc'[w] = "selectParts"
  BY DEF Stage, Cleaning
<1>3. TypeOK'
  BY <1>1, <1>2 DEF TypeOK
<1>4. \A i \in Id : LessAt(i)
  BY DEF LessAt, Delete
<1>5. pc'[w] \in Cleaning /\ pc'[w] # "create"
  BY <1>2 DEF Cleaning
<1>6. QED BY <1>2, <1>3, <1>4, <1>5, CleaningKeeps

LEMMA EndCleaningStep ==
    ASSUME Inv, NEW w \in Worker, DeleteUploads(w) \/ CleaningFails(w) PROVE Inv'
<1> USE Typed DEF StoresTyped, LocalsTyped, Disk
<1>1. uploads' \in [Id -> Upload \cup {None}] /\ faults' \in 0..MaxFaults
  BY FailTyped DEF DeleteUploads, CleaningFails, Delete, Tables
<1>2. /\ announced' = announced /\ StoresTyped' /\ pc[w] \in Cleaning
      /\ \A i \in Id : LessAt(i)
  BY <1>1 DEF DeleteUploads, CleaningFails, Delete, Tables, LessAt, Cleaning
<1>3. CASE Return(w)
  BY <1>2, <1>3, ReturnKeeps
<1>4. CASE uploadMu = w /\ Goto(w, "create") /\ UNCHANGED <<uploadMu, Locals>>
  <2>1. pc' \in [Worker -> Stage] /\ pc'[w] = "create" /\ \A v \in Worker \ {w} : pc'[v] = pc[v]
    BY <1>4 DEF Goto, Stage, Locked
  <2>2. TypeOK'
    BY <1>2, <1>4, <2>1 DEF TypeOK, Locals
  <2>3. QED BY <1>2, <1>4, <2>1, <2>2, CleaningKeeps DEF Locals
<1>5. QED BY <1>3, <1>4 DEF DeleteUploads, CleaningFails, EndCleaning

LEMMA CleanStep == ASSUME Inv, NEW c \in Cleaner, Clean(c) PROVE Inv'
<1> USE Typed DEF StoresTyped, LocalsTyped, Clean, StartCleaning, Goto, Tables, Disk
<1>1. /\ pc' \in [Worker -> Stage] /\ due' \in [Worker -> 0..MaxTime] /\ pc'[c] = "select"
  BY DEF Stage, Cleaning, Worker
<1>2. TypeOK'
  BY <1>1 DEF TypeOK
<1>3. uploadMu' # c
  OBVIOUS
<1>4. WorkerInv(c)'
  BY <1>1, <1>3 DEF WorkerInv, Mutexed, Holding, Alone, Locked, Solo
<1>5. \A v \in Worker \ {c} : SameWorker(v)
  BY DEF SameWorker
<1>6. \A i \in Id : LessAt(i)
  BY DEF LessAt
<1>7. QED BY <1>2, <1>4, <1>5, <1>6, StepKeeps DEF Worker

LEMMA CrashStep ==
    ASSUME Inv, NEW workers \in SUBSET Worker, Crash(workers) PROVE Inv'
<1> USE Typed DEF StoresTyped, LocalsTyped, Tables, Disk
<1>1. \A w \in Worker : pc[w] \in HalfWay => id[w] \in Id
  BY DEF Inv, WorkerInv, Mutexed, Alone, HalfWay, Locked, Solo
<1>2. maimed' \subseteq Id /\ faults' \in 0..MaxFaults
  BY <1>1, FailTyped DEF Crash
<1>3. TypeOK'
  BY <1>2 DEF TypeOK, Crash, Stage
<1>4. ASSUME NEW v \in workers PROVE pc'[v] = "idle" /\ uploadMu' # v /\ id'[v] = None
  BY DEF Crash, Worker
<1>5. ASSUME NEW v \in Worker \ workers PROVE SameWorker(v)
  BY DEF SameWorker, Crash, Worker
<1>6. ASSUME NEW v \in Worker PROVE WorkerInv(v)'
  <2>1. CASE v \in workers
    BY <1>4, <2>1 DEF WorkerInv, Mutexed, Holding, Alone, Locked, Solo
  <2>2. CASE v \notin workers
    <3>1. WorkerInv(v) /\ SameWorker(v)
      BY <1>5, <2>2 DEF Inv
    <3>2. Mutexed(v)' /\ Holding(v)'
      BY <3>1 DEF WorkerInv, Mutexed, Holding, SameWorker, Crash
    <3>3. Alone(v)'
      <4>1. \A u \in Worker : id'[u] \in {id[u], None}
        BY DEF Crash
      <4>2. QED BY <3>1, <4>1 DEF WorkerInv, Alone, SameWorker, Crash
    <3>4. QED BY <3>2, <3>3 DEF WorkerInv
  <2>3. QED BY <2>1, <2>2
<1>7. ASSUME NEW i \in Id PROVE StoreInv(i)'
  <2>1. \A u \in Worker : id'[u] \in {id[u], None}
    BY DEF Crash
  <2>2. QED BY <2>1 DEF Inv, StoreInv, Fresh, Session, WholeAt, Crash
<1>8. QED BY <1>3, <1>6, <1>7 DEF Inv

LEMMA TickStep == Inv /\ (Tick \/ UNCHANGED vars) => Inv'
<1> SUFFICES ASSUME Inv, Tick \/ UNCHANGED vars PROVE Inv'
  OBVIOUS
<1> USE DEF Tick, vars, Tables, Disk, Locals
<1>1. TypeOK'
  BY DEF Inv, TypeOK
<1>2. ASSUME NEW w \in Worker PROVE WorkerInv(w)'
  BY DEF Inv, WorkerInv, Mutexed, Holding, Alone
<1>3. ASSUME NEW i \in Id PROVE StoreInv(i)'
  BY DEF Inv, StoreInv, Fresh, Session, WholeAt
<1>4. QED BY <1>1, <1>2, <1>3 DEF Inv

LEMMA StepInv == Inv /\ [Next]_vars => Inv'
<1> SUFFICES ASSUME Inv, [Next]_vars PROVE Inv'
  OBVIOUS
<1>1. ASSUME NEW h \in Handler, Chunked(h) PROVE Inv'
  <2>1. CASE Begin(h) \/ CreatePart(h) \/ CreatePartFails(h) \/ PutUpload(h) \/ PutUploadFails(h)
    BY <2>1, BeginStep, CreatePartStep, CreatePartFailsStep, PutUploadStep, PutUploadFailsStep
  <2>2. CASE StartChunk(h) \/ AppendChunk(h) \/ AppendFails(h) \/ Advance(h) \/ AdvanceFails(h)
    BY <2>2, StartChunkStep, AppendChunkStep, AppendFailsStep, AdvanceStep, AdvanceFailsStep
  <2>3. CASE \/ Complete(h) \/ RenamePart(h) \/ PutArtifact(h) \/ PutArtifactFails(h)
             \/ DeleteUpload(h)
    BY <2>3, CompleteStep, RenamePartStep, PutArtifactStep, PutArtifactFailsStep, DeleteUploadStep
  <2>4. QED BY <1>1, <2>1, <2>2, <2>3 DEF Chunked
<1>2. ASSUME NEW h \in Handler, Single(h) PROVE Inv'
  BY <1>2, ReceiveStep, ReceiveAllStep, RefuseStep DEF Single
<1>3. ASSUME NEW c \in Cleaner, Clean(c) PROVE Inv'
  BY <1>3, CleanStep
<1>8. ASSUME NEW h \in Handler, UndoFails(h) PROVE Inv'
  BY <1>8, RefuseStep
<1>4. ASSUME NEW w \in Worker, Cleanup(w) PROVE Inv'
  BY <1>4, SelectStep, SelectInPartStep, RemoveStep, RemoveFailsStep, DeleteArtifactsStep,
     EndCleaningStep DEF Cleanup
<1>5. CASE Crash(Handler) \/ Crash(Cleaner)
  BY <1>5, CrashStep DEF Worker
<1>6. CASE Tick \/ UNCHANGED vars
  BY <1>6, TickStep
<1>7. QED BY <1>1, <1>2, <1>3, <1>4, <1>5, <1>6, <1>8 DEF Next

-----------------------------------------------------------------------------
\* Every row, file and local variable has the type it should have, in every
\* reachable state.
THEOREM TypeCorrect == Spec => []TypeOK
<1>1. Inv => TypeOK
  BY DEF Inv
<1>2. QED BY <1>1, InitInv, StepInv, PTL DEF Spec

\* An artifact is all that was sent, in order, and has the digest of that, however
\* the requests, the cleaners of both processes, failures and crashes interleave.
THEOREM ArtifactsStayWhole == Spec => []ArtifactsAreWhole
<1>1. Inv => ArtifactsAreWhole
  BY DEF Inv, StoreInv, WholeAt, ArtifactsAreWhole
<1>2. QED BY <1>1, InitInv, StepInv, PTL DEF Spec
=============================================================================
