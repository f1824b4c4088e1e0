---------------------------- MODULE ArtifactUpload ----------------------------
(***************************************************************************)
(* Managed artifacts: the uploads of internal/gateway/http.go, in chunks    *)
(* (beginArtifactUpload, appendArtifactChunk, completeArtifactUpload) and   *)
(* in one piece (artifacts), and State.CleanupArtifacts of operations.go.   *)
(*                                                                         *)
(* The three chunked operations hold uploadMu of the server; the single     *)
(* upload and the cleaner, which the helper runs too, hold nothing.  Every  *)
(* operation changes a file and a row of the gateway's database, one after  *)
(* the other.                                                               *)
(*                                                                         *)
(* Abstractions.  A file is the sequence of the chunks written to it, its   *)
(* size their number; Cut is a chunk written in part.  Identifiers are      *)
(* random, so fresh; an artifact has the identifier of the upload it comes  *)
(* from, whose part file can be renamed once.  Requests that are refused    *)
(* before anything is changed are not steps.                                *)
(***************************************************************************)
EXTENDS Naturals, Sequences

CONSTANTS
    Handler,     \* requests the server handles at once
    Cleaner,     \* deployments of the helper, which clean up first
    Id,          \* identifiers of uploads and artifacts
    MaxChunks,   \* maxArtifactChunks
    TTL,         \* artifactTTL
    Faults,      \* the kinds of failure that may happen
    MaxFaults,   \* bound: how many of them in one behaviour
    MaxTime,     \* bound: the last instant the clock shows
    Cut, None

ASSUME ArtifactUploadAssumption ==
    /\ Handler \cap Cleaner = {} /\ None \notin Handler \cup Cleaner \cup Id
    /\ MaxChunks \in Nat \ {0} /\ TTL \in Nat \ {0}
    /\ MaxFaults \in Nat /\ MaxTime \in Nat
    /\ Cut \notin Nat
    /\ None \notin Seq(Nat \cup {Cut})
    /\ None \notin [next : Nat, total : Nat, expires : Nat]
    /\ None \notin [digest : Seq(Nat \cup {Cut}), expires : Nat]

Worker == Handler \cup Cleaner
Chunk == (0..MaxChunks - 1) \cup {Cut}
Content == Seq(Chunk)
Upload == [next : 0..MaxChunks, total : 1..MaxChunks, expires : Nat]
Artifact == [digest : Content, expires : Nat]

VARIABLES
    uploads,    \* table artifact_uploads
    artifacts,  \* table artifacts
    parts,      \* files .<upload>.part
    files,      \* files of finished artifacts
    uploadMu,   \* who holds the mutex
    pc,         \* where each worker is
    id,         \* the upload or artifact it works on
    row,        \* the row it read, or is to insert
    digest,     \* the content it hashed
    due,        \* the instant its cleaning compares with
    paths,      \* the files its cleaning has yet to remove
    now,        \* the clock
    announced,  \* history: the number of chunks of each upload, 0 before it
    maimed,     \* history: uploads an operation on which failed half-way
    faults      \* failures so far

vars == <<uploads, artifacts, parts, files, uploadMu, pc, id, row, digest,
          due, paths, now, announced, maimed, faults>>

-----------------------------------------------------------------------------
\* The content that was sent: all the chunks in order.
Whole(n) == [i \in 1..n |-> i - 1]

Cleaning == {"select", "remove", "selectParts", "removeParts"}
Locked == {"create", "record", "open", "advance", "hashed", "renamed", "registered"}
Stage == {"idle", "receiving", "received"} \cup Cleaning \cup Locked

TypeOK ==
    /\ uploads \in [Id -> Upload \cup {None}]
    /\ artifacts \in [Id -> Artifact \cup {None}]
    /\ parts \in [Id -> Content \cup {None}]
    /\ files \in [Id -> Content \cup {None}]
    /\ uploadMu \in Handler \cup {None}
    /\ pc \in [Worker -> Stage]
    /\ id \in [Worker -> Id \cup {None}]
    /\ row \in [Worker -> Upload \cup {None}]
    /\ digest \in [Worker -> Content \cup {None}]
    /\ due \in [Worker -> 0..MaxTime]
    /\ paths \in [Worker -> SUBSET Id]
    /\ now \in 0..MaxTime
    /\ announced \in [Id -> 0..MaxChunks]
    /\ maimed \subseteq Id
    /\ faults \in 0..MaxFaults

Init ==
    /\ uploads = [i \in Id |-> None] /\ artifacts = [i \in Id |-> None]
    /\ parts = [i \in Id |-> None] /\ files = [i \in Id |-> None]
    /\ uploadMu = None
    /\ pc = [w \in Worker |-> "idle"]
    /\ id = [w \in Worker |-> None]
    /\ row = [w \in Worker |-> None]
    /\ digest = [w \in Worker |-> None]
    /\ due = [w \in Worker |-> 0]
    /\ paths = [w \in Worker |-> {}]
    /\ now = 0
    /\ announced = [i \in Id |-> 0]
    /\ maimed = {}
    /\ faults = 0

-----------------------------------------------------------------------------
Tables == <<uploads, artifacts>>
Disk == <<parts, files>>
Locals == <<id, row, digest, due, paths>>

Fail(kind) == kind \in Faults /\ faults < MaxFaults /\ faults' = faults + 1

Goto(w, stage) == pc' = [pc EXCEPT ![w] = stage]

\* The operation returns; the deferred Unlock frees the mutex.
Return(w) ==
    /\ Goto(w, "idle")
    /\ uploadMu' = IF uploadMu = w THEN None ELSE uploadMu
    /\ id' = [id EXCEPT ![w] = None]
    /\ row' = [row EXCEPT ![w] = None]
    /\ digest' = [digest EXCEPT ![w] = None]
    /\ due' = [due EXCEPT ![w] = 0]
    /\ paths' = [paths EXCEPT ![w] = {}]

Lock(h) == uploadMu = None /\ uploadMu' = h

\* A worker starts to work on an upload whose row it has read.
Take(h, i, r) ==
    /\ id' = [id EXCEPT ![h] = i]
    /\ row' = [row EXCEPT ![h] = r]

StartCleaning(w) == Goto(w, "select") /\ due' = [due EXCEPT ![w] = now]

\* time.Now().After, with instants of a second's resolution
Expired(r) == r.expires <= now

-----------------------------------------------------------------------------
\* beginArtifactUpload: clean up, create the part file, insert the row.
Begin(h) ==
    /\ pc[h] = "idle"
    /\ Lock(h)
    /\ \E i \in Id, total \in 1..MaxChunks :
         /\ announced[i] = 0
         /\ announced' = [announced EXCEPT ![i] = total]
         /\ Take(h, i, [next |-> 0, total |-> total, expires |-> 0])
    /\ StartCleaning(h)
    /\ UNCHANGED <<Tables, Disk, digest, paths, now, maimed, faults>>

CreatePart(h) ==
    /\ pc[h] = "create"
    /\ parts' = [parts EXCEPT ![id[h]] = <<>>]
    /\ Goto(h, "record")
    /\ UNCHANGED <<Tables, files, uploadMu, Locals, now, announced, maimed, faults>>

\* The file cannot be created, or the empty file cannot be closed and stays.
CreatePartFails(h) ==
    /\ pc[h] = "create"
    /\ Fail("write")
    /\ \/ UNCHANGED <<parts, maimed>>
       \/ /\ parts' = [parts EXCEPT ![id[h]] = <<>>]
          /\ maimed' = maimed \cup {id[h]}
    /\ Return(h)
    /\ UNCHANGED <<Tables, files, now, announced>>

PutUpload(h) ==
    /\ pc[h] = "record"
    /\ uploads' = [uploads EXCEPT ![id[h]] = [row[h] EXCEPT !.expires = now + TTL]]
    /\ Return(h)
    /\ UNCHANGED <<artifacts, Disk, now, announced, maimed, faults>>

PutUploadFails(h) ==
    /\ pc[h] = "record"
    /\ Fail("database")
    /\ parts' = [parts EXCEPT ![id[h]] = None]
    /\ Return(h)
    /\ UNCHANGED <<Tables, files, now, announced, maimed>>

-----------------------------------------------------------------------------
\* Mutant: uploads are not serialised.
StartChunkUnlocked(h) ==
    /\ pc[h] = "idle"
    /\ \E i \in Id :
         /\ uploads[i] # None /\ ~Expired(uploads[i])
         /\ uploads[i].next < uploads[i].total
         /\ parts[i] # None /\ Len(parts[i]) = uploads[i].next
         /\ Take(h, i, uploads[i])
    /\ Goto(h, "open")
    /\ UNCHANGED <<Tables, Disk, uploadMu, digest, due, paths, now, announced, maimed, faults>>

\* Mutant: the size of the part file is not compared.
StartChunkBlindly(h) ==
    /\ pc[h] = "idle"
    /\ Lock(h)
    /\ \E i \in Id :
         /\ uploads[i] # None /\ ~Expired(uploads[i])
         /\ uploads[i].next < uploads[i].total
         /\ parts[i] # None
         /\ Take(h, i, uploads[i])
    /\ Goto(h, "open")
    /\ UNCHANGED <<Tables, Disk, digest, due, paths, now, announced, maimed, faults>>

\* Mutant: a chunk past the last one is taken.
StartChunkPastEnd(h) ==
    /\ pc[h] = "idle"
    /\ Lock(h)
    /\ \E i \in Id :
         /\ uploads[i] # None /\ ~Expired(uploads[i])
         /\ uploads[i].next <= uploads[i].total
         /\ parts[i] # None /\ Len(parts[i]) = uploads[i].next
         /\ Take(h, i, uploads[i])
    /\ Goto(h, "open")
    /\ UNCHANGED <<Tables, Disk, digest, due, paths, now, announced, maimed, faults>>

\* appendArtifactChunk, up to opening the file: the chunk is the next one and
\* the part file has the size the row says.
StartChunk(h) ==
    /\ pc[h] = "idle"
    /\ Lock(h)
    /\ \E i \in Id :
         /\ uploads[i] # None /\ ~Expired(uploads[i])
         /\ uploads[i].next < uploads[i].total
         /\ parts[i] # None /\ Len(parts[i]) = uploads[i].next
         /\ Take(h, i, uploads[i])
    /\ Goto(h, "open")
    /\ UNCHANGED <<Tables, Disk, digest, due, paths, now, announced, maimed, faults>>

\* The cleaner may have removed the file before it is opened, or while it is open.
AppendChunk(h) ==
    /\ pc[h] = "open"
    /\ \/ /\ parts[id[h]] # None
          /\ parts' = [parts EXCEPT ![id[h]] = Append(@, row[h].next)]
          /\ Goto(h, "advance") /\ UNCHANGED <<uploadMu, Locals>>
       \/ /\ parts[id[h]] = None
          /\ UNCHANGED parts
          /\ \/ Return(h)
             \/ Goto(h, "advance") /\ UNCHANGED <<uploadMu, Locals>>
    /\ UNCHANGED <<Tables, files, now, announced, maimed, faults>>

\* The disk is full: a part of the chunk may have been written.
AppendFails(h) ==
    /\ pc[h] = "open"
    /\ parts[id[h]] # None
    /\ Fail("write")
    /\ \/ UNCHANGED <<parts, maimed>>
       \/ /\ parts' = [parts EXCEPT ![id[h]] = Append(@, Cut)]
          /\ maimed' = maimed \cup {id[h]}
    /\ Return(h)
    /\ UNCHANGED <<Tables, files, now, announced>>

\* AdvanceArtifactUpload: an UPDATE, which succeeds for a row that is gone too.
Advance(h) ==
    /\ pc[h] = "advance"
    /\ uploads' = [uploads EXCEPT ![id[h]] =
                     IF @ = None THEN None ELSE [@ EXCEPT !.next = row[h].next + 1]]
    /\ Return(h)
    /\ UNCHANGED <<artifacts, Disk, now, announced, maimed, faults>>

AdvanceFails(h) ==
    /\ pc[h] = "advance"
    /\ Fail("database")
    /\ maimed' = maimed \cup {id[h]}
    /\ Return(h)
    /\ UNCHANGED <<Tables, Disk, now, announced>>

-----------------------------------------------------------------------------
\* completeArtifactUpload, up to the rename: all chunks are there, the archive is
\* valid, its digest is computed.
Complete(h) ==
    /\ pc[h] = "idle"
    /\ Lock(h)
    /\ \E i \in Id :
         /\ uploads[i] # None /\ ~Expired(uploads[i])
         /\ uploads[i].next = uploads[i].total
         /\ parts[i] # None
         /\ digest' = [digest EXCEPT ![h] = parts[i]]
         /\ Take(h, i, uploads[i])
    /\ Goto(h, "hashed")
    /\ UNCHANGED <<Tables, Disk, due, paths, now, announced, maimed, faults>>

RenamePart(h) ==
    /\ pc[h] = "hashed"
    /\ \/ /\ parts[id[h]] # None
          /\ files' = [files EXCEPT ![id[h]] = parts[id[h]]]
          /\ parts' = [parts EXCEPT ![id[h]] = None]
          /\ Goto(h, "renamed") /\ UNCHANGED <<uploadMu, Locals>>
       \/ parts[id[h]] = None /\ Return(h) /\ UNCHANGED Disk
    /\ UNCHANGED <<Tables, now, announced, maimed, faults>>

\* PutArtifact, of a chunked upload and of a single one.
PutArtifact(h) ==
    /\ pc[h] \in {"renamed", "received"}
    /\ artifacts' = [artifacts EXCEPT ![id[h]] =
                       [digest |-> digest[h], expires |-> now + TTL]]
    /\ \/ pc[h] = "renamed" /\ Goto(h, "registered") /\ UNCHANGED due
       \/ pc[h] = "received" /\ StartCleaning(h)
    /\ UNCHANGED <<uploads, Disk, uploadMu, id, row, digest, paths, now, announced,
                   maimed, faults>>

\* The part file gets its name back; if the upload has expired meanwhile, it may
\* have been cleaned up before that.
PutArtifactFails(h) ==
    /\ pc[h] = "renamed"
    /\ Fail("database")
    /\ parts' = [parts EXCEPT ![id[h]] = files[id[h]]]
    /\ files' = [files EXCEPT ![id[h]] = None]
    /\ maimed' = IF Expired(row[h]) THEN maimed \cup {id[h]} ELSE maimed
    /\ Return(h)
    /\ UNCHANGED <<Tables, now, announced>>

\* The artifact exists; if its upload cannot be deleted the request still fails.
DeleteUpload(h) ==
    /\ pc[h] = "registered"
    /\ \/ uploads' = [uploads EXCEPT ![id[h]] = None] /\ UNCHANGED <<faults, maimed>>
       \/ /\ Fail("database")
          /\ maimed' = maimed \cup {id[h]}
          /\ UNCHANGED uploads
    /\ Return(h)
    /\ UNCHANGED <<artifacts, Disk, now, announced>>

-----------------------------------------------------------------------------
\* artifacts: the body is copied to the file and hashed on the way.
Receive(h) ==
    /\ pc[h] = "idle"
    /\ \E i \in Id, total \in 1..MaxChunks :
         /\ announced[i] = 0
         /\ announced' = [announced EXCEPT ![i] = total]
         /\ id' = [id EXCEPT ![h] = i]
         /\ files' = [files EXCEPT ![i] = <<Cut>>]
    /\ Goto(h, "receiving")
    /\ UNCHANGED <<Tables, parts, uploadMu, row, digest, due, paths, now, maimed, faults>>

ReceiveAll(h) ==
    /\ pc[h] = "receiving"
    /\ files' = [files EXCEPT ![id[h]] = Whole(announced[id[h]])]
    /\ digest' = [digest EXCEPT ![h] = Whole(announced[id[h]])]
    /\ Goto(h, "received")
    /\ UNCHANGED <<Tables, parts, uploadMu, id, row, due, paths, now, announced,
                   maimed, faults>>

\* Mutant: a refused file is left behind.
LeaveFile(h) ==
    /\ pc[h] \in {"receiving", "received"}
    /\ UNCHANGED faults
    /\ Return(h)
    /\ UNCHANGED <<Tables, Disk, now, announced, maimed>>

\* The body ends early, is no valid archive, or its row cannot be inserted.
RefuseFile(h) ==
    /\ \/ pc[h] \in {"receiving", "received"} /\ UNCHANGED faults
       \/ pc[h] = "received" /\ Fail("database")
    /\ files' = [files EXCEPT ![id[h]] = None]
    /\ Return(h)
    /\ UNCHANGED <<Tables, parts, now, announced, maimed>>

\* The file cannot be opened again for validation.
ProbeFails(h) ==
    /\ pc[h] = "received"
    /\ Fail("read")
    /\ maimed' = maimed \cup {id[h]}
    /\ Return(h)
    /\ UNCHANGED <<Tables, Disk, now, announced>>

\* What should put the file of a failing request right fails too: the errors of
\* os.Remove and os.Rename are dropped.
UndoFails(h) ==
    /\ pc[h] \in {"record", "renamed", "receiving", "received"}
    /\ Fail("remove")
    /\ maimed' = maimed \cup {id[h]}
    /\ Return(h)
    /\ UNCHANGED <<Tables, Disk, now, announced>>

-----------------------------------------------------------------------------
\* The helper cleans up before it deploys an artifact.
Clean(c) ==
    /\ pc[c] = "idle"
    /\ StartCleaning(c)
    /\ UNCHANGED <<Tables, Disk, uploadMu, id, row, digest, paths, now, announced,
                   maimed, faults>>

Overdue(table, w) == {i \in Id : table[i] # None /\ table[i].expires <= due[w]}

\* Mutant: artifacts are selected by the wrong column.
SelectCreated(w) ==
    /\ pc[w] = "select"
    /\ paths' = [paths EXCEPT ![w] =
                   {i \in Id : artifacts[i] # None /\ artifacts[i].expires <= due[w] + TTL}]
    /\ Goto(w, "remove")
    /\ UNCHANGED <<Tables, Disk, uploadMu, id, row, digest, due, now, announced, maimed, faults>>

SelectArtifacts(w) ==
    /\ pc[w] = "select"
    /\ paths' = [paths EXCEPT ![w] = Overdue(artifacts, w)]
    /\ Goto(w, "remove")
    /\ UNCHANGED <<Tables, Disk, uploadMu, id, row, digest, due, now, announced,
                   maimed, faults>>

SelectUploads(w) ==
    /\ pc[w] = "selectParts"
    /\ paths' = [paths EXCEPT ![w] = Overdue(uploads, w)]
    /\ Goto(w, "removeParts")
    /\ UNCHANGED <<Tables, Disk, uploadMu, id, row, digest, due, now, announced,
                   maimed, faults>>

\* A row that cannot be scanned is skipped, and rows.Err is not asked why the rows
\* ended: some of the files are not seen, and their rows go with the others'.
SelectArtifactsInPart(w) ==
    /\ pc[w] = "select"
    /\ Fail("read")
    /\ \E missed \in SUBSET Overdue(artifacts, w) :
         /\ missed # {}
         /\ paths' = [paths EXCEPT ![w] = Overdue(artifacts, w) \ missed]
         /\ maimed' = maimed \cup missed
    /\ Goto(w, "remove")
    /\ UNCHANGED <<Tables, Disk, uploadMu, id, row, digest, due, now, announced>>

SelectUploadsInPart(w) ==
    /\ pc[w] = "selectParts"
    /\ Fail("read")
    /\ \E missed \in SUBSET Overdue(uploads, w) :
         /\ missed # {}
         /\ paths' = [paths EXCEPT ![w] = Overdue(uploads, w) \ missed]
         /\ maimed' = maimed \cup missed
    /\ Goto(w, "removeParts")
    /\ UNCHANGED <<Tables, Disk, uploadMu, id, row, digest, due, now, announced>>

\* os.Remove, one file after the other.
Remove(w) ==
    /\ \E i \in paths[w] :
         /\ paths' = [paths EXCEPT ![w] = @ \ {i}]
         /\ \/ /\ pc[w] = "remove"
               /\ files' = [files EXCEPT ![i] = None] /\ UNCHANGED parts
            \/ /\ pc[w] = "removeParts"
               /\ parts' = [parts EXCEPT ![i] = None] /\ UNCHANGED files
    /\ UNCHANGED <<Tables, uploadMu, pc, id, row, digest, due, now, announced,
                   maimed, faults>>

\* The error of os.Remove is dropped, and the row is deleted all the same.
RemoveFails(w) ==
    /\ Fail("remove")
    /\ \E i \in paths[w] :
         /\ \/ pc[w] = "remove" /\ files[i] # None
            \/ pc[w] = "removeParts" /\ parts[i] # None
         /\ paths' = [paths EXCEPT ![w] = @ \ {i}]
         /\ maimed' = maimed \cup {i}
    /\ UNCHANGED <<Tables, Disk, uploadMu, pc, id, row, digest, due, now, announced>>

Delete(table, w) == [i \in Id |-> IF i \in Overdue(table, w) THEN None ELSE table[i]]

DeleteArtifacts(w) ==
    /\ pc[w] = "remove" /\ paths[w] = {}
    /\ artifacts' = Delete(artifacts, w)
    /\ Goto(w, "selectParts")
    /\ UNCHANGED <<uploads, Disk, uploadMu, Locals, now, announced, maimed, faults>>

\* Cleaning ends: a new upload goes on, everything else returns.
EndCleaning(w) ==
    \/ uploadMu = w /\ Goto(w, "create") /\ UNCHANGED <<uploadMu, Locals>>
    \/ uploadMu # w /\ Return(w)

DeleteUploads(w) ==
    /\ pc[w] = "removeParts" /\ paths[w] = {}
    /\ uploads' = Delete(uploads, w)
    /\ EndCleaning(w)
    /\ UNCHANGED <<artifacts, Disk, now, announced, maimed, faults>>

\* A statement fails: what is left is cleaned up another time.
CleaningFails(w) ==
    /\ pc[w] \in Cleaning /\ paths[w] = {}
    /\ Fail("database")
    /\ EndCleaning(w)
    /\ UNCHANGED <<Tables, Disk, now, announced, maimed>>

-----------------------------------------------------------------------------
\* The stages between a file and its row.
HalfWay == {"record", "advance", "renamed", "registered", "receiving", "received"}

\* The server or the helper dies and starts again.
Crash(workers) ==
    /\ Fail("crash")
    /\ pc' = [w \in Worker |-> IF w \in workers THEN "idle" ELSE pc[w]]
    /\ uploadMu' = IF uploadMu \in workers THEN None ELSE uploadMu
    /\ id' = [w \in Worker |-> IF w \in workers THEN None ELSE id[w]]
    /\ row' = [w \in Worker |-> IF w \in workers THEN None ELSE row[w]]
    /\ digest' = [w \in Worker |-> IF w \in workers THEN None ELSE digest[w]]
    /\ due' = [w \in Worker |-> IF w \in workers THEN 0 ELSE due[w]]
    /\ paths' = [w \in Worker |-> IF w \in workers THEN {} ELSE paths[w]]
    /\ maimed' = maimed \cup {id[w] : w \in {v \in workers : pc[v] \in HalfWay}}
    /\ UNCHANGED <<Tables, Disk, now, announced>>

Tick ==
    /\ now < MaxTime
    /\ now' = now + 1
    /\ UNCHANGED <<Tables, Disk, uploadMu, pc, Locals, announced, maimed, faults>>

Chunked(h) ==
    \/ Begin(h) \/ CreatePart(h) \/ CreatePartFails(h) \/ PutUpload(h) \/ PutUploadFails(h)
    \/ StartChunk(h) \/ AppendChunk(h) \/ AppendFails(h) \/ Advance(h) \/ AdvanceFails(h)
    \/ Complete(h) \/ RenamePart(h) \/ PutArtifact(h) \/ PutArtifactFails(h)
    \/ DeleteUpload(h)

Single(h) == Receive(h) \/ ReceiveAll(h) \/ RefuseFile(h) \/ ProbeFails(h)

Cleanup(w) ==
    \/ SelectArtifacts(w) \/ SelectArtifactsInPart(w)
    \/ SelectUploads(w) \/ SelectUploadsInPart(w)
    \/ Remove(w) \/ RemoveFails(w)
    \/ DeleteArtifacts(w) \/ DeleteUploads(w) \/ CleaningFails(w)

Next ==
    \/ \E h \in Handler : Chunked(h) \/ Single(h) \/ UndoFails(h)
    \/ \E c \in Cleaner : Clean(c)
    \/ \E w \in Worker : Cleanup(w)
    \/ Crash(Handler) \/ Crash(Cleaner)
    \/ Tick

Spec == Init /\ [][Next]_vars

-----------------------------------------------------------------------------
\* api-mcp.md: begin with the exact number of chunks, send them in sequence,
\* complete.  Whatever is retried, fails or is cleaned up on the way, the file of
\* an artifact is all that was sent, in order, and what its digest was computed of.
ArtifactsAreWhole ==
    \A i \in Id :
        artifacts[i] # None =>
            /\ artifacts[i].digest = Whole(announced[i])
            /\ files[i] \in {None, artifacts[i].digest}

\* api-mcp.md: artifacts expire after one hour.  Until then no cleaner, of whatever
\* process, takes the file away.
KeptUntilExpiry ==
    \A i \in Id : artifacts[i] # None /\ ~Expired(artifacts[i]) => files[i] # None

\* Between two requests a session can go on: the part file holds exactly the
\* chunks its row acknowledges, unless a request failed between file and row.
Resumable ==
    \A i \in Id \ maimed :
        uploads[i] # None /\ ~Expired(uploads[i]) /\ uploadMu = None =>
            parts[i] = Whole(uploads[i].next)

\* Every file on the disk has a row that leads the cleaner to it, whatever the cleaners
\* of two processes and the requests do between reading rows, removing files and deleting
\* rows.  It is an operation that fails on this very file that lets go of it: a request
\* interrupted between file and row, a file that cannot be removed, or a row the cleaner
\* skips and deletes nevertheless.
NoOrphans ==
    (\A w \in Worker : pc[w] = "idle") =>
        \A i \in Id \ maimed :
            /\ parts[i] # None => uploads[i] # None
            /\ files[i] # None => artifacts[i] # None

-----------------------------------------------------------------------------
\* Who may still put a file of an identifier in place, or name one for it.
Making(w, i) ==
    /\ id[w] = i
    /\ \/ pc[w] \in {"create", "renamed", "receiving", "received"}
       \/ uploadMu = w /\ pc[w] \in Cleaning

\* All that can happen to it from now on is that something is taken away.
Settled(i) ==
    /\ announced[i] # 0 /\ parts[i] = None
    /\ \A w \in Worker : ~Making(w, i)

\* What can be read of an artifact, and until when: its row leads to the file.  Only a
\* row that has expired may have lost it and shows nothing.
Readable(i) ==
    IF artifacts[i] = None \/ (Expired(artifacts[i]) /\ files[i] = None)
    THEN None
    ELSE [digest |-> files[i], expires |-> artifacts[i].expires]

Store == INSTANCE ArtifactStore WITH
    Key <- Id,
    Content <- {Whole(n) : n \in 1..MaxChunks},
    promised <- [i \in Id |-> IF announced[i] = 0 THEN None ELSE Whole(announced[i])],
    published <- [i \in Id |-> Readable(i)],
    closed <- {i \in Id : Settled(i)}

\* api-mcp.md: an artifact is managed for one hour.  Seen from outside, file and row
\* are one thing: the artifact appears whole and once, does not change, goes only
\* after it has expired and does not come back, although uploads, cleaners and
\* restarts change the one and the other in separate steps.
PublishesOnce == Store!Spec
=============================================================================
