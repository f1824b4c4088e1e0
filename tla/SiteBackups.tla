----------------------------- MODULE SiteBackups -----------------------------
(***************************************************************************)
(* Encrypted backups of a site, restoring one, and deploying an artifact    *)
(* over the site's root: executeBackup, createBackup, pruneBackups,         *)
(* restoreBackup, restoreArchive and deployArtifact of                      *)
(* internal/gateway/operations.go, run by the helper's goroutines.          *)
(*                                                                         *)
(* A restore, and a deployment of the root, first make a safety backup of   *)
(* what they are going to replace.  Every backup, a safety backup too, ends *)
(* with the retention: expired backups go, then the oldest until the quota  *)
(* holds.  The root is replaced by two renames, the databases one by one.   *)
(*                                                                         *)
(* Abstractions.  A site is its parts, the files and each database, and a   *)
(* part is its content, an existing root with something in it.  Sizes are a *)
(* few numbers.  The files of one site are read in one step, since only     *)
(* requests change them here.  What is refused before the first change -    *)
(* policy, confirmation, an artifact that is expired or not the token's -   *)
(* is no step.                                                              *)
(***************************************************************************)
EXTENDS Naturals, FiniteSets, Sequences, SequencesExt

CONSTANTS
    Request,    \* connections the helper serves at once
    Site,
    Database,   \* the databases of each site
    Content,    \* contents of a root or of a database
    Original,   \* their content before the first request
    Artifact,   \* what artifacts hold
    Asks,       \* what each request may ask: an operation on parts of a site
    Backup,     \* identifiers of backups
    Key,        \* encryption keys
    Sizes,      \* sizes an encrypted backup may have
    Quota,      \* what all of them may have together
    Lifetime,   \* seconds until a backup expires
    Faults,     \* the kinds of failure that may happen
    MaxFaults,  \* bound: how many of them in one behaviour
    MaxTime,    \* bound: the last second the clock shows
    None

Part == {"files"} \cup Database
Operation == {"create", "restore", "deploy"}
Ask == [op : Operation, site : Site, parts : SUBSET Part \ {{}}]
Contents == [Part -> Content \cup {None}]
Row == [site : Site, parts : SUBSET Part, size : Nat, at : Nat]
Plain == [kept : Contents, whole : BOOLEAN]
File == [kept : Contents, key : Key, whole : BOOLEAN]

ASSUME SiteBackupsAssumption ==
    /\ Asks \in [Request -> SUBSET Ask]
    /\ \A q \in Request : \A a \in Asks[q] : a.op = "deploy" => a.parts = {"files"}
    /\ "files" \notin Database /\ Original \in Content /\ Artifact \subseteq Content
    /\ Sizes \subseteq Nat /\ {Quota, Lifetime, MaxFaults, MaxTime} \subseteq Nat
    /\ {"none", "empty"} \cap Key = {} /\ None \notin Key \cup {"empty"}
    /\ None \notin Content \cup Ask \cup Backup \cup Row \cup Plain \cup File \cup Contents

VARIABLES
    live,     \* what each part of each site holds; None: there is no root
    old,      \* the root each request has renamed out of its way
    aside,    \* such roots that nobody will put back or remove
    row,      \* the table backups
    inserted, \* its identifiers in the order of insertion
    file,     \* the encrypted files
    keyFile,  \* what the key file holds
    now,      \* the clock, in seconds
    step,     \* where each request is
    ask,      \* what it was asked
    source,   \* the backup to restore
    put,      \* the contents it brings
    made,     \* the backup it makes
    taken,    \* its unencrypted archive
    key,      \* the key it has read
    stamp,    \* the second it says its backup was made in
    doomed,   \* the backups its retention removes, in order
    todo,     \* the databases still to be imported
    began,    \* history: what the site held when the request began
    retired,  \* history: backups the retention has removed, or begun to
    keyLost,  \* history: a key was overwritten by another
    overdue,  \* history: the last retention was cut short
    crossed,  \* history: the requests whose retention overlapped another
    faults    \* failures so far

vars == <<live, old, aside, row, inserted, file, keyFile, now, step, ask, source, put, made,
          taken, key, stamp, doomed, todo, began, retired, keyLost, overdue,
          crossed, faults>>

-----------------------------------------------------------------------------
Stage == {"idle", "archiving", "keying", "opening", "writing", "encrypting",
          "recording", "listing", "pruning", "deleting", "decrypting", "staging",
          "ready", "swapping", "returning", "dropping", "importing"}

Pruning(q) == step[q] \in {"listing", "pruning", "deleting"}
Rows == {b \in Backup : row[b] # None}

TypeOK ==
    /\ live \in [Site -> {c \in Contents : \A d \in Database : c[d] # None}]
    /\ old \in [Request -> Content \cup {None}]
    /\ aside \subseteq [site : Site, content : Content]
    /\ row \in [Backup -> Row \cup {None}]
    /\ inserted \in Seq(Backup) /\ ToSet(inserted) = Rows
    /\ file \in [Backup -> File \cup {None}]
    /\ keyFile \in Key \cup {"none", "empty"}
    /\ now \in 0..MaxTime
    /\ step \in [Request -> Stage]
    /\ ask \in [Request -> Ask \cup {None}]
    /\ source \in [Request -> Backup \cup {None}]
    /\ made \in [Request -> Backup \cup {None}]
    /\ put \in [Request -> Contents \cup {None}]
    /\ began \in [Request -> Contents \cup {None}]
    /\ taken \in [Request -> Plain \cup {None}]
    /\ key \in [Request -> Key \cup {"empty", None}]
    /\ stamp \in [Request -> 0..MaxTime]
    /\ doomed \in [Request -> Seq(Backup)]
    /\ todo \in [Request -> SUBSET Database]
    /\ retired \subseteq Backup /\ crossed \subseteq Request
    /\ keyLost \in BOOLEAN /\ overdue \in BOOLEAN
    /\ faults \in 0..MaxFaults

Init ==
    /\ live = [s \in Site |-> [p \in Part |-> Original]]
    /\ old = [q \in Request |-> None]
    /\ aside = {} /\ retired = {} /\ crossed = {}
    /\ row = [b \in Backup |-> None]
    /\ file = [b \in Backup |-> None] /\ inserted = <<>>
    /\ keyFile = "none" /\ keyLost = FALSE /\ overdue = FALSE
    /\ now = 0 /\ faults = 0
    /\ step = [q \in Request |-> "idle"]
    /\ ask = [q \in Request |-> None]
    /\ source = [q \in Request |-> None]
    /\ put = [q \in Request |-> None]
    /\ made = [q \in Request |-> None]
    /\ taken = [q \in Request |-> None]
    /\ key = [q \in Request |-> None]
    /\ stamp = [q \in Request |-> 0]
    /\ doomed = [q \in Request |-> <<>>]
    /\ todo = [q \in Request |-> {}]
    /\ began = [q \in Request |-> None]

-----------------------------------------------------------------------------
Fail(kind) == kind \in Faults /\ faults < MaxFaults /\ faults' = faults + 1

Goto(q, stage) == step' = [step EXCEPT ![q] = stage]

Sites == <<live, old, aside>>
Table == <<row, inserted>>
Marks == <<overdue, crossed>>
Store == <<Table, file, Marks>>
Keys == <<keyFile, keyLost>>
Locals == <<ask, source, put, made, taken, key, stamp, doomed, todo, began>>

\* The operation returns, with or without an error, and its working files with
\* it.
Return(q) ==
    /\ Goto(q, "idle")
    /\ ask' = [ask EXCEPT ![q] = None]
    /\ source' = [source EXCEPT ![q] = None]
    /\ put' = [put EXCEPT ![q] = None]
    /\ made' = [made EXCEPT ![q] = None]
    /\ taken' = [taken EXCEPT ![q] = None]
    /\ key' = [key EXCEPT ![q] = None]
    /\ stamp' = [stamp EXCEPT ![q] = 0]
    /\ doomed' = [doomed EXCEPT ![q] = <<>>]
    /\ todo' = [todo EXCEPT ![q] = {}]
    /\ began' = [began EXCEPT ![q] = None]
    /\ retired' = {b \in retired : b \in Rows \/ \E x \in Request \ {q} : made[x] = b}

Total(S) == MapThenSumSet(LAMBDA b : row[b].size, S)
Expired(b, time) == time >= row[b].at + Lifetime

\* randomArtifactID and newID give an identifier, and rand a key, nobody has.
Unused(b) == /\ row[b] = None /\ file[b] = None
             /\ \A q \in Request : b \notin {made[q], source[q]} \cup ToSet(doomed[q])
FreshKey(k) == /\ k # keyFile
               /\ \A q \in Request : k # key[q]
               /\ \A b \in Backup : (file[b] # None => k # file[b].key)

-----------------------------------------------------------------------------
(* createBackup *)

\* Mutant: the components of the backup are not compared with those asked for.
BeginAnyParts(q) ==
    /\ step[q] = "idle"
    /\ \E a \in Asks[q], b \in Backup :
         /\ live[a.site]["files"] # None
         /\ ask' = [ask EXCEPT ![q] = a]
         /\ began' = [began EXCEPT ![q] = live[a.site]]
         /\ Unused(b)
         /\ made' = [made EXCEPT ![q] = b]
         /\ \/ a.op = "create" /\ UNCHANGED <<source, put>>
            \/ /\ a.op = "deploy"
               /\ \E c \in Artifact : put' = [put EXCEPT ![q] = [p \in Part |-> c]]
               /\ UNCHANGED source
            \/ /\ a.op = "restore"
               /\ \E x \in Rows : /\ row[x].site = a.site
                                  /\ ~Expired(x, now)
                                  /\ source' = [source EXCEPT ![q] = x]
               /\ UNCHANGED put
    /\ Goto(q, "archiving")
    /\ UNCHANGED <<Sites, Store, retired, Keys, now, taken, key, stamp, doomed,
                   todo, faults>>

\* layoutForOperation resolves the root, so a site without one is refused.
Begin(q) ==
    /\ step[q] = "idle"
    /\ \E a \in Asks[q], b \in Backup :
         /\ live[a.site]["files"] # None
         /\ ask' = [ask EXCEPT ![q] = a]
         /\ began' = [began EXCEPT ![q] = live[a.site]]
         /\ Unused(b)
         /\ made' = [made EXCEPT ![q] = b]
         /\ \/ a.op = "create" /\ UNCHANGED <<source, put>>
            \/ /\ a.op = "deploy"
               /\ \E c \in Artifact : put' = [put EXCEPT ![q] = [p \in Part |-> c]]
               /\ UNCHANGED source
            \/ /\ a.op = "restore"
               /\ \E x \in Rows : /\ row[x].site = a.site
                                  /\ ~Expired(x, now)
                                  /\ a.parts \subseteq row[x].parts
                                  /\ source' = [source EXCEPT ![q] = x]
               /\ UNCHANGED put
    /\ Goto(q, "archiving")
    /\ UNCHANGED <<Sites, Store, retired, Keys, now, taken, key, stamp, doomed,
                   todo, faults>>

\* Mutant: a root that cannot be walked is taken for an empty one.
ArchiveBlindly(q) ==
    /\ step[q] = "archiving"
    /\ \E whole \in BOOLEAN :
         /\ IF whole THEN UNCHANGED faults ELSE Fail("close")
         /\ taken' = [taken EXCEPT ![q] =
              [kept |-> [p \in Part |-> IF p \in ask[q].parts THEN live[ask[q].site][p]
                                        ELSE None],
               whole |-> whole]]
    /\ Goto(q, "keying")
    /\ UNCHANGED <<Sites, Store, retired, Keys, now, ask, source, put, made, key,
                   stamp, doomed, todo, began>>

\* writeBackupArchive.  The errors of closing the archive are dropped.
Archive(q) ==
    /\ step[q] = "archiving"
    /\ \A p \in ask[q].parts : live[ask[q].site][p] # None
    /\ \E whole \in BOOLEAN :
         /\ IF whole THEN UNCHANGED faults ELSE Fail("close")
         /\ taken' = [taken EXCEPT ![q] =
              [kept |-> [p \in Part |-> IF p \in ask[q].parts THEN live[ask[q].site][p]
                                        ELSE None],
               whole |-> whole]]
    /\ Goto(q, "keying")
    /\ UNCHANGED <<Sites, Store, retired, Keys, now, ask, source, put, made, key,
                   stamp, doomed, todo, began>>

\* An export or a write fails: the unencrypted archive is removed.
ArchiveFails(q) ==
    /\ step[q] = "archiving"
    /\ \/ Fail("command") \/ Fail("disk")
       \/ (\E p \in ask[q].parts : live[ask[q].site][p] = None) /\ UNCHANGED faults
    /\ Return(q)
    /\ UNCHANGED <<Sites, Store, Keys, now>>

\* EnsurePrivateFile: whatever the file holds is the key ...
ReadKey(q) ==
    /\ step[q] = "keying" /\ keyFile # "none"
    /\ key' = [key EXCEPT ![q] = keyFile]
    /\ Goto(q, IF key[q] = None THEN "encrypting" ELSE "decrypting")
    /\ UNCHANGED <<Sites, Store, retired, Keys, now, ask, source, put, made, taken,
                   stamp, doomed, todo, began, faults>>

\* ... and on any error of reading it there is a new one.
ReadKeyFails(q) ==
    /\ step[q] = "keying"
    /\ IF keyFile = "none" THEN UNCHANGED faults ELSE Fail("read")
    /\ Goto(q, "opening")
    /\ UNCHANGED <<Sites, Store, retired, Keys, now, Locals>>

\* os.WriteFile truncates the file,
OpenKey(q) ==
    /\ step[q] = "opening"
    /\ keyFile' = "empty"
    /\ keyLost' = (keyLost \/ keyFile \in Key)
    /\ Goto(q, "writing")
    /\ UNCHANGED <<Sites, Store, retired, now, Locals, faults>>

\* then writes it.
WriteKey(q) ==
    /\ step[q] = "writing"
    /\ \E k \in Key : /\ FreshKey(k)
                      /\ keyFile' = k
                      /\ key' = [key EXCEPT ![q] = k]
    /\ keyLost' = (keyLost \/ keyFile \in Key)
    /\ Goto(q, IF key[q] = None THEN "encrypting" ELSE "decrypting")
    /\ UNCHANGED <<Sites, Store, retired, now, ask, source, put, made, taken, stamp,
                   doomed, todo, began, faults>>

WriteKeyFails(q) ==
    /\ step[q] = "writing"
    /\ Fail("disk")
    /\ Return(q)
    /\ UNCHANGED <<Sites, Store, Keys, now>>

\* encryptFile, and the quota of a single backup.
Encrypt(q) ==
    /\ step[q] = "encrypting" /\ key[q] \in Key
    /\ file' = [file EXCEPT ![made[q]] =
         [kept |-> taken[q].kept, key |-> key[q], whole |-> taken[q].whole]]
    /\ stamp' = [stamp EXCEPT ![q] = now]
    /\ Goto(q, "recording")
    /\ UNCHANGED <<Sites, Table, Marks, retired, Keys, now, ask, source, put,
                   made, taken, key, doomed, todo, began, faults>>

\* A key of the wrong length, or a failing write, which leaves what was written.
EncryptFails(q) ==
    /\ step[q] = "encrypting"
    /\ \/ key[q] = "empty" /\ UNCHANGED <<file, faults>>
       \/ /\ key[q] \in Key /\ Fail("disk")
          /\ file' = [file EXCEPT ![made[q]] =
               [kept |-> taken[q].kept, key |-> key[q], whole |-> FALSE]]
    /\ Return(q)
    /\ UNCHANGED <<Sites, Table, Marks, Keys, now>>

\* PutBackup.
Record(q) ==
    /\ step[q] = "recording"
    /\ \E n \in Sizes : /\ n <= Quota
                        /\ row' = [row EXCEPT ![made[q]] =
                             [site |-> ask[q].site, parts |-> ask[q].parts, size |-> n,
                              at |-> stamp[q]]]
    /\ inserted' = Append(inserted, made[q])
    /\ retired' = retired \ {made[q]}
    /\ Goto(q, "listing")
    /\ UNCHANGED <<Sites, file, Marks, Keys, now, Locals, faults>>

\* It is larger than the quota, or the insert fails; the file may be left behind.
RecordFails(q) ==
    /\ step[q] = "recording"
    /\ \/ (\E n \in Sizes : n > Quota) /\ UNCHANGED faults
       \/ Fail("database")
    /\ file' \in {file, [file EXCEPT ![made[q]] = None]}
    /\ Return(q)
    /\ UNCHANGED <<Sites, Table, Marks, Keys, now>>

-----------------------------------------------------------------------------
(* pruneBackups *)

\* The list is newest first; SQLite gives the backups of one second in the order
\* they were inserted, so the last of them counts as oldest.
Nth(b) == CHOOSE i \in DOMAIN inserted : inserted[i] = b
Older(x, y) == \/ row[x].at < row[y].at
               \/ row[x].at = row[y].at /\ Nth(x) > Nth(y)

\* Mutant: the list is walked from the wrong end.
NewestFirst(S) ==
    {s \in SetToSeqs(S) : \A i, j \in DOMAIN s : i < j => Older(s[j], s[i])}

\* The backups of S in the order they are looked at.
OldestFirst(S) ==
    {s \in SetToSeqs(S) : \A i, j \in DOMAIN s : i < j => Older(s[i], s[j])}

\* Mutant: it stops one backup too early.
ExcessOneLess(list, i) == Total({list[j] : j \in i + 2 .. Len(list)}) > Quota

\* Without the first i backups of the list there is still too much.
Excess(list, i) == Total({list[j] : j \in i + 1 .. Len(list)}) > Quota

\* What the retention is going to remove, in order: what is expired, from the
\* newest, then the oldest until the quota holds.
List(q) ==
    /\ step[q] = "listing"
    /\ LET past == {b \in Rows : Expired(b, stamp[q])}
       IN  \E gone \in OldestFirst(past), active \in OldestFirst(Rows \ past) :
             \E n \in 0 .. Len(active) :
               /\ ~Excess(active, n) /\ \A i \in 0 .. n - 1 : Excess(active, i)
               /\ doomed' = [doomed EXCEPT ![q] = Reverse(gone) \o SubSeq(active, 1, n)]
    /\ overdue' = FALSE
    /\ crossed' = LET others == {r \in Request \ {q} : Pruning(r) /\ step[r] # "listing"}
                  IN  IF others = {} THEN crossed ELSE crossed \cup others \cup {q}
    /\ Goto(q, "pruning")
    /\ UNCHANGED <<Sites, Table, file, retired, Keys, now, ask, source, put, made,
                   taken, key, stamp, todo, began, faults>>

\* The backups cannot be listed: the error ends the retention, and createBackup
\* drops it.
ListFails(q) ==
    /\ step[q] = "listing"
    /\ Fail("database")
    /\ overdue' = TRUE
    /\ doomed' = [doomed EXCEPT ![q] = <<>>]
    /\ Goto(q, "pruning")
    /\ UNCHANGED <<Sites, Table, file, crossed, retired, Keys, now, ask, source, put,
                   made, taken, key, stamp, todo, began>>

\* The file goes first; an error of that is dropped,
RemoveFile(q) ==
    /\ step[q] = "pruning" /\ doomed[q] # <<>>
    /\ \/ file' = [file EXCEPT ![Head(doomed[q])] = None] /\ UNCHANGED faults
       \/ Fail("disk") /\ UNCHANGED file
    /\ retired' = retired \cup {Head(doomed[q])}
    /\ Goto(q, "deleting")
    /\ UNCHANGED <<Sites, Table, Marks, Keys, now, Locals>>

\* and the row follows.  An error of this ends the retention, not the request.
DeleteRow(q) ==
    /\ step[q] = "deleting"
    /\ \/ /\ row' = [row EXCEPT ![Head(doomed[q])] = None]
          /\ inserted' = RemoveFirst(inserted, Head(doomed[q]))
          /\ doomed' = [doomed EXCEPT ![q] = Tail(@)]
          /\ UNCHANGED <<overdue, faults>>
       \/ /\ Fail("database")
          /\ doomed' = [doomed EXCEPT ![q] = <<>>]
          /\ overdue' = TRUE
          /\ UNCHANGED <<row, inserted>>
    /\ Goto(q, "pruning")
    /\ UNCHANGED <<Sites, file, crossed, retired, Keys, now, ask, source, put, made,
                   taken, key, stamp, todo, began>>

\* createBackup returns.  A restore needs the key again.
Saved(q) ==
    /\ step[q] = "pruning" /\ doomed[q] = <<>>
    /\ \/ ask[q].op = "create" /\ Return(q)
       \/ ask[q].op = "restore" /\ Goto(q, "keying") /\ UNCHANGED <<Locals,
                                                                    retired>>
       \/ ask[q].op = "deploy" /\ Goto(q, "staging") /\ UNCHANGED <<Locals,
                                                                    retired>>
    /\ crossed' = crossed \ {q}
    /\ UNCHANGED <<Sites, Table, file, overdue, Keys, now, faults>>

-----------------------------------------------------------------------------
(* restoreBackup, restoreArchive, deployArtifact *)

\* decryptFile, and reading the archive: it must be there, under this key, whole.
Readable(q) == /\ file[source[q]] # None
               /\ file[source[q]].key = key[q]
               /\ file[source[q]].whole

Decrypt(q) ==
    /\ step[q] = "decrypting" /\ Readable(q)
    /\ put' = [put EXCEPT ![q] = file[source[q]].kept]
    /\ Goto(q, "staging")
    /\ UNCHANGED <<Sites, Store, retired, Keys, now, ask, source, made, taken, key,
                   stamp, doomed, todo, began, faults>>

DecryptFails(q) ==
    /\ step[q] = "decrypting" /\ ~Readable(q)
    /\ key[q] # "empty" \/ file[source[q]] = None
    /\ Return(q)
    /\ UNCHANGED <<Sites, Store, Keys, now, faults>>

\* Mutant: every database of the backup is imported.
UnpackAll(q) ==
    /\ step[q] = "staging"
    /\ todo' = [todo EXCEPT ![q] = {d \in Database : put[q][d] # None}]
    /\ Goto(q, IF "files" \in ask[q].parts THEN "ready" ELSE "importing")
    /\ UNCHANGED <<Sites, Store, retired, Keys, now, ask, source, put, made, taken, key,
                   stamp, doomed, began, faults>>

\* The new root and the databases' dumps are laid out beside the root.
Unpack(q) ==
    /\ step[q] = "staging"
    /\ todo' = [todo EXCEPT ![q] = ask[q].parts \ {"files"}]
    /\ Goto(q, IF "files" \in ask[q].parts THEN "ready" ELSE "importing")
    /\ UNCHANGED <<Sites, Store, retired, Keys, now, ask, source, put, made, taken,
                   key, stamp, doomed, began, faults>>

Root(q) == live[ask[q].site]["files"]
SetRoot(q, content) == live' = [live EXCEPT ![ask[q].site]["files"] = content]
SetOld(q, content) == old' = [old EXCEPT ![q] = content]
Copy(q) == [site |-> ask[q].site, content |-> old[q]]

\* Nothing of the site has changed yet.  There is no root to rename while
\* another request is at it.
StagingFails(q) ==
    /\ step[q] \in {"staging", "ready"}
    /\ IF step[q] = "ready" /\ Root(q) = None THEN UNCHANGED faults ELSE Fail("disk")
    /\ Return(q)
    /\ UNCHANGED <<Sites, Store, Keys, now>>

\* Mutant: the root is removed before the new one takes its place.
RemoveRoot(q) ==
    /\ step[q] = "ready" /\ Root(q) # None
    /\ SetRoot(q, None)
    /\ Goto(q, "swapping")
    /\ UNCHANGED <<old, aside, Store, retired, Keys, now, Locals, faults>>

\* Two renames: the root out of the way, to a name nobody else has, and the new
\* one in its place.
SetAside(q) ==
    /\ step[q] = "ready" /\ Root(q) # None
    /\ SetRoot(q, None)
    /\ SetOld(q, Root(q))
    /\ Goto(q, "swapping")
    /\ UNCHANGED <<aside, Store, retired, Keys, now, Locals, faults>>

MoveIn(q) ==
    /\ step[q] = "swapping" /\ Root(q) = None
    /\ SetRoot(q, put[q]["files"])
    /\ Goto(q, "dropping")
    /\ UNCHANGED <<old, aside, Store, retired, Keys, now, Locals, faults>>

MoveInFails(q) ==
    /\ step[q] = "swapping"
    /\ IF Root(q) = None THEN Fail("rename") ELSE UNCHANGED faults
    /\ Goto(q, "returning")
    /\ UNCHANGED <<Sites, Store, retired, Keys, now, Locals>>

\* The old root is put back; an error of that is dropped.
MoveBack(q) ==
    /\ step[q] = "returning"
    /\ \/ Root(q) = None /\ SetRoot(q, old[q]) /\ UNCHANGED aside
       \/ aside' = aside \cup {Copy(q)} /\ UNCHANGED live
    /\ SetOld(q, None)
    /\ Return(q)
    /\ UNCHANGED <<Store, Keys, now, faults>>

\* RemoveAll of the old root; an error of that is dropped.
DropOld(q) ==
    /\ step[q] = "dropping"
    /\ \/ UNCHANGED <<aside, faults>>
       \/ aside' = aside \cup {Copy(q)} /\ Fail("disk")
    /\ SetOld(q, None)
    /\ Goto(q, "importing")
    /\ UNCHANGED <<live, Store, retired, Keys, now, Locals>>

\* clpctl db:import, one database after the other.
Import(q) ==
    /\ step[q] = "importing"
    /\ \E d \in todo[q] :
         /\ live' = [live EXCEPT ![ask[q].site][d] = put[q][d]]
         /\ todo' = [todo EXCEPT ![q] = @ \ {d}]
    /\ UNCHANGED <<old, aside, Store, retired, Keys, now, step, ask, source, put,
                   made, taken, key, stamp, doomed, began, faults>>

\* All databases are in, or one could not be imported.
Finish(q) ==
    /\ step[q] = "importing"
    /\ IF todo[q] = {} THEN UNCHANGED faults ELSE Fail("command")
    /\ Return(q)
    /\ UNCHANGED <<Sites, Store, Keys, now>>

-----------------------------------------------------------------------------
\* The helper's process ends and is started again; what is on the disk stays.
Die ==
    /\ step' = [q \in Request |-> "idle"]
    /\ ask' = [q \in Request |-> None]
    /\ source' = [q \in Request |-> None]
    /\ put' = [q \in Request |-> None]
    /\ made' = [q \in Request |-> None]
    /\ taken' = [q \in Request |-> None]
    /\ key' = [q \in Request |-> None]
    /\ stamp' = [q \in Request |-> 0]
    /\ doomed' = [q \in Request |-> <<>>]
    /\ todo' = [q \in Request |-> {}]
    /\ began' = [q \in Request |-> None]
    /\ old' = [q \in Request |-> None]
    /\ aside' = aside \cup {Copy(q) : q \in {r \in Request : old[r] # None}}
    /\ overdue' = (overdue \/ \E q \in Request : Pruning(q))
    /\ retired' = retired \cap Rows
    /\ crossed' = {}
    /\ UNCHANGED <<live, Table, file, Keys, now>>

Crash == Fail("crash") /\ Die

\* An empty key gives no cipher, whose use ends the helper, all requests with it.
DecryptPanics(q) ==
    /\ step[q] = "decrypting" /\ key[q] = "empty" /\ file[source[q]] # None
    /\ Die
    /\ UNCHANGED faults

Tick ==
    /\ now < MaxTime
    /\ now' = now + 1
    /\ UNCHANGED <<Sites, Store, retired, Keys, step, Locals, faults>>

Save(q) == \/ Begin(q) \/ Archive(q) \/ ArchiveFails(q)
           \/ ReadKey(q) \/ ReadKeyFails(q) \/ OpenKey(q) \/ WriteKey(q) \/ WriteKeyFails(q)
           \/ Encrypt(q) \/ EncryptFails(q) \/ Record(q) \/ RecordFails(q)
           \/ List(q) \/ ListFails(q) \/ RemoveFile(q) \/ DeleteRow(q) \/ Saved(q)

Replace(q) == \/ Decrypt(q) \/ DecryptFails(q) \/ DecryptPanics(q) \/ Unpack(q) \/ StagingFails(q)
              \/ SetAside(q) \/ MoveIn(q) \/ MoveInFails(q) \/ MoveBack(q) \/ DropOld(q)
              \/ Import(q) \/ Finish(q)

Next == (\E q \in Request : Save(q) \/ Replace(q)) \/ Crash \/ Tick

Spec == Init /\ [][Next]_vars

-----------------------------------------------------------------------------
\* Whatever dies or fails, and whoever else replaces them, the files of a site are
\* its root, or a root that was renamed out of the way is still there.
ContentSurvives ==
    \A s \in Site :
        \/ live[s]["files"] # None
        \/ \E q \in Request : ask[q] # None /\ ask[q].site = s /\ old[q] # None
        \/ \E c \in Content : [site |-> s, content |-> c] \in aside

\* While a restore or a deployment replaces parts of a site, a recorded backup
\* under the key of the key file holds what they were, and no other part
\* changes.  Except that its retention, or that of another request, may have
\* removed the backup, the key may be lost, and the archive cut off unnoticed.
Replacing(q) == /\ ask[q] # None /\ ask[q].op # "create"
                /\ step[q] \in {"decrypting", "staging", "ready", "swapping", "returning",
                                "dropping", "importing"}
ReplacedIsSaved ==
    \A q \in Request : Replacing(q) =>
        LET f == file[made[q]]
        IN  /\ \A p \in Part \ ask[q].parts : live[ask[q].site][p] = began[q][p]
            /\ \/ made[q] \in retired
               \/ /\ row[made[q]] # None /\ f # None
                  /\ f.key = keyFile \/ keyLost
                  /\ f.whole => \A p \in ask[q].parts : f.kept[p] = began[q][p]

\* A recorded backup has its file, which holds the parts the row says, unless
\* the retention was removing it.
RecordedIsThere ==
    \A b \in Rows \ retired :
        /\ file[b] # None
        /\ file[b].key = keyFile \/ keyLost
        /\ row[b].parts = {p \in Part : file[b].kept[p] # None}

\* The file of a recorded backup is removed only when it has expired, or is the
\* oldest of more than the quota.  Except by a retention that overlapped another:
\* of two, one may remove what the other's removals have already made room for.
RetentionOnly ==
    [][\A b \in Rows : file[b] # None /\ file'[b] = None =>
          \/ Expired(b, now) \/ Total({x \in Rows : row[x].at >= row[b].at}) > Quota
          \/ \E q \in crossed : doomed[q] # <<>> /\ b = Head(doomed[q])]_vars

\* More than the quota is recorded only while some request is at it, or after a
\* retention that could not list the backups or was cut short; the next one that
\* can list them makes up for it.
QuotaHolds ==
    Total(Rows) > Quota => \/ overdue
                           \/ \E q \in Request : Pruning(q)
=============================================================================
