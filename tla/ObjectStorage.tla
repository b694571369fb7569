--------------------------- MODULE ObjectStorage ---------------------------
(***************************************************************************)
(* The objects of one bucket name whose paths compose one backend key: the *)
(* rows of storage.objects and storage.buckets, the file that LocalBackend *)
(* keeps under the key, and requests that run concurrently.  A request is  *)
(* one transaction (db.as_role) that touches the file while it is open; a  *)
(* crash, or a connection that breaks, rolls the transaction back and      *)
(* leaves the file as it is.                                               *)
(***************************************************************************)
EXTENDS Naturals

CONSTANTS
    Requests,    \* requests ever made; the bytes of an upload are named by it
    NoRequest,
    Names,       \* paths that differ and compose one key: "a", "/a", ...
    Kinds,       \* what the clients ask for
    MaxFaults,   \* bound: crashes, broken commits, errors of the backend
    MaxBuckets   \* bound: buckets ever created under the name

ASSUME StorageAssumption ==
    /\ NoRequest \notin Requests /\ Names # {}
    /\ Kinds \subseteq {"upload", "delete", "admin", "bucket"}
    /\ MaxFaults \in Nat /\ MaxBuckets \in Nat \ {0}

VARIABLES
    bucket,   \* id of the bucket of that name; 0 for none
    born,     \* buckets created so far
    row,      \* committed rows: the upload that the etag of a path describes
    file,     \* what is under the key: "none", "torn", or the upload whose bytes it is
    inode,    \* how many files there have been under the key
    fd,       \* the inode an upload writes to
    mixed,    \* uploads whose file was opened by another while they wrote
    pc, name, \* where a request is, and the path it is about
    arg,      \* the bucket it read; a deletion of a bucket: the bucket it deletes
    seen,     \* the row of that path when the request began
    doomed,   \* paths a deletion of the bucket will remove the bytes of
    writer,   \* the open transaction that inserted or deleted the row of a path
    dropper,  \* the open transaction that deleted the bucket's row
    faults,
    careful   \* history: requests took turns, uploaded only where nothing
              \* was, deleted no bucket whose rows they could not see, and
              \* none died with the bytes deleted and the row still there

rows == <<bucket, born, row>>
locks == <<writer, dropper>>
disk == <<file, inode, fd, mixed>>
control == <<pc, name, arg, seen, doomed>>
fate == <<faults, careful>>
vars == <<rows, locks, disk, control, fate>>

Contents == Requests \cup {"none", "torn"}

Init ==
    /\ bucket = 1 /\ born = 1
    /\ row = [n \in Names |-> NoRequest]
    /\ file = "none" /\ inode = 0 /\ mixed = {}
    /\ fd = [r \in Requests |-> 0]
    /\ pc = [r \in Requests |-> "new"]
    /\ name = [r \in Requests |-> CHOOSE n \in Names : TRUE]
    /\ arg = [r \in Requests |-> 0]
    /\ seen = [r \in Requests |-> NoRequest]
    /\ doomed = [r \in Requests |-> {}]
    /\ writer = [n \in Names |-> NoRequest]
    /\ dropper = NoRequest
    /\ faults = 0 /\ careful = TRUE

-----------------------------------------------------------------------------

Goto(r, label) ==
    /\ pc' = [pc EXCEPT ![r] = label]
    /\ UNCHANGED <<name, arg, seen, doomed>>

InFlight(r) == pc[r] \notin {"new", "done"}

(***************************************************************************)
(* The request r starts: its transaction is open, and the select of its    *)
(* row, or of its bucket, has found it.                                    *)
(***************************************************************************)
Start(r, kind, n, label, safe) ==
    /\ pc[r] = "new"
    /\ kind \in Kinds
    /\ bucket # 0
    /\ careful' = (careful /\ safe /\ \A q \in Requests \ {r} : ~InFlight(q))
    /\ pc' = [pc EXCEPT ![r] = label]
    /\ name' = [name EXCEPT ![r] = n]
    /\ arg' = [arg EXCEPT ![r] = bucket]
    /\ seen' = [seen EXCEPT ![r] = row[n]]
    /\ UNCHANGED <<rows, locks, disk, faults>>

-----------------------------------------------------------------------------
(* upload_object.                                                          *)

UploadBegin(r, n) ==
    /\ Start(r, "upload", n, "open", \A m \in Names : row[m] = NoRequest)
    /\ UNCHANGED doomed

(***************************************************************************)
(* open(path, "wb"): whatever is under the key is truncated now.           *)
(***************************************************************************)
PutOpen(r) ==
    /\ pc[r] = "open"
    /\ inode' = IF file = "none" THEN inode + 1 ELSE inode
    /\ file' = "torn"
    /\ fd' = [fd EXCEPT ![r] = inode']
    /\ LET others == {q \in Requests : pc[q] = "write" /\ fd[q] = inode'}
       IN  mixed' = IF others = {} THEN mixed ELSE mixed \cup others \cup {r}
    /\ Goto(r, "write")
    /\ UNCHANGED <<rows, locks, fate>>

\* The file that r wrote is still the one under the key.
StillLinked(r) == file # "none" /\ fd[r] = inode

(***************************************************************************)
(* The bytes are there.  The policy of storage.objects compares the owner  *)
(* with the caller and reads nothing else, so which of the two inserts the *)
(* caller meets is no matter of the moment.                                *)
(***************************************************************************)
PutDone(r) ==
    /\ pc[r] = "write"
    /\ file' \in IF ~StillLinked(r) THEN {file}
                 ELSE IF r \in mixed THEN {file, r, "torn"} ELSE {r}
    /\ \E label \in {"insert", "barred"} : Goto(r, label)
    /\ UNCHANGED <<rows, locks, inode, fd, mixed, fate>>

\* mutant of PutBreaks: what was received is taken for the whole
PutBreaks_Kept(r, tooLarge) ==
    /\ pc[r] = "write"
    /\ file' = "torn"
    /\ Goto(r, IF tooLarge THEN "undo" ELSE "insert")
    /\ UNCHANGED <<rows, locks, inode, fd, mixed, fate>>

(***************************************************************************)
(* The stream breaks off: put unlinks the path.  When it was the size      *)
(* limit, upload_object deletes the key once more.                         *)
(***************************************************************************)
PutBreaks(r, tooLarge) ==
    /\ pc[r] = "write"
    /\ file' = "none"
    /\ Goto(r, IF tooLarge THEN "undo" ELSE "done")
    /\ UNCHANGED <<rows, locks, inode, fd, mixed, fate>>

\* mutant of InsertRow: the row names the bucket, not its id
InsertRow_ByName(r) ==
    /\ pc[r] = "insert"
    /\ writer[name[r]] = NoRequest
    /\ IF row[name[r]] # NoRequest
       THEN Goto(r, "undo") /\ UNCHANGED writer
       ELSE Goto(r, "commit") /\ writer' = [writer EXCEPT ![name[r]] = r]
    /\ UNCHANGED <<rows, dropper, disk, fate>>

(***************************************************************************)
(* The insert waits for open transactions on the same path and on the      *)
(* bucket.  A row that is there is a unique violation; a bucket that is    *)
(* gone is an error nobody catches.                                        *)
(***************************************************************************)
InsertRow(r) ==
    /\ pc[r] = "insert"
    /\ writer[name[r]] = NoRequest /\ dropper = NoRequest
    /\ CASE bucket # arg[r] ->
              Goto(r, "done") /\ UNCHANGED writer
         [] bucket = arg[r] /\ row[name[r]] # NoRequest ->
              Goto(r, "undo") /\ UNCHANGED writer
         [] OTHER ->
              Goto(r, "commit") /\ writer' = [writer EXCEPT ![name[r]] = r]
    /\ UNCHANGED <<rows, dropper, disk, fate>>

\* Row-level security refuses the insert of a caller who may not, before it
\* comes to the locks.
InsertForbidden(r) ==
    /\ pc[r] = "barred"
    /\ Goto(r, "undo")
    /\ UNCHANGED <<rows, locks, disk, fate>>

\* mutant of Undo: the upload that was refused leaves its bytes
Undo_LeavesBytes(r) ==
    /\ pc[r] = "undo"
    /\ Goto(r, "done")
    /\ UNCHANGED <<rows, locks, disk, fate>>

\* _safe_delete: the key is removed, whoever wrote what is under it.
Undo(r) ==
    /\ pc[r] = "undo"
    /\ file' = "none"
    /\ Goto(r, "done")
    /\ UNCHANGED <<rows, locks, inode, fd, mixed, fate>>

CommitUpload(r) ==
    /\ pc[r] = "commit"
    /\ row' = [row EXCEPT ![name[r]] = r]
    /\ writer' = [writer EXCEPT ![name[r]] = NoRequest]
    /\ Goto(r, "done")
    /\ UNCHANGED <<bucket, born, dropper, disk, fate>>

-----------------------------------------------------------------------------
(* delete_object, and the admin's, which removes the bytes after the       *)
(* commit.                                                                 *)

DeleteBegin(r, kind, n) ==
    /\ kind \in {"delete", "admin"}
    /\ row[n] # NoRequest
    /\ Start(r, kind, n, IF kind = "admin" THEN "adminRow" ELSE "deleteRow", TRUE)
    /\ UNCHANGED doomed

\* What the delete will match: the path in the bucket it read; for the admin,
\* the very row it read.
Matches(r) ==
    /\ row[name[r]] # NoRequest
    /\ IF pc[r] = "adminRow" THEN row[name[r]] = seen[r] ELSE bucket = arg[r]

(***************************************************************************)
(* The delete waits for another transaction on the row or on the bucket.   *)
(* When it matches nothing then, the answer is a 404; the admin's does not *)
(* look, and goes on to the bytes.                                         *)
(***************************************************************************)
DeleteRow(r) ==
    /\ pc[r] \in {"deleteRow", "adminRow"}
    /\ writer[name[r]] = NoRequest /\ dropper = NoRequest
    /\ IF Matches(r)
       THEN /\ writer' = [writer EXCEPT ![name[r]] = r]
            /\ Goto(r, IF pc[r] = "adminRow" THEN "adminCommit" ELSE "bytes")
       ELSE /\ Goto(r, IF pc[r] = "adminRow" THEN "adminBytes" ELSE "done")
            /\ UNCHANGED writer
    /\ UNCHANGED <<rows, dropper, disk, fate>>

\* backend.delete, inside the transaction for "bytes", after it for "adminBytes".
DeleteBytes(r) ==
    /\ pc[r] \in {"bytes", "adminBytes"}
    /\ file' = "none"
    /\ Goto(r, IF pc[r] = "bytes" THEN "deleteCommit" ELSE "done")
    /\ UNCHANGED <<rows, locks, inode, fd, mixed, fate>>

CommitDelete(r) ==
    /\ pc[r] \in {"deleteCommit", "adminCommit"}
    /\ row' = [row EXCEPT ![name[r]] = NoRequest]
    /\ writer' = [writer EXCEPT ![name[r]] = NoRequest]
    /\ Goto(r, IF pc[r] = "adminCommit" THEN "adminBytes" ELSE "done")
    /\ UNCHANGED <<bucket, born, dropper, disk, fate>>

-----------------------------------------------------------------------------
(* Buckets.                                                                *)

\* mutant of CreateBucket: the counter of ids stays behind
CreateBucket_SameId ==
    /\ bucket = 0 /\ born < MaxBuckets
    /\ bucket' = born + 1
    /\ UNCHANGED <<born, row, locks, disk, control, fate>>

CreateBucket ==
    /\ bucket = 0 /\ born < MaxBuckets
    /\ bucket' = born + 1 /\ born' = born + 1
    /\ UNCHANGED <<row, locks, disk, control, fate>>

(***************************************************************************)
(* delete_bucket: the bucket is read, and the paths in it that the caller  *)
(* may see ...                                                             *)
(***************************************************************************)
DropBegin(r) ==
    /\ LET all == {n \in Names : row[n] # NoRequest}
       IN  \E D \in SUBSET all :
            /\ \E n \in Names : Start(r, "bucket", n, "drop", D = all)
            /\ doomed' = [doomed EXCEPT ![r] = D]

(***************************************************************************)
(* ... and its row is deleted, which cascades to the objects: it waits for *)
(* the transactions that hold rows of them, or hold the bucket.            *)
(***************************************************************************)
DropBucket(r) ==
    /\ pc[r] = "drop"
    /\ dropper = NoRequest /\ \A n \in Names : writer[n] = NoRequest
    /\ IF bucket = 0
       THEN Goto(r, "done") /\ UNCHANGED <<arg, dropper>>
       ELSE /\ dropper' = r
            /\ pc' = [pc EXCEPT ![r] = IF doomed[r] = {} THEN "dropCommit" ELSE "dropBytes"]
            /\ arg' = [arg EXCEPT ![r] = bucket]
            /\ UNCHANGED <<name, seen, doomed>>
    /\ UNCHANGED <<rows, writer, disk, fate>>

DropBytes(r) ==
    /\ pc[r] = "dropBytes"
    /\ file' = "none"
    /\ Goto(r, "dropCommit")
    /\ UNCHANGED <<rows, locks, inode, fd, mixed, fate>>

CommitDrop(r) ==
    /\ pc[r] = "dropCommit"
    /\ bucket' = 0
    /\ row' = [n \in Names |-> NoRequest]
    /\ dropper' = NoRequest
    /\ Goto(r, "done")
    /\ UNCHANGED <<born, writer, disk, fate>>

-----------------------------------------------------------------------------
(* Faults.                                                                 *)

Release(r) ==
    /\ writer' = [n \in Names |-> IF writer[n] = r THEN NoRequest ELSE writer[n]]
    /\ dropper' = IF dropper = r THEN NoRequest ELSE dropper

\* mutant of Crash: the transaction of a request that died stays open
Crash_KeepsLocks(r) ==
    /\ InFlight(r)
    /\ faults < MaxFaults /\ faults' = faults + 1
    /\ Goto(r, "done")
    /\ UNCHANGED <<rows, locks, disk, careful>>

(***************************************************************************)
(* The process dies, or the connection breaks before the commit.           *)
(***************************************************************************)
Crash(r) ==
    /\ InFlight(r)
    /\ faults < MaxFaults /\ faults' = faults + 1
    /\ careful' = (careful /\ pc[r] \notin {"deleteCommit", "dropCommit"})
    /\ Release(r)
    /\ Goto(r, "done")
    /\ UNCHANGED <<rows, disk>>

\* The backend does not delete: a warning, and the request goes on.
DeleteFails(r) ==
    /\ pc[r] \in {"undo", "bytes", "adminBytes", "dropBytes"}
    /\ faults < MaxFaults /\ faults' = faults + 1
    /\ Goto(r, CASE pc[r] = "bytes" -> "deleteCommit"
                 [] pc[r] = "dropBytes" -> "dropCommit"
                 [] OTHER -> "done")
    /\ UNCHANGED <<rows, locks, disk, careful>>

-----------------------------------------------------------------------------

Begin(r) ==
    \/ \E n \in Names : \/ UploadBegin(r, n)
                        \/ \E kind \in {"delete", "admin"} : DeleteBegin(r, kind, n)
    \/ DropBegin(r)

Proceed(r) ==
    \/ PutOpen(r) \/ PutDone(r) \/ (\E tooLarge \in BOOLEAN : PutBreaks(r, tooLarge))
    \/ InsertRow(r) \/ InsertForbidden(r) \/ Undo(r) \/ CommitUpload(r)
    \/ DeleteRow(r) \/ DeleteBytes(r) \/ CommitDelete(r)
    \/ DropBucket(r) \/ DropBytes(r) \/ CommitDrop(r)

Next ==
    \/ \E r \in Requests : Begin(r) \/ Proceed(r) \/ Crash(r) \/ DeleteFails(r)
    \/ CreateBucket

Spec == Init /\ [][Next]_vars

\* The event loop, and the database, serve every request that can go on.
FairSpec == Spec /\ \A r \in Requests : WF_vars(Proceed(r))

-----------------------------------------------------------------------------
(* Properties.                                                             *)

Labels ==
    {"new", "done", "open", "write", "insert", "barred", "undo", "commit", "deleteRow", "bytes",
     "deleteCommit", "adminRow", "adminCommit", "adminBytes", "drop", "dropBytes", "dropCommit"}

TypeOK ==
    /\ bucket \in 0 .. born /\ born \in 1 .. MaxBuckets
    /\ row \in [Names -> Requests \cup {NoRequest}]
    /\ file \in Contents /\ inode \in Nat /\ fd \in [Requests -> Nat]
    /\ mixed \subseteq Requests
    /\ pc \in [Requests -> Labels] /\ name \in [Requests -> Names]
    /\ arg \in [Requests -> 0 .. MaxBuckets]
    /\ seen \in [Requests -> Requests \cup {NoRequest}]
    /\ doomed \in [Requests -> SUBSET Names]
    /\ writer \in [Names -> Requests \cup {NoRequest}]
    /\ dropper \in Requests \cup {NoRequest}
    /\ faults \in 0 .. MaxFaults /\ careful \in BOOLEAN

(***************************************************************************)
(* A row that no open transaction is deleting describes bytes that are     *)
(* there, and are those bytes - at any moment, as long as the requests     *)
(* take turns and upload only where nothing is, and unless one dies, or    *)
(* its connection breaks, with the bytes deleted and the commit to come.   *)
(***************************************************************************)
MetadataBacked ==
    careful => \A n \in Names :
        row[n] # NoRequest /\ writer[n] = NoRequest /\ dropper = NoRequest => file = row[n]

Quiet == \A r \in Requests : ~InFlight(r)

(***************************************************************************)
(* "orphaned metadata is not" acceptable: when no request is under way, a  *)
(* row has bytes.                                                          *)
(***************************************************************************)
NoOrphanedMetadata == Quiet => \A n \in Names : row[n] # NoRequest => file # "none"

(***************************************************************************)
(* "Orphaned bytes after a crash are acceptable": when careful requests    *)
(* met no fault and all is quiet, bytes have a row.                        *)
(***************************************************************************)
NoStrayBytes ==
    careful /\ faults = 0 /\ Quiet
        => file = "none" \/ \E n \in Names : row[n] = file

(***************************************************************************)
(* The rows belong to a bucket: the cascade of its deletion leaves none,   *)
(* and no upload that read the bucket before adds one after.               *)
(***************************************************************************)
NoRowWithoutBucket == bucket = 0 => \A n \in Names : row[n] = NoRequest

(***************************************************************************)
(* However the requests wait for each other's transactions, and whichever  *)
(* of them die, each of them ends: an upload at its insert, a deletion at  *)
(* its row, and the deletion of the bucket, which waits for all of them.   *)
(***************************************************************************)
EveryRequestEnds == \A r \in Requests : InFlight(r) ~> ~InFlight(r)

=============================================================================
