------------------------ MODULE ObjectStorageProofs ------------------------
(***************************************************************************)
(* Proofs about ObjectStorage, for any requests, any paths and any number  *)
(* of faults and of buckets.                                               *)
(***************************************************************************)
EXTENDS ObjectStorage, TLAPS

-----------------------------------------------------------------------------
(* The inductive invariant.  First, what the transactions hold, which is   *)
(* what keeps rows and buckets together however the requests interleave.   *)

WritersHold ==
    \A n \in Names, r \in Requests :
        writer[n] = r <=>
            pc[r] \in {"commit", "bytes", "deleteCommit", "adminCommit"} /\ name[r] = n

DroppersHold ==
    \A r \in Requests : dropper = r <=> pc[r] \in {"dropBytes", "dropCommit"}

\* Whoever deletes the bucket waits for the writers, and they for it.
OneKind == dropper # NoRequest => \A n \in Names : writer[n] = NoRequest

BucketIsThere ==
    /\ bucket = 0 => dropper = NoRequest /\ \A n \in Names : writer[n] = NoRequest
    /\ \A r \in Requests : pc[r] \in {"open", "write", "insert", "deleteRow"} => arg[r] # 0

\* A transaction that deletes a row has one.
Held ==
    \A r \in Requests :
        pc[r] \in {"bytes", "deleteCommit", "adminCommit"} => row[name[r]] # NoRequest

LockInv ==
    WritersHold /\ DroppersHold /\ OneKind /\ BucketIsThere /\ Held /\ NoRowWithoutBucket

(* Then, what careful requests leave behind at every step.                 *)

\* Two uploads write into one file only after both have opened it.
NotMixed == \A r \in mixed : pc[r] \notin {"new", "open"}

NoRows == \A n \in Names : row[n] = NoRequest

Alone == \A q, r \in Requests : InFlight(q) /\ InFlight(r) => q = r

OneRow == \A m, n \in Names : row[m] # NoRequest /\ row[n] # NoRequest => m = n

\* What the one request under way has found, and what it has written.
InTurn ==
    \A r \in Requests :
        /\ pc[r] \in {"open", "write", "insert", "barred", "undo", "commit", "adminBytes"} => NoRows
        /\ pc[r] \in {"open", "write", "insert", "deleteRow"} => arg[r] = bucket
        /\ pc[r] = "write" => file = "torn" /\ fd[r] = inode /\ r \notin mixed
        /\ pc[r] \in {"insert", "commit"} => file = r
        /\ pc[r] \in {"deleteRow", "adminRow"} => row[name[r]] = seen[r] /\ seen[r] # NoRequest
        /\ pc[r] = "drop" => doomed[r] = {n \in Names : row[n] # NoRequest}

\* The bytes of a row may be gone only before the commit that deletes it.
Undecided == \E r \in Requests : pc[r] \in {"deleteCommit", "dropCommit"}

Backed == ~Undecided => \A n \in Names : row[n] # NoRequest => file = row[n]

\* Bytes have a row, or a request that will add one or remove them.
Accounted ==
    faults = 0 =>
        \/ file = "none"
        \/ ~Undecided /\ \E n \in Names : row[n] # NoRequest /\ row[n] = file
        \/ \E r \in Requests : pc[r] \in {"write", "insert", "barred", "undo", "commit", "adminBytes"}

CarefulInv == careful => Alone /\ OneRow /\ InTurn /\ Backed /\ Accounted

IInv == TypeOK /\ LockInv /\ NotMixed /\ CarefulInv

-----------------------------------------------------------------------------
(* One lemma per action.                                                   *)

USE StorageAssumption DEF rows, locks, disk, control, fate, Goto

\* A careful request starts when no other is under way.
LEMMA StartsAlone ==
  ASSUME TypeOK, NEW r \in Requests, NEW kind, NEW n, NEW label, NEW safe,
         Start(r, kind, n, label, safe), careful', label \in Labels
  PROVE  /\ careful /\ safe
         /\ \A q \in Requests \ {r} : pc'[q] \in {"new", "done"}
         /\ pc'[r] = label
  BY DEF TypeOK, Start, InFlight

LEMMA UploadBeginStep ==
  ASSUME IInv, NEW r \in Requests, NEW n \in Names, UploadBegin(r, n)
  PROVE  IInv'
<1>1. TypeOK'
  BY DEF IInv, TypeOK, Labels, Contents, Start, UploadBegin
<1>2. LockInv'
  BY DEF IInv, TypeOK, LockInv, WritersHold, DroppersHold, OneKind,
     BucketIsThere, Held, NoRowWithoutBucket, InFlight, Start, UploadBegin
<1>3. NotMixed'
  BY DEF IInv, TypeOK, NotMixed, InFlight, Start, UploadBegin
<1>4. careful' => (Alone /\ OneRow)'
  BY DEF IInv, TypeOK, CarefulInv, Alone, OneRow, InTurn, NoRows, InFlight,
     Start, UploadBegin
<1>5. careful' => InTurn'
  <2>1. careful' => /\ \A q \in Requests \ {r} : pc'[q] \in {"new", "done"}
                    /\ pc'[r] = "open" /\ NoRows /\ arg'[r] = bucket
    BY DEF IInv, TypeOK, UploadBegin, Start, InFlight, NoRows
  <2>2. UNCHANGED rows
    BY DEF UploadBegin, Start
  <2> QED
    BY <2>1, <2>2, Zenon DEF InTurn, NoRows
<1>6. careful' => Backed'
  BY DEF IInv, TypeOK, LockInv, WritersHold, DroppersHold, Held, CarefulInv,
     Alone, OneRow, InTurn, NoRows, Undecided, Backed, InFlight, Start,
     UploadBegin
<1>7. careful' => Accounted'
  BY DEF IInv, TypeOK, LockInv, WritersHold, DroppersHold, Held, BucketIsThere,
     CarefulInv, Alone, OneRow, InTurn, NoRows, Undecided, Backed, Accounted,
     InFlight, Start, UploadBegin
<1> QED
  BY <1>1, <1>2, <1>3, <1>4, <1>5, <1>6, <1>7 DEF IInv, CarefulInv

LEMMA PutOpenStep ==
  ASSUME IInv, NEW r \in Requests, PutOpen(r)
  PROVE  IInv'
<1>1. TypeOK'
  BY DEF IInv, TypeOK, Labels, Contents, PutOpen
<1>2. LockInv'
  BY DEF IInv, TypeOK, LockInv, WritersHold, DroppersHold, OneKind,
     BucketIsThere, Held, NoRowWithoutBucket, InFlight, PutOpen
<1>3. NotMixed' /\ CarefulInv'
  BY DEF IInv, TypeOK, LockInv, WritersHold, DroppersHold, Held, BucketIsThere,
     NotMixed, CarefulInv, Alone, OneRow, InTurn, NoRows, Undecided, Backed,
     Accounted, InFlight, PutOpen
<1> QED
  BY <1>1, <1>2, <1>3 DEF IInv

LEMMA PutDoneStep ==
  ASSUME IInv, NEW r \in Requests, PutDone(r)
  PROVE  IInv'
<1>1. TypeOK'
  BY DEF IInv, TypeOK, Labels, Contents, StillLinked, PutDone
<1>2. LockInv'
  BY DEF IInv, TypeOK, LockInv, WritersHold, DroppersHold, OneKind,
     BucketIsThere, Held, NoRowWithoutBucket, InFlight, StillLinked, PutDone
<1>3. NotMixed' /\ CarefulInv'
  BY DEF IInv, TypeOK, LockInv, WritersHold, DroppersHold, Held, BucketIsThere,
     NotMixed, CarefulInv, Alone, OneRow, InTurn, NoRows, Undecided, Backed,
     Accounted, InFlight, StillLinked, PutDone
<1> QED
  BY <1>1, <1>2, <1>3 DEF IInv

LEMMA PutBreaksStep ==
  ASSUME IInv, NEW r \in Requests, NEW tooLarge \in BOOLEAN, PutBreaks(r, tooLarge)
  PROVE  IInv'
<1>1. TypeOK'
  BY DEF IInv, TypeOK, Labels, Contents, PutBreaks
<1>2. LockInv'
  BY DEF IInv, TypeOK, LockInv, WritersHold, DroppersHold, OneKind,
     BucketIsThere, Held, NoRowWithoutBucket, InFlight, PutBreaks
<1>3. NotMixed' /\ CarefulInv'
  BY DEF IInv, TypeOK, LockInv, WritersHold, DroppersHold, Held, BucketIsThere,
     NotMixed, CarefulInv, Alone, OneRow, InTurn, NoRows, Undecided, Backed,
     Accounted, InFlight, PutBreaks
<1> QED
  BY <1>1, <1>2, <1>3 DEF IInv

LEMMA InsertRowStep ==
  ASSUME IInv, NEW r \in Requests, InsertRow(r)
  PROVE  IInv'
<1>1. TypeOK'
  BY DEF IInv, TypeOK, Labels, Contents, InsertRow
<1>2. LockInv'
  BY DEF IInv, TypeOK, LockInv, WritersHold, DroppersHold, OneKind,
     BucketIsThere, Held, NoRowWithoutBucket, InFlight, InsertRow
<1>3. NotMixed' /\ CarefulInv'
  BY DEF IInv, TypeOK, LockInv, WritersHold, DroppersHold, Held, BucketIsThere,
     NotMixed, CarefulInv, Alone, OneRow, InTurn, NoRows, Undecided, Backed,
     Accounted, InFlight, InsertRow
<1> QED
  BY <1>1, <1>2, <1>3 DEF IInv

LEMMA InsertForbiddenStep ==
  ASSUME IInv, NEW r \in Requests, InsertForbidden(r)
  PROVE  IInv'
<1>1. TypeOK'
  BY DEF IInv, TypeOK, Labels, Contents, InsertForbidden
<1>2. LockInv'
  BY DEF IInv, TypeOK, LockInv, WritersHold, DroppersHold, OneKind,
     BucketIsThere, Held, NoRowWithoutBucket, InFlight, InsertForbidden
<1>3. NotMixed' /\ CarefulInv'
  BY DEF IInv, TypeOK, LockInv, WritersHold, DroppersHold, Held, BucketIsThere,
     NotMixed, CarefulInv, Alone, OneRow, InTurn, NoRows, Undecided, Backed,
     Accounted, InFlight, InsertForbidden
<1> QED
  BY <1>1, <1>2, <1>3 DEF IInv

LEMMA UndoStep ==
  ASSUME IInv, NEW r \in Requests, Undo(r)
  PROVE  IInv'
<1>1. TypeOK'
  BY DEF IInv, TypeOK, Labels, Contents, Undo
<1>2. LockInv'
  BY DEF IInv, TypeOK, LockInv, WritersHold, DroppersHold, OneKind,
     BucketIsThere, Held, NoRowWithoutBucket, InFlight, Undo
<1>3. NotMixed' /\ CarefulInv'
  BY DEF IInv, TypeOK, LockInv, WritersHold, DroppersHold, Held, BucketIsThere,
     NotMixed, CarefulInv, Alone, OneRow, InTurn, NoRows, Undecided, Backed,
     Accounted, InFlight, Undo
<1> QED
  BY <1>1, <1>2, <1>3 DEF IInv

LEMMA CommitUploadStep ==
  ASSUME IInv, NEW r \in Requests, CommitUpload(r)
  PROVE  IInv'
<1>1. TypeOK'
  BY DEF IInv, TypeOK, Labels, Contents, CommitUpload
<1>2. LockInv'
  BY DEF IInv, TypeOK, LockInv, WritersHold, DroppersHold, OneKind,
     BucketIsThere, Held, NoRowWithoutBucket, InFlight, CommitUpload
<1>3. NotMixed' /\ CarefulInv'
  BY DEF IInv, TypeOK, LockInv, WritersHold, DroppersHold, Held, BucketIsThere,
     NotMixed, CarefulInv, Alone, OneRow, InTurn, NoRows, Undecided, Backed,
     Accounted, InFlight, CommitUpload
<1> QED
  BY <1>1, <1>2, <1>3 DEF IInv

LEMMA DeleteBeginStep ==
  ASSUME IInv, NEW r \in Requests, NEW kind \in {"delete", "admin"}, NEW n \in Names, DeleteBegin(r, kind, n)
  PROVE  IInv'
<1>1. TypeOK'
  BY DEF IInv, TypeOK, Labels, Contents, Start, DeleteBegin
<1>2. LockInv'
  BY DEF IInv, TypeOK, LockInv, WritersHold, DroppersHold, OneKind,
     BucketIsThere, Held, NoRowWithoutBucket, InFlight, Start, DeleteBegin
<1>3. NotMixed'
  BY DEF IInv, TypeOK, NotMixed, InFlight, Start, DeleteBegin
<1>4. careful' => (Alone /\ OneRow)'
  BY DEF IInv, TypeOK, CarefulInv, Alone, OneRow, InTurn, NoRows, InFlight,
     Start, DeleteBegin
<1>5. careful' => InTurn'
  BY DEF IInv, TypeOK, LockInv, WritersHold, Held, BucketIsThere, NotMixed,
     CarefulInv, Alone, OneRow, InTurn, NoRows, InFlight, Start, DeleteBegin
<1>6. careful' => Backed'
  BY DEF IInv, TypeOK, LockInv, WritersHold, DroppersHold, Held, CarefulInv,
     Alone, OneRow, InTurn, NoRows, Undecided, Backed, InFlight, Start,
     DeleteBegin
<1>7. careful' => Accounted'
  BY DEF IInv, TypeOK, LockInv, WritersHold, DroppersHold, Held, BucketIsThere,
     CarefulInv, Alone, OneRow, InTurn, NoRows, Undecided, Backed, Accounted,
     InFlight, Start, DeleteBegin
<1> QED
  BY <1>1, <1>2, <1>3, <1>4, <1>5, <1>6, <1>7 DEF IInv, CarefulInv

LEMMA DeleteRowStep ==
  ASSUME IInv, NEW r \in Requests, DeleteRow(r)
  PROVE  IInv'
<1>1. TypeOK'
  BY DEF IInv, TypeOK, Labels, Contents, Matches, DeleteRow
<1>2. LockInv'
  BY DEF IInv, TypeOK, LockInv, WritersHold, DroppersHold, OneKind,
     BucketIsThere, Held, NoRowWithoutBucket, InFlight, Matches, DeleteRow
<1>3. NotMixed' /\ CarefulInv'
  BY DEF IInv, TypeOK, LockInv, WritersHold, DroppersHold, Held, BucketIsThere,
     NotMixed, CarefulInv, Alone, OneRow, InTurn, NoRows, Undecided, Backed,
     Accounted, InFlight, Matches, DeleteRow
<1> QED
  BY <1>1, <1>2, <1>3 DEF IInv

LEMMA DeleteBytesStep ==
  ASSUME IInv, NEW r \in Requests, DeleteBytes(r)
  PROVE  IInv'
<1>1. TypeOK'
  BY DEF IInv, TypeOK, Labels, Contents, DeleteBytes
<1>2. LockInv'
  BY DEF IInv, TypeOK, LockInv, WritersHold, DroppersHold, OneKind,
     BucketIsThere, Held, NoRowWithoutBucket, InFlight, DeleteBytes
<1>3. NotMixed' /\ CarefulInv'
  BY DEF IInv, TypeOK, LockInv, WritersHold, DroppersHold, Held, BucketIsThere,
     NotMixed, CarefulInv, Alone, OneRow, InTurn, NoRows, Undecided, Backed,
     Accounted, InFlight, DeleteBytes
<1> QED
  BY <1>1, <1>2, <1>3 DEF IInv

LEMMA CommitDeleteStep ==
  ASSUME IInv, NEW r \in Requests, CommitDelete(r)
  PROVE  IInv'
<1>1. TypeOK'
  BY DEF IInv, TypeOK, Labels, Contents, CommitDelete
<1>2. LockInv'
  BY DEF IInv, TypeOK, LockInv, WritersHold, DroppersHold, OneKind,
     BucketIsThere, Held, NoRowWithoutBucket, InFlight, CommitDelete
<1>3. NotMixed' /\ CarefulInv'
  BY DEF IInv, TypeOK, LockInv, WritersHold, DroppersHold, Held, BucketIsThere,
     NotMixed, CarefulInv, Alone, OneRow, InTurn, NoRows, Undecided, Backed,
     Accounted, InFlight, CommitDelete
<1> QED
  BY <1>1, <1>2, <1>3 DEF IInv

LEMMA DropBeginStep ==
  ASSUME IInv, NEW r \in Requests, DropBegin(r)
  PROVE  IInv'
<1>1. TypeOK'
  BY DEF IInv, TypeOK, Labels, Contents, Start, DropBegin
<1>2. LockInv'
  BY DEF IInv, TypeOK, LockInv, WritersHold, DroppersHold, OneKind,
     BucketIsThere, Held, NoRowWithoutBucket, InFlight, Start, DropBegin
<1>3. NotMixed'
  BY DEF IInv, TypeOK, NotMixed, InFlight, Start, DropBegin
<1>4. careful' => (Alone /\ OneRow)'
  <2>1. careful' => careful /\ \A q \in Requests \ {r} : pc'[q] \in {"new", "done"}
    BY StartsAlone DEF IInv, TypeOK, Labels, DropBegin
  <2>2. UNCHANGED row
    BY DEF DropBegin, Start
  <2> QED
    BY <2>1, <2>2 DEF IInv, CarefulInv, Alone, OneRow, InFlight
<1>5. careful' => InTurn'
  <2>1. PICK D \in SUBSET {n \in Names : row[n] # NoRequest} :
          /\ \E n \in Names : Start(r, "bucket", n, "drop", D = {m \in Names : row[m] # NoRequest})
          /\ doomed' = [doomed EXCEPT ![r] = D]
    BY DEF DropBegin
  <2>2. careful' => /\ \A q \in Requests \ {r} : pc'[q] \in {"new", "done"}
                    /\ pc'[r] = "drop" /\ D = {n \in Names : row[n] # NoRequest}
    <3>1. PICK n \in Names : Start(r, "bucket", n, "drop", D = {m \in Names : row[m] # NoRequest})
      BY <2>1
    <3> QED
      BY <3>1 DEF Start, InFlight, IInv, TypeOK
  <2>3. UNCHANGED row /\ doomed'[r] = D
    BY <2>1 DEF Start, IInv, TypeOK
  <2> QED
    BY <2>2, <2>3 DEF InTurn
<1>6. careful' => Backed'
  BY DEF IInv, TypeOK, LockInv, WritersHold, DroppersHold, Held, CarefulInv,
     Alone, OneRow, InTurn, NoRows, Undecided, Backed, InFlight, Start,
     DropBegin
<1>7. careful' => Accounted'
  BY DEF IInv, TypeOK, LockInv, WritersHold, DroppersHold, Held, BucketIsThere,
     CarefulInv, Alone, OneRow, InTurn, NoRows, Undecided, Backed, Accounted,
     InFlight, Start, DropBegin
<1> QED
  BY <1>1, <1>2, <1>3, <1>4, <1>5, <1>6, <1>7 DEF IInv, CarefulInv

LEMMA DropBucketStep ==
  ASSUME IInv, NEW r \in Requests, DropBucket(r)
  PROVE  IInv'
<1>1. TypeOK'
  BY DEF IInv, TypeOK, Labels, Contents, DropBucket
<1>2. LockInv'
  BY DEF IInv, TypeOK, LockInv, WritersHold, DroppersHold, OneKind,
     BucketIsThere, Held, NoRowWithoutBucket, InFlight, DropBucket
<1>3. NotMixed'
  BY DEF IInv, TypeOK, NotMixed, InFlight, DropBucket
<1>4. careful' => (Alone /\ OneRow)'
  BY DEF IInv, TypeOK, CarefulInv, Alone, OneRow, InTurn, NoRows, InFlight,
     DropBucket
<1>5. careful' => InTurn'
  BY DEF IInv, TypeOK, LockInv, WritersHold, Held, BucketIsThere, NotMixed,
     CarefulInv, Alone, OneRow, InTurn, NoRows, InFlight, DropBucket
<1>6. careful' => Backed'
  BY DEF IInv, TypeOK, LockInv, WritersHold, DroppersHold, Held, CarefulInv,
     Alone, OneRow, InTurn, NoRows, Undecided, Backed, InFlight, DropBucket
<1>7. careful' => Accounted'
  <2>1. careful' => careful /\ doomed[r] = {n \in Names : row[n] # NoRequest}
    BY DEF DropBucket, IInv, CarefulInv, InTurn
  <2>2. careful' => ~Undecided /\ \A q \in Requests : InFlight(q) => q = r
    BY <2>1 DEF DropBucket, IInv, CarefulInv, Alone, Undecided, InFlight
  <2>3. careful' /\ faults = 0 => file = "none" \/ doomed[r] # {}
    BY <2>1, <2>2 DEF DropBucket, IInv, TypeOK, CarefulInv, Accounted, InFlight
  <2>4. careful' /\ faults = 0 /\ doomed[r] # {} => \/ file = "none"
                                                \/ \E n \in Names : row[n] # NoRequest /\ row[n] = file
    BY <2>1, <2>2 DEF DropBucket, IInv, CarefulInv, Accounted, InFlight
  <2>5. pc'[r] = IF bucket = 0 THEN "done" ELSE IF doomed[r] = {} THEN "dropCommit" ELSE "dropBytes"
    BY DEF DropBucket, IInv, TypeOK
  <2>6. UNCHANGED <<row, file, faults>> /\ \A q \in Requests \ {r} : pc'[q] = pc[q]
    BY DEF DropBucket, IInv, TypeOK
  <2> QED
    BY <2>2, <2>3, <2>4, <2>5, <2>6 DEF Accounted, Undecided, InFlight, IInv,
       LockInv, NoRowWithoutBucket
<1> QED
  BY <1>1, <1>2, <1>3, <1>4, <1>5, <1>6, <1>7 DEF IInv, CarefulInv

LEMMA DropBytesStep ==
  ASSUME IInv, NEW r \in Requests, DropBytes(r)
  PROVE  IInv'
<1>1. TypeOK'
  BY DEF IInv, TypeOK, Labels, Contents, DropBytes
<1>2. LockInv'
  BY DEF IInv, TypeOK, LockInv, WritersHold, DroppersHold, OneKind,
     BucketIsThere, Held, NoRowWithoutBucket, InFlight, DropBytes
<1>3. NotMixed' /\ CarefulInv'
  BY DEF IInv, TypeOK, LockInv, WritersHold, DroppersHold, Held, BucketIsThere,
     NotMixed, CarefulInv, Alone, OneRow, InTurn, NoRows, Undecided, Backed,
     Accounted, InFlight, DropBytes
<1> QED
  BY <1>1, <1>2, <1>3 DEF IInv

LEMMA CommitDropStep ==
  ASSUME IInv, NEW r \in Requests, CommitDrop(r)
  PROVE  IInv'
<1>1. TypeOK'
  BY DEF IInv, TypeOK, Labels, Contents, CommitDrop
<1>2. LockInv'
  BY DEF IInv, TypeOK, LockInv, WritersHold, DroppersHold, OneKind,
     BucketIsThere, Held, NoRowWithoutBucket, InFlight, CommitDrop
<1>3. NotMixed' /\ (careful' => (Alone /\ OneRow)')
  BY DEF IInv, TypeOK, NotMixed, CarefulInv, Alone, OneRow, InFlight, CommitDrop
<1>4. careful' => InTurn'
  BY DEF IInv, TypeOK, CarefulInv, Alone, InTurn, InFlight, CommitDrop
<1>5. NoRows' /\ careful' = careful
  BY DEF NoRows, CommitDrop
<1>6. careful' => Accounted'
  BY DEF IInv, TypeOK, LockInv, DroppersHold, CarefulInv, Alone, Undecided,
     Accounted, InFlight, CommitDrop
<1> QED
  BY <1>1, <1>2, <1>3, <1>4, <1>5, <1>6 DEF IInv, CarefulInv, NoRows, Backed

LEMMA CrashStep ==
  ASSUME IInv, NEW r \in Requests, Crash(r)
  PROVE  IInv'
<1>1. TypeOK'
  BY DEF IInv, TypeOK, Labels, Contents, Release, Crash
<1>2. LockInv'
  BY DEF IInv, TypeOK, LockInv, WritersHold, DroppersHold, OneKind,
     BucketIsThere, Held, NoRowWithoutBucket, InFlight, Release, Crash
<1>3. NotMixed'
  BY DEF IInv, TypeOK, NotMixed, InFlight, Release, Crash
<1>4. careful' => (Alone /\ OneRow)'
  BY DEF IInv, TypeOK, CarefulInv, Alone, OneRow, InTurn, NoRows, InFlight,
     Release, Crash
<1>5. careful' => InTurn'
  BY DEF IInv, TypeOK, LockInv, WritersHold, Held, BucketIsThere, NotMixed,
     CarefulInv, Alone, OneRow, InTurn, NoRows, InFlight, Release, Crash
<1>6. careful' => Backed'
  BY DEF IInv, TypeOK, LockInv, WritersHold, DroppersHold, Held, CarefulInv,
     Alone, OneRow, InTurn, NoRows, Undecided, Backed, InFlight, Release, Crash
<1>7. careful' => Accounted'
  BY DEF IInv, TypeOK, LockInv, WritersHold, DroppersHold, Held, BucketIsThere,
     CarefulInv, Alone, OneRow, InTurn, NoRows, Undecided, Backed, Accounted,
     InFlight, Release, Crash
<1> QED
  BY <1>1, <1>2, <1>3, <1>4, <1>5, <1>6, <1>7 DEF IInv, CarefulInv

LEMMA DeleteFailsStep ==
  ASSUME IInv, NEW r \in Requests, DeleteFails(r)
  PROVE  IInv'
<1>1. TypeOK'
  BY DEF IInv, TypeOK, Labels, Contents, DeleteFails
<1>2. LockInv'
  BY DEF IInv, TypeOK, LockInv, WritersHold, DroppersHold, OneKind,
     BucketIsThere, Held, NoRowWithoutBucket, InFlight, DeleteFails
<1>3. NotMixed' /\ CarefulInv'
  BY DEF IInv, TypeOK, LockInv, WritersHold, DroppersHold, Held, BucketIsThere,
     NotMixed, CarefulInv, Alone, OneRow, InTurn, NoRows, Undecided, Backed,
     Accounted, InFlight, DeleteFails
<1> QED
  BY <1>1, <1>2, <1>3 DEF IInv

LEMMA CreateBucketStep ==
  ASSUME IInv, CreateBucket
  PROVE  IInv'
<1>1. TypeOK'
  BY DEF IInv, TypeOK, Labels, Contents, CreateBucket
<1>2. LockInv'
  BY DEF IInv, TypeOK, LockInv, WritersHold, DroppersHold, OneKind,
     BucketIsThere, Held, NoRowWithoutBucket, InFlight, CreateBucket
<1>3. NotMixed' /\ CarefulInv'
  BY DEF IInv, TypeOK, LockInv, WritersHold, DroppersHold, Held, BucketIsThere,
     NotMixed, CarefulInv, Alone, OneRow, InTurn, NoRows, Undecided, Backed,
     Accounted, InFlight, CreateBucket
<1> QED
  BY <1>1, <1>2, <1>3 DEF IInv

HIDE StorageAssumption DEF rows, locks, disk, control, fate, Goto

-----------------------------------------------------------------------------
LEMMA IInvInit == Init => IInv
<1> SUFFICES ASSUME Init
             PROVE  IInv
  OBVIOUS
<1>1. (CHOOSE n \in Names : TRUE) \in Names
  BY StorageAssumption
<1>2. TypeOK
  BY <1>1, StorageAssumption DEF Init, TypeOK, Labels, Contents
<1>3. LockInv /\ NotMixed
  BY StorageAssumption
  DEF Init, LockInv, WritersHold, DroppersHold, OneKind, BucketIsThere, Held,
      NoRowWithoutBucket, NotMixed
<1>4. CarefulInv
  BY DEF Init, CarefulInv, Alone, OneRow, InTurn, Backed, Accounted, InFlight
<1> QED
  BY <1>2, <1>3, <1>4 DEF IInv

LEMMA IInvNext == IInv /\ [Next]_vars => IInv'
<1> SUFFICES ASSUME IInv, [Next]_vars
             PROVE  IInv'
  OBVIOUS
<1>1. ASSUME NEW r \in Requests, Begin(r)
      PROVE  IInv'
  BY <1>1, UploadBeginStep, DeleteBeginStep, DropBeginStep DEF Begin
<1>2. ASSUME NEW r \in Requests, Proceed(r)
      PROVE  IInv'
  BY <1>2, PutOpenStep, PutDoneStep, PutBreaksStep, InsertRowStep, InsertForbiddenStep,
     UndoStep, CommitUploadStep, DeleteRowStep, DeleteBytesStep, CommitDeleteStep,
     DropBucketStep, DropBytesStep, CommitDropStep
  DEF Proceed
<1>3. ASSUME NEW r \in Requests, Crash(r) \/ DeleteFails(r)
      PROVE  IInv'
  BY <1>3, CrashStep, DeleteFailsStep
<1>4. CASE CreateBucket
  BY <1>4, CreateBucketStep
<1>5. CASE UNCHANGED vars
  BY <1>5
  DEF vars, rows, locks, disk, control, fate, IInv, TypeOK, LockInv, WritersHold,
      DroppersHold, OneKind, BucketIsThere, Held, NoRowWithoutBucket, NotMixed, CarefulInv,
      Alone, OneRow, InTurn, NoRows, Undecided, Backed, Accounted, InFlight
<1> QED
  BY <1>1, <1>2, <1>3, <1>4, <1>5 DEF Next

LEMMA Invariance == Spec => []IInv
BY IInvInit, IInvNext, PTL DEF Spec

-----------------------------------------------------------------------------
(* The state of every request, lock and file is of its type.               *)
THEOREM TypeCorrect == Spec => []TypeOK
<1>1. IInv => TypeOK
  BY DEF IInv
<1> QED
  BY <1>1, Invariance, PTL

(* No row of storage.objects outlives its bucket: what delete_bucket       *)
(* cascades to is all there is, because the uploads wait for it and it for *)
(* them.  It needs the invariant on who holds which transaction.           *)
THEOREM RowsHaveABucket == Spec => []NoRowWithoutBucket
<1>1. IInv => NoRowWithoutBucket
  BY DEF IInv, LockInv
<1> QED
  BY <1>1, Invariance, PTL

(* A row describes the bytes that are there, for requests that take turns  *)
(* and upload only where nothing is (upload_object, delete_object).  A row *)
(* that is neither being deleted nor dropped is the only one, so that no   *)
(* request is between the bytes and its commit.                            *)
THEOREM RowsAreBacked == Spec => []MetadataBacked
<1>1. ASSUME IInv, careful, NEW n \in Names, row[n] # NoRequest, writer[n] = NoRequest,
             dropper = NoRequest
      PROVE  file = row[n]
  <2>1. ~Undecided
    <3>1. ASSUME NEW r \in Requests, pc[r] = "deleteCommit"
          PROVE  FALSE
      <4>1. writer[name[r]] = r /\ row[name[r]] # NoRequest /\ name[r] \in Names
        BY <1>1, <3>1 DEF IInv, TypeOK, LockInv, WritersHold, Held
      <4> QED
        BY <1>1, <4>1, StorageAssumption DEF IInv, CarefulInv, OneRow
    <3>2. ASSUME NEW r \in Requests, pc[r] = "dropCommit"
          PROVE  FALSE
      BY <1>1, <3>2, StorageAssumption DEF IInv, LockInv, DroppersHold
    <3> QED
      BY <3>1, <3>2 DEF Undecided
  <2> QED
    BY <1>1, <2>1 DEF IInv, CarefulInv, Backed
<1>2. IInv => MetadataBacked
  BY <1>1 DEF MetadataBacked
<1> QED
  BY <1>2, Invariance, PTL

(* Without faults, careful requests leave no bytes without a row (_safe_   *)
(* delete, and the deletions).                                             *)
THEOREM BytesHaveARow == Spec => []NoStrayBytes
<1>1. IInv => NoStrayBytes
  BY DEF IInv, CarefulInv, Accounted, NoStrayBytes, Quiet, InFlight
<1> QED
  BY <1>1, Invariance, PTL
=============================================================================
