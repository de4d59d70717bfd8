-------------------------------- MODULE Files --------------------------------
(***************************************************************************)
(* The uploads of one workspace: middlewares/upload, services/file.service *)
(* and helpers/range, over the upload directory and models/fileAsset.      *)
(*                                                                         *)
(* A file is on disk under a random name of its own before the service     *)
(* looks for an asset with the same checksum; an asset is known by that    *)
(* name (storedName is unique).  No handler uses a transaction: every      *)
(* await is a step, and the disk and the collection change one by one.     *)
(***************************************************************************)
EXTENDS Integers, FiniteSets

CONSTANTS
    Names,      \* storage names (randomUUID: none is ever drawn twice),
                \* numbered in the order they are drawn
    Contents,   \* what a file may hold; equal contents have equal checksums
    SizeOf,     \* the size of each content
    Uploaders,  \* slots for requests in flight
    FileMixes,  \* bound: what clients ask for (ops), which slots they use
                \* (slots), which names may be drawn (names), which Range
                \* headers are sent (headers: the two numbers around the
                \* dash, Nothing for an empty text, a negative one for no
                \* number), what may go wrong (faults); a behaviour keeps
                \* to one
    Nothing

ASSUME FilesAssumption ==
    /\ Names \subseteq Nat
    /\ Nothing \notin Contents \cup Int
    /\ SizeOf \in [Contents -> Nat]
    /\ FileMixes \subseteq [ops : SUBSET {"upload", "download", "delete"},
                            slots : SUBSET Uploaders, names : SUBSET Names,
                            headers : SUBSET [first : Int \cup {Nothing},
                                              last : Int \cup {Nothing}],
                            faults : SUBSET {"crash", "disk", "hangup"}]

VARIABLES
    copy,       \* what the disk has under a name: "none", "partial" or "whole"
    holds,      \* the content sent under a name, Nothing before it is drawn
    asset,      \* the fileAsset of a name: "absent", "stored" or "deleted"
    fileReq,    \* the requests in flight
    left,       \* ghost: names whose upload was cut short by a fault ...
    cut,        \* ... and names whose delete was
    fileMix     \* what clients ask for, and what may go wrong

filesVars == <<copy, holds, asset, fileReq, left, cut, fileMix>>

FileSteps == {"idle", "receive", "discard", "register", "create", "finish", "unlink",
              "load", "remove", "forget", "stat", "open", "answer"}

(* name: the file received or asked for; found: the asset an upload is     *)
(* answered with; range: what a download asked for; from and to: what it   *)
(* is served.                                                              *)
FileRequest ==
    [op : {"none", "upload", "download", "delete"}, step : FileSteps,
     name : Names \cup {Nothing}, found : Names \cup {Nothing},
     range : [start : Nat, end : Nat \cup {Nothing}] \cup {Nothing},
     from : Int, to : Int]

NoFileRequest == [op |-> "none", step |-> "idle", name |-> Nothing, found |-> Nothing,
                  range |-> Nothing, from |-> 0, to |-> 0]

FilesTypeOK ==
    /\ copy \in [Names -> {"none", "partial", "whole"}]
    /\ holds \in [Names -> Contents \cup {Nothing}]
    /\ asset \in [Names -> {"absent", "stored", "deleted"}]
    /\ \A n \in Names : holds[n] = Nothing => copy[n] = "none" /\ asset[n] = "absent"
    /\ fileReq \in [Uploaders -> FileRequest]
    /\ left \subseteq Names
    /\ cut \subseteq Names
    /\ fileMix \in FileMixes

Stored == {n \in Names : asset[n] = "stored"}

FilesInit ==
    /\ copy = [n \in Names |-> "none"]
    /\ holds = [n \in Names |-> Nothing]
    /\ asset = [n \in Names |-> "absent"]
    /\ fileReq = [s \in Uploaders |-> NoFileRequest]
    /\ left = {}
    /\ cut = {}
    /\ fileMix \in FileMixes

FileGo(s, r) ==
    /\ fileReq' = [fileReq EXCEPT ![s] = r]
    /\ UNCHANGED fileMix

FileStep(s, r) ==
    /\ FileGo(s, r)
    /\ UNCHANGED <<copy, holds, asset, left, cut>>

FileStart(s, op) ==
    /\ fileReq[s] = NoFileRequest
    /\ s \in fileMix.slots /\ op \in fileMix.ops

-----------------------------------------------------------------------------
(* receive: the part named "file", of an allowed type, is piped to disk    *)
(* under a fresh name.  Requests without one change nothing.               *)
StartUpload(s) ==
    /\ FileStart(s, "upload")
    /\ \E n \in fileMix.names, c \in Contents :
          /\ \A m \in Names : holds[m] = Nothing <=> m >= n
          /\ holds' = [holds EXCEPT ![n] = c]
          /\ copy' = [copy EXCEPT ![n] = "partial"]
          /\ FileGo(s, [NoFileRequest EXCEPT !.op = "upload", !.step = "receive", !.name = n])
    /\ UNCHANGED <<asset, left, cut>>

(* The whole part is on disk and hashed, or the parser stopped at the size *)
(* limit and receive discards what it wrote.                               *)
ReceiveWhole(s) ==
    /\ fileReq[s].step = "receive"
    /\ copy' = [copy EXCEPT ![fileReq[s].name] = "whole"]
    /\ FileGo(s, [fileReq[s] EXCEPT !.step = "register"])
    /\ UNCHANGED <<holds, asset, left, cut>>

ReceiveTooLarge(s) ==
    /\ fileReq[s].step = "receive"
    /\ FileStep(s, [fileReq[s] EXCEPT !.step = "discard"])

(* The write fails, or the client goes away and the parser never closes:   *)
(* received is still null, so nothing is discarded.                        *)
ReceiveFails(s) ==
    /\ fileReq[s].step = "receive"
    /\ "disk" \in fileMix.faults
    /\ left' = left \cup {fileReq[s].name}
    /\ FileGo(s, NoFileRequest)
    /\ UNCHANGED <<copy, holds, asset, cut>>

(* A later middleware, the lookup or the create answers with an error; the *)
(* finish listener then discards the file, unless the client has gone and  *)
(* the response closes without finishing.                                  *)
RefuseUpload(s) ==
    /\ fileReq[s].step \in {"register", "create"}
    /\ FileStep(s, [fileReq[s] EXCEPT !.step = "finish"])

HangUp(s) ==
    /\ fileReq[s].step = "finish"
    /\ "hangup" \in fileMix.faults
    /\ left' = left \cup {fileReq[s].name}
    /\ FileGo(s, NoFileRequest)
    /\ UNCHANGED <<copy, holds, asset, cut>>

\* Mutant: only the file of an oversized request is discarded.
DiscardOversized(s) ==
    /\ fileReq[s].step \in {"discard", "finish"}
    /\ copy' = IF fileReq[s].step = "discard"
               THEN [copy EXCEPT ![fileReq[s].name] = "none"]
               ELSE copy
    /\ FileGo(s, NoFileRequest)
    /\ UNCHANGED <<holds, asset, left, cut>>

(* discard: unlink, whatever comes of it.                                  *)
Discard(s) ==
    /\ fileReq[s].step \in {"discard", "finish"}
    /\ copy' = [copy EXCEPT ![fileReq[s].name] = "none"]
    /\ FileGo(s, NoFileRequest)
    /\ UNCHANGED <<holds, asset, left, cut>>

(* registerUpload: an asset with the same checksum makes this file         *)
(* superfluous; without one it gets an asset of its own.                   *)
FindCopy(s) ==
    LET r == fileReq[s]
        same == {n \in Stored : holds[n] = holds[r.name]}
    IN  /\ r.step = "register"
        /\ \/ /\ same = {}
              /\ FileStep(s, [r EXCEPT !.step = "create"])
           \/ \E n \in same :
                 FileStep(s, [r EXCEPT !.step = "unlink", !.found = n])

\* Mutant: the stored copy is removed and the new one kept.
DropStored(s) ==
    /\ fileReq[s].step = "unlink"
    /\ copy' = [copy EXCEPT ![fileReq[s].found] = "none"]
    /\ FileGo(s, [fileReq[s] EXCEPT !.step = "answer"])
    /\ UNCHANGED <<holds, asset, left, cut>>

DropDuplicate(s) ==
    /\ fileReq[s].step = "unlink"
    /\ copy' = [copy EXCEPT ![fileReq[s].name] = "none"]
    /\ FileGo(s, [fileReq[s] EXCEPT !.step = "answer"])
    /\ UNCHANGED <<holds, asset, left, cut>>

CreateAsset(s) ==
    /\ fileReq[s].step = "create"
    /\ asset' = [asset EXCEPT ![fileReq[s].name] = "stored"]
    /\ FileGo(s, [fileReq[s] EXCEPT !.step = "answer", !.found = fileReq[s].name])
    /\ UNCHANGED <<copy, holds, left, cut>>

-----------------------------------------------------------------------------
(* The :fileId of a download or a delete names an asset that was once      *)
(* created.                                                                *)
StartOnAsset(s) ==
    \E op \in {"download", "delete"} :
        /\ FileStart(s, op)
        /\ \E n \in Names :
              /\ asset[n] # "absent"
              /\ FileStep(s, [NoFileRequest EXCEPT !.op = op, !.step = "load", !.name = n])

(* getAsset answers 404 for an asset that is gone; deleteFile answers 403  *)
(* to an actor who neither uploaded it nor manages the workspace.          *)
LoadAsset(s) ==
    LET r == fileReq[s]
    IN  /\ r.step = "load"
        /\ \/ /\ r.name \in Stored
              /\ FileStep(s, [r EXCEPT !.step = IF r.op = "delete" THEN "remove" ELSE "stat"])
           \/ /\ r.name \notin Stored \/ r.op = "delete"
              /\ FileStep(s, NoFileRequest)

(* deleteFile: unlink, whatever comes of it, then deleteOne.               *)
RemoveBytes(s) ==
    /\ fileReq[s].step = "remove"
    /\ copy' = [copy EXCEPT ![fileReq[s].name] = "none"]
    /\ FileGo(s, [fileReq[s] EXCEPT !.step = "forget"])
    /\ UNCHANGED <<holds, asset, left, cut>>

\* Mutant: deleteFile forgets the asset and leaves the file.
RemoveNoBytes(s) ==
    /\ fileReq[s].step = "remove"
    /\ FileStep(s, [fileReq[s] EXCEPT !.step = "forget"])

DeleteAsset(s) ==
    /\ fileReq[s].step = "forget"
    /\ asset' = [asset EXCEPT ![fileReq[s].name] = "deleted"]
    /\ FileGo(s, NoFileRequest)
    /\ UNCHANGED <<copy, holds, left, cut>>

(* openDownload: stat, 404 when there is nothing.                          *)
Stat(s) ==
    /\ fileReq[s].step = "stat"
    /\ FileStep(s, IF copy[fileReq[s].name] = "none"
                   THEN NoFileRequest
                   ELSE [fileReq[s] EXCEPT !.step = "open"])

(* parseRange: Number('') is 0, so a missing first number asks from 0.     *)
ParseRange(h) ==
    LET start == IF h.first = Nothing THEN 0 ELSE h.first
    IN  IF start < 0 \/ (h.last # Nothing /\ h.last < start)
        THEN Nothing
        ELSE [start |-> start, end |-> h.last]

Least(a, b) == IF a <= b THEN a ELSE b

\* Mutant: the end asked for is used as it is.
SliceAsAsked(range, size) ==
    IF range = Nothing THEN [from |-> 0, to |-> size - 1]
    ELSE [from |-> Least(range.start, size - 1),
          to |-> IF range.end = Nothing THEN size - 1 ELSE range.end]

Slice(range, size) ==
    IF range = Nothing THEN [from |-> 0, to |-> size - 1]
    ELSE [from |-> Least(range.start, size - 1),
          to |-> IF range.end = Nothing THEN size - 1 ELSE Least(range.end, size - 1)]

(* createReadStream refuses a start below zero, as a range of an empty     *)
(* file has: the request fails.                                            *)
Open(s) ==
    LET r == fileReq[s]
        size == SizeOf[holds[r.name]]
    IN  /\ r.step = "open"
        /\ copy[r.name] # "none"
        /\ \E range \in {ParseRange(h) : h \in fileMix.headers} \cup {Nothing} :
              LET slice == Slice(range, size)
              IN  FileStep(s, IF slice.from < 0
                              THEN NoFileRequest
                              ELSE [r EXCEPT !.step = "answer", !.range = range,
                                             !.from = slice.from, !.to = slice.to])

FileAnswer(s) ==
    /\ fileReq[s].step = "answer"
    /\ FileStep(s, NoFileRequest)

(* The process stops: every request is lost where it stands.               *)
Lost(op) == {n \in Names : \E s \in Uploaders : fileReq[s].op = op /\ fileReq[s].name = n}

StopServing ==
    /\ fileReq' = [s \in Uploaders |-> NoFileRequest]
    /\ left' = left \cup {n \in Lost("upload") : copy[n] # "none" /\ asset[n] = "absent"}
    /\ cut' = cut \cup {n \in Lost("delete") : copy[n] = "none" /\ asset[n] = "stored"}
    /\ UNCHANGED <<copy, holds, asset, fileMix>>

CrashServing ==
    /\ "crash" \in fileMix.faults
    /\ \E s \in Uploaders : fileReq[s] # NoFileRequest
    /\ StopServing

(* The file went after stat found it: the stream emits an error nobody     *)
(* listens for, and the process stops.                                     *)
OpenGone(s) ==
    /\ fileReq[s].step = "open"
    /\ copy[fileReq[s].name] = "none"
    /\ StopServing

FilesNext ==
    \/ CrashServing
    \/ \E s \in Uploaders :
          \/ StartUpload(s) \/ ReceiveWhole(s) \/ ReceiveTooLarge(s) \/ ReceiveFails(s)
          \/ RefuseUpload(s) \/ HangUp(s) \/ Discard(s)
          \/ FindCopy(s) \/ DropDuplicate(s) \/ CreateAsset(s)
          \/ StartOnAsset(s) \/ LoadAsset(s) \/ RemoveBytes(s) \/ DeleteAsset(s)
          \/ Stat(s) \/ Open(s) \/ OpenGone(s) \/ FileAnswer(s)

FilesSpec == FilesInit /\ [][FilesNext]_filesVars

-----------------------------------------------------------------------------
FilesOneAtATime == \A s, t \in fileMix.slots : s = t

Uploading(n) == \E s \in Uploaders : fileReq[s].op = "upload" /\ fileReq[s].name = n

(* However requests overlap and fail, disk and collection agree.  An asset *)
(* has all its bytes on disk, unless a delete of it is between its unlink  *)
(* and its deleteOne or was cut there; and a file without an asset belongs *)
(* to an upload still under way, or to one that a fault cut short: refused *)
(* uploads, duplicates and deleted assets leave nothing on disk.           *)
BytesMatchAssets ==
    /\ \A n \in Stored :
          \/ copy[n] = "whole"
          \/ n \in cut
          \/ \E s \in Uploaders : fileReq[s].step = "forget" /\ fileReq[s].name = n
    /\ \A n \in Names \ Stored : copy[n] # "none" => n \in left \/ Uploading(n)

(* With requests one at a time and no crash, the asset an upload is        *)
(* answered with is there, whole, and has the bytes that were sent.        *)
UploadKept ==
    FilesOneAtATime /\ "crash" \notin fileMix.faults =>
        \A s \in Uploaders :
            fileReq[s].op = "upload" /\ fileReq[s].step = "answer" =>
                /\ fileReq[s].found \in Stored
                /\ copy[fileReq[s].found] = "whole"
                /\ holds[fileReq[s].found] = holds[fileReq[s].name]

(* A download serves the offsets of the file that were asked for; the last *)
(* one when all of them are past its end; everything without a range.      *)
RangesInsideFile ==
    \A s \in Uploaders :
        fileReq[s].op = "download" /\ fileReq[s].step = "answer" =>
            LET r == fileReq[s]
                file == 0 .. SizeOf[holds[r.name]] - 1
                asked == {i \in file :
                            r.range # Nothing =>
                                /\ r.range.start <= i
                                /\ r.range.end # Nothing => i <= r.range.end}
            IN  r.from .. r.to = IF asked = {} /\ file # {}
                                 THEN {SizeOf[holds[r.name]] - 1}
                                 ELSE asked
=============================================================================
