----------------------------- MODULE Files_proofs -----------------------------
(***************************************************************************)
(* Theorems about Files for every set of names, contents and requests:     *)
(* types, that the disk and the collection agree, that uploads are kept    *)
(* and ranges right; and about Pages and Files side by side.               *)
(***************************************************************************)
EXTENDS MCContent, Pages_proofs, TLAPS

BeforeCreate == {"receive", "discard", "register", "create", "finish", "unlink"}

(* Which operation a step belongs to.                                      *)
ServedOK(r) ==
    /\ r.op # "none" => r.name \in Names
    /\ r.op = "none" => r.step = "idle"
    /\ r.step \in BeforeCreate => r.op = "upload"
    /\ r.step = "load" => r.op \in {"download", "delete"}
    /\ r.step \in {"remove", "forget"} => r.op = "delete"
    /\ r.step \in {"stat", "open"} => r.op = "download"
    /\ r.step = "answer" => r.op \in {"upload", "download"}

(* What a request may rely on: its upload has no asset before create, and  *)
(* its file until it is discarded; it deletes or reads what had an asset.  *)
SlotOK(r) ==
    /\ ServedOK(r)
    /\ r.op = "upload" => holds[r.name] # Nothing
    /\ r.step \in BeforeCreate => asset[r.name] = "absent"
    /\ r.step \in {"register", "create"} => copy[r.name] = "whole"
    /\ r.op = "upload" /\ r.step \notin BeforeCreate =>
          asset[r.name] # "absent" \/ copy[r.name] = "none"
    /\ r.op \in {"download", "delete"} => asset[r.name] # "absent"
    /\ r.step = "forget" => copy[r.name] = "none"

(* No two uploads have one file, and a deleted asset has none.             *)
NamesApart ==
    \A s, t \in Uploaders :
        fileReq[s].op = "upload" /\ fileReq[t].op = "upload" /\ fileReq[s].name = fileReq[t].name
            => s = t

DeletedGone == \A n \in Names : asset[n] = "deleted" => copy[n] = "none"

FilesInv ==
    /\ FilesTypeOK /\ NamesApart /\ DeletedGone /\ BytesMatchAssets
    /\ \A s \in Uploaders : SlotOK(fileReq[s])

LEMMA Outside == Nothing \notin Contents /\ Nothing \notin Int /\ SizeOf \in [Contents -> Nat]
  BY FilesAssumption

LEMMA NoRequestOK == NoFileRequest \in FileRequest /\ ServedOK(NoFileRequest) /\ SlotOK(NoFileRequest)
                     /\ NoFileRequest.op = "none" /\ NoFileRequest.step = "idle"
  BY DEF NoFileRequest, FileRequest, FileSteps, ServedOK, SlotOK, BeforeCreate

LEMMA InitInv == FilesInit => FilesInv
<1> SUFFICES ASSUME FilesInit PROVE FilesInv
  OBVIOUS
<1>1. FilesTypeOK
  BY NoRequestOK DEF FilesInit, FilesTypeOK
<1>2. \A s \in Uploaders : SlotOK(fileReq[s]) /\ fileReq[s].op = "none"
  BY NoRequestOK DEF FilesInit
<1>3. NamesApart /\ DeletedGone
  BY <1>2 DEF FilesInit, NamesApart, DeletedGone
<1>4. BytesMatchAssets
  BY DEF FilesInit, BytesMatchAssets, Stored
<1> QED BY <1>1, <1>2, <1>3, <1>4 DEF FilesInv

LEMMA Known ==
    ASSUME FilesInv, NEW s \in Uploaders
    PROVE  /\ fileReq[s] \in FileRequest /\ SlotOK(fileReq[s]) /\ ServedOK(fileReq[s])
           /\ fileReq[s].op # "none" => fileReq[s].name \in Names
           /\ copy \in [Names -> {"none", "partial", "whole"}]
           /\ asset \in [Names -> {"absent", "stored", "deleted"}]
           /\ holds \in [Names -> Contents \cup {Nothing}]
  BY DEF FilesInv, FilesTypeOK, SlotOK, ServedOK

(* The requests after a step of one of them.                               *)
LEMMA OthersStay ==
    ASSUME FilesInv, NEW s \in Uploaders, NEW q \in FileRequest, FileGo(s, q)
    PROVE  /\ \A t \in Uploaders : fileReq'[t] = IF t = s THEN q ELSE fileReq[t]
           /\ fileReq' \in [Uploaders -> FileRequest] /\ fileMix' = fileMix
  BY DEF FileGo, FilesInv, FilesTypeOK

-----------------------------------------------------------------------------
(* Steps that leave the disk and the collection alone                      *)

LEMMA StepInv ==
    ASSUME FilesInv, NEW s \in Uploaders, NEW q \in FileRequest, SlotOK(q), FileStep(s, q),
           fileReq[s].step # "forget",
           q.op = "upload" => fileReq[s].op = "upload" /\ q.name = fileReq[s].name,
           fileReq[s].op = "upload" /\ q.op # "upload" =>
              asset[fileReq[s].name] # "absent" \/ copy[fileReq[s].name] = "none"
    PROVE  FilesInv'
<1>1. /\ \A t \in Uploaders : fileReq'[t] = IF t = s THEN q ELSE fileReq[t]
      /\ fileReq' \in [Uploaders -> FileRequest] /\ fileMix' = fileMix
      /\ UNCHANGED <<copy, holds, asset, left, cut>>
  BY OthersStay DEF FileStep
<1>2. FilesTypeOK'
  BY <1>1 DEF FilesInv, FilesTypeOK
<1>3. NamesApart' /\ DeletedGone'
  BY <1>1 DEF FilesInv, NamesApart, DeletedGone
<1>4. \A t \in Uploaders : SlotOK(fileReq[t])'
  BY <1>1 DEF FilesInv, SlotOK, ServedOK
<1>5. BytesMatchAssets'
  <2>1. Stored' = Stored
    BY <1>1 DEF Stored
  <2>2. ASSUME NEW n \in Stored
        PROVE  \/ copy'[n] = "whole" \/ n \in cut'
               \/ \E t \in Uploaders : fileReq'[t].step = "forget" /\ fileReq'[t].name = n
    BY <1>1 DEF FilesInv, BytesMatchAssets
  <2>3. ASSUME NEW n \in Names \ Stored, copy'[n] # "none"
        PROVE  n \in left' \/ Uploading(n)'
    <3>1. n \in left \/ \E t \in Uploaders : fileReq[t].op = "upload" /\ fileReq[t].name = n
      BY <1>1, <2>3 DEF FilesInv, BytesMatchAssets, Uploading
    <3>2. CASE fileReq[s].op = "upload" /\ fileReq[s].name = n
      <4>1. asset[n] # "stored" /\ asset[n] # "deleted"
        BY <1>1, <2>3 DEF Stored, FilesInv, DeletedGone
      <4>2. asset[n] = "absent"
        BY <4>1 DEF FilesInv, FilesTypeOK
      <4>3. q.op = "upload" /\ q.name = n
        BY <1>1, <2>3, <3>2, <4>2
      <4> QED BY <1>1, <4>3 DEF Uploading
    <3>3. CASE ~(fileReq[s].op = "upload" /\ fileReq[s].name = n)
      BY <1>1, <3>1, <3>3 DEF Uploading
    <3> QED BY <3>2, <3>3
  <2> QED BY <1>1, <2>1, <2>2, <2>3 DEF BytesMatchAssets
<1> QED BY <1>2, <1>3, <1>4, <1>5 DEF FilesInv

(* An upload that goes on before its create, with the same file.           *)
LEMMA UploadGoesOn ==
    ASSUME FilesInv, NEW s \in Uploaders, NEW st \in {"discard", "finish"},
           fileReq[s].step \in BeforeCreate, FileStep(s, [fileReq[s] EXCEPT !.step = st])
    PROVE  FilesInv'
<1> DEFINE q == [fileReq[s] EXCEPT !.step = st]
<1>1. q \in FileRequest /\ q.op = "upload" /\ q.name = fileReq[s].name
  BY Known DEF FileRequest, FileSteps, SlotOK, ServedOK
<1>2. SlotOK(q)
  BY Known DEF FileRequest, SlotOK, ServedOK, BeforeCreate
<1>3. fileReq[s].op = "upload" /\ fileReq[s].step # "forget"
  BY Known DEF ServedOK, BeforeCreate
<1> HIDE DEF q
<1> QED BY <1>1, <1>2, <1>3, StepInv DEF q

LEMMA FindCopyInv == ASSUME FilesInv, NEW s \in Uploaders, FindCopy(s) PROVE FilesInv'
<1>1. fileReq[s].step = "register" /\ fileReq[s].op = "upload"
  BY Known DEF FindCopy, ServedOK, BeforeCreate
<1>2. CASE FileStep(s, [fileReq[s] EXCEPT !.step = "create"])
  <2> DEFINE q == [fileReq[s] EXCEPT !.step = "create"]
  <2>1. q \in FileRequest /\ q.op = "upload" /\ q.name = fileReq[s].name
    BY <1>1, Known DEF FileRequest, FileSteps
  <2>2. SlotOK(q)
    BY <1>1, Known DEF FileRequest, SlotOK, ServedOK, BeforeCreate
  <2> HIDE DEF q
  <2> QED BY <1>1, <1>2, <2>1, <2>2, StepInv DEF q
<1>3. ASSUME NEW n \in Names, FileStep(s, [fileReq[s] EXCEPT !.step = "unlink", !.found = n])
      PROVE  FilesInv'
  <2> DEFINE q == [fileReq[s] EXCEPT !.step = "unlink", !.found = n]
  <2>1. q \in FileRequest /\ q.op = "upload" /\ q.name = fileReq[s].name
    BY <1>1, Known DEF FileRequest, FileSteps
  <2>2. SlotOK(q)
    BY <1>1, Known DEF FileRequest, SlotOK, ServedOK, BeforeCreate
  <2> HIDE DEF q
  <2> QED BY <1>1, <1>3, <2>1, <2>2, StepInv DEF q
<1> QED BY <1>2, <1>3 DEF FindCopy, Stored

(* A request that is answered: an upload after its create or its unlink.   *)
LEMMA OverInv ==
    ASSUME FilesInv, NEW s \in Uploaders,
           fileReq[s].step \in {"load", "stat", "open", "answer"}, FileStep(s, NoFileRequest)
    PROVE  FilesInv'
<1>1. fileReq[s].op = "upload" =>
         asset[fileReq[s].name] # "absent" \/ copy[fileReq[s].name] = "none"
  BY Known DEF SlotOK, ServedOK, BeforeCreate
<1> QED BY <1>1, NoRequestOK, StepInv

LEMMA StartOnAssetInv == ASSUME FilesInv, NEW s \in Uploaders, StartOnAsset(s) PROVE FilesInv'
<1>0. PICK op \in {"download", "delete"} :
         /\ FileStart(s, op)
         /\ \E n \in Names :
               /\ asset[n] # "absent"
               /\ FileStep(s, [NoFileRequest EXCEPT !.op = op, !.step = "load", !.name = n])
  BY Zenon DEF StartOnAsset
<1>1. PICK n \in Names :
         /\ asset[n] # "absent" /\ fileReq[s] = NoFileRequest
         /\ FileStep(s, [NoFileRequest EXCEPT !.op = op, !.step = "load", !.name = n])
  <2>1. fileReq[s] = NoFileRequest
    BY <1>0 DEF FileStart
  <2> QED BY <1>0, <2>1, Zenon
<1> DEFINE q == [NoFileRequest EXCEPT !.op = op, !.step = "load", !.name = n]
<1>2. q \in FileRequest /\ q.op = op /\ q.step = "load" /\ q.name = n
  BY NoRequestOK DEF FileRequest, FileSteps
<1>3. SlotOK(q) /\ q.op # "upload"
  <2> HIDE DEF q
  <2> QED BY <1>1, <1>2 DEF SlotOK, ServedOK, BeforeCreate
<1>4. fileReq[s].step # "forget" /\ fileReq[s].op # "upload"
  BY <1>1, NoRequestOK
<1> HIDE DEF q
<1> QED BY <1>1, <1>2, <1>3, <1>4, StepInv DEF q

LEMMA LoadAssetInv == ASSUME FilesInv, NEW s \in Uploaders, LoadAsset(s) PROVE FilesInv'
<1> DEFINE q == [fileReq[s] EXCEPT !.step = IF fileReq[s].op = "delete" THEN "remove" ELSE "stat"]
<1>1. fileReq[s].step = "load" /\ fileReq[s].op \in {"download", "delete"}
  BY Known DEF LoadAsset, ServedOK
<1>2. FileStep(s, NoFileRequest) \/ FileStep(s, q)
  BY DEF LoadAsset
<1>3. q \in FileRequest /\ q.op # "upload"
  BY <1>1, Known DEF FileRequest, FileSteps
<1>4. SlotOK(q)
  BY <1>1, Known DEF FileRequest, SlotOK, ServedOK, BeforeCreate
<1> HIDE DEF q
<1> QED BY <1>1, <1>2, <1>3, <1>4, StepInv, OverInv

LEMMA StatInv == ASSUME FilesInv, NEW s \in Uploaders, Stat(s) PROVE FilesInv'
<1> DEFINE q == [fileReq[s] EXCEPT !.step = "open"]
<1>1. fileReq[s].step = "stat" /\ fileReq[s].op = "download"
  BY Known DEF Stat, ServedOK
<1>2. FileStep(s, NoFileRequest) \/ FileStep(s, q)
  BY DEF Stat
<1>3. q \in FileRequest /\ q.op # "upload"
  BY <1>1, Known DEF FileRequest, FileSteps
<1>4. SlotOK(q)
  BY <1>1, Known DEF FileRequest, SlotOK, ServedOK, BeforeCreate
<1> HIDE DEF q
<1> QED BY <1>1, <1>2, <1>3, <1>4, StepInv, OverInv

RangeType == [start : Nat, end : Nat \cup {Nothing}] \cup {Nothing}

LEMMA ParsedRange ==
    ASSUME NEW h \in [first : Int \cup {Nothing}, last : Int \cup {Nothing}]
    PROVE  ParseRange(h) \in RangeType
<1> DEFINE start == IF h.first = Nothing THEN 0 ELSE h.first
<1>1. start \in Int /\ (h.last \in Int \/ h.last = Nothing)
  OBVIOUS
<1>2. CASE start < 0 \/ (h.last # Nothing /\ h.last < start)
  BY <1>2 DEF ParseRange, RangeType
<1>3. CASE ~(start < 0 \/ (h.last # Nothing /\ h.last < start))
  <2>1. start \in Nat /\ h.last \in Nat \cup {Nothing}
    BY <1>1, <1>3
  <2>2. ParseRange(h) = [start |-> start, end |-> h.last]
    BY <1>3 DEF ParseRange
  <2> QED BY <2>1, <2>2 DEF RangeType
<1> QED BY <1>2, <1>3

LEMMA SliceOfInts ==
    ASSUME NEW range \in RangeType, NEW size \in Nat
    PROVE  Slice(range, size).from \in Int /\ Slice(range, size).to \in Int
<1>1. CASE range = Nothing
  BY <1>1 DEF Slice
<1>2. CASE range # Nothing
  <2>1. range.start \in Nat /\ (range.end = Nothing \/ range.end \in Nat)
    BY <1>2 DEF RangeType
  <2> QED BY <1>2, <2>1 DEF Slice, Least
<1> QED BY <1>1, <1>2

LEMMA OpenInv == ASSUME FilesInv, NEW s \in Uploaders, Open(s) PROVE FilesInv'
<1> DEFINE size == SizeOf[holds[fileReq[s].name]]
<1>1. fileReq[s].step = "open" /\ fileReq[s].op = "download"
  BY Known DEF Open, ServedOK
<1>2. size \in Nat
  <2>1. fileReq[s].name \in Names /\ asset[fileReq[s].name] # "absent"
    BY <1>1, Known DEF SlotOK
  <2>2. holds[fileReq[s].name] \in Contents
    BY <2>1 DEF FilesInv, FilesTypeOK
  <2> QED BY <2>2, Outside
<1>3. PICK range \in {ParseRange(h) : h \in fileMix.headers} \cup {Nothing} :
         FileStep(s, IF Slice(range, size).from < 0 THEN NoFileRequest
                     ELSE [fileReq[s] EXCEPT !.step = "answer", !.range = range,
                                             !.from = Slice(range, size).from,
                                             !.to = Slice(range, size).to])
  BY DEF Open
<1>4. range \in RangeType
  <2>1. fileMix.headers \subseteq [first : Int \cup {Nothing}, last : Int \cup {Nothing}]
    BY FilesAssumption DEF FilesInv, FilesTypeOK
  <2>2. CASE range = Nothing
    BY <2>2 DEF RangeType
  <2>3. CASE range # Nothing
    <3>1. PICK h \in fileMix.headers : range = ParseRange(h)
      BY <1>3, <2>3
    <3> QED BY <2>1, <3>1, ParsedRange
  <2> QED BY <2>2, <2>3
<1>5. Slice(range, size).from \in Int /\ Slice(range, size).to \in Int
  BY <1>2, <1>4, SliceOfInts
<1> DEFINE from == Slice(range, size).from
           to == Slice(range, size).to
           q == [fileReq[s] EXCEPT !.step = "answer", !.range = range, !.from = from, !.to = to]
<1>6. FileStep(s, NoFileRequest) \/ FileStep(s, q)
  BY <1>3
<1> HIDE DEF from, to, size
<1>7. from \in Int /\ to \in Int
  BY <1>5 DEF from, to
<1>8. q \in FileRequest /\ q.op # "upload"
  BY <1>1, <1>4, <1>7, Known, ZenonT(60) DEF FileRequest, FileSteps, RangeType
<1>9. SlotOK(q)
  BY <1>1, Known DEF FileRequest, SlotOK, ServedOK, BeforeCreate
<1> HIDE DEF q
<1> QED BY <1>1, <1>6, <1>8, <1>9, StepInv, OverInv

-----------------------------------------------------------------------------
(* Steps on the disk and the collection                                    *)

(* An upload that ends without an asset: its file is discarded, or a fault *)
(* leaves it.                                                              *)
LEMMA UploadEnds ==
    ASSUME FilesInv, NEW s \in Uploaders, fileReq[s].step \in BeforeCreate,
           FileGo(s, NoFileRequest), UNCHANGED <<holds, asset, cut>>,
           \/ copy' = copy /\ left' = left \cup {fileReq[s].name}
           \/ copy' = [copy EXCEPT ![fileReq[s].name] = "none"] /\ left' = left
    PROVE  FilesInv'
<1> DEFINE n == fileReq[s].name
<1>1. /\ \A t \in Uploaders : fileReq'[t] = IF t = s THEN NoFileRequest ELSE fileReq[t]
      /\ fileReq' \in [Uploaders -> FileRequest] /\ fileMix' = fileMix
  BY NoRequestOK, OthersStay
<1>2. n \in Names /\ fileReq[s].op = "upload" /\ asset[n] = "absent"
  BY Known DEF SlotOK, ServedOK
<1> HIDE DEF n
<1>3. /\ \A m \in Names : m # n => copy'[m] = copy[m]
      /\ copy' \in [Names -> {"none", "partial", "whole"}]
      /\ copy'[n] = "none" \/ (copy'[n] = copy[n] /\ n \in left')
      /\ left \subseteq left' /\ left' \subseteq left \cup {n}
  BY <1>2, Known DEF n
<1>4. FilesTypeOK'
  BY <1>1, <1>2, <1>3 DEF FilesInv, FilesTypeOK
<1>5. NamesApart'
  BY <1>1, NoRequestOK DEF FilesInv, NamesApart
<1>6. DeletedGone'
  BY <1>2, <1>3 DEF FilesInv, DeletedGone
<1>7. ASSUME NEW t \in Uploaders PROVE SlotOK(fileReq[t])'
  <2>1. CASE t = s
    BY <1>1, <2>1, NoRequestOK DEF SlotOK, ServedOK, BeforeCreate
  <2>2. CASE t # s
    <3>1. SlotOK(fileReq[t]) /\ fileReq'[t] = fileReq[t]
      BY <1>1, <2>2 DEF FilesInv
    <3>2. fileReq[t].op = "none" \/ fileReq[t].name # n
      BY <1>2, <2>2, <3>1, Known DEF FilesInv, NamesApart, SlotOK, FileRequest, n
    <3>3. fileReq[t].op # "none" => copy'[fileReq[t].name] = copy[fileReq[t].name]
      BY <1>3, <3>2, Known
    <3> QED BY <3>1, <3>3 DEF SlotOK, ServedOK, BeforeCreate
  <2> QED BY <2>1, <2>2
<1>8. BytesMatchAssets'
  <2>1. Stored' = Stored /\ n \notin Stored
    BY <1>2 DEF Stored
  <2>2. \A m \in Stored : \/ copy'[m] = "whole" \/ m \in cut'
                          \/ \E t \in Uploaders : fileReq'[t].step = "forget" /\ fileReq'[t].name = m
    <3>1. fileReq[s].step # "forget"
      BY DEF BeforeCreate
    <3> QED BY <1>1, <1>3, <2>1, <3>1 DEF FilesInv, BytesMatchAssets, Stored
  <2>3. \A m \in Names \ Stored : copy'[m] # "none" => m \in left' \/ Uploading(m)'
    BY <1>1, <1>3, <2>1 DEF FilesInv, BytesMatchAssets, Uploading, n
  <2> QED BY <2>1, <2>2, <2>3 DEF BytesMatchAssets
<1> QED BY <1>4, <1>5, <1>6, <1>7, <1>8 DEF FilesInv

LEMMA ReceiveWholeInv == ASSUME FilesInv, NEW s \in Uploaders, ReceiveWhole(s) PROVE FilesInv'
<1> DEFINE n == fileReq[s].name
           q == [fileReq[s] EXCEPT !.step = "register"]
<1>1. fileReq[s].step = "receive" /\ copy' = [copy EXCEPT ![n] = "whole"] /\ FileGo(s, q)
      /\ UNCHANGED <<holds, asset, left, cut>>
  BY DEF ReceiveWhole
<1>2. n \in Names /\ fileReq[s].op = "upload" /\ asset[n] = "absent" /\ holds[n] # Nothing
  BY <1>1, Known DEF SlotOK, ServedOK, BeforeCreate
<1>3. q \in FileRequest /\ q.op = "upload" /\ q.name = n /\ q.step = "register"
  BY <1>1, <1>2, Known DEF FileRequest, FileSteps
<1> HIDE DEF n, q
<1>4. /\ \A t \in Uploaders : fileReq'[t] = IF t = s THEN q ELSE fileReq[t]
      /\ fileReq' \in [Uploaders -> FileRequest] /\ fileMix' = fileMix
  BY <1>1, <1>3, OthersStay
<1>5. /\ \A m \in Names : m # n => copy'[m] = copy[m]
      /\ copy' \in [Names -> {"none", "partial", "whole"}] /\ copy'[n] = "whole"
  BY <1>1, <1>2, Known
<1>6. FilesTypeOK'
  BY <1>1, <1>2, <1>4, <1>5 DEF FilesInv, FilesTypeOK
<1>7. NamesApart'
  BY <1>2, <1>3, <1>4 DEF FilesInv, NamesApart, n
<1>8. DeletedGone'
  BY <1>1, <1>2, <1>5 DEF FilesInv, DeletedGone
<1>9. ASSUME NEW t \in Uploaders PROVE SlotOK(fileReq[t])'
  <2>1. CASE t = s
    BY <1>1, <1>2, <1>3, <1>4, <1>5, <2>1 DEF SlotOK, ServedOK, BeforeCreate
  <2>2. CASE t # s
    <3>1. SlotOK(fileReq[t]) /\ fileReq'[t] = fileReq[t]
      BY <1>4, <2>2 DEF FilesInv
    <3>2. fileReq[t].op = "none" \/ fileReq[t].name # n
      BY <1>2, <2>2, <3>1, Known DEF FilesInv, NamesApart, SlotOK, FileRequest, n
    <3>3. fileReq[t].op # "none" => copy'[fileReq[t].name] = copy[fileReq[t].name]
      BY <1>5, <3>2, Known
    <3> QED BY <1>1, <3>1, <3>3 DEF SlotOK, ServedOK, BeforeCreate
  <2> QED BY <2>1, <2>2
<1>10. BytesMatchAssets'
  <2>1. Stored' = Stored /\ n \notin Stored
    BY <1>1, <1>2 DEF Stored
  <2>2. \A m \in Stored : \/ copy'[m] = "whole" \/ m \in cut'
                          \/ \E t \in Uploaders : fileReq'[t].step = "forget" /\ fileReq'[t].name = m
    <3>1. fileReq[s].step # "forget"
      BY <1>1
    <3> QED BY <1>1, <1>4, <1>5, <2>1, <3>1 DEF FilesInv, BytesMatchAssets, Stored
  <2>3. \A m \in Names \ Stored : copy'[m] # "none" => m \in left' \/ Uploading(m)'
    BY <1>1, <1>3, <1>4, <1>5, <2>1 DEF FilesInv, BytesMatchAssets, Uploading, n
  <2> QED BY <2>1, <2>2, <2>3 DEF BytesMatchAssets
<1> QED BY <1>6, <1>7, <1>8, <1>9, <1>10 DEF FilesInv

(* The unlink of a duplicate, which has no asset, and of a file to delete. *)
LEMMA UnlinkInv ==
    ASSUME FilesInv, NEW s \in Uploaders, DropDuplicate(s) \/ RemoveBytes(s)
    PROVE  FilesInv'
<1> DEFINE n == fileReq[s].name
           st == IF fileReq[s].step = "unlink" THEN "answer" ELSE "forget"
           q == [fileReq[s] EXCEPT !.step = st]
<1>1. /\ fileReq[s].step \in {"unlink", "remove"} /\ copy' = [copy EXCEPT ![n] = "none"]
      /\ FileGo(s, q) /\ UNCHANGED <<holds, asset, left, cut>>
  <2>1. CASE DropDuplicate(s)
    <3>1. fileReq[s].step = "unlink" /\ st = "answer"
      BY <2>1 DEF DropDuplicate
    <3> HIDE DEF st
    <3> QED BY <2>1, <3>1 DEF DropDuplicate
  <2>2. CASE RemoveBytes(s)
    <3>1. fileReq[s].step = "remove" /\ st = "forget"
      BY <2>2 DEF RemoveBytes
    <3> HIDE DEF st
    <3> QED BY <2>2, <3>1 DEF RemoveBytes
  <2> QED BY <2>1, <2>2
<1>2. /\ n \in Names
      /\ fileReq[s].step = "unlink" => fileReq[s].op = "upload" /\ asset[n] = "absent" /\ holds[n] # Nothing
      /\ fileReq[s].step = "remove" => fileReq[s].op = "delete" /\ asset[n] # "absent"
  BY <1>1, Known DEF SlotOK, ServedOK, BeforeCreate
<1>3. q \in FileRequest /\ q.op = fileReq[s].op /\ q.name = n /\ q.step = st
  BY <1>1, <1>2, Known DEF FileRequest, FileSteps
<1> HIDE DEF n, q
<1>4. /\ \A t \in Uploaders : fileReq'[t] = IF t = s THEN q ELSE fileReq[t]
      /\ fileReq' \in [Uploaders -> FileRequest] /\ fileMix' = fileMix
  BY <1>1, <1>3, OthersStay
<1>5. /\ \A m \in Names : m # n => copy'[m] = copy[m]
      /\ copy' \in [Names -> {"none", "partial", "whole"}] /\ copy'[n] = "none"
  BY <1>1, <1>2, Known
<1>6. FilesTypeOK'
  BY <1>1, <1>2, <1>4, <1>5 DEF FilesInv, FilesTypeOK
<1>7. NamesApart'
  BY <1>2, <1>3, <1>4 DEF FilesInv, NamesApart, n
<1>8. DeletedGone'
  BY <1>1, <1>5 DEF FilesInv, DeletedGone
<1>9. ASSUME NEW t \in Uploaders PROVE SlotOK(fileReq[t])'
  <2>1. CASE t = s
    BY <1>1, <1>2, <1>3, <1>4, <1>5, <2>1 DEF SlotOK, ServedOK, BeforeCreate
  <2>2. CASE t # s
    <3>1. SlotOK(fileReq[t]) /\ fileReq'[t] = fileReq[t]
      BY <1>4, <2>2 DEF FilesInv
    <3>2. fileReq[t].op # "none" =>
             copy'[fileReq[t].name] = copy[fileReq[t].name] \/ copy'[fileReq[t].name] = "none"
      BY <1>5, Known
    <3>3. fileReq[t].step \in {"register", "create"} => fileReq[t].name # n
      BY <1>1, <1>2, <2>2, <3>1, Known DEF FilesInv, NamesApart, SlotOK, ServedOK, BeforeCreate, n
    <3>4. fileReq[t].step \in {"register", "create"} =>
             copy'[fileReq[t].name] = copy[fileReq[t].name]
      BY <1>5, <3>1, <3>3, Known DEF SlotOK, ServedOK, BeforeCreate
    <3> QED BY <1>1, <3>1, <3>2, <3>4 DEF SlotOK, ServedOK, BeforeCreate
  <2> QED BY <2>1, <2>2
<1>10. BytesMatchAssets'
  <2>1. Stored' = Stored
    BY <1>1 DEF Stored
  <2>2. ASSUME NEW m \in Stored
        PROVE  \/ copy'[m] = "whole" \/ m \in cut'
               \/ \E t \in Uploaders : fileReq'[t].step = "forget" /\ fileReq'[t].name = m
    <3>1. CASE m = n
      <4>1. fileReq[s].step = "remove"
        BY <1>1, <1>2, <3>1 DEF Stored
      <4> QED BY <1>3, <1>4, <3>1, <4>1
    <3>2. CASE m # n
      <4>1. fileReq[s].step # "forget" /\ m \in Names
        BY <1>1 DEF Stored
      <4> QED BY <1>1, <1>4, <1>5, <3>2, <4>1 DEF FilesInv, BytesMatchAssets
    <3> QED BY <3>1, <3>2
  <2>3. \A m \in Names \ Stored : copy'[m] # "none" => m \in left' \/ Uploading(m)'
    BY <1>1, <1>3, <1>4, <1>5 DEF FilesInv, BytesMatchAssets, Uploading, n
  <2> QED BY <2>1, <2>2, <2>3 DEF BytesMatchAssets
<1> QED BY <1>6, <1>7, <1>8, <1>9, <1>10 DEF FilesInv

(* The create of an upload and the deleteOne of a delete.                  *)
LEMMA CollectionInv ==
    ASSUME FilesInv, NEW s \in Uploaders, CreateAsset(s) \/ DeleteAsset(s)
    PROVE  FilesInv'
<1> DEFINE n == fileReq[s].name
           made == [fileReq[s] EXCEPT !.step = "answer", !.found = n]
<1>1. PICK q \in {made, NoFileRequest}, st \in {"stored", "deleted"} :
         /\ asset' = [asset EXCEPT ![n] = st] /\ FileGo(s, q)
         /\ UNCHANGED <<copy, holds, left, cut>>
         /\ st = "stored" => fileReq[s].step = "create" /\ q = made
         /\ st = "deleted" => fileReq[s].step = "forget" /\ q = NoFileRequest
  BY DEF CreateAsset, DeleteAsset
<1>2. /\ n \in Names
      /\ st = "stored" => fileReq[s].op = "upload" /\ asset[n] = "absent" /\ holds[n] # Nothing
                          /\ copy[n] = "whole"
      /\ st = "deleted" => fileReq[s].op = "delete" /\ asset[n] # "absent" /\ copy[n] = "none"
  BY <1>1, Known DEF SlotOK, ServedOK, BeforeCreate
<1>3. /\ q \in FileRequest
      /\ st = "stored" => q.op = "upload" /\ q.name = n /\ q.step = "answer"
  BY <1>1, <1>2, Known, NoRequestOK DEF FileRequest, FileSteps
<1> HIDE DEF n, made
<1>4. /\ \A t \in Uploaders : fileReq'[t] = IF t = s THEN q ELSE fileReq[t]
      /\ fileReq' \in [Uploaders -> FileRequest] /\ fileMix' = fileMix
  BY <1>1, <1>3, OthersStay
<1>5. /\ \A m \in Names : m # n => asset'[m] = asset[m]
      /\ asset' \in [Names -> {"absent", "stored", "deleted"}] /\ asset'[n] = st
  BY <1>1, <1>2, Known
<1>6. FilesTypeOK'
  <2>1. holds[n] # Nothing
    BY <1>2 DEF FilesInv, FilesTypeOK
  <2> QED BY <1>1, <1>4, <1>5, <2>1 DEF FilesInv, FilesTypeOK
<1>7. NamesApart'
  <2>1. st = "deleted" => q.op = "none"
    BY <1>1, NoRequestOK
  <2> QED BY <1>1, <1>2, <1>3, <1>4, <2>1 DEF FilesInv, NamesApart, n
<1>8. DeletedGone'
  BY <1>1, <1>2, <1>5 DEF FilesInv, DeletedGone
<1>9. ASSUME NEW t \in Uploaders PROVE SlotOK(fileReq[t])'
  <2>1. CASE t = s /\ st = "stored"
    BY <1>1, <1>2, <1>3, <1>4, <1>5, <2>1 DEF SlotOK, ServedOK, BeforeCreate
  <2>2. CASE t = s /\ st = "deleted"
    BY <1>1, <1>4, <2>2, NoRequestOK DEF SlotOK, ServedOK, BeforeCreate
  <2>3. CASE t # s
    <3>1. SlotOK(fileReq[t]) /\ fileReq'[t] = fileReq[t]
      BY <1>4, <2>3 DEF FilesInv
    <3>2. fileReq[t].step \in BeforeCreate => fileReq[t].name # n
      BY <1>2, <2>3, <3>1, Known DEF FilesInv, NamesApart, SlotOK, ServedOK, n
    <3>3. fileReq[t].op # "none" =>
             \/ fileReq[t].name # n /\ asset'[fileReq[t].name] = asset[fileReq[t].name]
             \/ fileReq[t].step \notin BeforeCreate /\ asset'[fileReq[t].name] # "absent"
      BY <1>5, <3>2, Known
    <3> QED BY <1>1, <3>1, <3>3 DEF SlotOK, ServedOK, BeforeCreate
  <2> QED BY <2>1, <2>2, <2>3
<1>10. BytesMatchAssets'
  <2>1. \A m \in Names : m # n => (m \in Stored' <=> m \in Stored)
    BY <1>5 DEF Stored
  <2>2. ASSUME NEW m \in Stored'
        PROVE  \/ copy'[m] = "whole" \/ m \in cut'
               \/ \E t \in Uploaders : fileReq'[t].step = "forget" /\ fileReq'[t].name = m
    <3>1. CASE m = n
      BY <1>1, <1>2, <1>5, <3>1 DEF Stored
    <3>2. CASE m # n
      <4>1. m \in Stored
        BY <2>1, <3>2 DEF Stored
      <4>2. fileReq[s].step = "forget" => fileReq[s].name # m
        BY <3>2 DEF n
      <4> QED BY <1>1, <1>4, <4>1, <4>2 DEF FilesInv, BytesMatchAssets
    <3> QED BY <3>1, <3>2
  <2>3. ASSUME NEW m \in Names \ Stored', copy'[m] # "none"
        PROVE  m \in left' \/ Uploading(m)'
    <3>1. m # n
      BY <1>1, <1>2, <1>5, <2>3 DEF Stored
    <3>2. m \in left \/ \E t \in Uploaders : fileReq[t].op = "upload" /\ fileReq[t].name = m
      BY <1>1, <2>1, <2>3, <3>1 DEF FilesInv, BytesMatchAssets, Uploading
    <3> QED BY <1>1, <1>4, <3>1, <3>2 DEF Uploading, n
  <2> QED BY <2>2, <2>3 DEF BytesMatchAssets
<1> QED BY <1>6, <1>7, <1>8, <1>9, <1>10 DEF FilesInv

LEMMA StartUploadInv == ASSUME FilesInv, NEW s \in Uploaders, StartUpload(s) PROVE FilesInv'
<1>1. PICK n \in Names, c \in Contents :
         /\ holds[n] = Nothing /\ fileReq[s] = NoFileRequest
         /\ holds' = [holds EXCEPT ![n] = c]
         /\ copy' = [copy EXCEPT ![n] = "partial"]
         /\ FileGo(s, [NoFileRequest EXCEPT !.op = "upload", !.step = "receive", !.name = n])
         /\ UNCHANGED <<asset, left, cut>>
  <2>1. fileMix.names \subseteq Names /\ Names \subseteq Nat
    BY FilesAssumption DEF FilesInv, FilesTypeOK
  <2>2. fileReq[s] = NoFileRequest /\ UNCHANGED <<asset, left, cut>>
    BY DEF StartUpload, FileStart
  <2>3. PICK n \in fileMix.names, c \in Contents :
           /\ \A m \in Names : holds[m] = Nothing <=> m >= n
           /\ holds' = [holds EXCEPT ![n] = c]
           /\ copy' = [copy EXCEPT ![n] = "partial"]
           /\ FileGo(s, [NoFileRequest EXCEPT !.op = "upload", !.step = "receive", !.name = n])
    BY Zenon DEF StartUpload
  <2>4. n \in Names /\ holds[n] = Nothing
    BY <2>1, <2>3
  <2> QED BY <2>2, <2>3, <2>4, Zenon
<1> DEFINE q == [NoFileRequest EXCEPT !.op = "upload", !.step = "receive", !.name = n]
<1>2. q \in FileRequest /\ q.op = "upload" /\ q.step = "receive" /\ q.name = n
  BY NoRequestOK DEF FileRequest, FileSteps
<1>3. copy[n] = "none" /\ asset[n] = "absent" /\ c # Nothing
  BY <1>1, Outside DEF FilesInv, FilesTypeOK
<1>0. FileGo(s, q)
  BY <1>1
<1> HIDE DEF q
<1>4. /\ \A t \in Uploaders : fileReq'[t] = IF t = s THEN q ELSE fileReq[t]
      /\ fileReq' \in [Uploaders -> FileRequest] /\ fileMix' = fileMix
  BY <1>0, <1>2, OthersStay
<1>5. /\ \A m \in Names : m # n => copy'[m] = copy[m] /\ holds'[m] = holds[m]
      /\ copy' \in [Names -> {"none", "partial", "whole"}] /\ copy'[n] = "partial"
      /\ holds' \in [Names -> Contents \cup {Nothing}] /\ holds'[n] = c
  BY <1>1, Known
<1>6. \A t \in Uploaders : fileReq[t].op # "none" => fileReq[t].name # n
  <2> SUFFICES ASSUME NEW t \in Uploaders, fileReq[t].op # "none", fileReq[t].name = n PROVE FALSE
    OBVIOUS
  <2>1. fileReq[t].op \in {"upload", "download", "delete"} /\ SlotOK(fileReq[t])
    BY Known DEF FileRequest
  <2> QED BY <1>1, <1>3, <2>1 DEF SlotOK
<1>7. FilesTypeOK'
  BY <1>1, <1>3, <1>4, <1>5 DEF FilesInv, FilesTypeOK
<1>8. NamesApart'
  BY <1>2, <1>4, <1>6 DEF FilesInv, NamesApart
<1>9. DeletedGone'
  BY <1>1, <1>3, <1>5 DEF FilesInv, DeletedGone
<1>10. ASSUME NEW t \in Uploaders PROVE SlotOK(fileReq[t])'
  <2>1. CASE t = s
    BY <1>1, <1>2, <1>3, <1>4, <1>5, <2>1 DEF SlotOK, ServedOK, BeforeCreate
  <2>2. CASE t # s
    <3>1. SlotOK(fileReq[t]) /\ fileReq'[t] = fileReq[t]
      BY <1>4, <2>2 DEF FilesInv
    <3>2. fileReq[t].op # "none" => /\ copy'[fileReq[t].name] = copy[fileReq[t].name]
                                    /\ holds'[fileReq[t].name] = holds[fileReq[t].name]
      BY <1>5, <1>6, Known
    <3> QED BY <1>1, <3>1, <3>2 DEF SlotOK, ServedOK, BeforeCreate
  <2> QED BY <2>1, <2>2
<1>11. BytesMatchAssets'
  <2>1. Stored' = Stored /\ n \notin Stored
    BY <1>1, <1>3 DEF Stored
  <2>2. \A m \in Stored : \/ copy'[m] = "whole" \/ m \in cut'
                          \/ \E t \in Uploaders : fileReq'[t].step = "forget" /\ fileReq'[t].name = m
    <3>1. fileReq[s].step # "forget"
      BY <1>1, NoRequestOK
    <3> QED BY <1>1, <1>4, <1>5, <2>1, <3>1 DEF FilesInv, BytesMatchAssets, Stored
  <2>3. \A m \in Names \ Stored : copy'[m] # "none" => m \in left' \/ Uploading(m)'
    <3>1. fileReq[s].op # "upload"
      BY <1>1, NoRequestOK
    <3> QED BY <1>1, <1>2, <1>4, <1>5, <2>1, <3>1 DEF FilesInv, BytesMatchAssets, Uploading
  <2> QED BY <2>1, <2>2, <2>3 DEF BytesMatchAssets
<1> QED BY <1>7, <1>8, <1>9, <1>10, <1>11 DEF FilesInv

(* When the process stops, what its requests leave behind is recorded.     *)
LEMMA StopInv == ASSUME FilesInv, StopServing PROVE FilesInv'
<1>1. /\ \A t \in Uploaders : fileReq'[t] = NoFileRequest
      /\ fileReq' \in [Uploaders -> FileRequest]
      /\ UNCHANGED <<copy, holds, asset, fileMix>>
      /\ left \subseteq left' /\ cut \subseteq cut'
      /\ left' \subseteq Names /\ cut' \subseteq Names
  BY NoRequestOK DEF StopServing, FilesInv, FilesTypeOK, Lost
<1>2. FilesTypeOK'
  BY <1>1 DEF FilesInv, FilesTypeOK
<1>3. NamesApart' /\ DeletedGone'
  BY <1>1, NoRequestOK DEF FilesInv, NamesApart, DeletedGone
<1>4. \A t \in Uploaders : SlotOK(fileReq[t])'
  BY <1>1, NoRequestOK DEF SlotOK, ServedOK, BeforeCreate
<1>5. Stored' = Stored
  BY <1>1 DEF Stored
<1>6. ASSUME NEW n \in Stored PROVE copy'[n] = "whole" \/ n \in cut'
  <2>1. \/ copy[n] = "whole" \/ n \in cut
        \/ \E t \in Uploaders : fileReq[t].step = "forget" /\ fileReq[t].name = n
    BY DEF FilesInv, BytesMatchAssets
  <2>2. ASSUME NEW t \in Uploaders, fileReq[t].step = "forget", fileReq[t].name = n
        PROVE  n \in cut'
    <3>1. fileReq[t].op = "delete" /\ copy[n] = "none"
      BY <2>2, Known DEF SlotOK, ServedOK
    <3> QED BY <2>2, <3>1 DEF StopServing, Lost, Stored
  <2> QED BY <1>1, <2>1, <2>2
<1>7. ASSUME NEW n \in Names \ Stored, copy'[n] # "none" PROVE n \in left'
  <2>1. asset[n] = "absent"
    BY <1>1, <1>7 DEF FilesInv, FilesTypeOK, DeletedGone, Stored
  <2>2. n \in left \/ \E t \in Uploaders : fileReq[t].op = "upload" /\ fileReq[t].name = n
    BY <1>1, <1>7 DEF FilesInv, BytesMatchAssets, Uploading
  <2> QED BY <1>1, <1>7, <2>1, <2>2 DEF StopServing, Lost
<1>8. BytesMatchAssets'
  BY <1>5, <1>6, <1>7 DEF BytesMatchAssets
<1> QED BY <1>2, <1>3, <1>4, <1>8 DEF FilesInv

-----------------------------------------------------------------------------
LEMMA NextInv == FilesInv /\ [FilesNext]_filesVars => FilesInv'
<1> SUFFICES ASSUME FilesInv, [FilesNext]_filesVars PROVE FilesInv'
  OBVIOUS
<1>1. CASE UNCHANGED filesVars
  BY <1>1 DEF filesVars, FilesInv, FilesTypeOK, NamesApart, DeletedGone, BytesMatchAssets,
     Stored, Uploading, SlotOK, ServedOK
<1>2. CASE CrashServing \/ \E s \in Uploaders : OpenGone(s)
  BY <1>2, StopInv DEF CrashServing, OpenGone
<1>3. ASSUME NEW s \in Uploaders, ReceiveTooLarge(s) \/ RefuseUpload(s) PROVE FilesInv'
  BY <1>3, UploadGoesOn DEF ReceiveTooLarge, RefuseUpload, BeforeCreate
<1>4. ASSUME NEW s \in Uploaders, ReceiveFails(s) \/ HangUp(s) \/ Discard(s) PROVE FilesInv'
  BY <1>4, UploadEnds DEF ReceiveFails, HangUp, Discard, BeforeCreate
<1>5. ASSUME NEW s \in Uploaders, FileAnswer(s) PROVE FilesInv'
  BY <1>5, OverInv DEF FileAnswer
<1>6. ASSUME NEW s \in Uploaders,
             \/ StartUpload(s) \/ ReceiveWhole(s) \/ FindCopy(s) \/ DropDuplicate(s)
             \/ CreateAsset(s) \/ StartOnAsset(s) \/ LoadAsset(s) \/ RemoveBytes(s)
             \/ DeleteAsset(s) \/ Stat(s) \/ Open(s)
      PROVE  FilesInv'
  BY <1>6, StartUploadInv, ReceiveWholeInv, FindCopyInv, UnlinkInv, CollectionInv,
     StartOnAssetInv, LoadAssetInv, StatInv, OpenInv
<1> QED BY <1>1, <1>2, <1>3, <1>4, <1>5, <1>6 DEF FilesNext

(* Files, assets and requests keep their types; a name without a content   *)
(* has neither a file nor an asset.                                        *)
THEOREM FileTypes == FilesSpec => []FilesTypeOK
<1>1. FilesInv => FilesTypeOK
  BY DEF FilesInv
<1> QED BY <1>1, InitInv, NextInv, PTL DEF FilesSpec

(* However any number of uploads, downloads and deletes overlap, are cut   *)
(* short by failing writes, clients that go away and crashes: an asset has *)
(* its bytes unless its own delete took them, and a file without an asset  *)
(* belongs to an upload that is under way or was cut short.                *)
THEOREM BytesAlwaysMatch == FilesSpec => []BytesMatchAssets
<1>1. FilesInv => BytesMatchAssets
  BY DEF FilesInv
<1> QED BY <1>1, InitInv, NextInv, PTL DEF FilesSpec

-----------------------------------------------------------------------------
(* What a download is served.                                              *)

Ordered(range) == (range # Nothing /\ range.end # Nothing) => range.start <= range.end

ServesAsked(range, from, to, size) ==
    LET file == 0 .. size - 1
        asked == {i \in file : range # Nothing => /\ range.start <= i
                                                  /\ range.end # Nothing => i <= range.end}
    IN  from .. to = IF asked = {} /\ file # {} THEN {size - 1} ELSE asked

LEMMA ParsedOrdered ==
    ASSUME NEW h \in [first : Int \cup {Nothing}, last : Int \cup {Nothing}]
    PROVE  Ordered(ParseRange(h))
<1> DEFINE start == IF h.first = Nothing THEN 0 ELSE h.first
<1>1. CASE start < 0 \/ (h.last # Nothing /\ h.last < start)
  BY <1>1 DEF ParseRange, Ordered
<1>2. CASE ~(start < 0 \/ (h.last # Nothing /\ h.last < start))
  <2>1. ParseRange(h) = [start |-> start, end |-> h.last]
    BY <1>2 DEF ParseRange
  <2>2. h.last # Nothing => start <= h.last
    <3>1. start \in Int /\ (h.last \in Int \/ h.last = Nothing)
      OBVIOUS
    <3> QED BY <1>2, <3>1
  <2> HIDE DEF start
  <2> QED BY <2>1, <2>2 DEF Ordered
<1> QED BY <1>1, <1>2

(* The slice of a parsed range is the part of the file it asks for, or the *)
(* last offset; an empty file has none, and from is then below zero unless *)
(* there is no range.                                                      *)
LEMMA SliceServes ==
    ASSUME NEW range \in RangeType, Ordered(range), NEW size \in Nat, Slice(range, size).from >= 0
    PROVE  ServesAsked(range, Slice(range, size).from, Slice(range, size).to, size)
<1> DEFINE file == 0 .. size - 1
           asked == {i \in file : range # Nothing => /\ range.start <= i
                                                     /\ range.end # Nothing => i <= range.end}
           from == Slice(range, size).from
           to == Slice(range, size).to
<1>1. CASE range = Nothing
  <2>1. from = 0 /\ to = size - 1 /\ asked = file
    BY <1>1 DEF Slice
  <2> QED BY <2>1 DEF ServesAsked
<1>2. CASE range # Nothing
  <2> DEFINE a == range.start
             b == range.end
  <2>1. a \in Nat /\ (b = Nothing \/ b \in Nat)
    BY <1>2 DEF RangeType
  <2>2. b # Nothing => a <= b
    BY <1>2 DEF Ordered
  <2>3. /\ from = IF a <= size - 1 THEN a ELSE size - 1
        /\ to = IF b = Nothing THEN size - 1 ELSE IF b <= size - 1 THEN b ELSE size - 1
    BY <1>2 DEF Slice, Least
  <2>4. asked = {i \in file : a <= i /\ (b # Nothing => i <= b)}
    BY <1>2
  <2>5. from \in Int /\ from >= 0
    BY <2>1, <2>3
  <2>6. Nothing \notin Int
    BY Outside
  <2> HIDE DEF a, b, from, to, asked, file
  <2>7. size >= 1 /\ file # {} /\ file = 0 .. size - 1
    <3>1. size >= 1
      BY <2>1, <2>3, <2>5
    <3> QED BY <3>1 DEF file
  <2>8. CASE a <= size - 1
    <3>1. a \in asked
      BY <2>1, <2>2, <2>4, <2>7, <2>8
    <3>2. from .. to = asked
      <4>1. CASE b = Nothing
        BY <2>1, <2>3, <2>4, <2>7, <2>8, <4>1
      <4>2. CASE b \in Nat
        BY <2>1, <2>2, <2>3, <2>4, <2>6, <2>7, <2>8, <4>2
      <4> QED BY <2>1, <4>1, <4>2
    <3> QED BY <3>1, <3>2 DEF ServesAsked, asked, file, from, to
  <2>9. CASE ~(a <= size - 1)
    <3>1. asked = {}
      BY <2>1, <2>4, <2>7, <2>9
    <3>2. from = size - 1 /\ to = size - 1
      <4>1. CASE b = Nothing
        BY <2>1, <2>3, <2>7, <2>9, <4>1
      <4>2. CASE b \in Nat
        <5>1. ~(b <= size - 1) /\ b # Nothing
          BY <2>1, <2>2, <2>6, <2>7, <2>9, <4>2
        <5> QED BY <2>3, <2>9, <5>1
      <4> QED BY <2>1, <4>1, <4>2
    <3>3. from .. to = {size - 1}
      BY <3>2
    <3> QED BY <2>7, <3>1, <3>3 DEF ServesAsked, asked, file, from, to
  <2> QED BY <2>8, <2>9 DEF from, to
<1> QED BY <1>1, <1>2

(* What was sent under a name stays what it holds.                         *)
LEMMA HoldsStay ==
    ASSUME FilesInv, [FilesNext]_filesVars, NEW n \in Names, holds[n] # Nothing
    PROVE  holds'[n] = holds[n]
<1>1. ASSUME NEW s \in Uploaders, StartUpload(s) PROVE holds'[n] = holds[n]
  <2>1. PICK m \in fileMix.names, c \in Contents :
           /\ \A k \in Names : holds[k] = Nothing <=> k >= m
           /\ holds' = [holds EXCEPT ![m] = c]
    BY <1>1, Zenon DEF StartUpload
  <2>2. m \in Names /\ m >= m
    BY <2>1, FilesAssumption DEF FilesInv, FilesTypeOK
  <2>3. m # n
    BY <2>1, <2>2
  <2> QED BY <2>1, <2>3 DEF FilesInv, FilesTypeOK
<1>2. CASE holds' = holds
  BY <1>2
<1>3. holds' = holds \/ \E s \in Uploaders : StartUpload(s)
  BY DEF FilesNext, filesVars, CrashServing, StopServing, ReceiveWhole, ReceiveTooLarge,
         ReceiveFails, RefuseUpload, HangUp, Discard, FindCopy, DropDuplicate, CreateAsset,
         StartOnAsset, LoadAsset, RemoveBytes, DeleteAsset, Stat, Open, OpenGone, FileAnswer,
         FileStep
<1> QED BY <1>1, <1>2, <1>3

(* Nothing but openDownload makes a download ready to answer.              *)
LEMMA OnlyOpenAnswers ==
    ASSUME FilesInv, [FilesNext]_filesVars, NEW s \in Uploaders,
           fileReq'[s].op = "download", fileReq'[s].step = "answer"
    PROVE  fileReq'[s] = fileReq[s] \/ Open(s)
<1>0. fileReq \in [Uploaders -> FileRequest]
  BY DEF FilesInv, FilesTypeOK
<1>1. CASE UNCHANGED filesVars
  BY <1>1 DEF filesVars
<1>2. CASE CrashServing \/ \E t \in Uploaders : OpenGone(t)
  BY <1>2, NoRequestOK DEF CrashServing, OpenGone, StopServing
<1>3. ASSUME NEW t \in Uploaders, NEW q, FileGo(t, q), q.op # "download" \/ q.step # "answer"
      PROVE  fileReq'[s] = fileReq[s]
  BY <1>0, <1>3 DEF FileGo
<1>4. ASSUME NEW t \in Uploaders,
             NEW st \in {"discard", "finish", "register", "create", "open", "forget", "stat",
                        "remove"},
             FileGo(t, [fileReq[t] EXCEPT !.step = st])
      PROVE  fileReq'[s] = fileReq[s]
  <2>1. [fileReq[t] EXCEPT !.step = st].step # "answer"
    BY <1>0 DEF FileRequest
  <2> QED BY <1>3, <1>4, <2>1
<1>5. ASSUME NEW t \in Uploaders, FileGo(t, NoFileRequest) PROVE fileReq'[s] = fileReq[s]
  BY <1>3, <1>5, NoRequestOK
<1>6. ASSUME NEW t \in Uploaders, StartUpload(t) PROVE fileReq'[s] = fileReq[s]
  <2>1. PICK n \in fileMix.names :
           FileGo(t, [NoFileRequest EXCEPT !.op = "upload", !.step = "receive", !.name = n])
    BY <1>6, Zenon DEF StartUpload
  <2>2. [NoFileRequest EXCEPT !.op = "upload", !.step = "receive", !.name = n].step # "answer"
    BY DEF NoFileRequest
  <2> QED BY <1>3, <2>1, <2>2
<1>7. ASSUME NEW t \in Uploaders, StartOnAsset(t) PROVE fileReq'[s] = fileReq[s]
  <2>1. PICK op \in {"download", "delete"}, n \in Names :
           FileGo(t, [NoFileRequest EXCEPT !.op = op, !.step = "load", !.name = n])
    BY <1>7, Zenon DEF StartOnAsset, FileStep
  <2>2. [NoFileRequest EXCEPT !.op = op, !.step = "load", !.name = n].step # "answer"
    BY DEF NoFileRequest
  <2> QED BY <1>3, <2>1, <2>2
<1>8. ASSUME NEW t \in Uploaders,
             \/ ReceiveWhole(t) \/ ReceiveTooLarge(t) \/ ReceiveFails(t) \/ RefuseUpload(t)
             \/ HangUp(t) \/ Discard(t) \/ LoadAsset(t) \/ RemoveBytes(t) \/ DeleteAsset(t)
             \/ Stat(t) \/ FileAnswer(t)
      PROVE  fileReq'[s] = fileReq[s]
  BY <1>4, <1>5, <1>8 DEF ReceiveWhole, ReceiveTooLarge, ReceiveFails, RefuseUpload, HangUp,
     Discard, LoadAsset, RemoveBytes, DeleteAsset, Stat, FileAnswer, FileStep
<1>9. ASSUME NEW t \in Uploaders, FindCopy(t) \/ DropDuplicate(t) \/ CreateAsset(t)
      PROVE  fileReq'[s] = fileReq[s]
  <2> DEFINE r == fileReq[t]
  <2>1. r \in FileRequest /\ r.op = "upload"
    BY <1>9, Known DEF FindCopy, DropDuplicate, CreateAsset, ServedOK, BeforeCreate
  <2>2. \/ FileGo(t, [r EXCEPT !.step = "create"])
        \/ \E n \in Stored : FileGo(t, [r EXCEPT !.step = "unlink", !.found = n])
        \/ FileGo(t, [r EXCEPT !.step = "answer"])
        \/ FileGo(t, [r EXCEPT !.step = "answer", !.found = r.name])
    BY <1>9 DEF FindCopy, DropDuplicate, CreateAsset, FileStep
  <2>3. /\ [r EXCEPT !.step = "create"].op = "upload"
        /\ \A n : [r EXCEPT !.step = "unlink", !.found = n].op = "upload"
        /\ [r EXCEPT !.step = "answer"].op = "upload"
        /\ [r EXCEPT !.step = "answer", !.found = r.name].op = "upload"
    BY <2>1 DEF FileRequest
  <2> QED BY <1>3, <2>2, <2>3
<1>10. ASSUME NEW t \in Uploaders, Open(t), t # s PROVE fileReq'[s] = fileReq[s]
  <2>1. \E q : FileGo(t, q)
    BY <1>10 DEF Open, FileStep
  <2> QED BY <1>0, <1>10, <2>1 DEF FileGo
<1> QED BY <1>1, <1>2, <1>6, <1>7, <1>8, <1>9, <1>10 DEF FilesNext

LEMMA OpenServes ==
    ASSUME FilesInv, NEW s \in Uploaders, Open(s), fileReq'[s].step = "answer"
    PROVE  /\ fileReq'[s].name = fileReq[s].name /\ fileReq[s].op = "download"
           /\ ServesAsked(fileReq'[s].range, fileReq'[s].from, fileReq'[s].to,
                          SizeOf[holds[fileReq[s].name]])
<1> DEFINE size == SizeOf[holds[fileReq[s].name]]
<1>1. fileReq[s].step = "open" /\ fileReq[s].op = "download"
  BY Known DEF Open, ServedOK
<1>2. size \in Nat
  <2>1. fileReq[s].name \in Names /\ asset[fileReq[s].name] # "absent"
    BY <1>1, Known DEF SlotOK
  <2>2. holds[fileReq[s].name] \in Contents
    BY <2>1 DEF FilesInv, FilesTypeOK
  <2> QED BY <2>2, Outside
<1>3. PICK range \in {ParseRange(h) : h \in fileMix.headers} \cup {Nothing} :
         FileStep(s, IF Slice(range, size).from < 0 THEN NoFileRequest
                     ELSE [fileReq[s] EXCEPT !.step = "answer", !.range = range,
                                             !.from = Slice(range, size).from,
                                             !.to = Slice(range, size).to])
  BY DEF Open
<1>4. range \in RangeType /\ Ordered(range)
  <2>1. fileMix.headers \subseteq [first : Int \cup {Nothing}, last : Int \cup {Nothing}]
    BY FilesAssumption DEF FilesInv, FilesTypeOK
  <2>2. CASE range = Nothing
    BY <2>2 DEF RangeType, Ordered
  <2>3. CASE range # Nothing
    <3>1. PICK h \in fileMix.headers : range = ParseRange(h)
      BY <1>3, <2>3
    <3> QED BY <2>1, <3>1, ParsedRange, ParsedOrdered
  <2> QED BY <2>2, <2>3
<1>5. Slice(range, size).from \in Int
  BY <1>2, <1>4, SliceOfInts
<1>6. Slice(range, size).from >= 0 =>
         ServesAsked(range, Slice(range, size).from, Slice(range, size).to, size)
  BY <1>2, <1>4, SliceServes
<1> DEFINE from == Slice(range, size).from
           to == Slice(range, size).to
           q == [fileReq[s] EXCEPT !.step = "answer", !.range = range, !.from = from, !.to = to]
<1>7. fileReq \in [Uploaders -> FileRequest] /\ fileReq[s] \in FileRequest
  BY DEF FilesInv, FilesTypeOK
<1>8. q.name = fileReq[s].name /\ q.range = range /\ q.from = from /\ q.to = to
  BY <1>7 DEF FileRequest
<1>9. FileGo(s, IF from < 0 THEN NoFileRequest ELSE q)
  BY <1>3 DEF FileStep
<1> HIDE DEF from, to, size, q
<1>10. fileReq'[s] = IF from < 0 THEN NoFileRequest ELSE q
  BY <1>7, <1>9 DEF FileGo
<1>11. ~(from < 0) /\ fileReq'[s] = q
  BY <1>10, NoRequestOK
<1>12. from \in Int
  BY <1>5 DEF from
<1>13. from >= 0
  BY <1>11, <1>12
<1>14. ServesAsked(range, from, to, size)
  BY <1>6, <1>13 DEF from, to
<1> QED BY <1>1, <1>8, <1>11, <1>14 DEF size

(* Whatever Range header a client sends and whatever happens to the file   *)
(* meanwhile, a download is answered with the offsets that were asked for, *)
(* cut at the end of the file.                                             *)
THEOREM RangesStayInside == FilesSpec => []RangesInsideFile
<1> DEFINE Inv == FilesInv /\ RangesInsideFile
<1>1. RangesInsideFile <=>
         \A s \in Uploaders :
            fileReq[s].op = "download" /\ fileReq[s].step = "answer" =>
               ServesAsked(fileReq[s].range, fileReq[s].from, fileReq[s].to,
                           SizeOf[holds[fileReq[s].name]])
  BY DEF RangesInsideFile, ServesAsked
<1>2. FilesInit => Inv
  <2>1. FilesInit => \A s \in Uploaders : fileReq[s].op = "none"
    BY NoRequestOK DEF FilesInit
  <2> QED BY <2>1, InitInv DEF RangesInsideFile
<1>3. Inv /\ [FilesNext]_filesVars => Inv'
  <2> SUFFICES ASSUME Inv, [FilesNext]_filesVars, NEW s \in Uploaders,
                      fileReq'[s].op = "download", fileReq'[s].step = "answer"
               PROVE  ServesAsked(fileReq'[s].range, fileReq'[s].from, fileReq'[s].to,
                                  SizeOf[holds'[fileReq'[s].name]])
    BY NextInv DEF RangesInsideFile, ServesAsked
  <2>1. ASSUME NEW n \in Names, asset[n] # "absent" PROVE holds'[n] = holds[n]
    BY <2>1, HoldsStay DEF FilesInv, FilesTypeOK
  <2>2. fileReq[s].op = "download" => /\ fileReq[s].name \in Names
                                      /\ asset[fileReq[s].name] # "absent"
    BY Known DEF SlotOK
  <2>3. CASE fileReq'[s] = fileReq[s]
    <3>1. ServesAsked(fileReq[s].range, fileReq[s].from, fileReq[s].to,
                      SizeOf[holds[fileReq[s].name]])
      BY <1>1, <2>3
    <3> QED BY <2>1, <2>2, <2>3, <3>1
  <2>4. CASE Open(s)
    BY <2>1, <2>2, <2>4, OpenServes
  <2> QED BY <2>3, <2>4, OnlyOpenAnswers
<1>4. Inv => RangesInsideFile
  OBVIOUS
<1> QED BY <1>2, <1>3, <1>4, PTL DEF FilesSpec

-----------------------------------------------------------------------------
(* One request at a time and no crash: an upload is answered with an asset *)
(* whose file nobody has touched since it was found or created.            *)

Alone == FilesOneAtATime /\ "crash" \notin fileMix.faults

KeptFor(r) ==
    /\ r.op = "upload" /\ r.step \in {"unlink", "answer"} =>
          /\ r.found \in Stored
          /\ copy[r.found] = "whole"
          /\ holds[r.found] = holds[r.name]
    /\ r.step = "open" => copy[r.name] # "none"

KeptInv ==
    /\ FilesInv
    /\ \A s \in Uploaders : fileReq[s] # NoFileRequest => s \in fileMix.slots
    /\ Alone => cut = {} /\ \A s \in Uploaders : KeptFor(fileReq[s])

(* The request that moves is the only one, and left with what the step     *)
(* gave it.                                                                *)
LEMMA KeptStep ==
    ASSUME KeptInv, FilesInv', NEW s \in Uploaders, NEW q, FileGo(s, q), cut' = cut,
           s \in fileMix.slots,
           Alone /\ q.op = "upload" /\ q.step \in {"unlink", "answer"} =>
              /\ asset'[q.found] = "stored" /\ q.found \in Names
              /\ copy'[q.found] = "whole"
              /\ holds'[q.found] = holds'[q.name],
           Alone /\ q.step = "open" => copy'[q.name] # "none"
    PROVE  KeptInv'
<1>1. /\ \A t \in Uploaders : fileReq'[t] = IF t = s THEN q ELSE fileReq[t]
      /\ fileMix' = fileMix
  BY DEF FileGo, KeptInv, FilesInv, FilesTypeOK
<1>2. \A t \in Uploaders : fileReq'[t] # NoFileRequest => t \in fileMix'.slots
  BY <1>1 DEF KeptInv
<1>3. Alone' <=> Alone
  BY <1>1 DEF Alone, FilesOneAtATime
<1>4. ASSUME Alone, NEW t \in Uploaders PROVE KeptFor(fileReq[t])'
  <2>1. CASE t = s
    BY <1>1, <1>4, <2>1 DEF KeptFor, Stored
  <2>2. CASE t # s
    <3>1. fileReq'[t] = NoFileRequest
      BY <1>1, <1>4, <2>2 DEF KeptInv, Alone, FilesOneAtATime
    <3> QED BY <3>1, NoRequestOK DEF KeptFor
  <2> QED BY <2>1, <2>2
<1> QED BY <1>2, <1>3, <1>4 DEF KeptInv

(* Most steps leave a request nothing that could be lost.                  *)
LEMMA SoberStep ==
    ASSUME KeptInv, FilesInv', NEW s \in Uploaders, NEW q, FileGo(s, q), cut' = cut,
           fileReq[s].step # "idle" \/ s \in fileMix.slots,
           q.step \notin {"unlink", "answer", "open"} \/ (q.op = "download" /\ q.step = "answer")
    PROVE  KeptInv'
<1>1. s \in fileMix.slots
  BY NoRequestOK DEF KeptInv
<1>2. ~(q.op = "upload" /\ q.step \in {"unlink", "answer"}) /\ q.step # "open"
  OBVIOUS
<1> QED BY <1>1, <1>2, KeptStep

LEMMA StartsKept ==
    ASSUME KeptInv, FilesInv', NEW s \in Uploaders, StartUpload(s) \/ StartOnAsset(s)
    PROVE  KeptInv'
<1>1. CASE StartUpload(s)
  <2>1. PICK n \in fileMix.names :
           FileGo(s, [NoFileRequest EXCEPT !.op = "upload", !.step = "receive", !.name = n])
    BY <1>1, Zenon DEF StartUpload
  <2>2. [NoFileRequest EXCEPT !.op = "upload", !.step = "receive", !.name = n].step = "receive"
    BY DEF NoFileRequest
  <2>3. s \in fileMix.slots /\ cut' = cut
    BY <1>1 DEF StartUpload, FileStart
  <2> QED BY <2>1, <2>2, <2>3, SoberStep
<1>2. CASE StartOnAsset(s)
  <2>1. PICK op \in {"download", "delete"}, n \in Names :
           /\ s \in fileMix.slots /\ UNCHANGED <<copy, holds, asset, left, cut>>
           /\ FileGo(s, [NoFileRequest EXCEPT !.op = op, !.step = "load", !.name = n])
    BY <1>2, Zenon DEF StartOnAsset, FileStart, FileStep
  <2>2. [NoFileRequest EXCEPT !.op = op, !.step = "load", !.name = n].step = "load"
    BY DEF NoFileRequest
  <2> QED BY <2>1, <2>2, SoberStep
<1> QED BY <1>1, <1>2

LEMMA MovesKept ==
    ASSUME KeptInv, FilesInv', NEW s \in Uploaders,
           \/ ReceiveWhole(s) \/ ReceiveTooLarge(s) \/ ReceiveFails(s) \/ RefuseUpload(s)
           \/ HangUp(s) \/ Discard(s) \/ LoadAsset(s) \/ RemoveBytes(s) \/ DeleteAsset(s)
           \/ FileAnswer(s)
    PROVE  KeptInv'
<1>1. fileReq[s] \in FileRequest /\ fileReq[s].step # "idle" /\ cut' = cut
  BY Known DEF KeptInv, ReceiveWhole, ReceiveTooLarge, ReceiveFails, RefuseUpload, HangUp,
     Discard, LoadAsset, RemoveBytes, DeleteAsset, FileAnswer, FileStep
<1>2. \/ FileGo(s, NoFileRequest)
      \/ \E st \in {"discard", "finish", "register", "forget", "stat", "remove"} :
            FileGo(s, [fileReq[s] EXCEPT !.step = st])
  BY DEF ReceiveWhole, ReceiveTooLarge, ReceiveFails, RefuseUpload, HangUp, Discard, LoadAsset,
         RemoveBytes, DeleteAsset, FileAnswer, FileStep
<1>3. \A st : [fileReq[s] EXCEPT !.step = st].step = st
  BY <1>1 DEF FileRequest
<1>4. CASE FileGo(s, NoFileRequest)
  BY <1>1, <1>4, NoRequestOK, SoberStep
<1>5. ASSUME NEW st \in {"discard", "finish", "register", "forget", "stat", "remove"},
             FileGo(s, [fileReq[s] EXCEPT !.step = st])
      PROVE  KeptInv'
  BY <1>1, <1>3, <1>5, SoberStep
<1> QED BY <1>2, <1>4, <1>5

(* What registerUpload finds is stored and whole: no delete is under way   *)
(* and none was cut short.                                                 *)
LEMMA FindCopyKept ==
    ASSUME KeptInv, FilesInv', NEW s \in Uploaders, FindCopy(s)
    PROVE  KeptInv'
<1> DEFINE r == fileReq[s]
<1>1. /\ r \in FileRequest /\ r.step = "register" /\ cut' = cut /\ s \in fileMix.slots
      /\ UNCHANGED <<copy, holds, asset>>
  BY Known, NoRequestOK DEF KeptInv, FindCopy, FileStep
<1>2. CASE FileStep(s, [r EXCEPT !.step = "create"])
  <2>1. [r EXCEPT !.step = "create"].step = "create"
    BY <1>1 DEF FileRequest
  <2> QED BY <1>1, <1>2, <2>1, SoberStep DEF FileStep
<1>3. ASSUME NEW n \in Stored, holds[n] = holds[r.name],
             FileStep(s, [r EXCEPT !.step = "unlink", !.found = n])
      PROVE  KeptInv'
  <2> DEFINE q == [r EXCEPT !.step = "unlink", !.found = n]
  <2>1. q.step = "unlink" /\ q.found = n /\ q.name = r.name
    BY <1>1 DEF FileRequest
  <2>2. FileGo(s, q)
    BY <1>3 DEF FileStep
  <2>3. Alone => copy[n] = "whole"
    <3> SUFFICES ASSUME Alone PROVE copy[n] = "whole"
      OBVIOUS
    <3>1. \A t \in Uploaders : fileReq[t].step # "forget"
      BY <1>1, NoRequestOK DEF KeptInv, Alone, FilesOneAtATime
    <3> QED BY <3>1 DEF KeptInv, FilesInv, BytesMatchAssets
  <2>4. n \in Names /\ asset[n] = "stored"
    BY DEF Stored
  <2> HIDE DEF q
  <2> QED BY <1>1, <1>3, <2>1, <2>2, <2>3, <2>4, KeptStep
<1> QED BY <1>2, <1>3 DEF FindCopy

(* The duplicate has no asset, so it is not the file that was found.       *)
LEMMA DropDuplicateKept ==
    ASSUME KeptInv, FilesInv', NEW s \in Uploaders, DropDuplicate(s)
    PROVE  KeptInv'
<1> DEFINE r == fileReq[s]
           q == [r EXCEPT !.step = "answer"]
<1>1. /\ r \in FileRequest /\ r.step = "unlink" /\ cut' = cut /\ s \in fileMix.slots
      /\ UNCHANGED <<holds, asset>> /\ copy' = [copy EXCEPT ![r.name] = "none"]
  BY Known, NoRequestOK DEF KeptInv, DropDuplicate
<1>2. r.op = "upload" /\ asset[r.name] = "absent" /\ r.name \in Names
  BY <1>1, Known DEF KeptInv, ServedOK, SlotOK, BeforeCreate
<1>3. Alone => /\ r.found \in Names /\ asset[r.found] = "stored"
               /\ copy[r.found] = "whole" /\ holds[r.found] = holds[r.name]
  BY <1>1, <1>2 DEF KeptInv, KeptFor, Stored
<1>4. Alone => copy'[r.found] = "whole"
  BY <1>1, <1>2, <1>3 DEF KeptInv, FilesInv, FilesTypeOK
<1>5. q.step = "answer" /\ q.found = r.found /\ q.name = r.name
  BY <1>1 DEF FileRequest
<1>6. FileGo(s, q)
  BY DEF DropDuplicate
<1> HIDE DEF q
<1> QED BY <1>1, <1>3, <1>4, <1>5, <1>6, KeptStep

LEMMA CreateAssetKept ==
    ASSUME KeptInv, FilesInv', NEW s \in Uploaders, CreateAsset(s)
    PROVE  KeptInv'
<1> DEFINE r == fileReq[s]
           q == [r EXCEPT !.step = "answer", !.found = r.name]
<1>1. /\ r \in FileRequest /\ r.step = "create" /\ cut' = cut /\ s \in fileMix.slots
      /\ UNCHANGED <<copy, holds>> /\ asset' = [asset EXCEPT ![r.name] = "stored"]
  BY Known, NoRequestOK DEF KeptInv, CreateAsset
<1>2. r.op = "upload" /\ r.name \in Names /\ copy[r.name] = "whole"
  BY <1>1, Known DEF KeptInv, ServedOK, SlotOK, BeforeCreate
<1>3. asset'[r.name] = "stored"
  BY <1>1, <1>2 DEF KeptInv, FilesInv, FilesTypeOK
<1>4. q.step = "answer" /\ q.found = r.name /\ q.name = r.name
  BY <1>1 DEF FileRequest
<1>5. FileGo(s, q)
  BY DEF CreateAsset
<1> HIDE DEF q
<1> QED BY <1>1, <1>2, <1>3, <1>4, <1>5, KeptStep

LEMMA DownloadsKept ==
    ASSUME KeptInv, FilesInv', NEW s \in Uploaders, Stat(s) \/ Open(s)
    PROVE  KeptInv'
<1> DEFINE r == fileReq[s]
<1>1. /\ r \in FileRequest /\ r.step \in {"stat", "open"} /\ r.op = "download" /\ cut' = cut
      /\ s \in fileMix.slots /\ copy' = copy
  BY Known, NoRequestOK DEF KeptInv, Stat, Open, FileStep, ServedOK
<1>2. CASE FileGo(s, NoFileRequest)
  BY <1>1, <1>2, NoRequestOK, SoberStep
<1>3. CASE Stat(s) /\ ~FileGo(s, NoFileRequest)
  <2> DEFINE q == [r EXCEPT !.step = "open"]
  <2>1. FileGo(s, q) /\ copy[r.name] # "none"
    BY <1>3 DEF Stat, FileStep
  <2>2. q.step = "open" /\ q.name = r.name /\ q.op = "download"
    BY <1>1 DEF FileRequest
  <2> HIDE DEF q
  <2> QED BY <1>1, <2>1, <2>2, KeptStep
<1>4. CASE Open(s) /\ ~FileGo(s, NoFileRequest)
  <2>1. \E range, from, to :
           FileGo(s, [r EXCEPT !.step = "answer", !.range = range, !.from = from, !.to = to])
    BY <1>4 DEF Open, FileStep
  <2>2. PICK range, from, to :
           FileGo(s, [r EXCEPT !.step = "answer", !.range = range, !.from = from, !.to = to])
    BY <2>1
  <2> DEFINE q == [r EXCEPT !.step = "answer", !.range = range, !.from = from, !.to = to]
  <2>3. q.step = "answer" /\ q.op = "download"
    BY <1>1 DEF FileRequest
  <2>4. FileGo(s, q)
    BY <2>2
  <2> HIDE DEF q
  <2> QED BY <1>1, <2>3, <2>4, SoberStep
<1> QED BY <1>2, <1>3, <1>4

(* Alone the process never stops: stat's answer still holds at open.       *)
LEMMA StopKept ==
    ASSUME KeptInv, FilesInv', CrashServing \/ \E s \in Uploaders : OpenGone(s)
    PROVE  KeptInv'
<1>1. \A t \in Uploaders : fileReq'[t] = NoFileRequest
  BY DEF CrashServing, OpenGone, StopServing
<1>2. ~Alone /\ fileMix' = fileMix
  BY DEF CrashServing, OpenGone, StopServing, Alone, KeptInv, KeptFor
<1>3. ~Alone'
  BY <1>2 DEF Alone, FilesOneAtATime
<1> QED BY <1>1, <1>3 DEF KeptInv

LEMMA NextKept == KeptInv /\ [FilesNext]_filesVars => KeptInv'
<1> SUFFICES ASSUME KeptInv, [FilesNext]_filesVars PROVE KeptInv'
  OBVIOUS
<1>0. FilesInv'
  BY NextInv DEF KeptInv
<1>1. CASE UNCHANGED filesVars
  BY <1>0, <1>1 DEF filesVars, KeptInv, KeptFor, Alone, FilesOneAtATime, Stored
<1> QED BY <1>0, <1>1, StartsKept, MovesKept, FindCopyKept, DropDuplicateKept, CreateAssetKept,
        DownloadsKept, StopKept DEF FilesNext

(* Without overlapping requests and crashes, whoever is told that an       *)
(* upload was registered gets an asset with the very bytes that were sent, *)
(* whether it was new or a copy of an earlier one.                         *)
THEOREM UploadsAreKept == FilesSpec => []UploadKept
<1>1. KeptInv => UploadKept
  BY DEF KeptInv, KeptFor, Alone, UploadKept
<1>2. FilesInit => KeptInv
  <2> SUFFICES ASSUME FilesInit PROVE KeptInv
    OBVIOUS
  <2>1. cut = {} /\ \A s \in Uploaders : fileReq[s] = NoFileRequest
    BY DEF FilesInit
  <2> QED BY <2>1, InitInv, NoRequestOK DEF KeptInv, KeptFor
<1> QED BY <1>1, <1>2, NextKept, PTL DEF FilesSpec

-----------------------------------------------------------------------------
(* Files and Pages side by side: a behaviour of both is a behaviour of     *)
(* each, so that the theorems about either hold of it.                     *)
THEOREM ContentIsBoth == BothSpec => Spec /\ FilesSpec
<1>1. BothInit => Init /\ FilesInit
  BY DEF BothInit
<1>2. [BothNext]_<<vars, filesVars>> => [Next]_vars /\ [FilesNext]_filesVars
  <2> SUFFICES ASSUME BothNext PROVE [Next]_vars /\ [FilesNext]_filesVars
    OBVIOUS
  <2>1. \/ Next /\ UNCHANGED filesVars
        \/ FilesNext /\ UNCHANGED vars
    BY Zenon DEF BothNext, Page, File, Next, Start, Read, Write, FilesNext
  <2> QED BY <2>1
<1> QED BY <1>1, <1>2, PTL DEF BothSpec, Spec, FilesSpec

(* While the two run side by side, the types of both hold.                 *)
THEOREM ContentTypes == BothSpec => []TypesOK
<1>1. TypeInv /\ FilesTypeOK => TypesOK
  BY DEF TypesOK, TypeInv
<1> QED BY <1>1, ContentIsBoth, PageTypes, FileTypes, PTL
=============================================================================
