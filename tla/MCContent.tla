----------------------------- MODULE MCContent ------------------------------
(* Pages and Files for TLC.  They share no variable, so a behaviour has    *)
(* one of them at rest.                                                    *)
EXTENDS MCPages, Files

MCSizes == "full" :> 2 @@ "empty" :> 0
MCHeaders == [first : {Nothing, -1, 0, 1, 2}, last : {Nothing, 0, 1, 2}]

(* One request at a time, with faults of the disk and the client or with   *)
(* crashes; and two that overlap with all of them.                         *)
Everything == {"upload", "download", "delete"}
MCFileMixes ==
    {[ops |-> Everything, slots |-> {"u1"}, names |-> Names, headers |-> MCHeaders,
      faults |-> {"disk", "hangup"}],
     [ops |-> Everything, slots |-> {"u1"}, names |-> Names, headers |-> {}, faults |-> {"crash"}],
     [ops |-> Everything, slots |-> Uploaders, names |-> {1, 2}, headers |-> {},
      faults |-> {"crash", "disk", "hangup"}],
     [ops |-> {}, slots |-> {}, names |-> {}, headers |-> {}, faults |-> {}]}

MCAllMixes == MCMixes \cup {[ops |-> {}, slots |-> {}, pages |-> 0]}

BothInit == Init /\ FilesInit /\ (mix.ops = {}) # (fileMix.ops = {})

Page(action) == action /\ UNCHANGED filesVars
File(action) == action /\ UNCHANGED vars

BothNext ==
    \/ \E s \in Requests :
          \/ Page(StartCreate(s)) \/ Page(StartMove(s)) \/ Page(StartArchive(s))
          \/ Page(StartEdit(s)) \/ Page(StartRestore(s))
          \/ Page(LoadPage(s)) \/ Page(FindKids(s)) \/ Page(ResolveParent(s))
          \/ Page(FindRevision(s))
          \/ Page(CreatePage(s)) \/ Page(MovePage(s)) \/ Page(MoveConflict(s))
          \/ Page(ArchivePage(s)) \/ Page(EditPage(s)) \/ Page(EditConflict(s))
    \/ File(CrashServing)
    \/ \E s \in Uploaders :
          \/ File(StartUpload(s)) \/ File(ReceiveWhole(s)) \/ File(ReceiveTooLarge(s))
          \/ File(ReceiveFails(s)) \/ File(RefuseUpload(s)) \/ File(HangUp(s))
          \/ File(Discard(s)) \/ File(FindCopy(s)) \/ File(DropDuplicate(s))
          \/ File(CreateAsset(s)) \/ File(StartOnAsset(s)) \/ File(LoadAsset(s))
          \/ File(RemoveBytes(s)) \/ File(DeleteAsset(s)) \/ File(Stat(s)) \/ File(Open(s))
          \/ File(OpenGone(s)) \/ File(FileAnswer(s))

BothSpec == BothInit /\ [][BothNext]_<<vars, filesVars>>

(* The types of both modules.                                              *)
TypesOK == TypeOK /\ FilesTypeOK
=============================================================================
