------------------------------ MODULE AgentFiles ------------------------------
(***************************************************************************)
(* What the agent's tools do to the files of a project, the log of it in   *)
(* the session, and /undo.  A tool takes its backups, changes files, and   *)
(* only then records each change with the fingerprint the file has at that *)
(* moment; undo compares the fingerprints of a whole group before it       *)
(* restores the first file, and marks and saves one file at a time.        *)
(* Meanwhile the user edits the same files, the process may stop anywhere, *)
(* and the session or a file may fail to be written.                       *)
(*                                                                         *)
(* The content of a file is a number, new for every version that somebody  *)
(* writes; a fingerprint is the content.  A backup is kept with the        *)
(* operation it belongs to: nothing removes backups.  Subtitle tracks      *)
(* inside containers and whole directories are left out.                   *)
(***************************************************************************)
EXTENDS Naturals, FiniteSets, SequencesExt

CONSTANTS
  Paths,        \* project files
  Calls,        \* the tool calls that the model may make, see Call
  MaxRequests, MaxEdits, MaxCrashes, MaxFailures,
  None          \* Option::None

Missing == 0    \* FileState::Missing

\* What one call does to one path.  "output" is a file that a command staged,
\* "written" one that a translation, a transcription or an edit writes
\* itself, "preview" the file of an edit_subtitle with dry_run.
Change == [do : {"add", "update", "delete", "rename", "output", "written", "preview"},
           path : Paths, to : Paths \cup {None}]

\* A tool call; overwrite is its argument of that name.  "single" is one of
\* rename_path and delete_file, "series" a translate_series, "writer" a
\* translate_file, transcribe_audio or edit_subtitle.  A patch changes at least
\* one file, and a command without outputs changes none: it is left out.  A
\* patch and a command refuse to name a path twice; a series does not: with an
\* output format, two sources that differ in their extension have one output.
Call == [tool : {"patch", "single", "command", "series", "writer"},
         changes : Seq(Change), overwrite : BOOLEAN]

ASSUME CallsAssumption ==
  /\ Calls \subseteq Call
  /\ \A c \in Calls :
       /\ c.tool # "series" =>
            \A i, j \in DOMAIN c.changes : c.changes[i].path = c.changes[j].path => i = j
       /\ \A i \in DOMAIN c.changes :
            /\ c.changes[i].to # None <=> c.changes[i].do = "rename"
            /\ c.changes[i].to # c.changes[i].path
            /\ CASE c.tool = "patch"   -> c.changes[i].do \in {"add", "update", "delete"}
                 [] c.tool = "single"  -> c.changes[i].do \in {"delete", "rename"}
                 [] c.tool = "command" -> c.changes[i].do = "output"
                 [] c.tool = "series"  -> c.changes[i].do = "written"
                 [] OTHER              -> c.changes[i].do \in {"written", "preview"}
       /\ c.tool \in {"single", "writer"} => Len(c.changes) = 1
       /\ c.tool # "series" => c.changes # <<>>

\* None is no path, no call and no snapshot.
ASSUME NoneAssumption ==
  /\ None \notin Paths /\ None \notin Calls
  /\ None \notin [act : {"created", "modified"}, backup : Nat]

ASSUME BoundsAssumption == {MaxRequests, MaxEdits, MaxCrashes, MaxFailures} \subseteq Nat

VARIABLES
  files,     \* files[p]: content of p
  mem, disk, \* the FileOperation events of engine.session and of the session file
  manifest,  \* the manifest of the last directory run
  w,         \* the operation in progress
  \* history and bounds
  base,      \* base[p]: what the user last left in p, and after how many events;
             \* or what undo restored there, if the user had left p as the event had
  dirty,     \* paths that a crash, an I/O error or an edit under a running
             \* operation may have left in a state the log cannot explain
  edited,    \* paths the user changed while the last undo was running
  restored,  \* the events whose files undo has put back
  made,      \* contents so far
  requests, edits, crashes, failures

logs == <<mem, disk>>
vars == <<files, mem, disk, manifest, w, base, dirty, edited, restored,
          made, requests, edits, crashes, failures>>

\* pc is the point the operation has reached, n the change, file or event it
\* has come to; done are the FileOpResults of the call, snap the snapshots it
\* took first, targets the events to undo and parts the paths of the event
\* that are left to restore.
Idle == [pc |-> "idle", call |-> None, group |-> 0, n |-> 1, done |-> <<>>,
         snap |-> [p \in Paths |-> None], targets |-> {}, parts |-> <<>>]

NoManifest == [group |-> 0, outputs |-> {}, complete |-> FALSE]

Init ==
  /\ files \in [Paths -> {Missing, 1}] /\ made = 1
  /\ base = [p \in Paths |-> [content |-> files[p], at |-> 0]]
  /\ mem = <<>> /\ disk = <<>> /\ manifest = NoManifest /\ w = Idle
  /\ dirty = {} /\ edited = {} /\ restored = {}
  /\ requests = 0 /\ edits = 0 /\ crashes = 0 /\ failures = 0

At(pc) == [w EXCEPT !.pc = pc]
Ended  == [Idle EXCEPT !.pc = "end"]

\* What a step of the operation itself never changes.
Counters == UNCHANGED <<base, edited, requests, edits, crashes>>
OnlyMoves(next) ==
  /\ w' = next
  /\ UNCHANGED <<files, logs, manifest, dirty, restored, made, failures>> /\ Counters

\* A write to the disk fails.
Fails == failures < MaxFailures /\ failures' = failures + 1

-----------------------------------------------------------------------------
(* The start of a tool call *)

Begin(c) ==
  /\ w.pc = "idle" /\ requests < MaxRequests
  /\ requests' = requests + 1
  /\ w' = [Idle EXCEPT !.pc = "prepare", !.call = c,
                       !.group = IF c.tool = "series" \/ Len(c.changes) > 1
                                 THEN requests + 1 ELSE 0]
  /\ UNCHANGED <<files, logs, manifest, base, dirty, edited, restored, made,
                 edits, crashes, failures>>

\* snapshot_write: the backup that undo will restore.
Snapshot(p) == [act    |-> IF files[p] = Missing THEN "created" ELSE "modified",
                backup |-> files[p]]

\* prepare_operations, the checks of commit_staged_files, and those of a tool
\* that writes by itself.
Accepted(call, c) ==
  CASE c.do = "add" -> files[c.path] = Missing
    [] c.do \in {"update", "delete"} /\ call.tool = "patch" -> files[c.path] # Missing
    [] c.do = "output" \/ (c.do = "written" /\ call.tool = "writer") ->
         call.overwrite \/ files[c.path] = Missing
    [] OTHER -> TRUE

Accepts(call) == \A i \in DOMAIN call.changes : Accepted(call, call.changes[i])

\* The snapshots taken before the first change: those of every file the call
\* may write, but no file of a series that will be skipped.
Snapshots(call) ==
  [p \in Paths |->
     IF \E c \in ToSet(call.changes) :
          c.path = p /\ c.do \in {"output", "written", "preview"}
          /\ (call.tool = "series" => call.overwrite \/ files[p] = Missing)
     THEN Snapshot(p) ELSE None]

\* A series writes its manifest before the first file.
Prepare ==
  /\ w.pc = "prepare" /\ Accepts(w.call)
  /\ IF w.call.tool = "series"
     THEN \/ /\ manifest' = [NoManifest EXCEPT !.group = w.group]
             /\ w' = [w EXCEPT !.pc = "file", !.snap = Snapshots(w.call)]
             /\ UNCHANGED failures
          \/ Fails /\ w' = Ended /\ UNCHANGED manifest
     ELSE /\ w' = [w EXCEPT !.pc = IF w.call.tool = "writer" THEN "file" ELSE "backup",
                            !.snap = Snapshots(w.call)]
          /\ UNCHANGED <<manifest, failures>>
  /\ UNCHANGED <<files, logs, dirty, restored, made>> /\ Counters

Refuse == w.pc = "prepare" /\ ~Accepts(w.call) /\ OnlyMoves(Ended)

-----------------------------------------------------------------------------
(* apply_patch, commit_staged_files, rename_path and delete_file *)

Current == w.call.changes[w.n]

\* FileOpResult; a backup of Missing is no backup.
Result ==
  LET c == Current
      s == w.snap[c.path] IN
  [act      |-> CASE c.do = "delete" -> "deleted" [] c.do = "rename" -> "renamed" [] OTHER -> s.act,
   path     |-> c.path, to |-> c.to, backup |-> s.backup,
   toBackup |-> IF c.to = None THEN Missing ELSE w.snap[c.to].backup]

\* The call gives up, and takes back what it has changed so far.
Abandoned == IF w.call.tool \in {"patch", "command"} THEN At("rollback") ELSE Ended

\* A command moves the old file away, the others copy it.
MovesAway == w.call.tool = "command" /\ w.snap[Current.path].act = "modified"
CanBackUp == CASE Current.do = "add"                                     -> files[Current.path] = Missing
               [] Current.do \in {"update", "delete", "rename"} \/ MovesAway -> files[Current.path] # Missing
               [] OTHER                                                  -> TRUE

BackedUp ==
  IF w.call.tool = "command" THEN [w.snap EXCEPT ![Current.path].backup = files[Current.path]]
  ELSE [p \in Paths |-> IF p \in {Current.path, Current.to} THEN Snapshot(p) ELSE w.snap[p]]

Backup ==
  /\ w.pc = "backup"
  /\ \/ /\ CanBackUp
        /\ w' = [w EXCEPT !.pc = "write", !.snap = BackedUp]
        /\ files' = IF MovesAway THEN [files EXCEPT ![Current.path] = Missing] ELSE files
        /\ UNCHANGED failures
     \/ ~CanBackUp /\ w' = Abandoned /\ UNCHANGED <<files, failures>>
     \/ Fails /\ w' = Abandoned /\ UNCHANGED files
  /\ UNCHANGED <<logs, manifest, dirty, restored, made>> /\ Counters

\* The change itself is one system call.
CanWrite == Current.do \in {"delete", "rename"} => files[Current.path] # Missing
Written ==
  CASE Current.do = "delete" -> [files EXCEPT ![Current.path] = Missing]
    [] Current.do = "rename" -> [files EXCEPT ![Current.path] = Missing,
                                              ![Current.to] = files[Current.path]]
    [] OTHER                 -> [files EXCEPT ![Current.path] = made + 1]

Write ==
  /\ w.pc = "write" /\ CanWrite
  /\ files' = Written
  /\ made' = IF Current.do \in {"delete", "rename"} THEN made ELSE made + 1
  /\ w' = [w EXCEPT !.done = Append(@, Result),
                    !.pc = IF w.n = Len(w.call.changes) THEN "record" ELSE "backup",
                    !.n  = IF w.n = Len(w.call.changes) THEN 1 ELSE @ + 1]
  /\ UNCHANGED <<logs, manifest, dirty, restored, failures>> /\ Counters

\* A command moves the old file back, if it can; a file that a patch writes may
\* have been replaced before write_file_atomically fails.  Neither is rolled back.
MovedBack ==
  IF MovesAway THEN [files EXCEPT ![Current.path] = w.snap[Current.path].backup] ELSE files

WriteFails ==
  /\ w.pc = "write" /\ (CanWrite => Fails) /\ (~CanWrite => UNCHANGED failures)
  /\ \/ files' = MovedBack /\ UNCHANGED <<dirty, made>>
     \/ /\ \/ MovesAway /\ UNCHANGED <<files, made>>
           \/ Current.do \in {"add", "update"} /\ files' = Written /\ made' = made + 1
        /\ dirty' = dirty \cup {Current.path}
  /\ w' = Abandoned
  /\ UNCHANGED <<logs, manifest, restored>> /\ Counters

\* Mutant of RolledBack: a file that the call created stays.
RolledBackModified(r) ==
  IF r.act = "created" THEN files ELSE [files EXCEPT ![r.path] = r.backup]

\* rollback and rollback_committed_files: the last change first.
RolledBack(r) == [files EXCEPT ![r.path] = r.backup]

Rollback ==
  /\ w.pc = "rollback"
  /\ IF w.done = <<>>
     THEN w' = Ended /\ UNCHANGED <<files, dirty, failures>>
     ELSE /\ w' = [w EXCEPT !.done = Front(@)]
          /\ \/ files' = RolledBack(Last(w.done)) /\ UNCHANGED <<dirty, failures>>
             \/ /\ Fails /\ dirty' = dirty \cup {Last(w.done).path}
                /\ files' \in {files, RolledBack(Last(w.done))}
  /\ UNCHANGED <<logs, manifest, restored, made>> /\ Counters

-----------------------------------------------------------------------------
(* Tools that write their files themselves: translate_series, which keeps a *)
(* manifest and goes on after a file that failed, and those of one file     *)

Overwrites == w.call.overwrite \/ Current.do = "preview"
IsSeries   == w.call.tool = "series"

\* persist_batch_progress at the end of a file, or after the last one.
SaveManifest(m, next) ==
  \/ manifest' = m /\ w' = next /\ UNCHANGED failures
  \/ Fails /\ w' = Ended /\ UNCHANGED manifest
NextFile == [w EXCEPT !.pc = "file", !.n = @ + 1]

File ==
  /\ w.pc = "file"
  /\ CASE w.n > Len(w.call.changes) -> SaveManifest([manifest EXCEPT !.complete = TRUE], Ended)
       [] w.n <= Len(w.call.changes) /\ (files[Current.path] = Missing \/ Overwrites) ->
            w' = At("translating") /\ UNCHANGED <<manifest, failures>>
       [] OTHER -> IF IsSeries THEN SaveManifest(manifest, NextFile)
                   ELSE w' = Ended /\ UNCHANGED <<manifest, failures>>
  /\ UNCHANGED <<files, logs, dirty, restored, made>> /\ Counters

\* The user cancels, or the provider's budget is used up.
Stops == w.pc \in {"file", "translating"} /\ OnlyMoves(Ended)

\* Mutant of Translated: the manifest lists the output at once.
TranslatedListed ==
  /\ w.pc = "translating"
  /\ files' = [files EXCEPT ![Current.path] = made + 1] /\ made' = made + 1
  /\ manifest' = [manifest EXCEPT !.outputs = @ \cup {Current.path}]
  /\ w' = At("record")
  /\ UNCHANGED <<logs, dirty, restored, failures>> /\ Counters

\* The output replaces what is there by then; a preview writes nothing.
Translated ==
  /\ w.pc = "translating"
  /\ IF Current.do = "preview" THEN UNCHANGED <<files, made>>
     ELSE files' = [files EXCEPT ![Current.path] = made + 1] /\ made' = made + 1
  /\ w' = At("record")
  /\ UNCHANGED <<logs, manifest, dirty, restored, failures>> /\ Counters

\* A failure after the output has replaced the file leaves it there.
FileFails ==
  /\ w.pc = "translating" /\ Fails
  /\ \/ UNCHANGED <<files, dirty, made>>
     \/ /\ Current.do = "written"
        /\ files' = [files EXCEPT ![Current.path] = made + 1] /\ made' = made + 1
        /\ dirty' = dirty \cup {Current.path}
  /\ w' = IF IsSeries THEN NextFile ELSE Ended
  /\ UNCHANGED <<logs, manifest, restored>> /\ Counters

-----------------------------------------------------------------------------
(* record_file_operation *)

Selfwritten == w.call.tool \in {"series", "writer"}
Recorded    == IF Selfwritten THEN Result ELSE w.done[w.n]
HasSnapshot == Selfwritten => w.snap[Current.path] # None
Unrecorded  ==
  LET rest == {w.call.changes[i] : i \in w.n..Len(w.call.changes)} IN
  {c.path : c \in rest} \cup ({c.to : c \in rest} \ {None})

\* The fingerprints are those of this moment.
Event == [act |-> Recorded.act, path |-> Recorded.path, to |-> Recorded.to,
          backup |-> Recorded.backup, toBackup |-> Recorded.toBackup,
          post |-> files[Recorded.path],
          toPost |-> IF Recorded.to = None THEN Missing ELSE files[Recorded.to],
          group |-> w.group, undone |-> FALSE]

AfterRecord ==
  CASE IsSeries -> At("manifest")
    [] ~IsSeries /\ w.n < Len(w.call.changes) -> [w EXCEPT !.n = @ + 1]
    [] OTHER -> Ended

\* AgentSession and its file; the candidate becomes the session once saved.
Record ==
  /\ w.pc = "record" /\ HasSnapshot
  /\ mem' = Append(mem, Event) /\ disk' = mem'
  /\ w' = AfterRecord
  /\ UNCHANGED <<files, manifest, dirty, restored, made, failures>> /\ Counters

\* Mutant of RecordFails: the session keeps the event it could not save.
RecordFailsKept ==
  /\ w.pc = "record" /\ HasSnapshot /\ Fails
  /\ mem' = Append(mem, Event)
  /\ w' = Ended
  /\ UNCHANGED <<files, disk, manifest, dirty, restored, made>> /\ Counters

\* The rest of the call's changes stays unrecorded.
RecordFails ==
  /\ w.pc = "record" /\ (HasSnapshot => Fails) /\ (~HasSnapshot => UNCHANGED failures)
  /\ dirty' = dirty \cup IF Selfwritten THEN {Current.path} ELSE Unrecorded
  /\ w' = Ended
  /\ UNCHANGED <<files, logs, manifest, restored, made>> /\ Counters

\* The file joins the manifest once it is recorded.
FileListed ==
  /\ w.pc = "manifest"
  /\ SaveManifest([manifest EXCEPT !.outputs = @ \cup {Current.path}], NextFile)
  /\ UNCHANGED <<files, logs, dirty, restored, made>> /\ Counters

-----------------------------------------------------------------------------
(* UndoService::undo_last *)

PathsOf(e) == {e.path, e.to} \ {None}
Open(k)    == ~mem[k].undone
LastOpen   == {k \in DOMAIN mem : Open(k) /\ \A j \in DOMAIN mem : Open(j) => j <= k}

\* Mutant of Targets: events of the group that are undone already come along.
TargetsAll(k) ==
  {j \in DOMAIN mem : j = k \/ (mem[k].group # 0 /\ mem[j].group = mem[k].group)}

\* The last event not undone, with what is left of its group.
Targets(k) ==
  {j \in DOMAIN mem : j = k \/ (mem[k].group # 0 /\ mem[j].group = mem[k].group /\ Open(j))}

\* The events are verified from the first to the last, and restored backwards.
Undo ==
  /\ w.pc = "idle"
  /\ \E k \in LastOpen : w' = [Idle EXCEPT !.pc = "verify", !.targets = Targets(k),
                                           !.n = Min(Targets(k))]
  /\ edited' = {}
  /\ UNCHANGED <<files, logs, manifest, base, dirty, restored, made,
                 requests, edits, crashes, failures>>

Target  == mem[w.n]
Later   == {j \in w.targets : j > w.n}
Earlier == {j \in w.targets : j < w.n}

\* verify_unchanged
Unchanged(e) == files[e.path] = e.post /\ (e.to # None => files[e.to] = e.toPost)

\* Mutant of Verified: only the first event of the group is checked.
VerifiedFirst == [w EXCEPT !.pc = "restore", !.n = Max(w.targets)]

Verified == IF Later = {} THEN At("restore") ELSE [w EXCEPT !.n = Min(Later)]
Verify ==
  /\ w.pc = "verify"
  /\ OnlyMoves(IF Unchanged(Target) THEN Verified ELSE At("conflict"))

\* The cancellation is checked before each event.
UndoStops == w.pc \in {"verify", "restore"} /\ OnlyMoves(Ended)

\* The source of a rename is restored before its destination.
Parts(e)     == IF e.to = None THEN <<e.path>> ELSE <<e.path, e.to>>
Backed(e, p) == IF p = e.path THEN e.backup ELSE e.toBackup

Restore ==
  /\ w.pc = "restore"
  /\ OnlyMoves([w EXCEPT !.pc = "restoring", !.parts = Parts(Target)])

\* remove_for_undo or restore_for_undo of one file.
RestorePart ==
  /\ w.pc = "restoring"
  /\ \/ LET p == Head(w.parts) IN
        /\ files' = [files EXCEPT ![p] = Backed(Target, p)]
        /\ base' = [base EXCEPT ![p].content = IF base[p].at >= w.n THEN files'[p] ELSE @]
        /\ w' = [w EXCEPT !.parts = Tail(@),
                          !.pc = IF Len(w.parts) = 1 THEN "mark" ELSE @]
        /\ restored' = IF Len(w.parts) = 1 THEN restored \cup {w.n} ELSE restored
        /\ UNCHANGED <<dirty, failures>>
     \/ /\ Fails /\ w' = Ended /\ dirty' = dirty \cup PathsOf(Target)
        /\ files' \in {files, [files EXCEPT ![Head(w.parts)] = Backed(Target, Head(w.parts))]}
        /\ UNCHANGED <<base, restored>>
  /\ UNCHANGED <<logs, manifest, made, edited, requests, edits, crashes>>

\* Mutant of Marked: the whole group is marked with its first file.
MarkedGroup == [k \in DOMAIN mem |-> IF k \in w.targets THEN [mem[k] EXCEPT !.undone = TRUE]
                                     ELSE mem[k]]

Marked == [mem EXCEPT ![w.n].undone = TRUE]

\* The session keeps the mark when it cannot be saved.
Mark ==
  /\ w.pc = "mark"
  /\ mem' = Marked
  /\ \/ /\ disk' = Marked /\ UNCHANGED failures
        /\ w' = IF Earlier = {} THEN Ended
                ELSE [w EXCEPT !.n = Max(Earlier), !.pc = "restore"]
     \/ Fails /\ w' = Ended /\ UNCHANGED disk
  /\ UNCHANGED <<files, manifest, dirty, restored, made>> /\ Counters

-----------------------------------------------------------------------------
(* Around the operations *)

\* The result of the call, the Undo event or the error is recorded.
End ==
  /\ w.pc \in {"end", "conflict"}
  /\ w' = Idle
  /\ \/ disk' = mem /\ UNCHANGED failures
     \/ Fails /\ UNCHANGED disk
  /\ UNCHANGED <<files, mem, manifest, dirty, restored, made>> /\ Counters

\* The paths the operation in progress may leave half changed.
InFlight == (IF w.call = None THEN {} ELSE UNION {PathsOf(c) : c \in ToSet(w.call.changes)})
              \cup UNION {PathsOf(mem[k]) : k \in w.targets}

\* The user writes or deletes a file.
UserEdits(p) ==
  /\ edits < MaxEdits
  /\ edits' = edits + 1
  /\ \/ files[p] # Missing /\ files' = [files EXCEPT ![p] = Missing] /\ UNCHANGED made
     \/ files' = [files EXCEPT ![p] = made + 1] /\ made' = made + 1
  /\ base' = [base EXCEPT ![p] = [content |-> files'[p], at |-> Len(mem)]]
  /\ edited' = IF w.targets = {} THEN edited ELSE edited \cup {p}
  /\ dirty' = IF p \in InFlight THEN dirty \cup {p} ELSE dirty
  /\ UNCHANGED <<logs, manifest, w, restored, requests, crashes, failures>>

\* The process ends; the next one resumes the session from its file.
Crash ==
  /\ crashes < MaxCrashes
  /\ crashes' = crashes + 1
  /\ mem' = disk /\ w' = Idle
  /\ dirty' = dirty \cup InFlight
                \cup UNION {PathsOf(mem[k]) : k \in {j \in DOMAIN mem : mem[j] # disk[j]}}
  /\ UNCHANGED <<files, disk, manifest, base, edited, restored, made,
                 requests, edits, failures>>

Next ==
  \/ \E c \in Calls : Begin(c)
  \/ Prepare \/ Refuse \/ Backup \/ Write \/ WriteFails \/ Rollback
  \/ File \/ Stops \/ Translated \/ FileFails
  \/ Record \/ RecordFails \/ FileListed
  \/ Undo \/ Verify \/ UndoStops \/ Restore \/ RestorePart \/ Mark \/ End
  \/ \E p \in Paths : UserEdits(p)
  \/ Crash

Spec == Init /\ [][Next]_vars

-----------------------------------------------------------------------------
(* Properties *)

States == {"idle", "prepare", "backup", "write", "rollback", "file", "translating",
           "record", "manifest", "verify", "restore", "restoring", "mark", "conflict", "end"}

\* Every state is one of the program; the session file lags behind the
\* session by undone marks only, as an event joins both or none.
TypeOK ==
  /\ files \in [Paths -> 0..made]
  /\ w.pc \in States /\ (w.pc = "idle" => w = Idle)
  /\ Len(mem) = Len(disk)
  /\ \A k \in DOMAIN mem :
       /\ mem[k] \in [act : {"created", "modified", "deleted", "renamed"}, path : Paths,
                      to : Paths \cup {None}, backup : 0..made, toBackup : 0..made,
                      post : 0..made, toPost : 0..made, group : 0..MaxRequests,
                      undone : BOOLEAN]
       /\ disk[k] = mem[k] \/ mem[k] = [disk[k] EXCEPT !.undone = TRUE]
  /\ dirty \subseteq Paths /\ edited \subseteq Paths /\ restored \subseteq DOMAIN mem

\* What the log says of a file: what the last event not undone left there, or
\* what the user left there after it.
Logged(p) ==
  LET ks == {k \in DOMAIN mem : ~mem[k].undone /\ k > base[p].at /\ p \in PathsOf(mem[k])} IN
  IF ks = {} THEN base[p].content
  ELSE LET e == mem[Max(ks)] IN IF p = e.path THEN e.post ELSE e.toPost

\* Between operations the log explains every file: whatever was changed,
\* rolled back, skipped, undone once or undone again, each file holds what the
\* last event not undone recorded, or the user's own later content.  Only
\* crashes, I/O errors and edits in the middle of an operation are excepted,
\* for the paths of that operation (undo_last, record_file_operation,
\* rollback, commit_staged_files).
LogExplainsFiles == w.pc = "idle" => \A p \in Paths \ dirty : files[p] = Logged(p)

\* An undo reports a conflict only over a file that the user changed after
\* the event, that a failure left behind, or that a directory run translated two
\* sources to: no other sequence of tools, undos and cancelled undos makes SubBake
\* conflict with itself (verify_unchanged).  In the last case it does, and the
\* run can never be undone.
ConflictIsReal ==
  w.pc = "conflict" =>
    \/ \E p \in PathsOf(Target) : p \in dirty \/ base[p].at >= w.n
    \/ \E k \in Later : mem[k].path = Target.path

\* An event that the session file calls undone has its files back, whatever
\* failed or crashed in between (the save that follows restore_event).
UndoneIsRestored == \A k \in DOMAIN disk : disk[k].undone => k \in restored

\* An output that the manifest of a directory run lists can be undone: its
\* event is in the session file (on_output before persist_batch_progress).
ManifestRecorded ==
  \A p \in manifest.outputs :
    \E k \in DOMAIN disk : disk[k].path = p /\ disk[k].group = manifest.group

\* Undo overwrites or removes only the content that its event recorded: an edit
\* that the user makes after the operation was recorded and before the undo
\* begins is never discarded, whatever else is undone or fails (the verification
\* of the whole group).  Two edits may be: one between the write and the record,
\* whose content is recorded as the operation's own, and one made while the undo
\* is running, after its file was verified.
UndoPreserves ==
  [][ w.pc = "restoring" /\ edits' = edits =>
        \A p \in Paths : files'[p] # files[p] =>
          \/ p \in edited
          \/ p = Target.path /\ files[p] = Target.post
          \/ p = Target.to /\ files[p] = Target.toPost ]_vars
=============================================================================
