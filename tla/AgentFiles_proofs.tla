-------------------------- MODULE AgentFiles_proofs --------------------------
(***************************************************************************)
(* The safety of AgentFiles for all values of its constants: one inductive *)
(* invariant, FilesInv, from which the properties of the runs follow.      *)
(* The argument turns on what the log says of a path, Says(p).  Between  *)
(* operations every file holds that; each event's backup is what the log   *)
(* said of the path before the event, unless the user has edited the file  *)
(* since; and the events an undo restores are the last open ones, so that  *)
(* what it puts back is what the log says once the event is marked.        *)
(***************************************************************************)
EXTENDS AgentFiles, SequenceTheorems, WellFoundedInduction, TLAPS

Snaps(m) == [act : {"created", "modified"}, backup : 0..m]

Results(m) == [act : {"created", "modified", "deleted", "renamed"}, path : Paths,
               to : Paths \cup {None}, backup : 0..m, toBackup : 0..m]

Events(m) == [act : {"created", "modified", "deleted", "renamed"}, path : Paths,
              to : Paths \cup {None}, backup : 0..m, toBackup : 0..m,
              post : 0..m, toPost : 0..m, group : 0..MaxRequests, undone : BOOLEAN]

Works(m, r, k) == [pc : States, call : Calls \cup {None}, group : 0..r, n : Nat,
                   done : Seq(Results(m)), snap : [Paths -> {None} \cup Snaps(m)],
                   targets : SUBSET (1..k), parts : Seq(Paths)]

Manifests == [group : Nat, outputs : SUBSET Paths, complete : BOOLEAN]

Bases(m, k) == [content : 0..m, at : 0..k]

CallPhases == {"prepare", "backup", "write", "rollback", "file", "translating",
               "record", "manifest"}
UndoPhases == {"verify", "restore", "restoring", "mark", "conflict"}

\* What event e recorded of p.
Post(e, p) == IF p = e.path THEN e.post ELSE e.toPost

\* What the first k events of a log say of p, after the user left b there;
\* Says(p) is Logged(p), with the log and the base as parameters.
Speaks(log, b, p, k) == {j \in 1..k : ~log[j].undone /\ j > b.at /\ p \in PathsOf(log[j])}
LoggedIn(log, b, p, k) ==
  IF Speaks(log, b, p, k) = {} THEN b.content
  ELSE Post(log[Max(Speaks(log, b, p, k))], p)

\* The paths that the operation has changed, or will have restored, without
\* the log saying so yet.
Touched ==
  CASE w.pc \in {"backup", "rollback"} -> {w.done[i].path : i \in DOMAIN w.done}
    [] w.pc = "write"  -> {w.done[i].path : i \in DOMAIN w.done}
                            \cup (IF MovesAway THEN {Current.path} ELSE {})
    [] w.pc = "record" -> IF Selfwritten THEN {Current.path} ELSE Unrecorded
    [] w.pc \in {"restoring", "mark"} -> PathsOf(mem[w.n])
    [] OTHER -> {}

Says(p) == LoggedIn(mem, base[p], p, Len(mem))

-----------------------------------------------------------------------------
(* The parts of the invariant *)

FileTypes ==
  /\ made \in Nat /\ requests \in 0..MaxRequests
  /\ files \in [Paths -> 0..made]
  /\ mem \in Seq(Events(made)) /\ disk \in Seq(Events(made)) /\ Len(mem) = Len(disk)
  /\ base \in [Paths -> Bases(made, Len(mem))]
  /\ w \in Works(made, requests, Len(mem))
  /\ manifest \in Manifests
  /\ dirty \subseteq Paths /\ edited \subseteq Paths /\ restored \subseteq 1..Len(mem)

\* The session file lags behind the session by undone marks.
Saved == \A k \in 1..Len(mem) :
           disk[k] = mem[k] \/ mem[k] = [disk[k] EXCEPT !.undone = TRUE]

PhaseOK ==
  /\ w.pc = "idle" => w = Idle
  /\ w.pc = "end" => w = Ended
  /\ w.pc \in UndoPhases => w.call = None /\ w.n \in w.targets
  /\ w.pc \in CallPhases =>
       /\ w.call \in Calls /\ w.targets = {} /\ w.n >= 1
       /\ w.group # 0 => w.call.tool # "single"
       /\ IsSeries => w.group # 0
       /\ Len(w.done) <= Len(w.call.changes)
       /\ \A i \in 1..Len(w.done) : /\ w.done[i].path = w.call.changes[i].path
                                    /\ w.done[i].to = w.call.changes[i].to
       /\ IsSeries /\ w.pc # "prepare" => manifest.group = w.group
  /\ w.pc = "prepare" => w.n = 1 /\ w.done = <<>>
  /\ w.pc \in {"backup", "write", "translating", "record", "manifest"} =>
       w.n <= Len(w.call.changes)
  /\ w.pc \in {"backup", "write"} => ~Selfwritten /\ Len(w.done) = w.n - 1
  /\ w.pc = "rollback" => w.call.tool \in {"patch", "command"}
  /\ w.pc \in {"file", "translating"} => Selfwritten
  /\ w.pc = "record" /\ ~Selfwritten => Len(w.done) = Len(w.call.changes)
  /\ w.pc = "manifest" => IsSeries

\* The snapshots that the rest of the call will need.
SnapsTaken ==
  /\ w.pc \in {"backup", "write"} /\ w.call.tool = "command" =>
       \A i \in 1..Len(w.call.changes) : w.snap[w.call.changes[i].path] # None
  /\ w.pc = "write" => \A p \in PathsOf(Current) : w.snap[p] # None

Explained == \A p \in Paths \ (dirty \cup Touched) : files[p] = Says(p)

\* Whether the call in progress has recorded an event of p.
Joined(p) == w.group # 0 /\ \E k \in 1..Len(mem) : mem[k].group = w.group /\ mem[k].path = p

\* A backup is what the log says of its file; that of an output which a series
\* writes again is older.
BackupKnown(r) == /\ r.path \notin dirty => r.backup = Says(r.path)
                  /\ r.to \notin dirty \cup {None} => r.toBackup = Says(r.to)
SnapKnown(p) == p \notin dirty /\ w.snap[p] # None => w.snap[p].backup = Says(p)

Ahead == IF w.pc = "manifest" THEN w.n + 1 ELSE w.n

\* The events of a series have the backups it took; an output that it has just
\* written again is not what its event recorded.
SeriesRecords ==
  w.pc \in {"file", "translating", "record", "manifest"} /\ IsSeries /\ w.group # 0 =>
    \A j \in 1..Len(mem) : mem[j].group = w.group =>
      /\ w.snap[mem[j].path] # None => mem[j].backup = w.snap[mem[j].path].backup
      /\ w.pc = "record" /\ mem[j].path = Current.path =>
           mem[j].path \in dirty \/ files[mem[j].path] # mem[j].post

BackupsKnown ==
  /\ w.pc \in {"backup", "write", "rollback"} => \A i \in 1..Len(w.done) : BackupKnown(w.done[i])
  /\ w.pc = "record" /\ ~Selfwritten => \A i \in w.n..Len(w.done) : BackupKnown(w.done[i])
  /\ w.pc = "write" => \A p \in PathsOf(Current) : SnapKnown(p)
  /\ w.pc \in {"file", "translating", "record", "manifest"} /\ Selfwritten =>
       \A i \in Ahead..Len(w.call.changes) :
         Joined(w.call.changes[i].path) \/ SnapKnown(w.call.changes[i].path)
  /\ SeriesRecords

\* Event k is not the first of its group at its path.
Again(log, k) ==
  /\ log[k].group # 0
  /\ \E i \in 1..(k - 1) : log[i].group = log[k].group /\ log[i].path = log[k].path

\* The backup of an event is what the events before it say of the path.
Chain ==
  \A k \in 1..Len(mem) : ~mem[k].undone /\ ~Again(mem, k) =>
    \A p \in PathsOf(mem[k]) \ dirty :
      base[p].at < k => Backed(mem[k], p) = LoggedIn(mem, base[p], p, k - 1)

\* The events of a group lie together.  Two of the same path have the same backup
\* and differ in what they recorded.
Groups ==
  /\ \A k \in 1..Len(mem) : /\ mem[k].group <= requests
                            /\ mem[k].to # mem[k].path
                            /\ mem[k].group # 0 => mem[k].to = None
  /\ \A i, j \in 1..Len(mem) :
       i < j /\ mem[i].group = mem[j].group /\ mem[i].group # 0 =>
         /\ \A k \in i..j : mem[k].group = mem[i].group
         /\ mem[i].path = mem[j].path =>
              /\ mem[i].backup = mem[j].backup
              /\ mem[i].path \in dirty \/ mem[i].post # mem[j].post

\* A group is undone from its last event on.
UndoneUp(log) ==
  \A i, j \in 1..Len(log) :
    i < j /\ log[i].group = log[j].group /\ log[i].group # 0 /\ log[i].undone => log[j].undone

\* How many changes of the call may have been recorded.
Recordable == CASE w.pc \in {"file", "translating", "record"} -> w.n - 1
                [] w.pc = "manifest" -> w.n
                [] OTHER -> 0

\* The events of the call in progress are the last ones.
GroupOfCall ==
  w.pc \in CallPhases /\ w.group # 0 =>
    \A j \in 1..Len(mem) : mem[j].group = w.group =>
      /\ \A k \in j..Len(mem) : mem[k].group = w.group
      /\ \E i \in 1..Recordable : i <= Len(w.call.changes) /\ mem[j].path = w.call.changes[i].path
      /\ ~mem[j].undone

TargetsLast ==
  w.pc \in UndoPhases =>
    /\ \A t \in w.targets, j \in 1..Len(mem) : ~mem[j].undone /\ j >= t => j \in w.targets
    /\ \A t \in w.targets, j \in 1..Len(mem) :
         ~mem[j].undone /\ mem[j].group = mem[t].group /\ mem[j].group # 0 => j \in w.targets
    /\ \A s, t \in w.targets : s # t => mem[s].group = mem[t].group /\ mem[s].group # 0
    /\ w.pc \in {"verify", "conflict"} => \A t \in w.targets : ~mem[t].undone
    /\ w.pc \in {"restore", "restoring", "mark"} =>
         /\ \A j \in 1..Len(mem) : ~mem[j].undone => j <= w.n
         /\ \A t \in w.targets : t <= w.n => ~mem[t].undone

\* A group that is being restored has one event of each path, but for paths
\* edited under an operation.
NoRivals ==
  /\ w.pc \in {"restore", "restoring", "mark"} =>
       \A s, t \in w.targets : s < t /\ mem[s].path = mem[t].path => mem[s].path \in dirty
  /\ w.pc \in UndoPhases =>
       \A t \in w.targets : \A p \in PathsOf(mem[t]) : p \in edited => p \in dirty

PartsLeft ==
  /\ w.pc = "restoring" => \/ w.parts = Parts(mem[w.n])
                           \/ mem[w.n].to # None /\ w.parts = <<mem[w.n].to>>
  /\ w.pc = "mark" => w.parts = <<>> /\ w.n \in restored

IsLeft(p) == \E i \in 1..Len(w.parts) : w.parts[i] = p

PutBack ==
  w.pc \in {"restoring", "mark"} =>
    \A p \in PathsOf(mem[w.n]) \ dirty : ~IsLeft(p) =>
      /\ files[p] = Backed(mem[w.n], p)
      /\ base[p].at >= w.n => base[p].content = files[p]

\* Which files of the targets have been verified and are not restored yet.
Intact(t, p) == CASE w.pc = "restore"   -> t <= w.n
                  [] w.pc = "restoring" -> t < w.n \/ (t = w.n /\ IsLeft(p))
                  [] OTHER              -> t < w.n

StillPosted ==
  w.pc \in {"verify", "restore", "restoring", "mark"} =>
    \A t \in w.targets : \A p \in PathsOf(mem[t]) \ edited :
      Intact(t, p) => \/ files[p] = Post(mem[t], p)
                      \/ w.pc # "verify" /\ files[p] = Backed(mem[t], p)

UndoneRestored ==
  /\ \A k \in 1..Len(mem) : mem[k].undone => k \in restored
  /\ UndoneUp(mem) /\ UndoneUp(disk)

Listed ==
  /\ \A p \in manifest.outputs :
       \E k \in 1..Len(disk) : disk[k].path = p /\ disk[k].group = manifest.group
  /\ w.pc = "manifest" =>
       \E k \in 1..Len(disk) : disk[k].path = Current.path /\ disk[k].group = w.group

FilesInv ==
  /\ FileTypes /\ Saved /\ PhaseOK /\ SnapsTaken
  /\ Explained /\ BackupsKnown /\ Chain
  /\ Groups /\ GroupOfCall
  /\ TargetsLast /\ NoRivals /\ PartsLeft /\ PutBack /\ StillPosted
  /\ UndoneRestored /\ Listed

-----------------------------------------------------------------------------
(* Maxima, and what a log says *)

LEMMA LeastNumber ==
  ASSUME NEW S \in SUBSET Nat, S # {}
  PROVE  \E x \in S : \A y \in S : x <= y
PROOF
  <1> DEFINE R == OpToRel(<, Nat)
  <1>1. IsWellFoundedOn(R, Nat)
    BY NatLessThanWellFounded
  <1>2. \A x, y \in Nat : y < x <=> <<y, x>> \in R
    BY DEF OpToRel
  <1> HIDE DEF R
  <1>3. PICK x \in S : \A y \in S : ~ (<<y, x>> \in R)
    BY <1>1, WFMin
  <1>4. ASSUME NEW y \in S PROVE x <= y
    <2>1. x \in Nat /\ y \in Nat
      OBVIOUS
    <2>2. ~ (y < x)
      BY <1>2, <1>3, <2>1
    <2> QED BY <2>1, <2>2
  <1> QED BY <1>3, <1>4

LEMMA MinIsLeast ==
  ASSUME NEW S \in SUBSET Nat, S # {}
  PROVE  Min(S) \in S /\ \A y \in S : Min(S) <= y
PROOF
  BY LeastNumber DEF Min

LEMMA MaxIsGreatest ==
  ASSUME NEW k \in Nat, NEW S \in SUBSET (1..k), S # {}
  PROVE  Max(S) \in S /\ \A y \in S : y <= Max(S)
PROOF
  <1> DEFINE T == {k - y : y \in S}
  <1>1. T \in SUBSET Nat /\ T # {}
    <2>1. \A y \in S : y \in Nat /\ y <= k /\ k - y \in Nat
      OBVIOUS
    <2> QED BY <2>1
  <1>2. PICK t \in T : \A u \in T : t <= u
    BY <1>1, LeastNumber
  <1>3. PICK x \in S : t = k - x
    BY <1>2
  <1>4. \A y \in S : x >= y
    <2> TAKE y \in S
    <2>1. k - x <= k - y
      BY <1>2, <1>3
    <2> QED BY <2>1
  <1>5. Max(S) \in S /\ \A y \in S : Max(S) >= y
    BY <1>4 DEF Max
  <1> QED BY <1>5

LEMMA MaxIs ==
  ASSUME NEW k \in Nat, NEW S \in SUBSET (1..k), NEW j \in S, \A i \in S : i <= j
  PROVE  Max(S) = j
PROOF
  <1>1. Max(S) \in S /\ \A y \in S : y <= Max(S)
    BY MaxIsGreatest
  <1>2. \A i \in S : i \in Nat
    OBVIOUS
  <1>3. Max(S) \in Nat /\ j \in Nat
    BY <1>1, <1>2
  <1>4. Max(S) <= j /\ j <= Max(S)
    BY <1>1
  <1> QED BY <1>3, <1>4

\* Logs that say the same of a path up to k hold the same.
LEMMA LoggedSame ==
  ASSUME NEW k \in Nat, NEW l \in Nat, NEW log, NEW new, NEW b, NEW c, NEW p,
         b.content = c.content,
         Speaks(log, b, p, k) = Speaks(new, c, p, l),
         \A j \in Speaks(log, b, p, k) : Post(log[j], p) = Post(new[j], p)
  PROVE  LoggedIn(log, b, p, k) = LoggedIn(new, c, p, l)
PROOF
  <1> DEFINE S == Speaks(log, b, p, k)
  <1>1. S \in SUBSET (1..k)
    BY DEF Speaks
  <1>2. CASE S = {}
    BY <1>2 DEF LoggedIn
  <1>3. CASE S # {}
    <2>1. Max(S) \in S
      BY <1>1, <1>3, MaxIsGreatest
    <2> QED BY <1>3, <2>1 DEF LoggedIn
  <1> QED BY <1>2, <1>3

\* The last event that speaks of a path decides.
LEMMA LoggedLast ==
  ASSUME NEW k \in Nat, NEW log, NEW b, NEW p, NEW j \in Speaks(log, b, p, k),
         \A i \in Speaks(log, b, p, k) : i <= j
  PROVE  LoggedIn(log, b, p, k) = Post(log[j], p)
PROOF
  <1>1. Speaks(log, b, p, k) \in SUBSET (1..k)
    BY DEF Speaks
  <1>2. Max(Speaks(log, b, p, k)) = j
    BY <1>1, MaxIs
  <1> QED BY <1>2 DEF LoggedIn

\* Without one, the base does.
LEMMA LoggedNone ==
  ASSUME NEW k, NEW log, NEW b, NEW p, Speaks(log, b, p, k) = {}
  PROVE  LoggedIn(log, b, p, k) = b.content
PROOF
  BY DEF LoggedIn

\* A new event changes what the log says of its own paths only.
LEMMA LoggedOld ==
  ASSUME NEW E, NEW log \in Seq(E), NEW e \in E, NEW b, NEW p, NEW k \in 0..Len(log)
  PROVE  LoggedIn(Append(log, e), b, p, k) = LoggedIn(log, b, p, k)
PROOF
  <1> DEFINE new == Append(log, e)
  <1>1. \A j \in 1..k : new[j] = log[j]
    OBVIOUS
  <1>2. Speaks(new, b, p, k) = Speaks(log, b, p, k)
    BY <1>1 DEF Speaks
  <1>3. \A j \in Speaks(log, b, p, k) : Post(log[j], p) = Post(new[j], p)
    BY <1>1 DEF Speaks
  <1>4. k \in Nat
    OBVIOUS
  <1> HIDE DEF new
  <1>5. LoggedIn(new, b, p, k) = LoggedIn(log, b, p, k)
    BY <1>2, <1>3, <1>4, LoggedSame
  <1> QED BY <1>5 DEF new

LEMMA LoggedOthers ==
  ASSUME NEW E, NEW log \in Seq(E), NEW e \in E, NEW b, NEW p, p \notin PathsOf(e)
  PROVE  LoggedIn(Append(log, e), b, p, Len(log) + 1) = LoggedIn(log, b, p, Len(log))
PROOF
  <1> DEFINE new == Append(log, e)
  <1>1. /\ \A j \in 1..Len(log) : new[j] = log[j]
        /\ new[Len(log) + 1] = e
        /\ Len(log) \in Nat
    OBVIOUS
  <1>2. 1..(Len(log) + 1) = (1..Len(log)) \cup {Len(log) + 1}
    BY <1>1
  <1>3. Speaks(new, b, p, Len(log) + 1) = Speaks(log, b, p, Len(log))
    BY <1>1, <1>2 DEF Speaks
  <1>4. \A j \in Speaks(log, b, p, Len(log)) : Post(log[j], p) = Post(new[j], p)
    BY <1>1 DEF Speaks
  <1> HIDE DEF new
  <1>5. LoggedIn(new, b, p, Len(log) + 1) = LoggedIn(log, b, p, Len(log))
    BY <1>1, <1>3, <1>4, LoggedSame
  <1> QED BY <1>5 DEF new

LEMMA LoggedNew ==
  ASSUME NEW E, NEW log \in Seq(E), NEW e \in E, NEW b, NEW p \in PathsOf(e),
         ~e.undone, b.at \in 0..Len(log)
  PROVE  LoggedIn(Append(log, e), b, p, Len(log) + 1) = Post(e, p)
PROOF
  <1> DEFINE new == Append(log, e)
  <1>1. new[Len(log) + 1] = e /\ Len(log) \in Nat
    OBVIOUS
  <1>2. /\ Len(log) + 1 \in Speaks(new, b, p, Len(log) + 1)
        /\ \A i \in Speaks(new, b, p, Len(log) + 1) : i <= Len(log) + 1
    BY <1>1 DEF Speaks
  <1> HIDE DEF new
  <1>3. LoggedIn(new, b, p, Len(log) + 1) = Post(new[Len(log) + 1], p)
    BY <1>1, <1>2, LoggedLast
  <1> QED BY <1>1, <1>3 DEF new

-----------------------------------------------------------------------------
(* Types, and steps that leave most of the state alone *)

LEMMA CallFacts ==
  ASSUME NEW c \in Calls
  PROVE  /\ c # None /\ Len(c.changes) \in Nat
         /\ c.tool \in {"patch", "single", "command", "series", "writer"}
         /\ \A i \in 1..Len(c.changes) :
              /\ c.changes[i] \in Change
              /\ c.changes[i].path \in Paths
              /\ c.changes[i].to \in Paths \cup {None}
              /\ c.changes[i].to # c.changes[i].path
              /\ c.changes[i].to = None <=> c.changes[i].do # "rename"
         /\ c.tool # "series" => \A i, j \in 1..Len(c.changes) :
                                   c.changes[i].path = c.changes[j].path => i = j
         /\ c.tool # "single" => \A i \in 1..Len(c.changes) : c.changes[i].to = None
         /\ c.tool \in {"series", "writer"} =>
              \A i \in 1..Len(c.changes) : c.changes[i].do \in {"written", "preview"}
         /\ c.tool = "series" => \A i \in 1..Len(c.changes) : c.changes[i].do = "written"
         /\ c.tool = "command" => \A i \in 1..Len(c.changes) : c.changes[i].do = "output"
         /\ c.tool \in {"single", "writer"} => Len(c.changes) = 1
         /\ c.tool # "series" => 1 <= Len(c.changes)
PROOF
  <1>1. c \in Call /\ c # None
    BY CallsAssumption, NoneAssumption
  <1>2. /\ c.changes \in Seq(Change)
        /\ c.tool \in {"patch", "single", "command", "series", "writer"}
    BY <1>1 DEF Call
  <1>3. /\ DOMAIN c.changes = 1..Len(c.changes) /\ Len(c.changes) \in Nat
        /\ \A i \in 1..Len(c.changes) : c.changes[i] \in Change
    BY <1>2
  <1>4. \A i \in 1..Len(c.changes) : /\ c.changes[i].path \in Paths
                                     /\ c.changes[i].to \in Paths \cup {None}
    BY <1>3 DEF Change
  <1>5. c.tool # "series" =>
          \A i, j \in 1..Len(c.changes) : c.changes[i].path = c.changes[j].path => i = j
    BY <1>3, CallsAssumption
  <1>6. \A i \in 1..Len(c.changes) : /\ c.changes[i].to # None <=> c.changes[i].do = "rename"
                                     /\ c.changes[i].to # c.changes[i].path
    BY <1>3, CallsAssumption
  <1>7. c.tool \in {"single", "writer"} => Len(c.changes) = 1
    BY CallsAssumption
  <1>8. ASSUME NEW i \in 1..Len(c.changes)
        PROVE  /\ c.tool # "single" => c.changes[i].do # "rename"
               /\ c.tool \in {"series", "writer"} => c.changes[i].do \in {"written", "preview"}
               /\ c.tool = "series" => c.changes[i].do = "written"
               /\ c.tool = "command" => c.changes[i].do = "output"
    BY <1>2, <1>3, CallsAssumption
  <1>9. c.tool # "series" => 1 <= Len(c.changes)
    <2>1. c.tool # "series" => c.changes # <<>>
      BY CallsAssumption
    <2>2. c.changes # <<>> => Len(c.changes) # 0
      BY <1>2
    <2> QED BY <1>3, <2>1, <2>2
  <1> QED BY <1>1, <1>2, <1>3, <1>4, <1>5, <1>6, <1>7, <1>8, <1>9

LEMMA WorkFields ==
  FileTypes =>
    /\ w \in Works(made, requests, Len(mem))
    /\ w.pc \in States /\ w.call \in Calls \cup {None} /\ w.group \in 0..requests
    /\ w.n \in Nat /\ w.done \in Seq(Results(made)) /\ w.snap \in [Paths -> {None} \cup Snaps(made)]
    /\ w.targets \in SUBSET (1..Len(mem)) /\ w.parts \in Seq(Paths)
    /\ Len(mem) \in Nat /\ made \in Nat /\ requests \in Nat
PROOF
  BY BoundsAssumption DEF FileTypes, Works

LEMMA EventFields ==
  FileTypes => \A k \in 1..Len(mem) :
    /\ mem[k] \in Events(made) /\ disk[k] \in Events(made)
    /\ mem[k].path \in Paths /\ mem[k].to \in Paths \cup {None}
    /\ mem[k].backup \in 0..made /\ mem[k].toBackup \in 0..made
    /\ mem[k].group \in Nat /\ mem[k].undone \in BOOLEAN
PROOF
  <1> SUFFICES ASSUME FileTypes, NEW k \in 1..Len(mem)
               PROVE  /\ mem[k] \in Events(made) /\ disk[k] \in Events(made)
                      /\ mem[k].path \in Paths /\ mem[k].to \in Paths \cup {None}
                      /\ mem[k].backup \in 0..made /\ mem[k].toBackup \in 0..made
                      /\ mem[k].group \in Nat /\ mem[k].undone \in BOOLEAN
    OBVIOUS
  <1>1. mem[k] \in Events(made) /\ disk[k] \in Events(made)
    BY DEF FileTypes
  <1> QED BY <1>1, BoundsAssumption, SMTT(30) DEF Events

LEMMA IdleIs ==
  /\ requests' \in Nat => /\ Idle \in Works(made', requests', Len(mem'))
                         /\ Ended \in Works(made', requests', Len(mem'))
  /\ Idle.pc = "idle" /\ Ended.pc = "end" /\ Idle.targets = {} /\ Ended.targets = {}
  /\ Idle.call = None /\ Ended.call = None
PROOF
  <1>1. /\ Idle.pc = "idle" /\ Ended.pc = "end" /\ Idle.targets = {} /\ Ended.targets = {}
        /\ Idle.call = None /\ Ended.call = None
    BY DEF Idle, Ended
  <1>2. ASSUME requests' \in Nat
        PROVE  Idle \in Works(made', requests', Len(mem'))
    <2>1. /\ "idle" \in States /\ 0 \in 0..requests' /\ 1 \in Nat
          /\ <<>> \in Seq(Results(made')) /\ <<>> \in Seq(Paths)
          /\ [p \in Paths |-> None] \in [Paths -> {None} \cup Snaps(made')]
      BY <1>2 DEF States
    <2> QED BY <2>1 DEF Idle, Works
  <1>3. ASSUME requests' \in Nat
        PROVE  Ended \in Works(made', requests', Len(mem'))
    <2>1. "end" \in States
      BY DEF States
    <2> QED BY <1>2, <1>3, <2>1 DEF Ended, Works
  <1> QED BY <1>1, <1>2, <1>3

\* The parts of the invariant that only steps of the log can break.
LEMMA LogKept ==
  ASSUME Saved, Chain, Groups, UndoneRestored, UNCHANGED <<mem, disk, base>>,
         dirty \subseteq dirty', requests' = requests, restored \subseteq restored'
  PROVE  Saved' /\ Chain' /\ Groups' /\ UndoneRestored'
PROOF
  <1>1. Saved'
    BY DEF Saved
  <1>2. Chain'
    BY DEF Chain, Again
  <1>3. Groups'
    BY DEF Groups
  <1>4. UndoneRestored'
    BY DEF UndoneRestored, UndoneUp
  <1> QED BY <1>1, <1>2, <1>3, <1>4

LEMMA ExplainedKept ==
  ASSUME Explained, UNCHANGED <<files, mem, base>>,
         dirty \cup Touched \subseteq dirty' \cup Touched'
  PROVE  Explained'
PROOF
  BY DEF Explained, Says

LEMMA NotUndoing ==
  w'.pc \notin UndoPhases => TargetsLast' /\ NoRivals' /\ PartsLeft' /\ PutBack' /\ StillPosted'
PROOF
  BY DEF UndoPhases, TargetsLast, NoRivals, PartsLeft, PutBack, StillPosted

LEMMA NotCalling ==
  w'.pc \notin CallPhases => SnapsTaken' /\ BackupsKnown' /\ GroupOfCall'
PROOF
  BY DEF CallPhases, SnapsTaken, BackupsKnown, SeriesRecords, GroupOfCall

\* The operation is over.
LEMMA RestsNext ==
  ASSUME w' \in {Ended, Idle}, FileTypes', Saved', Chain', Groups', UndoneRestored', Explained',
         ManifestRecorded'
  PROVE  FilesInv'
PROOF
  <1>1. /\ w'.pc \in {"idle", "end"} /\ w'.pc \notin UndoPhases /\ w'.pc \notin CallPhases
        /\ w'.pc = "idle" => w' = Idle
        /\ w'.pc = "end" => w' = Ended
    BY IdleIs DEF UndoPhases, CallPhases
  <1>2. PhaseOK'
    BY <1>1 DEF PhaseOK
  <1>3. Listed'
    BY <1>1 DEF Listed, ManifestRecorded, FileTypes
  <1> QED BY <1>1, <1>2, <1>3, NotUndoing, NotCalling DEF FilesInv

\* The operation ends without another change.
LEMMA EndsStep ==
  ASSUME FilesInv, w' \in {Ended, Idle}, UNCHANGED <<files, mem, disk, base, made, requests>>,
         UNCHANGED <<edited, restored>>, dirty \cup Touched \subseteq dirty', dirty' \subseteq Paths,
         manifest' = manifest \/ (/\ manifest'.outputs = manifest.outputs
                                  /\ manifest'.group = manifest.group
                                  /\ manifest' \in Manifests)
  PROVE  FilesInv'
PROOF
  <1>1. FileTypes'
    BY WorkFields, IdleIs DEF FilesInv, FileTypes
  <1>2. Saved' /\ Chain' /\ Groups' /\ UndoneRestored'
    BY LogKept DEF FilesInv
  <1>3. Explained'
    BY ExplainedKept DEF FilesInv
  <1>4. ManifestRecorded'
    <2>1. DOMAIN disk = 1..Len(disk)
      BY DEF FilesInv, FileTypes
    <2> QED BY <2>1 DEF FilesInv, Listed, ManifestRecorded
  <1> QED BY <1>1, <1>2, <1>3, <1>4, RestsNext

LEMMA SeqGrows ==
  ASSUME NEW S, NEW T, S \subseteq T, NEW s \in Seq(S)
  PROVE  s \in Seq(T)
PROOF
  <1>1. DOMAIN s = 1..Len(s) /\ Len(s) \in Nat /\ \A i \in 1..Len(s) : s[i] \in T
    OBVIOUS
  <1>2. s = [i \in 1..Len(s) |-> s[i]]
    OBVIOUS
  <1> QED BY <1>1, <1>2

\* A new content is one more.
LEMMA TypesGrow ==
  ASSUME FileTypes, made' = made \/ made' = made + 1
  PROVE  /\ made' \in Nat /\ 0..made \subseteq 0..made' /\ made' \in 0..made'
         /\ mem \in Seq(Events(made')) /\ disk \in Seq(Events(made'))
         /\ base \in [Paths -> Bases(made', Len(mem))]
         /\ files \in [Paths -> 0..made']
         /\ Snaps(made) \subseteq Snaps(made') /\ Results(made) \subseteq Results(made')
         /\ w \in Works(made', requests, Len(mem))
PROOF
  <1>1. made \in Nat /\ made' \in Nat /\ 0..made \subseteq 0..made' /\ made' \in 0..made'
    BY DEF FileTypes
  <1>2. Events(made) \subseteq Events(made')
    BY <1>1 DEF Events
  <1>3. mem \in Seq(Events(made')) /\ disk \in Seq(Events(made'))
    BY <1>2, SeqGrows DEF FileTypes
  <1>4. Bases(made, Len(mem)) \subseteq Bases(made', Len(mem))
    BY <1>1 DEF Bases
  <1>5. Snaps(made) \subseteq Snaps(made') /\ Results(made) \subseteq Results(made')
    BY <1>1 DEF Snaps, Results
  <1>6. w.done \in Seq(Results(made'))
    BY <1>5, WorkFields, SeqGrows
  <1>7. w.snap \in [Paths -> {None} \cup Snaps(made')]
    BY <1>5, WorkFields
  <1>8. w \in Works(made', requests, Len(mem))
    BY <1>6, <1>7, WorkFields DEF Works
  <1> QED BY <1>1, <1>3, <1>4, <1>5, <1>8 DEF FileTypes

LEMMA CallGoes ==
  ASSUME FilesInv, w'.pc \in CallPhases, FileTypes',
         UNCHANGED <<mem, disk, base, requests, restored>>, dirty' = dirty \/ dirty \subseteq dirty',
         PhaseOK', SnapsTaken', BackupsKnown', GroupOfCall', Listed', Explained'
  PROVE  FilesInv'
PROOF
  <1>1. Saved' /\ Chain' /\ Groups' /\ UndoneRestored'
    BY LogKept DEF FilesInv
  <1>2. w'.pc \notin UndoPhases
    BY DEF CallPhases, UndoPhases
  <1> QED BY <1>1, <1>2, NotUndoing DEF FilesInv

\* The operation ends, and leaves changes that it does not explain.
LEMMA EndsChanged ==
  ASSUME FilesInv, w' \in {Ended, Idle}, UNCHANGED <<mem, disk, base, requests, restored>>,
         made' = made \/ made' = made + 1, files' \in [Paths -> 0..made'], edited' \subseteq Paths,
         dirty \cup Touched \subseteq dirty', dirty' \subseteq Paths, manifest' = manifest,
         \A q \in Paths \ dirty' : files'[q] = files[q]
  PROVE  FilesInv'
PROOF
  <1>1. FileTypes'
    BY WorkFields, IdleIs, TypesGrow DEF FilesInv, FileTypes
  <1>2. Saved' /\ Chain' /\ Groups' /\ UndoneRestored'
    BY LogKept DEF FilesInv
  <1>3. Explained'
    <2>1. \A q \in Paths : Says(q)' = Says(q)
      BY DEF Says
    <2> QED BY <2>1 DEF FilesInv, Explained
  <1>4. ManifestRecorded'
    <2>1. DOMAIN disk = 1..Len(disk)
      BY DEF FilesInv, FileTypes
    <2> QED BY <2>1 DEF FilesInv, Listed, ManifestRecorded
  <1> QED BY <1>1, <1>2, <1>3, <1>4, RestsNext

LEMMA UntouchedPhases ==
  w.pc \notin {"backup", "rollback", "write", "record", "restoring", "mark"} => Touched = {}
PROOF
  BY DEF Touched

-----------------------------------------------------------------------------
(* The start of a call, and the loop over its files *)

LEMMA InitInv == Init => FilesInv
PROOF
  <1> SUFFICES ASSUME Init PROVE FilesInv
    OBVIOUS
  <1>1. /\ made = 1 /\ mem = <<>> /\ disk = <<>> /\ w = Idle /\ manifest = NoManifest
        /\ dirty = {} /\ edited = {} /\ restored = {} /\ requests = 0
        /\ files \in [Paths -> {0, 1}]
        /\ base = [p \in Paths |-> [content |-> files[p], at |-> 0]]
    BY DEF Init, Missing
  <1>2. w \in Works(made, requests, Len(mem))
    <2>1. /\ "idle" \in States /\ 0 \in 0..requests /\ 1 \in Nat
          /\ <<>> \in Seq(Results(made)) /\ <<>> \in Seq(Paths)
          /\ [p \in Paths |-> None] \in [Paths -> {None} \cup Snaps(made)]
      BY <1>1 DEF States
    <2> QED BY <1>1, <2>1 DEF Idle, Works
  <1>3. FileTypes
    <2>1. base \in [Paths -> Bases(made, Len(mem))]
      BY <1>1 DEF Bases
    <2>2. manifest \in Manifests
      BY <1>1 DEF NoManifest, Manifests
    <2> QED BY <1>1, <1>2, <2>1, <2>2, BoundsAssumption DEF FileTypes
  <1>4. /\ w.pc = "idle" /\ w.pc \notin UndoPhases /\ w.pc \notin CallPhases
        /\ Touched = {}
    BY <1>1 DEF Idle, UndoPhases, CallPhases, Touched
  <1>5. Explained
    <2> SUFFICES ASSUME NEW p \in Paths PROVE files[p] = Says(p)
      BY DEF Explained
    <2>1. Speaks(mem, base[p], p, Len(mem)) = {}
      BY <1>1 DEF Speaks
    <2>2. Says(p) = base[p].content
      BY <2>1, LoggedNone DEF Says
    <2> QED BY <1>1, <2>2
  <1>6. Saved /\ Chain /\ Groups /\ UndoneRestored /\ Listed
    BY <1>1, <1>4 DEF Saved, Chain, Groups, UndoneRestored, UndoneUp, Listed, NoManifest
  <1>7. PhaseOK
    BY <1>1, <1>4 DEF PhaseOK
  <1>8. SnapsTaken /\ BackupsKnown /\ GroupOfCall
    BY <1>4 DEF SnapsTaken, BackupsKnown, SeriesRecords, GroupOfCall, CallPhases
  <1>9. TargetsLast /\ NoRivals /\ PartsLeft /\ PutBack /\ StillPosted
    BY <1>4 DEF UndoPhases, TargetsLast, NoRivals, PartsLeft, PutBack, StillPosted
  <1> QED BY <1>3, <1>5, <1>6, <1>7, <1>8, <1>9 DEF FilesInv

\* The call goes on and leaves the files and the log alone.
LEMMA CallMoves ==
  ASSUME FilesInv, w'.pc \in CallPhases, w' \in Works(made, requests, Len(mem)),
         UNCHANGED <<files, mem, disk, base, made, requests, dirty, edited, restored>>,
         PhaseOK', SnapsTaken', BackupsKnown', GroupOfCall', Listed',
         manifest' = manifest \/ manifest' \in Manifests,
         Touched \subseteq Touched'
  PROVE  FilesInv'
PROOF
  <1>1. FileTypes'
    BY DEF FilesInv, FileTypes
  <1>2. Saved' /\ Chain' /\ Groups' /\ UndoneRestored'
    BY LogKept DEF FilesInv
  <1>3. Explained'
    BY ExplainedKept DEF FilesInv
  <1>4. w'.pc \notin UndoPhases
    BY DEF CallPhases, UndoPhases
  <1> QED BY <1>1, <1>2, <1>3, <1>4, NotUndoing DEF FilesInv

\* The events of the call stay the last ones while the log does.
LEMMA GroupKept ==
  ASSUME GroupOfCall, w.pc \in CallPhases, mem' = mem, w'.call = w.call, w'.group = w.group,
         1..Recordable \subseteq 1..Recordable'
  PROVE  GroupOfCall'
PROOF
  BY DEF GroupOfCall

LEMMA BeginStep == FilesInv /\ (\E c \in Calls : Begin(c)) => FilesInv'
PROOF
  <1> SUFFICES ASSUME FilesInv, NEW c \in Calls, Begin(c) PROVE FilesInv'
    OBVIOUS
  <1>1. FileTypes /\ PhaseOK /\ w.pc = "idle" /\ requests' = requests + 1 /\ requests < MaxRequests
    BY DEF FilesInv, Begin
  <1>2. requests' \in 0..MaxRequests /\ requests \in Nat /\ requests' \in Nat
    BY <1>1, BoundsAssumption DEF FileTypes
  <1> DEFINE g == IF c.tool = "series" \/ Len(c.changes) > 1 THEN requests + 1 ELSE 0
  <1>3. UNCHANGED <<files, mem, disk, manifest, base, dirty, edited, restored, made>>
    BY DEF Begin, logs
  <1>4. w' = [Idle EXCEPT !.pc = "prepare", !.call = c, !.group = g]
    BY DEF Begin
  <1>5. /\ w'.pc = "prepare" /\ w'.call = c /\ w'.group = g /\ w'.n = 1 /\ w'.done = <<>>
        /\ w'.targets = {}
    BY <1>4 DEF Idle
  <1>6. g \in 0..requests'
    BY <1>1, <1>2
  <1>7. w' \in Works(made', requests', Len(mem'))
    <2>1. "prepare" \in States /\ c \in Calls \cup {None}
      BY DEF States
    <2> QED BY <1>2, <1>4, <1>6, <2>1, IdleIs DEF Works
  <1>8. FileTypes'
    BY <1>1, <1>2, <1>3, <1>7 DEF FileTypes
  <1>9. /\ w'.pc \notin UndoPhases /\ Touched = {} /\ Touched' = {}
    BY <1>1, <1>5 DEF UndoPhases, Touched
  <1>10. Explained'
    BY <1>3, <1>9, ExplainedKept DEF FilesInv
  <1>11. Saved' /\ Chain' /\ UndoneRestored'
    BY <1>3 DEF FilesInv, Saved, Chain, Again, UndoneRestored, UndoneUp
  <1>12. Groups'
    <2>1. \A k \in 1..Len(mem) : mem[k].group <= requests => mem[k].group <= requests'
      BY <1>1, <1>2, EventFields
    <2> QED BY <1>3, <2>1 DEF FilesInv, Groups
  <1>13. GroupOfCall'
    <2>1. g = 0 \/ \A j \in 1..Len(mem) : mem[j].group # g
      <3>1. \A j \in 1..Len(mem) : mem[j].group <= requests /\ mem[j].group \in Nat
        BY <1>1, EventFields DEF FilesInv, Groups
      <3> QED BY <1>2, <3>1
    <2> QED BY <1>3, <1>5, <2>1 DEF GroupOfCall
  <1>14. PhaseOK'
    <2>1. c.tool = "single" => Len(c.changes) = 1
      BY CallFacts
    <2>2. ASSUME c.tool = "single" PROVE g = 0
      <3>1. Len(c.changes) = 1
        BY <2>1, <2>2
      <3>2. ~ (Len(c.changes) > 1)
        BY <3>1
      <3> QED BY <2>2, <3>2
    <2>3. c.tool = "series" => g # 0
      BY <1>2
    <2> QED BY <1>5, <2>2, <2>3, CallFacts DEF PhaseOK, UndoPhases, CallPhases, IsSeries, Selfwritten
  <1>15. SnapsTaken' /\ BackupsKnown'
    BY <1>5 DEF SnapsTaken, BackupsKnown, SeriesRecords
  <1>16. Listed'
    BY <1>3, <1>5 DEF FilesInv, Listed
  <1> QED BY <1>8, <1>9, <1>10, <1>11, <1>12, <1>13, <1>14, <1>15, <1>16, NotUndoing DEF FilesInv

LEMMA RefuseStep == FilesInv /\ Refuse => FilesInv'
PROOF
  <1> SUFFICES ASSUME FilesInv, Refuse PROVE FilesInv'
    OBVIOUS
  <1>1. w' = Ended /\ UNCHANGED <<files, mem, disk, base, made, requests, edited, restored, dirty, manifest>>
    BY DEF Refuse, OnlyMoves, Counters, logs
  <1>2. Touched = {} /\ dirty \subseteq Paths
    BY UntouchedPhases DEF Refuse, FilesInv, FileTypes
  <1> QED BY <1>1, <1>2, EndsStep

LEMMA StopsStep == FilesInv /\ Stops => FilesInv'
PROOF
  <1> SUFFICES ASSUME FilesInv, Stops PROVE FilesInv'
    OBVIOUS
  <1>1. w' = Ended /\ UNCHANGED <<files, mem, disk, base, made, requests, edited, restored, dirty, manifest>>
    BY DEF Stops, OnlyMoves, Counters, logs
  <1>2. Touched = {} /\ dirty \subseteq Paths
    BY UntouchedPhases DEF Stops, FilesInv, FileTypes
  <1> QED BY <1>1, <1>2, EndsStep

LEMMA UndoStopsStep == FilesInv /\ UndoStops => FilesInv'
PROOF
  <1> SUFFICES ASSUME FilesInv, UndoStops PROVE FilesInv'
    OBVIOUS
  <1>1. w' = Ended /\ UNCHANGED <<files, mem, disk, base, made, requests, edited, restored, dirty, manifest>>
    BY DEF UndoStops, OnlyMoves, Counters, logs
  <1>2. Touched = {} /\ dirty \subseteq Paths
    BY UntouchedPhases DEF UndoStops, FilesInv, FileTypes
  <1> QED BY <1>1, <1>2, EndsStep

\* A snapshot taken now is what the log says, where the files are explained.
LEMMA SnapshotKnown ==
  ASSUME FileTypes, NEW p \in Paths
  PROVE  /\ Snapshot(p) \in Snaps(made) /\ Snapshot(p) # None /\ Snapshot(p).backup = files[p]
         /\ Explained /\ p \notin Touched \cup dirty => Snapshot(p).backup = Says(p)
PROOF
  <1>1. files[p] \in 0..made
    BY DEF FileTypes
  <1>2. Snapshot(p) \in Snaps(made) /\ Snapshot(p).backup = files[p]
    BY <1>1 DEF Snapshot, Snaps
  <1>3. Snapshot(p) \in [act : {"created", "modified"}, backup : Nat]
    BY <1>1 DEF Snapshot, FileTypes
  <1> QED BY <1>2, <1>3, NoneAssumption DEF Explained

LEMMA PrepareStep == FilesInv /\ Prepare => FilesInv'
PROOF
  <1> SUFFICES ASSUME FilesInv, Prepare PROVE FilesInv'
    OBVIOUS
  <1>1. /\ FileTypes /\ PhaseOK /\ GroupOfCall /\ Explained /\ w.pc = "prepare" /\ w.call \in Calls
        /\ w.pc \in CallPhases /\ w.n = 1 /\ w.done = <<>> /\ w.targets = {}
        /\ UNCHANGED <<files, mem, disk, base, made, requests, dirty, edited, restored>>
    BY DEF Prepare, FilesInv, PhaseOK, CallPhases, Counters, logs
  <1>2. CASE w' = Ended
    <2>1. manifest' = manifest
      BY <1>1, <1>2, IdleIs, WorkFields DEF Prepare, Works
    <2>2. Touched = {} /\ dirty \subseteq Paths
      BY <1>1, UntouchedPhases DEF FileTypes
    <2> QED BY <1>1, <1>2, <2>1, <2>2, EndsStep
  <1>3. CASE w' # Ended
    <2> DEFINE s == Snapshots(w.call)
               pc == IF w.call.tool \in {"series", "writer"} THEN "file" ELSE "backup"
    <2>1. w' = [w EXCEPT !.pc = pc, !.snap = s]
      BY <1>1, <1>3 DEF Prepare
    <2>2. ASSUME NEW p \in Paths
          PROVE  /\ s[p] \in {None} \cup Snaps(made)
                 /\ s[p] # None /\ p \notin dirty => s[p].backup = Says(p)
      <3>1. s[p] \in {None, Snapshot(p)}
        BY DEF Snapshots
      <3>2. p \notin Touched
        BY <1>1, UntouchedPhases
      <3> QED BY <1>1, <3>1, <3>2, SnapshotKnown
    <2>3. s \in [Paths -> {None} \cup Snaps(made)]
      BY <2>2 DEF Snapshots
    <2>4. /\ w'.pc = pc /\ w'.snap = s /\ w'.call = w.call /\ w'.n = 1 /\ w'.done = <<>>
          /\ w'.group = w.group /\ w'.targets = {}
      BY <1>1, <2>1, WorkFields DEF Works
    <2>5. pc \in States /\ pc \in CallPhases
      BY DEF States, CallPhases
    <2>6. w' \in Works(made, requests, Len(mem))
      BY <1>1, <2>1, <2>3, <2>5, WorkFields DEF Works
    <2>7. IsSeries => manifest' = [NoManifest EXCEPT !.group = w.group]
      BY <1>1, <1>3 DEF Prepare, IsSeries
    <2>8. PhaseOK'
      <3>1. w.call.tool # "series" => 1 <= Len(w.call.changes)
        BY <1>1, CallFacts
      <3>2. 0 <= Len(w.call.changes) /\ Len(<<>>) = 0
        BY <1>1, CallFacts
      <3>3. (w.group # 0 => w.call.tool # "single") /\ (IsSeries => w.group # 0)
        BY <1>1 DEF PhaseOK
      <3>4. IsSeries => manifest'.group = w.group
        BY <2>7 DEF NoManifest
      <3>5. IsSeries' <=> IsSeries
        BY <2>4 DEF IsSeries
      <3> QED BY <1>1, <2>4, <2>5, <3>1, <3>2, <3>3, <3>4, <3>5
              DEF PhaseOK, UndoPhases, CallPhases, Selfwritten, IsSeries
    <2>9. SnapsTaken'
      <3>1. ASSUME w.call.tool = "command", NEW i \in 1..Len(w.call.changes)
            PROVE  s[w.call.changes[i].path] # None
        <4> DEFINE p == w.call.changes[i].path
        <4>1. p \in Paths /\ w.call.changes[i].do = "output" /\ w.call.changes \in Seq(Change)
          BY <1>1, <3>1, CallFacts, CallsAssumption DEF Call
        <4>2. w.call.changes[i] \in ToSet(w.call.changes)
          BY <4>1 DEF ToSet
        <4>3. s[p] = Snapshot(p)
          BY <3>1, <4>1, <4>2 DEF Snapshots
        <4> QED BY <1>1, <4>1, <4>3, SnapshotKnown
      <3> QED BY <2>4, <3>1 DEF SnapsTaken
    <2>10. BackupsKnown'
      <3>1. ASSUME NEW i \in 1..Len(w.call.changes)
            PROVE  SnapKnown(w.call.changes[i].path)'
        BY <1>1, <2>2, <2>4, CallFacts DEF SnapKnown, Says
      <3>2. Ahead' = 1 /\ Len(w.call.changes) \in Nat
        BY <1>1, <2>4, CallFacts DEF Ahead
      <3>3. SeriesRecords'
        <4>1. Recordable = 0
          BY <1>1 DEF Recordable
        <4>2. w.group # 0 => \A j \in 1..Len(mem) : mem[j].group # w.group
          BY <1>1, <4>1 DEF GroupOfCall
        <4> QED BY <1>1, <2>4, <4>2 DEF SeriesRecords
      <3> QED BY <2>4, <3>1, <3>2, <3>3 DEF BackupsKnown
    <2>11. GroupOfCall'
      <3>1. Recordable = 0 /\ Recordable' = 0
        BY <1>1, <2>4 DEF Recordable
      <3> QED BY <1>1, <2>4, <3>1, GroupKept
    <2>12. Listed'
      <3>1. w.call.tool # "series" => manifest' = manifest
        BY <1>1, <1>3 DEF Prepare
      <3> QED BY <1>1, <2>4, <2>7, <3>1 DEF FilesInv, Listed, IsSeries, NoManifest
    <2>13. Touched = {}
      BY <1>1, UntouchedPhases
    <2>14. manifest' = manifest \/ manifest' \in Manifests
      <3>1. w.group \in Nat
        BY <1>1, WorkFields
      <3> QED BY <1>1, <1>3, <2>7, <3>1 DEF Prepare, IsSeries, NoManifest, Manifests
    <2> QED BY <1>1, <2>4, <2>5, <2>6, <2>8, <2>9, <2>10, <2>11, <2>12, <2>13, <2>14, CallMoves
  <1> QED BY <1>2, <1>3

\* A tool that writes its own files goes on to its next file.
LEMMA NextFileStep ==
  ASSUME FilesInv, w.pc \in {"file", "translating", "manifest"}, w' = NextFile,
         IsSeries, w.n <= Len(w.call.changes),
         UNCHANGED <<mem, disk, base, requests, edited, restored>>,
         made' = made \/ made' = made + 1, files' \in [Paths -> 0..made'],
         dirty \subseteq dirty', dirty' \subseteq Paths,
         \A q \in Paths \ dirty' : files'[q] = files[q],
         manifest' = manifest \/ (manifest'.group = manifest.group /\ manifest' \in Manifests),
         ManifestRecorded'
  PROVE  FilesInv'
PROOF
  <1>1. /\ FileTypes /\ PhaseOK /\ GroupOfCall /\ BackupsKnown /\ w.call \in Calls
        /\ w.pc \in CallPhases /\ w.n \in Nat /\ w.n >= 1 /\ w.targets = {}
    BY WorkFields DEF FilesInv, PhaseOK, CallPhases
  <1>2. w' = [w EXCEPT !.pc = "file", !.n = w.n + 1]
    BY DEF NextFile
  <1>3. /\ w'.pc = "file" /\ w'.n = w.n + 1 /\ w'.call = w.call /\ w'.done = w.done
        /\ w'.snap = w.snap /\ w'.group = w.group /\ w'.targets = {}
    BY <1>1, <1>2, WorkFields DEF Works
  <1>4. "file" \in States /\ "file" \in CallPhases
    BY DEF States, CallPhases
  <1>5. FileTypes'
    <2>1. w.n + 1 \in Nat
      BY <1>1
    <2>2. w' \in Works(made', requests, Len(mem))
      BY <1>1, <1>2, <1>4, <2>1, TypesGrow DEF Works
    <2> QED BY <1>1, <2>2, TypesGrow DEF FileTypes
  <1>6. PhaseOK'
    <2>1. w.n + 1 >= 1
      BY <1>1
    <2>2. IsSeries' /\ Selfwritten'
      BY <1>3 DEF IsSeries, Selfwritten
    <2>3. manifest'.group = w.group
      BY <1>1 DEF PhaseOK
    <2> QED BY <1>1, <1>3, <1>4, <2>1, <2>2, <2>3 DEF PhaseOK, UndoPhases
  <1>7. BackupsKnown'
    <2>1. Ahead \in Nat /\ Ahead <= w.n + 1 /\ Ahead' = w.n + 1 /\ Len(w.call.changes) \in Nat
      BY <1>1, <1>3, CallFacts DEF Ahead
    <2>2. ASSUME NEW i \in (w.n + 1)..Len(w.call.changes)
          PROVE  Joined(w.call.changes[i].path)' \/ SnapKnown(w.call.changes[i].path)'
      <3>1. i \in Ahead..Len(w.call.changes)
        BY <1>1, <2>1
      <3>2. Joined(w.call.changes[i].path) \/ SnapKnown(w.call.changes[i].path)
        BY <1>1, <3>1 DEF BackupsKnown, IsSeries, Selfwritten
      <3>3. Joined(w.call.changes[i].path) => Joined(w.call.changes[i].path)'
        BY <1>3 DEF Joined
      <3>4. SnapKnown(w.call.changes[i].path) => SnapKnown(w.call.changes[i].path)'
        BY <1>3 DEF SnapKnown, Says
      <3> QED BY <3>2, <3>3, <3>4
    <2>3. SeriesRecords'
      BY <1>1, <1>3 DEF BackupsKnown, SeriesRecords, IsSeries
    <2> QED BY <1>3, <2>1, <2>2, <2>3 DEF BackupsKnown
  <1>8. GroupOfCall'
    <2>1. Recordable = w.n - 1 \/ Recordable = w.n
      BY DEF Recordable
    <2>2. Recordable' = w'.n - 1
      BY <1>3 DEF Recordable
    <2>3. 1..Recordable \subseteq 1..Recordable'
      BY <1>1, <1>3, <2>1, <2>2
    <2> QED BY <1>1, <1>3, <2>3, GroupKept
  <1>9. SnapsTaken'
    BY <1>3 DEF SnapsTaken
  <1>10. Listed'
    <2>1. DOMAIN disk = 1..Len(disk)
      BY <1>1 DEF FileTypes
    <2> QED BY <1>3, <2>1 DEF Listed, ManifestRecorded
  <1>11. Explained'
    <2>1. Touched = {}
      BY UntouchedPhases
    <2>2. \A q \in Paths : Says(q)' = Says(q)
      BY DEF Says
    <2> QED BY <2>1, <2>2 DEF FilesInv, Explained
  <1> QED BY <1>3, <1>4, <1>5, <1>6, <1>7, <1>8, <1>9, <1>10, <1>11, CallGoes

LEMMA ManifestIs == FilesInv => ManifestRecorded
PROOF
  <1>1. FileTypes => DOMAIN disk = 1..Len(disk)
    BY DEF FileTypes
  <1> QED BY <1>1 DEF FilesInv, Listed, ManifestRecorded

LEMMA FileFailsStep == FilesInv /\ FileFails => FilesInv'
PROOF
  <1> SUFFICES ASSUME FilesInv, FileFails PROVE FilesInv'
    OBVIOUS
  <1> DEFINE p == Current.path
  <1>1. /\ w.pc = "translating" /\ w' \in {NextFile, Ended} /\ (w' = NextFile => IsSeries \/ NextFile = Ended)
        /\ UNCHANGED <<mem, disk, base, requests, edited, restored, manifest>>
        /\ \/ UNCHANGED <<files, dirty, made>>
           \/ /\ files' = [files EXCEPT ![p] = made + 1] /\ made' = made + 1
              /\ dirty' = dirty \cup {p}
    BY DEF FileFails, Counters, logs
  <1>2. /\ w.n <= Len(w.call.changes) /\ FileTypes /\ Touched = {}
        /\ w.call \in Calls /\ w.n \in Nat /\ w.n >= 1
    BY <1>1, UntouchedPhases, WorkFields DEF FilesInv, PhaseOK, CallPhases
  <1>3. p \in Paths
    BY <1>2, CallFacts DEF Current
  <1>4. /\ made' = made \/ made' = made + 1
        /\ dirty \subseteq dirty' /\ dirty' \subseteq Paths /\ edited' \subseteq Paths
    BY <1>1, <1>2, <1>3 DEF FileTypes
  <1>5. files' \in [Paths -> 0..made'] /\ \A q \in Paths \ dirty' : files'[q] = files[q]
    <2>1. files \in [Paths -> 0..made'] /\ made' \in 0..made'
      BY <1>2, <1>4, TypesGrow
    <2> QED BY <1>1, <1>3, <2>1
  <1>6. ManifestRecorded'
    BY <1>1, ManifestIs DEF ManifestRecorded
  <1> HIDE DEF p
  <1>7. CASE w' = Ended
    <2>1. dirty \cup Touched \subseteq dirty'
      BY <1>2, <1>4
    <2> QED BY <1>1, <1>2, <1>4, <1>5, <1>7, <2>1, EndsChanged
  <1>8. CASE w' # Ended
    <2>1. w' = NextFile /\ IsSeries
      BY <1>1, <1>8
    <2> QED BY <1>1, <1>2, <1>4, <1>5, <1>6, <2>1, NextFileStep
  <1> QED BY <1>7, <1>8

LEMMA FileStep == FilesInv /\ File => FilesInv'
PROOF
  <1> SUFFICES ASSUME FilesInv, File PROVE FilesInv'
    OBVIOUS
  <1>1. /\ w.pc = "file" /\ FileTypes /\ PhaseOK /\ GroupOfCall /\ BackupsKnown /\ w.call \in Calls
        /\ UNCHANGED <<files, mem, disk, base, made, requests, dirty, edited, restored>>
        /\ w.n \in Nat /\ Len(w.call.changes) \in Nat /\ Selfwritten
    <2>1. w.call \in Calls /\ Selfwritten
      BY DEF File, FilesInv, PhaseOK, CallPhases
    <2> QED BY <2>1, WorkFields, CallFacts DEF File, FilesInv, Counters, logs
  <1>2. dirty \subseteq Paths /\ Touched = {}
    BY <1>1, UntouchedPhases DEF FileTypes
  <1>3. ManifestRecorded
    BY ManifestIs
  <1>9. /\ made' = made /\ files' \in [Paths -> 0..made'] /\ dirty \subseteq dirty'
        /\ dirty' \subseteq Paths /\ \A q \in Paths : files'[q] = files[q]
    BY <1>1 DEF FileTypes
  <1>4. /\ manifest' \in Manifests
        /\ manifest'.outputs = manifest.outputs /\ manifest'.group = manifest.group
    <2>1. manifest' \in {manifest, [manifest EXCEPT !.complete = TRUE]}
      BY DEF File, SaveManifest
    <2> QED BY <1>1, <2>1 DEF FileTypes, Manifests
  <1>5. CASE w' = Ended
    BY <1>1, <1>2, <1>4, <1>5, EndsStep
  <1>6. CASE w' = NextFile /\ w' # Ended
    <2>1. w'.pc = "file" /\ At("translating").pc = "translating"
      BY <1>1, <1>6, WorkFields DEF Works, NextFile, At
    <2>2. CASE w.n > Len(w.call.changes)
      <3>1. w' = Ended
        BY <1>1, <2>2 DEF File, SaveManifest
      <3> QED BY <1>6, <3>1
    <2>3. CASE ~ (w.n > Len(w.call.changes))
      <3>1. w.n <= Len(w.call.changes)
        BY <1>1, <2>3
      <3>2. IsSeries /\ manifest' = manifest
        BY <1>6, <2>1, <2>3, <3>1 DEF File, SaveManifest
      <3>3. ManifestRecorded'
        BY <1>1, <1>3, <3>2 DEF ManifestRecorded
      <3> QED BY <1>1, <1>4, <1>6, <1>9, <3>1, <3>2, <3>3, NextFileStep
    <2> QED BY <2>2, <2>3
  <1>7. CASE w' = At("translating") /\ w' # Ended
    <2>1. w.n <= Len(w.call.changes) /\ manifest' = manifest
      BY <1>1, <1>7 DEF File, SaveManifest
    <2>2. /\ w'.pc = "translating" /\ w'.n = w.n /\ w'.call = w.call /\ w'.done = w.done
          /\ w'.snap = w.snap /\ w'.group = w.group /\ w'.targets = w.targets
      BY <1>1, <1>7, WorkFields DEF Works, At
    <2>3. "translating" \in States /\ "translating" \in CallPhases
      BY DEF States, CallPhases
    <2>4. w' \in Works(made, requests, Len(mem))
      BY <1>1, <1>7, <2>3, WorkFields DEF Works, At
    <2>5. PhaseOK'
      BY <1>1, <2>1, <2>2, <2>3 DEF PhaseOK, CallPhases, UndoPhases, IsSeries, Selfwritten
    <2>6. BackupsKnown'
      <3>3. SeriesRecords'
        BY <1>1, <2>2 DEF BackupsKnown, SeriesRecords, IsSeries
      <3>4. w.n >= 1
        BY <1>1 DEF PhaseOK, CallPhases
      <3>5. \A i \in w.n..Len(w.call.changes) :
              Joined(w.call.changes[i].path)' \/ SnapKnown(w.call.changes[i].path)'
        <4> TAKE i \in w.n..Len(w.call.changes)
        <4>1. Ahead = w.n
          BY <1>1 DEF Ahead
        <4>2. Joined(w.call.changes[i].path) \/ SnapKnown(w.call.changes[i].path)
          BY <1>1, <4>1 DEF BackupsKnown
        <4>4. Joined(w.call.changes[i].path) => Joined(w.call.changes[i].path)'
          BY <1>1, <2>2 DEF Joined
        <4>5. SnapKnown(w.call.changes[i].path) => SnapKnown(w.call.changes[i].path)'
          BY <1>1, <2>2 DEF SnapKnown, Says
        <4> QED BY <4>2, <4>4, <4>5
      <3> QED BY <2>2, <3>3, <3>5 DEF BackupsKnown, Ahead
    <2>7. GroupOfCall'
      <3>1. Recordable' = Recordable /\ w.pc \in CallPhases
        BY <1>1, <2>2 DEF Recordable, CallPhases
      <3> QED BY <1>1, <2>2, <3>1, GroupKept
    <2>8. SnapsTaken' /\ Listed'
      BY <1>1, <2>1, <2>2 DEF SnapsTaken, Listed, FilesInv
    <2>9. w'.pc \in CallPhases /\ Touched \subseteq Touched' /\ manifest' = manifest
      BY <1>2, <2>1, <2>2, <2>3
    <2> QED BY <1>1, <2>4, <2>5, <2>6, <2>7, <2>8, <2>9, CallMoves
  <1>8. w' = Ended \/ w' = NextFile \/ w' = At("translating")
    BY <1>1 DEF File, SaveManifest
  <1> QED BY <1>5, <1>6, <1>7, <1>8

LEMMA FileListedStep == FilesInv /\ FileListed => FilesInv'
PROOF
  <1> SUFFICES ASSUME FilesInv, FileListed PROVE FilesInv'
    OBVIOUS
  <1>1. /\ w.pc = "manifest" /\ FileTypes /\ PhaseOK
        /\ UNCHANGED <<files, mem, disk, base, made, requests, dirty, edited, restored>>
    BY DEF FileListed, FilesInv, Counters, logs
  <1>2. dirty \subseteq Paths /\ Touched = {} /\ IsSeries /\ w.n <= Len(w.call.changes)
    BY <1>1, UntouchedPhases DEF FileTypes, PhaseOK
  <1>3. /\ manifest'.group = manifest.group
        /\ manifest' \in Manifests
        /\ manifest'.outputs \in {manifest.outputs, manifest.outputs \cup {Current.path}}
        /\ \/ w' = NextFile
           \/ w' = Ended /\ manifest' = manifest
    <2>1. manifest' \in {manifest, [manifest EXCEPT !.outputs = manifest.outputs \cup {Current.path}]}
      BY DEF FileListed, SaveManifest
    <2>2. w' = NextFile \/ (w' = Ended /\ manifest' = manifest)
      BY DEF FileListed, SaveManifest
    <2>3. Current.path \in Paths
      BY <1>1, <1>2, WorkFields, CallFacts DEF Current, PhaseOK, CallPhases
    <2>4. manifest \in Manifests
      BY <1>1 DEF FileTypes
    <2>5. manifest'.group = manifest.group /\ manifest' \in Manifests
      BY <2>1, <2>3, <2>4 DEF Manifests
    <2>6. manifest'.outputs \in {manifest.outputs, manifest.outputs \cup {Current.path}}
      BY <2>1, <2>4 DEF Manifests
    <2> QED BY <2>2, <2>5, <2>6
  <1>4. CASE w' = Ended /\ manifest' = manifest
    BY <1>1, <1>2, <1>4, EndsStep
  <1>5. CASE w' = NextFile
    <2>1. ManifestRecorded'
      <3>1. ManifestRecorded /\ DOMAIN disk = 1..Len(disk)
        BY <1>1, ManifestIs DEF FileTypes
      <3>2. manifest.group = w.group
        BY <1>1, <1>2 DEF PhaseOK, CallPhases
      <3>3. \E k \in DOMAIN disk : disk[k].path = Current.path /\ disk[k].group = manifest.group
        BY <1>1, <3>1, <3>2 DEF FilesInv, Listed
      <3> QED BY <1>1, <1>3, <3>1, <3>3 DEF ManifestRecorded
    <2>2. /\ made' = made /\ files' \in [Paths -> 0..made'] /\ dirty \subseteq dirty'
          /\ dirty' \subseteq Paths /\ \A q \in Paths : files'[q] = files[q]
      BY <1>1 DEF FileTypes
    <2> QED BY <1>1, <1>2, <1>3, <1>5, <2>1, <2>2, NextFileStep
  <1> QED BY <1>3, <1>4, <1>5

-----------------------------------------------------------------------------
(* Steps of a call that change files or the log *)

LEMMA TranslatedStep == FilesInv /\ Translated => FilesInv'
PROOF
  <1> SUFFICES ASSUME FilesInv, Translated PROVE FilesInv'
    OBVIOUS
  <1> DEFINE p == Current.path
  <1>1. /\ w.pc = "translating" /\ FileTypes /\ PhaseOK /\ GroupOfCall /\ BackupsKnown /\ Explained
        /\ UNCHANGED <<mem, disk, manifest, base, requests, dirty, edited, restored>>
        /\ w.pc \in CallPhases
    BY DEF Translated, FilesInv, Counters, logs, CallPhases
  <1>2. w.call \in Calls /\ Selfwritten /\ w.n \in Nat /\ w.n >= 1 /\ w.n <= Len(w.call.changes)
    BY <1>1, WorkFields DEF PhaseOK
  <1>3. p \in Paths
    BY <1>2, CallFacts DEF Current
  <1>4. /\ made' = made \/ made' = made + 1
        /\ files' = files \/ (files' = [files EXCEPT ![p] = made + 1] /\ made' = made + 1)
    BY DEF Translated
  <1>5. /\ w'.pc = "record" /\ w'.n = w.n /\ w'.call = w.call /\ w'.done = w.done
        /\ w'.snap = w.snap /\ w'.group = w.group /\ w'.targets = w.targets
        /\ w' = [w EXCEPT !.pc = "record"]
    BY <1>1, WorkFields DEF Works, At, Translated
  <1>6. FileTypes'
    <2>1. w' \in Works(made', requests, Len(mem))
      <3>1. "record" \in States
        BY DEF States
      <3> QED BY <1>1, <1>4, <1>5, <3>1, TypesGrow DEF Works
    <2>2. files' \in [Paths -> 0..made']
      <3>1. files \in [Paths -> 0..made'] /\ made' \in 0..made'
        BY <1>1, <1>4, TypesGrow
      <3> QED BY <1>4, <3>1
    <2> QED BY <1>1, <1>4, <2>1, <2>2, TypesGrow DEF FileTypes
  <1>7. Explained'
    <2>1. Touched = {} /\ Touched' = {p}
      BY <1>1, <1>2, <1>5, UntouchedPhases DEF Touched, Selfwritten, Current
    <2>2. ASSUME NEW q \in Paths \ (dirty \cup {p}) PROVE files'[q] = Says(q)'
      <3>1. files[q] = Says(q) /\ files'[q] = files[q]
        BY <1>1, <1>4, <2>1, <2>2 DEF Explained, FileTypes
      <3> QED BY <1>1, <3>1 DEF Says
    <2> QED BY <1>1, <2>1, <2>2 DEF Explained
  <1>8. PhaseOK'
    BY <1>1, <1>2, <1>5 DEF PhaseOK, CallPhases, UndoPhases, IsSeries, Selfwritten
  <1>9. BackupsKnown'
    <2>1. \A q \in Paths : (Joined(q) <=> Joined(q)') /\ (SnapKnown(q) <=> SnapKnown(q)')
      BY <1>1, <1>5 DEF Joined, SnapKnown, Says
    <2>2. \A i \in 1..Len(w.call.changes) : w.call.changes[i].path \in Paths
      BY <1>2, CallFacts
    <2>3. \A i \in w.n..Len(w.call.changes) :
            Joined(w.call.changes[i].path)' \/ SnapKnown(w.call.changes[i].path)'
      <3>1. Len(w.call.changes) \in Nat
        BY <1>2, CallFacts
      <3> TAKE i \in w.n..Len(w.call.changes)
      <3>2. Ahead = w.n
        BY <1>1 DEF Ahead
      <3>3. Joined(w.call.changes[i].path) \/ SnapKnown(w.call.changes[i].path)
        BY <1>1, <1>2, <3>2 DEF BackupsKnown
      <3>4. i \in 1..Len(w.call.changes)
        BY <1>2, <3>1
      <3> QED BY <1>5, <2>1, <2>2, <3>3, <3>4
    <2>4. SeriesRecords'
      <3> SUFFICES ASSUME IsSeries, w.group # 0, NEW j \in 1..Len(mem), mem[j].group = w.group
                   PROVE  /\ w.snap[mem[j].path] # None => mem[j].backup = w.snap[mem[j].path].backup
                          /\ mem[j].path = p => mem[j].path \in dirty \/ files'[p] # mem[j].post
        BY <1>1, <1>5 DEF SeriesRecords, IsSeries, Current
      <3>1. w.snap[mem[j].path] # None => mem[j].backup = w.snap[mem[j].path].backup
        BY <1>1 DEF BackupsKnown, SeriesRecords
      <3>2. Current.do = "written"
        BY <1>2, CallFacts DEF Current, IsSeries
      <3>3. files'[p] = made + 1
        BY <1>1, <1>3, <3>2 DEF Translated, FileTypes
      <3>4. mem[j].post \in 0..made /\ made \in Nat
        BY <1>1, EventFields DEF FileTypes, Events
      <3> QED BY <3>1, <3>3, <3>4
    <2> QED BY <1>1, <1>2, <1>5, <2>3, <2>4 DEF BackupsKnown, Ahead, Selfwritten
  <1>10. GroupOfCall'
    <2>1. Recordable' = Recordable
      BY <1>1, <1>5 DEF Recordable
    <2> QED BY <1>1, <1>5, <2>1, GroupKept
  <1>11. SnapsTaken' /\ Listed'
    BY <1>1, <1>5 DEF SnapsTaken, Listed, FilesInv
  <1>12. w'.pc \in CallPhases
    BY <1>5 DEF CallPhases
  <1> QED BY <1>1, <1>6, <1>7, <1>8, <1>9, <1>10, <1>11, <1>12, CallGoes

LEMMA ChangePaths ==
  ASSUME FileTypes, w.call \in Calls, w.n \in Nat, w.n >= 1, w.n <= Len(w.call.changes)
  PROVE  /\ w.n \in 1..Len(w.call.changes) /\ Current \in Change
         /\ Current.path \in Paths /\ Current.to \in Paths \cup {None} /\ Current.to # Current.path
         /\ PathsOf(Current) \subseteq Paths /\ Unrecorded \subseteq Paths
         /\ Unrecorded = {w.call.changes[i].path : i \in w.n..Len(w.call.changes)}
                           \cup ({w.call.changes[i].to : i \in w.n..Len(w.call.changes)} \ {None})
PROOF
  <1>1. w.n \in 1..Len(w.call.changes) /\ \A i \in w.n..Len(w.call.changes) : i \in 1..Len(w.call.changes)
    BY CallFacts
  <1>2. Unrecorded = {w.call.changes[i].path : i \in w.n..Len(w.call.changes)}
                           \cup ({w.call.changes[i].to : i \in w.n..Len(w.call.changes)} \ {None})
    BY DEF Unrecorded
  <1>3. Unrecorded \subseteq Paths
    <2>1. \A i \in w.n..Len(w.call.changes) : /\ w.call.changes[i].path \in Paths
                                              /\ w.call.changes[i].to \in Paths \cup {None}
      BY <1>1, CallFacts
    <2> QED BY <1>2, <2>1
  <1>4. /\ Current \in Change /\ Current.path \in Paths /\ Current.to \in Paths \cup {None}
        /\ Current.to # Current.path
    BY <1>1, CallFacts DEF Current
  <1> QED BY <1>1, <1>2, <1>3, <1>4 DEF PathsOf

LEMMA RecordFailsStep == FilesInv /\ RecordFails => FilesInv'
PROOF
  <1> SUFFICES ASSUME FilesInv, RecordFails PROVE FilesInv'
    OBVIOUS
  <1>1. /\ w.pc = "record" /\ w' = Ended /\ FileTypes
        /\ UNCHANGED <<files, mem, disk, base, made, requests, edited, restored, manifest>>
        /\ dirty' = dirty \cup IF Selfwritten THEN {Current.path} ELSE Unrecorded
    BY DEF RecordFails, FilesInv, Counters, logs
  <1>2. w.call \in Calls /\ w.n \in Nat /\ w.n >= 1 /\ w.n <= Len(w.call.changes)
    BY <1>1, WorkFields DEF FilesInv, PhaseOK, CallPhases
  <1>3. Touched = IF Selfwritten THEN {Current.path} ELSE Unrecorded
    BY <1>1 DEF Touched
  <1>4. Touched \subseteq Paths /\ dirty \subseteq Paths
    BY <1>1, <1>2, <1>3, ChangePaths DEF FileTypes
  <1>5. dirty' = dirty \cup Touched
    BY <1>1, <1>3
  <1> QED BY <1>1, <1>4, <1>5, EndsStep

\* What the step records: the paths of the change it has come to, with the
\* backups and the files of this moment.
LEMMA EventIs ==
  ASSUME FilesInv, w.pc = "record", HasSnapshot
  PROVE  /\ Event \in Events(made) /\ Event.undone = FALSE /\ Event.group = w.group
         /\ Event.path = Current.path /\ Event.to = Current.to
         /\ PathsOf(Event) = PathsOf(Current)
         /\ \A p \in PathsOf(Current) : Post(Event, p) = files[p]
         /\ ~Joined(Current.path) =>
              \A p \in PathsOf(Current) \ dirty : Backed(Event, p) = Says(p)
         /\ Selfwritten => Event.backup = w.snap[Current.path].backup
PROOF
  <1>1. /\ FileTypes /\ PhaseOK /\ BackupsKnown /\ w.call \in Calls /\ w.n \in Nat
        /\ w.n >= 1 /\ w.n <= Len(w.call.changes) /\ Len(w.call.changes) \in Nat
    BY WorkFields, CallFacts DEF FilesInv, PhaseOK, CallPhases
  <1>2. /\ w.n \in 1..Len(w.call.changes) /\ Current.path \in Paths
        /\ Current.to \in Paths \cup {None} /\ Current.to # Current.path
        /\ PathsOf(Current) \subseteq Paths
    BY <1>1, ChangePaths
  <1> DEFINE r == Recorded
  <1>3. /\ r \in Results(made) /\ r.path = Current.path /\ r.to = Current.to
        /\ Current.path \notin dirty /\ ~Joined(Current.path) => r.backup = Says(Current.path)
        /\ Current.to \notin dirty \cup {None} => r.toBackup = Says(Current.to)
        /\ Selfwritten => r.backup = w.snap[Current.path].backup
    <2>1. CASE ~Selfwritten
      <3>1. Len(w.done) = Len(w.call.changes) /\ r = w.done[w.n]
        BY <1>1, <2>1 DEF PhaseOK, Recorded
      <3>2. r \in Results(made)
        BY <1>1, <1>2, <3>1, WorkFields
      <3>3. r.path = Current.path /\ r.to = Current.to
        BY <1>1, <1>2, <3>1 DEF PhaseOK, CallPhases, Current
      <3>4. w.n \in w.n..Len(w.done)
        BY <1>1, <3>1
      <3>5. BackupKnown(r)
        BY <1>1, <2>1, <3>1, <3>4 DEF BackupsKnown
      <3> QED BY <2>1, <3>2, <3>3, <3>5 DEF BackupKnown
    <2>2. CASE Selfwritten
      <3>1. w.snap[Current.path] # None /\ r = Result
        BY <2>2 DEF HasSnapshot, Recorded
      <3>2. w.snap[Current.path] \in Snaps(made)
        BY <1>1, <1>2, <3>1, WorkFields
      <3>3. Current.do \in {"written", "preview"} /\ Current.to = None
        BY <1>1, <1>2, <2>2, CallFacts DEF Current, Selfwritten
      <3>4. r = [act |-> w.snap[Current.path].act, path |-> Current.path, to |-> None,
                 backup |-> w.snap[Current.path].backup, toBackup |-> Missing]
        BY <3>1, <3>3 DEF Result
      <3>5. Joined(Current.path) \/ SnapKnown(Current.path)
        <4>1. w.n \in Ahead..Len(w.call.changes)
          BY <1>1 DEF Ahead
        <4> QED BY <1>1, <2>2, <4>1 DEF BackupsKnown, Current
      <3>6. 0 \in 0..made
        BY <1>1 DEF FileTypes
      <3> QED BY <1>2, <3>1, <3>2, <3>3, <3>4, <3>5, <3>6 DEF Results, Snaps, SnapKnown, Missing
    <2> QED BY <2>1, <2>2
  <1> HIDE DEF r
  <1> DEFINE e == [act |-> r.act, path |-> r.path, to |-> r.to,
                   backup |-> r.backup, toBackup |-> r.toBackup,
                   post |-> files[r.path],
                   toPost |-> IF r.to = None THEN Missing ELSE files[r.to],
                   group |-> w.group, undone |-> FALSE]
  <1>4. Event = e
    BY DEF Event, r
  <1>5. /\ files[r.path] \in 0..made
        /\ (IF r.to = None THEN Missing ELSE files[r.to]) \in 0..made
        /\ w.group \in 0..MaxRequests
    <2>1. \A p \in Paths : files[p] \in 0..made
      BY <1>1 DEF FileTypes
    <2>2. Missing \in 0..made
      BY <1>1 DEF FileTypes, Missing
    <2>3. w.group \in 0..MaxRequests
      BY <1>1, WorkFields, BoundsAssumption DEF FileTypes
    <2> QED BY <1>2, <1>3, <2>1, <2>2, <2>3
  <1>6. e \in Events(made)
    BY <1>3, <1>5 DEF Events, Results
  <1>7. PathsOf(e) = PathsOf(Current)
    BY <1>3 DEF PathsOf
  <1>8. ASSUME NEW p \in PathsOf(Current) PROVE Post(e, p) = files[p]
    BY <1>2, <1>3, <1>8 DEF PathsOf, Post
  <1>9. ASSUME ~Joined(Current.path), NEW p \in PathsOf(Current) \ dirty
        PROVE  Backed(e, p) = Says(p)
    BY <1>2, <1>3, <1>9 DEF PathsOf, Backed
  <1>10. /\ e.undone = FALSE /\ e.group = w.group /\ e.path = Current.path /\ e.to = Current.to
         /\ Selfwritten => e.backup = w.snap[Current.path].backup
    BY <1>3
  <1> HIDE DEF e
  <1> QED BY <1>4, <1>6, <1>7, <1>8, <1>9, <1>10

LEMMA RecordLog ==
  ASSUME FilesInv, w.pc = "record", HasSnapshot,
         mem' = Append(mem, Event), disk' = mem', UNCHANGED <<files, base, dirty, restored, requests>>
  PROVE  /\ Saved' /\ Chain' /\ Groups' /\ UndoneRestored'
         /\ \A p \in Paths \ PathsOf(Current) : Says(p)' = Says(p)
         /\ \A p \in PathsOf(Current) : Says(p)' = files[p]
         /\ Len(mem') = Len(mem) + 1 /\ mem' \in Seq(Events(made))
         /\ \A k \in 1..Len(mem) : mem'[k] = mem[k]
         /\ mem'[Len(mem) + 1] = Event
PROOF
  <1> DEFINE e == Event
             n == Len(mem)
  <1>1. /\ FileTypes /\ Saved /\ Chain /\ Groups /\ GroupOfCall /\ UndoneRestored
        /\ BackupsKnown /\ mem \in Seq(Events(made)) /\ n \in Nat
    BY DEF FilesInv, FileTypes
  <1>2. /\ e \in Events(made) /\ e.undone = FALSE /\ e.group = w.group
        /\ e.path = Current.path /\ e.to = Current.to
        /\ PathsOf(e) = PathsOf(Current)
        /\ \A p \in PathsOf(Current) : Post(e, p) = files[p]
        /\ ~Joined(Current.path) =>
             \A p \in PathsOf(Current) \ dirty : Backed(e, p) = Says(p)
        /\ Selfwritten => e.backup = w.snap[Current.path].backup
    BY EventIs
  <1>3. /\ w.call \in Calls /\ w.n \in 1..Len(w.call.changes) /\ Current.to # Current.path
        /\ PathsOf(Current) \subseteq Paths /\ w.pc \in CallPhases
    <2>1. /\ w.call \in Calls /\ w.n \in Nat /\ w.n >= 1 /\ w.n <= Len(w.call.changes)
          /\ w.pc \in CallPhases
      BY <1>1, WorkFields DEF FilesInv, PhaseOK, CallPhases
    <2> QED BY <1>1, <2>1, ChangePaths
  <1> HIDE DEF e
  <1>4. /\ Len(mem') = n + 1 /\ mem' \in Seq(Events(made)) /\ mem'[n + 1] = e
        /\ \A k \in 1..n : mem'[k] = mem[k]
    BY <1>1, <1>2 DEF e
  <1>5. 1..(n + 1) = (1..n) \cup {n + 1} /\ n + 1 \notin 1..n
    BY <1>1
  <1>6. ASSUME NEW p, NEW k \in 0..n
        PROVE  LoggedIn(mem', base[p], p, k) = LoggedIn(mem, base[p], p, k)
    <2>1. LoggedIn(Append(mem, e), base[p], p, k) = LoggedIn(mem, base[p], p, k)
      BY <1>1, <1>2, LoggedOld
    <2> QED BY <2>1 DEF e
  <1>7. ASSUME NEW p \in Paths \ PathsOf(Current) PROVE Says(p)' = Says(p)
    <2>1. LoggedIn(Append(mem, e), base[p], p, n + 1) = LoggedIn(mem, base[p], p, n)
      BY <1>1, <1>2, <1>7, LoggedOthers
    <2> QED BY <1>4, <2>1 DEF Says, e
  <1>8. ASSUME NEW p \in PathsOf(Current) PROVE Says(p)' = files[p]
    <2>1. base[p].at \in 0..n
      BY <1>1, <1>3 DEF FileTypes, Bases
    <2>2. LoggedIn(Append(mem, e), base[p], p, n + 1) = Post(e, p)
      BY <1>1, <1>2, <2>1, LoggedNew
    <2> QED BY <1>2, <1>4, <2>2 DEF Says, e
  <1>9. Saved' /\ UndoneRestored'
    <2>1. \A k \in 1..(n + 1) : mem'[k].undone => k \in restored
      BY <1>1, <1>2, <1>4, <1>5 DEF UndoneRestored
    <2>2. UndoneUp(mem')
      <3> SUFFICES ASSUME NEW i \in 1..(n + 1), NEW j \in 1..(n + 1), i < j,
                          mem'[i].group = mem'[j].group, mem'[i].group # 0, mem'[i].undone
                   PROVE  mem'[j].undone
        BY <1>4 DEF UndoneUp
      <3>1. i \in 1..n /\ mem'[i] = mem[i]
        BY <1>1, <1>4
      <3>2. j # n + 1
        BY <1>1, <1>2, <1>3, <1>4, <3>1 DEF GroupOfCall
      <3>3. j \in 1..n /\ mem'[j] = mem[j]
        BY <1>4, <1>5, <3>2
      <3> QED BY <1>1, <3>1, <3>3 DEF UndoneRestored, UndoneUp
    <2> QED BY <1>4, <2>1, <2>2 DEF Saved, UndoneRestored
  <1>10. Chain'
    <2> SUFFICES ASSUME NEW k \in 1..(n + 1), ~mem'[k].undone, ~Again(mem', k), NEW p \in PathsOf(mem'[k]) \ dirty,
                        base[p].at < k
                 PROVE  Backed(mem'[k], p) = LoggedIn(mem', base[p], p, k - 1)
      BY <1>4 DEF Chain
    <2>1. CASE k = n + 1
      <3>1. mem'[k] = e /\ k - 1 = n /\ n \in 0..n
        BY <1>1, <1>4, <2>1
      <3>4. ~Joined(Current.path)
        <4>1. \A i \in 1..n : mem'[i] = mem[i]
          BY <1>4
        <4> QED BY <1>2, <3>1, <4>1 DEF Again, Joined
      <3>2. Backed(e, p) = Says(p)
        BY <1>2, <3>1, <3>4
      <3>3. LoggedIn(mem', base[p], p, n) = LoggedIn(mem, base[p], p, n)
        BY <1>6, <3>1
      <3> QED BY <3>1, <3>2, <3>3 DEF Says
    <2>2. CASE k # n + 1
      <3>1. k \in 1..n /\ mem'[k] = mem[k] /\ k - 1 \in 0..n
        BY <1>1, <1>4, <1>5, <2>2
      <3>3. ~Again(mem, k)
        <4>1. \A i \in 1..(k - 1) : i \in 1..n
          BY <1>1, <3>1
        <4> QED BY <1>4, <3>1, <4>1 DEF Again
      <3>2. Backed(mem[k], p) = LoggedIn(mem, base[p], p, k - 1)
        BY <1>1, <3>1, <3>3 DEF Chain
      <3> QED BY <1>6, <3>1, <3>2
    <2> QED BY <2>1, <2>2
  <1>11. Groups'
    <2>1. w.group <= requests /\ w.group \in Nat
      BY <1>1, WorkFields
    <2>2. w.group # 0 => e.to = None
      <3>1. w.group # 0 => w.call.tool # "single"
        BY <1>3 DEF FilesInv, PhaseOK
      <3> QED BY <1>2, <1>3, <3>1, CallFacts DEF Current
    <2>3. \A k \in 1..(n + 1) : /\ mem'[k].group <= requests
                                /\ mem'[k].to # mem'[k].path
                                /\ mem'[k].group # 0 => mem'[k].to = None
      BY <1>1, <1>2, <1>3, <1>4, <1>5, <2>1, <2>2 DEF Groups
    <2>4. ASSUME NEW i \in 1..n, mem[i].group = w.group, w.group # 0
          PROVE  /\ \A k \in i..n : mem[k].group = w.group
                 /\ mem[i].path = e.path => /\ mem[i].backup = e.backup
                                            /\ mem[i].path \in dirty \/ mem[i].post # e.post
      <3>1. /\ \A k \in i..n : mem[k].group = w.group
            /\ \E x \in 1..Recordable :
                 x <= Len(w.call.changes) /\ mem[i].path = w.call.changes[x].path
        BY <1>1, <1>3, <2>4 DEF GroupOfCall
      <3>2. PICK x \in 1..Recordable : x <= Len(w.call.changes) /\ mem[i].path = w.call.changes[x].path
        BY <3>1
      <3>3. Recordable = w.n - 1
        BY DEF Recordable
      <3>4. x \in 1..Len(w.call.changes) /\ x # w.n
        BY <1>3, <3>2, <3>3, CallFacts
      <3>5. CASE ~IsSeries
        <4>1. w.call.changes[x].path # Current.path
          BY <1>3, <3>4, <3>5, CallFacts DEF Current, IsSeries
        <4> QED BY <1>2, <3>1, <3>2, <4>1
      <3>6. CASE IsSeries
        <4>1. Selfwritten /\ w.snap[Current.path] # None
          BY <3>6 DEF Selfwritten, IsSeries, HasSnapshot
        <4>2. /\ w.snap[mem[i].path] # None => mem[i].backup = w.snap[mem[i].path].backup
              /\ mem[i].path = Current.path =>
                   mem[i].path \in dirty \/ files[mem[i].path] # mem[i].post
          BY <1>1, <2>4, <3>6 DEF BackupsKnown, SeriesRecords
        <4>3. e.post = files[Current.path]
          <5>1. Current.path \in Paths
            BY <1>3, CallFacts DEF Current
          <5>2. Current.path \in PathsOf(Current)
            BY <5>1, NoneAssumption DEF PathsOf
          <5> QED BY <1>2, <5>2 DEF Post
        <4> QED BY <1>2, <3>1, <4>1, <4>2, <4>3
      <3> QED BY <3>5, <3>6
    <2>5. ASSUME NEW i \in 1..Len(mem'), NEW j \in 1..Len(mem'), i < j,
                 mem'[i].group = mem'[j].group, mem'[i].group # 0
          PROVE  /\ \A k \in i..j : mem'[k].group = mem'[i].group
                 /\ mem'[i].path = mem'[j].path =>
                      /\ mem'[i].backup = mem'[j].backup
                      /\ mem'[i].path \in dirty' \/ mem'[i].post # mem'[j].post
      <3> i \in 1..(n + 1) /\ j \in 1..(n + 1)
        BY <1>4
      <3>1. i \in 1..n /\ mem'[i] = mem[i]
        BY <1>1, <1>4, <2>5
      <3>2. CASE j = n + 1
        <4>1. mem'[j] = e /\ mem[i].group = w.group /\ w.group # 0
          BY <1>2, <1>4, <2>5, <3>1, <3>2
        <4>2. /\ \A k \in i..n : mem[k].group = w.group
              /\ mem[i].path = e.path => /\ mem[i].backup = e.backup
                                         /\ mem[i].path \in dirty \/ mem[i].post # e.post
          BY <2>4, <3>1, <4>1
        <4>3. \A k \in i..(n + 1) : k = n + 1 \/ k \in i..n
          BY <1>1, <3>1
        <4>4. \A k \in i..n : k \in 1..n
          BY <1>1, <3>1
        <4> QED BY <1>2, <1>4, <3>1, <3>2, <4>1, <4>2, <4>3, <4>4
      <3>3. CASE j # n + 1
        <4>1. j \in 1..n /\ mem'[j] = mem[j]
          BY <1>1, <1>4, <2>5, <3>3
        <4>2. /\ \A k \in i..j : mem[k].group = mem[i].group
              /\ mem[i].path = mem[j].path =>
                   /\ mem[i].backup = mem[j].backup
                   /\ mem[i].path \in dirty \/ mem[i].post # mem[j].post
          BY <1>1, <2>5, <3>1, <4>1 DEF Groups
        <4>3. \A k \in i..j : k \in 1..n
          BY <1>1, <3>1, <4>1
        <4> QED BY <1>4, <3>1, <4>1, <4>2, <4>3
      <3> QED BY <3>2, <3>3
    <2>6. \A k \in 1..Len(mem') : /\ mem'[k].group <= requests'
                                  /\ mem'[k].to # mem'[k].path
                                  /\ mem'[k].group # 0 => mem'[k].to = None
      BY <1>4, <2>3
    <2>7. \A i, j \in 1..Len(mem') :
            i < j /\ mem'[i].group = mem'[j].group /\ mem'[i].group # 0 =>
              /\ \A k \in i..j : mem'[k].group = mem'[i].group
              /\ mem'[i].path = mem'[j].path =>
                   /\ mem'[i].backup = mem'[j].backup
                   /\ mem'[i].path \in dirty' \/ mem'[i].post # mem'[j].post
      BY <2>5, SMTT(30)
    <2> QED BY <2>6, <2>7 DEF Groups
  <1> QED BY <1>4, <1>7, <1>8, <1>9, <1>10, <1>11 DEF e

LEMMA ListedKept ==
  ASSUME FileTypes, Saved, Listed, Len(disk') >= Len(disk), Len(disk') \in Nat, manifest' = manifest,
         \A k \in 1..Len(disk) : disk'[k].path = disk[k].path /\ disk'[k].group = disk[k].group
  PROVE  /\ \A p \in manifest.outputs :
              \E k \in 1..Len(disk') : disk'[k].path = p /\ disk'[k].group = manifest.group
         /\ w.pc = "manifest" => \E k \in 1..Len(disk') : disk'[k].path = Current.path
                                                         /\ disk'[k].group = w.group
PROOF
  <1>1. Len(disk) \in Nat /\ \A k \in 1..Len(disk) : k \in 1..Len(disk')
    BY DEF FileTypes
  <1> QED BY <1>1 DEF Listed

\* The two copies of the log differ in undone marks only.
LEMMA SavedFields ==
  ASSUME FileTypes, Saved
  PROVE  \A k \in 1..Len(mem) :
           /\ disk[k].path = mem[k].path /\ disk[k].to = mem[k].to /\ disk[k].group = mem[k].group
           /\ disk[k].backup = mem[k].backup /\ disk[k].post = mem[k].post
           /\ disk[k].undone => mem[k].undone
           /\ disk[k] # mem[k] => mem[k].undone
           /\ Backed(disk[k], mem[k].path) = Backed(mem[k], mem[k].path)
PROOF
  <1> SUFFICES ASSUME NEW k \in 1..Len(mem)
               PROVE  /\ disk[k].path = mem[k].path /\ disk[k].to = mem[k].to
                      /\ disk[k].group = mem[k].group
                      /\ disk[k].backup = mem[k].backup /\ disk[k].post = mem[k].post
                      /\ disk[k].undone => mem[k].undone
                      /\ disk[k] # mem[k] => mem[k].undone
                      /\ Backed(disk[k], mem[k].path) = Backed(mem[k], mem[k].path)
    OBVIOUS
  <1>1. disk[k] \in Events(made)
    BY DEF FileTypes
  <1>2. CASE disk[k] = mem[k]
    BY <1>2
  <1>3. CASE mem[k] = [disk[k] EXCEPT !.undone = TRUE]
    BY <1>1, <1>3 DEF Events, Backed
  <1> QED BY <1>2, <1>3 DEF Saved

LEMMA RecordStep == FilesInv /\ Record => FilesInv'
PROOF
  <1> SUFFICES ASSUME FilesInv, Record PROVE FilesInv'
    OBVIOUS
  <1> DEFINE n == Len(mem)
  <1>1. /\ w.pc = "record" /\ HasSnapshot /\ mem' = Append(mem, Event) /\ disk' = mem'
        /\ w' = AfterRecord
        /\ UNCHANGED <<files, manifest, dirty, restored, made, base, edited, requests>>
    BY DEF Record, Counters
  <1>2. /\ FileTypes /\ Saved /\ PhaseOK /\ Explained /\ BackupsKnown /\ GroupOfCall /\ Listed
        /\ n \in Nat /\ w.targets = {} /\ w.n \in Nat /\ w.call \in Calls
        /\ w.n >= 1 /\ w.n <= Len(w.call.changes) /\ Len(w.call.changes) \in Nat
        /\ w.pc \in CallPhases
    BY <1>1, WorkFields, CallFacts DEF FilesInv, PhaseOK, CallPhases
  <1>3. /\ Saved' /\ Chain' /\ Groups' /\ UndoneRestored'
        /\ \A p \in Paths \ PathsOf(Current) : Says(p)' = Says(p)
        /\ \A p \in PathsOf(Current) : Says(p)' = files[p]
        /\ Len(mem') = n + 1 /\ mem' \in Seq(Events(made))
        /\ \A k \in 1..n : mem'[k] = mem[k]
        /\ mem'[n + 1] = Event
    BY <1>1, RecordLog
  <1>4. Event.group = w.group /\ Event.path = Current.path /\ Event.undone = FALSE
    BY <1>1, EventIs
  <1>5. 1..n \subseteq 1..(n + 1) /\ 0..n \subseteq 0..(n + 1)
    BY <1>2
  <1>6. \A v : v \in Works(made, requests, n) => v \in Works(made', requests', Len(mem'))
    BY <1>1, <1>3, <1>5 DEF Works
  <1>7. w' \in Works(made', requests', Len(mem')) => FileTypes'
    <2>1. base' \in [Paths -> Bases(made', Len(mem'))]
      <3>1. Bases(made, n) \subseteq Bases(made, n + 1)
        BY <1>5 DEF Bases
      <3> QED BY <1>1, <1>2, <1>3, <3>1 DEF FileTypes
    <2> QED BY <1>1, <1>2, <1>3, <1>5, <2>1 DEF FileTypes
  <1>8. /\ Current.path \in Paths /\ w.n \in 1..Len(w.call.changes)
        /\ PathsOf(Current) \subseteq Paths
        /\ Unrecorded = {w.call.changes[i].path : i \in w.n..Len(w.call.changes)}
                          \cup ({w.call.changes[i].to : i \in w.n..Len(w.call.changes)} \ {None})
    BY <1>2, ChangePaths
  <1>9. Touched = IF Selfwritten THEN {Current.path} ELSE Unrecorded
    BY <1>1 DEF Touched
  <1>10. Touched \subseteq Touched' \cup PathsOf(Current) => Explained'
    <2> SUFFICES ASSUME Touched \subseteq Touched' \cup PathsOf(Current),
                        NEW p \in Paths \ (dirty \cup Touched')
                 PROVE  files[p] = Says(p)'
      BY <1>1 DEF Explained
    <2>1. CASE p \in PathsOf(Current)
      BY <1>3, <2>1
    <2>2. CASE p \notin PathsOf(Current)
      <3>1. files[p] = Says(p)
        BY <1>2, <2>2 DEF Explained
      <3> QED BY <1>3, <2>2, <3>1
    <2> QED BY <2>1, <2>2
  <1>11. Current.path \in PathsOf(Current)
    BY <1>8, NoneAssumption DEF PathsOf
  <1>12. /\ \A k \in 1..Len(disk) : disk'[k].path = disk[k].path /\ disk'[k].group = disk[k].group
         /\ Len(disk') >= Len(disk) /\ Len(disk') \in Nat
    <2>1. Len(disk) = n /\ Len(disk') = n + 1
      BY <1>1, <1>2, <1>3 DEF FileTypes
    <2> QED BY <1>1, <1>2, <1>3, <2>1, SavedFields
  <1>13. \A p \in manifest.outputs :
           \E k \in 1..Len(disk') : disk'[k].path = p /\ disk'[k].group = manifest.group
    BY <1>1, <1>2, <1>12, ListedKept
  <1>14. CASE IsSeries
    <2>1. /\ w' = [w EXCEPT !.pc = "manifest"] /\ w'.pc = "manifest" /\ w'.n = w.n
          /\ w'.call = w.call /\ w'.done = w.done /\ w'.snap = w.snap /\ w'.group = w.group
          /\ w'.targets = w.targets
      BY <1>1, <1>2, <1>14, WorkFields DEF AfterRecord, At, Works
    <2>2. "manifest" \in States /\ w'.pc \in CallPhases
      BY <2>1 DEF States, CallPhases
    <2>3. w' \in Works(made, requests, n)
      BY <1>2, <2>1, <2>2, WorkFields DEF Works
    <2>4. PhaseOK'
      BY <1>1, <1>2, <1>14, <2>1, <2>2 DEF PhaseOK, UndoPhases, IsSeries, Selfwritten
    <2>5. Explained'
      BY <1>9, <1>10, <1>11, <1>14 DEF IsSeries, Selfwritten
    <2>6. BackupsKnown'
      <3>1. Ahead = w.n /\ Ahead' = w.n + 1
        BY <1>1, <2>1 DEF Ahead
      <3>2. ASSUME NEW i \in (w.n + 1)..Len(w.call.changes)
            PROVE  Joined(w.call.changes[i].path)' \/ SnapKnown(w.call.changes[i].path)'
        <4> DEFINE p == w.call.changes[i].path
        <4>1. i \in w.n..Len(w.call.changes) /\ i \in 1..Len(w.call.changes) /\ i # w.n
          BY <1>2
        <4>2. Joined(p) \/ SnapKnown(p)
          BY <1>1, <1>2, <1>14, <3>1, <4>1 DEF BackupsKnown, IsSeries, Selfwritten
        <4>3. Joined(p) => Joined(p)'
          BY <1>3, <1>5, <2>1 DEF Joined
        <4>4. p = Current.path /\ w.group # 0 => Joined(p)'
          <5>1. n + 1 \in 1..(n + 1)
            BY <1>2
          <5> QED BY <1>3, <1>4, <2>1, <5>1 DEF Joined
        <4>5. p # Current.path => p \in Paths \ PathsOf(Current)
          <5>1. Current.to = None
            BY <1>2, <1>8, <1>14, CallFacts DEF Current, IsSeries
          <5> QED BY <1>2, <4>1, <5>1, CallFacts DEF PathsOf
        <4>6. p # Current.path /\ SnapKnown(p) => SnapKnown(p)'
          BY <1>1, <1>3, <2>1, <4>5 DEF SnapKnown
        <4>7. w.group # 0
          BY <1>2, <1>14 DEF PhaseOK
        <4> QED BY <4>2, <4>3, <4>4, <4>6, <4>7
      <3>3. SeriesRecords'
        <4> SUFFICES ASSUME NEW j \in 1..(n + 1), mem'[j].group = w.group, w.group # 0,
                            w.snap[mem'[j].path] # None
                     PROVE  mem'[j].backup = w.snap[mem'[j].path].backup
          BY <1>3, <2>1 DEF SeriesRecords
        <4>1. CASE j = n + 1
          <5>1. Selfwritten
            BY <1>14 DEF Selfwritten, IsSeries
          <5> QED BY <1>1, <1>3, <1>4, <4>1, <5>1, EventIs
        <4>2. CASE j # n + 1
          <5>1. j \in 1..n
            BY <1>2, <4>2
          <5> QED BY <1>1, <1>2, <1>3, <1>14, <5>1 DEF BackupsKnown, SeriesRecords
        <4> QED BY <4>1, <4>2
      <3> QED BY <2>1, <3>1, <3>2, <3>3 DEF BackupsKnown
    <2>7. GroupOfCall'
      <3> SUFFICES ASSUME w.group # 0, NEW j \in 1..(n + 1), mem'[j].group = w.group
                   PROVE  /\ \A k \in j..(n + 1) : mem'[k].group = w.group
                          /\ ~mem'[j].undone
                          /\ \E i \in 1..w.n : i <= Len(w.call.changes)
                                               /\ mem'[j].path = w.call.changes[i].path
        <4>1. Recordable' = w.n
          BY <2>1 DEF Recordable
        <4> QED BY <1>3, <2>1, <4>1 DEF GroupOfCall
      <3>1. CASE j = n + 1
        <4>1. \A k \in j..(n + 1) : k = n + 1
          BY <1>2, <3>1
        <4> QED BY <1>2, <1>3, <1>4, <1>8, <3>1, <4>1 DEF Current
      <3>2. CASE j # n + 1
        <4>1. j \in 1..n
          BY <1>2, <3>2
        <4>2. /\ \A k \in j..n : mem[k].group = w.group
              /\ ~mem[j].undone
              /\ \E i \in 1..Recordable : i <= Len(w.call.changes)
                                          /\ mem[j].path = w.call.changes[i].path
          BY <1>2, <1>3, <4>1 DEF GroupOfCall
        <4>3. 1..Recordable \subseteq 1..w.n
          BY <1>1, <1>2 DEF Recordable
        <4>4. \A k \in j..(n + 1) : k = n + 1 \/ (k \in j..n /\ k \in 1..n)
          BY <1>2, <4>1
        <4> QED BY <1>3, <1>4, <4>1, <4>2, <4>3, <4>4
      <3> QED BY <3>1, <3>2
    <2>8. Listed'
      <3>1. n + 1 \in 1..Len(disk') /\ disk'[n + 1] = Event
        BY <1>1, <1>2, <1>3
      <3> QED BY <1>1, <1>4, <1>13, <2>1, <3>1 DEF Listed, Current
    <2>9. SnapsTaken' /\ w'.pc \notin UndoPhases
      BY <2>1 DEF SnapsTaken, UndoPhases
    <2> QED BY <1>3, <1>6, <1>7, <2>3, <2>4, <2>5, <2>6, <2>7, <2>8, <2>9, NotUndoing DEF FilesInv
  <1>15. CASE ~IsSeries /\ w.n < Len(w.call.changes)
    <2>1. /\ w' = [w EXCEPT !.n = w.n + 1] /\ w'.pc = "record" /\ w'.n = w.n + 1
          /\ w'.call = w.call /\ w'.done = w.done /\ w'.snap = w.snap /\ w'.group = w.group
          /\ w'.targets = w.targets
      BY <1>1, <1>2, <1>15, WorkFields DEF AfterRecord, Works
    <2>2. w'.pc \in CallPhases /\ w'.pc \notin UndoPhases
      BY <2>1 DEF UndoPhases, CallPhases
    <2>3. w' \in Works(made, requests, n)
      <3>1. w.n + 1 \in Nat
        BY <1>2
      <3> QED BY <1>2, <2>1, <3>1, WorkFields DEF Works
    <2>4. ~Selfwritten /\ w.call.tool # "single"
      <3>1. Len(w.call.changes) # 1
        <4>1. w.n >= 1 /\ w.n < Len(w.call.changes) /\ w.n \in Nat /\ Len(w.call.changes) \in Nat
          BY <1>2, <1>15
        <4>2. \A a, b \in Nat : a >= 1 /\ a < b => b # 1
          OBVIOUS
        <4> QED BY <4>1, <4>2
      <3> QED BY <1>2, <1>15, <3>1, CallFacts DEF IsSeries, Selfwritten
    <2>5. PhaseOK'
      <3>1. w.n + 1 >= 1 /\ w.n + 1 <= Len(w.call.changes)
        BY <1>2, <1>15
      <3> QED BY <1>1, <1>2, <1>15, <2>1, <2>2, <2>4, <3>1 DEF PhaseOK, IsSeries, Selfwritten
    <2>6. Current.to = None /\ \A i \in 1..Len(w.call.changes) : w.call.changes[i].to = None
      BY <1>2, <1>8, <2>4, CallFacts DEF Current
    <2>7. Explained'
      <3>1. Touched' = Unrecorded'
        BY <2>1, <2>4 DEF Touched, Selfwritten
      <3>2. Unrecorded' = {w.call.changes[i].path : i \in (w.n + 1)..Len(w.call.changes)}
                            \cup ({w.call.changes[i].to : i \in (w.n + 1)..Len(w.call.changes)} \ {None})
        BY <2>1 DEF Unrecorded
      <3>3. \A i \in w.n..Len(w.call.changes) : i \in 1..Len(w.call.changes)
                                             /\ (i = w.n \/ i \in (w.n + 1)..Len(w.call.changes))
        BY <1>2
      <3>4. Touched \subseteq Touched' \cup {Current.path}
        BY <1>8, <1>9, <2>4, <2>6, <3>1, <3>2, <3>3 DEF Current
      <3> QED BY <1>10, <1>11, <3>4
    <2>8. BackupsKnown'
      <3>1. Len(w.done) = Len(w.call.changes)
        BY <1>1, <1>2, <2>4 DEF PhaseOK
      <3>2. ASSUME NEW i \in (w.n + 1)..Len(w.done) PROVE BackupKnown(w.done[i])'
        <4>1. i \in w.n..Len(w.done) /\ i \in 1..Len(w.call.changes) /\ i # w.n
          BY <1>2, <3>1
        <4>2. BackupKnown(w.done[i])
          BY <1>1, <1>2, <2>4, <4>1 DEF BackupsKnown
        <4>3. w.done[i].path = w.call.changes[i].path /\ w.done[i].to = None
          BY <1>2, <2>6, <3>1, <4>1 DEF PhaseOK
        <4>4. w.done[i].path \in Paths \ PathsOf(Current)
          <5>1. w.call.changes[i].path # Current.path /\ w.call.changes[i].path \in Paths
            BY <1>2, <1>8, <1>15, <4>1, CallFacts DEF Current, IsSeries
          <5> QED BY <2>6, <4>3, <5>1 DEF PathsOf
        <4> QED BY <1>1, <1>3, <2>1, <4>2, <4>3, <4>4 DEF BackupKnown
      <3>3. SeriesRecords'
        BY <1>15, <2>1 DEF SeriesRecords, IsSeries
      <3> QED BY <2>1, <2>4, <3>2, <3>3 DEF BackupsKnown, Selfwritten
    <2>9. GroupOfCall'
      <3> SUFFICES ASSUME w.group # 0, NEW j \in 1..(n + 1), mem'[j].group = w.group
                   PROVE  /\ \A k \in j..(n + 1) : mem'[k].group = w.group
                          /\ ~mem'[j].undone
                          /\ \E i \in 1..w.n : i <= Len(w.call.changes)
                                               /\ mem'[j].path = w.call.changes[i].path
        <4>1. Recordable' = w'.n - 1
          BY <2>1 DEF Recordable
        <4>2. Recordable' = w.n
          BY <1>2, <2>1, <4>1
        <4> QED BY <1>3, <2>1, <4>2 DEF GroupOfCall
      <3>1. CASE j = n + 1
        <4>1. \A k \in j..(n + 1) : k = n + 1
          BY <1>2, <3>1
        <4> QED BY <1>2, <1>3, <1>4, <1>8, <3>1, <4>1 DEF Current
      <3>2. CASE j # n + 1
        <4>1. j \in 1..n
          BY <1>2, <3>2
        <4>2. /\ \A k \in j..n : mem[k].group = w.group
              /\ ~mem[j].undone
              /\ \E i \in 1..Recordable : i <= Len(w.call.changes)
                                          /\ mem[j].path = w.call.changes[i].path
          BY <1>2, <1>3, <4>1 DEF GroupOfCall
        <4>3. 1..Recordable \subseteq 1..w.n
          BY <1>1, <1>2 DEF Recordable
        <4>4. \A k \in j..(n + 1) : k = n + 1 \/ (k \in j..n /\ k \in 1..n)
          BY <1>2, <4>1
        <4> QED BY <1>3, <1>4, <4>1, <4>2, <4>3, <4>4
      <3> QED BY <3>1, <3>2
    <2>10. SnapsTaken' /\ Listed'
      BY <1>1, <1>13, <2>1 DEF SnapsTaken, Listed
    <2> QED BY <1>3, <1>6, <1>7, <2>2, <2>3, <2>5, <2>7, <2>8, <2>9, <2>10, NotUndoing DEF FilesInv
  <1>16. CASE ~IsSeries /\ ~ (w.n < Len(w.call.changes))
    <2>1. w' = Ended /\ w.n = Len(w.call.changes)
      BY <1>1, <1>2, <1>16 DEF AfterRecord
    <2>2. FileTypes'
      <3>1. requests' \in Nat
        BY <1>1, <1>2, WorkFields
      <3> QED BY <1>7, <2>1, <3>1, IdleIs
    <2>3. Explained'
      <3>1. \A i \in w.n..Len(w.call.changes) : i = w.n
        BY <1>2, <2>1
      <3>2. Touched \subseteq PathsOf(Current)
        BY <1>8, <1>9, <1>11, <3>1, NoneAssumption DEF Current, PathsOf
      <3> QED BY <1>10, <3>2
    <2>4. ManifestRecorded'
      BY <1>1, <1>13, <2>2 DEF ManifestRecorded, FileTypes
    <2> QED BY <1>3, <2>1, <2>2, <2>3, <2>4, RestsNext
  <1> QED BY <1>14, <1>15, <1>16

\* What the call has changed so far.
DonePaths == {w.done[i].path : i \in 1..Len(w.done)}

\* A call that backs its files up itself.
LEMMA BackingUp ==
  ASSUME FilesInv, w.pc \in {"backup", "write"}
  PROVE  /\ FileTypes /\ PhaseOK /\ Explained /\ BackupsKnown /\ GroupOfCall /\ SnapsTaken
         /\ w.pc \in CallPhases /\ w.call \in Calls /\ w.targets = {} /\ w.n \in Nat /\ w.n >= 1
         /\ w.n \in 1..Len(w.call.changes) /\ w.n <= Len(w.call.changes)
         /\ Len(w.call.changes) \in Nat /\ Len(w.done) \in Nat /\ Len(w.done) = w.n - 1
         /\ w.call.tool \in {"patch", "command", "single"}
         /\ Current = w.call.changes[w.n]
         /\ Current.path \in Paths /\ Current.to \in Paths \cup {None} /\ Current.to # Current.path
         /\ Current.path \in PathsOf(Current) /\ PathsOf(Current) \subseteq Paths
         /\ PathsOf(Current) \cap DonePaths = {}
         /\ Current.to = None \/ w.call.tool = "single"
         /\ w.call.tool = "single" => w.n = Len(w.call.changes) /\ DonePaths = {}
         /\ \A i \in 1..Len(w.done) : i \in 1..Len(w.call.changes) /\ w.done[i] \in Results(made)
         /\ Touched = DonePaths \cup (IF w.pc = "write" /\ MovesAway THEN {Current.path} ELSE {})
PROOF
  <1>1. /\ FileTypes /\ PhaseOK /\ Explained /\ BackupsKnown /\ GroupOfCall /\ SnapsTaken
        /\ w.pc \in CallPhases /\ w.call \in Calls /\ w.targets = {} /\ w.n \in Nat /\ w.n >= 1
        /\ w.n <= Len(w.call.changes) /\ Len(w.done) = w.n - 1 /\ ~Selfwritten
    BY WorkFields DEF FilesInv, PhaseOK, CallPhases
  <1>2. /\ Len(w.call.changes) \in Nat /\ w.n \in 1..Len(w.call.changes)
        /\ w.call.tool \in {"patch", "command", "single"}
    BY <1>1, CallFacts DEF Selfwritten
  <1>3. /\ Current.path \in Paths /\ Current.to \in Paths \cup {None}
        /\ Current.to # Current.path /\ PathsOf(Current) \subseteq Paths
        /\ Current.path \in PathsOf(Current)
    BY <1>1, ChangePaths, NoneAssumption DEF PathsOf
  <1>4. /\ w.done \in Seq(Results(made)) /\ Len(w.done) \in Nat
        /\ \A i \in 1..Len(w.done) : i \in 1..Len(w.call.changes) /\ i # w.n /\ w.done[i] \in Results(made)
    <2>1. w.done \in Seq(Results(made)) /\ Len(w.done) \in Nat
      BY <1>1, WorkFields
    <2>2. \A i \in 1..Len(w.done) : w.done[i] \in Results(made)
      BY <2>1
    <2>3. \A i \in 1..Len(w.done) : i \in 1..Len(w.call.changes) /\ i # w.n
      BY <1>1, <1>2, <2>1
    <2> QED BY <2>1, <2>2, <2>3
  <1>5. Current.to = None \/ w.call.tool = "single"
    BY <1>1, <1>2, CallFacts DEF Current
  <1>6. w.call.tool = "single" => w.n = Len(w.call.changes) /\ DonePaths = {}
    <2> SUFFICES ASSUME w.call.tool = "single" PROVE w.n = Len(w.call.changes) /\ DonePaths = {}
      OBVIOUS
    <2>1. Len(w.call.changes) = 1
      BY <1>1, CallFacts
    <2>2. \A a, b, c \in Nat : a <= b /\ b = 1 /\ a >= 1 /\ c = a - 1 => a = b /\ c = 0
      OBVIOUS
    <2>3. w.n = Len(w.call.changes) /\ Len(w.done) = 0
      BY <1>1, <1>2, <1>4, <2>1, <2>2
    <2>4. 1..Len(w.done) = {}
      BY <2>3
    <2> QED BY <2>3, <2>4 DEF DonePaths
  <1>7. PathsOf(Current) \cap DonePaths = {}
    <2>1. \A i \in 1..Len(w.done) : w.done[i].path # Current.path
      <3>1. \A i, j \in 1..Len(w.call.changes) :
              w.call.changes[i].path = w.call.changes[j].path => i = j
        BY <1>1, <1>2, CallFacts
      <3>2. \A i \in 1..Len(w.done) : w.done[i].path = w.call.changes[i].path
        BY <1>1 DEF PhaseOK
      <3> QED BY <1>2, <1>4, <3>1, <3>2 DEF Current
    <2>2. Current.path \notin DonePaths
      BY <2>1 DEF DonePaths
    <2>3. CASE w.call.tool = "single"
      BY <1>6, <2>3
    <2>4. CASE w.call.tool # "single"
      BY <1>5, <2>2, <2>4 DEF PathsOf
    <2> QED BY <2>3, <2>4
  <1>8. Touched = DonePaths \cup (IF w.pc = "write" /\ MovesAway THEN {Current.path} ELSE {})
    <2>1. DOMAIN w.done = 1..Len(w.done)
      BY <1>4
    <2> QED BY <2>1 DEF Touched, DonePaths
  <1> QED BY <1>1, <1>2, <1>3, <1>4, <1>5, <1>6, <1>7, <1>8 DEF Current

\* The call gives up and takes back what it has done.
LEMMA AbandonStep ==
  ASSUME FilesInv, w.pc \in {"backup", "write"}, w' = Abandoned,
         UNCHANGED <<mem, disk, base, requests, edited, restored, manifest>>,
         made' = made \/ made' = made + 1, files' \in [Paths -> 0..made'],
         dirty \subseteq dirty', dirty' \subseteq Paths,
         \A p \in Paths \ (dirty' \cup DonePaths) : files'[p] = Says(p)
  PROVE  FilesInv'
PROOF
  <1>1. /\ FileTypes /\ PhaseOK /\ BackupsKnown /\ GroupOfCall
        /\ w.pc \in CallPhases /\ w.call \in Calls /\ w.targets = {} /\ w.n \in Nat /\ w.n >= 1
        /\ w.n <= Len(w.call.changes)
        /\ w.call.tool \in {"patch", "command", "single"} /\ Len(w.done) = w.n - 1
        /\ w.call.tool = "single" => DonePaths = {}
        /\ Len(w.done) \in Nat /\ Len(w.call.changes) \in Nat
    BY BackingUp
  <1>2. CASE w.call.tool = "single"
    <2>1. w' = Ended
      BY <1>2 DEF Abandoned
    <2>2. FileTypes'
      BY <1>1, <2>1, IdleIs, WorkFields, TypesGrow DEF FileTypes
    <2>3. Explained'
      BY <1>1, <1>2 DEF Explained, Says
    <2>4. Saved' /\ Chain' /\ Groups' /\ UndoneRestored'
      BY LogKept DEF FilesInv
    <2>5. ManifestRecorded'
      BY ManifestIs DEF ManifestRecorded
    <2> QED BY <2>1, <2>2, <2>3, <2>4, <2>5, RestsNext
  <1>3. CASE w.call.tool # "single"
    <2>1. /\ w' = [w EXCEPT !.pc = "rollback"] /\ w'.pc = "rollback" /\ w'.n = w.n
          /\ w'.call = w.call /\ w'.done = w.done /\ w'.snap = w.snap /\ w'.group = w.group
          /\ w'.targets = w.targets
      BY <1>1, <1>3, WorkFields DEF Abandoned, At, Works
    <2>2. "rollback" \in States /\ w'.pc \in CallPhases
      BY <2>1 DEF States, CallPhases
    <2>3. w' \in Works(made', requests, Len(mem))
      BY <1>1, <2>1, <2>2, TypesGrow DEF Works
    <2>4. FileTypes'
      BY <1>1, <2>3, TypesGrow DEF FileTypes
    <2>5. PhaseOK'
      BY <1>1, <1>3, <2>1, <2>2 DEF PhaseOK, UndoPhases, IsSeries, Selfwritten
    <2>6. Explained'
      <3>1. DOMAIN w.done = 1..Len(w.done)
        BY <1>1, WorkFields
      <3>2. Touched' = DonePaths
        BY <2>1, <3>1 DEF Touched, DonePaths
      <3> QED BY <3>2 DEF Explained, Says
    <2>7. BackupsKnown'
      BY <2>1 DEF BackupsKnown, SeriesRecords, BackupKnown, Says, FilesInv
    <2>8. GroupOfCall'
      <3>1. Recordable = 0 /\ Recordable' = 0
        BY <2>1 DEF Recordable
      <3> QED BY <1>1, <2>1, <3>1, GroupKept
    <2>9. SnapsTaken' /\ Listed'
      BY <2>1 DEF SnapsTaken, Listed, FilesInv
    <2> QED BY <2>2, <2>4, <2>5, <2>6, <2>7, <2>8, <2>9, CallGoes
  <1> QED BY <1>2, <1>3

LEMMA BackupStep == FilesInv /\ Backup => FilesInv'
PROOF
  <1> SUFFICES ASSUME FilesInv, Backup PROVE FilesInv'
    OBVIOUS
  <1>1. /\ w.pc = "backup" /\ w.pc \in {"backup", "write"}
        /\ UNCHANGED <<mem, disk, base, made, requests, edited, restored, dirty, manifest>>
    BY DEF Backup, Counters, logs
  <1>2. /\ FileTypes /\ PhaseOK /\ Explained /\ BackupsKnown /\ GroupOfCall /\ SnapsTaken
        /\ w.pc \in CallPhases /\ w.call \in Calls /\ w.targets = {} /\ w.n \in Nat /\ w.n >= 1
        /\ w.n \in 1..Len(w.call.changes) /\ Len(w.done) = w.n - 1
        /\ w.n <= Len(w.call.changes)
        /\ w.call.tool \in {"patch", "command", "single"}
        /\ Current.path \in Paths /\ Current.to \in Paths \cup {None} /\ Current.to # Current.path
        /\ Current.path \in PathsOf(Current) /\ PathsOf(Current) \subseteq Paths
        /\ PathsOf(Current) \cap DonePaths = {}
        /\ Current.to = None \/ w.call.tool = "single"
        /\ Touched = DonePaths
    BY <1>1, BackingUp
  <1>3. CASE w' = Abandoned /\ files' = files
    <2>1. /\ files' \in [Paths -> 0..made'] /\ dirty' \subseteq Paths
          /\ \A p \in Paths \ (dirty' \cup DonePaths) : files'[p] = Says(p)
      BY <1>1, <1>2, <1>3 DEF FileTypes, Explained
    <2> QED BY <1>1, <1>3, <2>1, AbandonStep
  <1>4. CASE /\ w' = [w EXCEPT !.pc = "write", !.snap = BackedUp]
             /\ files' = IF MovesAway THEN [files EXCEPT ![Current.path] = Missing] ELSE files
    <2> DEFINE s == BackedUp
    <2>1. /\ s \in [Paths -> {None} \cup Snaps(made)]
          /\ \A p \in PathsOf(Current) :
               s[p] \in Snaps(made) /\ s[p] # None /\ s[p].backup = files[p]
          /\ \A p \in Paths : w.call.tool = "command" /\ w.snap[p] # None => s[p] # None
          /\ w.call.tool = "command" => s[Current.path].act = w.snap[Current.path].act
      <3>1. CASE w.call.tool = "command"
        <4>1. w.snap[Current.path] # None
          BY <1>1, <1>2, <3>1 DEF SnapsTaken, Current
        <4>2. w.snap[Current.path] \in Snaps(made) /\ files[Current.path] \in 0..made
              /\ w.snap \in [Paths -> {None} \cup Snaps(made)]
          BY <1>2, <4>1, WorkFields DEF FileTypes
        <4> DEFINE v == [w.snap[Current.path] EXCEPT !.backup = files[Current.path]]
        <4>3. /\ v \in Snaps(made) /\ v.backup = files[Current.path]
              /\ v.act = w.snap[Current.path].act
          BY <4>2 DEF Snaps
        <4>4. v # None
          <5>1. v \in [act : {"created", "modified"}, backup : Nat]
            BY <1>2, <4>3 DEF Snaps, FileTypes
          <5> QED BY <5>1, NoneAssumption
        <4>5. s = [w.snap EXCEPT ![Current.path] = v]
          BY <3>1 DEF BackedUp
        <4>6. PathsOf(Current) = {Current.path}
          BY <1>2, <3>1, NoneAssumption DEF PathsOf
        <4> HIDE DEF v, s
        <4> QED BY <1>2, <4>2, <4>3, <4>4, <4>5, <4>6
      <3>2. CASE w.call.tool # "command"
        <4>1. s = [p \in Paths |-> IF p \in {Current.path, Current.to} THEN Snapshot(p) ELSE w.snap[p]]
          BY <3>2 DEF BackedUp
        <4>2. \A p \in Paths : /\ Snapshot(p) \in Snaps(made) /\ Snapshot(p) # None
                               /\ Snapshot(p).backup = files[p]
          BY <1>2, SnapshotKnown
        <4>3. \A p \in PathsOf(Current) : p \in {Current.path, Current.to} /\ p \in Paths
          BY <1>2 DEF PathsOf
        <4>4. w.snap \in [Paths -> {None} \cup Snaps(made)]
          BY <1>2, WorkFields
        <4> HIDE DEF s
        <4> QED BY <3>2, <4>1, <4>2, <4>3, <4>4
      <3> QED BY <3>1, <3>2
    <2> HIDE DEF s
    <2>2. w' = [w EXCEPT !.pc = "write", !.snap = s]
      BY <1>4 DEF s
    <2>3. /\ w'.pc = "write" /\ w'.n = w.n /\ w'.call = w.call /\ w'.done = w.done
          /\ w'.snap = s /\ w'.group = w.group /\ w'.targets = w.targets
      BY <1>2, <2>2, WorkFields DEF Works
    <2>4. "write" \in States /\ w'.pc \in CallPhases
      BY <2>3 DEF States, CallPhases
    <2>5. w' \in Works(made, requests, Len(mem))
      BY <1>2, <2>1, <2>2, <2>4, WorkFields DEF Works
    <2>6. files' \in [Paths -> 0..made]
      <3>1. Missing \in 0..made /\ files \in [Paths -> 0..made]
        BY <1>2 DEF FileTypes, Missing
      <3> QED BY <1>4, <3>1
    <2>7. FileTypes'
      BY <1>1, <1>2, <2>5, <2>6 DEF FileTypes
    <2>8. PhaseOK'
      BY <1>1, <1>2, <2>3, <2>4 DEF PhaseOK, UndoPhases, IsSeries, Selfwritten
    <2>9. Current' = Current
      BY <2>3 DEF Current
    <2>10. SnapsTaken'
      <3>1. ASSUME w.call.tool = "command", NEW i \in 1..Len(w.call.changes)
            PROVE  s[w.call.changes[i].path] # None
        BY <1>1, <1>2, <2>1, <3>1, CallFacts DEF SnapsTaken
      <3> QED BY <2>1, <2>3, <2>9, <3>1 DEF SnapsTaken
    <2>11. Explained'
      <3>1. MovesAway' <=> MovesAway
        BY <2>1, <2>3, <2>9 DEF MovesAway
      <3>2. DOMAIN w.done = 1..Len(w.done)
        BY <1>2, WorkFields
      <3>3. Touched' = DonePaths \cup (IF MovesAway THEN {Current.path} ELSE {})
        BY <2>3, <2>9, <3>1, <3>2 DEF Touched, DonePaths
      <3>4. ASSUME NEW p \in Paths \ (dirty \cup Touched') PROVE files'[p] = files[p]
        <4>1. MovesAway => p # Current.path
          BY <3>3, <3>4
        <4> QED BY <1>2, <1>4, <4>1 DEF FileTypes
      <3> QED BY <1>1, <1>2, <3>3, <3>4 DEF Explained, Says
    <2>12. BackupsKnown'
      <3>1. \A i \in 1..Len(w.done) : BackupKnown(w.done[i])
        BY <1>1, <1>2 DEF BackupsKnown
      <3>2. ASSUME NEW p \in PathsOf(Current) PROVE SnapKnown(p)'
        <4>1. p \notin dirty => s[p].backup = Says(p)
          BY <1>2, <2>1, <3>2 DEF Explained
        <4> QED BY <1>1, <2>3, <4>1 DEF SnapKnown, Says
      <3> QED BY <1>1, <2>3, <2>9, <3>1, <3>2 DEF BackupsKnown, SeriesRecords, BackupKnown, Says
    <2>13. GroupOfCall'
      <3>1. Recordable = 0 /\ Recordable' = 0
        BY <1>1, <2>3 DEF Recordable
      <3> QED BY <1>1, <1>2, <2>3, <3>1, GroupKept
    <2>14. Listed'
      BY <1>1, <2>3 DEF Listed, FilesInv
    <2> QED BY <1>1, <2>4, <2>7, <2>8, <2>10, <2>11, <2>12, <2>13, <2>14, CallGoes
  <1> QED BY <1>3, <1>4 DEF Backup

\* What the step has just done, and the backups of it.
LEMMA ResultIs ==
  ASSUME FilesInv, w.pc = "write"
  PROVE  /\ Result \in Results(made) /\ Result.path = Current.path /\ Result.to = Current.to
         /\ BackupKnown(Result)
PROOF
  <1>1. /\ FileTypes /\ BackupsKnown /\ SnapsTaken
        /\ Current.path \in Paths /\ Current.to \in Paths \cup {None} /\ Current.to # Current.path
        /\ Current.path \in PathsOf(Current) /\ PathsOf(Current) \subseteq Paths
    BY BackingUp
  <1>2. \A p \in PathsOf(Current) : w.snap[p] \in Snaps(made) /\ SnapKnown(p) /\ w.snap[p] # None
    <2>1. \A p \in PathsOf(Current) : w.snap[p] # None /\ w.snap[p] \in {None} \cup Snaps(made)
      BY <1>1, WorkFields DEF SnapsTaken
    <2> QED BY <1>1, <2>1 DEF BackupsKnown
  <1>3. Current.to # None => Current.to \in PathsOf(Current)
    BY DEF PathsOf
  <1> DEFINE a == CASE Current.do = "delete" -> "deleted" [] Current.do = "rename" -> "renamed"
                    [] OTHER -> w.snap[Current.path].act
             t == IF Current.to = None THEN Missing ELSE w.snap[Current.to].backup
  <1>4. Result = [act |-> a, path |-> Current.path, to |-> Current.to,
                  backup |-> w.snap[Current.path].backup, toBackup |-> t]
    BY DEF Result
  <1>5. a \in {"created", "modified", "deleted", "renamed"}
    <2>1. w.snap[Current.path].act \in {"created", "modified"}
      BY <1>1, <1>2 DEF Snaps
    <2> QED BY <2>1
  <1>6. w.snap[Current.path].backup \in 0..made
    BY <1>1, <1>2 DEF Snaps
  <1>7. t \in 0..made
    <2>1. Missing \in 0..made
      BY <1>1 DEF FileTypes, Missing
    <2>2. Current.to # None => w.snap[Current.to].backup \in 0..made
      BY <1>2, <1>3 DEF Snaps
    <2> QED BY <2>1, <2>2
  <1>8. /\ Current.path \notin dirty => w.snap[Current.path].backup = Says(Current.path)
        /\ Current.to \notin dirty \cup {None} => t = Says(Current.to)
    BY <1>1, <1>2, <1>3 DEF SnapKnown
  <1> HIDE DEF a, t
  <1> QED BY <1>1, <1>4, <1>5, <1>6, <1>7, <1>8 DEF Results, BackupKnown

LEMMA WriteStep == FilesInv /\ Write => FilesInv'
PROOF
  <1> SUFFICES ASSUME FilesInv, Write PROVE FilesInv'
    OBVIOUS
  <1>1. /\ w.pc = "write" /\ w.pc \in {"backup", "write"}
        /\ UNCHANGED <<mem, disk, base, requests, edited, restored, dirty, manifest>>
        /\ made' = made \/ made' = made + 1
    BY DEF Write, Counters, logs
  <1>2. /\ FileTypes /\ PhaseOK /\ Explained /\ BackupsKnown /\ GroupOfCall /\ SnapsTaken
        /\ w.pc \in CallPhases /\ w.call \in Calls /\ w.targets = {} /\ w.n \in Nat /\ w.n >= 1
        /\ w.n \in 1..Len(w.call.changes) /\ Len(w.done) = w.n - 1
        /\ Len(w.call.changes) \in Nat /\ Len(w.done) \in Nat
        /\ w.n <= Len(w.call.changes)
        /\ w.call.tool \in {"patch", "command", "single"}
        /\ Current = w.call.changes[w.n]
        /\ Current.path \in Paths /\ Current.to \in Paths \cup {None} /\ Current.to # Current.path
        /\ Current.path \in PathsOf(Current) /\ PathsOf(Current) \subseteq Paths
        /\ Current.to = None \/ w.call.tool = "single"
        /\ w.call.tool = "single" => w.n = Len(w.call.changes) /\ DonePaths = {}
    BY <1>1, BackingUp
  <1>3. DonePaths \subseteq Touched
    BY <1>1, BackingUp
  <1>4. /\ Result \in Results(made') /\ Result.path = Current.path /\ Result.to = Current.to
        /\ BackupKnown(Result)
    BY <1>1, <1>2, ResultIs, TypesGrow
  <1> DEFINE d == Append(w.done, Result)
             pc == IF w.n = Len(w.call.changes) THEN "record" ELSE "backup"
             n == IF w.n = Len(w.call.changes) THEN 1 ELSE w.n + 1
  <1>5. /\ d \in Seq(Results(made')) /\ Len(d) = w.n
        /\ \A i \in 1..Len(w.done) : d[i] = w.done[i]
        /\ d[w.n] = Result
        /\ \A i \in 1..w.n : i = w.n \/ i \in 1..Len(w.done)
    <2>1. w.done \in Seq(Results(made')) /\ made' \in Nat
      BY <1>1, <1>2, TypesGrow DEF Works
    <2> QED BY <1>2, <1>4, <2>1
  <1>6. w' = [w EXCEPT !.done = d, !.pc = pc, !.n = n]
    BY DEF Write
  <1> HIDE DEF d
  <1>7. /\ w'.pc = pc /\ w'.n = n /\ w'.call = w.call /\ w'.done = d /\ w'.snap = w.snap
        /\ w'.group = w.group /\ w'.targets = w.targets
    BY <1>2, <1>6, WorkFields DEF Works
  <1>8. pc \in States /\ pc \in CallPhases /\ n \in Nat
    BY <1>2 DEF States, CallPhases
  <1>9. w' \in Works(made', requests, Len(mem))
    BY <1>1, <1>2, <1>5, <1>6, <1>8, TypesGrow DEF Works
  <1>10. /\ files' \in [Paths -> 0..made']
         /\ \A p \in Paths \ PathsOf(Current) : files'[p] = files[p]
    <2>1. files \in [Paths -> 0..made'] /\ files \in [Paths -> 0..made]
      BY <1>1, <1>2, TypesGrow DEF FileTypes
    <2>2. Missing \in 0..made' /\ made' \in 0..made'
      BY <1>1, <1>2, TypesGrow DEF Missing
    <2>3. CASE files' = [files EXCEPT ![Current.path] = Missing]
      BY <1>2, <2>1, <2>2, <2>3
    <2>4. CASE files' = [files EXCEPT ![Current.path] = Missing, ![Current.to] = files[Current.path]]
      <3> DEFINE f == [files EXCEPT ![Current.path] = Missing]
                 v == files[Current.path]
      <3>1. /\ f \in [Paths -> 0..made'] /\ v \in 0..made'
            /\ \A p \in Paths \ PathsOf(Current) : f[p] = files[p]
        BY <1>2, <2>1, <2>2
      <3>2. files' = [f EXCEPT ![Current.to] = v]
        BY <2>4
      <3>3. Current.to \in Paths => Current.to \in PathsOf(Current)
        BY NoneAssumption DEF PathsOf
      <3> HIDE DEF f, v
      <3> QED BY <1>2, <3>1, <3>2, <3>3
    <2>5. CASE files' = [files EXCEPT ![Current.path] = made'] /\ made' = made + 1
      BY <1>2, <2>1, <2>2, <2>5
    <2> QED BY <2>3, <2>4, <2>5 DEF Write, Written
  <1>11. FileTypes'
    BY <1>1, <1>2, <1>9, <1>10, TypesGrow DEF FileTypes
  <1>12. \A i \in 1..w.n : /\ d[i].path = w.call.changes[i].path /\ d[i].to = w.call.changes[i].to
                           /\ BackupKnown(d[i])
    BY <1>1, <1>2, <1>4, <1>5 DEF PhaseOK, BackupsKnown
  <1>13. PhaseOK'
    <2>1. pc = "backup" => n <= Len(w.call.changes) /\ n >= 1 /\ Len(d) = n - 1
      BY <1>2, <1>5
    <2>2. pc = "record" => n <= Len(w.call.changes) /\ n >= 1 /\ Len(d) = Len(w.call.changes)
      BY <1>2, <1>5
    <2>3. Len(d) <= Len(w.call.changes)
      BY <1>2, <1>5
    <2>4. w.group # 0 => w.call.tool # "single"
      BY <1>2 DEF PhaseOK
    <2>5. \A i \in 1..Len(d) : /\ d[i].path = w.call.changes[i].path
                               /\ d[i].to = w.call.changes[i].to
      BY <1>5, <1>12
    <2>6. ~Selfwritten' /\ ~IsSeries'
      BY <1>2, <1>7 DEF Selfwritten, IsSeries
    <2> HIDE DEF n
    <2> QED BY <1>2, <1>7, <1>8, <2>1, <2>2, <2>3, <2>4, <2>5, <2>6 DEF PhaseOK, UndoPhases
  <1>14. SnapsTaken'
    BY <1>1, <1>2, <1>7 DEF SnapsTaken
  <1>15. BackupsKnown'
    <2>1. ~Selfwritten'
      BY <1>2, <1>7 DEF Selfwritten
    <2>2. \A i \in 1..w.n : BackupKnown(w.done[i])'
      BY <1>1, <1>7, <1>12 DEF BackupKnown, Says
    <2>3. w'.pc = "record" => w'.n = 1
      BY <1>7
    <2>4. Len(w'.done) = w.n /\ w'.pc \in {"record", "backup"}
      BY <1>5, <1>7
    <2>5. SeriesRecords'
      BY <1>2, <1>7 DEF SeriesRecords, IsSeries
    <2> QED BY <2>1, <2>2, <2>3, <2>4, <2>5 DEF BackupsKnown
  <1>16. Explained'
    <2>1. DonePaths \cup PathsOf(Current) \subseteq Touched'
      <3>1. CASE pc = "backup"
        <4>1. PathsOf(Current) = {Current.path}
          BY <1>2, <3>1, NoneAssumption DEF PathsOf
        <4>2. Touched' = {d[i].path : i \in 1..w.n}
          <5>1. DOMAIN d = 1..w.n
            BY <1>5
          <5> QED BY <1>7, <3>1, <5>1 DEF Touched
        <4>3. DonePaths \subseteq {d[i].path : i \in 1..w.n}
          <5>1. \A i \in 1..Len(w.done) : i \in 1..w.n
            BY <1>2
          <5> QED BY <1>5, <5>1 DEF DonePaths
        <4>4. Current.path \in {d[i].path : i \in 1..w.n}
          BY <1>2, <1>4, <1>5
        <4> QED BY <4>1, <4>2, <4>3, <4>4
      <3>2. CASE pc = "record"
        <4>1. Touched' = Unrecorded'
          BY <1>2, <1>7, <3>2 DEF Touched, Selfwritten
        <4>2. n = 1
          BY <3>2
        <4>3. Unrecorded' = {w.call.changes[i].path : i \in 1..Len(w.call.changes)}
                              \cup ({w.call.changes[i].to : i \in 1..Len(w.call.changes)} \ {None})
          BY <1>7, <4>2 DEF Unrecorded
        <4>4. PathsOf(Current) \subseteq Unrecorded'
          BY <1>2, <4>3 DEF PathsOf
        <4>5. DonePaths \subseteq Unrecorded'
          <5>1. \A i \in 1..Len(w.done) : i \in 1..Len(w.call.changes)
            BY <1>2
          <5>2. \A i \in 1..Len(w.done) : w.done[i].path = w.call.changes[i].path
            BY <1>2 DEF PhaseOK
          <5> QED BY <4>3, <5>1, <5>2 DEF DonePaths
        <4> QED BY <4>1, <4>4, <4>5
      <3> QED BY <3>1, <3>2
    <2>2. Touched \subseteq DonePaths \cup PathsOf(Current)
      BY <1>1, <1>2, BackingUp
    <2>3. ASSUME NEW p \in Paths \ (dirty \cup Touched') PROVE files'[p] = Says(p)
      BY <1>2, <1>10, <2>1, <2>2, <2>3 DEF Explained
    <2> QED BY <1>1, <2>3 DEF Explained, Says
  <1>17. GroupOfCall'
    <2>1. Recordable = 0 /\ Recordable' = 0
      BY <1>1, <1>7 DEF Recordable
    <2> QED BY <1>1, <1>2, <1>7, <2>1, GroupKept
  <1>18. Listed'
    BY <1>1, <1>7 DEF Listed, FilesInv
  <1> QED BY <1>1, <1>7, <1>8, <1>11, <1>13, <1>14, <1>15, <1>16, <1>17, <1>18, CallGoes

LEMMA WriteFailsStep == FilesInv /\ WriteFails => FilesInv'
PROOF
  <1> SUFFICES ASSUME FilesInv, WriteFails PROVE FilesInv'
    OBVIOUS
  <1> DEFINE p == Current.path
  <1>1. /\ w.pc = "write" /\ w.pc \in {"backup", "write"} /\ w' = Abandoned
        /\ UNCHANGED <<mem, disk, base, requests, edited, restored, manifest>>
        /\ \/ files' = MovedBack /\ UNCHANGED <<dirty, made>>
           \/ UNCHANGED <<files, made>> /\ dirty' = dirty \cup {p}
           \/ files' = [files EXCEPT ![p] = made + 1] /\ made' = made + 1 /\ dirty' = dirty \cup {p}
    BY DEF WriteFails, Written, Counters, logs
  <1>2. /\ FileTypes /\ Explained /\ p \in Paths /\ p \in PathsOf(Current)
        /\ SnapsTaken /\ BackupsKnown
        /\ Touched = DonePaths \cup (IF MovesAway THEN {p} ELSE {})
    BY <1>1, BackingUp
  <1>3. CASE files' = MovedBack /\ UNCHANGED <<dirty, made>>
    <2>1. /\ w.snap[p].backup \in 0..made
          /\ p \notin dirty => w.snap[p].backup = Says(p)
      <3>1. w.snap[p] # None /\ SnapKnown(p)
        BY <1>1, <1>2 DEF SnapsTaken, BackupsKnown
      <3>2. w.snap[p] \in Snaps(made)
        BY <1>2, <3>1, WorkFields
      <3> QED BY <3>1, <3>2 DEF SnapKnown, Snaps
    <2>2. files' = IF MovesAway THEN [files EXCEPT ![p] = w.snap[p].backup] ELSE files
      BY <1>3 DEF MovedBack
    <2> HIDE DEF p
    <2>3. files' \in [Paths -> 0..made'] /\ dirty' \subseteq Paths
      BY <1>2, <1>3, <2>1, <2>2 DEF FileTypes
    <2>4. ASSUME NEW q \in Paths \ (dirty' \cup DonePaths) PROVE files'[q] = Says(q)
      <3>1. CASE MovesAway /\ q = p
        BY <1>2, <1>3, <2>1, <2>2, <2>4, <3>1 DEF FileTypes
      <3>2. CASE ~ (MovesAway /\ q = p)
        <4>1. q \notin Touched
          BY <1>2, <2>4, <3>2
        <4>2. files'[q] = files[q]
          BY <1>2, <2>2, <2>4, <3>2 DEF FileTypes
        <4> QED BY <1>2, <1>3, <2>4, <4>1, <4>2 DEF Explained
      <3> QED BY <3>1, <3>2
    <2> QED BY <1>1, <1>3, <2>3, <2>4, AbandonStep
  <1>4. CASE /\ dirty' = dirty \cup {p}
             /\ \/ UNCHANGED <<files, made>>
                \/ files' = [files EXCEPT ![p] = made + 1] /\ made' = made + 1
    <2> HIDE DEF p
    <2>1. made' = made \/ made' = made + 1
      BY <1>4
    <2>2. files \in [Paths -> 0..made'] /\ made' \in 0..made'
      BY <1>2, <2>1, TypesGrow
    <2>3. files' \in [Paths -> 0..made'] /\ \A q \in Paths : q # p => files'[q] = files[q]
      BY <1>2, <1>4, <2>2
    <2>4. dirty \subseteq dirty' /\ dirty' \subseteq Paths
      BY <1>2, <1>4 DEF FileTypes
    <2>5. ASSUME NEW q \in Paths \ (dirty' \cup DonePaths) PROVE files'[q] = Says(q)
      <3>1. q # p /\ q \notin dirty /\ q \notin Touched
        BY <1>2, <1>4, <2>5
      <3> QED BY <1>2, <2>3, <3>1 DEF Explained
    <2> QED BY <1>1, <2>1, <2>3, <2>4, <2>5, AbandonStep
  <1> QED BY <1>1, <1>3, <1>4

LEMMA FrontIs ==
  ASSUME NEW S, NEW s \in Seq(S), s # <<>>
  PROVE  /\ Front(s) \in Seq(S) /\ Len(Front(s)) = Len(s) - 1 /\ Len(s) \in Nat \ {0}
         /\ \A i \in 1..(Len(s) - 1) : Front(s)[i] = s[i]
         /\ Last(s) = s[Len(s)]
PROOF
  <1>1. Len(s) \in Nat /\ Len(s) # 0
    OBVIOUS
  <1>2. Len(s) >= 1 /\ Len(s) - 1 \in Nat /\ Len(s) - 1 <= Len(s)
    BY <1>1
  <1>3. Front(s) = SubSeq(s, 1, Len(s) - 1)
    BY DEF Front
  <1>4. /\ Len(Front(s)) = Len(s) - 1
        /\ \A i \in 1..(Len(s) - 1) : Front(s)[i] = s[i]
    <2>1. Len(SubSeq(s, 1, Len(s) - 1)) = Len(s) - 1
      <3> DEFINE m == Len(s) - 1
      <3>1. m \in 0..Len(s) /\ 1 \in 1..(Len(s) + 1)
        BY <1>1, <1>2
      <3>2. Len(SubSeq(s, 1, m)) = IF 1 <= m THEN m - 1 + 1 ELSE 0
        BY <1>1, <1>2, <3>1, SubSeqProperties
      <3> HIDE DEF m
      <3>3. (IF 1 <= m THEN m - 1 + 1 ELSE 0) = m
        BY <3>1
      <3> QED BY <3>2, <3>3 DEF m
    <2>2. \A i \in 1..(Len(s) - 1) : SubSeq(s, 1, Len(s) - 1)[i] = s[i]
      BY <1>2
    <2> QED BY <1>3, <2>1, <2>2
  <1>5. Front(s) \in Seq(S)
    <2>1. SubSeq(s, 1, Len(s) - 1) \in Seq(S)
      BY <1>2
    <2> QED BY <1>3, <2>1
  <1> QED BY <1>1, <1>4, <1>5 DEF Last

LEMMA RollbackStep == FilesInv /\ Rollback => FilesInv'
PROOF
  <1> SUFFICES ASSUME FilesInv, Rollback PROVE FilesInv'
    OBVIOUS
  <1>1. /\ w.pc = "rollback" /\ FileTypes /\ PhaseOK /\ Explained /\ BackupsKnown /\ GroupOfCall
        /\ UNCHANGED <<mem, disk, manifest, base, restored, made, requests, edited>>
    BY DEF Rollback, FilesInv, Counters, logs
  <1>2. /\ w.call \in Calls /\ w.pc \in CallPhases /\ w.n >= 1 /\ w.targets = {}
        /\ w.done \in Seq(Results(made)) /\ w.call.tool \in {"patch", "command"}
        /\ Len(w.done) <= Len(w.call.changes) /\ Len(w.call.changes) \in Nat
    BY <1>1, WorkFields, CallFacts DEF PhaseOK, CallPhases
  <1>3. Touched = {w.done[i].path : i \in 1..Len(w.done)}
    <2>1. DOMAIN w.done = 1..Len(w.done)
      BY <1>2
    <2> QED BY <1>1, <2>1 DEF Touched
  <1>4. CASE w.done = <<>>
    <2>1. Touched = {}
      <3>1. 1..Len(w.done) = {}
        BY <1>4
      <3> QED BY <1>3, <3>1
    <2>2. w' = Ended /\ UNCHANGED <<files, dirty>>
      BY <1>4 DEF Rollback
    <2>3. dirty \subseteq Paths
      BY <1>1 DEF FileTypes
    <2> QED BY <1>1, <2>1, <2>2, <2>3, EndsStep
  <1>5. CASE w.done # <<>>
    <2> DEFINE d == Front(w.done)
               k == Len(w.done)
               r == Last(w.done)
    <2>1. /\ d \in Seq(Results(made)) /\ Len(d) = k - 1 /\ k \in Nat \ {0}
          /\ \A i \in 1..(k - 1) : d[i] = w.done[i]
          /\ r = w.done[k]
      BY <1>2, <1>5, FrontIs
    <2>2. r \in Results(made) /\ k \in 1..Len(w.done) /\ BackupKnown(r)
      BY <1>1, <1>2, <2>1 DEF BackupsKnown
    <2>3. r.path \in Paths /\ r.backup \in 0..made
      BY <2>2 DEF Results
    <2>4. /\ w' = [w EXCEPT !.done = d]
          /\ \/ files' = [files EXCEPT ![r.path] = r.backup] /\ dirty' = dirty
             \/ /\ dirty' = dirty \cup {r.path}
                /\ files' = files \/ files' = [files EXCEPT ![r.path] = r.backup]
      BY <1>5 DEF Rollback, RolledBack
    <2> HIDE DEF d, r
    <2>5. /\ w'.pc = "rollback" /\ w'.n = w.n /\ w'.call = w.call /\ w'.done = d
          /\ w'.snap = w.snap /\ w'.group = w.group /\ w'.targets = w.targets
      BY <1>1, <2>4, WorkFields DEF Works
    <2>6. w' \in Works(made, requests, Len(mem))
      BY <1>1, <2>1, <2>4, WorkFields DEF Works
    <2>7. FileTypes'
      BY <1>1, <2>3, <2>4, <2>6 DEF FileTypes
    <2>8. PhaseOK'
      <3>1. Len(d) <= Len(w.call.changes)
        BY <1>2, <2>1
      <3>2. \A i \in 1..Len(d) : /\ d[i].path = w.call.changes[i].path
                                 /\ d[i].to = w.call.changes[i].to
        <4>1. \A i \in 1..Len(d) : i \in 1..(k - 1) /\ i \in 1..Len(w.done)
          BY <2>1
        <4> QED BY <1>1, <1>2, <2>1, <4>1 DEF PhaseOK
      <3>3. ~IsSeries'
        BY <1>2, <2>5 DEF IsSeries
      <3>4. w.group # 0 => w.call.tool # "single"
        BY <1>2 DEF PhaseOK
      <3> QED BY <1>1, <1>2, <2>5, <3>1, <3>2, <3>3, <3>4 DEF PhaseOK, UndoPhases
    <2>9. Explained'
      <3>1. Touched \subseteq Touched' \cup {r.path}
        <4>1. DOMAIN d = 1..(k - 1)
          BY <2>1
        <4>2. Touched' = {d[i].path : i \in 1..(k - 1)}
          BY <2>5, <4>1 DEF Touched
        <4>3. \A i \in 1..Len(w.done) : i = k \/ i \in 1..(k - 1)
          BY <2>1
        <4> QED BY <1>3, <2>1, <4>2, <4>3
      <3>2. ASSUME NEW p \in Paths \ (dirty' \cup Touched') PROVE files'[p] = Says(p)
        <4>1. CASE p = r.path
          <5>1. files' = [files EXCEPT ![r.path] = r.backup] /\ dirty' = dirty
            BY <2>4, <3>2, <4>1
          <5>2. r.backup = Says(p)
            BY <2>2, <3>2, <4>1, <5>1 DEF BackupKnown
          <5> QED BY <1>1, <4>1, <5>1, <5>2 DEF FileTypes
        <4>2. CASE p # r.path
          <5>1. files'[p] = files[p] /\ p \notin dirty /\ p \notin Touched
            BY <1>1, <2>4, <3>1, <3>2, <4>2 DEF FileTypes
          <5> QED BY <1>1, <3>2, <5>1 DEF Explained
        <4> QED BY <4>1, <4>2
      <3> QED BY <1>1, <3>2 DEF Explained, Says
    <2>10. BackupsKnown'
      <3>1. dirty \subseteq dirty'
        BY <2>4
      <3>2. \A i \in 1..(k - 1) : BackupKnown(w.done[i])
        BY <1>1, <2>1 DEF BackupsKnown
      <3>3. \A i \in 1..(k - 1) : BackupKnown(w.done[i])'
        BY <1>1, <2>1, <2>5, <3>1, <3>2 DEF BackupKnown, Says
      <3>4. w'.pc = "rollback" /\ Len(w'.done) = k - 1
        BY <2>1, <2>5
      <3> QED BY <3>3, <3>4 DEF BackupsKnown, SeriesRecords
    <2>11. GroupOfCall'
      <3>1. Recordable = 0 /\ Recordable' = 0
        BY <1>1, <2>5 DEF Recordable
      <3> QED BY <1>1, <1>2, <2>5, <3>1, GroupKept
    <2>12. SnapsTaken' /\ Listed'
      BY <1>1, <2>5 DEF SnapsTaken, Listed, FilesInv
    <2>13. w'.pc \in CallPhases /\ (dirty' = dirty \/ dirty \subseteq dirty')
      BY <2>4, <2>5 DEF CallPhases
    <2> QED BY <1>1, <2>7, <2>8, <2>9, <2>10, <2>11, <2>12, <2>13, CallGoes
  <1> QED BY <1>4, <1>5

-----------------------------------------------------------------------------
(* Around the operations *)

\* A step that fails, or that the user disturbs, taints no more than the paths
\* of its operation.
LEMMA InFlightIs ==
  ASSUME FilesInv
  PROVE  /\ InFlight \subseteq Paths /\ Touched \subseteq InFlight
         /\ w.pc \in CallPhases => \A i \in 1..Len(w.call.changes) :
              /\ w.call.changes[i].path \in InFlight
              /\ w.call.changes[i].to # None => w.call.changes[i].to \in InFlight
         /\ \A t \in w.targets : PathsOf(mem[t]) \subseteq InFlight
PROOF
  <1>1. /\ FileTypes /\ PhaseOK /\ w.call \in Calls \cup {None} /\ w.targets \in SUBSET (1..Len(mem))
    BY WorkFields DEF FilesInv
  <1>2. \A t \in w.targets : PathsOf(mem[t]) \subseteq InFlight /\ PathsOf(mem[t]) \subseteq Paths
    <2>1. \A t \in w.targets : PathsOf(mem[t]) \subseteq InFlight
      BY DEF InFlight
    <2>2. \A t \in w.targets : PathsOf(mem[t]) \subseteq Paths
      BY <1>1, EventFields DEF PathsOf
    <2> QED BY <2>1, <2>2
  <1>3. ASSUME w.call # None
        PROVE  /\ \A i \in 1..Len(w.call.changes) : PathsOf(w.call.changes[i]) \subseteq InFlight
               /\ UNION {PathsOf(c) : c \in ToSet(w.call.changes)} \subseteq Paths
    <2>1. w.call \in Calls /\ DOMAIN w.call.changes = 1..Len(w.call.changes)
      BY <1>1, <1>3, CallsAssumption DEF Call
    <2>2. \A c \in ToSet(w.call.changes) : \E i \in 1..Len(w.call.changes) : c = w.call.changes[i]
      BY <2>1 DEF ToSet
    <2>3. \A i \in 1..Len(w.call.changes) : w.call.changes[i] \in ToSet(w.call.changes)
      BY <2>1 DEF ToSet
    <2>4. \A i \in 1..Len(w.call.changes) : PathsOf(w.call.changes[i]) \subseteq Paths
      BY <2>1, CallFacts DEF PathsOf
    <2>5. UNION {PathsOf(c) : c \in ToSet(w.call.changes)} \subseteq Paths
      BY <2>2, <2>4
    <2>6. \A i \in 1..Len(w.call.changes) :
            PathsOf(w.call.changes[i]) \subseteq UNION {PathsOf(c) : c \in ToSet(w.call.changes)}
      BY <2>3
    <2> QED BY <1>3, <2>5, <2>6 DEF InFlight
  <1>4. InFlight \subseteq Paths
    <2>1. UNION {PathsOf(mem[k]) : k \in w.targets} \subseteq Paths
      BY <1>2
    <2> QED BY <1>3, <2>1 DEF InFlight
  <1>5. w.pc \in CallPhases => w.call \in Calls /\ w.call # None
    BY <1>1, CallFacts DEF PhaseOK
  <1>6. ASSUME w.pc \in CallPhases, NEW i \in 1..Len(w.call.changes)
        PROVE  /\ w.call.changes[i].path \in InFlight
               /\ w.call.changes[i].to # None => w.call.changes[i].to \in InFlight
    <2>1. w.call.changes[i].path # None
      BY <1>5, <1>6, CallFacts, NoneAssumption
    <2> QED BY <1>3, <1>5, <1>6, <2>1 DEF PathsOf
  <1>7. ASSUME w.pc \in {"backup", "rollback", "write", "record"}
        PROVE  Touched \subseteq InFlight
    <2>1. w.pc \in CallPhases /\ w.call \in Calls /\ Len(w.call.changes) \in Nat
      BY <1>1, <1>7, CallFacts DEF PhaseOK, CallPhases
    <2>2. ASSUME NEW i \in DOMAIN w.done PROVE w.done[i].path \in InFlight
      <3>1. /\ DOMAIN w.done = 1..Len(w.done) /\ Len(w.done) \in Nat
            /\ Len(w.done) <= Len(w.call.changes)
        BY <1>1, <2>1, WorkFields DEF PhaseOK
      <3>2. i \in 1..Len(w.done) /\ i \in 1..Len(w.call.changes)
        BY <2>1, <2>2, <3>1
      <3> QED BY <1>1, <1>6, <2>1, <3>2 DEF PhaseOK
    <2>3. ASSUME w.pc \in {"write", "record"}
          PROVE  /\ Current.path \in InFlight
                 /\ \A i \in w.n..Len(w.call.changes) : i \in 1..Len(w.call.changes)
      <3>1. w.n \in Nat /\ w.n >= 1 /\ w.n <= Len(w.call.changes)
        BY <1>1, <2>1, <2>3, WorkFields DEF PhaseOK
      <3>2. w.n \in 1..Len(w.call.changes)
        BY <2>1, <3>1
      <3> QED BY <1>6, <2>1, <3>1, <3>2 DEF Current
    <2>4. w.pc = "record" => Unrecorded \subseteq InFlight
      <3>1. Unrecorded = {w.call.changes[i].path : i \in w.n..Len(w.call.changes)}
                           \cup ({w.call.changes[i].to : i \in w.n..Len(w.call.changes)} \ {None})
        BY DEF Unrecorded
      <3> QED BY <1>6, <2>1, <2>3, <3>1
    <2> QED BY <1>7, <2>2, <2>3, <2>4 DEF Touched
  <1>8. w.pc \in {"restoring", "mark"} => Touched \subseteq InFlight
    <2>1. w.pc \in {"restoring", "mark"} => w.n \in w.targets
      BY <1>1 DEF PhaseOK, UndoPhases
    <2> QED BY <1>2, <2>1 DEF Touched
  <1>9. Touched \subseteq InFlight
    BY <1>7, <1>8, UntouchedPhases
  <1> QED BY <1>2, <1>4, <1>6, <1>9

LEMMA UserEditsStep == FilesInv /\ (\E p \in Paths : UserEdits(p)) => FilesInv'
PROOF
  <1> SUFFICES ASSUME FilesInv, NEW p \in Paths, UserEdits(p) PROVE FilesInv'
    OBVIOUS
  <1>1. /\ FileTypes /\ Saved /\ PhaseOK /\ SnapsTaken /\ Explained /\ BackupsKnown /\ Chain
        /\ Groups /\ GroupOfCall /\ TargetsLast /\ NoRivals /\ PartsLeft /\ PutBack /\ StillPosted
        /\ UndoneRestored /\ Listed
        /\ UNCHANGED <<mem, disk, manifest, w, restored, requests>>
        /\ made' = made \/ made' = made + 1
    BY DEF UserEdits, FilesInv, logs
  <1> DEFINE v == files'[p]
  <1>2. /\ files' \in [Paths -> 0..made'] /\ v \in 0..made'
        /\ \A q \in Paths : q # p => files'[q] = files[q]
    <2>1. Missing \in 0..made' /\ made' \in 0..made' /\ files \in [Paths -> 0..made']
      BY <1>1, TypesGrow DEF Missing
    <2>2. files' = [files EXCEPT ![p] = Missing] \/ files' = [files EXCEPT ![p] = made']
      BY DEF UserEdits
    <2> QED BY <2>1, <2>2
  <1>3. /\ base' = [base EXCEPT ![p] = [content |-> v, at |-> Len(mem)]]
        /\ edited' = IF w.targets = {} THEN edited ELSE edited \cup {p}
        /\ dirty' = IF p \in InFlight THEN dirty \cup {p} ELSE dirty
    BY DEF UserEdits
  <1> HIDE DEF v
  <1>4. /\ base' \in [Paths -> Bases(made', Len(mem))]
        /\ base'[p].content = v /\ base'[p].at = Len(mem)
        /\ \A q \in Paths : q # p => base'[q] = base[q]
        /\ Len(mem) \in Nat
    <2>1. base \in [Paths -> Bases(made', Len(mem))] /\ Len(mem) \in Nat
      BY <1>1, TypesGrow, WorkFields
    <2>2. [content |-> v, at |-> Len(mem)] \in Bases(made', Len(mem))
      BY <1>2, <2>1 DEF Bases
    <2> QED BY <1>3, <2>1, <2>2
  <1>5. FileTypes'
    <2>1. w \in Works(made', requests, Len(mem))
      BY <1>1, TypesGrow
    <2> QED BY <1>1, <1>2, <1>3, <1>4, <2>1, TypesGrow DEF FileTypes
  <1>6. dirty \subseteq dirty' /\ edited \subseteq edited' /\ Touched' = Touched
    <2>1. Current' = Current /\ MovesAway' = MovesAway /\ Selfwritten' = Selfwritten
          /\ Unrecorded' = Unrecorded
      BY <1>1 DEF Current, MovesAway, Selfwritten, Unrecorded
    <2> QED BY <1>1, <1>3, <2>1 DEF Touched
  <1>7. \A q \in Paths : q # p => Says(q)' = Says(q)
    BY <1>1, <1>4 DEF Says
  <1>8. Says(p)' = files'[p]
    <2>1. Speaks(mem, base'[p], p, Len(mem)) = {}
      BY <1>4 DEF Speaks
    <2> QED BY <1>1, <1>4, <2>1, LoggedNone DEF Says, v
  <1>9. Explained'
    <2>1. ASSUME NEW q \in Paths \ (dirty' \cup Touched') PROVE files'[q] = Says(q)'
      <3>1. CASE q = p
        BY <1>8, <3>1
      <3>2. CASE q # p
        BY <1>1, <1>2, <1>6, <1>7, <2>1, <3>2 DEF Explained
      <3> QED BY <3>1, <3>2
    <2> QED BY <2>1 DEF Explained
  <1>10. PhaseOK' /\ SnapsTaken' /\ Saved' /\ Groups' /\ GroupOfCall' /\ TargetsLast'
    <2>1. PhaseOK'
      BY <1>1 DEF PhaseOK, IsSeries, Selfwritten
    <2>2. SnapsTaken'
      BY <1>1 DEF SnapsTaken, Current
    <2>3. Saved' /\ Groups'
      BY <1>1, <1>6 DEF Saved, Groups
    <2>4. GroupOfCall'
      BY <1>1 DEF GroupOfCall, Recordable
    <2>5. TargetsLast'
      BY <1>1 DEF TargetsLast
    <2> QED BY <2>1, <2>2, <2>3, <2>4, <2>5
  <1>11. PartsLeft' /\ UndoneRestored' /\ Listed'
    <2>1. PartsLeft'
      BY <1>1 DEF PartsLeft
    <2>2. UndoneRestored'
      BY <1>1 DEF UndoneRestored, UndoneUp
    <2>3. Listed'
      BY <1>1 DEF Listed, Current
    <2> QED BY <2>1, <2>2, <2>3
  <1>12. BackupsKnown'
    <2>1. ASSUME NEW q \in Paths, SnapKnown(q), q \in InFlight PROVE SnapKnown(q)'
      BY <1>1, <1>3, <1>6, <1>7, <2>1 DEF SnapKnown
    <2>2. ASSUME NEW r \in Results(made), BackupKnown(r), r.path \in InFlight,
                 r.to # None => r.to \in InFlight
          PROVE  /\ r.path \notin dirty' => r.backup = Says(r.path)'
                 /\ r.to \notin dirty' \cup {None} => r.toBackup = Says(r.to)'
      <3>1. r.path \in Paths /\ r.to \in Paths \cup {None}
        BY DEF Results
      <3> QED BY <1>3, <1>6, <1>7, <2>2, <3>1 DEF BackupKnown
    <2>3. ASSUME w.pc \in CallPhases, NEW i \in 1..Len(w.done), BackupKnown(w.done[i])
          PROVE  BackupKnown(w.done[i])'
      <3>1. /\ w.call \in Calls /\ w.done[i] \in Results(made)
            /\ Len(w.done) <= Len(w.call.changes) /\ Len(w.done) \in Nat
        BY <1>1, <2>3, WorkFields DEF PhaseOK
      <3>2. i \in 1..Len(w.call.changes)
        BY <3>1, CallFacts
      <3>3. /\ w.done[i].path = w.call.changes[i].path /\ w.done[i].to = w.call.changes[i].to
        BY <1>1, <2>3 DEF PhaseOK
      <3>4. w.done[i].path \in InFlight /\ (w.done[i].to # None => w.done[i].to \in InFlight)
        BY <2>3, <3>2, <3>3, InFlightIs
      <3> QED BY <1>1, <2>2, <2>3, <3>1, <3>4 DEF BackupKnown
    <2>4. w.pc \in {"backup", "write", "rollback"} => \A i \in 1..Len(w.done) : BackupKnown(w.done[i])'
      BY <1>1, <2>3 DEF BackupsKnown, CallPhases
    <2>5. w.pc = "record" /\ ~Selfwritten => \A i \in w.n..Len(w.done) : BackupKnown(w.done[i])'
      <3>1. w.pc = "record" => \A i \in w.n..Len(w.done) : i \in 1..Len(w.done)
        <4>1. w.pc = "record" => w.n \in Nat /\ w.n >= 1 /\ Len(w.done) \in Nat
          BY <1>1, WorkFields DEF PhaseOK, CallPhases
        <4> QED BY <4>1
      <3> QED BY <1>1, <2>3, <3>1 DEF BackupsKnown, CallPhases
    <2>6. w.pc = "write" => \A q \in PathsOf(Current) : SnapKnown(q)'
      <3>1. w.pc = "write" => PathsOf(Current) \subseteq Paths /\ PathsOf(Current) \subseteq InFlight
        <4>1. w.pc = "write" => /\ Current = w.call.changes[w.n] /\ w.n \in 1..Len(w.call.changes)
                                /\ PathsOf(Current) \subseteq Paths /\ w.pc \in CallPhases
          BY BackingUp
        <4> QED BY <4>1, InFlightIs DEF PathsOf
      <3> QED BY <1>1, <2>1, <3>1 DEF BackupsKnown
    <2>7. w.pc \in {"file", "translating", "record", "manifest"} /\ Selfwritten =>
            \A i \in Ahead..Len(w.call.changes) :
              Joined(w.call.changes[i].path)' \/ SnapKnown(w.call.changes[i].path)'
      <3> SUFFICES ASSUME w.pc \in {"file", "translating", "record", "manifest"}, Selfwritten,
                          NEW i \in Ahead..Len(w.call.changes)
                   PROVE  Joined(w.call.changes[i].path)' \/ SnapKnown(w.call.changes[i].path)'
        OBVIOUS
      <3>1. w.n \in Nat /\ w.n >= 1 /\ w.call \in Calls /\ w.pc \in CallPhases
        BY <1>1, WorkFields DEF PhaseOK, CallPhases
      <3>2. i \in 1..Len(w.call.changes)
        <4>1. Ahead \in Nat /\ Ahead >= 1
          BY <3>1 DEF Ahead
        <4> QED BY <3>1, <4>1, CallFacts
      <3>3. w.call.changes[i].path \in Paths \cap InFlight
        BY <3>1, <3>2, CallFacts, InFlightIs
      <3>4. Joined(w.call.changes[i].path) \/ SnapKnown(w.call.changes[i].path)
        BY <1>1 DEF BackupsKnown
      <3>5. Joined(w.call.changes[i].path) => Joined(w.call.changes[i].path)'
        BY <1>1 DEF Joined
      <3>6. SnapKnown(w.call.changes[i].path) => SnapKnown(w.call.changes[i].path)'
        BY <1>1, <2>1, <3>3 DEF SnapKnown
      <3> QED BY <3>4, <3>5, <3>6
    <2>9. SeriesRecords'
      <3> SUFFICES ASSUME w.pc \in {"file", "translating", "record", "manifest"}, IsSeries,
                          w.group # 0, NEW j \in 1..Len(mem), mem[j].group = w.group
                   PROVE  /\ w.snap[mem[j].path] # None => mem[j].backup = w.snap[mem[j].path].backup
                          /\ w.pc = "record" /\ mem[j].path = Current.path =>
                               mem[j].path \in dirty' \/ files'[mem[j].path] # mem[j].post
        BY <1>1 DEF SeriesRecords, IsSeries, Current
      <3>1. /\ w.snap[mem[j].path] # None => mem[j].backup = w.snap[mem[j].path].backup
            /\ w.pc = "record" /\ mem[j].path = Current.path =>
                 mem[j].path \in dirty \/ files[mem[j].path] # mem[j].post
        BY <1>1 DEF BackupsKnown, SeriesRecords
      <3>2. mem[j].path \in Paths
        BY <1>1, EventFields
      <3>3. ASSUME w.pc = "record" PROVE Current.path \in InFlight
        <4>1. w.n \in Nat /\ w.n >= 1 /\ w.n <= Len(w.call.changes) /\ w.call \in Calls /\ w.pc \in CallPhases
          BY <1>1, <3>3, WorkFields DEF PhaseOK, CallPhases
        <4>2. w.n \in 1..Len(w.call.changes)
          BY <4>1, CallFacts
        <4> QED BY <4>1, <4>2, InFlightIs DEF Current
      <3> QED BY <1>2, <1>3, <1>6, <3>1, <3>2, <3>3
    <2>8. Current' = Current /\ Ahead' = Ahead /\ Selfwritten' = Selfwritten
      BY <1>1 DEF Current, Ahead, Selfwritten
    <2> QED BY <1>1, <2>4, <2>5, <2>6, <2>7, <2>8, <2>9 DEF BackupsKnown
  <1>13. Chain'
    <2> SUFFICES ASSUME NEW k \in 1..Len(mem), ~mem[k].undone, ~Again(mem, k), NEW q \in PathsOf(mem[k]) \ dirty',
                        base'[q].at < k
                 PROVE  Backed(mem[k], q) = LoggedIn(mem, base'[q], q, k - 1)
      BY <1>1 DEF Chain
    <2>1. q \in Paths
      BY <1>1, EventFields DEF PathsOf
    <2>2. q # p
      BY <1>4
    <2>3. base'[q] = base[q] /\ q \notin dirty
      BY <1>4, <1>6, <2>1, <2>2
    <2> QED BY <1>1, <2>3 DEF Chain
  <1>14. PutBack'
    <2> SUFFICES ASSUME w.pc \in {"restoring", "mark"},
                        NEW q \in PathsOf(mem[w.n]) \ dirty', ~IsLeft(q)
                 PROVE  /\ files'[q] = Backed(mem[w.n], q)
                        /\ base'[q].at >= w.n => base'[q].content = files'[q]
      BY <1>1 DEF PutBack, IsLeft
    <2>1. w.n \in w.targets /\ w.n \in 1..Len(mem)
      BY <1>1, WorkFields DEF PhaseOK, UndoPhases
    <2>2. q \in InFlight /\ q \in Paths
      BY <2>1, InFlightIs
    <2>3. q # p /\ q \notin dirty
      BY <1>3, <2>2
    <2> QED BY <1>1, <1>2, <1>4, <2>2, <2>3 DEF PutBack
  <1>15. StillPosted'
    <2> SUFFICES ASSUME w.pc \in {"verify", "restore", "restoring", "mark"}, NEW t \in w.targets,
                        NEW q \in PathsOf(mem[t]) \ edited', Intact(t, q)
                 PROVE  files'[q] = Post(mem[t], q) \/ (w.pc # "verify" /\ files'[q] = Backed(mem[t], q))
      BY <1>1 DEF StillPosted, Intact, IsLeft
    <2>1. q # p /\ q \notin edited /\ q \in Paths
      BY <1>3, InFlightIs
    <2> QED BY <1>1, <1>2, <2>1 DEF StillPosted
  <1>16. NoRivals'
    <2>1. ASSUME w.pc \in UndoPhases, NEW t \in w.targets, NEW q \in PathsOf(mem[t]), q \in edited'
          PROVE  q \in dirty'
      <3>1. q \in InFlight
        BY <2>1, InFlightIs
      <3> QED BY <1>1, <1>3, <1>6, <2>1, <3>1 DEF NoRivals
    <2> QED BY <1>1, <1>6, <2>1 DEF NoRivals
  <1> QED BY <1>5, <1>9, <1>10, <1>11, <1>12, <1>13, <1>14, <1>15, <1>16 DEF FilesInv

-----------------------------------------------------------------------------
(* Undo *)

\* The undo goes on and leaves the files and the log alone.
LEMMA UndoMoves ==
  ASSUME FilesInv, w'.pc \in UndoPhases, w' \in Works(made, requests, Len(mem)),
         UNCHANGED <<files, mem, disk, base, made, requests, dirty, restored, manifest>>,
         edited' = edited \/ edited' = {},
         w'.call = None, w'.n \in w'.targets, TargetsLast', NoRivals', PartsLeft', PutBack', StillPosted',
         Touched \subseteq Touched'
  PROVE  FilesInv'
PROOF
  <1>1. FileTypes'
    BY DEF FilesInv, FileTypes
  <1>2. Saved' /\ Chain' /\ Groups' /\ UndoneRestored'
    BY LogKept DEF FilesInv
  <1>3. Explained'
    BY ExplainedKept DEF FilesInv
  <1>4. w'.pc \notin CallPhases /\ w'.pc # "idle" /\ w'.pc # "end"
    BY DEF CallPhases, UndoPhases
  <1>5. PhaseOK'
    BY <1>4 DEF PhaseOK, CallPhases, UndoPhases
  <1>6. Listed'
    BY <1>4 DEF FilesInv, Listed, CallPhases
  <1> QED BY <1>1, <1>2, <1>3, <1>4, <1>5, <1>6, NotCalling DEF FilesInv

\* What the undo phases know.
LEMMA Undoing ==
  ASSUME FilesInv, w.pc \in UndoPhases
  PROVE  /\ FileTypes /\ PhaseOK /\ Explained /\ Chain /\ Groups /\ TargetsLast /\ NoRivals /\ PartsLeft
         /\ PutBack /\ StillPosted /\ Saved /\ UndoneRestored
         /\ w.call = None /\ w.n \in w.targets /\ w.n \in 1..Len(mem) /\ w.n \in Nat
         /\ Len(mem) \in Nat /\ w.targets \in SUBSET (1..Len(mem))
         /\ PathsOf(mem[w.n]) \subseteq Paths /\ mem[w.n].path \in PathsOf(mem[w.n])
         /\ mem[w.n].to # mem[w.n].path
         /\ Target = mem[w.n]
PROOF
  <1>1. /\ FileTypes /\ PhaseOK /\ Groups /\ w.n \in w.targets /\ w.targets \in SUBSET (1..Len(mem))
        /\ w.call = None
    BY WorkFields DEF FilesInv, PhaseOK
  <1>2. w.n \in 1..Len(mem)
    BY <1>1
  <1>3. PathsOf(mem[w.n]) \subseteq Paths /\ mem[w.n].path \in PathsOf(mem[w.n])
    BY <1>1, <1>2, EventFields, NoneAssumption DEF PathsOf
  <1>4. mem[w.n].to # mem[w.n].path
    BY <1>1, <1>2 DEF Groups
  <1> QED BY <1>1, <1>2, <1>3, <1>4, WorkFields DEF FilesInv, Target

LEMMA UndoStep == FilesInv /\ Undo => FilesInv'
PROOF
  <1> SUFFICES ASSUME FilesInv, Undo PROVE FilesInv'
    OBVIOUS
  <1>1. /\ w.pc = "idle" /\ FileTypes /\ Groups /\ Len(mem) \in Nat /\ DOMAIN mem = 1..Len(mem)
        /\ UNCHANGED <<files, mem, disk, base, made, requests, dirty, restored, manifest>>
        /\ edited' = {}
    BY WorkFields DEF Undo, FilesInv, logs, FileTypes
  <1>2. PICK k \in LastOpen : w' = [Idle EXCEPT !.pc = "verify", !.targets = Targets(k),
                                                !.n = Min(Targets(k))]
    BY DEF Undo
  <1> DEFINE T == Targets(k)
             m == Min(T)
  <1>3. /\ k \in 1..Len(mem) /\ ~mem[k].undone
        /\ \A j \in 1..Len(mem) : ~mem[j].undone => j <= k
    BY <1>1 DEF LastOpen, Open
  <1>4. /\ T \in SUBSET (1..Len(mem)) /\ k \in T
        /\ \A j \in T : ~mem[j].undone
        /\ \A j \in T : j = k \/ (mem[k].group # 0 /\ mem[j].group = mem[k].group)
        /\ \A j \in 1..Len(mem) :
             mem[k].group # 0 /\ mem[j].group = mem[k].group /\ ~mem[j].undone => j \in T
    BY <1>1, <1>3 DEF Targets, Open
  <1> HIDE DEF T
  <1>5. m \in T /\ \A t \in T : m <= t
    <2>1. T \in SUBSET Nat /\ T # {}
      BY <1>1, <1>4
    <2> QED BY <2>1, MinIsLeast
  <1> HIDE DEF m
  <1>6. w' = [Idle EXCEPT !.pc = "verify", !.targets = T, !.n = m]
    BY <1>2 DEF T, m
  <1>7. /\ w'.pc = "verify" /\ w'.call = None /\ w'.targets = T /\ w'.n = m
    BY <1>6 DEF Idle
  <1>8. w' \in Works(made, requests, Len(mem))
    <2>1. /\ "verify" \in States /\ 0 \in 0..requests /\ m \in Nat
          /\ <<>> \in Seq(Results(made)) /\ <<>> \in Seq(Paths)
          /\ [p \in Paths |-> None] \in [Paths -> {None} \cup Snaps(made)]
      BY <1>1, <1>4, <1>5, WorkFields DEF States
    <2> QED BY <1>4, <1>6, <2>1 DEF Idle, Works
  <1>9. TargetsLast'
    <2>1. ASSUME NEW t \in T, NEW j \in 1..Len(mem), ~mem[j].undone, j >= t
          PROVE  j \in T
      <3>1. j <= k /\ t \in 1..Len(mem)
        BY <1>3, <1>4, <2>1
      <3>2. CASE j = k
        BY <1>4, <3>2
      <3>3. CASE j # k
        <4>1. t # k /\ t < k /\ j \in t..k
          BY <1>1, <1>3, <2>1, <3>1, <3>3
        <4>2. mem[k].group # 0 /\ mem[t].group = mem[k].group
          BY <1>4, <4>1
        <4>3. mem[j].group = mem[t].group
          BY <1>1, <1>3, <3>1, <4>1, <4>2 DEF Groups
        <4> QED BY <1>4, <2>1, <4>2, <4>3
      <3> QED BY <3>2, <3>3
    <2>2. \A s, t \in T : s # t => mem[s].group = mem[t].group /\ mem[s].group # 0
      BY <1>4
    <2>3. ASSUME NEW t \in T, NEW j \in 1..Len(mem), ~mem[j].undone,
                 mem[j].group = mem[t].group, mem[j].group # 0
          PROVE  j \in T
      BY <1>4, <2>3
    <2> QED BY <1>1, <1>4, <1>7, <2>1, <2>2, <2>3 DEF TargetsLast
  <1>10. NoRivals' /\ PartsLeft' /\ PutBack'
    BY <1>1, <1>7 DEF NoRivals, PartsLeft, PutBack
  <1>11. StillPosted'
    <2>1. \A t \in T : ~ (t < m)
      BY <1>1, <1>4, <1>5
    <2> QED BY <1>7, <2>1 DEF StillPosted, Intact
  <1>12. Touched = {}
    BY <1>1, UntouchedPhases
  <1>13. w'.pc \in UndoPhases
    BY <1>7 DEF UndoPhases
  <1> QED BY <1>1, <1>5, <1>7, <1>8, <1>9, <1>10, <1>11, <1>12, <1>13, UndoMoves

LEMMA VerifyStep == FilesInv /\ Verify => FilesInv'
PROOF
  <1> SUFFICES ASSUME FilesInv, Verify PROVE FilesInv'
    OBVIOUS
  <1>1. /\ w.pc = "verify" /\ w.pc \in UndoPhases
        /\ UNCHANGED <<files, mem, disk, base, made, requests, dirty, restored, manifest, edited>>
        /\ w' = IF Unchanged(Target) THEN Verified ELSE At("conflict")
    BY DEF Verify, OnlyMoves, Counters, logs, UndoPhases
  <1>2. /\ FileTypes /\ Groups /\ TargetsLast /\ NoRivals /\ StillPosted
        /\ w.call = None /\ w.n \in w.targets /\ w.n \in 1..Len(mem) /\ w.n \in Nat
        /\ Len(mem) \in Nat /\ w.targets \in SUBSET (1..Len(mem)) /\ Target = mem[w.n]
    BY <1>1, Undoing
  <1>3. Touched = {}
    BY <1>1, UntouchedPhases
  <1>4. \A t \in w.targets : ~mem[t].undone
    BY <1>1, <1>2 DEF TargetsLast
  <1>5. CASE w' = At("conflict")
    <2>1. /\ w'.pc = "conflict" /\ w'.n = w.n /\ w'.call = None /\ w'.targets = w.targets
          /\ w' = [w EXCEPT !.pc = "conflict"]
      BY <1>2, <1>5, WorkFields DEF Works, At
    <2>2. "conflict" \in States /\ w'.pc \in UndoPhases
      BY <2>1 DEF States, UndoPhases
    <2>3. w' \in Works(made, requests, Len(mem))
      BY <1>2, <2>1, <2>2, WorkFields DEF Works
    <2>4. TargetsLast'
      BY <1>1, <1>2, <2>1 DEF TargetsLast, UndoPhases
    <2>5. NoRivals' /\ PartsLeft' /\ PutBack' /\ StillPosted'
      BY <1>1, <1>2, <2>1 DEF NoRivals, UndoPhases, PartsLeft, PutBack, StillPosted
    <2> QED BY <1>1, <1>2, <1>3, <2>1, <2>2, <2>3, <2>4, <2>5, UndoMoves
  <1>6. ASSUME Unchanged(Target), NEW t \in w.targets, t <= w.n, NEW p \in PathsOf(mem[t]) \ edited
        PROVE  files[p] = Post(mem[t], p)
    <2>1. CASE t = w.n
      BY <1>2, <1>6, <2>1 DEF Unchanged, Post, PathsOf
    <2>2. CASE t # w.n
      <3>1. t < w.n /\ Intact(t, p)
        BY <1>1, <1>2, <1>6, <2>2 DEF Intact
      <3> QED BY <1>1, <1>2, <1>6, <3>1 DEF StillPosted
    <2> QED BY <2>1, <2>2
  <1>7. CASE Unchanged(Target) /\ Later = {}
    <2>1. w' = At("restore")
      BY <1>1, <1>7 DEF Verified
    <2>2. /\ w'.pc = "restore" /\ w'.n = w.n /\ w'.call = None /\ w'.targets = w.targets
          /\ w' = [w EXCEPT !.pc = "restore"]
      BY <1>2, <2>1, WorkFields DEF Works, At
    <2>3. "restore" \in States /\ w'.pc \in UndoPhases
      BY <2>2 DEF States, UndoPhases
    <2>4. w' \in Works(made, requests, Len(mem))
      BY <1>2, <2>2, <2>3, WorkFields DEF Works
    <2>5. TargetsLast'
      <3>1. ASSUME NEW j \in 1..Len(mem), ~mem[j].undone PROVE j <= w.n
        <4>1. j >= w.n => j \in w.targets
          BY <1>1, <1>2, <3>1 DEF TargetsLast
        <4>2. j \in w.targets => ~ (j > w.n)
          BY <1>7 DEF Later
        <4> QED BY <1>2, <4>1, <4>2
      <3> QED BY <1>1, <1>2, <1>4, <2>2, <3>1 DEF TargetsLast, UndoPhases
    <2>6. PartsLeft' /\ PutBack'
      BY <2>2 DEF PartsLeft, PutBack
    <2>7. StillPosted'
      BY <1>1, <1>6, <1>7, <2>2 DEF StillPosted, Intact
    <2>8. NoRivals'
      <3>1. ASSUME NEW s \in w.targets, NEW t \in w.targets, s < t, mem[s].path = mem[t].path
            PROVE  mem[s].path \in dirty
        <4> DEFINE p == mem[s].path
        <4>1. s \in 1..Len(mem) /\ t \in 1..Len(mem) /\ s # t
          BY <1>2, <3>1
        <4>2. p \in PathsOf(mem[s]) /\ p \in PathsOf(mem[t])
          BY <1>2, <3>1, <4>1, EventFields, NoneAssumption DEF PathsOf
        <4>3. mem[s].group = mem[t].group /\ mem[s].group # 0
          BY <1>1, <1>2, <3>1, <4>1 DEF TargetsLast
        <4>4. p \in dirty \/ mem[s].post # mem[t].post
          BY <1>2, <3>1, <4>1, <4>3 DEF Groups
        <4>5. p \in edited => p \in dirty
          BY <1>1, <1>2, <4>2 DEF NoRivals
        <4>6. \A x \in w.targets : x <= w.n
          <5> TAKE x \in w.targets
          <5>1. x \in Nat /\ ~ (x > w.n)
            BY <1>2, <1>7 DEF Later
          <5> QED BY <1>2, <5>1
        <4>7. p \notin edited => files[p] = mem[s].post /\ files[p] = mem[t].post
          BY <1>6, <1>7, <3>1, <4>2, <4>6 DEF Post
        <4> QED BY <4>4, <4>5, <4>7
      <3> QED BY <1>1, <1>2, <2>2, <3>1 DEF NoRivals, UndoPhases
    <2> QED BY <1>1, <1>2, <1>3, <2>2, <2>3, <2>4, <2>5, <2>6, <2>7, <2>8, UndoMoves
  <1>8. CASE Unchanged(Target) /\ Later # {}
    <2> DEFINE m == Min(Later)
    <2>1. m \in Later /\ \A t \in Later : m <= t
      <3>1. Later \in SUBSET Nat
        BY <1>2 DEF Later
      <3> QED BY <1>8, <3>1, MinIsLeast
    <2>2. w' = [w EXCEPT !.n = m]
      BY <1>1, <1>8 DEF Verified
    <2> HIDE DEF m
    <2>3. m \in w.targets /\ m \in Nat
      BY <1>2, <2>1 DEF Later
    <2>4. /\ w'.pc = "verify" /\ w'.n = m /\ w'.call = None /\ w'.targets = w.targets
      BY <1>1, <1>2, <2>2, WorkFields DEF Works
    <2>5. w' \in Works(made, requests, Len(mem)) /\ w'.pc \in UndoPhases
      BY <1>1, <1>2, <2>2, <2>3, <2>4, WorkFields DEF Works
    <2>6. TargetsLast'
      BY <1>1, <1>2, <2>4 DEF TargetsLast, UndoPhases
    <2>7. NoRivals' /\ PartsLeft' /\ PutBack'
      BY <1>1, <1>2, <2>4 DEF NoRivals, UndoPhases, PartsLeft, PutBack
    <2>8. StillPosted'
      <3>1. ASSUME NEW t \in w.targets, t < m PROVE t <= w.n
        <4>1. t \notin Later
          BY <1>2, <2>1, <2>3, <3>1
        <4> QED BY <1>2, <4>1 DEF Later
      <3> QED BY <1>1, <1>6, <1>8, <2>4, <3>1 DEF StillPosted, Intact
    <2> QED BY <1>1, <1>2, <1>3, <2>3, <2>4, <2>5, <2>6, <2>7, <2>8, UndoMoves
  <1> QED BY <1>1, <1>5, <1>7, <1>8

LEMMA RestoreStep == FilesInv /\ Restore => FilesInv'
PROOF
  <1> SUFFICES ASSUME FilesInv, Restore PROVE FilesInv'
    OBVIOUS
  <1>1. /\ w.pc = "restore" /\ w.pc \in UndoPhases
        /\ UNCHANGED <<files, mem, disk, base, made, requests, dirty, restored, manifest, edited>>
        /\ w' = [w EXCEPT !.pc = "restoring", !.parts = Parts(Target)]
    BY DEF Restore, OnlyMoves, Counters, logs, UndoPhases
  <1>2. /\ FileTypes /\ TargetsLast /\ NoRivals /\ StillPosted
        /\ w.call = None /\ w.n \in w.targets /\ w.n \in 1..Len(mem) /\ w.n \in Nat
        /\ Len(mem) \in Nat /\ w.targets \in SUBSET (1..Len(mem)) /\ Target = mem[w.n]
        /\ PathsOf(mem[w.n]) \subseteq Paths
    BY <1>1, Undoing
  <1> DEFINE ps == Parts(mem[w.n])
  <1>3. ps \in Seq(Paths) /\ \A p \in PathsOf(mem[w.n]) : \E i \in 1..Len(ps) : ps[i] = p
    <2>1. mem[w.n].path \in Paths /\ mem[w.n].to \in Paths \cup {None}
      BY <1>2, EventFields
    <2> QED BY <2>1 DEF Parts, PathsOf
  <1> HIDE DEF ps
  <1>4. w' = [w EXCEPT !.pc = "restoring", !.parts = ps]
    BY <1>1, <1>2 DEF ps
  <1>5. /\ w'.pc = "restoring" /\ w'.n = w.n /\ w'.call = None /\ w'.targets = w.targets
        /\ w'.parts = ps
    BY <1>2, <1>4, WorkFields DEF Works
  <1>6. "restoring" \in States /\ w'.pc \in UndoPhases
    BY <1>5 DEF States, UndoPhases
  <1>7. w' \in Works(made, requests, Len(mem))
    BY <1>2, <1>3, <1>4, <1>6, WorkFields DEF Works
  <1>8. TargetsLast'
    BY <1>1, <1>2, <1>5 DEF TargetsLast, UndoPhases
  <1>9. PartsLeft' /\ PutBack'
    BY <1>1, <1>3, <1>5 DEF PartsLeft, PutBack, IsLeft, ps
  <1>12. NoRivals'
    BY <1>1, <1>2, <1>5 DEF NoRivals, UndoPhases
  <1>10. StillPosted'
    <2>1. \A t \in w.targets : t < w.n \/ t = w.n => t <= w.n
      BY <1>2
    <2> QED BY <1>1, <1>2, <1>5, <2>1 DEF StillPosted, Intact
  <1>11. Touched = {}
    BY <1>1, UntouchedPhases
  <1> QED BY <1>1, <1>2, <1>5, <1>6, <1>7, <1>8, <1>9, <1>10, <1>11, <1>12, UndoMoves

LEMMA RestorePartStep == FilesInv /\ RestorePart => FilesInv'
PROOF
  <1> SUFFICES ASSUME FilesInv, RestorePart PROVE FilesInv'
    OBVIOUS
  <1>1. /\ w.pc = "restoring" /\ w.pc \in UndoPhases
        /\ UNCHANGED <<mem, disk, made, requests, manifest, edited>>
    BY DEF RestorePart, logs, UndoPhases
  <1> DEFINE n == w.n
             e == mem[w.n]
  <1>2. /\ FileTypes /\ PhaseOK /\ Explained /\ Chain /\ Groups /\ TargetsLast /\ NoRivals /\ PartsLeft
        /\ PutBack /\ StillPosted /\ Saved /\ UndoneRestored
        /\ w.call = None /\ n \in w.targets /\ n \in 1..Len(mem) /\ n \in Nat
        /\ Len(mem) \in Nat /\ w.targets \in SUBSET (1..Len(mem)) /\ Target = e
        /\ PathsOf(e) \subseteq Paths /\ e.path \in PathsOf(e) /\ e.to # e.path
    BY <1>1, Undoing
  <1>3. Touched = PathsOf(e)
    BY <1>1 DEF Touched
  <1>4. CASE /\ w' = Ended /\ dirty' = dirty \cup PathsOf(Target) /\ UNCHANGED <<base, restored>>
             /\ files' \in {files, [files EXCEPT ![Head(w.parts)] = Backed(Target, Head(w.parts))]}
    <2>1. dirty \cup Touched \subseteq dirty' /\ dirty' \subseteq Paths
      BY <1>2, <1>3, <1>4 DEF FileTypes
    <2>2. w.parts[1] \in PathsOf(e) /\ Head(w.parts) = w.parts[1]
      <3>1. e.path \in Paths /\ e.to \in Paths \cup {None}
        BY <1>2, EventFields
      <3> QED BY <1>1, <1>2, <3>1 DEF PartsLeft, Parts, PathsOf
    <2> DEFINE b == Backed(e, Head(w.parts))
    <2>3. b \in 0..made
      BY <1>2, EventFields DEF Backed
    <2>4. files' = files \/ files' = [files EXCEPT ![Head(w.parts)] = b]
      BY <1>2, <1>4
    <2> HIDE DEF b
    <2>5. files' \in [Paths -> 0..made'] /\ \A q \in Paths \ dirty' : files'[q] = files[q]
      BY <1>1, <1>2, <1>4, <2>2, <2>3, <2>4 DEF FileTypes
    <2>6. edited' \subseteq Paths
      BY <1>1, <1>2 DEF FileTypes
    <2> QED BY <1>1, <1>4, <2>1, <2>5, <2>6, EndsChanged
  <1>5. CASE ~ (/\ w' = Ended /\ dirty' = dirty \cup PathsOf(Target) /\ UNCHANGED <<base, restored>>
                /\ files' \in {files, [files EXCEPT ![Head(w.parts)] = Backed(Target, Head(w.parts))]})
    <2> DEFINE p == Head(w.parts)
               rest == Tail(w.parts)
               pc == IF Len(w.parts) = 1 THEN "mark" ELSE "restoring"
    <2>1. /\ p \in PathsOf(e) /\ rest \in Seq(Paths)
          /\ \/ pc = "mark" /\ rest = <<>> /\ Len(w.parts) = 1 /\ w.parts = <<p>>
             \/ /\ pc = "restoring" /\ p = e.path /\ e.to # None /\ rest = <<e.to>>
                /\ Len(w.parts) # 1 /\ w.parts = <<e.path, e.to>>
      <3>1. e.path \in Paths /\ e.to \in Paths \cup {None}
        BY <1>2, EventFields
      <3>2. \/ w.parts = <<e.path>>
            \/ w.parts = <<e.path, e.to>> /\ e.to # None
            \/ w.parts = <<e.to>> /\ e.to # None
        BY <1>1, <1>2 DEF PartsLeft, Parts
      <3>3. CASE w.parts = <<e.path>>
        BY <1>2, <3>1, <3>3
      <3>4. CASE w.parts = <<e.path, e.to>> /\ e.to # None
        BY <1>2, <3>1, <3>4
      <3>5. CASE w.parts = <<e.to>> /\ e.to # None
        BY <3>1, <3>5 DEF PathsOf
      <3> QED BY <3>2, <3>3, <3>4, <3>5
    <2>2. /\ files' = [files EXCEPT ![p] = Backed(e, p)]
          /\ base' = [base EXCEPT ![p].content = IF base[p].at >= n THEN files'[p]
                                                 ELSE base[p].content]
          /\ w' = [w EXCEPT !.parts = rest, !.pc = pc]
          /\ restored' = IF Len(w.parts) = 1 THEN restored \cup {n} ELSE restored
          /\ dirty' = dirty
      <3>1. w.pc = "restoring"
        BY <1>1
      <3> QED BY <1>2, <1>5, <3>1 DEF RestorePart
    <2>3. /\ \A i \in 1..Len(rest) : rest[i] # p
          /\ \A q : (\E i \in 1..Len(rest) : rest[i] = q) => IsLeft(q)
          /\ \A q : IsLeft(q) /\ q # p => \E i \in 1..Len(rest) : rest[i] = q
          /\ IsLeft(p)
      <3> HIDE DEF p, rest
      <3>1. CASE pc = "mark" /\ rest = <<>> /\ Len(w.parts) = 1 /\ w.parts = <<p>>
        <4>1. \A q : IsLeft(q) <=> q = p
          BY <3>1 DEF IsLeft
        <4>2. \A q : ~ (\E i \in 1..Len(rest) : rest[i] = q)
          BY <3>1
        <4> QED BY <4>1, <4>2
      <3>2. CASE /\ pc = "restoring" /\ p = e.path /\ e.to # None /\ rest = <<e.to>>
                 /\ Len(w.parts) # 1 /\ w.parts = <<e.path, e.to>>
        <4>1. \A q : IsLeft(q) <=> q \in {e.path, e.to}
          BY <3>2 DEF IsLeft
        <4>2. \A q : (\E i \in 1..Len(rest) : rest[i] = q) <=> q = e.to
          BY <3>2
        <4>3. e.to # p
          BY <1>2, <3>2
        <4> QED BY <3>2, <4>1, <4>2, <4>3
      <3> QED BY <2>1, <3>1, <3>2
    <2> HIDE DEF p, rest
    <2>4. /\ w'.pc = pc /\ w'.n = n /\ w'.call = None /\ w'.targets = w.targets /\ w'.parts = rest
      BY <1>2, <2>2, WorkFields DEF Works
    <2>5. pc \in States /\ w'.pc \in UndoPhases
      BY <2>4 DEF States, UndoPhases
    <2>6. w' \in Works(made, requests, Len(mem))
      BY <1>2, <2>1, <2>2, <2>5, WorkFields DEF Works
    <2>7. /\ Backed(e, p) \in 0..made /\ p \in Paths
          /\ files' \in [Paths -> 0..made] /\ files'[p] = Backed(e, p)
          /\ \A q \in Paths : q # p => files'[q] = files[q]
      <3>1. Backed(e, p) \in 0..made /\ p \in Paths /\ files \in [Paths -> 0..made]
        BY <1>2, <2>1, EventFields DEF Backed, FileTypes
      <3> QED BY <2>2, <3>1
    <2>8. /\ base' \in [Paths -> Bases(made, Len(mem))]
          /\ \A q \in Paths : base'[q].at = base[q].at
          /\ \A q \in Paths : q # p => base'[q] = base[q]
          /\ base[p].at >= n => base'[p].content = files'[p]
          /\ ~ (base[p].at >= n) => base'[p] = base[p]
          /\ \A q \in Paths : base[q].at \in Nat
      <3> DEFINE c == IF base[p].at >= n THEN files'[p] ELSE base[p].content
      <3>1. base \in [Paths -> Bases(made, Len(mem))] /\ base[p] \in Bases(made, Len(mem))
        BY <1>2, <2>7 DEF FileTypes
      <3>2. c \in 0..made
        BY <2>7, <3>1 DEF Bases
      <3>3. base' = [base EXCEPT ![p].content = c]
        BY <2>2
      <3>4. base[p].at >= n => c = files'[p]
        OBVIOUS
      <3>5. ~ (base[p].at >= n) => c = base[p].content
        OBVIOUS
      <3> HIDE DEF c
      <3>6. base' = [base EXCEPT ![p] = [base[p] EXCEPT !.content = c]]
        BY <3>3
      <3>7. /\ [base[p] EXCEPT !.content = c] \in Bases(made, Len(mem))
            /\ [base[p] EXCEPT !.content = c].content = c
            /\ [base[p] EXCEPT !.content = c].at = base[p].at
            /\ c = base[p].content => [base[p] EXCEPT !.content = c] = base[p]
        BY <3>1, <3>2 DEF Bases
      <3>8. \A q \in Paths : base[q].at \in Nat
        BY <3>1, <1>2 DEF Bases
      <3> QED BY <2>7, <3>1, <3>4, <3>5, <3>6, <3>7, <3>8
    <2>9. FileTypes'
      <3>1. restored' \subseteq 1..Len(mem)
        BY <1>2, <2>2 DEF FileTypes
      <3> QED BY <1>1, <1>2, <2>2, <2>6, <2>7, <2>8, <3>1 DEF FileTypes
    <2>10. \A j \in 1..Len(mem) : ~mem[j].undone => j <= n
      BY <1>1, <1>2 DEF TargetsLast, UndoPhases
    <2>11. Chain'
      <3> SUFFICES ASSUME NEW k \in 1..Len(mem), ~mem[k].undone, ~Again(mem, k), NEW q \in PathsOf(mem[k]) \ dirty,
                          base'[q].at < k
                   PROVE  Backed(mem[k], q) = LoggedIn(mem, base'[q], q, k - 1)
        BY <1>1, <2>2 DEF Chain
      <3>1. q \in Paths
        BY <1>2, EventFields DEF PathsOf
      <3>2. base[q].at < k /\ k <= n
        BY <2>8, <2>10, <3>1
      <3>3. ~ (base[q].at >= n)
        BY <1>2, <2>8, <3>1, <3>2
      <3>4. base'[q] = base[q]
        BY <2>8, <3>1, <3>3
      <3> QED BY <1>2, <3>2, <3>4 DEF Chain
    <2>12. Saved' /\ Groups' /\ UndoneRestored'
      <3>1. restored \subseteq restored'
        BY <2>2
      <3> QED BY <1>1, <1>2, <2>2, <3>1 DEF Saved, Groups, UndoneRestored, UndoneUp
    <2>13. Explained'
      <3>1. Touched' = PathsOf(e)
        BY <1>1, <2>4 DEF Touched
      <3>2. ASSUME NEW q \in Paths \ (dirty \cup PathsOf(e)) PROVE files'[q] = Says(q)'
        <4>1. q # p
          BY <2>1, <3>2
        <4>2. files[q] = Says(q)
          BY <1>2, <1>3, <3>2 DEF Explained
        <4>3. files'[q] = files[q] /\ base'[q] = base[q]
          BY <2>7, <2>8, <3>2, <4>1
        <4> QED BY <1>1, <4>2, <4>3 DEF Says
      <3> QED BY <2>2, <3>1, <3>2 DEF Explained
    <2>14. PhaseOK'
      BY <1>2, <2>4, <2>5 DEF PhaseOK, UndoPhases, CallPhases
    <2>15. TargetsLast'
      BY <1>1, <1>2, <2>4 DEF TargetsLast, UndoPhases
    <2>16. PartsLeft'
      BY <1>1, <2>1, <2>2, <2>4 DEF PartsLeft
    <2>17. PutBack'
      <3> SUFFICES ASSUME NEW q \in PathsOf(e) \ dirty, ~ (\E i \in 1..Len(rest) : rest[i] = q)
                   PROVE  /\ files'[q] = Backed(e, q)
                          /\ base'[q].at >= n => base'[q].content = files'[q]
        BY <1>1, <2>2, <2>4 DEF PutBack, IsLeft
      <3>1. CASE q = p
        BY <2>7, <2>8, <3>1
      <3>2. CASE q # p
        <4>1. ~IsLeft(q) /\ q \in Paths
          BY <1>2, <2>3, <3>2
        <4>2. files[q] = Backed(e, q) /\ (base[q].at >= n => base[q].content = files[q])
          BY <1>1, <1>2, <4>1 DEF PutBack
        <4> QED BY <2>7, <2>8, <3>2, <4>1, <4>2
      <3> QED BY <3>1, <3>2
    <2>18. StillPosted'
      <3> SUFFICES ASSUME NEW t \in w.targets, NEW q \in PathsOf(mem[t]) \ edited,
                          \/ t < n
                          \/ t = n /\ \E i \in 1..Len(rest) : rest[i] = q
                   PROVE  files'[q] = Post(mem[t], q) \/ files'[q] = Backed(mem[t], q)
        <4>1. ASSUME NEW t, NEW q, Intact(t, q)'
              PROVE  t < n \/ (t = n /\ \E i \in 1..Len(rest) : rest[i] = q)
          BY <2>4, <4>1 DEF Intact, IsLeft
        <4> QED BY <1>1, <2>4, <4>1 DEF StillPosted
      <3>1. t \in 1..Len(mem) /\ q \in Paths
        BY <1>2, EventFields DEF PathsOf
      <3>2. CASE q = p
        <4>1. t < n
          BY <1>2, <2>3, <3>2
        <4>2. mem[t].group = mem[n].group /\ mem[t].group # 0
          <5>1. t # n
            BY <1>2, <3>1, <4>1
          <5> QED BY <1>1, <1>2, <5>1 DEF TargetsLast
        <4>3. mem[t].to = None /\ mem[n].to = None
          BY <1>2, <3>1, <4>2 DEF Groups
        <4>4. mem[t].path = p /\ mem[n].path = p
          BY <2>1, <3>2, <4>3 DEF PathsOf
        <4>5. mem[t].backup = mem[n].backup
          BY <1>2, <3>1, <4>1, <4>2, <4>4 DEF Groups
        <4> QED BY <2>7, <3>2, <4>4, <4>5 DEF Backed
      <3>3. CASE q # p
        <4>1. Intact(t, q)
          BY <1>1, <2>3 DEF Intact
        <4>2. files[q] = Post(mem[t], q) \/ files[q] = Backed(mem[t], q)
          BY <1>1, <1>2, <4>1 DEF StillPosted
        <4> QED BY <2>7, <3>1, <3>3, <4>2
      <3> QED BY <3>2, <3>3
    <2>21. NoRivals'
      BY <1>1, <1>2, <2>2, <2>4 DEF NoRivals, UndoPhases
    <2>19. Listed'
      <3>1. w'.pc # "manifest"
        BY <2>4
      <3> QED BY <1>1, <3>1 DEF FilesInv, Listed
    <2>20. w'.pc \notin CallPhases
      BY <2>4 DEF CallPhases
    <2> QED BY <2>9, <2>11, <2>12, <2>13, <2>14, <2>15, <2>16, <2>17, <2>18, <2>19, <2>20, <2>21, NotCalling DEF FilesInv
  <1> QED BY <1>4, <1>5

\* Once the event is marked, the log says of its paths what it said before the
\* event, or what the user left there since.
LEMMA MarkedLog ==
  ASSUME FilesInv, w.pc = "mark", mem' = Marked, UNCHANGED <<files, base, dirty>>
  PROVE  /\ Len(mem') = Len(mem) /\ mem' \in Seq(Events(made))
         /\ \A k \in 1..Len(mem) : /\ k # w.n => mem'[k] = mem[k]
                                   /\ PathsOf(mem'[k]) = PathsOf(mem[k])
                                   /\ mem'[k].path = mem[k].path /\ mem'[k].to = mem[k].to
                                   /\ mem'[k].group = mem[k].group
                                   /\ mem'[k].backup = mem[k].backup /\ mem'[k].post = mem[k].post
                                   /\ mem'[k].undone <=> mem[k].undone \/ k = w.n
         /\ ~mem[w.n].undone /\ mem'[w.n] = [mem[w.n] EXCEPT !.undone = TRUE]
         /\ \A j \in 1..Len(mem) : ~mem[j].undone => j <= w.n
         /\ \A p \in Paths \ dirty : files[p] = Says(p)'
         /\ Chain'
PROOF
  <1> DEFINE n == w.n
             e == mem[w.n]
  <1>1. /\ FileTypes /\ Explained /\ Chain /\ Groups /\ TargetsLast /\ NoRivals /\ PartsLeft
        /\ PutBack /\ UndoneRestored
        /\ n \in w.targets /\ n \in 1..Len(mem) /\ n \in Nat /\ Len(mem) \in Nat
        /\ PathsOf(e) \subseteq Paths
    BY Undoing DEF UndoPhases
  <1>2. /\ ~e.undone /\ \A j \in 1..Len(mem) : ~mem[j].undone => j <= n
    BY <1>1 DEF TargetsLast, UndoPhases
  <1>3. e \in Events(made) /\ mem \in Seq(Events(made))
    BY <1>1, EventFields DEF FileTypes
  <1> DEFINE u == [e EXCEPT !.undone = TRUE]
  <1>4. /\ u \in Events(made) /\ u.undone = TRUE /\ u.path = e.path /\ u.to = e.to
        /\ u.group = e.group /\ u.backup = e.backup /\ u.post = e.post /\ PathsOf(u) = PathsOf(e)
    BY <1>3 DEF Events, PathsOf
  <1>5. mem' = [mem EXCEPT ![n] = u]
    BY DEF Marked
  <1> HIDE DEF u
  <1>6. /\ Len(mem') = Len(mem) /\ mem' \in Seq(Events(made)) /\ mem'[n] = u
        /\ \A k \in 1..Len(mem) : k # n => mem'[k] = mem[k]
    BY <1>1, <1>3, <1>4, <1>5
  <1>7. \A k \in 1..Len(mem) : /\ PathsOf(mem'[k]) = PathsOf(mem[k])
                               /\ mem'[k].path = mem[k].path /\ mem'[k].to = mem[k].to
                               /\ mem'[k].group = mem[k].group
                               /\ mem'[k].backup = mem[k].backup /\ mem'[k].post = mem[k].post
                               /\ mem'[k].undone <=> mem[k].undone \/ k = n
    BY <1>4, <1>6
  <1>8. ASSUME NEW p \in Paths \ dirty PROVE files[p] = Says(p)'
    <2>1. base[p].at \in Nat
      BY <1>1 DEF FileTypes, Bases
    <2>2. CASE p \notin PathsOf(e)
      <3>1. files[p] = Says(p)
        BY <1>1, <2>2 DEF Explained, Touched
      <3>2. Speaks(mem, base[p], p, Len(mem)) = Speaks(mem', base[p], p, Len(mem))
        BY <1>6, <1>7, <2>2 DEF Speaks
      <3>3. \A j \in Speaks(mem, base[p], p, Len(mem)) : Post(mem[j], p) = Post(mem'[j], p)
        BY <1>6, <2>2 DEF Speaks
      <3>4. LoggedIn(mem, base[p], p, Len(mem)) = LoggedIn(mem', base[p], p, Len(mem))
        BY <1>1, <3>2, <3>3, LoggedSame
      <3> QED BY <1>6, <3>1, <3>4 DEF Says
    <2>3. CASE p \in PathsOf(e)
      <3>1. ~IsLeft(p)
        <4>1. w.parts = <<>>
          BY <1>1 DEF PartsLeft
        <4> QED BY <4>1 DEF IsLeft
      <3>2. files[p] = Backed(e, p) /\ (base[p].at >= n => base[p].content = files[p])
        BY <1>1, <1>8, <2>3, <3>1 DEF PutBack
      <3>3. CASE base[p].at >= n
        <4>1. Speaks(mem', base[p], p, Len(mem)) = {}
          <5>1. \A j \in 1..Len(mem) : ~mem'[j].undone => ~ (j > base[p].at)
            BY <1>1, <1>2, <1>7, <2>1, <3>3
          <5> QED BY <5>1 DEF Speaks
        <4> QED BY <1>6, <3>2, <3>3, <4>1, LoggedNone DEF Says
      <3>4. CASE base[p].at < n
        <4>7. ~Again(mem, n)
          <5> SUFFICES ASSUME e.group # 0, NEW i \in 1..(n - 1),
                              mem[i].group = e.group, mem[i].path = e.path
                       PROVE  FALSE
            BY DEF Again
          <5>1. i \in 1..Len(mem) /\ i < n
            BY <1>1
          <5>2. ~mem[i].undone
            BY <1>1, <1>2, <5>1 DEF UndoneRestored, UndoneUp
          <5>3. i \in w.targets
            BY <1>1, <5>1, <5>2 DEF TargetsLast, UndoPhases
          <5>4. e.path \in dirty
            BY <1>1, <5>1, <5>3 DEF NoRivals
          <5>5. e.to = None
            BY <1>1 DEF Groups
          <5> QED BY <1>8, <2>3, <5>4, <5>5 DEF PathsOf
        <4>1. Backed(e, p) = LoggedIn(mem, base[p], p, n - 1)
          BY <1>1, <1>2, <1>8, <2>3, <3>4, <4>7 DEF Chain
        <4>2. \A j \in 1..Len(mem) : ~mem'[j].undone <=> ~mem[j].undone /\ j \in 1..(n - 1)
          BY <1>1, <1>2, <1>7
        <4>3. \A j \in 1..(n - 1) : j \in 1..Len(mem) /\ j # n
          BY <1>1
        <4>4. Speaks(mem, base[p], p, n - 1) = Speaks(mem', base[p], p, Len(mem))
          BY <1>6, <4>2, <4>3 DEF Speaks
        <4>5. \A j \in Speaks(mem, base[p], p, n - 1) : Post(mem[j], p) = Post(mem'[j], p)
          BY <1>6, <4>3 DEF Speaks
        <4>6. LoggedIn(mem, base[p], p, n - 1) = LoggedIn(mem', base[p], p, Len(mem))
          <5>1. n - 1 \in Nat
            BY <1>1
          <5> QED BY <1>1, <4>4, <4>5, <5>1, LoggedSame
        <4> QED BY <1>6, <3>2, <4>1, <4>6 DEF Says
      <3> QED BY <1>1, <2>1, <3>3, <3>4
    <2> QED BY <2>2, <2>3
  <1>9. Chain'
    <2> SUFFICES ASSUME NEW k \in 1..Len(mem), ~mem'[k].undone, ~Again(mem', k), NEW q \in PathsOf(mem'[k]) \ dirty,
                        base[q].at < k
                 PROVE  Backed(mem'[k], q) = LoggedIn(mem', base[q], q, k - 1)
      BY <1>6 DEF Chain
    <2>1. k # n /\ ~mem[k].undone /\ mem'[k] = mem[k] /\ k <= n
      BY <1>2, <1>6, <1>7
    <2>8. ~Again(mem, k)
      <3>1. \A j \in 1..(k - 1) : j \in 1..Len(mem)
        BY <1>1, <2>1
      <3> QED BY <1>7, <3>1 DEF Again
    <2>2. Backed(mem[k], q) = LoggedIn(mem, base[q], q, k - 1)
      BY <1>1, <2>1, <2>8 DEF Chain
    <2>3. \A j \in 1..(k - 1) : j \in 1..Len(mem) /\ j # n
      BY <1>1, <2>1
    <2>4. Speaks(mem, base[q], q, k - 1) = Speaks(mem', base[q], q, k - 1)
      BY <1>6, <2>3 DEF Speaks
    <2>5. \A j \in Speaks(mem, base[q], q, k - 1) : Post(mem[j], q) = Post(mem'[j], q)
      BY <1>6, <2>3 DEF Speaks
    <2>6. k - 1 \in Nat
      BY <1>1
    <2>7. LoggedIn(mem, base[q], q, k - 1) = LoggedIn(mem', base[q], q, k - 1)
      BY <2>4, <2>5, <2>6, LoggedSame
    <2> QED BY <2>1, <2>2, <2>7
  <1> QED BY <1>2, <1>6, <1>7, <1>8, <1>9 DEF u

LEMMA MarkStep == FilesInv /\ Mark => FilesInv'
PROOF
  <1> SUFFICES ASSUME FilesInv, Mark PROVE FilesInv'
    OBVIOUS
  <1> DEFINE n == w.n
  <1>1. /\ w.pc = "mark" /\ w.pc \in UndoPhases /\ mem' = Marked
        /\ UNCHANGED <<files, base, dirty, restored, made, requests, manifest, edited>>
        /\ disk' = mem' \/ disk' = disk
        /\ \/ w' = Ended
           \/ w' = [w EXCEPT !.n = Max(Earlier), !.pc = "restore"] /\ Earlier # {}
    BY DEF Mark, Counters, UndoPhases
  <1>2. /\ FileTypes /\ Saved /\ PhaseOK /\ Groups /\ TargetsLast /\ NoRivals /\ PartsLeft /\ StillPosted
        /\ UndoneRestored /\ Listed
        /\ w.call = None /\ n \in w.targets /\ n \in 1..Len(mem) /\ n \in Nat
        /\ Len(mem) \in Nat /\ w.targets \in SUBSET (1..Len(mem))
    BY <1>1, Undoing DEF FilesInv
  <1>3. /\ Len(mem') = Len(mem) /\ mem' \in Seq(Events(made))
        /\ \A k \in 1..Len(mem) : /\ k # n => mem'[k] = mem[k]
                                  /\ PathsOf(mem'[k]) = PathsOf(mem[k])
                                  /\ mem'[k].path = mem[k].path /\ mem'[k].to = mem[k].to
                                  /\ mem'[k].group = mem[k].group
                                  /\ mem'[k].backup = mem[k].backup /\ mem'[k].post = mem[k].post
                                  /\ mem'[k].undone <=> mem[k].undone \/ k = n
        /\ ~mem[n].undone /\ mem'[n] = [mem[n] EXCEPT !.undone = TRUE]
        /\ \A j \in 1..Len(mem) : ~mem[j].undone => j <= n
        /\ \A p \in Paths \ dirty : files[p] = Says(p)'
        /\ Chain'
    BY <1>1, MarkedLog
  <1>4. Saved'
    <2>1. ASSUME disk' = disk, NEW k \in 1..Len(mem)
          PROVE  disk[k] = mem'[k] \/ mem'[k] = [disk[k] EXCEPT !.undone = TRUE]
      <3>1. CASE k = n
        <4>1. disk[n] = mem[n] \/ mem[n] = [disk[n] EXCEPT !.undone = TRUE]
          BY <1>2 DEF Saved
        <4>2. disk[n] \in Events(made)
          BY <1>2, EventFields
        <4>3. [disk[n] EXCEPT !.undone = TRUE].undone = TRUE
          BY <4>2 DEF Events
        <4>4. disk[n] = mem[n]
          BY <1>3, <4>1, <4>3
        <4> QED BY <1>3, <3>1, <4>4
      <3>2. CASE k # n
        <4>1. mem'[k] = mem[k]
          BY <1>3, <3>2
        <4>2. disk[k] = mem[k] \/ mem[k] = [disk[k] EXCEPT !.undone = TRUE]
          BY <1>2 DEF Saved
        <4> QED BY <4>1, <4>2
      <3> QED BY <3>1, <3>2
    <2>2. CASE disk' = mem'
      BY <2>2 DEF Saved
    <2>3. CASE disk' = disk
      <3>1. \A k \in 1..Len(mem') : disk'[k] = mem'[k] \/ mem'[k] = [disk'[k] EXCEPT !.undone = TRUE]
        BY <1>3, <2>1, <2>3
      <3> QED BY <3>1 DEF Saved
    <2> QED BY <1>1, <2>2, <2>3
  <1>5. UndoneRestored'
    <2>1. n \in restored
      BY <1>1, <1>2 DEF PartsLeft
    <2>2. \A k \in 1..Len(mem') : mem'[k].undone => k \in restored'
      BY <1>1, <1>2, <1>3, <2>1 DEF UndoneRestored
    <2>3. UndoneUp(mem')
      <3> SUFFICES ASSUME NEW i \in 1..Len(mem), NEW j \in 1..Len(mem), i < j,
                          mem[i].group = mem[j].group, mem[i].group # 0, mem'[i].undone
                   PROVE  mem'[j].undone
        BY <1>3 DEF UndoneUp
      <3>1. CASE mem[i].undone
        BY <1>2, <1>3, <3>1 DEF UndoneRestored, UndoneUp
      <3>2. CASE i = n
        <4>1. ~ (j <= n)
          BY <1>2, <3>2
        <4> QED BY <1>3, <4>1
      <3> QED BY <1>3, <3>1, <3>2
    <2>4. UndoneUp(disk')
      BY <1>1, <1>2, <2>3 DEF UndoneRestored
    <2> QED BY <2>2, <2>3, <2>4 DEF UndoneRestored
  <1>6. Groups'
    <2>1. \A k \in 1..Len(mem) : /\ mem'[k].group <= requests
                                 /\ mem'[k].to # mem'[k].path
                                 /\ mem'[k].group # 0 => mem'[k].to = None
      BY <1>2, <1>3 DEF Groups
    <2>2. ASSUME NEW i \in 1..Len(mem), NEW j \in 1..Len(mem),
                 i < j, mem'[i].group = mem'[j].group, mem'[i].group # 0
          PROVE  /\ \A k \in i..j : mem'[k].group = mem'[i].group
                 /\ mem'[i].path = mem'[j].path =>
                      /\ mem'[i].backup = mem'[j].backup
                      /\ mem'[i].path \in dirty' \/ mem'[i].post # mem'[j].post
      <3>1. /\ \A k \in i..j : mem[k].group = mem[i].group
            /\ mem[i].path = mem[j].path =>
                 /\ mem[i].backup = mem[j].backup
                 /\ mem[i].path \in dirty \/ mem[i].post # mem[j].post
        BY <1>2, <1>3, <2>2 DEF Groups
      <3>2. \A k \in i..j : k \in 1..Len(mem)
        BY <1>2
      <3> QED BY <1>1, <1>3, <3>1, <3>2
    <2> QED BY <1>1, <1>3, <2>1, <2>2 DEF Groups
  <1>7. /\ Len(disk') = Len(disk) /\ Len(disk) \in Nat /\ Len(disk) = Len(mem)
        /\ \A k \in 1..Len(disk) : disk'[k].path = disk[k].path /\ disk'[k].group = disk[k].group
        /\ disk' \in Seq(Events(made))
    <2>1. Len(disk) = Len(mem) /\ disk \in Seq(Events(made))
      BY <1>2 DEF FileTypes
    <2> QED BY <1>1, <1>2, <1>3, <2>1, SavedFields
  <1>8. \A p \in manifest.outputs :
          \E k \in 1..Len(disk') : disk'[k].path = p /\ disk'[k].group = manifest.group
    BY <1>1, <1>2, <1>7, ListedKept
  <1>9. w' \in Works(made', requests', Len(mem')) => FileTypes'
    BY <1>1, <1>2, <1>3, <1>7 DEF FileTypes
  <1>10. Explained'
    BY <1>1, <1>3 DEF Explained
  <1>11. CASE w' = Ended
    <2>1. FileTypes'
      <3>1. requests' \in Nat
        BY <1>1, <1>2, WorkFields
      <3> QED BY <1>9, <1>11, <3>1, IdleIs
    <2>2. ManifestRecorded'
      BY <1>1, <1>8, <2>1 DEF ManifestRecorded, FileTypes
    <2> QED BY <1>3, <1>4, <1>5, <1>6, <1>10, <1>11, <2>1, <2>2, RestsNext
  <1>12. CASE w' = [w EXCEPT !.n = Max(Earlier), !.pc = "restore"] /\ Earlier # {}
    <2> DEFINE m == Max(Earlier)
    <2>1. m \in Earlier /\ \A t \in Earlier : t <= m
      <3>1. Earlier \in SUBSET (1..Len(mem))
        BY <1>2 DEF Earlier
      <3> QED BY <1>2, <1>12, <3>1, MaxIsGreatest
    <2> HIDE DEF m
    <2>2. m \in w.targets /\ m < n /\ m \in 1..Len(mem) /\ m \in Nat
      BY <1>2, <2>1 DEF Earlier
    <2>3. w' = [w EXCEPT !.n = m, !.pc = "restore"]
      BY <1>12 DEF m
    <2>4. /\ w'.pc = "restore" /\ w'.n = m /\ w'.call = None /\ w'.targets = w.targets
      BY <1>2, <2>3, WorkFields DEF Works
    <2>5. "restore" \in States /\ w'.pc \in UndoPhases /\ w'.pc \notin CallPhases
      BY <2>4 DEF States, UndoPhases, CallPhases
    <2>6. w' \in Works(made, requests, Len(mem))
      BY <1>2, <2>2, <2>3, <2>5, WorkFields DEF Works
    <2>7. FileTypes'
      BY <1>1, <1>3, <1>9, <2>6
    <2>8. PhaseOK'
      BY <2>2, <2>4, <2>5 DEF PhaseOK, UndoPhases, CallPhases
    <2>9. TargetsLast'
      <3>1. ASSUME NEW j \in 1..Len(mem), ~mem'[j].undone
            PROVE  /\ j <= m
                   /\ \A t \in w.targets : j >= t => j \in w.targets
        <4>1. ~mem[j].undone /\ j < n
          BY <1>2, <1>3, <3>1
        <4>2. \A t \in w.targets : j >= t => j \in w.targets
          BY <1>1, <1>2, <4>1 DEF TargetsLast
        <4>3. j > m => j \in Earlier
          BY <1>2, <2>2, <4>1, <4>2 DEF Earlier
        <4> QED BY <1>2, <2>1, <2>2, <4>2, <4>3
      <3>2. \A s, t \in w.targets : s # t => mem'[s].group = mem'[t].group /\ mem'[s].group # 0
        BY <1>1, <1>2, <1>3 DEF TargetsLast
      <3>3. \A t \in w.targets : t <= m => ~mem'[t].undone
        <4>1. \A t \in w.targets : t <= m => t < n /\ t <= n /\ t # n /\ t \in 1..Len(mem)
          BY <1>2, <2>2
        <4> QED BY <1>1, <1>2, <1>3, <4>1 DEF TargetsLast
      <3>4. ASSUME NEW t \in w.targets, NEW j \in 1..Len(mem), ~mem'[j].undone,
                   mem'[j].group = mem'[t].group, mem'[j].group # 0
            PROVE  j \in w.targets
        BY <1>1, <1>2, <1>3, <3>4 DEF TargetsLast
      <3> QED BY <1>3, <2>4, <3>1, <3>2, <3>3, <3>4 DEF TargetsLast
    <2>10. PartsLeft' /\ PutBack'
      BY <2>4 DEF PartsLeft, PutBack
    <2>11. StillPosted'
      <3> SUFFICES ASSUME NEW t \in w.targets, NEW q \in PathsOf(mem'[t]) \ edited, t <= m
                   PROVE  files[q] = Post(mem'[t], q) \/ files[q] = Backed(mem'[t], q)
        BY <1>1, <2>4 DEF StillPosted, Intact
      <3>1. t < n /\ t \in 1..Len(mem) /\ t # n
        BY <1>2, <2>2
      <3>2. mem'[t] = mem[t] /\ Intact(t, q)
        BY <1>1, <1>3, <3>1 DEF Intact
      <3> QED BY <1>1, <1>2, <3>2 DEF StillPosted
    <2>12. Listed'
      BY <1>1, <1>8, <2>4 DEF Listed
    <2>13. NoRivals'
      BY <1>1, <1>2, <1>3, <2>4 DEF NoRivals, UndoPhases
    <2> QED BY <1>3, <1>4, <1>5, <1>6, <1>10, <2>5, <2>7, <2>8, <2>9, <2>10, <2>11, <2>12, <2>13, NotCalling
            DEF FilesInv
  <1> QED BY <1>1, <1>11, <1>12

-----------------------------------------------------------------------------
(* The end of an operation, and a crash *)

LEMMA EndStep == FilesInv /\ End => FilesInv'
PROOF
  <1> SUFFICES ASSUME FilesInv, End PROVE FilesInv'
    OBVIOUS
  <1>1. /\ w.pc \in {"end", "conflict"} /\ w' = Idle /\ disk' \in {mem, disk}
        /\ UNCHANGED <<files, mem, base, made, requests, edited, restored, dirty, manifest>>
    BY DEF End, Counters
  <1>2. FileTypes /\ Saved /\ dirty \subseteq Paths /\ Touched = {}
    BY <1>1, UntouchedPhases DEF FilesInv, FileTypes
  <1>3. CASE disk' = disk
    BY <1>1, <1>2, <1>3, EndsStep
  <1>4. CASE disk' = mem
    <2>1. FileTypes'
      <3>1. w' \in Works(made', requests', Len(mem'))
        BY <1>1, <1>2, WorkFields, IdleIs
      <3> QED BY <1>1, <1>2, <1>4, <3>1 DEF FileTypes
    <2>2. Saved' /\ UndoneRestored' /\ Chain' /\ Groups'
      BY <1>1, <1>4 DEF FilesInv, Saved, UndoneRestored, UndoneUp, Chain, Again, Groups
    <2>3. Explained'
      BY <1>1, <1>2, ExplainedKept DEF FilesInv
    <2>4. ManifestRecorded'
      <3>1. \A k \in 1..Len(mem) : mem[k].path = disk[k].path /\ mem[k].group = disk[k].group
        BY <1>2, SavedFields
      <3>2. ManifestRecorded /\ DOMAIN disk = 1..Len(mem) /\ DOMAIN disk' = 1..Len(mem)
        BY <1>2, <1>4, ManifestIs DEF FileTypes
      <3> QED BY <1>1, <1>4, <3>1, <3>2 DEF ManifestRecorded
    <2> QED BY <1>1, <2>1, <2>2, <2>3, <2>4, RestsNext
  <1> QED BY <1>1, <1>3, <1>4

LEMMA CrashStep == FilesInv /\ Crash => FilesInv'
PROOF
  <1> SUFFICES ASSUME FilesInv, Crash PROVE FilesInv'
    OBVIOUS
  <1>1. /\ mem' = disk /\ w' = Idle
        /\ UNCHANGED <<files, disk, manifest, base, edited, restored, made, requests>>
        /\ dirty' = dirty \cup InFlight
                      \cup UNION {PathsOf(mem[k]) : k \in {j \in DOMAIN mem : mem[j] # disk[j]}}
    BY DEF Crash
  <1>2. /\ FileTypes /\ Saved /\ Explained /\ Chain /\ Groups /\ UndoneRestored
        /\ DOMAIN mem = 1..Len(mem) /\ Len(disk) = Len(mem) /\ Len(mem) \in Nat
    BY WorkFields DEF FilesInv, FileTypes
  <1>3. /\ dirty \subseteq dirty' /\ Touched \subseteq dirty' /\ dirty' \subseteq Paths
        /\ \A k \in 1..Len(mem) : mem[k] # disk[k] => PathsOf(mem[k]) \subseteq dirty'
    <2>1. \A k \in 1..Len(mem) : PathsOf(mem[k]) \subseteq Paths
      BY <1>2, EventFields DEF PathsOf
    <2>2. InFlight \subseteq Paths /\ Touched \subseteq InFlight /\ dirty \subseteq Paths
      BY <1>2, InFlightIs DEF FileTypes
    <2> QED BY <1>1, <1>2, <2>1, <2>2
  <1>4. \A k \in 1..Len(mem) : /\ disk[k].path = mem[k].path /\ disk[k].to = mem[k].to
                               /\ disk[k].group = mem[k].group
                               /\ disk[k].backup = mem[k].backup /\ disk[k].post = mem[k].post
                               /\ disk[k].undone => mem[k].undone
                               /\ PathsOf(disk[k]) = PathsOf(mem[k])
    BY <1>2, SavedFields DEF PathsOf
  <1>5. ASSUME NEW p \in Paths \ dirty', NEW k \in 0..Len(mem)
        PROVE  LoggedIn(disk, base[p], p, k) = LoggedIn(mem, base[p], p, k)
    <2>1. \A j \in 1..k : j \in 1..Len(mem)
      BY <1>2
    <2>2. \A j \in 1..k : p \in PathsOf(mem[j]) \/ p \in PathsOf(disk[j]) => mem[j] = disk[j]
      BY <1>3, <1>4, <1>5, <2>1
    <2>3. Speaks(disk, base[p], p, k) = Speaks(mem, base[p], p, k)
      BY <2>2 DEF Speaks
    <2>4. \A j \in Speaks(disk, base[p], p, k) : Post(disk[j], p) = Post(mem[j], p)
      BY <2>2 DEF Speaks
    <2>5. k \in Nat
      BY <1>2
    <2> QED BY <2>3, <2>4, <2>5, LoggedSame
  <1>6. FileTypes'
    <2>1. w' \in Works(made', requests', Len(mem'))
      BY <1>1, <1>2, WorkFields, IdleIs
    <2> QED BY <1>1, <1>2, <1>3, <2>1 DEF FileTypes
  <1>7. Saved' /\ UndoneRestored'
    BY <1>1, <1>2, <1>4 DEF Saved, UndoneRestored, UndoneUp
  <1>8. Groups'
    <2>1. \A k \in 1..Len(mem) : /\ disk[k].group <= requests
                                 /\ disk[k].to # disk[k].path
                                 /\ disk[k].group # 0 => disk[k].to = None
      BY <1>2, <1>4 DEF Groups
    <2>2. ASSUME NEW i \in 1..Len(mem), NEW j \in 1..Len(mem), i < j,
                 disk[i].group = disk[j].group, disk[i].group # 0
          PROVE  /\ \A k \in i..j : disk[k].group = disk[i].group
                 /\ disk[i].path = disk[j].path =>
                      /\ disk[i].backup = disk[j].backup
                      /\ disk[i].path \in dirty' \/ disk[i].post # disk[j].post
      <3>1. /\ \A k \in i..j : mem[k].group = mem[i].group
            /\ mem[i].path = mem[j].path =>
                 /\ mem[i].backup = mem[j].backup
                 /\ mem[i].path \in dirty \/ mem[i].post # mem[j].post
        BY <1>2, <1>4, <2>2 DEF Groups
      <3>2. \A k \in i..j : k \in 1..Len(mem)
        BY <1>2
      <3> QED BY <1>3, <1>4, <3>1, <3>2
    <2> QED BY <1>1, <1>2, <2>1, <2>2 DEF Groups
  <1>9. Chain'
    <2> SUFFICES ASSUME NEW k \in 1..Len(mem), ~disk[k].undone, ~Again(disk, k),
                        NEW q \in PathsOf(disk[k]) \ dirty',
                        base[q].at < k
                 PROVE  Backed(disk[k], q) = LoggedIn(disk, base[q], q, k - 1)
      BY <1>1, <1>2 DEF Chain
    <2>1. q \in PathsOf(mem[k]) /\ q \notin dirty
      BY <1>3, <1>4
    <2>2. mem[k] = disk[k]
      BY <1>3, <2>1
    <2>5. ~Again(mem, k)
      <3>1. \A j \in 1..(k - 1) : j \in 1..Len(mem)
        BY <1>2
      <3> QED BY <1>4, <3>1 DEF Again
    <2>3. Backed(mem[k], q) = LoggedIn(mem, base[q], q, k - 1)
      BY <1>2, <2>1, <2>2, <2>5 DEF Chain
    <2>4. q \in Paths \ dirty' /\ k - 1 \in 0..Len(mem)
      BY <1>2, <2>1, EventFields DEF PathsOf
    <2> QED BY <1>5, <2>2, <2>3, <2>4
  <1>10. Explained'
    <2>1. ASSUME NEW p \in Paths \ dirty' PROVE files'[p] = Says(p)'
      <3>1. files[p] = Says(p)
        BY <1>2, <1>3, <2>1 DEF Explained
      <3>2. LoggedIn(disk, base[p], p, Len(mem)) = LoggedIn(mem, base[p], p, Len(mem))
        BY <1>2, <1>5, <2>1
      <3> QED BY <1>1, <1>2, <3>1, <3>2 DEF Says
    <2> QED BY <2>1 DEF Explained
  <1>11. ManifestRecorded'
    BY <1>1, ManifestIs DEF ManifestRecorded
  <1> QED BY <1>1, <1>6, <1>7, <1>8, <1>9, <1>10, <1>11, RestsNext

LEMMA StutterStep == FilesInv /\ UNCHANGED vars => FilesInv'
PROOF
  <1> SUFFICES ASSUME FilesInv, UNCHANGED vars PROVE FilesInv'
    OBVIOUS
  <1>1. UNCHANGED <<files, mem, disk, manifest, w, base, dirty, edited, restored, made, requests>>
    BY DEF vars
  <1>2. Current' = Current /\ Selfwritten' = Selfwritten /\ IsSeries' = IsSeries
        /\ MovesAway' = MovesAway /\ Unrecorded' = Unrecorded /\ Ahead' = Ahead
        /\ Recordable' = Recordable
    BY <1>1 DEF Current, Selfwritten, IsSeries, MovesAway, Unrecorded, Ahead, Recordable
  <1>3. FileTypes' /\ Saved' /\ UndoneRestored'
    BY <1>1 DEF FilesInv, FileTypes, Saved, UndoneRestored, UndoneUp
  <1>4. Chain' /\ Groups'
    BY <1>1 DEF FilesInv, Chain, Again, Groups
  <1>5. Touched' = Touched
    BY <1>1, <1>2 DEF Touched
  <1>6. Explained'
    BY <1>1, <1>5, ExplainedKept DEF FilesInv
  <1>7. PhaseOK'
    BY <1>1, <1>2 DEF FilesInv, PhaseOK
  <1>8. SnapsTaken' /\ BackupsKnown'
    BY <1>1, <1>2 DEF FilesInv, SnapsTaken, BackupsKnown, BackupKnown, SnapKnown, Says,
                           Joined, SeriesRecords
  <1>9. GroupOfCall' /\ TargetsLast' /\ NoRivals' /\ PartsLeft'
    BY <1>1, <1>2 DEF FilesInv, GroupOfCall, TargetsLast, NoRivals, PartsLeft
  <1>10. PutBack' /\ StillPosted'
    BY <1>1 DEF FilesInv, PutBack, StillPosted, IsLeft, Intact
  <1>11. Listed'
    BY <1>1, <1>2 DEF FilesInv, Listed
  <1> QED BY <1>3, <1>4, <1>6, <1>7, <1>8, <1>9, <1>10, <1>11 DEF FilesInv

-----------------------------------------------------------------------------
(* The theorems *)

\* Every state of the program: the files hold what the log says of them, each
\* backup is what the log said before its event, or before the first event of
\* the output if a series wrote it twice; the events of a call lie together; and
\* an undo restores the last open events (undo_last, apply_patch,
\* commit_staged_files, translate_series, record_file_operation).
THEOREM AgentFilesInvariant == Spec => []FilesInv
PROOF
  <1>1. FilesInv /\ [Next]_vars => FilesInv'
    <2> SUFFICES ASSUME FilesInv, [Next]_vars PROVE FilesInv'
      OBVIOUS
    <2>1. CASE \E c \in Calls : Begin(c)
      BY <2>1, BeginStep
    <2>2. CASE Prepare \/ Refuse \/ Stops
      BY <2>2, PrepareStep, RefuseStep, StopsStep
    <2>3. CASE Backup \/ Write \/ WriteFails \/ Rollback
      BY <2>3, BackupStep, WriteStep, WriteFailsStep, RollbackStep
    <2>4. CASE File \/ Translated \/ FileFails \/ FileListed
      BY <2>4, FileStep, TranslatedStep, FileFailsStep, FileListedStep
    <2>5. CASE Record \/ RecordFails
      BY <2>5, RecordStep, RecordFailsStep
    <2>6. CASE Undo \/ Verify \/ UndoStops \/ Restore
      BY <2>6, UndoStep, VerifyStep, UndoStopsStep, RestoreStep
    <2>7. CASE RestorePart \/ Mark \/ End
      BY <2>7, RestorePartStep, MarkStep, EndStep
    <2>8. CASE \E p \in Paths : UserEdits(p)
      BY <2>8, UserEditsStep
    <2>9. CASE Crash
      BY <2>9, CrashStep
    <2>10. CASE UNCHANGED vars
      BY <2>10, StutterStep
    <2> QED BY <2>1, <2>2, <2>3, <2>4, <2>5, <2>6, <2>7, <2>8, <2>9, <2>10 DEF Next
  <1> QED BY <1>1, InitInv, PTL DEF Spec

\* Every state is one of the program, and the session file lags behind the
\* session by undone marks only (AgentSession, persist).
THEOREM AgentFilesTypes == Spec => []TypeOK
PROOF
  <1>1. FilesInv => TypeOK
    <2> SUFFICES ASSUME FilesInv PROVE TypeOK
      OBVIOUS
    <2>1. FileTypes /\ PhaseOK /\ Saved /\ DOMAIN mem = 1..Len(mem)
      BY DEF FilesInv, FileTypes
    <2>2. \A k \in DOMAIN mem : mem[k] \in Events(made)
      BY <2>1, EventFields
    <2> QED BY <2>1, <2>2, WorkFields DEF TypeOK, FileTypes, PhaseOK, Saved, Events
  <1> QED BY <1>1, AgentFilesInvariant, PTL

\* Between operations the log explains every file that no crash, I/O error or
\* edit in the middle of an operation has touched (undo_last,
\* record_file_operation, rollback, commit_staged_files).
THEOREM AgentLogExplains == Spec => []LogExplainsFiles
PROOF
  <1>1. FilesInv => LogExplainsFiles
    <2> SUFFICES ASSUME FilesInv, w.pc = "idle", NEW p \in Paths \ dirty
                 PROVE  files[p] = Logged(p)
      BY DEF LogExplainsFiles
    <2>1. DOMAIN mem = 1..Len(mem)
      BY DEF FilesInv, FileTypes
    <2>2. files[p] = Says(p)
      BY UntouchedPhases DEF FilesInv, Explained
    <2>3. {k \in DOMAIN mem : ~mem[k].undone /\ k > base[p].at /\ p \in PathsOf(mem[k])}
            = Speaks(mem, base[p], p, Len(mem))
      BY <2>1 DEF Speaks
    <2>4. Logged(p) = Says(p)
      BY <2>3 DEF Logged, Says, LoggedIn, Post
    <2> QED BY <2>2, <2>4
  <1> QED BY <1>1, AgentFilesInvariant, PTL

\* An event that the session file calls undone has its files back (the save
\* that follows restore_event).
THEOREM AgentUndoneIsRestored == Spec => []UndoneIsRestored
PROOF
  <1>1. FilesInv => UndoneIsRestored
    <2> SUFFICES ASSUME FilesInv, NEW k \in DOMAIN disk, disk[k].undone
                 PROVE  k \in restored
      BY DEF UndoneIsRestored
    <2>1. k \in 1..Len(mem) /\ FileTypes /\ Saved
      BY DEF FilesInv, FileTypes
    <2> QED BY <2>1, SavedFields DEF FilesInv, UndoneRestored
  <1> QED BY <1>1, AgentFilesInvariant, PTL

\* An output that the manifest of a directory run lists can be undone
\* (on_output before persist_batch_progress).
THEOREM AgentManifestRecorded == Spec => []ManifestRecorded
PROOF
  BY ManifestIs, AgentFilesInvariant, PTL

\* Only a verification comes to a conflict, and in a conflict only the user
\* and the end of the operation go on.
LEMMA ToConflict ==
  ASSUME FilesInv, [Next]_vars, w'.pc = "conflict"
  PROVE  Verify \/ (\E p \in Paths : UserEdits(p)) \/ UNCHANGED vars
PROOF
  <1>1. FileTypes
    BY DEF FilesInv
  <1>2. Ended.pc = "end" /\ Idle.pc = "idle"
    BY IdleIs
  <1>3. \A pc \in States : At(pc).pc = pc
    BY <1>1, WorkFields DEF Works, At
  <1>4. CASE \E c \in Calls : Begin(c)
    <2>1. w'.pc = "prepare"
      BY <1>4 DEF Begin, Idle
    <2> QED BY <2>1
  <1>5. CASE Prepare \/ Refuse \/ Stops
    <2>1. w'.pc \in {"file", "backup", "end"}
      BY <1>1, <1>2, <1>5, WorkFields DEF Works, Prepare, Refuse, Stops, OnlyMoves
    <2> QED BY <2>1
  <1>6. Abandoned.pc \in {"rollback", "end"}
    BY <1>2, <1>3 DEF Abandoned, States
  <1>7. CASE Backup \/ WriteFails
    <2>1. w' = Abandoned \/ w' = [w EXCEPT !.pc = "write", !.snap = BackedUp]
      BY <1>7 DEF Backup, WriteFails
    <2>2. w' = [w EXCEPT !.pc = "write", !.snap = BackedUp] => w'.pc = "write"
      BY <1>1, WorkFields DEF Works
    <2> QED BY <1>6, <2>1, <2>2
  <1>8. CASE Write
    <2> DEFINE d == Append(w.done, Result)
               pc == IF w.n = Len(w.call.changes) THEN "record" ELSE "backup"
               n == IF w.n = Len(w.call.changes) THEN 1 ELSE w.n + 1
    <2>1. w' = [w EXCEPT !.done = d, !.pc = pc, !.n = n]
      BY <1>8 DEF Write
    <2>2. pc # "conflict"
      OBVIOUS
    <2> HIDE DEF d, pc, n
    <2> QED BY <1>1, <2>1, <2>2, WorkFields DEF Works
  <1>9. CASE Rollback
    <2> DEFINE d == Front(w.done)
    <2>1. w.pc = "rollback" /\ (w' = Ended \/ w' = [w EXCEPT !.done = d])
      BY <1>9 DEF Rollback
    <2> HIDE DEF d
    <2> QED BY <1>1, <1>2, <2>1, WorkFields DEF Works
  <1>10. NextFile.pc = "file"
    BY <1>1, WorkFields DEF Works, NextFile
  <1>11. CASE File \/ FileListed \/ FileFails
    <2>1. w' \in {Ended, NextFile, At("translating")}
      BY <1>11 DEF File, FileListed, FileFails, SaveManifest
    <2>2. "translating" \in States
      BY DEF States
    <2> QED BY <1>2, <1>3, <1>10, <2>1, <2>2
  <1>12. CASE Translated
    BY <1>3, <1>12 DEF Translated, States
  <1>13. CASE Record
    <2>1. /\ w.pc = "record"
          /\ w' = Ended \/ w' = At("manifest") \/ w' = [w EXCEPT !.n = w.n + 1]
      BY <1>13 DEF Record, AfterRecord
    <2>2. "manifest" \in States
      BY DEF States
    <2> QED BY <1>1, <1>2, <1>3, <2>1, <2>2, WorkFields DEF Works
  <1>14. CASE RecordFails \/ UndoStops
    BY <1>2, <1>14 DEF RecordFails, UndoStops, OnlyMoves
  <1>15. CASE Undo
    <2>1. PICK k \in LastOpen : w' = [Idle EXCEPT !.pc = "verify", !.targets = Targets(k),
                                                  !.n = Min(Targets(k))]
      BY <1>15 DEF Undo
    <2> DEFINE T == Targets(k)
               m == Min(Targets(k))
    <2>2. w' = [Idle EXCEPT !.pc = "verify", !.targets = T, !.n = m]
      BY <2>1
    <2> HIDE DEF T, m
    <2>3. w'.pc = "verify"
      BY <2>2 DEF Idle
    <2> QED BY <2>3
  <1>16. CASE Restore
    <2> DEFINE ps == Parts(Target)
    <2>1. w' = [w EXCEPT !.pc = "restoring", !.parts = ps]
      BY <1>16 DEF Restore, OnlyMoves
    <2> HIDE DEF ps
    <2> QED BY <1>1, <2>1, WorkFields DEF Works
  <1>17. CASE RestorePart
    <2> DEFINE rest == Tail(w.parts)
               pc == IF Len(w.parts) = 1 THEN "mark" ELSE w.pc
    <2>1. w.pc = "restoring" /\ (w' = Ended \/ w' = [w EXCEPT !.parts = rest, !.pc = pc])
      BY <1>17 DEF RestorePart
    <2>2. pc # "conflict"
      BY <2>1
    <2> HIDE DEF rest, pc
    <2> QED BY <1>1, <1>2, <2>1, <2>2, WorkFields DEF Works
  <1>18. CASE Mark
    <2> DEFINE m == Max(Earlier)
    <2>1. w' = Ended \/ w' = [w EXCEPT !.n = m, !.pc = "restore"]
      BY <1>18 DEF Mark
    <2> HIDE DEF m
    <2> QED BY <1>1, <1>2, <2>1, WorkFields DEF Works
  <1>19. CASE End \/ Crash
    BY <1>2, <1>19 DEF End, Crash
  <1> QED BY <1>4, <1>5, <1>7, <1>8, <1>9, <1>11, <1>12, <1>13, <1>14, <1>15, <1>16, <1>17,
             <1>18, <1>19 DEF Next

\* A file that is not as its event left it was changed by the user, by a
\* failure, or by a later event of the group at the same path.
LEMMA VerifyFinds ==
  ASSUME FilesInv, w.pc = "verify", ~Unchanged(Target)
  PROVE  \/ \E p \in PathsOf(Target) : p \in dirty \/ base[p].at >= w.n
         \/ \E k \in Later : mem[k].path = Target.path
PROOF
  <1> DEFINE n == w.n
             e == mem[w.n]
  <1>1. /\ FileTypes /\ Explained /\ Groups /\ TargetsLast
        /\ n \in w.targets /\ n \in 1..Len(mem) /\ n \in Nat /\ Len(mem) \in Nat
        /\ w.targets \in SUBSET (1..Len(mem))
        /\ PathsOf(e) \subseteq Paths /\ Target = e /\ e.path \in PathsOf(e) /\ e.to # e.path
    BY Undoing DEF UndoPhases
  <1>2. PICK p \in PathsOf(e) : files[p] # Post(e, p)
    BY <1>1 DEF Unchanged, PathsOf, Post
  <1>3. SUFFICES ASSUME p \notin dirty, ~ (base[p].at >= n),
                        \A k \in Later : mem[k].path # e.path
                 PROVE  FALSE
    BY <1>1
  <1>4. base[p].at < n /\ ~e.undone
    BY <1>1, <1>3 DEF TargetsLast, UndoPhases, FileTypes, Bases
  <1>5. n \in Speaks(mem, base[p], p, Len(mem))
    BY <1>1, <1>4 DEF Speaks
  <1>6. ASSUME NEW j \in Speaks(mem, base[p], p, Len(mem)) PROVE j <= n
    <2>1. j \in 1..Len(mem) /\ ~mem[j].undone /\ p \in PathsOf(mem[j])
      BY <1>6 DEF Speaks
    <2>2. SUFFICES ASSUME j > n PROVE FALSE
      BY <1>1, <2>1
    <2>3. j \in w.targets
      BY <1>1, <2>1, <2>2 DEF TargetsLast, UndoPhases
    <2>4. mem[n].group = mem[j].group /\ mem[n].group # 0
      BY <1>1, <2>2, <2>3 DEF TargetsLast, UndoPhases
    <2>5. mem[n].path # mem[j].path /\ mem[n].to = None /\ mem[j].to = None
      BY <1>1, <1>3, <2>1, <2>2, <2>3, <2>4 DEF Groups, Later
    <2> QED BY <1>2, <2>1, <2>5 DEF PathsOf
  <1>7. Says(p) = Post(e, p)
    BY <1>1, <1>5, <1>6, LoggedLast DEF Says
  <1>8. files[p] = Says(p)
    BY <1>1, <1>3, UntouchedPhases DEF Explained
  <1> QED BY <1>2, <1>7, <1>8

\* An undo reports a conflict only over a file that the user changed after the
\* event, that a failure left behind, or that the directory run being undone has
\* written twice (verify_unchanged).
THEOREM AgentConflictIsReal == Spec => []ConflictIsReal
PROOF
  <1>1. Init => ConflictIsReal
    BY DEF Init, Idle, ConflictIsReal
  <1>2. FilesInv /\ ConflictIsReal /\ [Next]_vars => ConflictIsReal'
    <2> SUFFICES ASSUME FilesInv, ConflictIsReal, [Next]_vars, w'.pc = "conflict"
                 PROVE  \/ \E p \in PathsOf(Target)' : p \in dirty' \/ base'[p].at >= w'.n
                        \/ \E k \in Later' : mem'[k].path = Target'.path
      BY DEF ConflictIsReal
    <2>1. CASE Verify
      <3>1. w.pc = "verify" /\ FileTypes /\ UNCHANGED <<mem, dirty, base>>
        BY <2>1 DEF Verify, OnlyMoves, Counters, logs, FilesInv
      <3>2. At("restore").pc = "restore" /\ At("conflict").n = w.n
            /\ At("conflict").targets = w.targets
        BY <3>1, WorkFields DEF Works, At
      <3>3. Verified.pc # "conflict"
        <4> DEFINE m == Min(Later)
        <4>1. Verified = At("restore") \/ Verified = [w EXCEPT !.n = m]
          BY DEF Verified
        <4> HIDE DEF m
        <4> QED BY <3>1, <3>2, <4>1, WorkFields DEF Works
      <3>4. ~Unchanged(Target) /\ w' = At("conflict")
        BY <2>1, <3>3 DEF Verify, OnlyMoves
      <3>5. \/ \E p \in PathsOf(Target) : p \in dirty \/ base[p].at >= w.n
            \/ \E k \in Later : mem[k].path = Target.path
        BY <3>1, <3>4, VerifyFinds
      <3>6. Target' = Target /\ Later' = Later /\ PathsOf(Target)' = PathsOf(Target)
        BY <3>1, <3>2, <3>4 DEF Target, Later, PathsOf
      <3> QED BY <3>1, <3>2, <3>4, <3>5, <3>6
    <2>2. CASE \E p \in Paths : UserEdits(p)
      <3>1. PICK q \in Paths : UserEdits(q)
        BY <2>2
      <3>2. /\ UNCHANGED <<mem, w>> /\ w.pc = "conflict" /\ dirty \subseteq dirty'
            /\ base' = [base EXCEPT ![q] = [content |-> files'[q], at |-> Len(mem)]]
        BY <3>1 DEF UserEdits, logs
      <3>7. Target' = Target /\ Later' = Later /\ PathsOf(Target)' = PathsOf(Target)
        BY <3>2 DEF Target, Later, PathsOf
      <3>8. SUFFICES ASSUME ~ \E k \in Later : mem[k].path = Target.path
                     PROVE  \E p \in PathsOf(Target) : p \in dirty' \/ base'[p].at >= w.n
        BY <3>2, <3>7
      <3>3. PICK p \in PathsOf(Target) : p \in dirty \/ base[p].at >= w.n
        BY <3>2, <3>8 DEF ConflictIsReal
      <3>4. w.n \in 1..Len(mem) /\ Len(mem) \in Nat /\ PathsOf(Target) \subseteq Paths /\ FileTypes
        BY <3>2, Undoing DEF UndoPhases
      <3>5. base'[p] = base[p] \/ base'[p].at = Len(mem)
        BY <3>2, <3>4 DEF FileTypes
      <3>6. p \in dirty' \/ base'[p].at >= w.n
        BY <3>2, <3>3, <3>4, <3>5
      <3> QED BY <3>3, <3>6
    <2>3. CASE UNCHANGED vars
      BY <2>3 DEF ConflictIsReal, Target, Later, PathsOf, vars
    <2> QED BY <2>1, <2>2, <2>3, ToConflict
  <1> QED BY <1>1, <1>2, AgentFilesInvariant, PTL DEF Spec

LEMMA EditsCount == Spec => [](edits \in Nat)
PROOF
  <1>1. Init => edits \in Nat
    BY DEF Init
  <1>2. edits \in Nat /\ [Next]_vars => (edits \in Nat)'
    <2> SUFFICES ASSUME edits \in Nat, [Next]_vars PROVE edits' \in Nat
      OBVIOUS
    <2>1. CASE \E c \in Calls : Begin(c)
      BY <2>1 DEF Begin
    <2>2. CASE Prepare \/ Refuse \/ Backup \/ Write \/ WriteFails \/ Rollback
      BY <2>2 DEF Prepare, Refuse, Backup, Write, WriteFails, Rollback, Counters, OnlyMoves
    <2>3. CASE File \/ Stops \/ Translated \/ FileFails \/ Record \/ RecordFails \/ FileListed
      BY <2>3 DEF File, Stops, Translated, FileFails, Record, RecordFails, FileListed, Counters, OnlyMoves
    <2>4. CASE Undo \/ Verify \/ UndoStops \/ Restore \/ RestorePart \/ Mark \/ End
      BY <2>4 DEF Undo, Verify, UndoStops, Restore, RestorePart, Mark, End, Counters, OnlyMoves
    <2>5. CASE (\E p \in Paths : UserEdits(p)) \/ Crash \/ UNCHANGED vars
      BY <2>5 DEF UserEdits, Crash, vars
    <2> QED BY <2>1, <2>2, <2>3, <2>4, <2>5 DEF Next
  <1> QED BY <1>1, <1>2, PTL DEF Spec

\* Undo overwrites or removes only the content that its event recorded: an edit
\* made after the operation was recorded and before the undo begins is never
\* discarded.  Edits between the write and the record, and under the undo itself,
\* may be (record_file_operation, the verification of the whole group).
THEOREM AgentUndoPreserves == Spec => UndoPreserves
PROOF
  <1> DEFINE A == w.pc = "restoring" /\ edits' = edits =>
                    \A p \in Paths : files'[p] # files[p] =>
                      \/ p \in edited
                      \/ p = Target.path /\ files[p] = Target.post
                      \/ p = Target.to /\ files[p] = Target.toPost
  <1>1. FilesInv /\ edits \in Nat /\ [Next]_vars => [A]_vars
    <2> SUFFICES ASSUME FilesInv, edits \in Nat, [Next]_vars, w.pc = "restoring", edits' = edits,
                        NEW p \in Paths, files'[p] # files[p]
                 PROVE  \/ p \in edited
                        \/ p = Target.path /\ files[p] = Target.post
                        \/ p = Target.to /\ files[p] = Target.toPost
      BY DEF A
    <2>1. RestorePart
      <3>1. ~ (\E c \in Calls : Begin(c)) /\ ~Prepare /\ ~Refuse /\ ~Backup /\ ~Write /\ ~WriteFails
            /\ ~Rollback
        BY DEF Begin, Prepare, Refuse, Backup, Write, WriteFails, Rollback
      <3>2. ~File /\ ~Stops /\ ~Translated /\ ~FileFails /\ ~Record /\ ~RecordFails /\ ~FileListed
        BY DEF File, Stops, Translated, FileFails, Record, RecordFails, FileListed
      <3>3. ~Undo /\ ~Verify /\ ~UndoStops /\ ~Restore /\ ~Mark /\ ~End
        BY DEF Undo, Verify, UndoStops, Restore, Mark, End
      <3>4. ~ (\E q \in Paths : UserEdits(q))
        BY DEF UserEdits
      <3>5. ~Crash /\ ~UNCHANGED vars
        BY DEF Crash, vars
      <3> QED BY <3>1, <3>2, <3>3, <3>4, <3>5 DEF Next
    <2>2. /\ FileTypes /\ PartsLeft /\ StillPosted /\ w.n \in w.targets /\ Target = mem[w.n]
          /\ mem[w.n].to # mem[w.n].path /\ w.n \in 1..Len(mem)
      BY Undoing DEF UndoPhases
    <2>3. p = Head(w.parts)
      BY <2>1, <2>2 DEF RestorePart, FileTypes
    <2>4. IsLeft(p) /\ p \in PathsOf(mem[w.n])
      <3>1. mem[w.n].path \in Paths /\ mem[w.n].to \in Paths \cup {None}
        BY <2>2, EventFields
      <3>2. \/ w.parts = <<mem[w.n].path>>
            \/ w.parts = <<mem[w.n].path, mem[w.n].to>>
            \/ w.parts = <<mem[w.n].to>> /\ mem[w.n].to # None
        BY <2>2 DEF PartsLeft, Parts
      <3> QED BY <2>3, <3>1, <3>2, NoneAssumption DEF IsLeft, PathsOf
    <2>5. files'[p] = Backed(mem[w.n], p)
      BY <2>1, <2>2, <2>3 DEF RestorePart, FileTypes
    <2>6. p \notin edited => files[p] = Post(mem[w.n], p)
      BY <2>2, <2>4, <2>5 DEF StillPosted, Intact
    <2> QED BY <2>2, <2>4, <2>6 DEF Post, PathsOf
  <1> QED BY <1>1, AgentFilesInvariant, EditsCount, PTL DEF Spec, UndoPreserves
=============================================================================
