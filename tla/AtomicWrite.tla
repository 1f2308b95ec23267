----------------------------- MODULE AtomicWrite -----------------------------
(***************************************************************************)
(* write_file_atomically: the writers of one path exclude each other by a  *)
(* lock file beside it, stage the bytes in a file of their own, rename it  *)
(* over the path and read the path back.  A lock older than five minutes   *)
(* is taken for one that a stopped process left and removed; a writer that *)
(* finds a younger one tries again for ten seconds and then gives up.      *)
(*                                                                         *)
(* A writer is a process that writes at most once; its staged file has a   *)
(* name of its own, so only the step that publishes it is visible.  What   *)
(* is written is whatever the caller passes.  Permissions, directories as  *)
(* targets and the two renames of Windows are left out.                    *)
(***************************************************************************)
CONSTANTS
  Writers,
  None      \* no file at the path, no lock

VARIABLES
  target,   \* the content of the path
  lock,     \* the lock file: who created it, whether it is older than five minutes
            \* and whether somebody has tried in vain to remove it
  writer,   \* writer[w]: where the call of w is and what it writes
  aged      \* some lock has outlived the five minutes

Called(content) == [pc |-> "locking", content |-> content]
NotCalled       == [pc |-> "idle", content |-> None]

Staging  == {"staging", "publishing"}
Critical == Staging \cup {"verifying", "releasing", "failing"}
Ends     == {"written", "refused", "failed", "mismatch", "crashed"}

Moves(w, pc) == writer' = [writer EXCEPT ![w].pc = pc]

LockOf(w) == [by |-> w, old |-> FALSE, kept |-> FALSE]

\* Drop for AtomicWriteLock: the lock file goes, whoever created it; that it
\* cannot be removed is ignored.
Drop == lock' \in {None, lock}

-----------------------------------------------------------------------------
(* AtomicWriteLock::acquire *)

\* The lock file cannot be created, or not be written and then not be removed.
CreateLock(w) ==
  /\ writer[w].pc = "locking" /\ lock = None
  /\ \/ Moves(w, "staging") /\ lock' = LockOf(w)
     \/ Moves(w, "failed") /\ lock' \in {None, LockOf(w)}
  /\ UNCHANGED <<target, aged>>

\* lock_is_stale: the lock is looked at now and removed in the next step.
FindStale(w) ==
  /\ writer[w].pc = "locking" /\ lock # None /\ lock.old
  /\ Moves(w, "stale")
  /\ UNCHANGED <<target, lock, aged>>

\* Mutant of Removed: the loop goes on before it removes the stale lock.
NotRemoved == lock

Removed == None

\* Whichever lock is there by now is removed.  If that fails the writer tries at
\* once again, without a pause and with no regard to its deadline.
RemoveStale(w) ==
  /\ writer[w].pc = "stale"
  /\ \/ lock' = Removed
     \/ lock # None /\ lock' = [lock EXCEPT !.kept = TRUE]
  /\ Moves(w, "locking")
  /\ UNCHANGED <<target, aged>>

GiveUp(w) ==
  /\ writer[w].pc = "locking" /\ lock # None /\ ~lock.old
  /\ Moves(w, "refused")
  /\ UNCHANGED <<target, lock, aged>>

-----------------------------------------------------------------------------
(* With the lock *)

Stage(w) ==
  /\ writer[w].pc = "staging"
  /\ \E next \in {"publishing", "failing"} : Moves(w, next)
  /\ UNCHANGED <<target, lock, aged>>

\* Mutant of Publish: the lock is dropped when the file is in place.
PublishAndDrop(w) ==
  /\ writer[w].pc = "publishing"
  /\ target' = writer[w].content /\ lock' = None
  /\ Moves(w, "verifying")
  /\ UNCHANGED aged

Publish(w) ==
  /\ writer[w].pc = "publishing"
  /\ \/ Moves(w, "verifying") /\ target' = writer[w].content
     \/ Moves(w, "failing") /\ UNCHANGED target
  /\ UNCHANGED <<lock, aged>>

\* The path is read back; an error drops the lock on the way out.
Verify(w) ==
  /\ writer[w].pc = "verifying"
  /\ \/ Moves(w, "failing") /\ UNCHANGED lock
     \/ target = writer[w].content /\ Moves(w, "releasing") /\ UNCHANGED lock
     \/ target # writer[w].content /\ Moves(w, "mismatch") /\ Drop
  /\ UNCHANGED <<target, aged>>

\* The directory is synchronised afterwards, which may fail.
Release(w) ==
  /\ writer[w].pc \in {"releasing", "failing"}
  /\ Drop
  /\ \/ Moves(w, "failed")
     \/ writer[w].pc = "releasing" /\ Moves(w, "written")
  /\ UNCHANGED <<target, aged>>

Write(w) ==
  \/ CreateLock(w) \/ FindStale(w) \/ RemoveStale(w) \/ GiveUp(w)
  \/ Stage(w) \/ Publish(w) \/ Verify(w) \/ Release(w)

-----------------------------------------------------------------------------
(* The environment *)

\* The process stops: what it holds stays.
StopWriter(w) ==
  /\ writer[w].pc \notin Ends
  /\ Moves(w, "crashed")
  /\ UNCHANGED <<target, lock, aged>>

\* Five minutes pass, the process that holds the lock has stopped or is slow.
Age ==
  /\ lock # None /\ ~lock.old
  /\ lock' = [lock EXCEPT !.old = TRUE] /\ aged' = TRUE
  /\ UNCHANGED <<target, writer>>

-----------------------------------------------------------------------------
(* Properties *)

\* As long as no lock has outlived the five minutes, one writer at a time is
\* between the creation of its lock and its release, and none finds another
\* content than its own when it reads the path back.
WritersExclude ==
  ~aged => /\ \A v, w \in Writers :
                writer[v].pc \in Critical /\ writer[w].pc \in Critical => v = w
           /\ \A w \in Writers : writer[w].pc # "mismatch"
=============================================================================
