---------------------------- MODULE LinkProcess ----------------------------
(***************************************************************************)
(* The life of a link as seen from outside: the process that the user      *)
(* started, the child that it forks (libjdxld/src/subprocess.rs), the link *)
(* in the child (libjdxld/src/lib.rs) and the tasks that replace the       *)
(* output file in the background (libjdxld/src/file_writer.rs, fs.rs).     *)
(*                                                                         *)
(* Several links may run, to different outputs at once, to one output one  *)
(* after the other: the second starts when the first one's parent has      *)
(* exited, which may be before the first one's child has.                  *)
(*                                                                         *)
(* Abstractions.  A file is an inode with its content ("old", or half or   *)
(* completely written by a link) and its executable bit.  Reading inputs,  *)
(* resolution and layout are one step each, which may fail.  A panic is a  *)
(* failure of its step.                                                    *)
(***************************************************************************)
EXTENDS Integers, FiniteSets

CONSTANTS Paths,       \* names in the output directory
          WithDelete,  \* [Paths -> Paths]: path.with_extension("delete")
          Setups,      \* what the links are and how they may fail
          None

(* links: numbers; output: the path of each; existing: the paths at which  *)
(* there is a file to begin with, busy: those that are being executed,     *)
(* read_only: those that cannot be opened for writing; mode and write_mode *)
(* and available_threads of each link; forking: those that want a child    *)
(* and whose fork() succeeds; failures: the steps that may fail, rename    *)
(* and remove being the file system's refusal to rename or remove a file,  *)
(* as in a directory that is not writable; killable: links whose process   *)
(* may die of a signal.                                                    *)
IsSetup(s) ==
  /\ s.links \subseteq Nat \ {0} /\ IsFiniteSet(s.links) /\ None \notin s.links
  /\ s.output \in [s.links -> Paths]
  /\ s.existing \subseteq Paths /\ s.busy \subseteq s.existing /\ s.read_only \subseteq s.existing
  /\ s.mode \in [s.links -> {"UnlinkAndReplace", "UpdateInPlace", "UpdateInPlaceWithFallback"}]
  /\ s.write_mode \in [s.links -> {"Mmap", "BufferThenWrite"}]
  /\ s.threads \in [s.links -> Nat \ {0}]
  /\ s.forking \subseteq s.links /\ s.killable \subseteq s.links
  /\ s.failures \subseteq {"load", "layout", "layout_file", "create", "write", "flush", "verify",
                           "depfile", "rename", "remove"}

ASSUME LinkProcessAssumption ==
  /\ WithDelete \in [Paths -> Paths] /\ None \notin Paths
  /\ None \notin Nat /\ Paths \cap Nat = {}
  /\ \A s \in Setups : IsSetup(s)

VARIABLE setup  \* the member of Setups

Links == setup.links
OutputPath == setup.output
Existing == setup.existing
Busy == setup.busy
ReadOnly == setup.read_only
Mode == setup.mode
WriteMode == setup.write_mode
Threads == setup.threads
Forking == setup.forking
Failures == setup.failures
Killable == setup.killable

(* Inode p is the file that is at path p to begin with; inode l is the one *)
(* that link l creates.                                                    *)
Inodes == Existing \cup Links

Old == <<0, "old">>
Contents == {Old} \cup (Links \X {"partial", "complete"})

(* What wait() reports of a process, as the operating system encodes it. *)
Exited(exit_code) == exit_code * 256
SIGBUS == 7
Statuses == {Exited(0), Exited(255), SIGBUS}

VARIABLES
  parent,     \* process the user started: "unstarted", "waiting", "linking", "exited"
  code,       \* its wait status, None while it runs
  main,       \* main thread of the process that links, see Steps
  status,     \* the wait status of that process, None while it runs
  ok,         \* the Result of load_inputs_and_link is Ok so far
  pipe,       \* "open", "byte" (written), "closed"
  creator,    \* "none", "renaming", "opening", "sent", "failed", "gone"
  deleter,    \* task that removes the renamed file: "none", "pending", "done", "gone"
  buffer,     \* inode behind the output buffer
  kept,       \* history: links for which an old output stayed where it was, because
              \* renaming or removing it failed
  dir,        \* [Paths -> Inodes \cup {None}]
  content,    \* [Inodes -> Contents]
  executable  \* the inodes with the executable bit

vars == <<parent, code, main, status, ok, pipe, creator, deleter, buffer, kept, dir,
          content, executable>>
files == <<dir, content, executable>>
tasks == <<creator, deleter, buffer, kept>>

Steps == {"none", "loading", "layout", "layout_file", "removing", "creating", "receiving", "writing",
          "flushing", "verifying", "depfile", "informing", "dropping", "ended"}

Init ==
  /\ setup \in Setups
  /\ parent = [l \in Links |-> "unstarted"]
  /\ code = [l \in Links |-> None]
  /\ main = [l \in Links |-> "none"]
  /\ status = [l \in Links |-> None]
  /\ ok = [l \in Links |-> TRUE]
  /\ pipe = [l \in Links |-> "open"]
  /\ creator = [l \in Links |-> "none"]
  /\ deleter = [l \in Links |-> "none"]
  /\ buffer = [l \in Links |-> None]
  /\ kept = {}
  /\ dir = [p \in Paths |-> IF p \in Existing THEN p ELSE None]
  /\ content = [i \in Inodes |-> Old]
  /\ executable = Existing

-----------------------------------------------------------------------------
(* Starting a link.                                                        *)

(* Links to one output are started one after the other. *)
MayStart(l) ==
  /\ parent[l] = "unstarted"
  /\ \A k \in Links : k < l /\ OutputPath[k] = OutputPath[l] => parent[k] = "exited"

(* subprocess_result: fork() succeeds and the parent waits for the child. *)
Fork(l) ==
  /\ MayStart(l) /\ l \in Forking
  /\ parent' = [parent EXCEPT ![l] = "waiting"]
  /\ main' = [main EXCEPT ![l] = "loading"]
  /\ UNCHANGED <<code, status, ok, pipe, tasks, files>>

(* fork() fails, or is not wanted: the link runs in the process itself. *)
RunInProcess(l) ==
  /\ MayStart(l) /\ l \notin Forking
  /\ parent' = [parent EXCEPT ![l] = "linking"]
  /\ main' = [main EXCEPT ![l] = "loading"]
  /\ UNCHANGED <<code, status, ok, pipe, tasks, files>>

-----------------------------------------------------------------------------
(* link_for_arch and load_inputs_and_link.                                 *)

(* The main thread goes from one step to another. *)
Goes(l, from, to) == main[l] = from /\ main' = [main EXCEPT ![l] = to]

(* An error in load_inputs_and_link: it is returned, but the inputs are    *)
(* still checked for changes.                                              *)
Fails(l, from) == Goes(l, from, "verifying") /\ ok' = [ok EXCEPT ![l] = FALSE]

LoadInputs(l) ==
  /\ \/ Goes(l, "loading", "layout") /\ UNCHANGED ok
     \/ "load" \in Failures /\ Fails(l, "loading")
  /\ UNCHANGED <<parent, code, status, pipe, tasks, files>>

(* Mutant: one thread is enough for a background task. *)
BackgroundAlways(l) == TRUE

(* Output::new: with one thread, the file is created when it is needed. *)
InBackground(l) == Threads[l] > 1

(* layout::compute, which ends with Output::set_size: the task that        *)
(* creates the output is spawned.                                          *)
LayOut(l) ==
  /\ \/ /\ Goes(l, "layout", "layout_file")
        /\ creator' = IF InBackground(l) THEN [creator EXCEPT ![l] = "renaming"] ELSE creator
        /\ UNCHANGED ok
     \/ "layout" \in Failures /\ Fails(l, "layout") /\ UNCHANGED creator
  /\ UNCHANGED <<parent, code, status, pipe, deleter, buffer, kept, files>>

(* write_layout, if it is asked for *)
WriteLayoutFile(l) ==
  /\ \/ /\ Goes(l, "layout_file", IF InBackground(l) THEN "receiving" ELSE "removing")
        /\ UNCHANGED ok
     \/ "layout_file" \in Failures /\ Fails(l, "layout_file")
  /\ UNCHANGED <<parent, code, status, pipe, tasks, files>>

(* A background task needs a thread: while the main thread waits it has    *)
(* the only one of a pool of one.                                          *)
HasThread(l) == Threads[l] > 1 \/ main[l] # "receiving"

(* Mutant: an old output is not renamed. *)
RenameNothing(l) ==
  /\ creator[l] = "renaming" /\ HasThread(l)
  /\ creator' = [creator EXCEPT ![l] = "opening"]
  /\ UNCHANGED <<parent, code, main, status, ok, pipe, deleter, buffer, kept, files>>

(* The old output is renamed, and its removal is left to another task.     *)
(* When it cannot be renamed, the link goes on with the file in place.     *)
RenameOld(l) ==
  LET path == OutputPath[l]
      old == WithDelete[path]
  IN /\ creator[l] = "renaming" /\ HasThread(l)
     /\ creator' = [creator EXCEPT ![l] = "opening"]
     /\ IF Mode[l] = "UnlinkAndReplace" /\ dir[path] # None
        THEN \/ /\ dir' = [[dir EXCEPT ![path] = None] EXCEPT ![old] = dir[path]]
                /\ deleter' = [deleter EXCEPT ![l] = "pending"]
                /\ UNCHANGED kept
             \/ /\ "rename" \in Failures
                /\ kept' = kept \cup {l}
                /\ UNCHANGED <<dir, deleter>>
        ELSE UNCHANGED <<dir, deleter, kept>>
     /\ UNCHANGED <<parent, code, main, status, ok, pipe, buffer, content, executable>>

(* Mutant: the task removes the path that it was given first. *)
RemoveOutputLate(l) ==
  /\ deleter[l] = "pending" /\ HasThread(l)
  /\ deleter' = [deleter EXCEPT ![l] = "done"]
  /\ dir' = [dir EXCEPT ![OutputPath[l]] = None]
  /\ UNCHANGED <<parent, code, main, status, ok, pipe, creator, buffer, kept, content, executable>>

(* The result of the removal is not looked at. *)
RemoveOld(l) ==
  /\ deleter[l] = "pending" /\ HasThread(l)
  /\ deleter' = [deleter EXCEPT ![l] = "done"]
  /\ \/ dir' = [dir EXCEPT ![WithDelete[OutputPath[l]]] = None]
     \/ "remove" \in Failures /\ UNCHANGED dir
  /\ UNCHANGED <<parent, code, main, status, ok, pipe, creator, buffer, kept, content, executable>>

(* The file that create_output opens: the one at the path, or a new one.   *)
(* A file that is being executed may be unlinked first.                    *)
OpenedInode(l) ==
  LET i == dir[OutputPath[l]] IN
  CASE i = None -> l
    [] i \in ReadOnly -> None
    [] i \in Busy /\ i \notin ReadOnly ->
         IF Mode[l] = "UpdateInPlaceWithFallback" THEN l ELSE None
    [] OTHER -> i

(* FileSystem::create_output: open, create or truncate, and set the size.  *)
(* Reserving space or mapping may fail when the file is already open, and  *)
(* so may unlinking a file that is being executed.                         *)
CreateOutput(l, created) ==
  LET i == OpenedInode(l)
      unlinks == dir[OutputPath[l]] \in Busy /\ i = l
  IN \/ /\ created => i # None
        /\ i # None /\ ~created => "create" \in Failures
        /\ IF i = None THEN UNCHANGED <<dir, content>>
           ELSE /\ dir' = [dir EXCEPT ![OutputPath[l]] = i]
                /\ content' = [content EXCEPT ![i] = <<l, "partial">>]
        /\ buffer' = IF created THEN [buffer EXCEPT ![l] = i] ELSE buffer
     \/ /\ ~created /\ unlinks /\ "remove" \in Failures
        /\ UNCHANGED <<dir, content, buffer>>

CreateInBackground(l) ==
  /\ creator[l] = "opening" /\ HasThread(l)
  /\ \E created \in BOOLEAN :
       /\ CreateOutput(l, created)
       /\ creator' = [creator EXCEPT ![l] = IF created THEN "sent" ELSE "failed"]
  /\ UNCHANGED <<parent, code, main, status, ok, pipe, deleter, kept, executable>>

(* wait_for_sized_output *)
ReceiveOutput(l) ==
  /\ \/ creator[l] = "sent" /\ Goes(l, "receiving", "writing") /\ UNCHANGED ok
     \/ creator[l] = "failed" /\ Fails(l, "receiving")
  /\ UNCHANGED <<parent, code, status, pipe, tasks, files>>

(* delete_old_output, when there is one thread, whose result is not looked *)
(* at                                                                      *)
RemoveOutput(l) ==
  /\ Goes(l, "removing", "creating")
  /\ \/ dir' = [dir EXCEPT ![OutputPath[l]] = None] /\ UNCHANGED kept
     \/ /\ "remove" \in Failures /\ dir[OutputPath[l]] # None
        /\ kept' = kept \cup {l}
        /\ UNCHANGED dir
  /\ UNCHANGED <<parent, code, status, ok, pipe, creator, deleter, buffer, content, executable>>

(* create_file_non_lazily *)
CreateNow(l) ==
  /\ \/ CreateOutput(l, TRUE) /\ Goes(l, "creating", "writing") /\ UNCHANGED ok
     \/ CreateOutput(l, FALSE) /\ Fails(l, "creating")
  /\ UNCHANGED <<parent, code, status, pipe, creator, deleter, kept, executable>>

(* write_fn: the sections are written to the buffer. *)
WriteOutput(l) ==
  /\ \/ /\ Goes(l, "writing", "flushing")
        /\ content' = IF WriteMode[l] = "Mmap"
                      THEN [content EXCEPT ![buffer[l]] = <<l, "complete">>] ELSE content
        /\ UNCHANGED ok
     \/ "write" \in Failures /\ Fails(l, "writing") /\ UNCHANGED content
  /\ UNCHANGED <<parent, code, status, pipe, tasks, dir, executable>>

(* OsOutputFile::finish: a buffer that is not mapped is written to the     *)
(* file; then the file is made executable, if that works.                  *)
FlushOutput(l) ==
  /\ \/ /\ Goes(l, "flushing", "verifying")
        /\ content' = [content EXCEPT ![buffer[l]] = <<l, "complete">>]
        /\ \E able \in BOOLEAN :
             executable' = IF able THEN executable \cup {buffer[l]} ELSE executable
        /\ UNCHANGED ok
     \/ /\ "flush" \in Failures /\ WriteMode[l] = "BufferThenWrite"
        /\ Fails(l, "flushing")
        /\ UNCHANGED <<content, executable>>
  /\ UNCHANGED <<parent, code, status, pipe, tasks, dir>>

(* verify_inputs_unchanged: a changed input takes precedence over the      *)
(* result of the link, either is an error.                                 *)
VerifyInputs(l) ==
  /\ \/ ok[l] /\ Goes(l, "verifying", "depfile") /\ UNCHANGED ok
     \/ ~ok[l] /\ Goes(l, "verifying", "dropping") /\ UNCHANGED ok
     \/ /\ "verify" \in Failures
        /\ Goes(l, "verifying", "dropping") /\ ok' = [ok EXCEPT ![l] = FALSE]
  /\ UNCHANGED <<parent, code, status, pipe, tasks, files>>

WriteDependencyFile(l) ==
  /\ \/ Goes(l, "depfile", "informing") /\ UNCHANGED ok
     \/ /\ "depfile" \in Failures
        /\ Goes(l, "depfile", "dropping") /\ ok' = [ok EXCEPT ![l] = FALSE]
  /\ UNCHANGED <<parent, code, status, pipe, tasks, files>>

(* inform_parent_done; without a parent there is nothing to do. *)
InformParent(l) ==
  /\ Goes(l, "informing", "dropping")
  /\ pipe' = IF parent[l] = "linking" THEN pipe ELSE [pipe EXCEPT ![l] = "byte"]
  /\ UNCHANGED <<parent, code, status, ok, tasks, files>>

-----------------------------------------------------------------------------
(* How a link ends.                                                        *)

(* A process and all its tasks end; its side of the pipe is closed.        *)
Ends(l, how) ==
  /\ main' = [main EXCEPT ![l] = "ended"]
  /\ status' = [status EXCEPT ![l] = how]
  /\ pipe' = [pipe EXCEPT ![l] = IF @ = "open" THEN "closed" ELSE @]
  /\ creator' = [creator EXCEPT ![l] = "gone"]
  /\ deleter' = [deleter EXCEPT ![l] = "gone"]
  /\ IF parent[l] = "linking"
     THEN parent' = [parent EXCEPT ![l] = "exited"] /\ code' = [code EXCEPT ![l] = how]
     ELSE UNCHANGED <<parent, code>>
  /\ UNCHANGED <<ok, buffer, kept, files>>

(* The linker is dropped and the process exits; tasks that are still       *)
(* running are not waited for.                                             *)
Exit(l) == main[l] = "dropping" /\ Ends(l, Exited(IF ok[l] THEN 0 ELSE 255))

(* A signal, such as SIGBUS on a mapping that the disk has no space for. *)
Kill(l) == l \in Killable /\ main[l] \notin {"none", "ended"} /\ Ends(l, SIGBUS)

(* libc::WEXITSTATUS *)
WEXITSTATUS(wait_status) == (wait_status \div 256) % 256

(* wait_for_child_done *)
ParentReads(l) ==
  /\ parent[l] = "waiting"
  /\ \/ pipe[l] = "byte" /\ code' = [code EXCEPT ![l] = Exited(0)]
     \/ pipe[l] = "closed" /\ code' = [code EXCEPT ![l] = Exited(WEXITSTATUS(status[l]))]
  /\ parent' = [parent EXCEPT ![l] = "exited"]
  /\ UNCHANGED <<main, status, ok, pipe, tasks, files>>

MainStep(l) ==
  \/ Fork(l) \/ RunInProcess(l) \/ LoadInputs(l) \/ LayOut(l) \/ WriteLayoutFile(l) \/ ReceiveOutput(l)
  \/ RemoveOutput(l) \/ CreateNow(l) \/ WriteOutput(l) \/ FlushOutput(l)
  \/ VerifyInputs(l) \/ WriteDependencyFile(l) \/ InformParent(l) \/ Exit(l)

TaskStep(l) == RenameOld(l) \/ RemoveOld(l) \/ CreateInBackground(l)

AllEnded == (\A l \in Links : parent[l] = "exited" /\ main[l] = "ended") /\ UNCHANGED vars

Next ==
  /\ (\E l \in Links : MainStep(l) \/ TaskStep(l) \/ ParentReads(l) \/ Kill(l)) \/ AllEnded
  /\ UNCHANGED setup

Spec == Init /\ [][Next]_<<setup, vars>>

(* The operating system runs all processes, rayon all tasks. *)
AllLinks == UNION {s.links : s \in Setups}
Fairness ==
  \A l \in AllLinks : /\ WF_vars(l \in Links /\ MainStep(l))
                      /\ WF_vars(l \in Links /\ TaskStep(l))
                      /\ WF_vars(l \in Links /\ ParentReads(l))

FairSpec == Spec /\ Fairness
-----------------------------------------------------------------------------
TypeOK ==
  /\ parent \in [Links -> {"unstarted", "waiting", "linking", "exited"}]
  /\ code \in [Links -> Statuses \cup {None}]
  /\ main \in [Links -> Steps]
  /\ status \in [Links -> Statuses \cup {None}]
  /\ ok \in [Links -> BOOLEAN]
  /\ pipe \in [Links -> {"open", "byte", "closed"}]
  /\ creator \in [Links -> {"none", "renaming", "opening", "sent", "failed", "gone"}]
  /\ deleter \in [Links -> {"none", "pending", "done", "gone"}]
  /\ buffer \in [Links -> Inodes \cup {None}]
  /\ kept \subseteq Links
  /\ dir \in [Paths -> Inodes \cup {None}]
  /\ content \in [Inodes -> Contents]
  /\ executable \subseteq Inodes

(* No other link to the same output has begun since. *)
Latest(l) == \A k \in Links : k > l /\ OutputPath[k] = OutputPath[l] => parent[k] = "unstarted"

(* An exit code of zero means that no step failed and that the output is   *)
(* there and completely written by this link, although the child and its   *)
(* tasks may still be running, and whatever they still do.                 *)
SuccessMeansComplete ==
  \A l \in Links : code[l] = Exited(0) =>
    /\ ok[l]
    /\ Latest(l) => LET i == dir[OutputPath[l]] IN i # None /\ content[i] = <<l, "complete">>

(* A link that puts a new file in the place of the old one, and was able   *)
(* to get the old one out of the way.                                      *)
Replaces(l) == Mode[l] = "UnlinkAndReplace" /\ l \notin kept

(* Replacing the output leaves the old file alone, for those who have it   *)
(* open or have another hard link to it, and a new file is not executable  *)
(* while it is half written: nobody runs a broken program under the old    *)
(* name.  The links of kept are excluded: when the old file cannot be       *)
(* renamed or removed, the code truncates and overwrites that very file.   *)
OldFileUntouched ==
  \A l \in Links : Replaces(l) =>
    /\ \A p \in Existing : content[p][1] # l
    /\ \A i \in executable : content[i] # <<l, "partial">>

(* Every link comes to an end. *)
AllExit == <>(\A l \in Links : parent[l] = "exited" /\ main[l] = "ended")

=============================================================================
