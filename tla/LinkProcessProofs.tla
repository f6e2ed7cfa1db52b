------------------------- MODULE LinkProcessProofs -------------------------
(***************************************************************************)
(* What the processes and background tasks of any number of links promise  *)
(* of the output files, for all setups.                                    *)
(***************************************************************************)
EXTENDS LinkProcess, TLAPS

(* No link writes to a file with the name under which another one, or the  *)
(* link itself, puts a replaced file aside.                                *)
OutputsAreNotTemporary ==
  \A k, l \in Links : WithDelete[OutputPath[k]] # OutputPath[l]

SetupOK == setup \in Setups

(* The parts of a setup. *)
LEMMA SetupParts ==
  ASSUME SetupOK
  PROVE  /\ Links \subseteq Nat \ {0} /\ None \notin Links /\ Paths \cap Links = {}
         /\ OutputPath \in [Links -> Paths] /\ Existing \subseteq Paths
         /\ Mode \in [Links -> {"UnlinkAndReplace", "UpdateInPlace", "UpdateInPlaceWithFallback"}]
         /\ None \notin Inodes /\ Links \subseteq Inodes /\ Existing \subseteq Inodes
         /\ None \notin ReadOnly /\ None \notin Busy
  BY LinkProcessAssumption
     DEF SetupOK, IsSetup, Links, OutputPath, Existing, Mode, Inodes, ReadOnly, Busy

(* The setup stays. *)
LEMMA SetupStays ==
  ASSUME UNCHANGED setup
  PROVE  /\ Links' = Links /\ OutputPath' = OutputPath /\ Existing' = Existing /\ Mode' = Mode
         /\ Inodes' = Inodes /\ Contents' = Contents /\ Forking' = Forking /\ Killable' = Killable
         /\ Threads' = Threads
  BY DEF Links, OutputPath, Existing, Mode, Inodes, Contents, Forking, Killable, Threads

(* What wait() reports are numbers, and how the parent reads them. *)
LEMMA StatusNumbers ==
  /\ Statuses = {0, 65280, 7} /\ Exited(0) = 0 /\ Exited(255) = 65280 /\ SIGBUS = 7
  /\ None \notin Statuses
  /\ WEXITSTATUS(0) = 0 /\ WEXITSTATUS(7) = 0 /\ WEXITSTATUS(65280) = 255
<1>1. Statuses = {0, 65280, 7} /\ Exited(0) = 0 /\ Exited(255) = 65280 /\ SIGBUS = 7
  BY DEF Statuses, Exited, SIGBUS
<1>2. None \notin Statuses
  BY <1>1, LinkProcessAssumption
<1>3. 0 \div 256 = 0 /\ 7 \div 256 = 0 /\ 65280 \div 256 = 255 /\ 0 % 256 = 0 /\ 255 % 256 = 255
  OBVIOUS
<1>4. WEXITSTATUS(0) = 0 /\ WEXITSTATUS(7) = 0 /\ WEXITSTATUS(65280) = 255
  BY <1>3 DEF WEXITSTATUS
<1> QED
  BY <1>1, <1>2, <1>4

(* The file that a link opens is a new one or the one at its path. *)
LEMMA Opened ==
  ASSUME SetupOK, NEW l \in Links
  PROVE  /\ OpenedInode(l) \in {None, l, dir[OutputPath[l]]}
         /\ dir[OutputPath[l]] = None => OpenedInode(l) = l
<1> DEFINE i == dir[OutputPath[l]]
<1>1. None \notin ReadOnly /\ None \notin Busy
  BY SetupParts
<1>2. CASE i = None
  BY <1>1, <1>2 DEF OpenedInode
<1>3. CASE i \in ReadOnly
  BY <1>1, <1>3 DEF OpenedInode
<1>4. CASE i \in Busy /\ i \notin ReadOnly
  BY <1>1, <1>4 DEF OpenedInode
<1>5. CASE i # None /\ i \notin ReadOnly /\ ~(i \in Busy /\ i \notin ReadOnly)
  BY <1>5 DEF OpenedInode
<1> QED
  BY <1>2, <1>3, <1>4, <1>5

-----------------------------------------------------------------------------
(* Types *)

(* Initially all is well typed. *)
LEMMA TypeInit == Init => TypeOK /\ SetupOK
<1> SUFFICES ASSUME Init PROVE TypeOK /\ SetupOK
  OBVIOUS
<1>1. SetupOK
  BY DEF Init, SetupOK
<1>2. dir \in [Paths -> Inodes \cup {None}] /\ content \in [Inodes -> Contents]
  BY <1>1, SetupParts DEF Init, Contents
<1> QED
  BY <1>1, <1>2, SetupParts DEF Init, TypeOK, Steps

(* Creating an output keeps the files well typed. *)
LEMMA CreateType ==
  ASSUME TypeOK, SetupOK, NEW l \in Links, NEW created \in BOOLEAN, CreateOutput(l, created)
  PROVE  /\ buffer' \in [Links -> Inodes \cup {None}]
         /\ dir' \in [Paths -> Inodes \cup {None}]
         /\ content' \in [Inodes -> Contents]
<1>1. OutputPath[l] \in Paths /\ l \in Inodes /\ dir[OutputPath[l]] \in Inodes \cup {None}
  BY SetupParts DEF TypeOK
<1>2. OpenedInode(l) \in Inodes \cup {None}
  BY <1>1, Opened
<1>3. <<l, "partial">> \in Contents
  BY DEF Contents
<1>4. dir' = dir \/ dir' = [dir EXCEPT ![OutputPath[l]] = OpenedInode(l)]
  BY DEF CreateOutput
<1>5. content' = content \/ content' = [content EXCEPT ![OpenedInode(l)] = <<l, "partial">>]
  BY DEF CreateOutput
<1>6. buffer' = buffer \/ buffer' = [buffer EXCEPT ![l] = OpenedInode(l)]
  BY DEF CreateOutput
<1>7. dir' \in [Paths -> Inodes \cup {None}]
  BY <1>1, <1>2, <1>4 DEF TypeOK
<1>8. content' \in [Inodes -> Contents]
  BY <1>3, <1>5 DEF TypeOK
<1>9. buffer' \in [Links -> Inodes \cup {None}]
  BY <1>2, <1>6 DEF TypeOK
<1> QED
  BY <1>7, <1>8, <1>9

(* Ending a process keeps the types. *)
LEMMA EndsType ==
  ASSUME TypeOK, NEW l \in Links, NEW how \in Statuses, Ends(l, how), UNCHANGED setup
  PROVE  TypeOK'
<1>1. /\ parent' \in [Links -> {"unstarted", "waiting", "linking", "exited"}]
      /\ code' \in [Links -> Statuses \cup {None}]
  BY DEF TypeOK, Ends
<1>2. /\ main' \in [Links -> Steps]
      /\ status' \in [Links -> Statuses \cup {None}]
  BY DEF TypeOK, Ends, Steps
<1>3. /\ pipe' \in [Links -> {"open", "byte", "closed"}]
      /\ creator' \in [Links -> {"none", "renaming", "opening", "sent", "failed", "gone"}]
      /\ deleter' \in [Links -> {"none", "pending", "done", "gone"}]
  BY DEF TypeOK, Ends
<1>4. UNCHANGED <<ok, buffer, kept, dir, content, executable>>
  BY DEF Ends, files
<1> QED
  BY <1>1, <1>2, <1>3, <1>4, SetupStays DEF TypeOK

(* Every step keeps the types. *)
LEMMA TypeStep ==
  ASSUME TypeOK, SetupOK, [Next]_<<setup, vars>>,
         \A l \in Links : main[l] \in {"writing", "flushing"} => buffer[l] \in Inodes,
         \A l \in Links : pipe[l] = "closed" => status[l] \in Statuses
  PROVE  TypeOK' /\ SetupOK'
<1>0. SetupOK' /\ UNCHANGED setup
  BY DEF SetupOK, Next
<1> USE DEF tasks, files
<1>1. ASSUME NEW l \in Links, Fork(l) \/ RunInProcess(l) PROVE TypeOK'
  BY <1>1, <1>0, SetupStays DEF Fork, RunInProcess, MayStart, TypeOK, Steps
<1>2. ASSUME NEW l \in Links,
             \/ LoadInputs(l) \/ WriteLayoutFile(l) \/ ReceiveOutput(l) \/ VerifyInputs(l)
             \/ WriteDependencyFile(l)
      PROVE  TypeOK'
  <2>1. /\ main' \in [Links -> Steps] /\ ok' \in [Links -> BOOLEAN]
        /\ UNCHANGED <<parent, code, status, pipe, creator, deleter, buffer, kept, dir, content,
                       executable>>
    BY <1>2 DEF LoadInputs, WriteLayoutFile, ReceiveOutput, VerifyInputs, WriteDependencyFile,
                Goes, Fails, TypeOK, Steps
  <2> QED
    BY <2>1, <1>0, SetupStays DEF TypeOK
<1>3. ASSUME NEW l \in Links, LayOut(l) PROVE TypeOK'
  <2>1. /\ main' \in [Links -> Steps] /\ ok' \in [Links -> BOOLEAN]
        /\ creator' \in [Links -> {"none", "renaming", "opening", "sent", "failed", "gone"}]
        /\ UNCHANGED <<parent, code, status, pipe, deleter, buffer, kept, dir, content, executable>>
    BY <1>3, ZenonT(60) DEF LayOut, Goes, Fails, TypeOK, Steps
  <2> QED
    BY <2>1, <1>0, SetupStays DEF TypeOK
<1>4. ASSUME NEW l \in Links, RenameOld(l) PROVE TypeOK'
  <2>1. OutputPath[l] \in Paths /\ WithDelete[OutputPath[l]] \in Paths
    BY SetupParts, LinkProcessAssumption
  <2>2. /\ creator' \in [Links -> {"none", "renaming", "opening", "sent", "failed", "gone"}]
        /\ deleter' \in [Links -> {"none", "pending", "done", "gone"}]
        /\ kept' \subseteq Links
        /\ UNCHANGED <<parent, code, main, status, ok, pipe, buffer, content, executable>>
    BY <1>4 DEF RenameOld, TypeOK
  <2>3. dir' \in [Paths -> Inodes \cup {None}]
    BY <1>4, <2>1 DEF RenameOld, TypeOK
  <2> QED
    BY <2>2, <2>3, <1>0, SetupStays DEF TypeOK
<1>5. ASSUME NEW l \in Links, RemoveOld(l) \/ RemoveOutput(l) PROVE TypeOK'
  <2>1. OutputPath[l] \in Paths /\ WithDelete[OutputPath[l]] \in Paths
    BY SetupParts, LinkProcessAssumption
  <2>2. /\ deleter' \in [Links -> {"none", "pending", "done", "gone"}]
        /\ main' \in [Links -> Steps]
        /\ kept' \subseteq Links
        /\ UNCHANGED <<parent, code, status, ok, pipe, creator, buffer, content, executable>>
    BY <1>5 DEF RemoveOld, RemoveOutput, Goes, TypeOK, Steps
  <2>3. dir' \in [Paths -> Inodes \cup {None}]
    BY <1>5, <2>1 DEF RemoveOld, RemoveOutput, TypeOK
  <2> QED
    BY <2>2, <2>3, <1>0, SetupStays DEF TypeOK
<1>6. ASSUME NEW l \in Links, CreateInBackground(l) PROVE TypeOK'
  <2>1. PICK created \in BOOLEAN :
          /\ CreateOutput(l, created)
          /\ creator' = [creator EXCEPT ![l] = IF created THEN "sent" ELSE "failed"]
    BY <1>6 DEF CreateInBackground
  <2>2. creator' \in [Links -> {"none", "renaming", "opening", "sent", "failed", "gone"}]
    BY <2>1 DEF TypeOK
  <2>3. UNCHANGED <<parent, code, main, status, ok, pipe, deleter, kept, executable>>
    BY <1>6 DEF CreateInBackground
  <2> QED
    BY <2>1, <2>2, <2>3, <1>0, CreateType, SetupStays DEF TypeOK
<1>7. ASSUME NEW l \in Links, CreateNow(l) PROVE TypeOK'
  <2>1. PICK created \in BOOLEAN : CreateOutput(l, created)
    BY <1>7 DEF CreateNow
  <2>2. /\ main' \in [Links -> Steps] /\ ok' \in [Links -> BOOLEAN]
        /\ UNCHANGED <<parent, code, status, pipe, creator, deleter, kept, executable>>
    BY <1>7 DEF CreateNow, Goes, Fails, TypeOK, Steps
  <2> QED
    BY <2>1, <2>2, <1>0, CreateType, SetupStays DEF TypeOK
<1>8. ASSUME NEW l \in Links, WriteOutput(l) \/ FlushOutput(l) PROVE TypeOK'
  <2>0. buffer[l] \in Inodes
    BY <1>8 DEF WriteOutput, FlushOutput, Goes, Fails
  <2>1. <<l, "complete">> \in Contents
    BY DEF Contents
  <2>2. /\ content' = content \/ content' = [content EXCEPT ![buffer[l]] = <<l, "complete">>]
        /\ executable' = executable \/ executable' = executable \cup {buffer[l]}
    BY <1>8 DEF WriteOutput, FlushOutput
  <2>3. content' \in [Inodes -> Contents] /\ executable' \subseteq Inodes
    BY <2>0, <2>1, <2>2 DEF TypeOK
  <2>4. /\ main' \in [Links -> Steps] /\ ok' \in [Links -> BOOLEAN]
        /\ UNCHANGED <<parent, code, status, pipe, creator, deleter, buffer, kept, dir>>
    BY <1>8 DEF WriteOutput, FlushOutput, Goes, Fails, TypeOK, Steps
  <2> QED
    BY <2>3, <2>4, <1>0, SetupStays DEF TypeOK
<1>9. ASSUME NEW l \in Links, InformParent(l) PROVE TypeOK'
  <2>1. /\ main' \in [Links -> Steps] /\ pipe' \in [Links -> {"open", "byte", "closed"}]
        /\ UNCHANGED <<parent, code, status, ok, creator, deleter, buffer, kept, dir, content, executable>>
    BY <1>9 DEF InformParent, Goes, TypeOK, Steps
  <2> QED
    BY <2>1, <1>0, SetupStays DEF TypeOK
<1>10. ASSUME NEW l \in Links, Exit(l) \/ Kill(l) PROVE TypeOK'
  BY <1>10, <1>0, EndsType DEF Exit, Kill, Statuses
<1>11. ASSUME NEW l \in Links, ParentReads(l) PROVE TypeOK'
  <2>1. code' \in [Links -> Statuses \cup {None}]
    <3>1. \E c \in Statuses : code' = [code EXCEPT ![l] = c]
      <4>1. CASE pipe[l] = "byte" /\ code' = [code EXCEPT ![l] = Exited(0)]
        BY <4>1 DEF Statuses
      <4>2. CASE pipe[l] = "closed" /\ code' = [code EXCEPT ![l] = Exited(WEXITSTATUS(status[l]))]
        <5>1. WEXITSTATUS(status[l]) \in {0, 255}
          BY <4>2, StatusNumbers
        <5> QED
          BY <4>2, <5>1 DEF Statuses
      <4> QED
        BY <1>11, <4>1, <4>2 DEF ParentReads
    <3> QED
      BY <3>1 DEF TypeOK
  <2>2. /\ parent' \in [Links -> {"unstarted", "waiting", "linking", "exited"}]
        /\ UNCHANGED <<main, status, ok, pipe, creator, deleter, buffer, kept, dir, content, executable>>
    BY <1>11 DEF ParentReads, TypeOK
  <2> QED
    BY <2>1, <2>2, <1>0, SetupStays DEF TypeOK
<1>12. ASSUME UNCHANGED vars PROVE TypeOK'
  BY <1>12, <1>0, SetupStays DEF vars, TypeOK
<1> QED
  BY <1>0, <1>1, <1>2, <1>3, <1>4, <1>5, <1>6, <1>7, <1>8, <1>9, <1>10, <1>11, <1>12
     DEF Next, MainStep, TaskStep, AllEnded

-----------------------------------------------------------------------------
(* Processes.  Links to one output run one after the other, up to the      *)
(* child of a link that has told its parent that the output is written.    *)

(* The output has been written and nothing has failed since. *)
Wrote(l) == ok[l] /\ main[l] \in {"verifying", "depfile", "informing", "dropping"}

InOrder ==
  \A k, l \in Links : k < l /\ OutputPath[k] = OutputPath[l] /\ parent[l] # "unstarted" =>
    parent[k] = "exited"

(* What the parent, the pipe and the wait status say of the child. *)
ProcessInv(l) ==
  /\ parent[l] = "unstarted" <=> main[l] = "none"
  /\ parent[l] = "linking" => l \notin Forking
  /\ parent[l] = "waiting" => l \in Forking
  /\ parent[l] = "exited" => main[l] = "ended" \/ pipe[l] = "byte"
  /\ pipe[l] = "byte" => ok[l] /\ main[l] \in {"dropping", "ended"}
  /\ pipe[l] = "closed" => main[l] = "ended"
  /\ main[l] = "ended" <=> status[l] \in Statuses
  /\ status[l] = Exited(0) => ok[l]
  /\ status[l] = SIGBUS => l \in Killable
  /\ code[l] = Exited(0) => \/ pipe[l] = "byte" \/ status[l] = Exited(0)
                            \/ l \in Killable \cap Forking

(* How far the task that creates the output is when the main thread is at  *)
(* each step.                                                              *)
StepInv(l) ==
  /\ main[l] \in {"none", "loading", "layout", "layout_file", "removing", "creating", "receiving",
                  "writing", "flushing", "depfile", "informing"} => ok[l]
  /\ main[l] \in {"none", "loading", "layout", "removing", "creating"} => creator[l] = "none"
  /\ main[l] = "layout_file" =>
       IF InBackground(l) THEN creator[l] \in {"renaming", "opening", "sent", "failed"}
                          ELSE creator[l] = "none"
  /\ main[l] = "receiving" => creator[l] \in {"renaming", "opening", "sent", "failed"}
  /\ main[l] \in {"writing", "flushing"} \/ Wrote(l) => creator[l] \in {"none", "sent"}
  /\ main[l] = "ended" => creator[l] = "gone"

ProcessesInv == InOrder /\ \A l \in Links : ProcessInv(l) /\ StepInv(l)

(* Initially nothing has started. *)
LEMMA ProcessInit == Init => ProcessesInv
<1> SUFFICES ASSUME Init PROVE ProcessesInv
  OBVIOUS
<1>1. InOrder
  BY DEF Init, InOrder
<1>2. ASSUME NEW l \in Links PROVE ProcessInv(l)
  BY StatusNumbers DEF Init, ProcessInv
<1>3. ASSUME NEW l \in Links PROVE StepInv(l)
  BY DEF Init, StepInv, Wrote
<1> QED
  BY <1>1, <1>2, <1>3 DEF ProcessesInv

(* The links that a step does not belong to keep their part. *)
LEMMA ProcessFrame ==
  ASSUME UNCHANGED setup, NEW l \in Links,
         /\ parent'[l] = parent[l] /\ code'[l] = code[l] /\ main'[l] = main[l]
         /\ status'[l] = status[l] /\ ok'[l] = ok[l] /\ pipe'[l] = pipe[l]
         /\ creator'[l] = creator[l],
         ProcessInv(l) /\ StepInv(l)
  PROVE  ProcessInv(l)' /\ StepInv(l)'
  BY SetupStays DEF ProcessInv, StepInv, Wrote, InBackground

(* Parents never go back. *)
LEMMA InOrderKept ==
  ASSUME UNCHANGED setup, InOrder,
         \A l \in Links : /\ parent[l] = "unstarted" \/ parent'[l] # "unstarted"
                          /\ parent[l] = "exited" => parent'[l] = "exited"
                          /\ parent'[l] = "unstarted" \/ parent[l] # "unstarted"
  PROVE  InOrder'
  BY SetupStays DEF InOrder

(* Every step keeps the relations between parent, child and task. *)
LEMMA ProcessStep ==
  ASSUME TypeOK, SetupOK, ProcessesInv, [Next]_<<setup, vars>>
  PROVE  ProcessesInv'
<1>0. UNCHANGED setup /\ Links' = Links
  BY SetupStays DEF Next
<1>a. InOrder /\ \A l \in Links : ProcessInv(l) /\ StepInv(l)
  BY DEF ProcessesInv
<1> USE DEF tasks, files
<1>1. ASSUME NEW k \in Links, Fork(k) \/ RunInProcess(k) PROVE ProcessesInv'
  <2>1. /\ \A l \in Links : l # k => parent'[l] = parent[l] /\ main'[l] = main[l]
        /\ parent'[k] = (IF k \in Forking THEN "waiting" ELSE "linking") /\ main'[k] = "loading"
        /\ parent[k] = "unstarted" /\ main[k] = "none"
        /\ UNCHANGED <<code, status, ok, pipe, creator>>
    BY <1>1, <1>a DEF Fork, RunInProcess, MayStart, TypeOK, ProcessInv
  <2>2. InOrder'
    BY <1>0, <1>1, <1>a, <2>1, SetupStays DEF Fork, RunInProcess, MayStart, InOrder
  <2>3. ProcessInv(k)' /\ StepInv(k)'
    BY <1>0, <1>a, <2>1, SetupStays DEF ProcessInv, StepInv, Wrote, InBackground
  <2> QED
    BY <1>0, <1>a, <2>1, <2>2, <2>3, ProcessFrame DEF ProcessesInv
<1>2. ASSUME NEW k \in Links, UNCHANGED <<parent, code, status>>,
             \A l \in Links \ {k} : /\ main'[l] = main[l] /\ ok'[l] = ok[l]
                                    /\ pipe'[l] = pipe[l] /\ creator'[l] = creator[l],
             ProcessInv(k)', StepInv(k)'
      PROVE  ProcessesInv'
  <2>1. InOrder'
    BY <1>0, <1>a, <1>2, InOrderKept
  <2> QED
    BY <1>0, <1>a, <1>2, <2>1, ProcessFrame DEF ProcessesInv
<1>3. ASSUME NEW k \in Links,
             \/ LoadInputs(k) \/ WriteLayoutFile(k) \/ ReceiveOutput(k) \/ VerifyInputs(k)
             \/ WriteDependencyFile(k) \/ RemoveOutput(k) \/ CreateNow(k) \/ WriteOutput(k)
             \/ FlushOutput(k)
      PROVE  ProcessesInv'
  <2>1. /\ UNCHANGED <<parent, code, status, pipe, creator>>
        /\ \A l \in Links \ {k} : main'[l] = main[l] /\ ok'[l] = ok[l]
        /\ ok'[k] \in BOOLEAN
    BY <1>3 DEF LoadInputs, WriteLayoutFile, ReceiveOutput, VerifyInputs, WriteDependencyFile,
                RemoveOutput, CreateNow, WriteOutput, FlushOutput, Goes, Fails, TypeOK
  <2>2. \/ /\ ok'[k] = ok[k]
           /\ \/ main[k] = "loading" /\ main'[k] = "layout"
              \/ /\ main[k] = "layout_file"
                 /\ main'[k] = IF InBackground(k) THEN "receiving" ELSE "removing"
              \/ main[k] = "receiving" /\ main'[k] = "writing" /\ creator[k] = "sent"
              \/ main[k] = "removing" /\ main'[k] = "creating"
              \/ main[k] = "creating" /\ main'[k] = "writing"
              \/ main[k] = "writing" /\ main'[k] = "flushing"
              \/ main[k] = "flushing" /\ main'[k] = "verifying"
              \/ main[k] = "verifying" /\ ok[k] /\ main'[k] = "depfile"
              \/ main[k] = "verifying" /\ ~ok[k] /\ main'[k] = "dropping"
              \/ main[k] = "depfile" /\ main'[k] = "informing"
        \/ /\ ~ok'[k] /\ main'[k] \in {"verifying", "dropping"}
           /\ main[k] \in {"loading", "layout_file", "receiving", "creating", "writing", "flushing",
                           "verifying", "depfile"}
    BY <1>3, ZenonT(60) DEF LoadInputs, WriteLayoutFile, ReceiveOutput, VerifyInputs, WriteDependencyFile,
                RemoveOutput, CreateNow, WriteOutput, FlushOutput, Goes, Fails, TypeOK
  <2>3. ProcessInv(k) /\ StepInv(k)
    BY <1>a
  <2>4. ProcessInv(k)'
    <3>1. status[k] # Exited(0)
      BY <2>2, <2>3, StatusNumbers DEF ProcessInv
    <3> QED
      BY <1>0, <2>1, <2>2, <2>3, <3>1, SetupStays DEF ProcessInv
  <2>5. StepInv(k)'
    BY <1>0, <2>1, <2>2, <2>3, SetupStays DEF StepInv, Wrote, InBackground
  <2> QED
    BY <1>2, <2>1, <2>4, <2>5
<1>4. ASSUME NEW k \in Links, LayOut(k) PROVE ProcessesInv'
  <2>1. /\ UNCHANGED <<parent, code, status, pipe>>
        /\ \A l \in Links \ {k} : main'[l] = main[l] /\ ok'[l] = ok[l] /\ creator'[l] = creator[l]
        /\ main[k] = "layout" /\ creator[k] = "none"
        /\ \/ /\ main'[k] = "layout_file" /\ ok'[k] = ok[k]
              /\ creator'[k] = IF InBackground(k) THEN "renaming" ELSE "none"
           \/ main'[k] = "verifying" /\ ~ok'[k] /\ creator'[k] = "none"
    BY <1>4, <1>a DEF LayOut, Goes, Fails, TypeOK, StepInv
  <2>2. ProcessInv(k) /\ StepInv(k)
    BY <1>a
  <2>4. ProcessInv(k)'
    <3>1. status[k] # Exited(0)
      BY <2>1, <2>2, StatusNumbers DEF ProcessInv
    <3> QED
      BY <1>0, <2>1, <2>2, <3>1, SetupStays DEF ProcessInv
  <2>5. StepInv(k)'
    BY <1>0, <2>1, <2>2, SetupStays DEF StepInv, Wrote, InBackground
  <2> QED
    BY <1>2, <2>1, <2>4, <2>5
<1>5. ASSUME NEW k \in Links, TaskStep(k) PROVE ProcessesInv'
  <2>1. /\ UNCHANGED <<parent, code, status, pipe, main, ok>>
        /\ \A l \in Links \ {k} : creator'[l] = creator[l]
        /\ \/ creator[k] = "renaming" /\ creator'[k] = "opening"
           \/ creator[k] = "opening" /\ creator'[k] \in {"sent", "failed"}
           \/ creator'[k] = creator[k]
    BY <1>5 DEF TaskStep, RenameOld, RemoveOld, CreateInBackground, TypeOK
  <2>2. ProcessInv(k) /\ StepInv(k)
    BY <1>a
  <2>4. ProcessInv(k)'
    BY <1>0, <2>1, <2>2, SetupStays DEF ProcessInv
  <2>5. StepInv(k)'
    BY <1>0, <2>1, <2>2, SetupStays DEF StepInv, Wrote, InBackground
  <2> QED
    BY <1>2, <2>1, <2>4, <2>5
<1>6. ASSUME NEW k \in Links, InformParent(k) PROVE ProcessesInv'
  <2>1. /\ UNCHANGED <<parent, code, status, ok, creator>>
        /\ \A l \in Links \ {k} : main'[l] = main[l] /\ pipe'[l] = pipe[l]
        /\ main[k] = "informing" /\ main'[k] = "dropping"
        /\ pipe'[k] \in {pipe[k], "byte"}
    BY <1>6 DEF InformParent, Goes, TypeOK
  <2>2. ProcessInv(k) /\ StepInv(k)
    BY <1>a
  <2>4. ProcessInv(k)'
    BY <1>0, <2>1, <2>2, SetupStays DEF ProcessInv, StepInv
  <2>5. StepInv(k)'
    BY <1>0, <2>1, <2>2, SetupStays DEF StepInv, Wrote, InBackground
  <2> QED
    BY <1>2, <2>1, <2>4, <2>5
<1>7. ASSUME NEW k \in Links, NEW how \in Statuses, Ends(k, how),
             main[k] \notin {"none", "ended"},
             how = Exited(0) => ok[k], how = SIGBUS => k \in Killable
      PROVE  ProcessesInv'
  <2>1. /\ \A l \in Links \ {k} : /\ main'[l] = main[l] /\ pipe'[l] = pipe[l]
                                  /\ status'[l] = status[l] /\ creator'[l] = creator[l]
                                  /\ parent'[l] = parent[l] /\ code'[l] = code[l]
        /\ UNCHANGED ok
        /\ main'[k] = "ended" /\ status'[k] = how /\ creator'[k] = "gone"
        /\ pipe'[k] = IF pipe[k] = "open" THEN "closed" ELSE pipe[k]
        /\ IF parent[k] = "linking" THEN parent'[k] = "exited" /\ code'[k] = how
           ELSE parent'[k] = parent[k] /\ code'[k] = code[k]
    BY <1>7 DEF Ends, TypeOK
  <2>2. ProcessInv(k) /\ StepInv(k)
    BY <1>a
  <2>3. parent[k] # "unstarted" /\ status[k] \notin Statuses
    BY <1>7, <2>2 DEF ProcessInv
  <2>4. ProcessInv(k)'
    <3>1. status[k] # Exited(0)
      BY <2>3, StatusNumbers
    <3> QED
      BY <1>0, <1>7, <2>1, <2>2, <2>3, <3>1, SetupStays DEF ProcessInv
  <2>5. StepInv(k)'
    BY <1>0, <2>1, SetupStays DEF StepInv, Wrote
  <2>6. InOrder'
    BY <1>0, <1>a, <2>1, <2>3, InOrderKept
  <2> QED
    BY <1>0, <1>a, <2>1, <2>4, <2>5, <2>6, ProcessFrame DEF ProcessesInv
<1>8. ASSUME NEW k \in Links, Exit(k) \/ Kill(k) PROVE ProcessesInv'
  BY <1>7, <1>8, StatusNumbers DEF Exit, Kill
<1>9. ASSUME NEW k \in Links, ParentReads(k) PROVE ProcessesInv'
  <2>1. /\ \A l \in Links \ {k} : parent'[l] = parent[l] /\ code'[l] = code[l]
        /\ UNCHANGED <<main, status, ok, pipe, creator>>
        /\ parent[k] = "waiting" /\ parent'[k] = "exited"
        /\ \/ pipe[k] = "byte" /\ code'[k] = Exited(0)
           \/ pipe[k] = "closed" /\ code'[k] = Exited(WEXITSTATUS(status[k]))
    BY <1>9 DEF ParentReads, TypeOK
  <2>2. ProcessInv(k) /\ StepInv(k)
    BY <1>a
  <2>3. code'[k] = Exited(0) => \/ pipe[k] = "byte" \/ status[k] = Exited(0)
                                \/ k \in Killable \cap Forking
    <3>1. pipe[k] = "closed" => status[k] \in Statuses
      BY <2>2 DEF ProcessInv
    <3>2. status[k] = 65280 => Exited(WEXITSTATUS(status[k])) # Exited(0)
      BY StatusNumbers
    <3>3. status[k] = 7 => k \in Killable \cap Forking
      BY <2>1, <2>2, StatusNumbers DEF ProcessInv
    <3> QED
      BY <2>1, <3>1, <3>2, <3>3, StatusNumbers
  <2>4. ProcessInv(k)'
    BY <1>0, <2>1, <2>2, <2>3, SetupStays DEF ProcessInv
  <2>5. StepInv(k)'
    BY <1>0, <2>1, <2>2, SetupStays DEF StepInv, Wrote, InBackground
  <2>6. InOrder'
    BY <1>0, <1>a, <2>1, InOrderKept
  <2> QED
    BY <1>0, <1>a, <2>1, <2>4, <2>5, <2>6, ProcessFrame DEF ProcessesInv
<1>10. ASSUME UNCHANGED vars PROVE ProcessesInv'
  BY <1>0, <1>a, <1>10, ProcessFrame, InOrderKept DEF vars, ProcessesInv
<1> QED
  BY <1>0, <1>1, <1>3, <1>4, <1>5, <1>6, <1>8, <1>9, <1>10 DEF Next, MainStep, AllEnded

-----------------------------------------------------------------------------
(* Files *)

(* Link l may still create its file. *)
Unmade(l) ==
  \/ creator[l] \in {"renaming", "opening"}
  \/ /\ main[l] \in {"none", "loading", "layout", "layout_file", "removing", "creating"}
     /\ creator[l] = "none"

(* The output of l is created and is going to be written. *)
Holding(l) ==
  \/ creator[l] = "sent" /\ main[l] \in {"layout_file", "receiving"}
  \/ main[l] \in {"writing", "flushing"}

(* The output of l has been written, as far as anyone can tell. *)
Succeeded(l) == Wrote(l) \/ pipe[l] = "byte" \/ status[l] = Exited(0)

(* No file has two names, and the file of a link that has not created it   *)
(* has none.                                                               *)
DirInv ==
  /\ \A p, q \in Paths : dir[p] = dir[q] /\ dir[p] # None => p = q
  /\ \A l \in Links : Unmade(l) => \A p \in Paths : dir[p] # l

(* The file that l writes is the one at its path. *)
BufferInv(l) ==
  /\ Holding(l) => /\ buffer[l] \in Inodes /\ dir[OutputPath[l]] = buffer[l]
                   /\ content[buffer[l]] \in {<<l, "partial">>, <<l, "complete">>}
  /\ Succeeded(l) /\ Latest(l) => /\ buffer[l] \in Inodes /\ dir[OutputPath[l]] = buffer[l]
                                  /\ content[buffer[l]] = <<l, "complete">>

(* A link that replaces its output writes to its own file only. *)
ReplaceInv(l) ==
  Replaces(l) =>
    /\ creator[l] = "opening" \/ main[l] = "creating" => dir[OutputPath[l]] = None
    /\ buffer[l] \in {None, l}
    /\ \A i \in Inodes : content[i] \in {<<l, "partial">>, <<l, "complete">>} => i = l
    /\ Unmade(l) => l \notin executable
    /\ l \in executable => content[l] # <<l, "partial">>

FilesInv == DirInv /\ \A l \in Links : BufferInv(l) /\ ReplaceInv(l)

(* Initially there are only old files. *)
LEMMA FilesInit == Init => FilesInv
<1> SUFFICES ASSUME Init PROVE FilesInv
  OBVIOUS
<1>0. SetupOK
  BY DEF Init, SetupOK
<1>1. DirInv
  BY <1>0, SetupParts DEF Init, DirInv
<1>2. ASSUME NEW l \in Links PROVE BufferInv(l)
  BY StatusNumbers DEF Init, BufferInv, Holding, Succeeded, Wrote
<1>3. ASSUME NEW l \in Links PROVE ReplaceInv(l)
  <2>1. l # 0 /\ l \notin Existing
    BY <1>0, SetupParts
  <2>2. \A i \in Inodes : content[i] \notin {<<l, "partial">>, <<l, "complete">>}
    BY <2>1 DEF Init, Old
  <2> QED
    BY <2>1, <2>2 DEF Init, ReplaceInv
<1> QED
  BY <1>1, <1>2, <1>3 DEF FilesInv

(* A step after which a link is at least as far as before and that leaves  *)
(* the files alone.                                                        *)
QuietFor(l) ==
  /\ Holding(l)' => Holding(l)
  /\ Succeeded(l)' => Succeeded(l)
  /\ Unmade(l)' => Unmade(l)
  /\ creator'[l] = "opening" => creator[l] = "opening"
  /\ main'[l] = "creating" => main[l] = "creating"

(* Such a step keeps the invariant. *)
LEMMA QuietStep ==
  ASSUME SetupOK, FilesInv, UNCHANGED <<setup, buffer, kept, dir, content, executable>>,
         \A l \in Links : QuietFor(l) /\ (parent'[l] = "unstarted" => parent[l] = "unstarted")
  PROVE  FilesInv'
<1>1. DirInv'
  BY SetupStays DEF FilesInv, DirInv, QuietFor
<1>2. ASSUME NEW l \in Links PROVE BufferInv(l)' /\ ReplaceInv(l)'
  <2>1. BufferInv(l) /\ ReplaceInv(l) /\ QuietFor(l)
    BY DEF FilesInv
  <2>2. Latest(l)' => Latest(l)
    BY SetupStays DEF Latest
  <2>3. BufferInv(l)'
    BY <2>1, <2>2, SetupStays DEF BufferInv, QuietFor
  <2>4. ReplaceInv(l)'
    BY <2>1, SetupStays DEF ReplaceInv, Replaces, QuietFor
  <2> QED
    BY <2>3, <2>4
<1> QED
  BY <1>1, <1>2, SetupStays DEF FilesInv

(* The steps of a link that touch its output. *)
Works(k) == \/ main[k] \in {"removing", "creating", "writing", "flushing"}
            \/ creator[k] \in {"renaming", "opening"}

(* While a link works on its output, no other one to the same output does, *)
(* or counts on the file at the path.                                      *)
LEMMA Alone ==
  ASSUME SetupOK, TypeOK, ProcessesInv, NEW k \in Links, NEW l \in Links, k # l, Works(k),
         OutputPath[k] = OutputPath[l]
  PROVE  /\ ~Holding(l) /\ ~Works(l)
         /\ ~(Succeeded(l) /\ Latest(l))
<1>1. k \in Nat /\ l \in Nat
  BY SetupParts
<1>2. ProcessInv(k) /\ StepInv(k) /\ ProcessInv(l) /\ StepInv(l)
  BY DEF ProcessesInv
<1>3. parent[k] \in {"waiting", "linking"}
  BY <1>2 DEF Works, ProcessInv, StepInv, Wrote, TypeOK
<1>4. CASE k < l
  <2>1. parent[l] = "unstarted"
    BY <1>3, <1>4 DEF ProcessesInv, InOrder
  <2>2. main[l] = "none" /\ creator[l] = "none" /\ pipe[l] # "byte" /\ status[l] \notin Statuses
    BY <1>2, <2>1 DEF ProcessInv, StepInv
  <2>3. status[l] # Exited(0)
    BY <2>2, StatusNumbers
  <2> QED
    BY <2>2, <2>3 DEF Holding, Works, Succeeded, Wrote
<1>5. CASE l < k
  <2>1. parent[l] = "exited"
    BY <1>3, <1>5 DEF ProcessesInv, InOrder
  <2>2. ~Latest(l)
    BY <1>3, <1>5 DEF Latest
  <2>3. main[l] \in {"dropping", "ended"} /\ (main[l] = "dropping" => ok[l])
    BY <1>2, <2>1 DEF ProcessInv
  <2>4. creator[l] \notin {"renaming", "opening"}
    BY <1>2, <2>3 DEF StepInv, Wrote
  <2> QED
    BY <2>2, <2>3, <2>4 DEF Holding, Works
<1> QED
  BY <1>1, <1>4, <1>5

(* What a step of k that works on its output leaves to the other links. *)
Touches(k) ==
  /\ \A p \in Paths : p \notin {OutputPath[k], WithDelete[OutputPath[k]]} => dir'[p] = dir[p]
  /\ \A i \in Inodes :
       \/ content'[i] = content[i]
       \/ /\ content'[i] \in {<<k, "partial">>, <<k, "complete">>}
          /\ i = dir[OutputPath[k]] \/ (i = k /\ Unmade(k))
  /\ \/ executable' = executable
     \/ /\ main[k] = "flushing" /\ executable' = executable \cup {buffer[k]}
        /\ content'[buffer[k]] = <<k, "complete">>
  /\ \A l \in Links \ {k} : /\ main'[l] = main[l] /\ ok'[l] = ok[l] /\ creator'[l] = creator[l]
                            /\ buffer'[l] = buffer[l] /\ (l \in kept' <=> l \in kept)
  /\ UNCHANGED <<parent, pipe, status>>

(* Another link's output stays as it is. *)
LEMMA OthersKeep ==
  ASSUME SetupOK, TypeOK, ProcessesInv, FilesInv, OutputsAreNotTemporary, UNCHANGED setup,
         NEW k \in Links, Works(k), Touches(k), NEW l \in Links, l # k
  PROVE  BufferInv(l)'
<1>1. BufferInv(l) /\ DirInv
  BY DEF FilesInv
<1>2. /\ Holding(l)' => Holding(l)
      /\ Succeeded(l)' => Succeeded(l)
      /\ Latest(l)' => Latest(l)
  BY SetupStays DEF Touches, Holding, Succeeded, Wrote, Latest
<1>3. ASSUME Holding(l) \/ (Succeeded(l) /\ Latest(l))
      PROVE  /\ dir'[OutputPath[l]] = dir[OutputPath[l]]
             /\ content'[buffer[l]] = content[buffer[l]]
  <2>1. OutputPath[l] # OutputPath[k] /\ OutputPath[l] # WithDelete[OutputPath[k]]
    BY <1>3, Alone DEF OutputsAreNotTemporary
  <2>2. OutputPath[l] \in Paths /\ OutputPath[k] \in Paths
    BY SetupParts
  <2>3. buffer[l] \in Inodes /\ dir[OutputPath[l]] = buffer[l] /\ buffer[l] # None
    BY <1>1, <1>3, SetupParts DEF BufferInv
  <2>4. buffer[l] # dir[OutputPath[k]]
    BY <1>1, <2>1, <2>2, <2>3 DEF DirInv
  <2>5. ~(buffer[l] = k /\ Unmade(k))
    BY <1>1, <2>2, <2>3 DEF DirInv
  <2> QED
    BY <2>1, <2>2, <2>3, <2>4, <2>5 DEF Touches
<1>4. buffer'[l] = buffer[l]
  BY DEF Touches
<1> QED
  BY <1>1, <1>2, <1>3, <1>4, SetupStays DEF BufferInv

(* Another link's own file stays as it is. *)
LEMMA OthersReplace ==
  ASSUME SetupOK, TypeOK, ProcessesInv, FilesInv, OutputsAreNotTemporary, UNCHANGED setup,
         NEW k \in Links, Works(k), Touches(k), NEW l \in Links, l # k
  PROVE  ReplaceInv(l)'
<1>0. SUFFICES ASSUME Replaces(l), Replaces(l)' PROVE ReplaceInv(l)'
  BY SetupStays DEF ReplaceInv, Replaces, Touches
<1>1. ReplaceInv(l) /\ DirInv /\ BufferInv(k)
  BY DEF FilesInv
<1>2. /\ main'[l] = main[l] /\ creator'[l] = creator[l] /\ buffer'[l] = buffer[l]
      /\ Unmade(l)' <=> Unmade(l)
  BY DEF Touches, Unmade
<1>3. ASSUME creator[l] = "opening" \/ main[l] = "creating" PROVE dir'[OutputPath[l]] = None
  <2>1. OutputPath[l] # OutputPath[k] /\ OutputPath[l] # WithDelete[OutputPath[k]]
    BY <1>3, Alone DEF OutputsAreNotTemporary, Works
  <2>2. OutputPath[l] \in Paths
    BY SetupParts
  <2> QED
    BY <1>0, <1>1, <1>3, <2>1, <2>2 DEF ReplaceInv, Touches
<1>4. \A i \in Inodes : content'[i] \in {<<l, "partial">>, <<l, "complete">>} =>
                          i = l /\ content'[i] = content[i]
  BY <1>0, <1>1 DEF ReplaceInv, Touches
<1>5. l \in Inodes
  BY SetupParts
<1>6. CASE executable' = executable
  BY <1>0, <1>1, <1>2, <1>3, <1>4, <1>5, <1>6, SetupStays DEF ReplaceInv
<1>7. CASE /\ main[k] = "flushing" /\ executable' = executable \cup {buffer[k]}
           /\ content'[buffer[k]] = <<k, "complete">>
  <2>1. dir[OutputPath[k]] = buffer[k] /\ OutputPath[k] \in Paths
    BY <1>1, <1>7, SetupParts DEF BufferInv, Holding
  <2>2. Unmade(l) => buffer[k] # l
    BY <1>1, <2>1 DEF DirInv
  <2>3. buffer[k] = l => content'[l] # <<l, "partial">>
    BY <1>7
  <2> QED
    BY <1>0, <1>1, <1>2, <1>3, <1>4, <1>5, <1>7, <2>2, <2>3, SetupStays DEF ReplaceInv
<1> QED
  BY <1>6, <1>7 DEF Touches

(* A link that works on its output has not succeeded yet, and it does so   *)
(* in one place at a time.                                                 *)
LEMMA Working ==
  ASSUME ProcessesInv, NEW k \in Links, Works(k)
  PROVE  /\ ~Succeeded(k)
         /\ creator[k] \in {"renaming", "opening"} => main[k] \notin {"writing", "flushing", "creating"}
         /\ main[k] \in {"removing", "creating"} => creator[k] = "none"
<1>1. ProcessInv(k) /\ StepInv(k)
  BY DEF ProcessesInv
<1>2. status[k] = Exited(0) => main[k] = "ended"
  BY <1>1, StatusNumbers DEF ProcessInv
<1>3. ~Succeeded(k)
  BY <1>1, <1>2 DEF ProcessInv, StepInv, Works, Succeeded, Wrote
<1> QED
  BY <1>1, <1>3 DEF StepInv

(* It remains to look at the link itself. *)
LEMMA WorkStep ==
  ASSUME SetupOK, TypeOK, ProcessesInv, FilesInv, OutputsAreNotTemporary, UNCHANGED setup,
         NEW k \in Links, Works(k), Touches(k), DirInv', BufferInv(k)', ReplaceInv(k)'
  PROVE  FilesInv'
  BY OthersKeep, OthersReplace, SetupStays DEF FilesInv

(* The old output is renamed. *)
LEMMA RenameFiles ==
  ASSUME SetupOK, TypeOK, ProcessesInv, FilesInv, OutputsAreNotTemporary, UNCHANGED setup,
         NEW k \in Links, RenameOld(k)
  PROVE  FilesInv'
<1> DEFINE path == OutputPath[k]
           old == WithDelete[path]
<1> USE DEF files
<1>1. path \in Paths /\ old \in Paths /\ old # path
  BY SetupParts, LinkProcessAssumption DEF OutputsAreNotTemporary
<1>2. /\ creator[k] = "renaming" /\ creator' = [creator EXCEPT ![k] = "opening"]
      /\ UNCHANGED <<parent, code, main, status, ok, pipe, buffer, content, executable>>
      /\ \/ /\ Mode[k] = "UnlinkAndReplace" /\ dir[path] # None /\ kept' = kept
            /\ dir' = [[dir EXCEPT ![path] = None] EXCEPT ![old] = dir[path]]
         \/ Mode[k] = "UnlinkAndReplace" /\ kept' = kept \cup {k} /\ dir' = dir
         \/ /\ ~(Mode[k] = "UnlinkAndReplace" /\ dir[path] # None)
            /\ kept' = kept /\ dir' = dir
  BY DEF RenameOld
<1>3. creator'[k] = "opening" /\ \A l \in Links \ {k} : creator'[l] = creator[l]
  BY <1>2 DEF TypeOK
<1>4. /\ \A p \in Paths \ {path, old} : dir'[p] = dir[p]
      /\ dir' = dir \/ (dir'[path] = None /\ dir'[old] = dir[path])
  BY <1>1, <1>2 DEF TypeOK
<1>5. Works(k) /\ Touches(k)
  BY <1>2, <1>3, <1>4 DEF Works, Touches
<1>6. BufferInv(k) /\ ReplaceInv(k) /\ DirInv
  BY DEF FilesInv
<1>7. DirInv'
  <2>1. \A l \in Links : Unmade(l)' => Unmade(l)
    BY <1>2, <1>3 DEF Unmade
  <2>2. \A l \in Links : l # None
    BY SetupParts
  <2>3. CASE dir' = dir
    BY <1>6, <2>1, <2>3, SetupStays DEF DirInv
  <2>4. CASE dir'[path] = None /\ dir'[old] = dir[path]
    <3>1. \A p \in Paths : /\ p = path => dir'[p] = None
                           /\ p = old => dir'[p] = dir[path]
                           /\ p \notin {path, old} => dir'[p] = dir[p]
      BY <1>1, <1>4, <2>4
    <3>2. \A p, q \in Paths : dir'[p] = dir'[q] /\ dir'[p] # None => p = q
      BY <1>1, <1>6, <3>1 DEF DirInv
    <3>3. \A l \in Links : Unmade(l)' => \A p \in Paths : dir'[p] # l
      BY <1>1, <1>6, <2>1, <2>2, <3>1 DEF DirInv
    <3> QED
      BY <3>2, <3>3, SetupStays DEF DirInv
  <2> QED
    BY <1>4, <2>3, <2>4
<1>8. BufferInv(k)'
  <2>1. ~Holding(k)' /\ ~Succeeded(k)'
    BY <1>2, <1>3, <1>5, Working DEF Holding, Succeeded, Wrote
  <2> QED
    BY <2>1 DEF BufferInv
<1>9. ReplaceInv(k)'
  <2>0. SUFFICES ASSUME Replaces(k)' PROVE ReplaceInv(k)'
    BY DEF ReplaceInv
  <2>a. Mode[k] = "UnlinkAndReplace" /\ k \notin kept' /\ Replaces(k)
    BY <1>2, <2>0, SetupStays DEF Replaces
  <2>1. dir'[path] = None
    <3>1. CASE dir[path] = None
      BY <1>2, <2>a, <3>1
    <3>2. CASE dir[path] # None
      BY <1>1, <1>2, <2>a, <3>2 DEF TypeOK
    <3> QED
      BY <3>1, <3>2
  <2>2. Unmade(k)
    BY <1>2 DEF Unmade
  <2> QED
    BY <1>2, <1>6, <2>a, <2>1, <2>2, SetupStays DEF ReplaceInv
<1> QED
  BY <1>5, <1>7, <1>8, <1>9, WorkStep

(* A renamed file is removed. *)
LEMMA RemoveOldFiles ==
  ASSUME SetupOK, TypeOK, FilesInv, OutputsAreNotTemporary, UNCHANGED setup,
         NEW k \in Links, RemoveOld(k)
  PROVE  FilesInv'
<1> DEFINE old == WithDelete[OutputPath[k]]
<1>1. old \in Paths
  BY SetupParts, LinkProcessAssumption
<1>2. /\ \/ \A p \in Paths : dir'[p] = IF p = old THEN None ELSE dir[p]
         \/ \A p \in Paths : dir'[p] = dir[p]
      /\ UNCHANGED <<parent, code, main, status, ok, pipe, creator, buffer, kept, content,
                     executable>>
  BY <1>1 DEF RemoveOld, TypeOK
<1>3. \A l \in Links : OutputPath[l] \in Paths /\ OutputPath[l] # old
  BY SetupParts DEF OutputsAreNotTemporary
<1>4. DirInv'
  <2>1. \A l \in Links : Unmade(l)' <=> Unmade(l)
    BY <1>2 DEF Unmade
  <2>2. \A l \in Links : l # None
    BY SetupParts
  <2> QED
    BY <1>2, <2>1, <2>2, SetupStays DEF FilesInv, DirInv
<1>5. ASSUME NEW l \in Links PROVE BufferInv(l)' /\ ReplaceInv(l)'
  <2>1. BufferInv(l) /\ ReplaceInv(l) /\ dir'[OutputPath[l]] = dir[OutputPath[l]]
    BY <1>2, <1>3 DEF FilesInv
  <2>2. BufferInv(l)'
    BY <1>2, <2>1, SetupStays DEF BufferInv, Holding, Succeeded, Wrote, Latest
  <2>3. ReplaceInv(l)'
    BY <1>2, <2>1, SetupStays DEF ReplaceInv, Replaces, Unmade
  <2> QED
    BY <2>2, <2>3
<1> QED
  BY <1>4, <1>5, SetupStays DEF FilesInv

(* The output is created, or creating it fails halfway. *)
LEMMA CreateFiles ==
  ASSUME SetupOK, TypeOK, ProcessesInv, FilesInv, OutputsAreNotTemporary, UNCHANGED setup,
         NEW k \in Links, NEW created \in BOOLEAN, CreateOutput(k, created),
         Works(k) /\ Unmade(k) /\ ~Unmade(k)',
         creator[k] = "opening" \/ main[k] = "creating",
         /\ creator'[k] # "opening" /\ main'[k] # "creating" /\ ~Succeeded(k)'
         /\ Holding(k)' => created
         /\ \A l \in Links \ {k} : main'[l] = main[l] /\ ok'[l] = ok[l] /\ creator'[l] = creator[l],
         UNCHANGED <<parent, pipe, status, kept, executable>>
  PROVE  FilesInv'
<1> DEFINE path == OutputPath[k]
<1>1. path \in Paths /\ k \in Inodes /\ k # None
  BY SetupParts
<1>a. /\ OpenedInode(k) \in {None, k, dir[path]} /\ (dir[path] = None => OpenedInode(k) = k)
      /\ None \notin Busy
  BY Opened, SetupParts
<1>3. PICK i \in {None, OpenedInode(k)} :
      /\ dir[path] = None => i = OpenedInode(k)
      /\ created => i # None
      /\ IF i = None THEN UNCHANGED <<dir, content>>
         ELSE /\ dir' = [dir EXCEPT ![path] = i]
              /\ content' = [content EXCEPT ![i] = <<k, "partial">>]
      /\ buffer' = IF created THEN [buffer EXCEPT ![k] = i] ELSE buffer
  BY <1>a, Zenon DEF CreateOutput
<1>2. i \in {None, k, dir[path]} /\ (dir[path] = None => i = k)
  BY <1>a, <1>3
<1>4. i \in Inodes \cup {None}
  BY <1>1, <1>2 DEF TypeOK
<1>5. /\ \A p \in Paths \ {path} : dir'[p] = dir[p]
      /\ dir'[path] = IF i = None THEN dir[path] ELSE i
      /\ \A j \in Inodes : content'[j] = IF j = i THEN <<k, "partial">> ELSE content[j]
      /\ \A l \in Links \ {k} : buffer'[l] = buffer[l]
      /\ buffer'[k] = IF created THEN i ELSE buffer[k]
  <2>1. None \notin Inodes
    BY SetupParts
  <2> QED
    BY <1>1, <1>3, <1>4, <2>1 DEF TypeOK
<1>6. Touches(k)
  <2>1. ASSUME NEW j \in Inodes
        PROVE  \/ content'[j] = content[j]
               \/ /\ content'[j] \in {<<k, "partial">>, <<k, "complete">>}
                  /\ j = dir[path] \/ (j = k /\ Unmade(k))
    <3>1. CASE j = i
      <4>1. j = dir[path] \/ j = k
        BY <1>2, <3>1, SetupParts
      <4> QED
        BY <1>5, <3>1, <4>1
    <3>2. CASE j # i
      BY <1>5, <3>2
    <3> QED
      BY <3>1, <3>2
  <2> QED
    BY <1>5, <2>1 DEF Touches
<1>7. BufferInv(k) /\ ReplaceInv(k) /\ DirInv
  BY DEF FilesInv
<1>8. DirInv'
  <2>1. \A l \in Links : Unmade(l)' => Unmade(l) /\ l # k
    BY DEF Unmade
  <2> QED
    BY <1>1, <1>2, <1>5, <1>7, <2>1, SetupStays DEF DirInv
<1>9. BufferInv(k)'
  <2>1. Holding(k)' => /\ buffer'[k] = i /\ i \in Inodes /\ dir'[path] = i
                       /\ content'[i] = <<k, "partial">>
    BY <1>3, <1>4, <1>5
  <2> QED
    BY <2>1, SetupStays DEF BufferInv
<1>10. ReplaceInv(k)'
  <2>1. ASSUME Replaces(k)
        PROVE  /\ buffer'[k] \in {None, k}
               /\ \A j \in Inodes : content'[j] \in {<<k, "partial">>, <<k, "complete">>} => j = k
               /\ k \notin executable
    <3>1. i = k
      BY <1>2, <1>7, <2>1 DEF ReplaceInv
    <3> QED
      BY <1>5, <1>7, <2>1, <3>1 DEF ReplaceInv
  <2> QED
    BY <2>1, SetupStays DEF ReplaceInv, Replaces
<1> QED
  BY <1>6, <1>8, <1>9, <1>10, WorkStep

(* The output is removed before it is created. *)
LEMMA RemoveOutputFiles ==
  ASSUME SetupOK, TypeOK, ProcessesInv, FilesInv, OutputsAreNotTemporary, UNCHANGED setup,
         NEW k \in Links, RemoveOutput(k)
  PROVE  FilesInv'
<1> DEFINE path == OutputPath[k]
<1> USE DEF tasks
<1>1. path \in Paths
  BY SetupParts
<1>2. /\ main[k] = "removing" /\ main'[k] = "creating"
      /\ \A l \in Links \ {k} : main'[l] = main[l]
      /\ \/ kept' = kept /\ \A p \in Paths : dir'[p] = IF p = path THEN None ELSE dir[p]
         \/ kept' = kept \cup {k} /\ \A p \in Paths : dir'[p] = dir[p]
      /\ UNCHANGED <<parent, code, status, ok, pipe, creator, deleter, buffer, content, executable>>
  BY <1>1 DEF RemoveOutput, Goes, TypeOK
<1>3. Works(k) /\ Touches(k)
  BY <1>2 DEF Works, Touches
<1>4. creator[k] = "none" /\ ~Succeeded(k)
  BY <1>2, <1>3, Working
<1>5. BufferInv(k) /\ ReplaceInv(k) /\ DirInv
  BY DEF FilesInv
<1>6. \A l \in Links : Unmade(l)' => Unmade(l)
  BY <1>2, <1>4 DEF Unmade
<1>7. DirInv'
  <2>1. \A l \in Links : l # None
    BY SetupParts
  <2> QED
    BY <1>2, <1>5, <1>6, <2>1, SetupStays DEF DirInv
<1>8. BufferInv(k)'
  <2>1. ~Holding(k)' /\ ~Succeeded(k)'
    BY <1>2, <1>4 DEF Holding, Succeeded, Wrote
  <2> QED
    BY <2>1 DEF BufferInv
<1>9. ReplaceInv(k)'
  BY <1>1, <1>2, <1>5, <1>6, SetupStays DEF ReplaceInv, Replaces
<1> QED
  BY <1>3, <1>7, <1>8, <1>9, WorkStep

(* The output is written, in one or two steps. *)
LEMMA WriteFiles ==
  ASSUME SetupOK, TypeOK, ProcessesInv, FilesInv, OutputsAreNotTemporary, UNCHANGED setup,
         NEW k \in Links, WriteOutput(k) \/ FlushOutput(k)
  PROVE  FilesInv'
<1> USE DEF tasks
<1>1. BufferInv(k) /\ ReplaceInv(k) /\ DirInv /\ Holding(k)
  BY DEF FilesInv, WriteOutput, FlushOutput, Goes, Fails, Holding
<1>2. /\ buffer[k] \in Inodes /\ dir[OutputPath[k]] = buffer[k]
      /\ content[buffer[k]] \in {<<k, "partial">>, <<k, "complete">>}
  BY <1>1 DEF BufferInv
<1>3. /\ \A l \in Links \ {k} : main'[l] = main[l] /\ ok'[l] = ok[l]
      /\ UNCHANGED <<parent, code, status, pipe, creator, deleter, buffer, kept, dir>>
  BY DEF WriteOutput, FlushOutput, Goes, Fails, TypeOK
<1>4. \/ /\ main[k] = "writing" /\ main'[k] = "flushing" /\ executable' = executable
         /\ content' = content \/ content' = [content EXCEPT ![buffer[k]] = <<k, "complete">>]
      \/ /\ main[k] = "flushing" /\ main'[k] = "verifying"
         /\ content' = [content EXCEPT ![buffer[k]] = <<k, "complete">>]
         /\ executable' = executable \/ executable' = executable \cup {buffer[k]}
      \/ /\ main[k] \in {"writing", "flushing"} /\ main'[k] = "verifying" /\ ~ok'[k]
         /\ UNCHANGED <<content, executable>>
  BY DEF WriteOutput, FlushOutput, Goes, Fails, TypeOK
<1>5. /\ \A i \in Inodes \ {buffer[k]} : content'[i] = content[i]
      /\ content'[buffer[k]] \in {content[buffer[k]], <<k, "complete">>}
      /\ executable' # executable \/ (main'[k] = "verifying" /\ ok'[k]) =>
           content'[buffer[k]] = <<k, "complete">>
  BY <1>2, <1>4 DEF TypeOK
<1>6. executable' = executable \/ (executable' = executable \cup {buffer[k]} /\ main[k] = "flushing")
  BY <1>4
<1>7. Works(k) /\ Touches(k)
  BY <1>2, <1>3, <1>4, <1>5, <1>6 DEF Works, Touches
<1>8. ~Unmade(k) /\ ~Unmade(k)' /\ \A l \in Links : Unmade(l)' <=> Unmade(l)
  <2>1. creator[k] \in {"none", "sent"}
    BY <1>4 DEF ProcessesInv, StepInv
  <2> QED
    BY <1>3, <1>4, <2>1 DEF Unmade
<1>9. DirInv'
  BY <1>1, <1>3, <1>8, SetupStays DEF DirInv
<1>10. BufferInv(k)'
  <2>1. Holding(k)' => main'[k] = "flushing"
    BY <1>4 DEF Holding
  <2>2. Succeeded(k)' => main'[k] = "verifying" /\ ok'[k]
    BY <1>3, <1>4, <1>7, Working DEF Succeeded, Wrote
  <2> QED
    BY <1>2, <1>3, <1>5, <2>1, <2>2, SetupStays DEF BufferInv
<1>11. ReplaceInv(k)'
  <2>1. SUFFICES ASSUME Replaces(k) PROVE ReplaceInv(k)'
    BY <1>3, SetupStays DEF ReplaceInv, Replaces
  <2>2. buffer[k] = k
    BY <1>1, <1>2, <2>1, SetupParts DEF ReplaceInv
  <2>3. k \in executable' => content'[k] # <<k, "partial">>
    BY <1>1, <1>5, <1>6, <2>1, <2>2 DEF ReplaceInv
  <2>4. \A i \in Inodes : content'[i] \in {<<k, "partial">>, <<k, "complete">>} => i = k
    BY <1>1, <1>5, <2>1, <2>2 DEF ReplaceInv
  <2>5. creator'[k] # "opening" /\ main'[k] # "creating"
    BY <1>3, <1>4, <1>8 DEF Unmade
  <2> QED
    BY <1>3, <1>8, <2>2, <2>3, <2>4, <2>5, SetupStays DEF ReplaceInv
<1> QED
  BY <1>7, <1>9, <1>10, <1>11, WorkStep
-----------------------------------------------------------------------------
(* The buffer of an output that has been created, whether or not anything  *)
(* else is in order.                                                       *)

Made == \A l \in Links : creator[l] = "sent" \/ main[l] \in {"writing", "flushing"} =>
          buffer[l] \in Inodes

(* Whoever has an output has a buffer for it. *)
LEMMA MadeStep ==
  ASSUME TypeOK, SetupOK, Made, [Next]_<<setup, vars>>
  PROVE  Made'
<1>0. UNCHANGED setup /\ Links' = Links /\ Inodes' = Inodes
  BY SetupStays DEF Next
<1> USE DEF tasks, files
<1>1. ASSUME UNCHANGED buffer,
             \A l \in Links :
               creator'[l] = "sent" \/ main'[l] \in {"writing", "flushing"} =>
                 creator[l] = "sent" \/ main[l] \in {"writing", "flushing"}
      PROVE  Made'
  BY <1>0, <1>1 DEF Made
<1>2. ASSUME NEW k \in Links, NEW created \in BOOLEAN, CreateOutput(k, created),
             \A l \in Links \ {k} : main'[l] = main[l] /\ creator'[l] = creator[l],
             creator'[k] = "sent" \/ main'[k] \in {"writing", "flushing"} =>
               created \/ creator[k] = "sent" \/ main[k] \in {"writing", "flushing"}
      PROVE  Made'
  <2>1. /\ created => OpenedInode(k) # None
        /\ buffer' = IF created THEN [buffer EXCEPT ![k] = OpenedInode(k)] ELSE buffer
    BY <1>2 DEF CreateOutput
  <2>2. OpenedInode(k) \in Inodes \cup {None}
    <3>1. OutputPath[k] \in Paths /\ k \in Inodes
      BY SetupParts
    <3> QED
      BY <3>1, Opened DEF TypeOK
  <2>3. \A l \in Links \ {k} : buffer'[l] = buffer[l]
    BY <2>1 DEF TypeOK
  <2>4. CASE created
    <3>1. buffer'[k] \in Inodes
      BY <2>1, <2>2, <2>4 DEF TypeOK
    <3> QED
      BY <1>0, <1>2, <2>3, <3>1 DEF Made
  <2>5. CASE ~created
    BY <1>0, <1>2, <2>1, <2>5 DEF Made
  <2> QED
    BY <2>4, <2>5
<1>3. ASSUME NEW k \in Links, CreateInBackground(k) PROVE Made'
  <2>1. PICK created \in BOOLEAN :
          /\ CreateOutput(k, created)
          /\ creator' = [creator EXCEPT ![k] = IF created THEN "sent" ELSE "failed"]
    BY <1>3 DEF CreateInBackground
  <2>2. UNCHANGED main
    BY <1>3 DEF CreateInBackground
  <2>3. /\ \A l \in Links \ {k} : creator'[l] = creator[l]
        /\ creator'[k] = IF created THEN "sent" ELSE "failed"
    BY <2>1 DEF TypeOK
  <2> QED
    BY <1>2, <2>1, <2>2, <2>3
<1>4. ASSUME NEW k \in Links, CreateNow(k) PROVE Made'
  <2>1. PICK created \in BOOLEAN :
          /\ CreateOutput(k, created)
          /\ main' = [main EXCEPT ![k] = IF created THEN "writing" ELSE "verifying"]
    BY <1>4 DEF CreateNow, Goes, Fails
  <2>2. UNCHANGED creator
    BY <1>4 DEF CreateNow
  <2>3. /\ \A l \in Links \ {k} : main'[l] = main[l]
        /\ main'[k] = IF created THEN "writing" ELSE "verifying"
    BY <2>1 DEF TypeOK
  <2> QED
    BY <1>2, <2>1, <2>2, <2>3
<1>5. ASSUME NEW k \in Links, MainStep(k), ~CreateNow(k) PROVE Made'
  <2>1. CASE Exit(k)
    BY <1>1, <2>1 DEF Exit, Ends, TypeOK
  <2>2. CASE LayOut(k)
    BY <1>1, <2>2 DEF LayOut, Goes, Fails, TypeOK
  <2>3. CASE Fork(k) \/ RunInProcess(k) \/ InformParent(k)
    BY <1>1, <2>3 DEF Fork, RunInProcess, InformParent, Goes, TypeOK
  <2>4. CASE LoadInputs(k) \/ WriteLayoutFile(k) \/ VerifyInputs(k) \/ WriteDependencyFile(k)
    BY <1>1, <2>4 DEF LoadInputs, WriteLayoutFile, VerifyInputs, WriteDependencyFile, Goes, Fails,
                      TypeOK
  <2>5. CASE ReceiveOutput(k) \/ RemoveOutput(k) \/ WriteOutput(k) \/ FlushOutput(k)
    BY <1>1, <2>5 DEF ReceiveOutput, RemoveOutput, WriteOutput, FlushOutput, Goes, Fails, TypeOK
  <2> QED
    BY <1>5, <2>1, <2>2, <2>3, <2>4, <2>5 DEF MainStep
<1>6. ASSUME NEW k \in Links, RenameOld(k) \/ RemoveOld(k) PROVE Made'
  BY <1>1, <1>6 DEF RenameOld, RemoveOld, TypeOK
<1>7. ASSUME NEW k \in Links, ParentReads(k) \/ Kill(k) PROVE Made'
  BY <1>1, <1>7 DEF ParentReads, Kill, Ends, TypeOK
<1>8. ASSUME UNCHANGED vars PROVE Made'
  BY <1>1, <1>8 DEF vars
<1> QED
  BY <1>0, <1>3, <1>4, <1>5, <1>6, <1>7, <1>8 DEF Next, TaskStep, AllEnded

-----------------------------------------------------------------------------
(* All steps *)

(* A step that moves one link without touching the files. *)
LEMMA QuietLink ==
  ASSUME SetupOK, FilesInv, UNCHANGED <<setup, buffer, kept, dir, content, executable>>,
         NEW k \in Links,
         \A l \in Links \ {k} : /\ parent'[l] = parent[l] /\ main'[l] = main[l] /\ ok'[l] = ok[l]
                                /\ pipe'[l] = pipe[l] /\ status'[l] = status[l]
                                /\ creator'[l] = creator[l],
         QuietFor(k), parent'[k] = "unstarted" => parent[k] = "unstarted"
  PROVE  FilesInv'
<1>1. ASSUME NEW l \in Links, l # k PROVE QuietFor(l)
  BY <1>1 DEF QuietFor, Holding, Succeeded, Wrote, Unmade
<1> QED
  BY <1>1, QuietStep

(* Every step keeps the files in order. *)
LEMMA FilesStep ==
  ASSUME SetupOK, TypeOK, ProcessesInv, FilesInv, OutputsAreNotTemporary,
         [Next]_<<setup, vars>>
  PROVE  FilesInv'
<1>0. UNCHANGED setup
  BY DEF Next
<1>a. \A l \in Links : ProcessInv(l) /\ StepInv(l)
  BY DEF ProcessesInv
<1> USE DEF tasks, files
<1>1. ASSUME NEW k \in Links, Fork(k) \/ RunInProcess(k) PROVE FilesInv'
  <2>1. /\ UNCHANGED <<buffer, kept, dir, content, executable, ok, pipe, status, creator>>
        /\ \A l \in Links \ {k} : parent'[l] = parent[l] /\ main'[l] = main[l]
        /\ parent'[k] # "unstarted" /\ main'[k] = "loading" /\ main[k] = "none"
    BY <1>1, <1>a DEF Fork, RunInProcess, MayStart, TypeOK, ProcessInv
  <2>2. QuietFor(k)
    BY <2>1 DEF QuietFor, Holding, Succeeded, Wrote, Unmade
  <2> QED
    BY <1>0, <2>1, <2>2, QuietLink
<1>2. ASSUME NEW k \in Links,
             \/ LoadInputs(k) \/ WriteLayoutFile(k) \/ ReceiveOutput(k) \/ VerifyInputs(k)
             \/ WriteDependencyFile(k)
      PROVE  FilesInv'
  <2>1. /\ UNCHANGED <<buffer, kept, dir, content, executable, parent, pipe, status, creator>>
        /\ \A l \in Links \ {k} : main'[l] = main[l] /\ ok'[l] = ok[l]
        /\ ok'[k] \in BOOLEAN
    BY <1>2 DEF LoadInputs, WriteLayoutFile, ReceiveOutput, VerifyInputs, WriteDependencyFile,
                Goes, Fails, TypeOK
  <2>2. \/ /\ ok'[k] = ok[k]
           /\ \/ main[k] = "loading" /\ main'[k] = "layout"
              \/ /\ main[k] = "layout_file"
                 /\ main'[k] = IF InBackground(k) THEN "receiving" ELSE "removing"
              \/ main[k] = "receiving" /\ main'[k] = "writing" /\ creator[k] = "sent"
              \/ main[k] = "verifying" /\ ok[k] /\ main'[k] = "depfile"
              \/ main[k] = "verifying" /\ ~ok[k] /\ main'[k] = "dropping"
              \/ main[k] = "depfile" /\ main'[k] = "informing"
        \/ ~ok'[k] /\ main'[k] \in {"verifying", "dropping"}
    BY <1>2 DEF LoadInputs, WriteLayoutFile, ReceiveOutput, VerifyInputs, WriteDependencyFile,
                Goes, Fails, TypeOK
  <2>3. StepInv(k)
    BY <1>a
  <2>4. Succeeded(k)' => Succeeded(k)
    BY <2>1, <2>2, <2>3 DEF Succeeded, Wrote, StepInv
  <2>5. Holding(k)' => Holding(k)
    BY <2>1, <2>2 DEF Holding
  <2>6. Unmade(k)' => Unmade(k)
    BY <2>1, <2>2, <2>3 DEF Unmade, StepInv
  <2>7. main'[k] # "creating"
    BY <2>2
  <2>8. QuietFor(k)
    BY <2>1, <2>4, <2>5, <2>6, <2>7 DEF QuietFor
  <2> QED
    BY <1>0, <2>1, <2>8, QuietLink
<1>3. ASSUME NEW k \in Links, LayOut(k) PROVE FilesInv'
  <2>1. /\ UNCHANGED <<buffer, kept, dir, content, executable, parent, pipe, status>>
        /\ \A l \in Links \ {k} : main'[l] = main[l] /\ ok'[l] = ok[l] /\ creator'[l] = creator[l]
        /\ main[k] = "layout" /\ creator[k] = "none"
        /\ \/ main'[k] = "layout_file" /\ creator'[k] \in {"renaming", "none"}
           \/ main'[k] = "verifying" /\ ~ok'[k] /\ creator'[k] = "none"
    BY <1>3, <1>a DEF LayOut, Goes, Fails, TypeOK, StepInv
  <2>2. QuietFor(k)
    BY <2>1 DEF QuietFor, Holding, Succeeded, Wrote, Unmade
  <2> QED
    BY <1>0, <2>1, <2>2, QuietLink
<1>4. ASSUME NEW k \in Links, InformParent(k) PROVE FilesInv'
  <2>1. /\ UNCHANGED <<buffer, kept, dir, content, executable, parent, ok, status, creator>>
        /\ \A l \in Links \ {k} : main'[l] = main[l] /\ pipe'[l] = pipe[l]
        /\ main[k] = "informing" /\ main'[k] = "dropping" /\ ok[k]
    BY <1>4, <1>a DEF InformParent, Goes, TypeOK, StepInv
  <2>2. QuietFor(k)
    BY <2>1 DEF QuietFor, Holding, Succeeded, Wrote, Unmade
  <2> QED
    BY <1>0, <2>1, <2>2, QuietLink
<1>5. ASSUME NEW k \in Links, NEW how \in Statuses, Ends(k, how),
             main[k] \notin {"none", "ended"}, how = Exited(0) => main[k] = "dropping" /\ ok[k]
      PROVE  FilesInv'
  <2>1. /\ \A l \in Links \ {k} : /\ main'[l] = main[l] /\ pipe'[l] = pipe[l]
                                  /\ status'[l] = status[l] /\ creator'[l] = creator[l]
                                  /\ parent'[l] = parent[l]
        /\ UNCHANGED <<ok, buffer, kept, dir, content, executable>>
        /\ main'[k] = "ended" /\ status'[k] = how /\ creator'[k] = "gone"
        /\ pipe'[k] = IF pipe[k] = "open" THEN "closed" ELSE pipe[k]
        /\ parent'[k] \in {"exited", parent[k]}
    BY <1>5 DEF Ends, TypeOK
  <2>2. QuietFor(k)
    BY <1>5, <2>1 DEF QuietFor, Holding, Succeeded, Wrote, Unmade
  <2> QED
    BY <1>0, <2>1, <2>2, QuietLink
<1>6. ASSUME NEW k \in Links, Exit(k) \/ Kill(k) PROVE FilesInv'
  BY <1>5, <1>6, StatusNumbers DEF Exit, Kill
<1>7. ASSUME NEW k \in Links, ParentReads(k) PROVE FilesInv'
  <2>1. /\ \A l \in Links \ {k} : parent'[l] = parent[l]
        /\ UNCHANGED <<main, status, ok, pipe, creator, buffer, kept, dir, content, executable>>
        /\ parent'[k] = "exited"
    BY <1>7 DEF ParentReads, TypeOK
  <2>2. QuietFor(k)
    BY <2>1 DEF QuietFor, Holding, Succeeded, Wrote, Unmade
  <2> QED
    BY <1>0, <2>1, <2>2, QuietLink
<1>8. ASSUME NEW k \in Links, CreateInBackground(k) PROVE FilesInv'
  <2>1. PICK created \in BOOLEAN :
          /\ CreateOutput(k, created)
          /\ creator' = [creator EXCEPT ![k] = IF created THEN "sent" ELSE "failed"]
    BY <1>8 DEF CreateInBackground
  <2>2. /\ creator[k] = "opening"
        /\ creator'[k] = IF created THEN "sent" ELSE "failed"
        /\ \A l \in Links \ {k} : creator'[l] = creator[l]
        /\ UNCHANGED <<parent, main, status, ok, pipe, kept, executable>>
    BY <1>8, <2>1 DEF CreateInBackground, TypeOK
  <2>3. Works(k) /\ Unmade(k)
    BY <2>2 DEF Works, Unmade
  <2>4. main[k] \notin {"writing", "flushing", "creating"} /\ ~Succeeded(k)
    BY <2>2, <2>3, Working
  <2>5. ~Unmade(k)' /\ creator'[k] # "opening" /\ main'[k] # "creating"
    BY <2>2, <2>4 DEF Unmade
  <2>6. ~Succeeded(k)' /\ (Holding(k)' => created)
    BY <2>2, <2>4 DEF Succeeded, Wrote, Holding
  <2> QED
    BY <1>0, <2>1, <2>2, <2>3, <2>5, <2>6, CreateFiles
<1>9. ASSUME NEW k \in Links, CreateNow(k) PROVE FilesInv'
  <2>1. PICK created \in BOOLEAN :
          /\ CreateOutput(k, created)
          /\ IF created THEN Goes(k, "creating", "writing") /\ UNCHANGED ok
             ELSE Fails(k, "creating")
    BY <1>9 DEF CreateNow
  <2>2. /\ main[k] = "creating"
        /\ main'[k] = IF created THEN "writing" ELSE "verifying"
        /\ ~created => ~ok'[k]
        /\ \A l \in Links \ {k} : main'[l] = main[l] /\ ok'[l] = ok[l]
        /\ UNCHANGED <<parent, status, creator, pipe, kept, executable>>
    BY <1>9, <2>1 DEF CreateNow, Goes, Fails, TypeOK
  <2>3. Works(k)
    BY <2>2 DEF Works
  <2>4. creator[k] = "none" /\ ~Succeeded(k)
    BY <2>2, <2>3, Working
  <2>5. Unmade(k) /\ ~Unmade(k)' /\ creator'[k] # "opening" /\ main'[k] # "creating"
    BY <2>2, <2>4 DEF Unmade
  <2>6. ~Succeeded(k)' /\ (Holding(k)' => created)
    BY <2>2, <2>4 DEF Succeeded, Wrote, Holding
  <2> QED
    BY <1>0, <2>1, <2>2, <2>3, <2>5, <2>6, CreateFiles
<1>10. ASSUME NEW k \in Links, RenameOld(k) PROVE FilesInv'
  BY <1>0, <1>10, RenameFiles
<1>11. ASSUME NEW k \in Links, RemoveOld(k) PROVE FilesInv'
  BY <1>0, <1>11, RemoveOldFiles
<1>12. ASSUME NEW k \in Links, RemoveOutput(k) PROVE FilesInv'
  BY <1>0, <1>12, RemoveOutputFiles
<1>13. ASSUME NEW k \in Links, WriteOutput(k) \/ FlushOutput(k) PROVE FilesInv'
  BY <1>0, <1>13, WriteFiles
<1>14. ASSUME UNCHANGED vars PROVE FilesInv'
  <2>1. \A l \in Links : QuietFor(l)
    BY <1>14 DEF vars, QuietFor, Holding, Succeeded, Wrote, Unmade
  <2> QED
    BY <1>0, <1>14, <2>1, QuietStep DEF vars
<1> QED
  BY <1>0, <1>1, <1>2, <1>3, <1>4, <1>6, <1>7, <1>8, <1>9, <1>10, <1>11, <1>12, <1>13, <1>14
     DEF Next, MainStep, TaskStep, AllEnded

-----------------------------------------------------------------------------
(* The theorems *)

LinkInv == TypeOK /\ SetupOK /\ Made /\ ProcessesInv /\ (OutputsAreNotTemporary => FilesInv)

(* The invariant holds of every link that is ever run. *)
THEOREM LinkInvariant == Spec => []LinkInv
<1>1. Init => LinkInv
  <2>1. Init => Made
    BY DEF Init, Made
  <2> QED
    BY <2>1, TypeInit, ProcessInit, FilesInit DEF LinkInv
<1>2. LinkInv /\ [Next]_<<setup, vars>> => LinkInv'
  <2> SUFFICES ASSUME LinkInv, [Next]_<<setup, vars>> PROVE LinkInv'
    OBVIOUS
  <2>1. TypeOK /\ SetupOK /\ Made /\ ProcessesInv
    BY DEF LinkInv
  <2>2. ProcessesInv' /\ Made'
    BY <2>1, ProcessStep, MadeStep
  <2>3. TypeOK' /\ SetupOK'
    BY <2>1, TypeStep DEF Made, ProcessesInv, ProcessInv
  <2>4. OutputsAreNotTemporary' => OutputsAreNotTemporary
    <3>1. UNCHANGED setup
      BY DEF Next
    <3> QED
      BY <3>1, SetupStays DEF OutputsAreNotTemporary
  <2>5. OutputsAreNotTemporary' => FilesInv'
    BY <2>1, <2>4, FilesStep DEF LinkInv
  <2> QED
    BY <2>2, <2>3, <2>5 DEF LinkInv
<1> QED
  BY <1>1, <1>2, PTL DEF Spec

(* Every state of the processes, their tasks and the files is well typed. *)
THEOREM LinkTypeCorrect == Spec => []TypeOK
  BY LinkInvariant, PTL DEF LinkInv

(* Whatever links run at once and whatever is killed or fails, a link that *)
(* replaces its output, and was not refused renaming or removing the old   *)
(* one, writes to no file that was there before, and the file that it      *)
(* makes is not executable before it is complete.                          *)
THEOREM ReplacementIsSafe == Spec => [](OutputsAreNotTemporary => OldFileUntouched)
<1>1. LinkInv => (OutputsAreNotTemporary => OldFileUntouched)
  <2> SUFFICES ASSUME TypeOK, SetupOK, FilesInv, NEW l \in Links, Replaces(l)
               PROVE  /\ \A p \in Existing : content[p][1] # l
                      /\ \A i \in executable : content[i] # <<l, "partial">>
    BY DEF LinkInv, OldFileUntouched
  <2>1. /\ \A i \in Inodes : content[i] \in {<<l, "partial">>, <<l, "complete">>} => i = l
        /\ l \in executable => content[l] # <<l, "partial">>
    BY DEF FilesInv, ReplaceInv
  <2>2. ASSUME NEW p \in Existing PROVE content[p][1] # l
    <3>1. p \in Inodes /\ p # l /\ l # 0
      BY SetupParts
    <3>2. content[p] \in {<<0, "old">>} \cup (Links \X {"partial", "complete"})
      BY <3>1 DEF TypeOK, Contents, Old
    <3> QED
      BY <2>1, <3>1, <3>2
  <2>3. ASSUME NEW i \in executable PROVE content[i] # <<l, "partial">>
    BY <2>1 DEF TypeOK
  <2> QED
    BY <2>2, <2>3
<1> QED
  BY <1>1, LinkInvariant, PTL

(* A parent that reports success has a complete output at its path, unless *)
(* a later link has begun to write there, although its child and the tasks *)
(* in it may still be running.  A child that is forked and dies of a       *)
(* signal is excluded: its wait status is read as an exit code of zero.    *)
THEOREM SuccessIsComplete ==
  Spec => [](OutputsAreNotTemporary /\ Killable \cap Forking = {} => SuccessMeansComplete)
<1>1. LinkInv => (OutputsAreNotTemporary /\ Killable \cap Forking = {} => SuccessMeansComplete)
  <2> SUFFICES ASSUME SetupOK, ProcessesInv, FilesInv, Killable \cap Forking = {}, NEW l \in Links,
                      code[l] = Exited(0)
               PROVE  /\ ok[l]
                      /\ Latest(l) => LET i == dir[OutputPath[l]]
                                      IN i # None /\ content[i] = <<l, "complete">>
    BY DEF LinkInv, SuccessMeansComplete
  <2>1. ProcessInv(l) /\ BufferInv(l)
    BY DEF ProcessesInv, FilesInv
  <2>2. Succeeded(l) /\ ok[l]
    BY <2>1 DEF ProcessInv, Succeeded
  <2> QED
    BY <2>1, <2>2, SetupParts DEF BufferInv
<1> QED
  BY <1>1, LinkInvariant, PTL
=============================================================================
