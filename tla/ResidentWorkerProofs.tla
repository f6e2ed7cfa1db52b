------------------------ MODULE ResidentWorkerProofs ------------------------
(***************************************************************************)
(* What the resident worker promises of the bytes that it links and of the *)
(* manifests that it leaves, for any clients, inputs, edits, failures and  *)
(* stops.                                                                  *)
(***************************************************************************)
EXTENDS ResidentWorker, FiniteSetTheorems, TLAPS

SetupOK == setup \in Setups

(* The setup stays. *)
LEMMA SetupStays ==
  ASSUME UNCHANGED setup
  PROVE  /\ Inputs' = Inputs /\ Files' = Files /\ Structure' = Structure /\ Helper' = Helper
         /\ CanRestore' = CanRestore /\ MaxEdits' = MaxEdits /\ Inodes' = Inodes /\ Stamp' = Stamp
         /\ Entries' = Entries /\ SetupOK' = SetupOK
         /\ \A c : LoadedFiles(c)' = LoadedFiles(c)
  BY DEF LoadedFiles, Inputs, Files, Structure, Helper, CanRestore, MaxEdits, Inodes, Stamp, Entries, SetupOK

(* The parts of a setup. *)
LEMMA SetupParts ==
  ASSUME SetupOK
  PROVE  /\ MaxEdits \in Nat /\ Files \cap (1 .. MaxEdits) = {} /\ Files \subseteq Inodes
         /\ \A c \in Clients : Inputs[c] \subseteq Files /\ StateDir(c) \in StateDirs
         /\ \A c : LoadedFiles(c) \subseteq Inputs[c]
  BY ResidentWorkerAssumption
     DEF LoadedFiles, SetupOK, IsSetup, MaxEdits, Files, Inputs, Inodes, StateDirs

-----------------------------------------------------------------------------
(* Where the request is *)

Working == step \in {"reading", "opening", "linking", "verifying", "digesting", "comparing",
                     "syncing", "renaming", "publishing", "replying"}
Recording == step \in {"digesting", "comparing", "syncing", "renaming", "publishing"}

(* A request has a client, and what belongs to a link is empty before it. *)
StepInv ==
  /\ step \in {"none", "polling", "leaving", "reading", "opening", "linking", "verifying",
               "digesting", "comparing", "syncing", "renaming", "publishing", "replying"}
  /\ Working => client \in Clients
  /\ result \in {"ok", "failed"}
  /\ step \in {"none", "polling", "leaving", "reading"} =>
       /\ seen = Everywhere(None) /\ mapped = Everywhere(None) /\ consumed = Everywhere({})
       /\ verified = {} /\ digest = Everywhere(None) /\ previous = None
  /\ step \in {"opening", "linking", "verifying"} => previous = None
  /\ step \in {"opening", "linking"} => verified = {}
  /\ step = "verifying" => \A f \in Inputs[client] : consumed[f] # {}
  /\ step \in {"opening", "linking", "verifying"} \/ Linked =>
       /\ verified \subseteq Inputs[client]
       /\ \A f \in Files : recorded[f] # None =>
            f \in Inputs[client] /\ seen[f] = recorded[f]
       /\ \A f \in Files : seen[f] # None => f \in Inputs[client]
       /\ \A f \in Files : mapped[f] # None => recorded[f] # None /\ mapped[f].stamp = recorded[f]
  /\ Linked => verified = LoadedFiles(client)

-----------------------------------------------------------------------------
(* Types *)

(* A manifest of inputs in F with stamps in S. *)
ManifestIn(m, F, S) ==
  /\ DOMAIN m = {"structure", "generation", "inputs", "synced", "output", "bytes",
               "verified"}
  /\ m.generation \in Nat \ {0} /\ m.synced \in BOOLEAN
  /\ DOMAIN m.inputs \subseteq F
  /\ \A f \in DOMAIN m.inputs : /\ m.inputs[f].stamp \in S
                                /\ m.inputs[f].digest \in OrNone(Contents)

(* The types of the files and of the link. *)
FileTypes ==
  /\ edits \in 0 .. MaxEdits
  /\ disk \in [Files -> Inodes]
  /\ inode \in [Inodes -> [content : Contents, stamp : Stamp]]

LinkTypes ==
  /\ clients \in [Clients -> {"start", "queued", "served", "ok", "failed"}]
  /\ client \in OrNone(Clients)
  /\ cache \in [Files -> OrNone(Entries)] /\ mapped \in [Files -> OrNone(Entries)]
  /\ recorded \in [Files -> OrNone(Stamp)] /\ seen \in [Files -> OrNone(Stamp)]
  /\ consumed \in [Files -> SUBSET Contents] /\ current \in [Files -> SUBSET Contents]
  /\ verified \subseteq Files
  /\ digest \in [Files -> OrNone(Contents)]

ManifestTypes ==
  /\ manifest = [d \in StateDirs |-> manifest[d]] /\ durable = [d \in StateDirs |-> durable[d]]
  /\ \A d \in StateDirs :
       /\ manifest[d] \in {None, Torn} \/ ManifestIn(manifest[d], Files, Stamp)
       /\ durable[d] \in {None, Torn} \/ ManifestIn(durable[d], Files, Stamp)
  /\ temporary = None \/ ManifestIn(temporary, Files, Stamp)
  /\ step \in {"syncing", "renaming"} => ManifestIn(temporary, Files, Stamp)

Types == FileTypes /\ LinkTypes /\ ManifestTypes

(* A manifest is not what is left of a torn file. *)
LEMMA ManifestIsNotTorn ==
  ASSUME NEW m, NEW F, NEW S, ManifestIn(m, F, S)
  PROVE  m # Torn
  BY DEF ManifestIn, Torn

(* These are the types of the module. *)
LEMMA TypesSuffice == Types => TypeOK
  BY DEF Types, FileTypes, LinkTypes, ManifestTypes, TypeOK, IsManifest, ManifestIn

(* Initially all is well typed. *)
LEMMA TypeInit == Init => Types /\ SetupOK
<1> SUFFICES ASSUME Init PROVE Types /\ SetupOK
  OBVIOUS
<1>1. SetupOK
  BY DEF Init, SetupOK
<1>2. FileTypes
  BY <1>1, SetupParts DEF Init, FileTypes, Stamp
<1>3. LinkTypes
  BY DEF Init, LinkTypes, Everywhere, OrNone
<1>4. ManifestTypes
  BY DEF Init, ManifestTypes
<1> QED
  BY <1>1, <1>2, <1>3, <1>4 DEF Types

(* An edit keeps the files well typed. *)
LEMMA EditType ==
  ASSUME SetupOK, FileTypes, UNCHANGED setup, NEW f \in Files,
         Restore(f) \/ \E x \in Contents : Replace(f, x) \/ EditInPlace(f, x)
  PROVE  FileTypes'
<1>1. MaxEdits \in Nat /\ f \in Inodes /\ disk[f] \in Inodes
  BY SetupParts DEF FileTypes
<1>2. CASE Restore(f)
  BY <1>1, <1>2, SetupStays DEF Restore, FileTypes
<1>3. ASSUME NEW x \in Contents, Replace(f, x) PROVE FileTypes'
  <2>1. edits + 1 \in Inodes /\ edits + 1 \in Stamp /\ edits' = edits + 1
    BY <1>1, <1>3 DEF Replace, FileTypes, Inodes, Stamp
  <2>2. inode' \in [Inodes -> [content : Contents, stamp : Stamp]] /\ disk' \in [Files -> Inodes]
    BY <1>3, <2>1 DEF Replace, FileTypes
  <2> QED
    BY <2>1, <2>2, SetupStays DEF FileTypes, Stamp
<1>4. ASSUME NEW x \in Contents, EditInPlace(f, x) PROVE FileTypes'
  <2>1. edits + 1 \in Stamp /\ edits' = edits + 1
    BY <1>1, <1>4 DEF EditInPlace, FileTypes, Stamp
  <2>2. inode' \in [Inodes -> [content : Contents, stamp : Stamp]] /\ UNCHANGED disk
    BY <1>1, <1>4, <2>1 DEF EditInPlace, FileTypes
  <2> QED
    BY <2>1, <2>2, SetupStays DEF FileTypes, Stamp
<1> QED
  BY <1>2, <1>3, <1>4

(* What is kept of a link is well typed, whatever happens. *)
LEMMA LinkTypeStep ==
  ASSUME SetupOK, FileTypes, LinkTypes, StepInv, [Next]_<<setup, vars>>
  PROVE  LinkTypes'
<1>0. UNCHANGED setup
  BY DEF Next
<1> USE DEF files, state, process, caching, opened, OrNone
<1>a. LinkTypes' <=>
        /\ clients' \in [Clients -> {"start", "queued", "served", "ok", "failed"}]
        /\ client' \in OrNone(Clients)
        /\ cache' \in [Files -> OrNone(Entries)] /\ mapped' \in [Files -> OrNone(Entries)]
        /\ recorded' \in [Files -> OrNone(Stamp)] /\ seen' \in [Files -> OrNone(Stamp)]
        /\ consumed' \in [Files -> SUBSET Contents] /\ current' \in [Files -> SUBSET Contents]
        /\ verified' \subseteq Files
        /\ digest' \in [Files -> OrNone(Contents)]
  BY <1>0, SetupStays DEF LinkTypes
<1>b. \A f \in Files : StampAt(f) \in Stamp /\ ContentAt(f) \in Contents
  BY DEF FileTypes, StampAt, ContentAt
<1>1. ASSUME NEW f \in Files, Restore(f) \/ \E x \in Contents : Replace(f, x) \/ EditInPlace(f, x)
      PROVE  LinkTypes'
  <2>1. PICK x \in Contents : NoteContent(f, x)
    <3>1. f \in Inodes
      BY SetupParts
    <3> QED
      BY <1>1, <3>1 DEF Restore, Replace, EditInPlace, FileTypes
  <2>2. current' \in [Files -> SUBSET Contents]
    BY <2>1 DEF NoteContent, LinkTypes
  <2>3. EditUnchanged
    BY <1>1 DEF Restore, Replace, EditInPlace
  <2> QED
    BY <1>a, <2>2, <2>3 DEF EditUnchanged, LinkTypes
<1>2. CASE UNCHANGED <<clients, client, caching, opened, current, digest>>
  BY <1>a, <1>2 DEF LinkTypes
<1>3. CASE WorkerGone
  BY <1>a, <1>0, <1>3, SetupStays DEF WorkerGone, DropLink, LinkTypes, Everywhere
<1>4. CASE Reply
  <2>1. clients' \in [Clients -> {"start", "queued", "served", "ok", "failed"}]
    BY <1>4 DEF Reply, LinkTypes, StepInv
  <2>2. cache' \in [Files -> OrNone(Entries)]
    BY <1>4 DEF Reply, LinkTypes
  <2> QED
    BY <1>a, <1>0, <1>4, <2>1, <2>2, SetupStays DEF Reply, DropLink, LinkTypes, Everywhere
<1>5. ASSUME NEW c \in Clients, Accept(c) \/ Connect(c) PROVE LinkTypes'
  BY <1>a, <1>5 DEF Accept, Connect, LinkTypes
<1>6. CASE StartRecording
  <2>1. recorded' \in [Files -> OrNone(Stamp)] /\ current' \in [Files -> SUBSET Contents]
    BY <1>0, <1>6, <1>b, SetupStays DEF StartRecording, Everywhere
  <2> QED
    BY <1>a, <1>6, <2>1 DEF StartRecording, LinkTypes
<1>7. ASSUME NEW f \in Files, ReadMetadata(f) PROVE LinkTypes'
  <2>1. seen' \in [Files -> OrNone(Stamp)]
    BY <1>7, <1>b DEF ReadMetadata, LinkTypes
  <2> QED
    BY <1>a, <1>7, <2>1 DEF ReadMetadata, LinkTypes
<1>8. ASSUME NEW f \in Files, OpenInput(f) PROVE LinkTypes'
  <2>1. seen[f] \in Stamp /\ disk[f] \in Inodes
    BY <1>8 DEF OpenInput, LinkTypes, FileTypes
  <2>2. PICK e \in OrNone(Entries) : /\ mapped' = [mapped EXCEPT ![f] = e]
                                     /\ cache' = [cache EXCEPT ![f] = e]
    <3>1. (IF CachedUnchanged(f) THEN cache[f] ELSE [inode |-> disk[f], stamp |-> seen[f]])
            \in OrNone(Entries)
      BY <2>1 DEF LinkTypes, Entries
    <3> QED
      BY <1>8, <3>1 DEF OpenInput
  <2>3. mapped' \in [Files -> OrNone(Entries)] /\ cache' \in [Files -> OrNone(Entries)]
    BY <2>2 DEF LinkTypes
  <2>4. recorded' \in [Files -> OrNone(Stamp)]
    BY <1>8, <2>1 DEF OpenInput, LinkTypes
  <2> QED
    BY <1>a, <1>8, <2>3, <2>4 DEF OpenInput, LinkTypes
<1>9. ASSUME NEW f \in Files, ReadInput(f) PROVE LinkTypes'
  <2>1. inode[mapped[f].inode].content \in Contents
    BY <1>9 DEF ReadInput, LinkTypes, FileTypes, Entries
  <2>2. consumed' \in [Files -> SUBSET Contents]
    BY <1>9, <2>1 DEF ReadInput, LinkTypes
  <2> QED
    BY <1>a, <1>9, <2>2 DEF ReadInput, LinkTypes
<1>10. ASSUME NEW f \in Files, VerifyUnchanged(f) PROVE LinkTypes'
  <2>1. verified' \subseteq Files
    BY <1>10 DEF VerifyUnchanged, LinkTypes
  <2> QED
    BY <1>a, <1>10, <2>1 DEF VerifyUnchanged, LinkTypes
<1>11. ASSUME NEW f \in Files, ResolveDigest(f) PROVE LinkTypes'
  <2>1. digest' \in [Files -> OrNone(Contents)]
    BY <1>11, <1>b DEF ResolveDigest, LinkTypes
  <2> QED
    BY <1>a, <1>11, <2>1 DEF ResolveDigest, LinkTypes
<1>12. CASE DigestsResolved
  <2>1. digest' \in [Files -> OrNone(Contents)]
    BY <1>0, <1>12, SetupStays DEF DigestsResolved, LinkTypes, Everywhere
  <2> QED
    BY <1>a, <1>12, <2>1 DEF DigestsResolved, LinkTypes
<1>13. CASE \/ StartSession \/ SessionEnds \/ PollTimesOut \/ BadRequest \/ AllOpened \/ LinkFails
            \/ OutputWritten \/ LinkCompleted \/ WriteTemporary \/ SyncTemporary \/ PublishManifest
            \/ SyncDirectory \/ RecordFails
  BY <1>2, <1>13 DEF StartSession, SessionEnds, PollTimesOut, BadRequest, AllOpened, LinkFails,
       OutputWritten, LinkCompleted, WriteTemporary, SyncTemporary, PublishManifest, SyncDirectory,
       RecordFails
<1>14. CASE KillWorker \/ MachineStops \/ Leave
  BY <1>3, <1>14 DEF KillWorker, MachineStops, Leave
<1>15. CASE UNCHANGED vars
  BY <1>2, <1>15 DEF vars
<1> QED
  BY <1>1, <1>4, <1>5, <1>6, <1>7, <1>8, <1>9, <1>10, <1>11, <1>12, <1>13, <1>14, <1>15
     DEF Next, WorkerStep, Environment

(* The manifests stay well typed. *)
LEMMA ManifestTypeStep ==
  ASSUME SetupOK, Types, StepInv, [Next]_<<setup, vars>>
  PROVE  ManifestTypes'
<1>0. UNCHANGED setup
  BY DEF Next
<1> USE DEF files, state, process, caching, opened
<1>a. ManifestTypes' <=>
        /\ manifest' = [d \in StateDirs |-> manifest'[d]] /\ durable' = [d \in StateDirs |-> durable'[d]]
        /\ \A d \in StateDirs :
             /\ manifest'[d] \in {None, Torn} \/ ManifestIn(manifest'[d], Files, Stamp)
             /\ durable'[d] \in {None, Torn} \/ ManifestIn(durable'[d], Files, Stamp)
        /\ temporary' = None \/ ManifestIn(temporary', Files, Stamp)
        /\ step' \in {"syncing", "renaming"} => ManifestIn(temporary', Files, Stamp)
  BY <1>0, SetupStays DEF ManifestTypes
<1>b. ManifestTypes
  BY DEF Types
<1>1. CASE UNCHANGED state /\ (step' \in {"syncing", "renaming"} => step \in {"syncing", "renaming"})
  BY <1>a, <1>b, <1>1 DEF ManifestTypes
<1>2. CASE WriteTemporary
  <2> DEFINE old == ReadManifest
             new == [structure |-> Structure[client],
                     generation |-> IF old = None THEN 1 ELSE old.generation + 1,
                     inputs |-> Identities, synced |-> FALSE,
                     output |-> Output(client), bytes |-> consumed, verified |-> verified]
  <2>1. client \in Clients /\ StateDir(client) \in StateDirs
    BY <1>2, SetupParts DEF WriteTemporary, StepInv, Working
  <2>2. old # None => old.generation \in Nat
    BY <1>b, <2>1 DEF ReadManifest, ManifestTypes, ManifestIn
  <2>3. /\ DOMAIN Identities \subseteq Files
        /\ \A f \in DOMAIN Identities : /\ Identities[f].stamp \in Stamp
                                        /\ Identities[f].digest \in OrNone(Contents)
    BY DEF Identities, Types, LinkTypes, OrNone
  <2>4. ManifestIn(new, Files, Stamp)
    <3> DEFINE n == IF old = None THEN 1 ELSE old.generation + 1
    <3>1. n \in Nat \ {0}
      BY <2>2
    <3>2. /\ new.generation = n /\ new.synced = FALSE /\ new.inputs = Identities
          /\ DOMAIN new = {"structure", "generation", "inputs", "synced", "output", "bytes",
               "verified"}
      OBVIOUS
    <3> HIDE DEF new, n
    <3> QED
      BY <2>3, <3>1, <3>2 DEF ManifestIn
  <2>5. \/ step' = "replying" /\ UNCHANGED temporary
        \/ step' = "syncing" /\ temporary' = new
    BY <1>2 DEF WriteTemporary, Responds
  <2>6. UNCHANGED <<manifest, durable>>
    BY <1>2 DEF WriteTemporary
  <2> QED
    BY <1>a, <1>b, <2>4, <2>5, <2>6 DEF ManifestTypes
<1>3. CASE SyncTemporary
  <2>1. ManifestIn(temporary, Files, Stamp)
    BY <1>3, <1>b DEF SyncTemporary, ManifestTypes
  <2>2. temporary' = [temporary EXCEPT !.synced = TRUE] /\ UNCHANGED <<manifest, durable>>
    BY <1>3 DEF SyncTemporary
  <2>3. /\ DOMAIN temporary' = DOMAIN temporary /\ temporary'.synced = TRUE
        /\ temporary'.inputs = temporary.inputs /\ temporary'.generation = temporary.generation
    BY <2>1, <2>2 DEF ManifestIn
  <2>4. ManifestIn(temporary', Files, Stamp)
    BY <2>1, <2>3 DEF ManifestIn
  <2> QED
    BY <1>a, <1>b, <2>2, <2>4 DEF ManifestTypes
<1>4. CASE PublishManifest
  <2>1. ManifestIn(temporary, Files, Stamp)
    BY <1>4, <1>b DEF PublishManifest, ManifestTypes
  <2>2. /\ manifest' = [manifest EXCEPT ![StateDir(client)] = temporary]
        /\ temporary' = None /\ step' = "publishing" /\ UNCHANGED durable
    BY <1>4 DEF PublishManifest
  <2> QED
    BY <1>a, <1>b, <2>1, <2>2 DEF ManifestTypes
<1>5. CASE SyncDirectory
  <2>1. client \in Clients /\ StateDir(client) \in StateDirs
    BY <1>5, SetupParts DEF SyncDirectory, StepInv, Working
  <2>2. /\ durable' = [durable EXCEPT ![StateDir(client)] = manifest[StateDir(client)]]
        /\ step' = "replying" /\ UNCHANGED <<manifest, temporary>>
    BY <1>5 DEF SyncDirectory, Responds
  <2> QED
    BY <1>a, <1>b, <2>1, <2>2 DEF ManifestTypes
<1>6. CASE RecordFails
  BY <1>a, <1>b, <1>6 DEF RecordFails, Responds, ManifestTypes
<1>7. CASE MachineStops
  <2>1. PICK survives \in SUBSET StateDirs :
          manifest' = [d \in StateDirs |->
            IF d \notin survives THEN durable[d]
            ELSE IF manifest[d] \notin {None, Torn} /\ ~manifest[d].synced THEN Torn
            ELSE manifest[d]]
    BY <1>7 DEF MachineStops
  <2>2. durable' = manifest' /\ temporary' = None /\ step' = "none"
    BY <1>7 DEF MachineStops, WorkerGone
  <2>3. \A d \in StateDirs : manifest'[d] \in {durable[d], manifest[d], Torn}
    BY <2>1
  <2>4. manifest' = [d \in StateDirs |-> manifest'[d]]
    BY <2>1
  <2> QED
    BY <1>a, <1>b, <2>2, <2>3, <2>4 DEF ManifestTypes
<1>8. CASE KillWorker
  BY <1>a, <1>b, <1>8 DEF KillWorker, WorkerGone, ManifestTypes
<1>9. ASSUME NEW f \in Files, Restore(f) \/ \E x \in Contents : Replace(f, x) \/ EditInPlace(f, x)
      PROVE  ManifestTypes'
  BY <1>1, <1>9 DEF Restore, Replace, EditInPlace, EditUnchanged
<1>10. ASSUME NEW f \in Files,
              ReadMetadata(f) \/ OpenInput(f) \/ ReadInput(f) \/ VerifyUnchanged(f) \/ ResolveDigest(f)
       PROVE  ManifestTypes'
  BY <1>1, <1>10 DEF ReadMetadata, OpenInput, ReadInput, VerifyUnchanged, ResolveDigest, Responds
<1>11. ASSUME NEW c \in Clients, Accept(c) \/ Connect(c) PROVE ManifestTypes'
  BY <1>1, <1>11 DEF Accept, Connect
<1>12. CASE \/ StartSession \/ SessionEnds \/ PollTimesOut \/ BadRequest \/ StartRecording \/ AllOpened
            \/ LinkFails \/ OutputWritten \/ LinkCompleted \/ DigestsResolved \/ Reply \/ Leave
  BY <1>1, <1>12 DEF StartSession, SessionEnds, PollTimesOut, BadRequest, StartRecording, AllOpened,
       LinkFails, OutputWritten, LinkCompleted, DigestsResolved, Reply, Leave, WorkerGone, Responds
<1>13. CASE UNCHANGED vars
  BY <1>1, <1>13 DEF vars
<1> QED
  BY <1>2, <1>3, <1>4, <1>5, <1>6, <1>7, <1>8, <1>9, <1>10, <1>11, <1>12, <1>13
     DEF Next, WorkerStep, Environment

(* Every step keeps the types. *)
LEMMA TypeStep ==
  ASSUME SetupOK, Types, StepInv, [Next]_<<setup, vars>>
  PROVE  Types' /\ SetupOK'
<1>0. UNCHANGED setup /\ SetupOK'
  BY DEF Next, SetupOK
<1>1. FileTypes'
  <2>1. ASSUME UNCHANGED files PROVE FileTypes'
    BY <1>0, <2>1, SetupStays DEF Types, FileTypes, files
  <2>2. ASSUME NEW f \in Files, Restore(f) \/ \E x \in Contents : Replace(f, x) \/ EditInPlace(f, x)
        PROVE  FileTypes'
    BY <1>0, <2>2, EditType DEF Types
  <2>3. CASE WorkerStep \/ StartSession \/ SessionEnds \/ KillWorker \/ MachineStops
             \/ \E c \in Clients : Connect(c)
    BY <2>1, <2>3 DEF WorkerStep, StartSession, SessionEnds, KillWorker, MachineStops, Connect,
         WorkerGone, Accept, BadRequest, StartRecording, ReadMetadata, OpenInput, ReadInput,
         VerifyUnchanged, ResolveDigest, AllOpened, LinkFails, OutputWritten, LinkCompleted,
         DigestsResolved, WriteTemporary, SyncTemporary, PublishManifest, SyncDirectory, RecordFails,
         Reply, PollTimesOut, Leave
  <2>4. CASE UNCHANGED vars
    BY <2>1, <2>4 DEF vars
  <2> QED
    BY <2>2, <2>3, <2>4 DEF Next, Environment
<1> QED
  BY <1>0, <1>1, LinkTypeStep, ManifestTypeStep DEF Types

-----------------------------------------------------------------------------
(* The steps of a request *)

(* Initially there is none. *)
LEMMA StepInit == Init => StepInv
  BY DEF Init, StepInv, Working, Linked, Everywhere

(* Every step keeps the order of a request. *)
LEMMA StepStep ==
  ASSUME SetupOK, Types, StepInv, [Next]_<<setup, vars>>
  PROVE  StepInv'
<1>0. UNCHANGED setup
  BY DEF Next
<1>a. /\ Files' = Files /\ Inputs' = Inputs /\ \A x : Everywhere(x)' = Everywhere(x)
      /\ \A c : LoadedFiles(c)' = LoadedFiles(c)
  BY <1>0, SetupStays DEF Everywhere
<1> USE DEF files, state, process, caching, opened
<1>1. CASE UNCHANGED <<step, client, result, caching, opened, digest, previous>>
  BY <1>a, <1>1 DEF StepInv, Working, Linked
<1>2. CASE WorkerGone
  BY <1>a, <1>2 DEF WorkerGone, DropLink, StepInv, Working, Linked
<1>3. CASE Reply
  BY <1>a, <1>3 DEF Reply, DropLink, StepInv, Working, Linked
<1>4. CASE StartSession \/ PollTimesOut
  BY <1>a, <1>4 DEF StartSession, PollTimesOut, StepInv, Working, Linked
<1>5. ASSUME NEW c \in Clients, Accept(c) PROVE StepInv'
  BY <1>a, <1>5 DEF Accept, StepInv, Working, Linked
<1>6. CASE BadRequest \/ LinkFails
  BY <1>a, <1>6 DEF BadRequest, LinkFails, Responds, StepInv, Working, Linked
<1>7. CASE StartRecording
  <2>1. \A f \in Files : recorded'[f] = None /\ mapped'[f] = None
    BY <1>a, <1>7 DEF StartRecording, StepInv, Everywhere
  <2>2. /\ UNCHANGED <<client, opened, digest, previous>>
        /\ step = "reading"
        /\ \/ step' = "opening" /\ UNCHANGED result
           \/ step' = "replying" /\ result' = "failed"
    BY <1>7 DEF StartRecording, Responds
  <2> QED
    BY <1>a, <2>1, <2>2 DEF StepInv, Working, Linked
<1>8. ASSUME NEW f \in Files, ReadMetadata(f) PROVE StepInv'
  <2>1. /\ step = "opening" /\ seen[f] = None /\ f \in Inputs[client]
        /\ \A g \in Files \ {f} : seen'[g] = seen[g]
        /\ UNCHANGED <<step, client, result, caching, mapped, consumed, verified, digest, previous>>
    BY <1>8 DEF ReadMetadata, Types, LinkTypes
  <2>2. recorded[f] = None
    BY <2>1 DEF StepInv
  <2> QED
    BY <1>a, <2>1, <2>2 DEF StepInv, Working, Linked
<1>9. ASSUME NEW f \in Files, OpenInput(f) PROVE StepInv'
  <2>1. /\ step = "opening" /\ seen[f] # None
        /\ \A g \in Files \ {f} : mapped'[g] = mapped[g] /\ recorded'[g] = recorded[g]
        /\ recorded'[f] = seen[f]
        /\ UNCHANGED <<step, client, result, seen, consumed, verified, digest, previous>>
    BY <1>9 DEF OpenInput, Types, LinkTypes
  <2>2. mapped'[f].stamp = seen[f]
    <3>1. CASE CachedUnchanged(f)
      BY <1>9, <3>1 DEF OpenInput, CachedUnchanged, Types, LinkTypes
    <3>2. CASE ~CachedUnchanged(f)
      BY <1>9, <3>2 DEF OpenInput, Types, LinkTypes
    <3> QED
      BY <3>1, <3>2
  <2>3. f \in Inputs[client]
    BY <2>1 DEF StepInv
  <2> QED
    BY <1>a, <2>1, <2>2, <2>3 DEF StepInv, Working, Linked
<1>10. ASSUME NEW f \in Files, ReadInput(f) PROVE StepInv'
  <2>1. /\ step \in {"opening", "linking"}
        /\ UNCHANGED <<step, client, result, caching, seen, mapped, verified, digest, previous>>
    BY <1>10 DEF ReadInput
  <2> QED
    BY <1>a, <2>1 DEF StepInv, Working, Linked
<1>11. CASE AllOpened \/ OutputWritten
  BY <1>a, <1>11 DEF AllOpened, OutputWritten, StepInv, Working, Linked
<1>12. ASSUME NEW f \in Files, VerifyUnchanged(f) PROVE StepInv'
  <2>1. /\ step = "verifying" /\ f \in Inputs[client]
        /\ \/ verified' = verified \cup {f} /\ UNCHANGED <<step, result>>
           \/ step' = "replying" /\ result' = "failed" /\ UNCHANGED verified
        /\ UNCHANGED <<client, caching, seen, mapped, consumed, digest, previous>>
    BY <1>12, SetupParts DEF VerifyUnchanged, Responds
  <2> QED
    BY <1>a, <2>1 DEF StepInv, Working, Linked
<1>13. CASE LinkCompleted
  BY <1>a, <1>13 DEF LinkCompleted, Responds, StepInv, Working, Linked
<1>14. ASSUME NEW f \in Files, ResolveDigest(f) PROVE StepInv'
  BY <1>a, <1>14 DEF ResolveDigest, StepInv, Working, Linked
<1>15. CASE DigestsResolved \/ WriteTemporary
  BY <1>a, <1>15 DEF DigestsResolved, WriteTemporary, Responds, StepInv, Working, Linked
<1>16. CASE SyncTemporary \/ PublishManifest \/ SyncDirectory \/ RecordFails
  BY <1>a, <1>16 DEF SyncTemporary, PublishManifest, SyncDirectory, RecordFails, Responds, StepInv,
       Working, Linked
<1>17. ASSUME NEW f \in Files, Restore(f) \/ \E x \in Contents : Replace(f, x) \/ EditInPlace(f, x)
       PROVE  StepInv'
  BY <1>1, <1>17 DEF Restore, Replace, EditInPlace, EditUnchanged
<1>18. CASE SessionEnds \/ \E c \in Clients : Connect(c)
  BY <1>1, <1>18 DEF SessionEnds, Connect
<1>19. CASE KillWorker \/ MachineStops \/ Leave
  BY <1>2, <1>19 DEF KillWorker, MachineStops, Leave
<1>20. CASE UNCHANGED vars
  BY <1>1, <1>20 DEF vars
<1> QED
  BY <1>3, <1>4, <1>5, <1>6, <1>7, <1>8, <1>9, <1>10, <1>11, <1>12, <1>13, <1>14, <1>15, <1>16,
     <1>17, <1>18, <1>19, <1>20 DEF Next, WorkerStep, Environment

-----------------------------------------------------------------------------
(* Manifests *)

(* What is in a state directory that is not empty. *)
Committed(d, m) ==
  m # None => m # Torn /\ m.synced /\ <<d, Stamps(m.inputs)>> \in completed

CommitInv ==
  /\ \A d \in StateDirs : Committed(d, manifest[d]) /\ Committed(d, durable[d])
  /\ Recording => <<StateDir(client), Stamps(Identities)>> \in completed
  /\ step \in {"syncing", "renaming"} => <<StateDir(client), Stamps(temporary.inputs)>> \in completed
  /\ step = "renaming" => temporary.synced

(* Initially there are no manifests. *)
LEMMA CommitInit == Init => CommitInv
  BY DEF Init, CommitInv, Committed, Recording

(* The stamps of a link are those that it has recorded. *)
LEMMA StampsOfIdentities ==
  Stamps(Identities) = [f \in {g \in Files : recorded[g] # None} |-> recorded[f]]
  BY DEF Stamps, Identities

(* Only what has been synced and belongs to a completed link is renamed. *)
LEMMA CommitStep ==
  ASSUME SetupOK, Types, StepInv, CommitInv, [Next]_<<setup, vars>>
  PROVE  CommitInv'
<1>0. UNCHANGED setup
  BY DEF Next
<1>a. /\ Files' = Files
      /\ (UNCHANGED recorded => Stamps(Identities)' = Stamps(Identities))
  <2>1. UNCHANGED recorded => Stamps(Identities)' = [f \in {g \in Files : recorded[g] # None} |-> recorded[f]]
    BY <1>0, SetupStays DEF Stamps, Identities
  <2> QED
    BY <1>0, <2>1, SetupStays, StampsOfIdentities
<1>b. \A d \in StateDirs : Committed(d, manifest[d]) /\ Committed(d, durable[d])
  BY DEF CommitInv
<1> USE DEF files, state, process, caching, opened
<1>1. ASSUME UNCHANGED <<state, client, completed>>, ~Recording', step' \notin {"syncing", "renaming"}
      PROVE  CommitInv'
  BY <1>b, <1>1 DEF CommitInv, Committed
<1>2. ASSUME UNCHANGED <<state, step, client, recorded, completed>> PROVE CommitInv'
  BY <1>a, <1>2 DEF CommitInv, Committed, Recording
<1>3. CASE WorkerGone /\ temporary' = None /\ UNCHANGED <<manifest, durable>>
  BY <1>b, <1>3 DEF WorkerGone, CommitInv, Committed, Recording
<1>4. CASE MachineStops
  <2>1. PICK survives \in SUBSET StateDirs :
          manifest' = [d \in StateDirs |->
            IF d \notin survives THEN durable[d]
            ELSE IF manifest[d] \notin {None, Torn} /\ ~manifest[d].synced THEN Torn
            ELSE manifest[d]]
    BY <1>4 DEF MachineStops
  <2>2. durable' = manifest' /\ step' = "none" /\ UNCHANGED completed
    BY <1>4 DEF MachineStops, WorkerGone
  <2>3. \A d \in StateDirs : manifest'[d] \in {durable[d], manifest[d]}
    BY <1>b, <2>1 DEF Committed
  <2>4. \A d \in StateDirs : Committed(d, manifest'[d])
    BY <1>b, <2>3
  <2> QED
    BY <2>2, <2>4 DEF CommitInv, Committed, Recording
<1>5. CASE LinkCompleted
  <2>1. /\ completed' = completed \cup {<<StateDir(client), Stamps(Identities)>>}
        /\ UNCHANGED <<state, client, recorded>> /\ step' \in {"digesting", "comparing", "replying"}
    BY <1>5 DEF LinkCompleted, Responds
  <2>2. \A d \in StateDirs : Committed(d, manifest[d])' /\ Committed(d, durable[d])'
    BY <1>b, <2>1 DEF Committed
  <2>3. <<StateDir(client), Stamps(Identities)>>' = <<StateDir(client), Stamps(Identities)>>
    BY <1>a, <2>1 DEF StateDir
  <2> QED
    BY <2>1, <2>2, <2>3 DEF CommitInv
<1>6. CASE WriteTemporary
  <2>1. /\ UNCHANGED <<manifest, durable, client, recorded, completed>> /\ step = "comparing"
        /\ \/ step' = "replying"
           \/ step' = "syncing" /\ temporary'.inputs = Identities
    BY <1>6 DEF WriteTemporary, Responds
  <2>2. \A d \in StateDirs : Committed(d, manifest[d])' /\ Committed(d, durable[d])'
    BY <1>b, <2>1 DEF Committed
  <2>3. <<StateDir(client), Stamps(Identities)>> \in completed
    BY <2>1 DEF CommitInv, Recording
  <2>4. step' = "syncing" => <<StateDir(client), Stamps(temporary.inputs)>>' \in completed
    BY <2>1, <2>3 DEF Stamps, StateDir
  <2> QED
    BY <1>a, <2>1, <2>2, <2>3, <2>4 DEF CommitInv, Recording
<1>7. CASE SyncTemporary
  <2>1. /\ UNCHANGED <<manifest, durable, client, recorded, completed>>
        /\ step = "syncing" /\ step' = "renaming"
        /\ temporary' = [temporary EXCEPT !.synced = TRUE]
    BY <1>7 DEF SyncTemporary
  <2>2. ManifestIn(temporary, Files, Stamp)
    BY <2>1 DEF Types, ManifestTypes
  <2>3. temporary'.synced = TRUE /\ temporary'.inputs = temporary.inputs
    BY <2>1, <2>2 DEF ManifestIn
  <2>4. Stamps(temporary.inputs)' = Stamps(temporary.inputs)
    BY <2>3 DEF Stamps
  <2>5. \A d \in StateDirs : Committed(d, manifest[d])' /\ Committed(d, durable[d])'
    BY <1>b, <2>1 DEF Committed
  <2> QED
    BY <1>a, <2>1, <2>3, <2>4, <2>5 DEF CommitInv, Recording
<1>8. CASE PublishManifest
  <2>1. /\ manifest' = [manifest EXCEPT ![StateDir(client)] = temporary]
        /\ UNCHANGED <<durable, client, recorded, completed>> /\ step = "renaming" /\ step' = "publishing"
    BY <1>8 DEF PublishManifest
  <2>2. temporary # Torn
    BY <2>1, ManifestIsNotTorn DEF Types, ManifestTypes
  <2>3. Committed(StateDir(client), temporary)
    BY <2>1, <2>2 DEF CommitInv, Committed
  <2>4. manifest = [d \in StateDirs |-> manifest[d]]
    BY DEF Types, ManifestTypes
  <2>5. \A d \in StateDirs : Committed(d, manifest'[d])
    BY <1>b, <2>1, <2>3, <2>4
  <2>6. \A d \in StateDirs : Committed(d, manifest[d])' /\ Committed(d, durable[d])'
    BY <1>b, <2>1, <2>5 DEF Committed
  <2> QED
    BY <1>a, <2>1, <2>6 DEF CommitInv, Recording
<1>9. CASE SyncDirectory
  <2>1. client \in Clients /\ StateDir(client) \in StateDirs
    BY <1>9, SetupParts DEF SyncDirectory, StepInv, Working
  <2>2. /\ durable' = [durable EXCEPT ![StateDir(client)] = manifest[StateDir(client)]]
        /\ UNCHANGED <<manifest, completed>> /\ step' = "replying"
    BY <1>9 DEF SyncDirectory, Responds
  <2>3. durable = [d \in StateDirs |-> durable[d]]
    BY DEF Types, ManifestTypes
  <2>4. \A d \in StateDirs : Committed(d, durable'[d])
    BY <1>b, <2>1, <2>2, <2>3
  <2>5. \A d \in StateDirs : Committed(d, manifest[d])' /\ Committed(d, durable[d])'
    BY <1>b, <2>2, <2>4 DEF Committed
  <2> QED
    BY <2>2, <2>5 DEF CommitInv, Recording
<1>10. CASE RecordFails
  <2>1. UNCHANGED <<manifest, durable, completed>> /\ step' = "replying"
    BY <1>10 DEF RecordFails, Responds
  <2> QED
    BY <1>b, <2>1 DEF CommitInv, Committed, Recording
<1>11. ASSUME NEW f \in Files, Restore(f) \/ \E x \in Contents : Replace(f, x) \/ EditInPlace(f, x)
       PROVE  CommitInv'
  BY <1>2, <1>11 DEF Restore, Replace, EditInPlace, EditUnchanged
<1>12. ASSUME NEW f \in Files, ReadMetadata(f) \/ ReadInput(f) \/ ResolveDigest(f) PROVE CommitInv'
  BY <1>2, <1>12 DEF ReadMetadata, ReadInput, ResolveDigest
<1>13. ASSUME NEW f \in Files, OpenInput(f) \/ VerifyUnchanged(f) PROVE CommitInv'
  BY <1>1, <1>13 DEF OpenInput, VerifyUnchanged, Responds, Recording
<1>14. CASE DigestsResolved
  BY <1>a, <1>b, <1>14 DEF DigestsResolved, CommitInv, Committed, Recording
<1>15. CASE SessionEnds \/ (\E c \in Clients : Connect(c))
  BY <1>2, <1>15 DEF SessionEnds, Connect
<1>16. CASE \/ StartSession \/ PollTimesOut \/ (\E c \in Clients : Accept(c)) \/ BadRequest
            \/ StartRecording \/ AllOpened \/ LinkFails \/ OutputWritten \/ Reply
  <2>1. UNCHANGED <<state, completed>> /\ ~Recording' /\ step' \notin {"syncing", "renaming"}
    BY <1>16 DEF StartSession, PollTimesOut, Accept, BadRequest, StartRecording, AllOpened, LinkFails,
         OutputWritten, Reply, Responds, Recording
  <2> QED
    BY <1>b, <2>1 DEF CommitInv, Committed
<1>17. CASE KillWorker
  BY <1>3, <1>17 DEF KillWorker
<1>18. CASE Leave
  BY <1>b, <1>18 DEF Leave, WorkerGone, CommitInv, Committed, Recording
<1>19. CASE UNCHANGED vars
  BY <1>2, <1>19 DEF vars
<1> QED
  BY <1>4, <1>5, <1>6, <1>7, <1>8, <1>9, <1>10, <1>11, <1>12, <1>13, <1>14, <1>15, <1>16,
     <1>17, <1>18, <1>19 DEF Next, WorkerStep, Environment

-----------------------------------------------------------------------------
(* Stamps tell the contents of a file apart, as long as no file is moved   *)
(* back.                                                                   *)

(* Every path has its own inode, made by an edit that has happened. *)
DiskInv ==
  /\ \A f \in Files : disk[f] = f \/ disk[f] \in 1 .. edits
  /\ \A f, g \in Files : disk[f] = disk[g] => f = g
  /\ \A f \in Files : StampAt(f) <= edits

(* A mapping that was made under a stamp that f still has is of f. *)
IsOf(f, entry) ==
  entry # None => entry.stamp <= StampAt(f) /\ (entry.stamp = StampAt(f) => entry.inode = disk[f])

CacheInv ==
  \A f \in Files : /\ IsOf(f, cache[f]) /\ IsOf(f, mapped[f])
                   /\ seen[f] # None => seen[f] <= StampAt(f)

(* What the link has read of f is what f contains, unless its stamp has    *)
(* changed, and is settled when f is verified.                             *)
Reads(f) ==
  /\ step \in {"opening", "linking", "verifying"} /\ f \notin verified => ContentAt(f) \in current[f]
  /\ consumed[f] # {} => mapped[f] # None
  /\ mapped[f] # None /\ StampAt(f) = mapped[f].stamp => consumed[f] \subseteq {ContentAt(f)}
  /\ f \in verified => \E x \in current[f] : consumed[f] = {x}

ReadInv == \A f \in Files : Reads(f)

BytesInv == DiskInv /\ CacheInv /\ ReadInv

(* File f is as it was before the step. *)
Same(f) == disk'[f] = disk[f] /\ StampAt(f)' = StampAt(f) /\ ContentAt(f)' = ContentAt(f)

(* File f has a stamp that it never had. *)
Edited(f) == StampAt(f)' > StampAt(f)

(* The bytes of an unchanged file system are the same. *)
LEMMA AllSame ==
  ASSUME UNCHANGED <<setup, files>>, NEW f \in Files
  PROVE  Same(f)
  BY DEF Same, files, StampAt, ContentAt

(* Initially nothing was read. *)
LEMMA BytesInit == Init => BytesInv
<1> SUFFICES ASSUME Init PROVE BytesInv
  OBVIOUS
<1>0. SetupOK /\ Files \subseteq Inodes
  BY SetupParts DEF Init, SetupOK
<1>1. DiskInv
  BY <1>0 DEF Init, DiskInv, StampAt
<1>2. CacheInv
  BY DEF Init, CacheInv, IsOf, Everywhere
<1>3. ReadInv
  BY DEF Init, ReadInv, Reads, Everywhere
<1> QED
  BY <1>1, <1>2, <1>3 DEF BytesInv

(* An edit gives its file a new stamp and leaves the others alone. *)
LEMMA EditKeeps ==
  ASSUME SetupOK, FileTypes, DiskInv, UNCHANGED setup, ~CanRestore, NEW f \in Files,
         Restore(f) \/ \E x \in Contents : Replace(f, x) \/ EditInPlace(f, x)
  PROVE  /\ DiskInv'
         /\ \A g \in Files : Same(g) \/ Edited(g)
         /\ \A g \in Files : g # f => Same(g)
         /\ NoteContent(f, ContentAt(f)')
<1>1. PICK x \in Contents : Replace(f, x) \/ EditInPlace(f, x)
  BY DEF Restore
<1>2. /\ MaxEdits \in Nat /\ Files \cap (1 .. MaxEdits) = {} /\ Files \subseteq Inodes
      /\ Files' = Files /\ edits \in Nat /\ edits < MaxEdits /\ edits' = edits + 1
  BY <1>1, SetupParts, SetupStays DEF Replace, EditInPlace, FileTypes
<1>3. /\ \A g \in Files : disk[g] # edits + 1 /\ disk[g] \in Inodes /\ StampAt(g) \in Nat
      /\ \A g \in Files : g # edits + 1 /\ StampAt(g) <= edits
      /\ edits + 1 \in Inodes
  BY <1>2 DEF DiskInv, FileTypes, Inodes, StampAt, Stamp
<1>4. /\ disk'[f] \in {disk[f], edits + 1} /\ \A g \in Files : g # f => disk'[g] = disk[g]
      /\ inode'[disk'[f]] = [content |-> x, stamp |-> edits + 1]
      /\ \A g \in Files : g # f => inode'[disk'[g]] = inode[disk[g]]
  BY <1>1, <1>2, <1>3 DEF Replace, EditInPlace, FileTypes, DiskInv
<1>5. StampAt(f)' = edits + 1 /\ ContentAt(f)' = x
  BY <1>4 DEF StampAt, ContentAt
<1>6. \A g \in Files : g # f => Same(g)
  BY <1>4 DEF Same, StampAt, ContentAt
<1>7. Edited(f)
  BY <1>2, <1>3, <1>5 DEF Edited
<1>8. DiskInv'
  <2>1. \A g \in Files : disk'[g] = g \/ disk'[g] \in 1 .. edits'
    BY <1>2, <1>4 DEF DiskInv
  <2>2. \A g, h \in Files : disk'[g] = disk'[h] => g = h
    BY <1>3, <1>4 DEF DiskInv
  <2>3. \A g \in Files : StampAt(g)' <= edits'
    BY <1>2, <1>3, <1>5, <1>6 DEF Same
  <2> QED
    BY <1>2, <2>1, <2>2, <2>3 DEF DiskInv
<1> QED
  BY <1>1, <1>5, <1>6, <1>7, <1>8 DEF Replace, EditInPlace

(* The types of what is in the cache, for arithmetic. *)
LEMMA EntryTypes ==
  ASSUME SetupOK, Types, NEW f \in Files
  PROVE  /\ StampAt(f) \in Nat
         /\ cache[f] # None => cache[f].stamp \in Nat /\ cache[f].inode \in Inodes
         /\ mapped[f] # None => mapped[f].stamp \in Nat /\ mapped[f].inode \in Inodes
         /\ seen[f] # None => seen[f] \in Nat
         /\ recorded[f] # None => recorded[f] \in Nat
<1>1. Stamp \subseteq Nat
  BY SetupParts DEF Stamp
<1> QED
  BY <1>1 DEF Types, FileTypes, LinkTypes, StampAt, Entries, OrNone

(* An edit makes mappings stale, and does not change what was read. *)
LEMMA EditBytes ==
  ASSUME SetupOK, Types, Types', BytesInv, UNCHANGED setup, ~CanRestore, NEW f \in Files,
         Restore(f) \/ \E x \in Contents : Replace(f, x) \/ EditInPlace(f, x)
  PROVE  BytesInv'
<1>1. /\ DiskInv' /\ \A g \in Files : Same(g) \/ Edited(g)
      /\ \A g \in Files : g # f => Same(g)
      /\ NoteContent(f, ContentAt(f)')
  BY EditKeeps DEF BytesInv, Types
<1>2. Files' = Files /\ \A g \in Files : StampAt(g)' \in Nat
  <2>1. Stamp \subseteq Nat
    BY SetupParts DEF Stamp
  <2> QED
    BY <2>1, SetupStays DEF Types, FileTypes, StampAt
<1>3. UNCHANGED <<step, cache, mapped, seen, consumed, verified>>
  BY DEF Restore, Replace, EditInPlace, EditUnchanged, caching, opened
<1>4. \A g \in Files : /\ current[g] \subseteq current'[g]
                       /\ step \in {"opening", "linking", "verifying"} /\ f \notin verified =>
                            ContentAt(f)' \in current'[f]
  BY <1>1 DEF NoteContent, Types, LinkTypes
<1>5. ASSUME NEW g \in Files PROVE /\ IsOf(g, cache[g])' /\ IsOf(g, mapped[g])'
                                   /\ (seen[g] # None => seen[g] <= StampAt(g))'
  <2>1. /\ IsOf(g, cache[g]) /\ IsOf(g, mapped[g])
        /\ seen[g] # None => seen[g] <= StampAt(g)
    BY DEF BytesInv, CacheInv
  <2>2. StampAt(g) \in Nat /\ StampAt(g)' \in Nat
    BY <1>2, EntryTypes
  <2>3. CASE Same(g)
    BY <1>3, <2>1, <2>3 DEF IsOf, Same
  <2>4. CASE Edited(g)
    BY <1>3, <2>1, <2>2, <2>4, EntryTypes DEF IsOf, Edited
  <2> QED
    BY <1>1, <2>3, <2>4
<1>6. ASSUME NEW g \in Files PROVE Reads(g)'
  <2>1. Reads(g) /\ IsOf(g, mapped[g])
    BY DEF BytesInv, ReadInv, CacheInv
  <2>2. StampAt(g) \in Nat /\ StampAt(g)' \in Nat
    BY <1>2, EntryTypes
  <2>3. CASE Same(g)
    BY <1>3, <1>4, <2>1, <2>3 DEF Reads, Same
  <2>4. CASE Edited(g) /\ g = f
    <3>1. mapped[g] # None => StampAt(g)' # mapped[g].stamp
      BY <2>1, <2>2, <2>4, EntryTypes DEF IsOf, Edited
    <3> QED
      BY <1>3, <1>4, <2>1, <2>4, <3>1 DEF Reads
  <2> QED
    BY <1>1, <2>3, <2>4
<1>7. CacheInv'
  BY <1>2, <1>5 DEF CacheInv
<1>8. ReadInv'
  BY <1>2, <1>6 DEF ReadInv
<1> QED
  BY <1>1, <1>7, <1>8 DEF BytesInv

(* Every step that is not an edit keeps what is known of the bytes. *)
LEMMA QuietBytes ==
  ASSUME SetupOK, Types, StepInv, BytesInv, UNCHANGED <<setup, files>>, WorkerStep \/ Environment
  PROVE  BytesInv'
<1>0. Files' = Files /\ \A f \in Files : Same(f)
  BY SetupStays, AllSame
<1>a. DiskInv'
  BY <1>0 DEF BytesInv, DiskInv, Same, files
<1>b. \A f \in Files : /\ IsOf(f, cache[f]) /\ IsOf(f, mapped[f]) /\ Reads(f)
                       /\ seen[f] # None => seen[f] <= StampAt(f)
  BY DEF BytesInv, CacheInv, ReadInv
<1> USE DEF state, process, caching, opened
<1>c. ASSUME \A f \in Files : /\ IsOf(f, cache[f])' /\ IsOf(f, mapped[f])' /\ Reads(f)'
                              /\ (seen[f] # None => seen[f] <= StampAt(f))'
      PROVE  BytesInv'
  BY <1>0, <1>a, <1>c DEF BytesInv, CacheInv, ReadInv
<1>1. ASSUME UNCHANGED <<cache, opened, current>>,
             step' \in {"opening", "linking", "verifying"} => step \in {"opening", "linking", "verifying"}
      PROVE  BytesInv'
  <2>1. ASSUME NEW f \in Files
        PROVE  /\ IsOf(f, cache[f])' /\ IsOf(f, mapped[f])' /\ Reads(f)'
               /\ (seen[f] # None => seen[f] <= StampAt(f))'
    BY <1>0, <1>1, <1>b DEF IsOf, Reads, Same
  <2> QED
    BY <1>c, <2>1
<1>2. CASE WorkerGone \/ Reply
  <2>1. ASSUME NEW f \in Files
        PROVE  /\ cache'[f] \in {None, cache[f]} /\ seen'[f] = None /\ mapped'[f] = None
               /\ consumed'[f] = {} /\ verified' = {} /\ step' \notin {"opening", "linking", "verifying"}
    BY <1>2, SetupStays DEF WorkerGone, Reply, DropLink, Everywhere
  <2>2. ASSUME NEW f \in Files
        PROVE  /\ IsOf(f, cache[f])' /\ IsOf(f, mapped[f])' /\ Reads(f)'
               /\ (seen[f] # None => seen[f] <= StampAt(f))'
    BY <1>0, <1>b, <2>1 DEF IsOf, Reads, Same
  <2> QED
    BY <1>c, <2>2
<1>3. CASE StartRecording
  <2>1. UNCHANGED <<cache, opened>> /\ \A f \in Files : current'[f] = {ContentAt(f)}
    BY <1>0, <1>3 DEF StartRecording
  <2>2. verified = {}
    BY <1>3 DEF StartRecording, StepInv
  <2>3. ASSUME NEW f \in Files
        PROVE  /\ IsOf(f, cache[f])' /\ IsOf(f, mapped[f])' /\ Reads(f)'
               /\ (seen[f] # None => seen[f] <= StampAt(f))'
    BY <1>0, <1>b, <2>1, <2>2 DEF IsOf, Reads, Same
  <2> QED
    BY <1>c, <2>3
<1>4. ASSUME NEW g \in Files, ReadMetadata(g) PROVE BytesInv'
  <2>1. /\ UNCHANGED <<cache, mapped, consumed, verified, current, step>>
        /\ \A f \in Files : seen'[f] = IF f = g THEN StampAt(f) ELSE seen[f]
    BY <1>4 DEF ReadMetadata, Types, LinkTypes
  <2>2. ASSUME NEW f \in Files
        PROVE  /\ IsOf(f, cache[f])' /\ IsOf(f, mapped[f])' /\ Reads(f)'
               /\ (seen[f] # None => seen[f] <= StampAt(f))'
    BY <1>0, <1>b, <2>1, EntryTypes DEF IsOf, Reads, Same
  <2> QED
    BY <1>c, <2>2
<1>5. ASSUME NEW g \in Files, OpenInput(g) PROVE BytesInv'
  <2> DEFINE e == IF CachedUnchanged(g) THEN cache[g] ELSE [inode |-> disk[g], stamp |-> seen[g]]
  <2>1. /\ UNCHANGED <<seen, consumed, verified, current, step>>
        /\ mapped[g] = None /\ seen[g] # None /\ step = "opening"
        /\ \A f \in Files : /\ cache'[f] = IF f = g THEN e ELSE cache[f]
                            /\ mapped'[f] = IF f = g THEN e ELSE mapped[f]
    BY <1>5 DEF OpenInput, Types, LinkTypes
  <2>2. IsOf(g, e)
    <3>1. CASE CachedUnchanged(g)
      BY <1>b, <3>1
    <3>2. CASE ~CachedUnchanged(g)
      BY <1>b, <2>1, <3>2 DEF IsOf
    <3> QED
      BY <3>1, <3>2
  <2>3. consumed[g] = {}
    BY <1>b, <2>1 DEF Reads
  <2>4. ASSUME NEW f \in Files
        PROVE  /\ IsOf(f, cache[f])' /\ IsOf(f, mapped[f])' /\ Reads(f)'
               /\ (seen[f] # None => seen[f] <= StampAt(f))'
    <3>1. CASE f # g
      BY <1>0, <1>b, <2>1, <3>1 DEF IsOf, Reads, Same
    <3>2. CASE f = g
      <4>1. IsOf(f, cache[f])' /\ IsOf(f, mapped[f])'
        <5> HIDE DEF e
        <5> QED
          BY <1>0, <2>1, <2>2, <3>2 DEF IsOf, Same
      <4>2. Reads(f)' /\ (seen[f] # None => seen[f] <= StampAt(f))'
        BY <1>0, <1>b, <2>1, <2>3, <3>2 DEF Reads, Same
      <4> QED
        BY <4>1, <4>2
    <3> QED
      BY <3>1, <3>2
  <2> QED
    BY <1>c, <2>4
<1>6. ASSUME NEW g \in Files, ReadInput(g) PROVE BytesInv'
  <2> DEFINE x == inode[mapped[g].inode].content
  <2>1. /\ UNCHANGED <<cache, seen, mapped, verified, current, step>>
        /\ mapped[g] # None /\ step \in {"opening", "linking"}
        /\ \A f \in Files : consumed'[f] = IF f = g THEN consumed[f] \cup {x} ELSE consumed[f]
    BY <1>6 DEF ReadInput, Types, LinkTypes
  <2>2. StampAt(g) = mapped[g].stamp => x = ContentAt(g)
    BY <1>b, <2>1 DEF IsOf, ContentAt
  <2>3. verified = {}
    BY <2>1 DEF StepInv
  <2>4. ASSUME NEW f \in Files
        PROVE  /\ IsOf(f, cache[f])' /\ IsOf(f, mapped[f])'
               /\ (seen[f] # None => seen[f] <= StampAt(f))'
    BY <1>0, <1>b, <2>1 DEF IsOf, Same
  <2>5. ASSUME NEW f \in Files PROVE Reads(f)'
    <3> HIDE DEF x
    <3> QED
      BY <1>0, <1>b, <2>1, <2>2, <2>3, ZenonT(60) DEF Reads, Same
  <2> QED
    BY <1>c, <2>4, <2>5
<1>7. ASSUME NEW g \in Files, VerifyUnchanged(g) PROVE BytesInv'
  <2>1. /\ UNCHANGED <<cache, seen, mapped, consumed, current>>
        /\ step = "verifying" /\ g \in Inputs[client] /\ g \notin verified
        /\ \/ verified' = verified \cup {g} /\ UNCHANGED step /\ StampAt(g) = mapped[g].stamp
           \/ verified' = verified /\ step' = "replying"
    BY <1>7, SetupParts DEF VerifyUnchanged, Responds
  <2>2. StampAt(g) = mapped[g].stamp => \E x \in current[g] : consumed[g] = {x}
    <3>1. consumed[g] # {} /\ mapped[g] # None
      BY <1>b, <2>1 DEF StepInv, Reads
    <3>2. ContentAt(g) \in current[g]
      BY <1>b, <2>1 DEF Reads
    <3>3. StampAt(g) = mapped[g].stamp => consumed[g] = {ContentAt(g)}
      BY <1>b, <3>1 DEF Reads
    <3> QED
      BY <3>2, <3>3
  <2>4. ASSUME NEW f \in Files
        PROVE  /\ IsOf(f, cache[f])' /\ IsOf(f, mapped[f])'
               /\ (seen[f] # None => seen[f] <= StampAt(f))'
    BY <1>0, <1>b, <2>1 DEF IsOf, Same
  <2>5. ASSUME NEW f \in Files PROVE Reads(f)'
    BY <1>0, <1>b, <2>1, <2>2 DEF Reads, Same
  <2> QED
    BY <1>c, <2>4, <2>5
<1>8. CASE \/ StartSession \/ SessionEnds \/ (\E c \in Clients : Connect(c) \/ Accept(c))
           \/ BadRequest \/ AllOpened \/ LinkFails \/ OutputWritten \/ LinkCompleted
           \/ DigestsResolved \/ WriteTemporary \/ PollTimesOut
  BY <1>1, <1>8 DEF StartSession, SessionEnds, Connect, Accept, BadRequest, AllOpened, LinkFails,
       OutputWritten, LinkCompleted, DigestsResolved, WriteTemporary, PollTimesOut, Responds
<1>9. CASE \/ SyncTemporary \/ PublishManifest \/ SyncDirectory \/ RecordFails
           \/ \E f \in Files : ResolveDigest(f)
  BY <1>1, <1>9 DEF SyncTemporary, PublishManifest, SyncDirectory, RecordFails, ResolveDigest, Responds
<1>10. CASE KillWorker \/ MachineStops \/ Leave
  BY <1>2, <1>10 DEF KillWorker, MachineStops, Leave
<1>11. CASE \E f \in Files : Restore(f)
  BY <1>1, <1>11, SetupParts DEF Restore, NoteContent, EditUnchanged, files, Types, FileTypes
<1>12. CASE \E f \in Files, x \in Contents : Replace(f, x) \/ EditInPlace(f, x)
  BY <1>12 DEF Replace, EditInPlace, files, Types, FileTypes
<1> QED
  BY <1>2, <1>3, <1>4, <1>5, <1>6, <1>7, <1>8, <1>9, <1>10, <1>11, <1>12 DEF WorkerStep, Environment

-----------------------------------------------------------------------------
(* What is read of a file, verified or not, was in it during the link.     *)

(* An entry of f is of an inode that only f has or has had. *)
OwnEntry(f, entry) ==
  entry # None => /\ entry.inode = f \/ entry.inode \in 1 .. edits
                  /\ \A g \in Files : disk[g] = entry.inode => g = f

(* A mapping that the link uses, or is going to use, shows what f contains *)
(* or has contained during this link.                                      *)
Current(f) ==
  /\ OwnEntry(f, cache[f]) /\ OwnEntry(f, mapped[f])
  /\ step \in {"opening", "linking"} /\ mapped[f] # None =>
       inode[mapped[f].inode].content \in current[f]
  /\ step = "opening" /\ seen[f] # None /\ CachedUnchanged(f) =>
       inode[cache[f].inode].content \in current[f]
  /\ consumed[f] \subseteq current[f]

CurrentInv == \A f \in Files : Current(f)

(* Initially nothing was read. *)
LEMMA CurrentInit == Init => CurrentInv
  BY DEF Init, CurrentInv, Current, OwnEntry, Everywhere

(* An edit of h changes the inode that h has, or gives h another one. *)
LEMMA EditCurrent ==
  ASSUME SetupOK, Types, StepInv, DiskInv, CurrentInv, UNCHANGED setup, ~CanRestore, NEW h \in Files,
         Restore(h) \/ \E x \in Contents : Replace(h, x) \/ EditInPlace(h, x)
  PROVE  CurrentInv'
<1>1. PICK x \in Contents : Replace(h, x) \/ EditInPlace(h, x)
  BY DEF Restore
<1>2. /\ MaxEdits \in Nat /\ Files \cap (1 .. MaxEdits) = {} /\ Files \subseteq Inodes
      /\ Files' = Files /\ edits \in Nat /\ edits < MaxEdits /\ edits' = edits + 1
  BY <1>1, SetupParts, SetupStays DEF Replace, EditInPlace, Types, FileTypes
<1>3. UNCHANGED <<step, cache, mapped, seen, consumed>>
  BY <1>1 DEF Replace, EditInPlace, EditUnchanged, caching, opened
<1>4. step \in {"opening", "linking"} => verified = {}
  BY DEF StepInv
<1>5. /\ \A g \in Files : current[g] \subseteq current'[g]
      /\ step \in {"opening", "linking"} => x \in current'[h]
  BY <1>1, <1>4 DEF Replace, EditInPlace, NoteContent, Types, LinkTypes
<1>6. \A g \in Files : disk'[g] = disk[g] \/ (g = h /\ disk'[g] = edits + 1)
  BY <1>1 DEF Replace, EditInPlace, Types, FileTypes
<1>7. ASSUME NEW n \in Inodes, n # edits + 1
      PROVE  \/ inode'[n] = inode[n]
             \/ n = disk[h] /\ inode'[n].content = x
  BY <1>1, <1>2, <1>7 DEF Replace, EditInPlace, Types, FileTypes, Inodes
<1>8. ASSUME NEW f \in Files, NEW e, e \in OrNone(Entries), OwnEntry(f, e)
      PROVE  /\ OwnEntry(f, e)'
             /\ e # None => \/ inode'[e.inode] = inode[e.inode]
                            \/ f = h /\ inode'[e.inode].content = x
  <2>1. CASE e = None
    BY <2>1 DEF OwnEntry
  <2>2. CASE e # None
    <3>1. e.inode \in Inodes /\ e.inode # edits + 1
      BY <1>2, <1>8, <2>2 DEF OwnEntry, Entries, OrNone
    <3>2. OwnEntry(f, e)'
      BY <1>2, <1>6, <1>8, <3>1 DEF OwnEntry
    <3> QED
      BY <1>7, <1>8, <2>2, <3>1, <3>2 DEF OwnEntry
  <2> QED
    BY <2>1, <2>2
<1>9. ASSUME NEW f \in Files PROVE Current(f)'
  <2>1. Current(f) /\ cache[f] \in OrNone(Entries) /\ mapped[f] \in OrNone(Entries)
    BY DEF CurrentInv, Types, LinkTypes
  <2>2. /\ OwnEntry(f, cache[f])' /\ OwnEntry(f, mapped[f])'
        /\ cache[f] # None => \/ inode'[cache[f].inode] = inode[cache[f].inode]
                              \/ f = h /\ inode'[cache[f].inode].content = x
        /\ mapped[f] # None => \/ inode'[mapped[f].inode] = inode[mapped[f].inode]
                               \/ f = h /\ inode'[mapped[f].inode].content = x
    <3>1. OwnEntry(f, cache[f]) /\ OwnEntry(f, mapped[f])
      BY <2>1 DEF Current
    <3>2. ASSUME NEW e, e \in OrNone(Entries), OwnEntry(f, e), e = cache[f] \/ e = mapped[f]
          PROVE  OwnEntry(f, e)'
      BY <1>8, <3>2
    <3> QED
      BY <1>3, <1>8, <2>1, <3>1, <3>2 DEF OwnEntry
  <2>3. consumed'[f] \subseteq current'[f]
    BY <1>3, <1>5, <2>1 DEF Current
  <2>4. step' \in {"opening", "linking"} /\ mapped'[f] # None =>
          inode'[mapped'[f].inode].content \in current'[f]
    BY <1>3, <1>5, <2>1, <2>2 DEF Current
  <2>5. step' = "opening" /\ seen'[f] # None /\ CachedUnchanged(f)' =>
          inode'[cache'[f].inode].content \in current'[f]
    BY <1>3, <1>5, <2>1, <2>2 DEF Current, CachedUnchanged
  <2> QED
    BY <2>2, <2>3, <2>4, <2>5 DEF Current
<1> QED
  BY <1>2, <1>9 DEF CurrentInv

(* Every step keeps what is read among what was there. *)
LEMMA CurrentStep ==
  ASSUME SetupOK, Types, StepInv, BytesInv, CurrentInv, ~CanRestore, [Next]_<<setup, vars>>
  PROVE  CurrentInv'
<1>0. UNCHANGED setup /\ Files' = Files
  BY SetupStays DEF Next
<1>a. \A f \in Files : Current(f) /\ Reads(f) /\ IsOf(f, cache[f]) /\ IsOf(f, mapped[f])
  BY DEF CurrentInv, BytesInv, ReadInv, CacheInv
<1> USE DEF state, process, caching, opened, files
<1>1. ASSUME UNCHANGED <<edits, disk, inode, cache, seen, mapped, consumed, current>>,
             step' \in {"opening", "linking"} => step \in {"opening", "linking"},
             step' = "opening" => step = "opening"
      PROVE  CurrentInv'
  BY <1>0, <1>1, <1>a DEF CurrentInv, Current, OwnEntry, CachedUnchanged
<1>2. CASE WorkerGone \/ Reply
  <2>1. UNCHANGED <<edits, disk, inode>>
    BY <1>2 DEF WorkerGone, Reply
  <2>2. ASSUME NEW f \in Files
        PROVE  /\ cache'[f] \in {None, cache[f]} /\ seen'[f] = None /\ mapped'[f] = None
               /\ consumed'[f] = {}
    BY <1>0, <1>2 DEF WorkerGone, Reply, DropLink, Everywhere
  <2> QED
    BY <1>0, <1>a, <2>1, <2>2 DEF CurrentInv, Current, OwnEntry
<1>3. CASE StartRecording
  <2>1. UNCHANGED <<edits, disk, inode, cache, seen, mapped, consumed>>
    BY <1>3 DEF StartRecording
  <2>2. \A f \in Files : seen[f] = None /\ mapped[f] = None /\ consumed[f] = {}
    BY <1>3 DEF StartRecording, StepInv, Everywhere
  <2> QED
    BY <1>0, <1>a, <2>1, <2>2 DEF CurrentInv, Current, OwnEntry
<1>4. ASSUME NEW g \in Files, ReadMetadata(g) PROVE CurrentInv'
  <2>1. /\ UNCHANGED <<edits, disk, inode, cache, mapped, consumed, current, step>>
        /\ step = "opening" /\ verified = {}
        /\ \A f \in Files : seen'[f] = IF f = g THEN StampAt(f) ELSE seen[f]
    BY <1>4 DEF ReadMetadata, Types, LinkTypes, StepInv
  <2>2. cache[g] # None /\ cache[g].stamp = StampAt(g) => inode[cache[g].inode].content \in current[g]
    BY <1>a, <2>1 DEF IsOf, Reads, ContentAt
  <2>3. ASSUME NEW f \in Files PROVE Current(f)'
    BY <1>0, <1>a, <2>1, <2>2 DEF Current, OwnEntry, CachedUnchanged
  <2> QED
    BY <1>0, <2>3 DEF CurrentInv
<1>5. ASSUME NEW g \in Files, OpenInput(g) PROVE CurrentInv'
  <2> DEFINE e == IF CachedUnchanged(g) THEN cache[g] ELSE [inode |-> disk[g], stamp |-> seen[g]]
  <2>1. /\ UNCHANGED <<edits, disk, inode, seen, consumed, current, step>>
        /\ seen[g] # None /\ step = "opening" /\ verified = {}
        /\ \A f \in Files : /\ cache'[f] = IF f = g THEN e ELSE cache[f]
                            /\ mapped'[f] = IF f = g THEN e ELSE mapped[f]
    BY <1>5 DEF OpenInput, Types, LinkTypes, StepInv
  <2>2. OwnEntry(g, e) /\ inode[e.inode].content \in current[g]
    <3>1. CASE CachedUnchanged(g)
      BY <1>a, <2>1, <3>1 DEF Current
    <3>2. CASE ~CachedUnchanged(g)
      <4>1. e = [inode |-> disk[g], stamp |-> seen[g]]
        BY <3>2
      <4>2. e.inode = disk[g]
        BY <4>1
      <4>3. ContentAt(g) \in current[g]
        BY <1>a, <2>1 DEF Reads
      <4> QED
        BY <4>2, <4>3 DEF OwnEntry, BytesInv, DiskInv, ContentAt
    <3> QED
      BY <3>1, <3>2
  <2>3. ASSUME NEW f \in Files PROVE Current(f)'
    <3> HIDE DEF e
    <3>1. CASE f # g
      BY <1>0, <1>a, <2>1, <3>1 DEF Current, OwnEntry, CachedUnchanged
    <3>2. CASE f = g
      BY <1>0, <1>a, <2>1, <2>2, <3>2 DEF Current, OwnEntry, CachedUnchanged
    <3> QED
      BY <3>1, <3>2
  <2> QED
    BY <1>0, <2>3 DEF CurrentInv
<1>6. ASSUME NEW g \in Files, ReadInput(g) PROVE CurrentInv'
  <2>1. /\ UNCHANGED <<edits, disk, inode, cache, seen, mapped, current, step>>
        /\ mapped[g] # None /\ step \in {"opening", "linking"}
        /\ \A f \in Files : consumed'[f] =
             IF f = g THEN consumed[f] \cup {inode[mapped[g].inode].content} ELSE consumed[f]
    BY <1>6 DEF ReadInput, Types, LinkTypes
  <2>2. ASSUME NEW f \in Files PROVE Current(f)'
    BY <1>0, <1>a, <2>1 DEF Current, OwnEntry, CachedUnchanged
  <2> QED
    BY <1>0, <2>2 DEF CurrentInv
<1>7. ASSUME NEW g \in Files, VerifyUnchanged(g) PROVE CurrentInv'
  BY <1>1, <1>7 DEF VerifyUnchanged, Responds
<1>8. CASE \/ StartSession \/ SessionEnds \/ (\E c \in Clients : Connect(c) \/ Accept(c))
           \/ BadRequest \/ AllOpened \/ LinkFails \/ OutputWritten \/ LinkCompleted
           \/ DigestsResolved \/ WriteTemporary \/ PollTimesOut
  BY <1>1, <1>8 DEF StartSession, SessionEnds, Connect, Accept, BadRequest, AllOpened, LinkFails,
       OutputWritten, LinkCompleted, DigestsResolved, WriteTemporary, PollTimesOut, Responds
<1>9. CASE \/ SyncTemporary \/ PublishManifest \/ SyncDirectory \/ RecordFails
           \/ \E f \in Files : ResolveDigest(f)
  BY <1>1, <1>9 DEF SyncTemporary, PublishManifest, SyncDirectory, RecordFails, ResolveDigest, Responds
<1>10. CASE KillWorker \/ MachineStops \/ Leave
  BY <1>2, <1>10 DEF KillWorker, MachineStops, Leave
<1>11. ASSUME NEW h \in Files, Restore(h) \/ \E x \in Contents : Replace(h, x) \/ EditInPlace(h, x)
       PROVE  CurrentInv'
  BY <1>0, <1>11, EditCurrent DEF BytesInv
<1>12. CASE UNCHANGED vars
  BY <1>1, <1>12 DEF vars
<1> QED
  BY <1>2, <1>3, <1>4, <1>5, <1>6, <1>7, <1>8, <1>9, <1>10, <1>11, <1>12
     DEF Next, WorkerStep, Environment

-----------------------------------------------------------------------------
(* Manifests and bytes, without a digest helper *)

(* The bytes that m says f had under its stamp, if its link has verified   *)
(* f, are those that f has, or that this link has read and verified, under *)
(* the same stamp.                                                         *)
Tells(m, f) ==
  /\ f \in Files
  /\ m.inputs[f].digest = None
  /\ m.inputs[f].stamp \in Nat /\ m.inputs[f].stamp <= StampAt(f)
  /\ f \in m.verified /\ m.inputs[f].stamp = StampAt(f) => m.bytes[f] = {ContentAt(f)}
  /\ f \in m.verified /\ f \in verified /\ m.inputs[f].stamp = recorded[f] =>
       m.bytes[f] = consumed[f]

Truthful(m) == m # None /\ m # Torn => \A f \in DOMAIN m.inputs : Tells(m, f)

(* What this link is compared with. *)
Compared ==
  Linked /\ previous # None =>
    \A f \in DOMAIN previous.inputs :
      /\ previous.inputs[f].digest = None
      /\ /\ recorded[f] # None /\ previous.inputs[f].stamp = recorded[f]
         /\ f \in verified \cap previous.verified
         => consumed[f] = previous.bytes[f]

(* The temporary manifest is that of this link. *)
Own == /\ temporary.inputs = Identities /\ temporary.bytes = consumed
       /\ temporary.verified = verified

TruthInv ==
  /\ step # "digesting" /\ digest = Everywhere(None)
  /\ \A d \in StateDirs : Truthful(manifest[d]) /\ Truthful(durable[d])
  /\ step \in {"syncing", "renaming"} => Own
  /\ Compared

(* Initially there are no manifests. *)
LEMMA TruthInit == Init => TruthInv
  BY DEF Init, TruthInv, Truthful, Compared, Linked

(* A manifest stays truthful while the link goes on, and when a file is    *)
(* edited.                                                                 *)
LEMMA StaysTruthful ==
  ASSUME SetupOK, Types, UNCHANGED <<setup, consumed>>,
         \A f \in Files : Same(f) \/ (Edited(f) /\ StampAt(f)' \in Nat),
         UNCHANGED verified \/ verified' = {}, UNCHANGED recorded \/ verified' = {},
         NEW m, Truthful(m)
  PROVE  Truthful(m)'
<1>1. ASSUME m # None, m # Torn, NEW f \in DOMAIN m.inputs PROVE Tells(m, f)'
  <2>1. Tells(m, f) /\ Files' = Files
    BY <1>1, SetupStays DEF Truthful
  <2>2. StampAt(f) \in Nat
    BY <2>1, EntryTypes DEF Tells
  <2>3. f \in verified' => f \in verified /\ recorded'[f] = recorded[f]
    OBVIOUS
  <2>4. CASE Same(f)
    BY <2>1, <2>3, <2>4 DEF Tells, Same
  <2>5. CASE Edited(f) /\ StampAt(f)' \in Nat
    BY <2>1, <2>2, <2>3, <2>5 DEF Tells, Edited
  <2> QED
    BY <2>1, <2>4, <2>5 DEF Tells
<1> QED
  BY <1>1 DEF Truthful, Torn

(* It does when the link is dropped. *)
LEMMA DroppedTruthful ==
  ASSUME UNCHANGED <<setup, files>>, verified' = {}, NEW m, Truthful(m)
  PROVE  Truthful(m)'
<1>1. ASSUME m # None, m # Torn, NEW f \in DOMAIN m.inputs PROVE Tells(m, f)'
  <2>1. Tells(m, f) /\ Files' = Files
    BY <1>1, SetupStays DEF Truthful
  <2>2. Same(f)
    BY <2>1, AllSame DEF Tells
  <2> QED
    BY <2>1, <2>2 DEF Tells, Same
<1> QED
  BY <1>1 DEF Truthful, Torn

(* A file that is verified has the bytes that a manifest of the same stamp *)
(* tells.                                                                  *)
LEMMA VerifiedTruthful ==
  ASSUME SetupOK, Types, StepInv, BytesInv, UNCHANGED <<setup, files, consumed, recorded>>,
         NEW g \in Files, step = "verifying", g \in Inputs[client], StampAt(g) = mapped[g].stamp,
         verified' = verified \cup {g}, NEW m, Truthful(m)
  PROVE  Truthful(m)'
<1>1. consumed[g] = {ContentAt(g)} /\ recorded[g] = StampAt(g)
  <2>1. Reads(g) /\ consumed[g] # {}
    BY DEF BytesInv, ReadInv, StepInv
  <2>2. mapped[g] # None
    BY <2>1 DEF Reads
  <2>3. recorded[g] = mapped[g].stamp
    BY <2>2 DEF StepInv
  <2> QED
    BY <2>1, <2>2, <2>3 DEF Reads
<1>2. ASSUME m # None, m # Torn, NEW f \in DOMAIN m.inputs PROVE Tells(m, f)'
  <2>1. Tells(m, f) /\ Files' = Files
    BY <1>2, SetupStays DEF Truthful
  <2>2. Same(f)
    BY <2>1, AllSame DEF Tells
  <2> QED
    BY <1>1, <2>1, <2>2 DEF Tells, Same
<1> QED
  BY <1>2 DEF Truthful, Torn

(* The manifest of the link that is being recorded is truthful. *)
LEMMA OwnTruthful ==
  ASSUME SetupOK, Types, StepInv, BytesInv, Linked, digest = Everywhere(None),
         NEW m, m.inputs = Identities, m.bytes = consumed, m.verified = verified
  PROVE  Truthful(m)
<1>1. ASSUME NEW f \in DOMAIN m.inputs PROVE Tells(m, f)
  <2>1. /\ f \in Files /\ recorded[f] # None
        /\ m.inputs[f].stamp = recorded[f] /\ m.inputs[f].digest = digest[f]
    BY DEF Identities
  <2>2. seen[f] = recorded[f]
    BY <2>1 DEF StepInv
  <2>3. recorded[f] \in Nat /\ recorded[f] <= StampAt(f)
    BY <2>1, <2>2, EntryTypes DEF BytesInv, CacheInv
  <2>4. ASSUME f \in verified PROVE recorded[f] = StampAt(f) => consumed[f] = {ContentAt(f)}
    <3>1. Reads(f)
      BY <2>1 DEF BytesInv, ReadInv
    <3>2. consumed[f] # {} /\ mapped[f] # None
      BY <2>4, <3>1 DEF Reads
    <3>3. mapped[f].stamp = recorded[f]
      BY <2>1, <3>2 DEF StepInv
    <3> QED
      BY <3>1, <3>2, <3>3 DEF Reads
  <2>5. digest[f] = None
    BY <2>1 DEF Everywhere
  <2> QED
    BY <2>1, <2>3, <2>4, <2>5 DEF Tells
<1> QED
  BY <1>1 DEF Truthful

(* If the manifests after a step are among those before, they stay         *)
(* truthful.                                                               *)
LEMMA AllTruthful ==
  ASSUME SetupOK, Types, StepInv, BytesInv, TruthInv,
         \A m : Truthful(m) => Truthful(m)',
         \A d \in StateDirs : manifest'[d] \in {manifest[d], durable[d], Torn}
                              \/ (step = "renaming" /\ manifest'[d] = temporary),
         \A d \in StateDirs : durable'[d] \in {manifest[d], durable[d], Torn}
  PROVE  \A d \in StateDirs : Truthful(manifest[d])' /\ Truthful(durable[d])'
<1> SUFFICES ASSUME NEW d \in StateDirs PROVE Truthful(manifest[d])' /\ Truthful(durable[d])'
  OBVIOUS
<1>0. step = "renaming" => Truthful(temporary)
  <2>1. step = "renaming" => Linked
    BY DEF Linked, StepInv
  <2> QED
    BY <2>1, OwnTruthful DEF TruthInv, Own
<1>1. /\ Truthful(manifest[d]) /\ Truthful(durable[d]) /\ (step = "renaming" => Truthful(temporary))
      /\ Truthful(Torn)
  BY <1>0 DEF TruthInv, Truthful
<1>2. ASSUME NEW m, m = manifest'[d] PROVE Truthful(m)'
  <2>1. Truthful(m)
    BY <1>1, <1>2
  <2> QED
    BY <2>1
<1>3. ASSUME NEW m, m = durable'[d] PROVE Truthful(m)'
  <2>1. Truthful(m)
    BY <1>1, <1>3
  <2> QED
    BY <2>1
<1>4. Truthful(manifest[d])'
  BY <1>2 DEF Truthful, Tells
<1>5. Truthful(durable[d])'
  BY <1>3 DEF Truthful, Tells
<1> QED
  BY <1>4, <1>5

(* Every step keeps manifests truthful. *)
LEMMA TruthStep ==
  ASSUME SetupOK, Types, Types', StepInv, BytesInv, TruthInv, ~CanRestore, ~Helper,
         [Next]_<<setup, vars>>
  PROVE  TruthInv'
<1>0. UNCHANGED setup /\ Files' = Files /\ \A x : Everywhere(x)' = Everywhere(x)
  BY SetupStays DEF Next, Everywhere
<1>a. step # "digesting" /\ digest = Everywhere(None) /\ Compared
  BY DEF TruthInv
<1> USE DEF state, process, caching, opened
<1>1. ASSUME UNCHANGED <<client, result, recorded, consumed, verified, digest, previous, state>>,
             \A f \in Files : Same(f) \/ (Edited(f) /\ StampAt(f)' \in Nat),
             UNCHANGED step \/ (step' \notin {"digesting", "syncing", "renaming"} /\ ~Linked')
      PROVE  TruthInv'
  <2>1. \A m : Truthful(m) => Truthful(m)'
    BY <1>0, <1>1, StaysTruthful
  <2>2. \A d \in StateDirs : Truthful(manifest[d])' /\ Truthful(durable[d])'
    BY <1>1, <2>1, AllTruthful
  <2>3. step' \in {"syncing", "renaming"} => Own'
    BY <1>0, <1>1 DEF TruthInv, Own, Identities
  <2>4. Compared'
    BY <1>1, <1>a DEF Compared, Linked
  <2> QED
    BY <1>0, <1>1, <1>a, <2>2, <2>3, <2>4 DEF TruthInv
<1>b. UNCHANGED files => \A f \in Files : Same(f)
  BY <1>0, AllSame
<1>2. ASSUME NEW f \in Files, Restore(f) \/ \E x \in Contents : Replace(f, x) \/ EditInPlace(f, x)
      PROVE  TruthInv'
  <2>1. \A g \in Files : Same(g) \/ Edited(g)
    BY <1>0, <1>2, EditKeeps DEF BytesInv, Types
  <2>2. \A g \in Files : StampAt(g)' \in Nat
    <3>1. Stamp \subseteq Nat
      BY SetupParts DEF Stamp
    <3> QED
      BY <1>0, <3>1, SetupStays DEF Types, FileTypes, StampAt
  <2>3. UNCHANGED <<client, result, recorded, consumed, verified, digest, previous, state, step>>
    BY <1>2 DEF Restore, Replace, EditInPlace, EditUnchanged
  <2> QED
    BY <1>1, <2>1, <2>2, <2>3
<1>3. ASSUME verified' = {}, digest' = Everywhere(None), UNCHANGED files,
             step' \notin {"digesting", "syncing", "renaming"} /\ ~Linked',
             \A d \in StateDirs : manifest'[d] \in {manifest[d], durable[d], Torn},
             \A d \in StateDirs : durable'[d] \in {manifest[d], durable[d], Torn}
      PROVE  TruthInv'
  <2>1. \A m : Truthful(m) => Truthful(m)'
    BY <1>0, <1>3, DroppedTruthful
  <2>2. \A d \in StateDirs : Truthful(manifest[d])' /\ Truthful(durable[d])'
    BY <1>3, <2>1, AllTruthful
  <2> QED
    BY <1>0, <1>3, <2>2 DEF TruthInv, Compared
<1>4. CASE KillWorker \/ Leave \/ Reply
  BY <1>0, <1>3, <1>4 DEF KillWorker, Leave, Reply, WorkerGone, DropLink, Linked
<1>5. CASE StartRecording
  BY <1>0, <1>3, <1>a, <1>5 DEF StartRecording, Responds, Linked, StepInv
<1>6. CASE StartSession \/ PollTimesOut \/ \E c \in Clients : Accept(c)
  BY <1>0, <1>3, <1>a, <1>6 DEF StartSession, PollTimesOut, Accept, StepInv, Linked
<1>7. CASE SessionEnds \/ \E c \in Clients : Connect(c)
  BY <1>1, <1>b, <1>7 DEF SessionEnds, Connect
<1>8. ASSUME NEW f \in Files, ReadMetadata(f) PROVE TruthInv'
  BY <1>1, <1>b, <1>8 DEF ReadMetadata
<1>9. CASE AllOpened \/ OutputWritten
  BY <1>1, <1>b, <1>9 DEF AllOpened, OutputWritten, Linked
<1>10. CASE BadRequest
  BY <1>0, <1>3, <1>a, <1>10 DEF BadRequest, Responds, StepInv, Linked
<1>11. CASE LinkFails
  BY <1>0, <1>3, <1>a, <1>11 DEF LinkFails, Responds, StepInv, Linked
<1>12. ASSUME NEW f \in Files, OpenInput(f) \/ ReadInput(f) PROVE TruthInv'
  BY <1>0, <1>3, <1>a, <1>12 DEF OpenInput, ReadInput, StepInv, Linked
<1>13. CASE MachineStops
  <2>1. PICK survives \in SUBSET StateDirs :
          manifest' = [d \in StateDirs |->
            IF d \notin survives THEN durable[d]
            ELSE IF manifest[d] \notin {None, Torn} /\ ~manifest[d].synced THEN Torn
            ELSE manifest[d]]
    BY <1>13 DEF MachineStops
  <2>2. \A d \in StateDirs : manifest'[d] \in {manifest[d], durable[d], Torn}
    BY <2>1
  <2>3. durable' = manifest' /\ WorkerGone
    BY <1>13 DEF MachineStops
  <2> QED
    BY <1>0, <1>3, <2>2, <2>3 DEF WorkerGone, DropLink, Linked
<1>c. \A m : UNCHANGED <<files, recorded, consumed, verified>> /\ Truthful(m) => Truthful(m)'
  BY <1>0, <1>b, StaysTruthful
<1>14. ASSUME UNCHANGED <<client, files, recorded, consumed, verified, digest>>,
              step' # "digesting",
              \A d \in StateDirs : manifest'[d] \in {manifest[d], durable[d], Torn}
                                   \/ (step = "renaming" /\ manifest'[d] = temporary),
              \A d \in StateDirs : durable'[d] \in {manifest[d], durable[d], Torn},
              step' \in {"syncing", "renaming"} => Own',
              Compared'
       PROVE  TruthInv'
  <2>1. \A d \in StateDirs : Truthful(manifest[d])' /\ Truthful(durable[d])'
    BY <1>14, <1>c, AllTruthful
  <2> QED
    BY <1>0, <1>14, <1>a, <2>1 DEF TruthInv
<1>15. ASSUME NEW g \in Files, VerifyUnchanged(g) PROVE TruthInv'
  <2>1. CASE StampAt(g) = mapped[g].stamp
    <3>1. /\ verified' = verified \cup {g} /\ step = "verifying" /\ g \in Inputs[client]
          /\ UNCHANGED <<files, state, step, result, client, recorded, consumed, digest, previous>>
      BY <1>15, <2>1, SetupParts DEF VerifyUnchanged
    <3>2. \A m : Truthful(m) => Truthful(m)'
      BY <1>0, <2>1, <3>1, VerifiedTruthful
    <3>3. \A d \in StateDirs : Truthful(manifest[d])' /\ Truthful(durable[d])'
      BY <3>1, <3>2, AllTruthful
    <3> QED
      BY <1>0, <1>a, <3>1, <3>3 DEF TruthInv, Compared, Linked
  <2>2. CASE StampAt(g) # mapped[g].stamp
    <3>1. /\ UNCHANGED <<client, files, state, recorded, consumed, verified, digest>>
          /\ step' = "replying" /\ result' = "failed"
      BY <1>15, <2>2 DEF VerifyUnchanged, Responds
    <3> QED
      BY <1>14, <3>1 DEF Compared, Linked
  <2> QED
    BY <2>1, <2>2
<1>16. CASE LinkCompleted
  <2>1. /\ UNCHANGED <<client, files, state, recorded, consumed, verified, digest, previous>>
        /\ step' \in {"comparing", "replying"} /\ step = "verifying"
    BY <1>16 DEF LinkCompleted, Responds
  <2>2. previous = None
    BY <2>1 DEF StepInv
  <2> QED
    BY <1>14, <2>1, <2>2 DEF Compared
<1>17. CASE WriteTemporary
  <2> DEFINE old == ReadManifest
             new == [structure |-> Structure[client],
                     generation |-> IF old = None THEN 1 ELSE old.generation + 1,
                     inputs |-> Identities, synced |-> FALSE,
                     output |-> Output(client), bytes |-> consumed, verified |-> verified]
  <2>1. /\ UNCHANGED <<client, files, manifest, durable, recorded, consumed, verified, digest>>
        /\ step = "comparing" /\ step' \in {"syncing", "replying"} /\ previous' = old
        /\ step' = "syncing" => temporary' = new
    BY <1>17 DEF WriteTemporary, Responds
  <2>2. Linked /\ client \in Clients /\ StateDir(client) \in StateDirs
    BY <2>1, SetupParts DEF Linked, StepInv, Working
  <2>3. new.inputs = Identities /\ new.bytes = consumed /\ new.verified = verified
    OBVIOUS
  <2>4. step' = "syncing" => Own'
    <3> HIDE DEF new
    <3> QED
      BY <1>0, <2>1, <2>3 DEF Own, Identities
  <2>5. Truthful(old)
    BY <2>2 DEF ReadManifest, TruthInv, Truthful
  <2>6. old # Torn \/ old = None
    BY DEF ReadManifest
  <2>7. Compared'
    <3>1. ASSUME old # None, NEW f \in DOMAIN old.inputs
          PROVE  /\ old.inputs[f].digest = None
                 /\ /\ recorded[f] # None /\ old.inputs[f].stamp = recorded[f]
                    /\ f \in verified \cap old.verified
                    => consumed[f] = old.bytes[f]
      <4>1. Tells(old, f)
        BY <2>5, <2>6, <3>1 DEF Truthful
      <4> QED
        BY <4>1 DEF Tells
    <3> HIDE DEF old
    <3> QED
      BY <2>1, <3>1 DEF Compared
  <2> QED
    BY <1>14, <2>1, <2>4, <2>7
<1>18. CASE SyncTemporary
  <2>1. /\ UNCHANGED <<client, files, manifest, durable, recorded, consumed, verified, digest,
                       previous, result>>
        /\ step = "syncing" /\ step' = "renaming"
        /\ temporary' = [temporary EXCEPT !.synced = TRUE]
    BY <1>18 DEF SyncTemporary
  <2>2. ManifestIn(temporary, Files, Stamp) /\ Own /\ Compared
    BY <2>1 DEF Types, ManifestTypes, TruthInv
  <2>3. /\ temporary'.inputs = temporary.inputs /\ temporary'.bytes = temporary.bytes
        /\ temporary'.verified = temporary.verified
    BY <2>1, <2>2 DEF ManifestIn
  <2>4. Own'
    BY <1>0, <2>1, <2>2, <2>3 DEF Own, Identities
  <2>5. Compared'
    BY <2>1, <2>2 DEF Compared, Linked
  <2> QED
    BY <1>14, <2>1, <2>4, <2>5
<1>19. CASE PublishManifest
  <2>1. /\ UNCHANGED <<client, files, durable, recorded, consumed, verified, digest, previous, result>>
        /\ manifest' = [manifest EXCEPT ![StateDir(client)] = temporary]
        /\ step = "renaming" /\ step' = "publishing"
    BY <1>19 DEF PublishManifest
  <2>2. manifest = [d \in StateDirs |-> manifest[d]]
    BY DEF Types, ManifestTypes
  <2>3. \A d \in StateDirs : manifest'[d] \in {manifest[d], temporary}
    BY <2>1, <2>2
  <2>4. Compared'
    BY <1>a, <2>1 DEF Compared, Linked
  <2> QED
    BY <1>14, <2>1, <2>3, <2>4
<1>20. CASE SyncDirectory
  <2>1. /\ UNCHANGED <<client, files, manifest, recorded, consumed, verified, digest, previous>>
        /\ durable' = [durable EXCEPT ![StateDir(client)] = manifest[StateDir(client)]]
        /\ step = "publishing" /\ step' = "replying"
    BY <1>20 DEF SyncDirectory, Responds
  <2>2. durable = [d \in StateDirs |-> durable[d]]
    BY DEF Types, ManifestTypes
  <2>3. \A d \in StateDirs : durable'[d] \in {manifest[d], durable[d]}
    BY <2>1, <2>2
  <2>4. Compared'
    BY <1>a, <2>1 DEF Compared, Linked
  <2> QED
    BY <1>14, <2>1, <2>3, <2>4
<1>21. CASE RecordFails
  <2>1. /\ UNCHANGED <<client, files, manifest, durable, recorded, consumed, verified, digest, previous>>
        /\ step \in {"comparing", "syncing", "renaming", "publishing"} /\ step' = "replying"
    BY <1>21 DEF RecordFails, Responds
  <2>2. Compared'
    BY <1>a, <2>1 DEF Compared, Linked
  <2> QED
    BY <1>14, <2>1, <2>2
<1>22. CASE DigestsResolved \/ \E f \in Files : ResolveDigest(f)
  BY <1>a, <1>22 DEF DigestsResolved, ResolveDigest
<1>23. CASE UNCHANGED vars
  BY <1>1, <1>b, <1>23 DEF vars
<1> QED
  BY <1>2, <1>4, <1>5, <1>6, <1>7, <1>8, <1>9, <1>10, <1>11, <1>12, <1>13, <1>15, <1>16, <1>17,
     <1>18, <1>19, <1>20, <1>21, <1>22, <1>23 DEF Next, WorkerStep, Environment

-----------------------------------------------------------------------------
(* The theorems *)

WorkerInv ==
  /\ SetupOK /\ Types /\ StepInv /\ CommitInv
  /\ ~CanRestore => BytesInv /\ CurrentInv
  /\ ~CanRestore /\ ~Helper => TruthInv

(* The invariant holds, whatever is edited, fails or stops. *)
THEOREM WorkerInvariant == Spec => []WorkerInv
<1>1. Init => WorkerInv
  BY TypeInit, StepInit, CommitInit, BytesInit, CurrentInit, TruthInit DEF WorkerInv
<1>2. WorkerInv /\ [Next]_<<setup, vars>> => WorkerInv'
  <2> SUFFICES ASSUME WorkerInv, [Next]_<<setup, vars>> PROVE WorkerInv'
    OBVIOUS
  <2>0. UNCHANGED setup /\ CanRestore' = CanRestore /\ Helper' = Helper
    BY SetupStays DEF Next
  <2>1. SetupOK /\ Types /\ StepInv /\ CommitInv
    BY DEF WorkerInv
  <2>2. SetupOK' /\ Types' /\ StepInv' /\ CommitInv'
    BY <2>1, TypeStep, StepStep, CommitStep
  <2>3. ASSUME ~CanRestore PROVE BytesInv'
    <3>1. BytesInv
      BY <2>3 DEF WorkerInv
    <3>2. CASE UNCHANGED <<setup, vars>>
      BY <3>1, <3>2, SetupStays DEF vars, files, caching, opened, BytesInv, DiskInv, CacheInv, ReadInv,
           IsOf, Reads, StampAt, ContentAt
    <3>3. CASE Next /\ UNCHANGED files
      BY <2>0, <2>1, <3>1, <3>3, QuietBytes DEF Next
    <3>4. CASE Next /\ ~UNCHANGED files
      <4>1. PICK f \in Files : Restore(f) \/ \E x \in Contents : Replace(f, x) \/ EditInPlace(f, x)
        BY <3>4 DEF Next, Environment, WorkerStep, StartSession, SessionEnds, KillWorker, MachineStops,
         Connect, WorkerGone, Accept, BadRequest, StartRecording, ReadMetadata, OpenInput, ReadInput,
         VerifyUnchanged, ResolveDigest, AllOpened, LinkFails, OutputWritten, LinkCompleted,
         DigestsResolved, WriteTemporary, SyncTemporary, PublishManifest, SyncDirectory, RecordFails,
         Reply, PollTimesOut, Leave
      <4> QED
        BY <2>0, <2>1, <2>2, <2>3, <3>1, <4>1, EditBytes
    <3> QED
      BY <3>2, <3>3, <3>4
  <2>5. ASSUME ~CanRestore PROVE CurrentInv'
    BY <2>1, <2>5, CurrentStep DEF WorkerInv
  <2>4. ASSUME ~CanRestore, ~Helper PROVE TruthInv'
    BY <2>1, <2>2, <2>4, TruthStep DEF WorkerInv
  <2> QED
    BY <2>0, <2>2, <2>3, <2>4, <2>5 DEF WorkerInv
<1> QED
  BY <1>1, <1>2, PTL DEF Spec

(* Every state of the worker is well typed. *)
THEOREM WorkerTypeCorrect == Spec => []TypeOK
<1>1. WorkerInv => TypeOK
  BY TypesSuffice DEF WorkerInv
<1> QED
  BY <1>1, WorkerInvariant, PTL

(* Wherever the worker or the machine stops, a manifest that can be read   *)
(* afterwards is whole and is that of a link that was completed.           *)
THEOREM ManifestsAreCommitted == Spec => []ManifestIsCommitted
<1>1. WorkerInv => ManifestIsCommitted
  BY DEF WorkerInv, CommitInv, Committed, ManifestIsCommitted
<1> QED
  BY <1>1, WorkerInvariant, PTL

(* A successful link has read of each input only what the input contained  *)
(* during the link, and one content of each loaded file, whenever inputs   *)
(* are edited or replaced and however old the mappings are that the worker *)
(* uses.                                                                   *)
THEOREM LinksCurrentBytes == Spec => []UsedBytesWereCurrent
<1>1. WorkerInv => UsedBytesWereCurrent
  <2> SUFFICES ASSUME WorkerInv, Linked, ~CanRestore PROVE UsedBytesWereCurrent
    BY DEF UsedBytesWereCurrent
  <2>0. client \in Clients /\ Inputs[client] \subseteq Files /\ LoadedFiles(client) \subseteq Files
    BY SetupParts DEF WorkerInv, StepInv, Working, Linked
  <2>1. ASSUME NEW f \in Inputs[client] PROVE consumed[f] \subseteq current[f]
    BY <2>0 DEF WorkerInv, CurrentInv, Current
  <2>2. ASSUME NEW f \in LoadedFiles(client) PROVE Cardinality(consumed[f]) = 1
    <3>1. f \in verified
      BY DEF WorkerInv, StepInv
    <3>2. PICK x \in current[f] : consumed[f] = {x}
      BY <2>0, <3>1 DEF WorkerInv, BytesInv, ReadInv, Reads
    <3> QED
      BY <3>2, FS_Singleton
  <2> QED
    BY <2>1, <2>2 DEF UsedBytesWereCurrent
<1> QED
  BY <1>1, WorkerInvariant, PTL

(* An input that is reported as unchanged since the link of the manifest,  *)
(* and was verified by both links, had the same bytes then, although only  *)
(* its stamp is compared.                                                  *)
THEOREM UnchangedIsSame == Spec => []UnchangedMeansSameBytes
<1>1. WorkerInv => UnchangedMeansSameBytes
  <2> SUFFICES ASSUME WorkerInv, Linked, ~CanRestore, ~Helper, previous # None,
                      NEW f \in Unchanged(previous.inputs, Identities),
                      f \in verified \cap previous.verified
               PROVE  consumed[f] = previous.bytes[f]
    BY DEF UnchangedMeansSameBytes
  <2>1. /\ f \in DOMAIN previous.inputs /\ f \in DOMAIN Identities
        /\ SameContents(previous.inputs[f], Identities[f])
    BY DEF Unchanged
  <2>2. recorded[f] # None /\ Identities[f].stamp = recorded[f]
    BY <2>1 DEF Identities
  <2>3. Compared
    BY DEF WorkerInv, TruthInv
  <2>4. previous.inputs[f].digest = None
    BY <2>1, <2>3 DEF Compared
  <2>5. previous.inputs[f].stamp = recorded[f]
    BY <2>1, <2>2, <2>4 DEF SameContents
  <2> QED
    BY <2>1, <2>2, <2>3, <2>5 DEF Compared
<1> QED
  BY <1>1, WorkerInvariant, PTL
=============================================================================
