--------------------------- MODULE ResidentWorker ---------------------------
(***************************************************************************)
(* The resident worker of a build session (jdxld/src/mbx_worker.rs), the   *)
(* inputs that it keeps mapped between links (CachingFileSystem in         *)
(* libjdxld/src/fs.rs), the digests that it asks its owner for             *)
(* (jdxld/src/digest_helper.rs) and the manifest of the inputs of each     *)
(* output that outlives it (jdxld/src/persistent_state.rs).                *)
(*                                                                         *)
(* The environment edits inputs at any time, in place or by putting        *)
(* another file in their place; the worker, or the machine, may stop at    *)
(* any time.                                                               *)
(*                                                                         *)
(* Abstractions.  Modification time and length are one stamp; every edit   *)
(* gives a new one.  A digest is the content.  The link itself is reading  *)
(* the inputs, possibly several times, and writing the output.             *)
(***************************************************************************)
EXTENDS Naturals, Sequences, FiniteSets

CONSTANTS Contents,    \* contents of files
          Clients,     \* linker invocations, each sends one request
          OutputArgs,  \* [Clients -> Seq(paths)]: the values of -o, in order
          Setups,      \* what is linked and what may happen
          None

(* inputs and structure: the absolute paths of the inputs of each client,  *)
(* and its other arguments; auxiliary: those of its inputs that are opened *)
(* but never get into loaded_files, which are version scripts, export      *)
(* lists and the tables of thin archives; state_root: whether the worker has a directory *)
(* for manifests; helper: whether there is a digest helper; can_restore:   *)
(* whether a replaced file may be moved back; max_edits and max_sessions:  *)
(* bounds on the edits of files and on the build sessions.                 *)
IsSetup(s) ==
  /\ DOMAIN s.inputs = Clients /\ DOMAIN s.structure = Clients
  /\ \A c \in Clients : IsFiniteSet(s.inputs[c]) /\ s.auxiliary[c] \subseteq s.inputs[c]
  /\ s.state_root \in BOOLEAN /\ s.helper \in BOOLEAN /\ s.can_restore \in BOOLEAN
  /\ s.failures \subseteq {"request", "arguments", "link", "helper", "state"}
  /\ s.stops \subseteq {"worker", "machine"}
  /\ s.max_edits \in Nat /\ s.max_sessions \in Nat
  /\ \A c \in Clients : s.inputs[c] \cap (1 .. s.max_edits) = {}

ASSUME ResidentWorkerAssumption ==
  /\ IsFiniteSet(Clients)
  /\ \A c \in Clients : OutputArgs[c] # <<>>
  /\ \A s \in Setups : IsSetup(s)

VARIABLE setup  \* the member of Setups

Inputs == setup.inputs
LoadedFiles(c) == Inputs[c] \ setup.auxiliary[c]
Files == UNION {Inputs[c] : c \in Clients}
Structure == setup.structure
StateRoot == setup.state_root
Helper == setup.helper
CanRestore == setup.can_restore
Failures == setup.failures
Stops == setup.stops
MaxEdits == setup.max_edits
MaxSessions == setup.max_sessions

(* Inode f is the file at path f to begin with, inode n is made by edit n. *)
Inodes == Files \cup (1 .. MaxEdits)

(* What is left of a file that was not synced: it has no content. *)
Torn == <<>>

VARIABLES
  \* the file system
  edits,     \* number of edits so far, the clock of the stamps
  disk,      \* [Files -> Inodes]
  inode,     \* [Inodes -> [content, stamp]]
  manifest,  \* [state directories -> manifest, Torn or None]
  durable,   \* what is left of it when the machine stops
  \* processes
  session,   \* "alive" or "dead": the process that owns the worker
  sessions,  \* number of sessions so far
  clients,   \* [Clients -> "start", "queued", "served", "ok", "failed"]
  step,      \* where the worker is, "none" when it is not there
  client,    \* whose request it serves
  result,    \* "ok" or "failed"
  \* CachingFileSystem
  cache,     \* inputs: [Files -> [inode, stamp] or None]
  recorded,  \* recorded_inputs: [Files -> stamp or None]
  \* the link
  seen,      \* [Files -> stamp read by metadata() or None]
  mapped,    \* [Files -> the [inode, stamp] of the opened input or None]
  consumed,  \* [Files -> contents that were read]
  current,   \* [Files -> contents that the file had during the link]
  verified,  \* files that were found unchanged
  digest,    \* [Files -> content_digest or None]
  previous,  \* manifest that this link is compared with, or None
  temporary, \* [manifest, synced] or None
  completed  \* identities of the links that were completed

files == <<edits, disk, inode>>
state == <<manifest, durable, temporary>>
process == <<session, sessions>>
caching == <<cache, recorded>>
opened == <<seen, mapped, consumed, verified>>
vars == <<files, state, process, clients, step, client, result, caching, opened, current,
          digest, previous, completed>>

Everywhere(x) == [f \in Files |-> x]

(* The argument parser takes the last output, output_path the first one. *)
Output(c) == OutputArgs[c][Len(OutputArgs[c])]
StateDir(c) == OutputArgs[c][1]
StateDirs == {StateDir(c) : c \in Clients}

ContentAt(f) == inode[disk[f]].content
StampAt(f) == inode[disk[f]].stamp

Init ==
  /\ setup \in Setups
  /\ edits = 0
  /\ disk = [f \in Files |-> f]
  /\ \E x \in Contents : inode = [n \in Inodes |-> [content |-> x, stamp |-> 0]]
  /\ manifest = [d \in StateDirs |-> None] /\ durable = manifest /\ temporary = None
  /\ session = "dead" /\ sessions = 0
  /\ clients = [c \in Clients |-> "start"]
  /\ step = "none" /\ client = None /\ result = "ok"
  /\ cache = Everywhere(None) /\ recorded = Everywhere(None)
  /\ seen = Everywhere(None) /\ mapped = Everywhere(None) /\ consumed = Everywhere({})
  /\ current = Everywhere({}) /\ verified = {}
  /\ digest = Everywhere(None) /\ previous = None /\ completed = {}

-----------------------------------------------------------------------------
(* The environment.                                                        *)

(* A file that is an input of the link and not verified yet has had one    *)
(* more content during the link.                                           *)
NoteContent(f, x) ==
  current' = IF step \in {"opening", "linking", "verifying"} /\ f \notin verified
             THEN [current EXCEPT ![f] = @ \cup {x}] ELSE current

EditUnchanged == UNCHANGED <<state, process, clients, step, client, result, caching, opened,
                             digest, previous, completed>>

(* Another file is moved to the path. *)
Replace(f, x) ==
  /\ edits < MaxEdits
  /\ edits' = edits + 1
  /\ inode' = [inode EXCEPT ![edits + 1] = [content |-> x, stamp |-> edits + 1]]
  /\ disk' = [disk EXCEPT ![f] = edits + 1]
  /\ NoteContent(f, x) /\ EditUnchanged

(* The file is written to.  Every mapping of it shows the new content. *)
EditInPlace(f, x) ==
  /\ edits < MaxEdits
  /\ edits' = edits + 1
  /\ inode' = [inode EXCEPT ![disk[f]] = [content |-> x, stamp |-> edits + 1]]
  /\ NoteContent(f, x) /\ EditUnchanged /\ UNCHANGED disk

(* The first file is moved back, with its modification time. *)
Restore(f) ==
  /\ CanRestore /\ disk[f] # f
  /\ disk' = [disk EXCEPT ![f] = f]
  /\ NoteContent(f, inode[f].content) /\ EditUnchanged /\ UNCHANGED <<edits, inode>>

(* A session starts a worker, which begins with an empty cache. *)
StartSession ==
  /\ step = "none" /\ sessions < MaxSessions
  /\ session' = "alive" /\ sessions' = sessions + 1
  /\ step' = "polling"
  /\ UNCHANGED <<files, state, clients, client, result, caching, opened, current, digest, previous,
                 completed>>

SessionEnds ==
  /\ session = "alive" /\ session' = "dead"
  /\ UNCHANGED <<files, state, sessions, clients, step, client, result, caching, opened,
                 current, digest, previous, completed>>

(* run_via_worker: without a worker the connection is refused. *)
Connect(c) ==
  /\ clients[c] = "start" /\ session = "alive"
  /\ clients' = [clients EXCEPT ![c] = IF step = "none" THEN "failed" ELSE "queued"]
  /\ UNCHANGED <<files, state, process, step, client, result, caching, opened, current,
                 digest, previous, completed>>

(* What belongs to one link is dropped. *)
DropLink ==
  /\ seen' = Everywhere(None) /\ mapped' = Everywhere(None) /\ consumed' = Everywhere({})
  /\ current' = Everywhere({}) /\ verified' = {}
  /\ digest' = Everywhere(None) /\ previous' = None
  /\ client' = None /\ result' = "ok"

(* The worker is gone: its clients read the end of the stream. *)
WorkerGone ==
  /\ step' = "none" /\ DropLink
  /\ cache' = Everywhere(None) /\ recorded' = Everywhere(None)
  /\ clients' = [c \in Clients |-> IF clients[c] \in {"queued", "served"} THEN "failed"
                                   ELSE clients[c]]
  /\ UNCHANGED <<files, sessions, completed>>

KillWorker ==
  /\ "worker" \in Stops /\ step # "none"
  /\ WorkerGone
  /\ session' = "dead" /\ temporary' = None /\ UNCHANGED <<manifest, durable>>

(* What was not synced may be lost; a manifest that was renamed before its *)
(* content was synced may be torn.                                         *)
MachineStops ==
  /\ "machine" \in Stops /\ step # "none"
  /\ WorkerGone
  /\ session' = "dead" /\ temporary' = None
  /\ \E survives \in SUBSET StateDirs :
       manifest' = [d \in StateDirs |->
         IF d \notin survives THEN durable[d]
         ELSE IF manifest[d] \notin {None, Torn} /\ ~manifest[d].synced THEN Torn
         ELSE manifest[d]]
  /\ durable' = manifest'

-----------------------------------------------------------------------------
(* serve and handle_request.                                               *)

(* The request has an answer. *)
Responds(how) == step' = "replying" /\ result' = how

Accept(c) ==
  /\ step = "polling" /\ clients[c] = "queued"
  /\ clients' = [clients EXCEPT ![c] = "served"]
  /\ step' = "reading" /\ client' = c
  /\ UNCHANGED <<files, state, process, result, caching, opened, current, digest, previous,
                 completed>>

(* read_request or set_current_dir fails: nothing is recorded. *)
BadRequest ==
  /\ step = "reading" /\ "request" \in Failures /\ Responds("failed")
  /\ UNCHANGED <<files, state, process, clients, client, caching, opened, current, digest,
                 previous, completed>>

(* start_recording; the arguments may not be valid. *)
StartRecording ==
  /\ step = "reading"
  /\ recorded' = Everywhere(None)
  /\ \/ step' = "opening" /\ UNCHANGED result
     \/ "arguments" \in Failures /\ Responds("failed")
  /\ current' = [f \in Files |-> {ContentAt(f)}]
  /\ UNCHANGED <<files, state, process, clients, client, cache, opened, digest, previous,
                 completed>>

(* open_input, first part: metadata() of the path. *)
ReadMetadata(f) ==
  /\ step = "opening" /\ f \in Inputs[client] /\ seen[f] = None
  /\ seen' = [seen EXCEPT ![f] = StampAt(f)]
  /\ UNCHANGED <<files, state, process, clients, step, client, result, caching, mapped,
                 consumed, verified, current, digest, previous, completed>>

CachedUnchanged(f) == cache[f] # None /\ cache[f].stamp = seen[f]

(* Mutant: a cached mapping is used whatever its stamp. *)
OpenAnyCached(f) ==
  LET input == [inode |-> IF cache[f] # None THEN cache[f].inode ELSE disk[f],
                stamp |-> seen[f]]
  IN /\ step = "opening" /\ seen[f] # None /\ mapped[f] = None
     /\ mapped' = [mapped EXCEPT ![f] = input]
     /\ cache' = [cache EXCEPT ![f] = input]
     /\ recorded' = [recorded EXCEPT ![f] = seen[f]]
     /\ UNCHANGED <<files, state, process, clients, step, client, result, seen, consumed,
                    verified, current, digest, previous, completed>>

(* open_input, second part, under the lock of the cache. *)
OpenInput(f) ==
  LET input == IF CachedUnchanged(f) THEN cache[f]
               ELSE [inode |-> disk[f], stamp |-> seen[f]]
  IN /\ step = "opening" /\ seen[f] # None /\ mapped[f] = None
     /\ mapped' = [mapped EXCEPT ![f] = input]
     /\ cache' = [cache EXCEPT ![f] = input]
     /\ recorded' = [recorded EXCEPT ![f] = seen[f]]
     /\ UNCHANGED <<files, state, process, clients, step, client, result, seen, consumed,
                    verified, current, digest, previous, completed>>

(* The link reads an input, as it is at this moment. *)
ReadInput(f) ==
  LET x == inode[mapped[f].inode].content IN
  /\ step \in {"opening", "linking"} /\ mapped[f] # None /\ x \notin consumed[f]
  /\ consumed' = [consumed EXCEPT ![f] = @ \cup {x}]
  /\ UNCHANGED <<files, state, process, clients, step, client, result, caching, seen, mapped,
                 verified, current, digest, previous, completed>>

AllOpened ==
  /\ step = "opening" /\ \A f \in Inputs[client] : mapped[f] # None
  /\ step' = "linking"
  /\ UNCHANGED <<files, state, process, clients, client, result, caching, opened, current,
                 digest, previous, completed>>

LinkFails ==
  /\ step \in {"opening", "linking"} /\ "link" \in Failures /\ Responds("failed")
  /\ UNCHANGED <<files, state, process, clients, client, caching, opened, current, digest,
                 previous, completed>>

(* The output has been written. *)
OutputWritten ==
  /\ step = "linking" /\ \A f \in Inputs[client] : consumed[f] # {}
  /\ step' = "verifying"
  /\ UNCHANGED <<files, state, process, clients, client, result, caching, opened, current,
                 digest, previous, completed>>

(* verify_inputs_unchanged, of one of the loaded files *)
VerifyUnchanged(f) ==
  /\ step = "verifying" /\ f \in LoadedFiles(client) \ verified
  /\ IF StampAt(f) = mapped[f].stamp
     THEN verified' = verified \cup {f} /\ UNCHANGED <<step, result>>
     ELSE Responds("failed") /\ UNCHANGED verified
  /\ UNCHANGED <<files, state, process, clients, client, caching, seen, mapped, consumed,
                 current, digest, previous, completed>>

(* What a manifest says of the inputs of the link. *)
Identities == [f \in {g \in Files : recorded[g] # None} |->
                 [stamp |-> recorded[f], digest |-> digest[f]]]
Stamps(identities) == [f \in DOMAIN identities |-> identities[f].stamp]

LinkCompleted ==
  /\ step = "verifying" /\ verified = LoadedFiles(client)
  /\ completed' = completed \cup {<<StateDir(client), Stamps(Identities)>>}
  /\ IF StateRoot
     THEN step' = (IF Helper THEN "digesting" ELSE "comparing") /\ UNCHANGED result
     ELSE Responds("ok")
  /\ UNCHANGED <<files, state, process, clients, client, caching, opened, current, digest,
                 previous>>

(* The helper looks up a file by its path. *)
ResolveDigest(f) ==
  /\ step = "digesting" /\ recorded[f] # None /\ digest[f] = None
  /\ digest' = [digest EXCEPT ![f] = ContentAt(f)]
  /\ UNCHANGED <<files, state, process, clients, step, client, result, caching, opened,
                 current, previous, completed>>

(* The helper's answer is complete, or it fails and there are no digests. *)
DigestsResolved ==
  /\ step = "digesting" /\ step' = "comparing"
  /\ \/ /\ \A f \in Files : recorded[f] # None => digest[f] # None
        /\ UNCHANGED digest
     \/ "helper" \in Failures /\ digest' = Everywhere(None)
  /\ UNCHANGED <<files, state, process, clients, client, result, caching, opened, current,
                 previous, completed>>

(* read_manifest: a manifest of another link structure does not count. *)
ReadManifest ==
  LET there == manifest[StateDir(client)] IN
  IF there \in {None, Torn} THEN None
  ELSE IF there.structure = Structure[client] THEN there ELSE None

(* same_contents and compare: the inputs that are as they were.  (Mutant:   *)
(* only digests are compared, also when there are none.)                   *)
SameDigests(old, new) == old.digest = new.digest

SameContents(old, new) ==
  IF old.digest # None /\ new.digest # None THEN old.digest = new.digest
  ELSE old.stamp = new.stamp

Unchanged(old, new) ==
  {f \in DOMAIN old \cap DOMAIN new : SameContents(old[f], new[f])}

(* record: compare with the previous manifest and, unless nothing has      *)
(* changed, write a new one to a temporary file.  Its bytes and verified   *)
(* are history: what the link has read, and which files it has verified.   *)
WriteTemporary ==
  LET old == ReadManifest
      new == [structure |-> Structure[client],
              generation |-> IF old = None THEN 1 ELSE old.generation + 1,
              inputs |-> Identities, synced |-> FALSE,
              output |-> Output(client), bytes |-> consumed, verified |-> verified]
  IN /\ step = "comparing"
     /\ previous' = old
     /\ \/ old # None /\ old.inputs = Identities /\ Responds("ok") /\ UNCHANGED temporary
        \/ /\ ~(old # None /\ old.inputs = Identities)
           /\ temporary' = new /\ step' = "syncing" /\ UNCHANGED result
     /\ UNCHANGED <<files, manifest, durable, process, clients, client, caching, opened, current,
                    digest, completed>>

(* Mutant: the temporary file is renamed before it is synced. *)
SyncNothing ==
  /\ step = "syncing" /\ step' = "renaming"
  /\ UNCHANGED <<files, state, process, clients, client, result, caching, opened, current,
                 digest, previous, completed>>

SyncTemporary ==
  /\ step = "syncing" /\ step' = "renaming"
  /\ temporary' = [temporary EXCEPT !.synced = TRUE]
  /\ UNCHANGED <<files, manifest, durable, process, clients, client, result, caching, opened,
                 current, digest, previous, completed>>

PublishManifest ==
  /\ step = "renaming" /\ step' = "publishing"
  /\ manifest' = [manifest EXCEPT ![StateDir(client)] = temporary]
  /\ temporary' = None
  /\ UNCHANGED <<files, durable, process, clients, client, result, caching, opened, current,
                 digest, previous, completed>>

SyncDirectory ==
  /\ step = "publishing" /\ Responds("ok")
  /\ durable' = [durable EXCEPT ![StateDir(client)] = manifest[StateDir(client)]]
  /\ UNCHANGED <<files, manifest, temporary, process, clients, client, caching, opened, current,
                 digest, previous, completed>>

(* A manifest that cannot be written is a warning. *)
RecordFails ==
  /\ "state" \in Failures /\ step \in {"comparing", "syncing", "renaming", "publishing"}
  /\ Responds("ok") /\ temporary' = None
  /\ UNCHANGED <<files, manifest, durable, process, clients, client, caching, opened, current,
                 digest, previous, completed>>

(* Mutant: only success is written to the stream. *)
ReplyOnlySuccess ==
  /\ step = "replying" /\ result = "ok" /\ step' = "polling"
  /\ clients' = [clients EXCEPT ![client] = result]
  /\ DropLink
  /\ UNCHANGED <<files, state, process, caching, completed>>

(* The answer is sent; then mappings that this link did not use are        *)
(* dropped (prune).                                                        *)
Reply ==
  /\ step = "replying" /\ step' = "polling"
  /\ clients' = [clients EXCEPT ![client] = result]
  /\ DropLink
  /\ cache' = [f \in Files |-> IF recorded[f] # None THEN cache[f] ELSE None]
  /\ UNCHANGED <<files, state, process, recorded, completed>>

(* poll() times out and the parent has changed. *)
PollTimesOut ==
  /\ step = "polling" /\ \A c \in Clients : clients[c] # "queued"
  /\ session = "dead"
  /\ step' = "leaving"
  /\ UNCHANGED <<files, state, process, clients, client, result, caching, opened, current,
                 digest, previous, completed>>

Leave == step = "leaving" /\ WorkerGone /\ UNCHANGED <<state, session>>

-----------------------------------------------------------------------------
WorkerStep ==
  \/ \E c \in Clients : Accept(c)
  \/ BadRequest \/ StartRecording
  \/ \E f \in Files : ReadMetadata(f) \/ OpenInput(f) \/ ReadInput(f) \/ VerifyUnchanged(f)
                      \/ ResolveDigest(f)
  \/ AllOpened \/ LinkFails \/ OutputWritten \/ LinkCompleted \/ DigestsResolved
  \/ WriteTemporary \/ SyncTemporary \/ PublishManifest \/ SyncDirectory \/ RecordFails
  \/ Reply \/ PollTimesOut \/ Leave

Environment ==
  \/ \E f \in Files : \/ \E x \in Contents : Replace(f, x) \/ EditInPlace(f, x)
                      \/ Restore(f)
  \/ StartSession \/ SessionEnds \/ (\E c \in Clients : Connect(c))
  \/ KillWorker \/ MachineStops

Next == (WorkerStep \/ Environment) /\ UNCHANGED setup

Spec == Init /\ [][Next]_<<setup, vars>>

(* The operating system runs the worker; everything else may never happen. *)
FairSpec == Spec /\ WF_vars(WorkerStep)
-----------------------------------------------------------------------------
Stamp == 0 .. MaxEdits
Entries == [inode : Inodes, stamp : Stamp]
OrNone(S) == S \cup {None}

(* A manifest in a file, as a predicate. *)
IsManifest(m) ==
  /\ DOMAIN m = {"structure", "generation", "inputs", "synced", "output", "bytes",
               "verified"}
  /\ m.generation \in Nat \ {0} /\ m.synced \in BOOLEAN
  /\ DOMAIN m.inputs \subseteq Files
  /\ \A f \in DOMAIN m.inputs : /\ m.inputs[f].stamp \in Stamp
                                /\ m.inputs[f].digest \in OrNone(Contents)

TypeOK ==
  /\ edits \in 0 .. MaxEdits
  /\ disk \in [Files -> Inodes]
  /\ inode \in [Inodes -> [content : Contents, stamp : Stamp]]
  /\ \A d \in StateDirs : /\ manifest[d] \in {None, Torn} \/ IsManifest(manifest[d])
                          /\ durable[d] \in {None, Torn} \/ IsManifest(durable[d])
  /\ temporary = None \/ IsManifest(temporary)
  /\ clients \in [Clients -> {"start", "queued", "served", "ok", "failed"}]
  /\ client \in OrNone(Clients)
  /\ cache \in [Files -> OrNone(Entries)] /\ mapped \in [Files -> OrNone(Entries)]
  /\ recorded \in [Files -> OrNone(Stamp)] /\ seen \in [Files -> OrNone(Stamp)]
  /\ consumed \in [Files -> SUBSET Contents] /\ current \in [Files -> SUBSET Contents]
  /\ verified \subseteq Files
  /\ digest \in [Files -> OrNone(Contents)]

(* The link of this request has been completed and verified. *)
Linked == step \in {"digesting", "comparing", "syncing", "renaming", "publishing"}
            \/ (step = "replying" /\ result = "ok")

(* A link that succeeds has read of every input only contents that it had  *)
(* at some time during this link, although the bytes come from mappings    *)
(* that earlier links made, and one content of every loaded file, even     *)
(* when inputs are edited under its mappings.  An auxiliary file is not    *)
(* verified and may have been read in several states.  A replaced file     *)
(* that is moved back has its old stamp, which is all that the cache       *)
(* knows, and is left out here.                                            *)
UsedBytesWereCurrent ==
  Linked /\ ~CanRestore =>
    /\ \A f \in Inputs[client] : consumed[f] \subseteq current[f]
    /\ \A f \in LoadedFiles(client) : Cardinality(consumed[f]) = 1

(* A manifest that can be read describes a completed link, and is never    *)
(* torn, whenever the worker or the machine stops.                         *)
ManifestIsCommitted ==
  \A d \in StateDirs : manifest[d] # None =>
    manifest[d] # Torn /\ <<d, Stamps(manifest[d].inputs)>> \in completed

(* Inputs that a link reports as unchanged since the manifest's link are   *)
(* those of which both links have read the same bytes: what an incremental *)
(* link may leave alone.  This is about files that both links verified: an *)
(* auxiliary file is recorded with a stamp that its bytes need not have    *)
(* had.  Files that are moved back are left out again, and so are digests: *)
(* the helper looks a path up when the link is over, and may find a        *)
(* content that the link has not read.                                     *)
UnchangedMeansSameBytes ==
  Linked /\ ~CanRestore /\ ~Helper /\ previous # None =>
    \A f \in Unchanged(previous.inputs, Identities) :
      f \in verified \cap previous.verified => consumed[f] = previous.bytes[f]

(* Every request gets an answer, and the worker does not outlive its       *)
(* session for ever.                                                       *)
EveryRequestAnswered ==
  /\ \A c \in Clients : clients[c] = "queued" ~> clients[c] \in {"ok", "failed"}
  /\ session = "dead" ~> step = "none"
=============================================================================
