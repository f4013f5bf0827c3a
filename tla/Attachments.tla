----------------------------- MODULE Attachments -----------------------------
(* The drafts of input files (application/attachments.py), the artifacts each *)
(* consists of (application/artifacts.py, adapters/state/artifacts.py), and   *)
(* the two commands that look at rows and files from another process: the     *)
(* cleanup of orphan files and the backup.                                    *)
(*                                                                            *)
(* The owner is one event loop.  A job parses its file elsewhere and then     *)
(* publishes without an await; a command runs without one altogether.  So one *)
(* procedure of the owner is under way at a time, but the process may die,    *)
(* and the other process may act, between any two of its steps.               *)
(*                                                                            *)
(* Left out: the byte and count limits of the staging area, which only refuse *)
(* a reservation or a job; damage done to files by others.                    *)
EXTENDS Integers, FiniteSets

CONSTANTS
  Uploads,  \* the ids of drafts that are uploaded
  Copies,   \* the ids of drafts made from the files of an earlier message
  Parts     \* Parts[d]: the artifacts of an upload, published in the order of
            \* their numbers, the last one is the representation

Drafts == Uploads \cup Copies
\* The id of an artifact is derived from draft, role and content.
BlobsOf(d) == {d} \X (1..Parts[d])
Blobs == UNION {BlobsOf(d) : d \in Uploads}
Nobody == "nobody"

ASSUME DraftsAssumption ==
  /\ IsFiniteSet(Drafts) /\ Uploads \cap Copies = {} /\ Nobody \notin Drafts
ASSUME PartsAssumption == Parts \in [Uploads -> Nat \ {0}]

VARIABLES
  draft,   \* draft[d]: the status of the row and the artifacts it links
  row,     \* row[b]: the state of the metadata row of an artifact
  temp,    \* temp[b], final[b]: the bytes under the temporary and the final
  final,   \*   name of the artifact
  lost,    \* the artifacts a power failure took after their rows were marked
  up,      \* the owner process runs
  stream,  \* the drafts whose bytes are arriving
  job,     \* the drafts being parsed
  owner,   \* the procedure under way
  other    \* the second process

stored == <<draft, row, temp, final, lost>>
memory == <<up, stream, job, owner>>
vars == <<draft, row, temp, final, lost, up, stream, job, owner, other>>

States == {"none", "staging", "available", "missing", "corrupt"}
Owner == [at : {"idle", "look", "write", "rename", "sync", "mark", "link",
                "finish", "discard", "sweep"},
          draft : Drafts \cup {Nobody}, part : Nat, todo : SUBSET Blobs]
Other == [at : {"off", "scan", "move", "list", "copy", "check", "done"},
          known : SUBSET Blobs, sound : BOOLEAN, listed : SUBSET Blobs,
          copied : SUBSET Blobs, todo : SUBSET (Blobs \X {"temp", "final"})]

Idle == [at |-> "idle", draft |-> Nobody, part |-> 0, todo |-> {}]
Off == [at |-> "off", known |-> {}, sound |-> TRUE, listed |-> {},
        copied |-> {}, todo |-> {}]

Rows == {b \in Blobs : row[b] # "none"}
Available == {b \in Blobs : row[b] = "available"}
Live(d) == draft[d].state \notin {"none", "released"}
Unsettled(d) == draft[d].state \in {"uploading", "processing"}

DraftRow == [state : {"none", "reserved", "uploading", "processing", "failed",
                      "ready", "submitted", "released"},
             refs : SUBSET Blobs]

TypeOK ==
  /\ draft \in [Drafts -> DraftRow]
  /\ row \in [Blobs -> States]
  /\ temp \in [Blobs -> {"none", "partial", "whole"}]
  /\ final \in [Blobs -> {"none", "unsynced", "synced"}]
  /\ lost \in SUBSET Blobs
  /\ up \in BOOLEAN
  /\ stream \in SUBSET Drafts /\ job \in SUBSET Drafts
  /\ owner \in Owner
  /\ other \in Other
  \* The links of a draft lead somewhere, and a job belongs to its draft.
  /\ \A d \in Drafts : draft[d].refs \subseteq Rows
  /\ \A d \in job : draft[d].state = "processing"

\* Files are gone through in the order of their names or rows.
First(S) == CHOOSE x \in S : TRUE

Becomes(d, state) == draft' = [draft EXCEPT ![d].state = state]

-----------------------------------------------------------------------------
(* Commands of the owner: each begins while no other procedure is under way  *)

Free == up /\ owner.at = "idle"

Reserve(d) ==
  /\ Free /\ d \in Uploads /\ draft[d].state = "none"
  /\ Becomes(d, "reserved")
  /\ UNCHANGED <<row, temp, final, lost, memory, other>>

\* begin_upload; a failed draft is uploaded again.
BeginUpload(d) ==
  /\ Free /\ draft[d].state \in {"reserved", "failed"} /\ d \notin job
  /\ Becomes(d, "uploading")
  /\ stream' = stream \cup {d}
  /\ UNCHANGED <<row, temp, final, lost, up, job, owner, other>>

\* The bytes have arrived and a parser is free: accept.
Accept(d) ==
  /\ Free /\ d \in stream /\ draft[d].state = "uploading"
  /\ Becomes(d, "processing")
  /\ job' = job \cup {d}
  /\ stream' = stream \ {d}
  /\ UNCHANGED <<row, temp, final, lost, up, owner, other>>

\* The connection breaks or times out, or the bytes are refused: the draft
\* fails, unless it was released meanwhile.
BreakOff(d) ==
  /\ Free /\ d \in stream
  /\ IF draft[d].state = "uploading" THEN Becomes(d, "failed")
                                     ELSE UNCHANGED draft
  /\ stream' = stream \ {d}
  /\ UNCHANGED <<row, temp, final, lost, up, job, owner, other>>

\* Only a draft whose representation can be read is submitted, in the
\* transaction that admits the message.  A row whose file is gone is marked.
Submit(d) ==
  /\ Free /\ draft[d].state = "ready"
  /\ LET texts == {b \in draft[d].refs : b[2] = Parts[b[1]]}
         gone == {b \in texts : row[b] = "available" /\ final[b] = "none"}
     IN \/ /\ gone = {} /\ texts \subseteq Available
           /\ Becomes(d, "submitted") /\ UNCHANGED row
        \/ /\ gone # {} /\ UNCHANGED draft
           /\ row' = [b \in Blobs |-> IF b \in gone THEN "missing" ELSE row[b]]
  /\ UNCHANGED <<temp, final, lost, memory, other>>

\* clone: a new draft links the artifacts of a submitted one.
Clone(from, d) ==
  /\ Free /\ draft[from].state = "submitted"
  /\ d \in Copies /\ draft[d].state = "none"
  /\ draft' = [draft EXCEPT ![d] = [state |-> "ready",
                                    refs |-> draft[from].refs]]
  /\ UNCHANGED <<row, temp, final, lost, memory, other>>

\* release cancels the job and then discards what the draft alone links.  A
\* repeated release finds it released and discards again.
Release(d) ==
  /\ Free /\ draft[d].state \notin {"none", "submitted"}
  /\ draft[d].state = "released" => draft[d].refs # {}
  /\ Becomes(d, "released")
  /\ job' = job \ {d}
  /\ owner' = [Idle EXCEPT !.at = "discard", !.draft = d]
  /\ UNCHANGED <<row, temp, final, lost, up, stream, other>>

-----------------------------------------------------------------------------
(* _process: the file has been parsed; its artifacts are published in order  *)

\* The parser refuses the file or runs into its time limit.
ParseFails(d) ==
  /\ Free /\ d \in job
  /\ Becomes(d, "failed")
  /\ job' = job \ {d}
  /\ UNCHANGED <<row, temp, final, lost, up, stream, owner, other>>

ParseEnds(d) ==
  /\ Free /\ d \in job
  /\ owner' = [Idle EXCEPT !.at = "look", !.draft = d, !.part = 1]
  /\ UNCHANGED <<stored, up, stream, job, other>>

Blob == <<owner.draft, owner.part>>
Goto(place) == owner' = [owner EXCEPT !.at = place]

\* The job ends with an error: the draft fails and may be uploaded again.
JobFails ==
  /\ Becomes(owner.draft, "failed")
  /\ job' = job \ {owner.draft}
  /\ owner' = Idle
  /\ UNCHANGED <<lost, up, stream, other>>

Proceeds(place) == Goto(place) /\ UNCHANGED <<draft, lost, up, stream, job, other>>

\* Mutant: a row that exists stands for its file.
LookForRow ==
  /\ owner.at = "look"
  /\ row' = IF row[Blob] = "none" THEN [row EXCEPT ![Blob] = "staging"] ELSE row
  /\ Proceeds(IF row[Blob] = "none" THEN "write" ELSE "link")
  /\ UNCHANGED <<temp, final>>

\* What an earlier attempt left decides: nothing, so the row is reserved; a
\* staging row, whose final file is verified or whose temporary one thrown away;
\* or a finished artifact, which is read.
Look ==
  /\ owner.at = "look"
  /\ CASE row[Blob] = "none" ->
            /\ row' = [row EXCEPT ![Blob] = "staging"]
            /\ Proceeds("write") /\ UNCHANGED <<temp, final>>
       [] row[Blob] = "staging" /\ final[Blob] = "none" ->
            /\ temp' = [temp EXCEPT ![Blob] = "none"]
            /\ Proceeds("write") /\ UNCHANGED <<row, final>>
       [] row[Blob] = "staging" /\ final[Blob] # "none" ->
            Proceeds("mark") /\ UNCHANGED <<row, temp, final>>
       [] row[Blob] = "available" /\ final[Blob] # "none" ->
            Proceeds("link") /\ UNCHANGED <<row, temp, final>>
       [] OTHER ->
            /\ row' = [row EXCEPT ![Blob] = IF @ = "available" THEN "missing" ELSE @]
            /\ JobFails /\ UNCHANGED <<temp, final>>

\* publish: the temporary file is created, unless a file is in the way.
Write ==
  /\ owner.at = "write"
  /\ IF temp[Blob] = "none" /\ final[Blob] = "none"
       THEN /\ temp' = [temp EXCEPT ![Blob] = "partial"]
            /\ Proceeds("rename") /\ UNCHANGED <<row, final>>
       ELSE /\ row' = [row EXCEPT ![Blob] = "corrupt"]
            /\ JobFails /\ UNCHANGED <<temp, final>>

\* Written, synced and verified, it takes the final name.
Rename ==
  /\ owner.at = "rename"
  /\ CASE temp[Blob] = "partial" ->
            temp' = [temp EXCEPT ![Blob] = "whole"]
            /\ Proceeds("rename") /\ UNCHANGED <<row, final>>
       [] temp[Blob] = "whole" ->
            /\ temp' = [temp EXCEPT ![Blob] = "none"]
            /\ final' = [final EXCEPT ![Blob] = "unsynced"]
            /\ Proceeds("sync") /\ UNCHANGED row
       [] OTHER ->
            /\ row' = [row EXCEPT ![Blob] = "corrupt"]
            /\ JobFails /\ UNCHANGED <<temp, final>>

\* The directory is synced, with each name in it, and the final file verified.
Sync ==
  /\ owner.at = "sync"
  /\ final' = [b \in Blobs |-> IF final[b] = "none" THEN "none" ELSE "synced"]
  /\ IF final[Blob] # "none"
       THEN Proceeds("mark") /\ UNCHANGED row
       ELSE /\ row' = [row EXCEPT ![Blob] = "corrupt"]
            /\ JobFails
  /\ UNCHANGED temp

Mark ==
  /\ owner.at = "mark"
  /\ row' = [row EXCEPT ![Blob] = "available"]
  /\ Proceeds("link")
  /\ UNCHANGED <<temp, final>>

Link ==
  /\ owner.at = "link"
  /\ draft' = [draft EXCEPT ![owner.draft].refs = @ \cup {Blob}]
  /\ owner' = IF owner.part = Parts[owner.draft]
                THEN [owner EXCEPT !.at = "finish"]
                ELSE [owner EXCEPT !.at = "look", !.part = @ + 1]
  /\ UNCHANGED <<row, temp, final, lost, up, stream, job, other>>

Finish ==
  /\ owner.at = "finish"
  /\ Becomes(owner.draft, "ready")
  /\ job' = job \ {owner.draft}
  /\ owner' = Idle
  /\ UNCHANGED <<row, temp, final, lost, up, stream, other>>

\* A full disk or a store that refuses a transaction ends the job as it is.
Fails ==
  /\ owner.at \in {"look", "write", "rename", "sync", "mark", "link", "finish"}
  /\ JobFails
  /\ UNCHANGED <<row, temp, final>>

-----------------------------------------------------------------------------
(* _discard_released_blobs                                                   *)

\* An artifact some draft that is not released still links.
Referenced(b) == \E d \in Drafts : Live(d) /\ b \in draft[d].refs

\* Mutant: the rows go, the links stay.
DiscardRows ==
  /\ owner.at = "discard"
  /\ LET gone == {b \in draft[owner.draft].refs : ~Referenced(b)}
     IN /\ row' = [b \in Blobs |-> IF b \in gone THEN "none" ELSE row[b]]
        /\ owner' = [owner EXCEPT !.at = "sweep", !.todo = gone]
  /\ UNCHANGED <<draft, temp, final, lost, up, stream, job, other>>

\* One transaction: the links nobody else needs go, and the rows nobody links.
Discard ==
  /\ owner.at = "discard"
  /\ LET d == owner.draft
         unlinked == {b \in draft[d].refs : ~Referenced(b)}
         gone == {b \in unlinked : \A k \in Drafts \ {d} : b \notin draft[k].refs}
     IN /\ draft' = [draft EXCEPT ![d].refs = @ \ unlinked]
        /\ row' = [b \in Blobs |-> IF b \in gone THEN "none" ELSE row[b]]
        /\ owner' = [owner EXCEPT !.at = "sweep", !.todo = gone]
  /\ UNCHANGED <<temp, final, lost, up, stream, job, other>>

\* Then the files, one by one.
Sweep ==
  /\ owner.at = "sweep"
  /\ IF owner.todo = {}
       THEN owner' = Idle /\ UNCHANGED <<temp, final>>
       ELSE LET b == First(owner.todo)
            IN /\ temp' = [temp EXCEPT ![b] = "none"]
               /\ final' = [final EXCEPT ![b] = "none"]
               /\ owner' = [owner EXCEPT !.todo = @ \ {b}]
  /\ UNCHANGED <<draft, row, lost, up, stream, job, other>>

-----------------------------------------------------------------------------
(* Crash and restart of the owner                                            *)

Down == up' = FALSE /\ stream' = {} /\ job' = {} /\ owner' = Idle

\* The process dies, the files stay.
Crash ==
  /\ up /\ Down
  /\ UNCHANGED <<stored, other>>

\* The machine dies: names not synced may be gone, the bytes are found under the
\* old ones.  A row survives as soon as its transaction is committed.
PowerFails ==
  /\ Down /\ other' = Off
  /\ \E gone \in SUBSET {b \in Blobs : final[b] = "unsynced"} :
       /\ temp' = [b \in Blobs |-> IF b \in gone THEN "whole" ELSE temp[b]]
       /\ final' = [b \in Blobs |-> IF b \in gone THEN "none" ELSE final[b]]
       /\ lost' = lost \cup (gone \cap Available)
  /\ UNCHANGED <<draft, row>>

\* Mutant: only uploads are looked for.
RestartUploads ==
  /\ ~up /\ up' = TRUE
  /\ draft' = [d \in Drafts |->
       IF draft[d].state = "uploading" THEN [draft[d] EXCEPT !.state = "failed"]
                                       ELSE draft[d]]
  /\ UNCHANGED <<row, temp, final, lost, stream, job, owner, other>>

\* restart: nothing arrives and nothing is parsed any more.
Restart ==
  /\ ~up /\ up' = TRUE
  /\ draft' = [d \in Drafts |->
       IF Unsettled(d) THEN [draft[d] EXCEPT !.state = "failed"] ELSE draft[d]]
  /\ UNCHANGED <<row, temp, final, lost, stream, job, owner, other>>

-----------------------------------------------------------------------------
(* The second process: one cleanup or one backup at a time                   *)

Files == {f \in Blobs \X {"temp", "final"} :
            IF f[2] = "temp" THEN temp[f[1]] # "none" ELSE final[f[1]] # "none"}
OtherDoes(o) == other' = o /\ UNCHANGED <<draft, row, lost, memory>>

\* cleanup: which artifacts have a row, which files are there, and then each
\* file without a row is moved away, in a transaction that looks again.
CleanupBegins ==
  /\ other.at \in {"off", "done"}
  /\ OtherDoes([Off EXCEPT !.at = "scan", !.known = Rows])
  /\ UNCHANGED <<temp, final>>

CleanupScans ==
  /\ other.at = "scan"
  /\ OtherDoes([Off EXCEPT !.at = "move",
                           !.todo = {f \in Files : f[1] \notin other.known}])
  /\ UNCHANGED <<temp, final>>

\* Mutant: the rows read before the scan decide.
Unclaimed(b) == TRUE
\* has_global_artifact_authority
Orphan(b) == row[b] = "none"

CleanupMoves ==
  /\ other.at = "move"
  /\ IF other.todo = {}
       THEN OtherDoes(Off) /\ UNCHANGED <<temp, final>>
       ELSE LET f == First(other.todo)
            IN /\ OtherDoes([other EXCEPT !.todo = @ \ {f}])
               /\ temp' = IF Orphan(f[1]) /\ f[2] = "temp"
                            THEN [temp EXCEPT ![f[1]] = "none"] ELSE temp
               /\ final' = IF Orphan(f[1]) /\ f[2] = "final"
                             THEN [final EXCEPT ![f[1]] = "none"] ELSE final

\* backup: a snapshot of the database, then the rows of the live store, of which
\* each must be available, then their files.
BackupBegins ==
  /\ other.at \in {"off", "done"}
  /\ OtherDoes([Off EXCEPT !.at = "list", !.known = Rows,
                           !.sound = (Rows = Available)])
  /\ UNCHANGED <<temp, final>>

BackupLists ==
  /\ other.at = "list"
  /\ OtherDoes(IF Rows = Available
                 THEN [other EXCEPT !.at = "copy", !.listed = Rows,
                                    !.todo = Rows \X {"final"}]
                 ELSE Off)
  /\ UNCHANGED <<temp, final>>

BackupCopies ==
  /\ other.at = "copy"
  /\ IF other.todo = {}
       THEN OtherDoes([other EXCEPT !.at = "check"])
       ELSE LET f == First(other.todo)
            IN OtherDoes(IF final[f[1]] # "none"
                           THEN [other EXCEPT !.todo = @ \ {f},
                                              !.copied = @ \cup {f[1]}]
                           ELSE Off)
  /\ UNCHANGED <<temp, final>>

\* Mutant: each listed file is in the bundle, that is enough.
CopiedAll(o) == o.todo = {}
\* verify: the rows of the snapshot are those of the files in the bundle.
Matches(o) == o.sound /\ o.known = o.listed

BackupEnds ==
  /\ other.at = "check"
  /\ OtherDoes(IF Matches(other) THEN [Off EXCEPT !.at = "done"] ELSE Off)
  /\ UNCHANGED <<temp, final>>

-----------------------------------------------------------------------------
(* The specification                                                         *)

Init ==
  /\ draft = [d \in Drafts |-> [state |-> "none", refs |-> {}]]
  /\ row = [b \in Blobs |-> "none"]
  /\ temp = [b \in Blobs |-> "none"] /\ final = [b \in Blobs |-> "none"]
  /\ lost = {}
  /\ up = TRUE /\ stream = {} /\ job = {} /\ owner = Idle
  /\ other = Off

Command(d) ==
  \/ Reserve(d) \/ BeginUpload(d) \/ Submit(d) \/ Release(d)
  \/ \E from \in Drafts : Clone(from, d)

Arrives(d) == Accept(d) \/ BreakOff(d)
Parses(d) == ParseFails(d) \/ ParseEnds(d)

Procedure ==
  \/ Look \/ Write \/ Rename \/ Sync \/ Mark \/ Link \/ Finish \/ Fails
  \/ Discard \/ Sweep

OtherProcess ==
  \/ CleanupBegins \/ CleanupScans \/ CleanupMoves
  \/ BackupBegins \/ BackupLists \/ BackupCopies \/ BackupEnds

Next ==
  \/ \E d \in Drafts : Command(d) \/ Arrives(d) \/ Parses(d)
  \/ Procedure \/ Crash \/ PowerFails \/ Restart \/ OtherProcess

\* A procedure of the owner waits for nobody.  Uploads and parsers end at the
\* latest by their time limits, and the event loop serves them in order.
Fairness ==
  /\ WF_vars(Procedure)
  /\ \A d \in Drafts : SF_vars(Arrives(d)) /\ SF_vars(Parses(d))

Spec == Init /\ [][Next]_vars /\ Fairness

-----------------------------------------------------------------------------
(* Properties                                                                *)

\* A row never says more than its file: an available artifact can be read, over
\* crashes in the middle of its publication and a cleanup at work, and the system
\* never finds damage it caused itself (restore_staging_bytes, _try_mark).  What
\* power failures took is excepted: a final file an earlier attempt left behind
\* is verified and marked, but its name is not synced first (finalize_staging).
RowMatchesFile ==
  \A b \in Blobs \ lost : /\ row[b] = "available" => final[b] # "none"
                          /\ row[b] \notin {"missing", "corrupt"}

\* A draft that is ready, or part of a message, has all its artifacts, and each
\* can be read: whatever attempt published it, whoever shared and released it.
MessageKeepsFiles ==
  \A d \in Drafts : draft[d].state \in {"ready", "submitted"} =>
    /\ \E u \in Uploads : draft[d].refs = BlobsOf(u)
    /\ \A b \in draft[d].refs \ lost : row[b] = "available" /\ final[b] # "none"

\* A bundle that passes its verification holds the whole file of each artifact in
\* its own database, although database, list and files are read one after the
\* other while artifacts are published and released (create, verify).
BundleComplete ==
  [][other.at = "check" /\ other'.at = "done" =>
       other.known \subseteq other.copied]_vars

\* An upload or a job that is under way settles its draft, and none is left
\* unsettled after a restart.
DraftSettles ==
  \A d \in Drafts : Unsettled(d) ~> ~Unsettled(d) \/ ~up

=============================================================================
