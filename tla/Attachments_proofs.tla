------------------------- MODULE Attachments_proofs -------------------------
(* Drafts, artifacts and their files, for any number of drafts and artifacts. *)
EXTENDS Attachments, TLAPS

(* Where a file is missing or found: a finished artifact has one, unless power*)
(* failures took it, and only a released draft leaves files without a row.    *)
FileOK(b) ==
  /\ row[b] # "corrupt"
  /\ row[b] = "missing" => b \in lost
  /\ row[b] = "available" /\ b \notin lost => final[b] # "none"
  /\ row[b] = "none" => \/ temp[b] = "none" /\ final[b] = "none"
                        \/ draft[b[1]].state = "released"

(* What a draft links: finished artifacts, of itself if it was uploaded, of a *)
(* submitted draft if it is a copy, and all of them once it is ready.         *)
LinksOK(d) ==
  /\ \A b \in draft[d].refs : b \in lost \/ row[b] = "available"
  /\ d \in Uploads => draft[d].refs \subseteq BlobsOf(d)
  /\ d \in Copies =>
       /\ draft[d].state \in {"none", "ready", "submitted", "released"}
       /\ draft[d].refs # {} =>
            \E u \in Uploads : draft[u].state = "submitted"
                               /\ draft[d].refs \subseteq BlobsOf(u)
  /\ draft[d].state \in {"ready", "submitted"} =>
       \E u \in Uploads : draft[d].refs = BlobsOf(u)
  /\ d \in Uploads /\ draft[d].state = "submitted" => draft[d].refs = BlobsOf(d)

(* The places of the publication of an artifact.                             *)
Publishing == {"look", "write", "rename", "sync", "mark", "link"}

(* What the procedure under way has established when it is at a place.        *)
PlaceOK ==
  /\ owner.at \in Publishing \cup {"finish"} =>
       owner.draft \in Uploads /\ owner.draft \in job
  /\ owner.at \in Publishing =>
       /\ owner.part \in 1..Parts[owner.draft]
       /\ \A k \in 1..(owner.part - 1) :
            <<owner.draft, k>> \in draft[owner.draft].refs
  /\ owner.at \in {"write", "rename", "sync", "mark"} => row[Blob] = "staging"
  /\ owner.at = "write" => temp[Blob] = "none" /\ final[Blob] = "none"
  /\ owner.at = "rename" => temp[Blob] # "none"
  /\ owner.at \in {"sync", "mark"} => final[Blob] # "none"
  /\ owner.at = "link" => row[Blob] = "available" /\ final[Blob] # "none"
  /\ owner.at = "finish" => draft[owner.draft].refs = BlobsOf(owner.draft)
  /\ owner.at = "discard" =>
       owner.draft \in Drafts /\ draft[owner.draft].state = "released"
  /\ owner.at = "sweep" =>
       \A b \in owner.todo : row[b] = "none" /\ draft[b[1]].state = "released"

(* The inductive invariant, together with Quiet below.                        *)
AttachInv ==
  /\ TypeOK
  /\ \A b \in Blobs : FileOK(b)
  /\ \A d \in Drafts : LinksOK(d)
  /\ PlaceOK

(* The types alone, without what TypeOK says of links and jobs.               *)
Typed ==
  /\ draft \in [Drafts -> DraftRow]
  /\ row \in [Blobs -> States]
  /\ temp \in [Blobs -> {"none", "partial", "whole"}]
  /\ final \in [Blobs -> {"none", "unsynced", "synced"}]
  /\ lost \in SUBSET Blobs
  /\ up \in BOOLEAN
  /\ stream \in SUBSET Drafts /\ job \in SUBSET Drafts
  /\ owner \in Owner
  /\ other \in Other

(* The artifacts of an upload: it has some, and each knows its upload.        *)
LEMMA BlobFacts ==
  ASSUME NEW d \in Uploads
  PROVE  /\ BlobsOf(d) \subseteq Blobs
         /\ BlobsOf(d) # {}
         /\ \A b \in BlobsOf(d) : b[1] = d /\ \E k \in 1..Parts[d] : b = <<d, k>>
         /\ \A k \in 1..Parts[d] : <<d, k>> \in BlobsOf(d)
<1>1. Parts[d] \in Nat \ {0}
  BY PartsAssumption
<1>2. 1 \in 1..Parts[d]
  BY <1>1
<1>3. \A k \in 1..Parts[d] : <<d, k>> \in BlobsOf(d)
  BY DEF BlobsOf
<1>4. \A b \in BlobsOf(d) : b[1] = d /\ \E k \in 1..Parts[d] : b = <<d, k>>
  BY DEF BlobsOf
<1>5. BlobsOf(d) \subseteq Blobs
  BY DEF Blobs
<1> QED BY <1>2, <1>3, <1>4, <1>5

(* Every artifact belongs to the upload its id starts with.                   *)
LEMMA BlobHome ==
  ASSUME NEW b \in Blobs
  PROVE  b[1] \in Uploads /\ b \in BlobsOf(b[1])
<1>1. PICK d \in Uploads : b \in BlobsOf(d)
  BY DEF Blobs
<1> QED BY <1>1, BlobFacts

(* A change of status leaves the links, and the other drafts, alone.          *)
LEMMA BecomesFacts ==
  ASSUME draft \in [Drafts -> DraftRow], NEW d \in Drafts,
         NEW s \in {"none", "reserved", "uploading", "processing", "failed",
                    "ready", "submitted", "released"},
         Becomes(d, s)
  PROVE  /\ draft' \in [Drafts -> DraftRow]
         /\ draft'[d].state = s
         /\ \A k \in Drafts : draft'[k].refs = draft[k].refs
         /\ \A k \in Drafts \ {d} : draft'[k] = draft[k]
<1> DEFINE new == [draft[d] EXCEPT !.state = s]
<1>1. draft[d] \in DraftRow
  OBVIOUS
<1>2. new \in DraftRow /\ new.state = s /\ new.refs = draft[d].refs
  BY <1>1 DEF DraftRow
<1>3. draft' = [draft EXCEPT ![d] = new]
  BY DEF Becomes
<1> HIDE DEF new
<1> QED BY <1>2, <1>3

(* A status other than ready and submitted leaves files and links in order;   *)
(* at most a row is found without its file.                                   *)
LEMMA NewStatus ==
  ASSUME AttachInv, NEW d \in Drafts,
         NEW s \in {"reserved", "uploading", "processing", "failed", "released"},
         Becomes(d, s), d \in Uploads \/ s = "released",
         draft[d].state # "submitted",
         draft[d].state = "released" => s = "released",
         UNCHANGED <<temp, final, lost>>,
         \A b \in Blobs : \/ row'[b] = row[b]
                          \/ row[b] = "available" /\ final[b] = "none"
                             /\ row'[b] = "missing"
  PROVE  /\ \A b \in Blobs : FileOK(b)'
         /\ \A k \in Drafts : LinksOK(k)'
<1>1. /\ draft'[d].state = s
      /\ \A k \in Drafts : draft'[k].refs = draft[k].refs
      /\ \A k \in Drafts \ {d} : draft'[k] = draft[k]
  BY BecomesFacts DEF AttachInv, TypeOK
<1>2. ASSUME NEW b \in Blobs PROVE FileOK(b)'
  <2>1. b[1] \in Drafts
    BY BlobHome DEF Drafts
  <2>2. draft[b[1]].state = "released" => draft'[b[1]].state = "released"
    BY <1>1, <2>1
  <2>3. FileOK(b)
    BY DEF AttachInv
  <2> QED BY <2>2, <2>3 DEF FileOK
<1>3. ASSUME NEW k \in Drafts PROVE LinksOK(k)'
  <2>1. LinksOK(k) /\ draft[k].refs \subseteq Blobs
    BY DEF AttachInv, TypeOK, DraftRow
  <2>2. \A b \in draft'[k].refs : b \in lost' \/ row'[b] = "available"
    BY <1>1, <2>1 DEF LinksOK, AttachInv, FileOK
  <2>3. k \in Uploads => draft'[k].refs \subseteq BlobsOf(k)
    BY <1>1, <2>1 DEF LinksOK
  <2>4. ASSUME k \in Copies
        PROVE  /\ draft'[k].state \in {"none", "ready", "submitted", "released"}
               /\ draft'[k].refs # {} =>
                    \E u \in Uploads : draft'[u].state = "submitted"
                                       /\ draft'[k].refs \subseteq BlobsOf(u)
    <3>1. k \notin Uploads
      BY <2>4, DraftsAssumption
    <3>2. draft'[k].state \in {"none", "ready", "submitted", "released"}
      BY <1>1, <2>1, <2>4, <3>1 DEF LinksOK
    <3>3. ASSUME NEW u \in Uploads, draft[u].state = "submitted"
          PROVE  draft'[u].state = "submitted"
      BY <1>1, <3>3 DEF Drafts
    <3> QED BY <1>1, <2>1, <2>4, <3>2, <3>3 DEF LinksOK
  <2>5. draft'[k].state \in {"ready", "submitted"} =>
          /\ \E u \in Uploads : draft'[k].refs = BlobsOf(u)
          /\ k \in Uploads /\ draft'[k].state = "submitted" =>
               draft'[k].refs = BlobsOf(k)
    BY <1>1, <2>1 DEF LinksOK
  <2> QED BY <2>2, <2>3, <2>4, <2>5 DEF LinksOK
<1> QED BY <1>2, <1>3

(* While no procedure is under way nothing is established.                    *)
LEMMA NoPlace ==
  ASSUME owner'.at = "idle" PROVE PlaceOK'
BY DEF PlaceOK, Publishing

-----------------------------------------------------------------------------
(* Types                                                                     *)

Places == {"idle", "look", "write", "rename", "sync", "mark", "link", "finish",
           "discard", "sweep"}

(* Moving the procedure to another place keeps its type.                      *)
LEMMA OwnerTypes ==
  /\ Idle \in Owner
  /\ \A o \in Owner, p \in Places : [o EXCEPT !.at = p] \in Owner
  /\ \A o \in Owner, S \in SUBSET Blobs : [o EXCEPT !.todo = S] \in Owner
  /\ \A o \in Owner, p \in Places, S \in SUBSET Blobs :
       [o EXCEPT !.at = p, !.todo = S] \in Owner
  /\ \A o \in Owner, p \in Places, n \in Nat :
       [o EXCEPT !.at = p, !.part = n] \in Owner
  /\ \A o \in Owner, p \in Places, d \in Drafts :
       [o EXCEPT !.at = p, !.draft = d] \in Owner
  /\ \A o \in Owner, p \in Places, d \in Drafts, n \in Nat :
       [o EXCEPT !.at = p, !.draft = d, !.part = n] \in Owner
<1>1. Idle \in Owner
  BY DEF Idle, Owner
<1>2. \A o \in Owner, p \in Places : [o EXCEPT !.at = p] \in Owner
  BY DEF Owner, Places
<1>3. \A o \in Owner, S \in SUBSET Blobs : [o EXCEPT !.todo = S] \in Owner
  BY DEF Owner
<1>4. \A o \in Owner, n \in Nat : [o EXCEPT !.part = n] \in Owner
  BY DEF Owner
<1>5. \A o \in Owner, d \in Drafts : [o EXCEPT !.draft = d] \in Owner
  BY DEF Owner
<1>6. ASSUME NEW o \in Owner, NEW p \in Places, NEW S \in SUBSET Blobs
      PROVE  [o EXCEPT !.at = p, !.todo = S] \in Owner
  <2> DEFINE a == [o EXCEPT !.at = p]
  <2>1. a \in Owner
    BY <1>2
  <2> HIDE DEF a
  <2>2. [a EXCEPT !.todo = S] \in Owner
    BY <1>3, <2>1
  <2> QED BY <2>2 DEF a
<1>7. ASSUME NEW o \in Owner, NEW p \in Places, NEW n \in Nat
      PROVE  [o EXCEPT !.at = p, !.part = n] \in Owner
  <2> DEFINE a == [o EXCEPT !.at = p]
  <2>1. a \in Owner
    BY <1>2
  <2> HIDE DEF a
  <2>2. [a EXCEPT !.part = n] \in Owner
    BY <1>4, <2>1
  <2> QED BY <2>2 DEF a
<1>8. ASSUME NEW o \in Owner, NEW p \in Places, NEW d \in Drafts
      PROVE  [o EXCEPT !.at = p, !.draft = d] \in Owner
  <2> DEFINE a == [o EXCEPT !.at = p]
  <2>1. a \in Owner
    BY <1>2
  <2> HIDE DEF a
  <2>2. [a EXCEPT !.draft = d] \in Owner
    BY <1>5, <2>1
  <2> QED BY <2>2 DEF a
<1>9. ASSUME NEW o \in Owner, NEW p \in Places, NEW d \in Drafts, NEW n \in Nat
      PROVE  [o EXCEPT !.at = p, !.draft = d, !.part = n] \in Owner
  <2> DEFINE a == [o EXCEPT !.at = p, !.draft = d]
  <2>1. a \in Owner
    BY <1>8
  <2> HIDE DEF a
  <2>2. [a EXCEPT !.part = n] \in Owner
    BY <1>4, <2>1
  <2> QED BY <2>2 DEF a
<1> QED BY <1>1, <1>2, <1>3, <1>6, <1>7, <1>8, <1>9

(* The steps of the second process keep its type.                             *)
LEMMA OtherTypes ==
  ASSUME Typed, OtherProcess PROVE other' \in Other
<1> USE DEF Typed
<1> DEFINE At == {"off", "scan", "move", "list", "copy", "check", "done"}
           Todo == SUBSET (Blobs \X {"temp", "final"})
<1>1. Off \in Other
  BY DEF Off, Other
<1>2. \A o \in Other, p \in At : [o EXCEPT !.at = p] \in Other
  BY DEF Other
<1>3. \A o \in Other, S \in Todo : [o EXCEPT !.todo = S] \in Other
  BY DEF Other
<1>4. \A o \in Other, S \in SUBSET Blobs :
        /\ [o EXCEPT !.known = S] \in Other
        /\ [o EXCEPT !.listed = S] \in Other
        /\ [o EXCEPT !.copied = S] \in Other
  BY DEF Other
<1>5. \A o \in Other, x \in BOOLEAN : [o EXCEPT !.sound = x] \in Other
  BY DEF Other
<1>6. Rows \in SUBSET Blobs /\ Files \in Todo /\ (Rows = Available) \in BOOLEAN
      /\ Rows \X {"final"} \in Todo
  BY DEF Rows, Files
<1>7. \A o \in Other : o.todo \in Todo
  BY DEF Other
<1> HIDE DEF At, Todo
<1>a. "off" \in At /\ "scan" \in At /\ "move" \in At /\ "list" \in At
      /\ "copy" \in At /\ "check" \in At /\ "done" \in At
  BY DEF At
<1>8. CASE CleanupBegins
  <2> DEFINE a == [Off EXCEPT !.at = "scan"]
  <2>1. a \in Other
    BY <1>1, <1>2, <1>a
  <2> HIDE DEF a
  <2>2. [a EXCEPT !.known = Rows] \in Other
    BY <1>4, <1>6, <2>1
  <2> QED BY <1>8, <2>2 DEF CleanupBegins, OtherDoes, a
<1>9. CASE CleanupScans
  <2> DEFINE a == [Off EXCEPT !.at = "move"]
             F == {f \in Files : f[1] \notin other.known}
  <2>1. a \in Other /\ F \in Todo
    BY <1>1, <1>2, <1>6, <1>a DEF Todo
  <2> HIDE DEF a
  <2>2. [a EXCEPT !.todo = F] \in Other
    BY <1>3, <2>1
  <2> QED BY <1>9, <2>2 DEF CleanupScans, OtherDoes, a
<1>10. CASE CleanupMoves
  <2>1. [other EXCEPT !.todo = other.todo \ {First(other.todo)}] \in Other
    BY <1>3, <1>7 DEF Todo
  <2> QED BY <1>1, <1>10, <2>1 DEF CleanupMoves, OtherDoes
<1>11. CASE BackupBegins
  <2> DEFINE a == [Off EXCEPT !.at = "list"]
             b == [a EXCEPT !.known = Rows]
             x == (Rows = Available)
  <2>1. a \in Other
    BY <1>1, <1>2, <1>a
  <2>2. b \in Other
    <3> HIDE DEF a
    <3> QED BY <1>4, <1>6, <2>1
  <2>3. [b EXCEPT !.sound = x] \in Other
    <3> HIDE DEF b, x
    <3>1. x \in BOOLEAN
      BY <1>6 DEF x
    <3> QED BY <1>5, <2>2, <3>1
  <2> QED BY <1>11, <2>3 DEF BackupBegins, OtherDoes
<1>12. CASE BackupLists
  <2> DEFINE a == [other EXCEPT !.at = "copy"]
             b == [a EXCEPT !.listed = Rows]
  <2>1. a \in Other
    BY <1>2, <1>a
  <2>2. b \in Other
    <3> HIDE DEF a
    <3> QED BY <1>4, <1>6, <2>1
  <2>3. [b EXCEPT !.todo = Rows \X {"final"}] \in Other
    <3> HIDE DEF b
    <3> QED BY <1>3, <1>6, <2>2
  <2> QED BY <1>1, <1>12, <2>3 DEF BackupLists, OtherDoes
<1>13. CASE BackupCopies
  <2> DEFINE f == First(other.todo)
             a == [other EXCEPT !.todo = other.todo \ {f}]
             S == other.copied \cup {f[1]}
  <2>1. ASSUME other.todo # {} PROVE [a EXCEPT !.copied = S] \in Other
    <3>1. f \in Blobs \X {"temp", "final"} /\ other.todo \ {f} \in Todo
      BY <1>7, <2>1 DEF First, Todo
    <3>2. a \in Other
      BY <1>3, <3>1
    <3>3. S \in SUBSET Blobs
      BY <3>1 DEF Other
    <3> HIDE DEF a, S
    <3> QED BY <1>4, <3>2, <3>3
  <2>2. [other EXCEPT !.at = "check"] \in Other
    BY <1>2, <1>a
  <2> QED BY <1>1, <1>13, <2>1, <2>2 DEF BackupCopies, OtherDoes
<1>14. CASE BackupEnds
  <2>1. [Off EXCEPT !.at = "done"] \in Other
    BY <1>1, <1>2, <1>a
  <2> QED BY <1>1, <1>14, <2>1 DEF BackupEnds, OtherDoes
<1> QED BY <1>8, <1>9, <1>10, <1>11, <1>12, <1>13, <1>14 DEF OtherProcess

-----------------------------------------------------------------------------
(* Commands                                                                  *)

(* Cleanup and backup: only files of released drafts are moved away.          *)
LEMMA OtherKeeps ==
  ASSUME AttachInv, OtherProcess PROVE AttachInv'
<1>1. Typed /\ other' \in Other
  BY OtherTypes DEF AttachInv, TypeOK, Typed
<1>2. UNCHANGED <<draft, row, lost, up, stream, job, owner>>
  BY DEF OtherProcess, CleanupBegins, CleanupScans, CleanupMoves, BackupBegins,
         BackupLists, BackupCopies, BackupEnds, OtherDoes, memory
<1>3. /\ temp' \in [Blobs -> {"none", "partial", "whole"}]
      /\ final' \in [Blobs -> {"none", "unsynced", "synced"}]
      /\ \A b \in Blobs : \/ temp'[b] = temp[b] /\ final'[b] = final[b]
                          \/ row[b] = "none" /\ temp'[b] \in {"none", temp[b]}
                             /\ final'[b] \in {"none", final[b]}
  <2>1. CASE UNCHANGED <<temp, final>>
    BY <1>1, <2>1 DEF Typed
  <2>2. CASE CleanupMoves /\ other.todo # {}
    <3> DEFINE f == First(other.todo)
               c == f[1]
    <3>0. /\ temp' = IF Orphan(c) /\ f[2] = "temp"
                       THEN [temp EXCEPT ![c] = "none"] ELSE temp
          /\ final' = IF Orphan(c) /\ f[2] = "final"
                        THEN [final EXCEPT ![c] = "none"] ELSE final
      BY <2>2, Zenon DEF CleanupMoves
    <3>1. /\ temp' = temp \/ (Orphan(c) /\ temp' = [temp EXCEPT ![c] = "none"])
          /\ final' = final \/ (Orphan(c) /\ final' = [final EXCEPT ![c] = "none"])
      BY <3>0 DEF Orphan
    <3> HIDE DEF c
    <3>2. temp' \in [Blobs -> {"none", "partial", "whole"}]
      BY <1>1, <3>1 DEF Typed
    <3>3. final' \in [Blobs -> {"none", "unsynced", "synced"}]
      BY <1>1, <3>1 DEF Typed
    <3>4. ASSUME NEW b \in Blobs
          PROVE  \/ temp'[b] = temp[b] /\ final'[b] = final[b]
                 \/ row[b] = "none" /\ temp'[b] \in {"none", temp[b]}
                    /\ final'[b] \in {"none", final[b]}
      BY <1>1, <3>1 DEF Typed, Orphan
    <3> QED BY <3>2, <3>3, <3>4
  <2>3. CASE ~CleanupMoves
    BY <2>1, <2>3 DEF OtherProcess, CleanupBegins, CleanupScans,
                      BackupBegins, BackupLists, BackupCopies, BackupEnds
  <2>4. CASE CleanupMoves /\ other.todo = {}
    BY <2>1, <2>4 DEF CleanupMoves
  <2> QED BY <2>2, <2>3, <2>4
<1>4. TypeOK'
  BY <1>1, <1>2, <1>3 DEF AttachInv, TypeOK, Typed, Rows
<1>5. \A b \in Blobs : FileOK(b)'
  BY <1>2, <1>3 DEF AttachInv, FileOK
<1>6. \A d \in Drafts : LinksOK(d)'
  BY <1>2 DEF AttachInv, LinksOK
<1>7. PlaceOK'
  <2>1. owner.at \in Publishing => Blob \in Blobs
    BY BlobFacts DEF AttachInv, PlaceOK, Blob
  <2> QED BY <1>2, <1>3, <2>1 DEF AttachInv, PlaceOK, Publishing, Blob
<1> QED BY <1>4, <1>5, <1>6, <1>7 DEF AttachInv

(* A step that only changes the status of one draft.                          *)
StatusOnly(d, s) ==
  /\ Becomes(d, s)
  /\ d \in Uploads \/ s = "released"
  /\ draft[d].state # "submitted"
  /\ draft[d].state = "released" => s = "released"
  /\ UNCHANGED <<temp, final, lost>>
  /\ row' \in [Blobs -> States]
  /\ \A b \in Blobs : \/ row'[b] = row[b]
                      \/ row[b] = "available" /\ final[b] = "none"
                         /\ row'[b] = "missing"
  /\ up' \in BOOLEAN /\ stream' \in SUBSET Drafts /\ job' \in SUBSET Drafts
  /\ owner' \in Owner /\ other' \in Other
  /\ \A k \in job' : k \in job \ {d} \/ (k = d /\ s = "processing")

(* Such a step keeps the invariant.                                           *)
LEMMA StatusStep ==
  ASSUME AttachInv, NEW d \in Drafts,
         NEW s \in {"reserved", "uploading", "processing", "failed", "released"},
         StatusOnly(d, s), PlaceOK'
  PROVE  AttachInv'
<1> USE DEF StatusOnly
<1>1. /\ draft' \in [Drafts -> DraftRow]
      /\ draft'[d].state = s
      /\ \A k \in Drafts : draft'[k].refs = draft[k].refs
      /\ \A k \in Drafts \ {d} : draft'[k] = draft[k]
  BY BecomesFacts DEF AttachInv, TypeOK
<1>2. /\ \A b \in Blobs : FileOK(b)'
      /\ \A k \in Drafts : LinksOK(k)'
  BY NewStatus
<1>3. \A k \in Drafts : draft'[k].refs \subseteq Rows'
  BY <1>1 DEF AttachInv, TypeOK, Rows
<1>4. \A k \in job' : draft'[k].state = "processing"
  BY <1>1 DEF AttachInv, TypeOK
<1>5. TypeOK'
  BY <1>1, <1>3, <1>4 DEF AttachInv, TypeOK
<1> QED BY <1>2, <1>5 DEF AttachInv

(* Only uploads are ever under way or failed.                                 *)
LEMMA UploadsOnly ==
  ASSUME AttachInv, NEW d \in Drafts,
         draft[d].state \in {"reserved", "uploading", "processing", "failed"}
  PROVE  d \in Uploads
BY DEF AttachInv, LinksOK, Drafts

(* Commands of the owner, arriving bytes and the ends of a parser.            *)
LEMMA CommandKeeps ==
  ASSUME AttachInv, NEW d \in Drafts,
         Reserve(d) \/ BeginUpload(d) \/ Release(d) \/ Arrives(d)
                    \/ ParseFails(d) \/ ParseEnds(d)
  PROVE  AttachInv'
<1>0. /\ row \in [Blobs -> States] /\ up \in BOOLEAN
      /\ stream \in SUBSET Drafts /\ job \in SUBSET Drafts
      /\ owner \in Owner /\ other \in Other /\ Idle \in Owner
      /\ \A k \in job : draft[k].state = "processing"
  BY OwnerTypes DEF AttachInv, TypeOK
<1>1. CASE Reserve(d)
  <2>1. PlaceOK'
    BY <1>1, NoPlace DEF Reserve, Free, memory
  <2>2. StatusOnly(d, "reserved")
    BY <1>0, <1>1 DEF Reserve, memory, StatusOnly
  <2> QED BY <2>1, <2>2, StatusStep
<1>2. CASE BeginUpload(d)
  <2>1. PlaceOK'
    BY <1>2, NoPlace DEF BeginUpload, Free
  <2>2. d \in Uploads
    BY <1>2, UploadsOnly DEF BeginUpload
  <2>3. StatusOnly(d, "uploading")
    BY <1>0, <1>2, <2>2 DEF BeginUpload, StatusOnly
  <2> QED BY <2>1, <2>3, StatusStep
<1>3. CASE Accept(d)
  <2>1. PlaceOK'
    BY <1>3, NoPlace DEF Accept, Free
  <2>2. d \in Uploads
    BY <1>3, UploadsOnly DEF Accept
  <2>3. StatusOnly(d, "processing")
    BY <1>0, <1>3, <2>2 DEF Accept, StatusOnly
  <2> QED BY <2>1, <2>3, StatusStep
<1>4. CASE BreakOff(d)
  <2>1. CASE draft[d].state = "uploading"
    <3>1. PlaceOK'
      BY <1>4, NoPlace DEF BreakOff, Free
    <3>2. d \in Uploads /\ d \notin job
      BY <1>0, <2>1, UploadsOnly
    <3>3. StatusOnly(d, "failed")
      BY <1>0, <1>4, <2>1, <3>2 DEF BreakOff, StatusOnly
    <3> QED BY <3>1, <3>3, StatusStep
  <2>2. CASE draft[d].state # "uploading"
    BY <1>4, <2>2, NoPlace
    DEF BreakOff, Free, FileOK, LinksOK, Rows, AttachInv, TypeOK
  <2> QED BY <2>1, <2>2
<1>5. CASE ParseFails(d)
  <2>1. PlaceOK'
    BY <1>5, NoPlace DEF ParseFails, Free
  <2>2. d \in Uploads
    BY <1>0, <1>5, UploadsOnly DEF ParseFails
  <2>3. StatusOnly(d, "failed")
    BY <1>0, <1>5, <2>2 DEF ParseFails, StatusOnly
  <2> QED BY <2>1, <2>3, StatusStep
<1>6. CASE Release(d)
  <2>1. owner' \in Owner /\ owner'.at = "discard" /\ owner'.draft = d
    <3>1. [Idle EXCEPT !.at = "discard", !.draft = d] \in Owner
      BY OwnerTypes DEF Places
    <3> QED BY <1>6, <3>1 DEF Release, Idle
  <2>2. draft'[d].state = "released"
    BY <1>6, BecomesFacts DEF Release, AttachInv, TypeOK
  <2>3. PlaceOK'
    BY <2>1, <2>2 DEF PlaceOK, Publishing
  <2>4. StatusOnly(d, "released")
    BY <1>0, <1>6, <2>1 DEF Release, StatusOnly
  <2> QED BY <2>3, <2>4, StatusStep
<1>7. CASE ParseEnds(d)
  <2>1. owner' \in Owner /\ owner'.at = "look" /\ owner'.draft = d
        /\ owner'.part = 1
    <3>1. [Idle EXCEPT !.at = "look", !.draft = d, !.part = 1] \in Owner
      BY OwnerTypes DEF Places
    <3> QED BY <1>7, <3>1 DEF ParseEnds, Idle
  <2>2. d \in Uploads /\ d \in job /\ 1 \in 1..Parts[d]
    BY <1>0, <1>7, UploadsOnly, PartsAssumption DEF ParseEnds
  <2>3. PlaceOK'
    BY <1>7, <2>1, <2>2 DEF ParseEnds, PlaceOK, Publishing
  <2> QED BY <1>7, <2>1, <2>3
      DEF ParseEnds, stored, FileOK, LinksOK, Rows, AttachInv, TypeOK
<1> QED BY <1>1, <1>2, <1>3, <1>4, <1>5, <1>6, <1>7 DEF Arrives

(* A ready draft has all its artifacts, so does the message.                  *)
LEMMA SubmitKeeps ==
  ASSUME AttachInv, NEW d \in Drafts, Submit(d) PROVE AttachInv'
<1> DEFINE texts == {b \in draft[d].refs : b[2] = Parts[b[1]]}
           gone == {b \in texts : row[b] = "available" /\ final[b] = "none"}
<1>1. /\ draft' \in [Drafts -> DraftRow]
      /\ draft'[d].state \in {"ready", "submitted"} /\ draft[d].state = "ready"
      /\ \A k \in Drafts : draft'[k].refs = draft[k].refs
      /\ \A k \in Drafts \ {d} : draft'[k] = draft[k]
  BY BecomesFacts DEF AttachInv, TypeOK, Submit
<1>2. UNCHANGED <<temp, final, lost, memory, other>> /\ owner.at = "idle"
  BY DEF Submit, Free
<1>3. /\ row' \in [Blobs -> States]
      /\ \A b \in Blobs : row'[b] = row[b] \/
                          /\ row[b] = "available" /\ final[b] = "none"
                          /\ row'[b] = "missing"
  <2>1. row \in [Blobs -> States]
    BY DEF AttachInv, TypeOK
  <2>2. \/ row' = row
        \/ row' = [b \in Blobs |-> IF b \in gone THEN "missing" ELSE row[b]]
    BY DEF Submit
  <2> QED BY <2>1, <2>2 DEF States
<1>4. ASSUME NEW b \in Blobs PROVE FileOK(b)'
  <2>1. FileOK(b) /\ b[1] \in Drafts
    BY BlobHome DEF AttachInv, Drafts
  <2> QED BY <1>1, <1>2, <1>3, <2>1 DEF FileOK
<1>5. TypeOK'
  <2>1. \A k \in Drafts : draft'[k].refs \subseteq Rows'
    BY <1>1, <1>3 DEF AttachInv, TypeOK, Rows
  <2>2. \A k \in job' : draft'[k].state = "processing"
    BY <1>1, <1>2 DEF AttachInv, TypeOK, memory
  <2> QED BY <1>1, <1>2, <1>3, <2>1, <2>2 DEF AttachInv, TypeOK, memory
<1>6. ASSUME NEW k \in Drafts PROVE LinksOK(k)'
  <2>1. LinksOK(k) /\ LinksOK(d) /\ draft[k].refs \subseteq Blobs
    BY DEF AttachInv, TypeOK, Rows
  <2>2. PICK u \in Uploads : draft[d].refs = BlobsOf(u)
    BY <1>1, <2>1 DEF LinksOK
  <2>3. d \in Uploads => u = d
    BY <2>1, <2>2, BlobFacts DEF LinksOK
  <2>4. \A v \in Uploads : draft[v].state = "submitted" =>
                             draft'[v].state = "submitted"
    BY <1>1 DEF Drafts
  <2>5. \A b \in draft'[k].refs : b \in lost' \/ row'[b] = "available"
    BY <1>1, <1>2, <1>3, <1>4, <2>1 DEF LinksOK, FileOK
  <2>6. CASE k = d
    BY <1>1, <2>1, <2>2, <2>3, <2>4, <2>5, <2>6 DEF LinksOK
  <2>7. CASE k # d
    BY <1>1, <2>1, <2>4, <2>5, <2>7 DEF LinksOK
  <2> QED BY <2>6, <2>7
<1>7. PlaceOK'
  BY <1>2, NoPlace DEF memory
<1> QED BY <1>4, <1>5, <1>6, <1>7 DEF AttachInv

(* A copy is ready at once: its source was submitted.                         *)
LEMMA CloneKeeps ==
  ASSUME AttachInv, NEW from \in Drafts, NEW d \in Drafts, Clone(from, d)
  PROVE  AttachInv'
<1> DEFINE new == [state |-> "ready", refs |-> draft[from].refs]
<1>1. /\ draft[from].state = "submitted" /\ d \in Copies /\ d \notin Uploads
      /\ draft[d].state = "none" /\ from # d
      /\ draft \in [Drafts -> DraftRow] /\ draft[from].refs \subseteq Rows
      /\ LinksOK(from) /\ LinksOK(d)
  BY DraftsAssumption DEF Clone, AttachInv, TypeOK
<1>2. new \in DraftRow
  BY <1>1 DEF DraftRow, Rows
<1>3. /\ draft' \in [Drafts -> DraftRow]
      /\ draft'[d].state = "ready" /\ draft'[d].refs = draft[from].refs
      /\ \A k \in Drafts \ {d} : draft'[k] = draft[k]
  BY <1>1, <1>2 DEF Clone
<1>4. UNCHANGED <<row, temp, final, lost, memory, other>> /\ owner.at = "idle"
  BY DEF Clone, Free
<1>5. TypeOK'
  <2>1. \A k \in Drafts : draft'[k].refs \subseteq Rows'
    BY <1>1, <1>3, <1>4 DEF AttachInv, TypeOK, Rows
  <2>2. \A k \in job' : draft'[k].state = "processing"
    BY <1>1, <1>3, <1>4 DEF AttachInv, TypeOK, memory
  <2> QED BY <1>3, <1>4, <2>1, <2>2 DEF AttachInv, TypeOK, memory
<1>6. \A b \in Blobs : FileOK(b)'
  BY <1>1, <1>3, <1>4, BlobHome DEF AttachInv, FileOK, Drafts
<1>7. ASSUME NEW k \in Drafts PROVE LinksOK(k)'
  <2>1. \A v \in Uploads : draft'[v] = draft[v]
    BY <1>1, <1>3 DEF Drafts
  <2>2. CASE k = d
    <3>1. \E u \in Uploads : draft[from].refs = BlobsOf(u)
      BY <1>1 DEF LinksOK
    <3>2. draft[from].refs # {} =>
            \E u \in Uploads : draft[u].state = "submitted"
                               /\ draft[from].refs \subseteq BlobsOf(u)
      BY <1>1 DEF LinksOK, Drafts
    <3>3. \A b \in draft[from].refs : b \in lost \/ row[b] = "available"
      BY <1>1 DEF LinksOK
    <3> QED BY <1>1, <1>3, <1>4, <2>1, <2>2, <3>1, <3>2, <3>3 DEF LinksOK
  <2>3. CASE k # d
    <3>1. LinksOK(k)
      BY DEF AttachInv
    <3> QED BY <1>3, <1>4, <2>1, <2>3, <3>1 DEF LinksOK
  <2> QED BY <2>2, <2>3
<1>8. PlaceOK'
  BY <1>4, NoPlace DEF memory
<1> QED BY <1>5, <1>6, <1>7, <1>8 DEF AttachInv

-----------------------------------------------------------------------------
(* The procedure under way                                                   *)

(* The draft and the artifact the publication is about.                       *)
LEMMA UnderWay ==
  ASSUME AttachInv, owner.at \in Publishing
  PROVE  /\ owner \in Owner /\ owner.draft \in Uploads /\ owner.draft \in Drafts
         /\ owner.draft \in job
         /\ draft[owner.draft].state = "processing"
         /\ owner.part \in 1..Parts[owner.draft]
         /\ Blob \in Blobs /\ Blob \in BlobsOf(owner.draft)
         /\ Blob[1] = owner.draft
         /\ FileOK(Blob)
BY BlobFacts DEF AttachInv, TypeOK, PlaceOK, Blob, Publishing, Drafts

(* A step of the publication writes the row and the files of one artifact.    *)
OneBlob ==
  /\ UNCHANGED <<draft, lost, up, stream, job, other>>
  /\ owner' \in Owner
  /\ row' \in [Blobs -> States]
  /\ temp' \in [Blobs -> {"none", "partial", "whole"}]
  /\ final' \in [Blobs -> {"none", "unsynced", "synced"}]
  /\ \A b \in Blobs \ {Blob} :
       row'[b] = row[b] /\ temp'[b] = temp[b]
       /\ (final'[b] = "none" <=> final[b] = "none")
  /\ row'[Blob] \in {"staging", "available"}
  /\ row[Blob] \in {"none", "staging", row'[Blob]}
  /\ row'[Blob] = "available" => final'[Blob] # "none"

(* Such a step keeps the invariant if it establishes its next place.          *)
LEMMA OneBlobStep ==
  ASSUME AttachInv, owner.at \in Publishing, OneBlob, PlaceOK' PROVE AttachInv'
<1>1. /\ row' \in [Blobs -> States] /\ Blob \in Blobs
      /\ \A k \in Drafts : draft[k].refs \subseteq Rows
      /\ \A k \in Drafts : LinksOK(k)
      /\ \A b \in Blobs : FileOK(b)
  BY UnderWay DEF OneBlob, AttachInv, TypeOK
<1>2. TypeOK'
  <2>1. \A k \in Drafts : draft'[k].refs \subseteq Rows'
    BY <1>1 DEF OneBlob, Rows
  <2> QED BY <2>1 DEF OneBlob, AttachInv, TypeOK
<1>3. ASSUME NEW b \in Blobs PROVE FileOK(b)'
  <2>1. CASE b = Blob
    BY <2>1 DEF OneBlob, FileOK
  <2>2. CASE b # Blob
    BY <1>1, <2>2 DEF OneBlob, FileOK
  <2> QED BY <2>1, <2>2
<1>4. ASSUME NEW k \in Drafts PROVE LinksOK(k)'
  <2>1. \A b \in Blobs : row[b] = "available" => row'[b] = "available"
    BY DEF OneBlob
  <2>2. draft[k].refs \subseteq Blobs
    BY <1>1 DEF Rows
  <2> QED BY <1>1, <2>1, <2>2 DEF OneBlob, LinksOK
<1> QED BY <1>2, <1>3, <1>4 DEF AttachInv

(* A job that fails leaves its artifacts and links for the next attempt.      *)
LEMMA FailKeeps ==
  ASSUME AttachInv, owner.at \in Publishing \cup {"finish"}, JobFails,
         UNCHANGED <<temp, final>>, row' \in [Blobs -> States],
         \A b \in Blobs : \/ row'[b] = row[b]
                          \/ /\ row[b] = "available" /\ final[b] = "none"
                             /\ row'[b] = "missing"
  PROVE  AttachInv'
<1> DEFINE d == owner.draft
<1>1. d \in Uploads /\ d \in Drafts /\ d \in job /\ draft[d].state = "processing"
  BY DEF AttachInv, TypeOK, PlaceOK, Drafts
<1>2. PlaceOK'
  BY NoPlace DEF JobFails, Idle
<1>3. StatusOnly(d, "failed")
  BY <1>1, OwnerTypes DEF StatusOnly, JobFails, AttachInv, TypeOK
<1> QED BY <1>1, <1>2, <1>3, StatusStep

(* The procedure goes to another place with the same artifact.                *)
LEMMA Going ==
  ASSUME AttachInv, NEW p \in Places, Goto(p)
  PROVE  /\ owner' \in Owner
         /\ owner'.at = p /\ owner'.draft = owner.draft
         /\ owner'.part = owner.part /\ owner'.todo = owner.todo
         /\ Blob' = Blob
<1>1. owner \in Owner
  BY DEF AttachInv, TypeOK
<1>2. [owner EXCEPT !.at = p] \in Owner
  BY <1>1, OwnerTypes
<1> QED BY <1>1, <1>2 DEF Goto, Owner, Blob

(* What an earlier attempt left fits what the publication does next.          *)
LEMMA LookKeeps ==
  ASSUME AttachInv, Look PROVE AttachInv'
<1>1. owner.at = "look" /\ owner.at \in Publishing
  BY DEF Look, Publishing
<1>2. /\ Blob \in Blobs /\ FileOK(Blob) /\ owner.draft \in Uploads
      /\ draft[owner.draft].state = "processing" /\ Blob[1] = owner.draft
      /\ owner.draft \in job /\ owner \in Owner
      /\ owner.part \in 1..Parts[owner.draft]
      /\ \A k \in 1..(owner.part - 1) :
           <<owner.draft, k>> \in draft[owner.draft].refs
  BY <1>1, UnderWay DEF AttachInv, PlaceOK
<1>3. /\ row \in [Blobs -> States]
      /\ temp \in [Blobs -> {"none", "partial", "whole"}]
      /\ final \in [Blobs -> {"none", "unsynced", "synced"}]
  BY DEF AttachInv, TypeOK
<1>4. CASE row[Blob] = "none"
  <2>1. row' = [row EXCEPT ![Blob] = "staging"] /\ Proceeds("write")
        /\ UNCHANGED <<temp, final>>
    BY <1>4 DEF Look
  <2>2. owner' \in Owner /\ owner'.at = "write" /\ owner'.draft = owner.draft
        /\ owner'.part = owner.part /\ Blob' = Blob
    BY <2>1, Going DEF Proceeds, Places
  <2>3. temp[Blob] = "none" /\ final[Blob] = "none"
    BY <1>2, <1>4 DEF FileOK
  <2>4. PlaceOK'
    BY <1>2, <1>3, <2>1, <2>2, <2>3 DEF PlaceOK, Publishing, Proceeds
  <2>5. OneBlob
    BY <1>2, <1>3, <1>4, <2>1, <2>2 DEF OneBlob, Proceeds, States
  <2> QED BY <1>1, <2>4, <2>5, OneBlobStep
<1>5. CASE row[Blob] = "staging" /\ final[Blob] = "none"
  <2>1. temp' = [temp EXCEPT ![Blob] = "none"] /\ Proceeds("write")
        /\ UNCHANGED <<row, final>>
    BY <1>5 DEF Look
  <2>2. owner' \in Owner /\ owner'.at = "write" /\ owner'.draft = owner.draft
        /\ owner'.part = owner.part /\ Blob' = Blob
    BY <2>1, Going DEF Proceeds, Places
  <2>3. PlaceOK'
    BY <1>2, <1>3, <1>5, <2>1, <2>2 DEF PlaceOK, Publishing, Proceeds
  <2>4. OneBlob
    BY <1>2, <1>3, <1>5, <2>1, <2>2 DEF OneBlob, Proceeds
  <2> QED BY <1>1, <2>3, <2>4, OneBlobStep
<1>6. CASE row[Blob] = "staging" /\ final[Blob] # "none"
  <2>1. Proceeds("mark") /\ UNCHANGED <<row, temp, final>>
    BY <1>6 DEF Look
  <2>2. owner' \in Owner /\ owner'.at = "mark" /\ owner'.draft = owner.draft
        /\ owner'.part = owner.part /\ Blob' = Blob
    BY <2>1, Going DEF Proceeds, Places
  <2>3. PlaceOK'
    BY <1>2, <1>3, <1>6, <2>1, <2>2 DEF PlaceOK, Publishing, Proceeds
  <2>4. OneBlob
    BY <1>2, <1>3, <1>6, <2>1, <2>2 DEF OneBlob, Proceeds
  <2> QED BY <1>1, <2>3, <2>4, OneBlobStep
<1>7. CASE row[Blob] = "available" /\ final[Blob] # "none"
  <2>1. Proceeds("link") /\ UNCHANGED <<row, temp, final>>
    BY <1>7 DEF Look
  <2>2. owner' \in Owner /\ owner'.at = "link" /\ owner'.draft = owner.draft
        /\ owner'.part = owner.part /\ Blob' = Blob
    BY <2>1, Going DEF Proceeds, Places
  <2>3. PlaceOK'
    BY <1>2, <1>3, <1>7, <2>1, <2>2 DEF PlaceOK, Publishing, Proceeds
  <2>4. OneBlob
    BY <1>2, <1>3, <1>7, <2>1, <2>2 DEF OneBlob, Proceeds
  <2> QED BY <1>1, <2>3, <2>4, OneBlobStep
<1>8. CASE /\ row[Blob] \notin {"none", "staging"}
           /\ row[Blob] = "available" => final[Blob] = "none"
  <2> DEFINE found == IF row[Blob] = "available" THEN "missing" ELSE row[Blob]
  <2>1. row' = [row EXCEPT ![Blob] = found] /\ JobFails /\ UNCHANGED <<temp, final>>
    BY <1>8 DEF Look
  <2>2. \/ found = row[Blob]
        \/ row[Blob] = "available" /\ final[Blob] = "none" /\ found = "missing"
    BY <1>8
  <2> HIDE DEF found
  <2>3. row' \in [Blobs -> States]
    BY <1>2, <1>3, <2>1, <2>2 DEF States
  <2>4. \A b \in Blobs : \/ row'[b] = row[b]
                         \/ /\ row[b] = "available" /\ final[b] = "none"
                            /\ row'[b] = "missing"
    BY <1>2, <1>3, <2>1, <2>2
  <2> QED BY <1>1, <2>1, <2>3, <2>4, FailKeeps
<1> QED BY <1>4, <1>5, <1>6, <1>7, <1>8

(* The way is free, so a temporary file is begun.                             *)
LEMMA WriteKeeps ==
  ASSUME AttachInv, Write PROVE AttachInv'
<1>1. /\ owner.at = "write" /\ owner.at \in Publishing
      /\ temp[Blob] = "none" /\ final[Blob] = "none" /\ row[Blob] = "staging"
  BY DEF Write, Publishing, AttachInv, PlaceOK
<1>2. temp' = [temp EXCEPT ![Blob] = "partial"] /\ Proceeds("rename")
      /\ UNCHANGED <<row, final>>
  BY <1>1 DEF Write
<1>3. owner' \in Owner /\ owner'.at = "rename" /\ owner'.draft = owner.draft
      /\ owner'.part = owner.part /\ Blob' = Blob
  BY <1>2, Going DEF Proceeds, Places
<1>4. Blob \in Blobs
  BY <1>1, UnderWay
<1>5. PlaceOK'
  BY <1>1, <1>2, <1>3, <1>4
  DEF AttachInv, TypeOK, PlaceOK, Publishing, Proceeds
<1>6. OneBlob
  BY <1>1, <1>2, <1>3, <1>4 DEF AttachInv, TypeOK, OneBlob, Proceeds
<1> QED BY <1>1, <1>5, <1>6, OneBlobStep

(* The written file takes the final name.                                     *)
LEMMA RenameKeeps ==
  ASSUME AttachInv, Rename PROVE AttachInv'
<1>1. /\ owner.at = "rename" /\ owner.at \in Publishing
      /\ temp[Blob] # "none" /\ row[Blob] = "staging" /\ Blob \in Blobs
      /\ temp[Blob] \in {"partial", "whole"}
  BY UnderWay DEF Rename, Publishing, AttachInv, PlaceOK, TypeOK
<1>2. CASE temp[Blob] = "partial"
  <2>1. temp' = [temp EXCEPT ![Blob] = "whole"] /\ Proceeds("rename")
        /\ UNCHANGED <<row, final>>
    BY <1>2 DEF Rename
  <2>2. owner' \in Owner /\ owner'.at = "rename" /\ owner'.draft = owner.draft
        /\ owner'.part = owner.part /\ Blob' = Blob
    BY <2>1, Going DEF Proceeds, Places
  <2>3. PlaceOK'
    BY <1>1, <2>1, <2>2 DEF AttachInv, TypeOK, PlaceOK, Publishing, Proceeds
  <2>4. OneBlob
    BY <1>1, <2>1, <2>2 DEF AttachInv, TypeOK, OneBlob, Proceeds
  <2> QED BY <1>1, <2>3, <2>4, OneBlobStep
<1>3. CASE temp[Blob] = "whole"
  <2>1. /\ temp' = [temp EXCEPT ![Blob] = "none"]
        /\ final' = [final EXCEPT ![Blob] = "unsynced"]
        /\ Proceeds("sync") /\ UNCHANGED row
    BY <1>3 DEF Rename
  <2>2. owner' \in Owner /\ owner'.at = "sync" /\ owner'.draft = owner.draft
        /\ owner'.part = owner.part /\ Blob' = Blob
    BY <2>1, Going DEF Proceeds, Places
  <2>3. PlaceOK'
    BY <1>1, <2>1, <2>2 DEF AttachInv, TypeOK, PlaceOK, Publishing, Proceeds
  <2>4. OneBlob
    BY <1>1, <2>1, <2>2 DEF AttachInv, TypeOK, OneBlob, Proceeds
  <2> QED BY <1>1, <2>3, <2>4, OneBlobStep
<1> QED BY <1>1, <1>2, <1>3

(* Syncing the directory loses no file.                                       *)
LEMMA SyncKeeps ==
  ASSUME AttachInv, Sync PROVE AttachInv'
<1>1. /\ owner.at = "sync" /\ owner.at \in Publishing
      /\ final[Blob] # "none" /\ row[Blob] = "staging" /\ Blob \in Blobs
  BY UnderWay DEF Sync, Publishing, AttachInv, PlaceOK
<1>2. /\ final' = [b \in Blobs |-> IF final[b] = "none" THEN "none" ELSE "synced"]
      /\ Proceeds("mark") /\ UNCHANGED <<row, temp>>
  BY <1>1 DEF Sync
<1>3. owner' \in Owner /\ owner'.at = "mark" /\ owner'.draft = owner.draft
      /\ owner'.part = owner.part /\ Blob' = Blob
  BY <1>2, Going DEF Proceeds, Places
<1>4. PlaceOK'
  BY <1>1, <1>2, <1>3 DEF AttachInv, TypeOK, PlaceOK, Publishing, Proceeds
<1>5. OneBlob
  BY <1>1, <1>2, <1>3 DEF AttachInv, TypeOK, OneBlob, Proceeds
<1> QED BY <1>1, <1>4, <1>5, OneBlobStep

(* The row becomes available while its final file is there.                   *)
LEMMA MarkKeeps ==
  ASSUME AttachInv, Mark PROVE AttachInv'
<1>1. /\ owner.at = "mark" /\ owner.at \in Publishing
      /\ final[Blob] # "none" /\ row[Blob] = "staging" /\ Blob \in Blobs
  BY UnderWay DEF Mark, Publishing, AttachInv, PlaceOK
<1>2. /\ row' = [row EXCEPT ![Blob] = "available"]
      /\ Proceeds("link") /\ UNCHANGED <<temp, final>>
  BY DEF Mark
<1>3. owner' \in Owner /\ owner'.at = "link" /\ owner'.draft = owner.draft
      /\ owner'.part = owner.part /\ Blob' = Blob
  BY <1>2, Going DEF Proceeds, Places
<1>4. PlaceOK'
  BY <1>1, <1>2, <1>3 DEF AttachInv, TypeOK, PlaceOK, Publishing, Proceeds
<1>5. OneBlob
  BY <1>1, <1>2, <1>3 DEF AttachInv, TypeOK, OneBlob, Proceeds, States
<1> QED BY <1>1, <1>4, <1>5, OneBlobStep

(* The artifact is available when it is linked, the last one completes all.   *)
LEMMA LinkKeeps ==
  ASSUME AttachInv, Link PROVE AttachInv'
<1> DEFINE d == owner.draft
           n == owner.part
           new == [draft[d] EXCEPT !.refs = draft[d].refs \cup {Blob}]
<1>1. /\ owner.at = "link" /\ owner.at \in Publishing
      /\ row[Blob] = "available" /\ final[Blob] # "none"
      /\ \A k \in 1..(n - 1) : <<d, k>> \in draft[d].refs
  BY DEF Link, Publishing, AttachInv, PlaceOK
<1>2. /\ d \in Uploads /\ d \in Drafts /\ d \in job
      /\ draft[d].state = "processing" /\ n \in 1..Parts[d]
      /\ Blob = <<d, n>> /\ Blob \in Blobs /\ Blob \in BlobsOf(d)
      /\ owner \in Owner /\ Parts[d] \in Nat
  BY <1>1, UnderWay, PartsAssumption DEF Blob
<1>3. draft \in [Drafts -> DraftRow] /\ draft[d] \in DraftRow /\ LinksOK(d)
  BY <1>2 DEF AttachInv, TypeOK
<1>4. new \in DraftRow /\ new.state = "processing"
      /\ new.refs = draft[d].refs \cup {Blob}
  BY <1>2, <1>3 DEF DraftRow
<1>5. draft' = [draft EXCEPT ![d] = new]
  BY DEF Link
<1> HIDE DEF new
<1>6. /\ draft' \in [Drafts -> DraftRow]
      /\ draft'[d].state = "processing"
      /\ draft'[d].refs = draft[d].refs \cup {Blob}
      /\ \A k \in Drafts \ {d} : draft'[k] = draft[k]
  BY <1>2, <1>3, <1>4, <1>5
<1>7. UNCHANGED <<row, temp, final, lost, up, stream, job, other>>
  BY DEF Link
<1>8. /\ owner' \in Owner /\ owner'.draft = d
      /\ \/ n = Parts[d] /\ owner'.at = "finish"
         \/ n # Parts[d] /\ owner'.at = "look" /\ owner'.part = n + 1
  <2>1. CASE n = Parts[d]
    <3>1. owner' = [owner EXCEPT !.at = "finish"]
      BY <2>1 DEF Link
    <3>2. [owner EXCEPT !.at = "finish"] \in Owner
      BY <1>2, OwnerTypes DEF Places
    <3> QED BY <1>2, <2>1, <3>1, <3>2 DEF Owner
  <2>2. CASE n # Parts[d]
    <3>1. owner' = [owner EXCEPT !.at = "look", !.part = n + 1]
      BY <2>2 DEF Link
    <3>2. n + 1 \in Nat
      BY <1>2
    <3>3. [owner EXCEPT !.at = "look", !.part = n + 1] \in Owner
      BY <1>2, <3>2, OwnerTypes DEF Places
    <3> QED BY <1>2, <2>2, <3>1, <3>3 DEF Owner
  <2> QED BY <2>1, <2>2
<1>9. TypeOK'
  <2>1. \A k \in Drafts : draft'[k].refs \subseteq Rows'
    BY <1>1, <1>2, <1>6, <1>7 DEF AttachInv, TypeOK, Rows
  <2>2. \A k \in job' : draft'[k].state = "processing"
    BY <1>6, <1>7 DEF AttachInv, TypeOK
  <2> QED BY <1>6, <1>7, <1>8, <2>1, <2>2 DEF AttachInv, TypeOK
<1>10. \A b \in Blobs : FileOK(b)'
  BY <1>2, <1>6, <1>7, BlobHome DEF AttachInv, FileOK, Drafts
<1>11. ASSUME NEW k \in Drafts PROVE LinksOK(k)'
  <2>1. LinksOK(k)
    BY DEF AttachInv
  <2>2. \A v \in Uploads : draft[v].state = "submitted" => draft'[v] = draft[v]
    BY <1>2, <1>6 DEF Drafts
  <2>3. CASE k = d
    <3>1. k \notin Copies
      BY <1>2, <2>3, DraftsAssumption
    <3> QED BY <1>1, <1>2, <1>3, <1>6, <1>7, <2>3, <3>1 DEF LinksOK
  <2>4. CASE k # d
    BY <1>6, <1>7, <2>1, <2>2, <2>4 DEF LinksOK
  <2> QED BY <2>3, <2>4
<1>12. PlaceOK'
  <2>1. ASSUME NEW k \in 1..n PROVE <<d, k>> \in draft'[d].refs
    <3>1. k \in 1..(n - 1) \/ k = n
      BY <1>2
    <3> QED BY <1>1, <1>2, <1>6, <3>1
  <2>2. CASE n = Parts[d]
    <3>1. draft'[d].refs = BlobsOf(d)
      <4>1. draft'[d].refs \subseteq BlobsOf(d)
        BY <1>2, <1>3, <1>6 DEF LinksOK
      <4>2. BlobsOf(d) \subseteq draft'[d].refs
        BY <1>2, <2>1, <2>2, BlobFacts
      <4> QED BY <4>1, <4>2
    <3> QED BY <1>2, <1>7, <1>8, <2>2, <3>1 DEF PlaceOK, Publishing
  <2>3. CASE n # Parts[d]
    <3>1. owner'.part \in 1..Parts[d] /\ owner'.part - 1 = n
      BY <1>2, <1>8, <2>3
    <3>2. \A k \in 1..(owner'.part - 1) : <<d, k>> \in draft'[d].refs
      BY <2>1, <3>1
    <3> QED BY <1>2, <1>7, <1>8, <2>3, <3>1, <3>2 DEF PlaceOK, Publishing
  <2> QED BY <2>2, <2>3
<1> QED BY <1>9, <1>10, <1>11, <1>12 DEF AttachInv

(* A draft becomes ready once all its artifacts are linked.                   *)
LEMMA FinishKeeps ==
  ASSUME AttachInv, Finish PROVE AttachInv'
<1> DEFINE d == owner.draft
<1>1. /\ d \in Uploads /\ d \in Drafts /\ d \in job
      /\ draft[d].state = "processing" /\ draft[d].refs = BlobsOf(d)
      /\ d \notin Copies
  BY DraftsAssumption DEF Finish, AttachInv, TypeOK, PlaceOK, Drafts
<1>2. /\ draft' \in [Drafts -> DraftRow]
      /\ draft'[d].state = "ready"
      /\ \A k \in Drafts : draft'[k].refs = draft[k].refs
      /\ \A k \in Drafts \ {d} : draft'[k] = draft[k]
  BY <1>1, BecomesFacts DEF AttachInv, TypeOK, Finish
<1>3. UNCHANGED <<row, temp, final, lost, up, stream, other>>
      /\ job' = job \ {d} /\ owner' = Idle
  BY DEF Finish
<1>4. TypeOK'
  BY <1>2, <1>3, OwnerTypes DEF AttachInv, TypeOK, Rows
<1>5. \A b \in Blobs : FileOK(b)'
  BY <1>1, <1>2, <1>3, BlobHome DEF AttachInv, FileOK, Drafts
<1>6. ASSUME NEW k \in Drafts PROVE LinksOK(k)'
  <2>1. LinksOK(k)
    BY DEF AttachInv
  <2>2. \A v \in Uploads : draft[v].state = "submitted" => draft'[v] = draft[v]
    BY <1>1, <1>2 DEF Drafts
  <2>3. CASE k = d
    BY <1>1, <1>2, <1>3, <2>1, <2>3 DEF LinksOK
  <2>4. CASE k # d
    BY <1>2, <1>3, <2>1, <2>2, <2>4 DEF LinksOK
  <2> QED BY <2>3, <2>4
<1>7. PlaceOK'
  BY <1>3, NoPlace DEF Idle
<1> QED BY <1>4, <1>5, <1>6, <1>7 DEF AttachInv

(* A full disk or a refused transaction is a failed job.                      *)
LEMMA FailsKeeps ==
  ASSUME AttachInv, Fails PROVE AttachInv'
BY FailKeeps DEF Fails, Publishing, AttachInv, TypeOK

-----------------------------------------------------------------------------
(* Release, crashes and restart                                              *)

(* Release drops only what no other draft needs.                              *)
LEMMA DiscardKeeps ==
  ASSUME AttachInv, Discard PROVE AttachInv'
<1> DEFINE d == owner.draft
           unlinked == {b \in draft[d].refs : ~Referenced(b)}
           gone == {b \in unlinked : \A k \in Drafts \ {d} : b \notin draft[k].refs}
           new == [draft[d] EXCEPT !.refs = draft[d].refs \ unlinked]
<1>1. /\ draft' = [draft EXCEPT ![d] = new]
      /\ row' = [b \in Blobs |-> IF b \in gone THEN "none" ELSE row[b]]
      /\ owner' = [owner EXCEPT !.at = "sweep", !.todo = gone]
      /\ UNCHANGED <<temp, final, lost, up, stream, job, other>>
  BY DEF Discard
<1>2. /\ owner.at = "discard" /\ d \in Drafts /\ draft[d].state = "released"
      /\ draft \in [Drafts -> DraftRow] /\ draft[d] \in DraftRow
      /\ draft[d].refs \subseteq Blobs /\ LinksOK(d)
      /\ row \in [Blobs -> States] /\ owner \in Owner
  BY DEF Discard, AttachInv, TypeOK, PlaceOK, DraftRow
<1>3. new \in DraftRow /\ new.state = "released"
      /\ new.refs = draft[d].refs \ unlinked
  BY <1>2 DEF DraftRow
<1>4. gone \subseteq Blobs /\ gone \subseteq unlinked
      /\ \A b \in gone : \A k \in Drafts \ {d} : b \notin draft[k].refs
  BY <1>2
<1>5. /\ draft' \in [Drafts -> DraftRow]
      /\ draft'[d].state = "released"
      /\ draft'[d].refs = draft[d].refs \ unlinked
      /\ \A k \in Drafts \ {d} : draft'[k] = draft[k]
  <2> HIDE DEF new, unlinked, gone
  <2> QED BY <1>1, <1>2, <1>3
(* Only artifacts of the released draft itself go: those of a copy are linked *)
(* by the submitted draft they come from.                                     *)
<1>6. ASSUME NEW b \in gone PROVE b \in Blobs /\ draft[b[1]].state = "released"
  <2>1. b \in draft[d].refs /\ ~Referenced(b) /\ b \in Blobs
    BY <1>2
  <2>2. CASE d \in Uploads
    BY <1>2, <2>1, <2>2, BlobFacts DEF LinksOK
  <2>3. CASE d \in Copies
    <3>1. PICK u \in Uploads : draft[u].state = "submitted"
                               /\ draft[d].refs \subseteq BlobsOf(u)
      BY <1>2, <2>1, <2>3 DEF LinksOK
    <3>2. u \in Drafts /\ draft[u].refs = BlobsOf(u)
      BY <3>1 DEF AttachInv, LinksOK, Drafts
    <3>3. Referenced(b)
      BY <2>1, <3>1, <3>2 DEF Referenced, Live
    <3> QED BY <2>1, <3>3
  <2> QED BY <1>2, <2>2, <2>3 DEF Drafts
<1>7. \A k \in Drafts : draft'[k].refs \subseteq draft[k].refs
                        /\ draft'[k].state = draft[k].state
                        /\ \A b \in draft'[k].refs : b \notin gone
  <2> HIDE DEF unlinked, gone, new
  <2> QED BY <1>2, <1>4, <1>5
<1> HIDE DEF unlinked, gone, new
<1>8. /\ owner' \in Owner /\ owner'.at = "sweep" /\ owner'.todo = gone
  <2>1. [owner EXCEPT !.at = "sweep", !.todo = gone] \in Owner
    BY <1>2, <1>4, OwnerTypes DEF Places
  <2> QED BY <1>1, <1>2, <2>1 DEF Owner
<1>9. row' \in [Blobs -> States]
  BY <1>1, <1>2 DEF States
<1>10. TypeOK'
  <2>1. \A k \in Drafts : draft'[k].refs \subseteq Rows'
    BY <1>1, <1>2, <1>7 DEF AttachInv, TypeOK, Rows
  <2>2. \A k \in job' : draft'[k].state = "processing"
    BY <1>1, <1>7 DEF AttachInv, TypeOK
  <2> QED BY <1>1, <1>5, <1>8, <1>9, <2>1, <2>2 DEF AttachInv, TypeOK
<1>11. ASSUME NEW b \in Blobs PROVE FileOK(b)'
  <2>1. FileOK(b) /\ b[1] \in Drafts
    BY BlobHome DEF AttachInv, Drafts
  <2>2. CASE b \in gone
    BY <1>1, <1>6, <1>7, <2>1, <2>2 DEF FileOK
  <2>3. CASE b \notin gone
    BY <1>1, <1>7, <2>1, <2>3 DEF FileOK
  <2> QED BY <2>2, <2>3
<1>12. ASSUME NEW k \in Drafts PROVE LinksOK(k)'
  <2>1. LinksOK(k) /\ draft[k].refs \subseteq Blobs
    BY <1>2 DEF AttachInv, TypeOK, DraftRow
  <2>2. \A b \in draft'[k].refs : row'[b] = row[b]
    BY <1>1, <1>7, <2>1
  <2>3. \A v \in Uploads : draft'[v].state = draft[v].state
    BY <1>7 DEF Drafts
  <2>4. CASE k = d
    BY <1>1, <1>2, <1>5, <1>7, <2>1, <2>2, <2>3, <2>4 DEF LinksOK
  <2>5. CASE k # d
    BY <1>1, <1>5, <2>1, <2>2, <2>3, <2>5 DEF LinksOK
  <2> QED BY <2>4, <2>5
<1>13. PlaceOK'
  <2>1. \A b \in gone : b[1] \in Drafts /\ b \in Blobs
    BY <1>6, BlobHome DEF Drafts
  <2>2. \A b \in gone : row'[b] = "none" /\ draft'[b[1]].state = "released"
    BY <1>1, <1>6, <1>7, <2>1
  <2> QED BY <1>8, <2>2 DEF PlaceOK, Publishing
<1> QED BY <1>10, <1>11, <1>12, <1>13 DEF AttachInv

(* Files are unlinked after their rows went.                                  *)
LEMMA SweepKeeps ==
  ASSUME AttachInv, Sweep PROVE AttachInv'
<1>1. /\ owner.at = "sweep" /\ owner \in Owner /\ owner.todo \in SUBSET Blobs
      /\ temp \in [Blobs -> {"none", "partial", "whole"}]
      /\ final \in [Blobs -> {"none", "unsynced", "synced"}]
      /\ \A b \in owner.todo : row[b] = "none" /\ draft[b[1]].state = "released"
      /\ UNCHANGED <<draft, row, lost, up, stream, job, other>>
  BY DEF Sweep, AttachInv, TypeOK, PlaceOK, Owner
<1>2. CASE owner.todo = {}
  <2>1. owner' = Idle /\ UNCHANGED <<temp, final>>
    BY <1>2 DEF Sweep
  <2>2. PlaceOK'
    BY <2>1, NoPlace DEF Idle
  <2>3. TypeOK'
    BY <1>1, <2>1, OwnerTypes DEF AttachInv, TypeOK, Rows
  <2>4. \A b \in Blobs : FileOK(b)'
    BY <1>1, <2>1 DEF AttachInv, FileOK
  <2>5. \A k \in Drafts : LinksOK(k)'
    BY <1>1, <2>1 DEF AttachInv, LinksOK
  <2> QED BY <2>2, <2>3, <2>4, <2>5 DEF AttachInv
<1>3. CASE owner.todo # {}
  <2> DEFINE c == First(owner.todo)
             rest == owner.todo \ {c}
  <2>1. /\ temp' = [temp EXCEPT ![c] = "none"]
        /\ final' = [final EXCEPT ![c] = "none"]
        /\ owner' = [owner EXCEPT !.todo = rest]
    BY <1>3 DEF Sweep
  <2>2. c \in owner.todo
    BY <1>3 DEF First
  <2> HIDE DEF c
  <2>3. owner' \in Owner /\ owner'.at = "sweep" /\ owner'.todo = rest
    <3>1. [owner EXCEPT !.todo = rest] \in Owner
      BY <1>1, OwnerTypes
    <3> QED BY <1>1, <2>1, <3>1 DEF Owner
  <2>4. /\ temp' \in [Blobs -> {"none", "partial", "whole"}]
        /\ final' \in [Blobs -> {"none", "unsynced", "synced"}]
        /\ \A b \in Blobs : /\ temp'[b] \in {"none", temp[b]}
                            /\ final'[b] \in {"none", final[b]}
                            /\ row[b] # "none" => final'[b] = final[b]
    BY <1>1, <2>1, <2>2
  <2>5. PlaceOK'
    BY <1>1, <2>3 DEF PlaceOK, Publishing
  <2>6. TypeOK'
    BY <1>1, <2>3, <2>4 DEF AttachInv, TypeOK, Rows
  <2>7. \A b \in Blobs : FileOK(b)'
    BY <1>1, <2>4 DEF AttachInv, FileOK
  <2>8. \A k \in Drafts : LinksOK(k)'
    BY <1>1 DEF AttachInv, LinksOK
  <2> QED BY <2>5, <2>6, <2>7, <2>8 DEF AttachInv
<1> QED BY <1>2, <1>3

(* A crash leaves everything stored as it was.                                *)
LEMMA CrashKeeps ==
  ASSUME AttachInv, Crash PROVE AttachInv'
<1>1. /\ UNCHANGED <<draft, row, temp, final, lost, other>>
      /\ up' = FALSE /\ stream' = {} /\ job' = {} /\ owner' = Idle
  BY DEF Crash, Down, stored
<1>2. PlaceOK'
  BY <1>1, NoPlace DEF Idle
<1>3. TypeOK'
  BY <1>1, OwnerTypes DEF AttachInv, TypeOK, Rows
<1>4. \A b \in Blobs : FileOK(b)'
  BY <1>1 DEF AttachInv, FileOK
<1>5. \A k \in Drafts : LinksOK(k)'
  BY <1>1 DEF AttachInv, LinksOK
<1> QED BY <1>2, <1>3, <1>4, <1>5 DEF AttachInv

(* What a power failure takes is counted as lost.                             *)
LEMMA PowerFailsKeeps ==
  ASSUME AttachInv, PowerFails PROVE AttachInv'
<1>1. /\ UNCHANGED <<draft, row>> /\ other' = Off
      /\ up' = FALSE /\ stream' = {} /\ job' = {} /\ owner' = Idle
  BY DEF PowerFails, Down
<1>2. PICK gone \in SUBSET {b \in Blobs : final[b] = "unsynced"} :
        /\ temp' = [b \in Blobs |-> IF b \in gone THEN "whole" ELSE temp[b]]
        /\ final' = [b \in Blobs |-> IF b \in gone THEN "none" ELSE final[b]]
        /\ lost' = lost \cup (gone \cap Available)
  BY DEF PowerFails
<1>3. PlaceOK'
  BY <1>1, NoPlace DEF Idle
<1>4. TypeOK'
  <2>1. /\ temp' \in [Blobs -> {"none", "partial", "whole"}]
        /\ final' \in [Blobs -> {"none", "unsynced", "synced"}]
        /\ lost' \in SUBSET Blobs
    BY <1>2 DEF AttachInv, TypeOK
  <2>2. other' \in Other /\ owner' \in Owner
    BY <1>1, OwnerTypes DEF Off, Other
  <2> QED BY <1>1, <2>1, <2>2 DEF AttachInv, TypeOK, Rows
<1>5. ASSUME NEW b \in Blobs PROVE FileOK(b)'
  <2>1. FileOK(b)
    BY DEF AttachInv
  <2>2. CASE b \in gone
    BY <1>1, <1>2, <2>1, <2>2 DEF FileOK, Available
  <2>3. CASE b \notin gone
    BY <1>1, <1>2, <2>1, <2>3 DEF FileOK
  <2> QED BY <2>2, <2>3
<1>6. \A k \in Drafts : LinksOK(k)'
  BY <1>1, <1>2 DEF AttachInv, LinksOK
<1> QED BY <1>3, <1>4, <1>5, <1>6 DEF AttachInv

(* A process that does not run does nothing.                                  *)
Quiet == ~up => owner.at = "idle" /\ job = {}

(* Only a running process does something.                                     *)
LEMMA QuietKeeps ==
  ASSUME Quiet, [Next]_vars PROVE Quiet'
<1> USE DEF Quiet
<1>1. ASSUME NEW d \in Drafts, Command(d) PROVE Quiet'
  BY <1>1 DEF Command, Reserve, BeginUpload, Submit, Release, Clone, Free, memory
<1>2. ASSUME NEW d \in Drafts, Arrives(d) \/ Parses(d) PROVE Quiet'
  BY <1>2 DEF Arrives, Accept, BreakOff, Parses, ParseFails, ParseEnds, Free
<1>3. CASE Procedure
  BY <1>3 DEF Procedure, Look, Write, Rename, Sync, Mark, Link, Finish, Fails,
              Discard, Sweep, Proceeds, JobFails
<1>4. CASE Crash \/ PowerFails \/ Restart
  BY <1>4 DEF Crash, PowerFails, Restart, Down, Idle
<1>5. CASE OtherProcess
  BY <1>5 DEF OtherProcess, OtherDoes, memory, CleanupBegins, CleanupScans,
              CleanupMoves, BackupBegins, BackupLists, BackupCopies, BackupEnds
<1>6. CASE UNCHANGED vars
  BY <1>6 DEF vars
<1> QED BY <1>1, <1>2, <1>3, <1>4, <1>5, <1>6 DEF Next

(* Restart fails what was under way; copies never are.                        *)
LEMMA RestartKeeps ==
  ASSUME AttachInv, Quiet, Restart PROVE AttachInv'
<1>1. /\ up' = TRUE
      /\ UNCHANGED <<row, temp, final, lost, stream, job, owner, other>>
      /\ draft' = [k \in Drafts |->
           IF Unsettled(k) THEN [draft[k] EXCEPT !.state = "failed"] ELSE draft[k]]
  BY DEF Restart
<1>2. draft \in [Drafts -> DraftRow]
  BY DEF AttachInv, TypeOK
<1>3. ASSUME NEW k \in Drafts
      PROVE  /\ draft'[k] \in DraftRow /\ draft'[k].refs = draft[k].refs
             /\ \/ draft'[k].state = draft[k].state
                \/ draft[k].state \in {"uploading", "processing"}
                   /\ draft'[k].state = "failed"
  <2> DEFINE new == [draft[k] EXCEPT !.state = "failed"]
  <2>1. new \in DraftRow /\ new.state = "failed" /\ new.refs = draft[k].refs
    BY <1>2 DEF DraftRow
  <2>2. draft'[k] = IF Unsettled(k) THEN new ELSE draft[k]
    BY <1>1
  <2> HIDE DEF new
  <2> QED BY <1>2, <2>1, <2>2 DEF Unsettled
<1>4. draft' \in [Drafts -> DraftRow]
  BY <1>1, <1>3
<1>5. TypeOK'
  <2>1. \A k \in Drafts : draft'[k].refs \subseteq Rows'
    BY <1>1, <1>3 DEF AttachInv, TypeOK, Rows
  <2>2. job' = {}
    BY <1>1 DEF Quiet, Restart
  <2> QED BY <1>1, <1>4, <2>1, <2>2 DEF AttachInv, TypeOK
<1>6. ASSUME NEW b \in Blobs PROVE FileOK(b)'
  <2>1. b[1] \in Drafts /\ FileOK(b)
    BY BlobHome DEF AttachInv, Drafts
  <2>2. draft[b[1]].state = "released" => draft'[b[1]].state = "released"
    BY <1>3, <2>1
  <2> QED BY <1>1, <2>1, <2>2 DEF FileOK
<1>7. ASSUME NEW k \in Drafts PROVE LinksOK(k)'
  <2>1. LinksOK(k)
    BY DEF AttachInv
  <2>2. \A v \in Uploads : draft[v].state = "submitted" =>
                             draft'[v].state = "submitted"
    BY <1>3 DEF Drafts
  <2>3. /\ UNCHANGED <<row, lost>> /\ draft'[k].refs = draft[k].refs
        /\ \/ draft'[k].state = draft[k].state
           \/ draft'[k].state = "failed" /\ k \in Uploads
    BY <1>1, <1>3, <2>1 DEF LinksOK, Drafts
  <2>4. k \in Copies => draft'[k].state = draft[k].state
    BY <2>3, DraftsAssumption
  <2>5. \A b \in draft'[k].refs : b \in lost' \/ row'[b] = "available"
    BY <2>1, <2>3 DEF LinksOK
  <2>6. CASE draft'[k].state = draft[k].state
    BY <2>1, <2>2, <2>3, <2>5, <2>6 DEF LinksOK
  <2>7. CASE draft'[k].state = "failed" /\ k \in Uploads
    BY <2>1, <2>3, <2>5, <2>7, DraftsAssumption DEF LinksOK
  <2> QED BY <2>3, <2>6, <2>7
<1>8. PlaceOK'
  BY <1>1, NoPlace DEF Quiet, Restart
<1> QED BY <1>5, <1>6, <1>7, <1>8 DEF AttachInv

-----------------------------------------------------------------------------
(* The theorems                                                              *)

(* Nothing is stored, so everything is in order.                              *)
LEMMA Initially == Init => AttachInv /\ Quiet
<1> SUFFICES ASSUME Init PROVE AttachInv /\ Quiet
  OBVIOUS
<1>1. /\ draft = [d \in Drafts |-> [state |-> "none", refs |-> {}]]
      /\ \A b \in Blobs : row[b] = "none" /\ temp[b] = "none" /\ final[b] = "none"
      /\ owner = Idle /\ job = {}
  BY DEF Init
<1>2. \A d \in Drafts : draft[d].state = "none" /\ draft[d].refs = {}
  BY <1>1
<1>3. TypeOK
  <2>1. [state |-> "none", refs |-> {}] \in DraftRow
    BY DEF DraftRow
  <2>2. draft \in [Drafts -> DraftRow]
    BY <1>1, <2>1
  <2>3. Off \in Other
    BY DEF Off, Other
  <2> QED BY <1>1, <1>2, <2>2, <2>3, OwnerTypes DEF Init, TypeOK, States
<1>4. \A b \in Blobs : FileOK(b)
  BY <1>1 DEF FileOK
<1>5. \A d \in Drafts : LinksOK(d)
  BY <1>2 DEF LinksOK
<1>6. PlaceOK
  BY <1>1 DEF Idle, PlaceOK, Publishing
<1> QED BY <1>1, <1>3, <1>4, <1>5, <1>6 DEF AttachInv, Quiet, Idle

(* Every step keeps the invariant.                                            *)
LEMMA Step ==
  ASSUME AttachInv, Quiet, [Next]_vars PROVE AttachInv'
<1>1. ASSUME NEW d \in Drafts, Command(d) PROVE AttachInv'
  BY <1>1, CommandKeeps, SubmitKeeps, CloneKeeps DEF Command
<1>2. ASSUME NEW d \in Drafts, Arrives(d) \/ Parses(d) PROVE AttachInv'
  BY <1>2, CommandKeeps DEF Parses
<1>3. CASE Procedure
  BY <1>3, LookKeeps, WriteKeeps, RenameKeeps, SyncKeeps, MarkKeeps, LinkKeeps,
     FinishKeeps, FailsKeeps, DiscardKeeps, SweepKeeps DEF Procedure
<1>4. CASE Crash \/ PowerFails \/ Restart
  BY <1>4, CrashKeeps, PowerFailsKeeps, RestartKeeps
<1>5. CASE OtherProcess
  BY <1>5, OtherKeeps
<1>6. CASE UNCHANGED vars
  <2>1. UNCHANGED <<draft, row, temp, final, lost, up, stream, job, owner, other>>
    BY <1>6 DEF vars
  <2>2. TypeOK'
    BY <2>1 DEF AttachInv, TypeOK, Rows
  <2>3. \A b \in Blobs : FileOK(b)'
    BY <2>1 DEF AttachInv, FileOK
  <2>4. \A d \in Drafts : LinksOK(d)'
    BY <2>1 DEF AttachInv, LinksOK
  <2>5. PlaceOK'
    BY <2>1 DEF AttachInv, PlaceOK, Blob
  <2> QED BY <2>2, <2>3, <2>4, <2>5 DEF AttachInv
<1> QED BY <1>1, <1>2, <1>3, <1>4, <1>5, <1>6 DEF Next

(* Every reachable state is in order: whatever the uploads, copies and numbers*)
(* of artifacts, and over crashes, power failures, cleanups and backups.      *)
THEOREM AttachmentsInOrder == Spec => [](AttachInv /\ Quiet)
<1>1. Init => AttachInv /\ Quiet
  BY Initially
<1>2. AttachInv /\ Quiet /\ [Next]_vars => (AttachInv /\ Quiet)'
  BY Step, QuietKeeps
<1> QED BY <1>1, <1>2, PTL DEF Spec

(* The rows, files and procedures keep their types, every link leads to a row *)
(* and a job belongs to a draft that is being processed.                      *)
THEOREM AttachTypes == Spec => []TypeOK
<1>1. AttachInv => TypeOK
  BY DEF AttachInv
<1> QED BY <1>1, AttachmentsInOrder, PTL

(* An artifact that is available has its file, and the system never finds     *)
(* damage it caused itself, except what a power failure took.                 *)
THEOREM RowsMatchFiles == Spec => []RowMatchesFile
<1>1. AttachInv => RowMatchesFile
  BY DEF AttachInv, FileOK, RowMatchesFile
<1> QED BY <1>1, AttachmentsInOrder, PTL

(* A draft that is ready or submitted has all artifacts of one upload, and    *)
(* each can be read, except what a power failure took.                        *)
THEOREM MessagesKeepFiles == Spec => []MessageKeepsFiles
<1>1. ASSUME AttachInv PROVE MessageKeepsFiles
  <2>1. \A d \in Drafts : LinksOK(d) /\ draft[d].refs \subseteq Blobs
    BY <1>1 DEF AttachInv, TypeOK, DraftRow
  <2>2. \A b \in Blobs : FileOK(b)
    BY <1>1 DEF AttachInv
  <2> QED BY <2>1, <2>2 DEF LinksOK, FileOK, MessageKeepsFiles
<1> QED BY <1>1, AttachmentsInOrder, PTL

(* What a backup has listed is copied or still to be copied.                  *)
BackupInv ==
  /\ other.at = "copy" => \A b \in other.listed : \/ b \in other.copied
                                                  \/ <<b, "final">> \in other.todo
  /\ other.at = "check" => other.listed \subseteq other.copied

(* Each step of a backup keeps that, and only a complete bundle is accepted.  *)
LEMMA BackupStep ==
  ASSUME Typed, BackupInv, [Next]_vars
  PROVE  /\ BackupInv'
         /\ other.at = "check" /\ other'.at = "done" => other.known \subseteq other.copied
<1> USE DEF BackupInv, OtherDoes, Off
<1>0. other \in Other
  BY DEF Typed
<1>1. CASE other' = other
  BY <1>1
<1>2. CASE other' = Off
  BY <1>2
<1>3. ASSUME NEW d \in Drafts, Command(d) \/ Arrives(d) \/ Parses(d) PROVE other' = other
  BY <1>3 DEF Command, Reserve, BeginUpload, Submit, Release, Clone,
              Arrives, Accept, BreakOff, Parses, ParseFails, ParseEnds
<1>4. CASE Procedure
  BY <1>1, <1>4 DEF Procedure, Look, Write, Rename, Sync, Mark, Link, Finish, Fails,
              Discard, Sweep, Proceeds, JobFails
<1>5. CASE Crash \/ PowerFails \/ Restart
  BY <1>1, <1>2, <1>5 DEF Crash, PowerFails, Restart
<1>6. CASE CleanupBegins \/ CleanupScans \/ CleanupMoves \/ BackupBegins
  <2>1. other'.at \notin {"copy", "check", "done"}
    <3>1. CASE CleanupBegins \/ BackupBegins
      BY <3>1 DEF CleanupBegins, BackupBegins
    <3>2. CASE CleanupScans
      BY <1>0, <3>2 DEF CleanupScans, Other
    <3>3. CASE CleanupMoves /\ other.todo = {}
      BY <3>3 DEF CleanupMoves
    <3>4. CASE CleanupMoves /\ other.todo # {}
      <4>1. other.at = "move" /\ \E S : other' = [other EXCEPT !.todo = S]
        BY <3>4 DEF CleanupMoves
      <4> QED BY <1>0, <4>1 DEF Other
    <3> QED BY <1>6, <3>1, <3>2, <3>3, <3>4
  <2> QED BY <2>1
<1>7. CASE BackupLists
  <2>1. CASE Rows = Available
    <3>1. other' = [other EXCEPT !.at = "copy", !.listed = Rows,
                                 !.todo = Rows \X {"final"}]
      BY <1>7, <2>1 DEF BackupLists
    <3> QED BY <1>0, <3>1 DEF Other
  <2>2. CASE Rows # Available
    BY <1>2, <1>7, <2>2 DEF BackupLists
  <2> QED BY <2>1, <2>2
<1>8. CASE BackupCopies
  <2>1. CASE other.todo = {}
    BY <1>0, <1>8, <2>1 DEF BackupCopies, Other
  <2>2. CASE other.todo # {}
    <3> DEFINE f == First(other.todo)
    <3>1. \/ other' = [other EXCEPT !.todo = other.todo \ {f},
                                    !.copied = other.copied \cup {f[1]}]
          \/ other' = Off
      BY <1>8, <2>2 DEF BackupCopies
    <3> HIDE DEF f
    <3>2. CASE other' = [other EXCEPT !.todo = other.todo \ {f},
                                      !.copied = other.copied \cup {f[1]}]
      <4>1. /\ other'.at = "copy" /\ other'.listed = other.listed
            /\ other'.todo = other.todo \ {f}
            /\ other'.copied = other.copied \cup {f[1]}
        BY <1>0, <1>8, <3>2 DEF BackupCopies, Other
      <4>2. \A b \in other.listed : <<b, "final">> = f => b = f[1]
        OBVIOUS
      <4> QED BY <1>8, <4>1, <4>2 DEF BackupCopies
    <3> QED BY <1>2, <3>1, <3>2
  <2> QED BY <2>1, <2>2
<1>9. CASE BackupEnds
  <2>1. CASE Matches(other)
    BY <1>9, <2>1 DEF BackupEnds, Matches
  <2>2. CASE ~Matches(other)
    BY <1>2, <1>9, <2>2 DEF BackupEnds
  <2> QED BY <2>1, <2>2
<1>10. CASE UNCHANGED vars
  BY <1>1, <1>10 DEF vars
<1> QED BY <1>1, <1>3, <1>4, <1>5, <1>6, <1>7, <1>8, <1>9, <1>10 DEF Next, OtherProcess

(* A backup is accepted only if the file of every artifact in its database is *)
(* in the bundle.                                                             *)
THEOREM BundlesComplete == Spec => BundleComplete
<1>1. Init => BackupInv
  BY DEF Init, BackupInv, Off
<1>2. AttachInv => Typed
  BY DEF AttachInv, TypeOK, Typed
<1>3. Typed /\ BackupInv /\ [Next]_vars =>
        /\ BackupInv'
        /\ [other.at = "check" /\ other'.at = "done" =>
              other.known \subseteq other.copied]_vars
  BY BackupStep
<1> QED BY <1>1, <1>2, <1>3, AttachmentsInOrder, PTL DEF Spec, BundleComplete

=============================================================================
