----------------------------- MODULE Submissions -----------------------------
(***************************************************************************)
(* Places proposed by visitors: handleSubmitPlace of httpapi, Submit of    *)
(* storage/submitter.go, and the moderation of storage/places.go, over the *)
(* tables place_submissions, places and their photos in PostgreSQL, and    *)
(* the photo objects in R2, which no transaction covers.                   *)
(*                                                                         *)
(* A submission is one run of the handler.  Its photos are its positions   *)
(* 0 .. n-1, and <<s, i>> is the object key submissions/<s>/<i>.jpg.       *)
(***************************************************************************)
EXTENDS Integers, FiniteSets, Sequences, SequencesExt

CONSTANTS
    Submissions,  \* runs of the submit handler
    Hints,        \* who submits: the keyed hash of an address
    HintOf,       \* the submitter of a submission
    MaxPhotos,    \* places.MaxPhotos
    PhotoCounts,  \* how many photos may come with a submission
    MaxPerHour,   \* maxSubmissionsPerHour
    MaxPending,   \* maxPendingTotal
    MaxHandlers,  \* bound: handlers under way at once
    MaxLies       \* bound: calls that took effect and reported an error

HintOfAssumption == HintOf \in [Submissions -> Hints]
SubmissionsAssumption == IsFiniteSet(Submissions)
PhotoCountsAssumption == PhotoCounts \subseteq 0 .. MaxPhotos
LimitsAssumption ==
    /\ MaxPhotos \in Nat
    /\ MaxPerHour \in Nat \ {0}
    /\ MaxPending \in Nat \ {0}
    /\ MaxHandlers \in Nat \ {0}
    /\ MaxLies \in Nat

VARIABLES
    pc,          \* pc[s]: where the handler of s is
    photos,      \* photos[s]: number of photos sent with s
    uploaded,    \* uploaded[s]: photos uploaded so far
    status,      \* place_submissions.status, "absent" before the insert
    recent,      \* recent[s]: created_at lies in the last hour
    quarantine,  \* rows of place_submission_photos
    place,       \* the place made from s
    gallery,     \* gallery[s]: rows of place_photos, their keys by pos
    objects,     \* object keys present in R2
    cleanup,     \* cleanup[s]: keys a moderation still has to delete
    lies,
    places,      \* (observation) places[s]: places ever made from s
    forgotten    \* (observation) keys nobody will delete any more

handlerVars == <<pc, photos, uploaded>>
tableVars == <<status, quarantine, place, gallery>>
seen == <<places, forgotten>>
vars == <<handlerVars, tableVars, recent, objects, cleanup, lies, seen>>

Positions == 0 .. MaxPhotos - 1
Keys == Submissions \X Positions
KeysOf(s, n) == {s} \X (0 .. n - 1)
Tally(st) == Cardinality({s \in Submissions : status[s] = st})

Init ==
    /\ pc = [s \in Submissions |-> "new"]
    /\ photos = [s \in Submissions |-> 0]
    /\ uploaded = [s \in Submissions |-> 0]
    /\ status = [s \in Submissions |-> "absent"]
    /\ recent = [s \in Submissions |-> FALSE]
    /\ quarantine = {}
    /\ place = [s \in Submissions |-> "none"]
    /\ gallery = [s \in Submissions |-> <<>>]
    /\ objects = {}
    /\ cleanup = [s \in Submissions |-> {}]
    /\ lies = 0
    /\ places = [s \in Submissions |-> 0]
    /\ forgotten = {}

\* An hour passes since s was stored.
Ages(s) ==
    /\ recent[s]
    /\ recent' = [recent EXCEPT ![s] = FALSE]
    /\ UNCHANGED <<handlerVars, tableVars, objects, cleanup, lies, seen>>

-----------------------------------------------------------------------------
Goto(s, where) == pc' = [pc EXCEPT ![s] = where]

UnderWay == {s \in Submissions : pc[s] \in {"counted", "upload", "undo"}}

\* RecentCount: submissions of this submitter in the last hour.
CountRecent(s) ==
    LET n == Cardinality({t \in Submissions : recent[t] /\ HintOf[t] = HintOf[s]})
    IN  /\ pc[s] = "new"
        /\ Cardinality(UnderWay) < MaxHandlers
        /\ Goto(s, IF n >= MaxPerHour THEN "refused" ELSE "counted")
        /\ \E k \in PhotoCounts : photos' = [photos EXCEPT ![s] = k]
        /\ UNCHANGED <<uploaded, tableVars, recent, objects, cleanup, lies, seen>>

\* PendingTotal: the length of the moderation queue.
CountPending(s) ==
    /\ pc[s] = "counted"
    /\ Goto(s, IF Tally("pending") >= MaxPending THEN "refused" ELSE "upload")
    /\ UNCHANGED <<photos, uploaded, tableVars, recent, objects, cleanup,
                   lies, seen>>

\* A query fails or a photo cannot be decoded: nothing was stored yet.
GivesUp(s) ==
    /\ pc[s] \in {"new", "counted", "upload"}
    /\ uploaded[s] = 0
    /\ Goto(s, "refused")
    /\ UNCHANGED <<photos, uploaded, tableVars, recent, objects, cleanup,
                   lies, seen>>

NextKey(s) == <<s, uploaded[s]>>
\* (mutant) one photo too many
UploadingOneMore(s) == pc[s] = "upload" /\ uploaded[s] <= photos[s]
Uploading(s) == pc[s] = "upload" /\ uploaded[s] < photos[s]

Upload(s) ==
    /\ Uploading(s)
    /\ objects' = objects \cup {NextKey(s)}
    /\ uploaded' = [uploaded EXCEPT ![s] = @ + 1]
    /\ UNCHANGED <<pc, photos, tableVars, recent, cleanup, lies, seen>>

\* Upload fails: the keys uploaded before it are to be deleted.
UploadFails(s) ==
    /\ Uploading(s)
    /\ Goto(s, "undo")
    /\ UNCHANGED <<photos, uploaded, tableVars, recent, objects, cleanup,
                   lies, seen>>

\* The object was stored although Upload failed; nobody will delete it.
UploadLies(s) ==
    /\ Uploading(s)
    /\ lies < MaxLies
    /\ lies' = lies + 1
    /\ objects' = objects \cup {NextKey(s)}
    /\ forgotten' = forgotten \cup {NextKey(s)}
    /\ Goto(s, "undo")
    /\ UNCHANGED <<photos, uploaded, tableVars, recent, cleanup, places>>

\* (mutant) the row first, the photos later
StoredEarly(s) ==
    /\ pc[s] = "upload"
    /\ status' = [status EXCEPT ![s] = "pending"]
    /\ recent' = [recent EXCEPT ![s] = TRUE]
    /\ quarantine' = quarantine \cup KeysOf(s, photos[s])
    /\ UNCHANGED <<photos, uploaded, place, gallery, objects, cleanup, seen>>

\* The transaction: the submission and the keys of all its photos.
Stored(s) ==
    /\ pc[s] = "upload"
    /\ uploaded[s] = photos[s]
    /\ status' = [status EXCEPT ![s] = "pending"]
    /\ recent' = [recent EXCEPT ![s] = TRUE]
    /\ quarantine' = quarantine \cup KeysOf(s, photos[s])
    /\ UNCHANGED <<photos, uploaded, place, gallery, objects, cleanup, seen>>

Commit(s) ==
    /\ Stored(s)
    /\ Goto(s, "done")
    /\ UNCHANGED lies

CommitFails(s) ==
    /\ pc[s] = "upload"
    /\ uploaded[s] = photos[s]
    /\ Goto(s, "undo")
    /\ UNCHANGED <<photos, uploaded, tableVars, recent, objects, cleanup,
                   lies, seen>>

\* Commit took effect but the answer was lost: to the handler, a failure.
CommitLies(s) ==
    /\ Stored(s)
    /\ lies < MaxLies
    /\ lies' = lies + 1
    /\ Goto(s, "undo")

\* cleanupKeys, or the DeleteMany of a failed upload.
Undo(s) ==
    LET keys == KeysOf(s, uploaded[s]) IN
    /\ pc[s] = "undo"
    /\ objects' = objects \ keys
    /\ Goto(s, "refused")
    /\ UNCHANGED <<photos, uploaded, tableVars, recent, cleanup, lies, places,
                   forgotten>>

\* DeleteMany fails and is only logged, or the process dies in the handler.
HandlerLost(s) ==
    /\ pc[s] \in {"new", "counted", "upload", "undo"}
    /\ Goto(s, "refused")
    /\ forgotten' = IF status[s] = "absent"
                    THEN forgotten \cup KeysOf(s, uploaded[s]) ELSE forgotten
    /\ UNCHANGED <<photos, uploaded, tableVars, recent, objects, cleanup,
                   lies, places>>

-----------------------------------------------------------------------------
\* The keys of a set of positions of s, in order of position.
Before(p, kept) == Cardinality({q \in kept : q < p})
InOrder(s, kept) ==
    [i \in 1 .. Cardinality(kept) |->
        <<s, CHOOSE p \in kept : Before(p, kept) = i - 1>>]

(***************************************************************************)
(* ApproveSubmission, up to its commit.  The row is locked and must be     *)
(* pending; the photos kept move to the place, renumbered from 0; those    *)
(* not kept are left for the cleanup.  keep = Positions stands also for    *)
(* KeepPhotos = nil.                                                       *)
(***************************************************************************)
Approve(s, keep) ==
    LET rows == {k \in quarantine : k[1] = s} IN
    /\ status[s] = "pending"
    /\ status' = [status EXCEPT ![s] = "approved"]
    /\ place' = [place EXCEPT ![s] = "live"]
    /\ places' = [places EXCEPT ![s] = @ + 1]
    /\ gallery' = [gallery EXCEPT ![s] =
                      InOrder(s, {k[2] : k \in rows} \cap keep)]
    /\ quarantine' = quarantine \ rows
    /\ cleanup' = [cleanup EXCEPT ![s] = @ \cup {k \in rows : k[2] \notin keep}]
    /\ UNCHANGED <<handlerVars, recent, objects, lies, forgotten>>

\* (mutant) the status is not looked at
RejectAgain(s) ==
    LET rows == {k \in quarantine : k[1] = s} IN
    /\ status[s] # "absent"
    /\ status' = [status EXCEPT ![s] = "rejected"]
    /\ quarantine' = quarantine \ rows
    /\ cleanup' = [cleanup EXCEPT ![s] = @ \cup rows]
    /\ UNCHANGED <<handlerVars, place, gallery, recent, objects, lies, seen>>

\* RejectSubmission: the row stays, its photos go.
Reject(s) ==
    LET rows == {k \in quarantine : k[1] = s} IN
    /\ status[s] = "pending"
    /\ status' = [status EXCEPT ![s] = "rejected"]
    /\ quarantine' = quarantine \ rows
    /\ cleanup' = [cleanup EXCEPT ![s] = @ \cup rows]
    /\ UNCHANGED <<handlerVars, place, gallery, recent, objects, lies, seen>>

\* DeletePlace: the photo rows go by CASCADE.
DeletePlace(s) ==
    /\ place[s] = "live"
    /\ place' = [place EXCEPT ![s] = "deleted"]
    /\ gallery' = [gallery EXCEPT ![s] = <<>>]
    /\ cleanup' = [cleanup EXCEPT ![s] = @ \cup ToSet(gallery[s])]
    /\ UNCHANGED <<handlerVars, status, quarantine, recent, objects, lies, seen>>

\* After the commit: the dropped keys are deleted from R2.
Cleans(s) ==
    /\ cleanup[s] # {}
    /\ objects' = objects \ cleanup[s]
    /\ cleanup' = [cleanup EXCEPT ![s] = {}]
    /\ UNCHANGED <<handlerVars, tableVars, recent, lies, seen>>

\* It fails (only a warning), Commit's answer was lost, or the process died.
CleanupLost(s) ==
    /\ cleanup[s] # {}
    /\ forgotten' = forgotten \cup cleanup[s]
    /\ cleanup' = [cleanup EXCEPT ![s] = {}]
    /\ UNCHANGED <<handlerVars, tableVars, recent, objects, lies, places>>

HandlerStep(s) ==
    \/ CountRecent(s)
    \/ CountPending(s)
    \/ GivesUp(s)
    \/ Upload(s)
    \/ UploadFails(s)
    \/ UploadLies(s)
    \/ Commit(s)
    \/ CommitFails(s)
    \/ CommitLies(s)
    \/ Undo(s)
    \/ HandlerLost(s)

ModerationStep(s) ==
    \/ \E keep \in SUBSET Positions : Approve(s, keep)
    \/ Reject(s)
    \/ DeletePlace(s)
    \/ Cleans(s)
    \/ CleanupLost(s)

Next == \E s \in Submissions : Ages(s) \/ HandlerStep(s) \/ ModerationStep(s)

Spec == Init /\ [][Next]_vars

-----------------------------------------------------------------------------
TypeOK ==
    /\ pc \in [Submissions ->
                  {"new", "counted", "upload", "undo", "refused", "done"}]
    /\ photos \in [Submissions -> 0 .. MaxPhotos]
    /\ \A s \in Submissions : uploaded[s] \in 0 .. photos[s]
    /\ status \in [Submissions -> {"absent", "pending", "approved", "rejected"}]
    /\ recent \in [Submissions -> BOOLEAN]
    /\ quarantine \subseteq Keys
    /\ place \in [Submissions -> {"none", "live", "deleted"}]
    /\ \A s \in Submissions : gallery[s] \in Seq(Keys)
    /\ objects \subseteq Keys
    /\ cleanup \in [Submissions -> SUBSET Keys]
    /\ lies \in 0 .. MaxLies
    /\ places \in [Submissions -> Nat]
    /\ forgotten \subseteq Keys

Referenced == quarantine \cup UNION {ToSet(gallery[s]) : s \in Submissions}

\* Submissions that the tables name a photo of that is not in R2.
Broken == {s \in Submissions : \E k \in Referenced \ objects : k[1] = s}

(***************************************************************************)
(* A photo the tables name can be fetched: its object is in R2.  When the  *)
(* answer to a commit that took effect is lost, the handler cleans up and  *)
(* leaves a submission without its photos: only that one, for each answer  *)
(* lost, and only when its visitor was told that it failed.                *)
(***************************************************************************)
NoPhotoMissing ==
    /\ \A s \in Broken : pc[s] = "refused"
    /\ Cardinality(Broken) <= lies

\* Keys a handler or a moderation still holds.
Held ==
    (UNION {IF pc[s] \in {"upload", "undo"} THEN KeysOf(s, uploaded[s]) ELSE {}
               : s \in Submissions})
        \cup (UNION {cleanup[s] : s \in Submissions})

(***************************************************************************)
(* No object is left behind in R2: whatever no table names is still in     *)
(* somebody's hands, unless a deletion failed or its process died.         *)
(***************************************************************************)
NoOrphans == objects \subseteq Referenced \cup Held \cup forgotten

(***************************************************************************)
(* Two moderators never make two places of one submission, nor a place of  *)
(* a rejected one, and an approved one keeps the track of its place.       *)
(***************************************************************************)
OnePlace ==
    \A s \in Submissions :
        /\ places[s] <= 1
        /\ place[s] # "none" <=> status[s] = "approved"

(***************************************************************************)
(* A photo is shown only on the map's own place or not at all: no key is   *)
(* in quarantine and in a gallery, or twice in a gallery, and what was     *)
(* turned down (or deleted) is in neither.                                 *)
(***************************************************************************)
PhotosApart ==
    \A s \in Submissions :
        /\ ToSet(gallery[s]) \cap quarantine = {}
        /\ IsInjective(gallery[s])
        /\ (ToSet(gallery[s]) \cup quarantine) \cap cleanup[s] = {}
        /\ status[s] = "rejected" => \A k \in Referenced : k[1] # s

(***************************************************************************)
(* The limits are checked before the photos are decoded and uploaded, so   *)
(* handlers that checked together may pass together: the queue (and the    *)
(* quota of an hour) exceeds its limit by less than the handlers at once.  *)
(***************************************************************************)
LimitsBounded ==
    /\ Tally("pending") <= MaxPending + MaxHandlers - 1
    /\ \A h \in Hints :
          Cardinality({s \in Submissions : recent[s] /\ HintOf[s] = h})
              <= MaxPerHour + MaxHandlers - 1
=============================================================================
