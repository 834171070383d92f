------------------------------- MODULE MCStores ------------------------------
(***************************************************************************)
(* Small instances of the two stores that keep pictures and the tables or  *)
(* counters about them in step: the files of the tile cache (TileCache)    *)
(* and the photos of submitted places (Photos).  They share nothing, so    *)
(* one run explores them side by side: part says which of the two moves,   *)
(* and the other rests.                                                    *)
(***************************************************************************)
EXTENDS TileCache, TLC

CONSTANTS
    t1, t2, m1, m2,
    Submissions, Hints, HintOf, MaxPhotos, PhotoCounts, MaxPerHour, MaxPending,
    MaxHandlers, MaxLies

VARIABLES
    part,
    pc, photos, uploaded, status, recent, quarantine, place, gallery, objects,
    cleanup, lies, places, forgotten

\* Two tiles, and two temporary names: the first may be left of a crash.
MCTiles == {t1, t2}
MCTemps == {m1, m2}
MCOrder == <<m1, t1, m2, t2>>

\* All submissions are of one submitter.
MCHintOf == [s \in Submissions |-> CHOOSE h \in Hints : TRUE]
MCSymmetry == Permutations(Submissions)

Photos == INSTANCE Submissions

ASSUME CacheAssumption ==
    TilesAssumption /\ PathsAssumption /\ BytesAssumption /\ BoundsAssumption
ASSUME PhotosAssumption ==
    /\ Photos!HintOfAssumption /\ Photos!SubmissionsAssumption
    /\ Photos!PhotoCountsAssumption /\ Photos!LimitsAssumption

cacheVars == <<files, size, sweeping, put, sweep, scan, writes, stuck, slack>>
photosVars == <<pc, photos, uploaded, status, recent, quarantine, place,
                gallery, objects, cleanup, lies, places, forgotten>>

StoresInit ==
    /\ part \in {"cache", "photos"}
    /\ Init
    /\ m2 \notin DOMAIN files
    /\ part # "cache" => files = <<>>
    /\ Photos!Init

CacheStep == part = "cache" /\ Next /\ UNCHANGED <<part, photosVars>>
PhotosStep == part = "photos" /\ Photos!Next /\ UNCHANGED <<part, cacheVars>>

StoresNext == CacheStep \/ PhotosStep

StoresSpec == StoresInit /\ [][StoresNext]_<<part, cacheVars, photosVars>>

-----------------------------------------------------------------------------
\* Every variable of the part that moves has its type.
TypesOK ==
    /\ part = "cache" => TypeOK
    /\ part = "photos" => Photos!TypeOK

(***************************************************************************)
(* The tables and the object store agree: what a table names can be        *)
(* fetched, no object is left that nobody names or still holds, and the    *)
(* photos of a submission are in quarantine or in the gallery of the one   *)
(* place it becomes, however many moderators answer at once.               *)
(***************************************************************************)
PhotosKept ==
    part = "photos" =>
        /\ Photos!NoPhotoMissing /\ Photos!NoOrphans
        /\ Photos!OnePlace /\ Photos!PhotosApart

(***************************************************************************)
(* What is limited stays limited when several pass the check together: the *)
(* queue and the quota of a submitter by the handlers at once, the counter *)
(* of the cache and its disk by what came in while files were counted.     *)
(***************************************************************************)
LimitsKept ==
    /\ part = "photos" => Photos!LimitsBounded
    /\ part = "cache" => CounterBounded /\ DiskBounded
=============================================================================
