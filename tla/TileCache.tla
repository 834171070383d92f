------------------------------ MODULE TileCache ------------------------------
(***************************************************************************)
(* The disk cache of satellite tiles: httpapi/satellite_cache.go, with the *)
(* puts that routes_satellite.go starts in goroutines of their own.        *)
(*                                                                         *)
(* A file is a number of bytes and the order it was written in (its        *)
(* mtime); paths are the tiles and the temporary names.  A get reads one   *)
(* file and changes nothing.  Every file operation is a step, so that a    *)
(* put, the sweep and the scan at start interleave in any order.           *)
(***************************************************************************)
EXTENDS Integers, Sequences, FiniteSets

CONSTANTS
    Tiles,        \* z/x/y
    Temps,        \* the names CreateTemp makes up
    Order,        \* the order in which WalkDir comes to them all
    Bytes,        \* sizes of the images
    MaxBytes,     \* maxBytes
    MaxWrites,    \* bound: temporary files written
    MaxStuck      \* bound: files os.Remove fails on

TilesAssumption == IsFiniteSet(Tiles) /\ IsFiniteSet(Temps)
PathsAssumption ==
    /\ Tiles \cap Temps = {}
    /\ Order \in Seq(Tiles \cup Temps)
    /\ \A p \in Tiles \cup Temps : \E i \in DOMAIN Order : Order[i] = p
    /\ \A i, j \in DOMAIN Order : Order[i] = Order[j] => i = j
BytesAssumption == Bytes \subseteq Nat \ {0} /\ IsFiniteSet(Bytes)
BoundsAssumption == {MaxBytes, MaxWrites, MaxStuck} \subseteq Nat

VARIABLES
    files,      \* what is on the disk, by path
    size,       \* tileCache.size
    sweeping,   \* tileCache.sweeping
    put,        \* the put that holds mu, or Idle
    sweep,      \* the goroutine of sweep, or Idle
    scan,       \* the goroutine of newTileCache, Idle when it has ended
    writes,     \* how many files were written: the clock of mtime
    stuck,
    slack       \* (observation) bytes that a put moved while files were being
                \* counted or swept, and those the sweep could not remove

goroutines == <<put, sweep, scan>>
bounds == <<writes, stuck>>
vars == <<files, size, sweeping, goroutines, bounds, slack>>

Paths == Tiles \cup Temps
Idle == [at |-> "idle"]
Target == (4 * MaxBytes) \div 5

Files == [bytes: Bytes, mod: 0 .. MaxWrites]
Entries == [path: Paths, bytes: Bytes, mod: 0 .. MaxWrites]
Put(p, f) == [q \in DOMAIN files \cup {p} |-> IF q = p THEN f ELSE files[q]]
Without(P) == [q \in DOMAIN files \ P |-> files[q]]
\* The bytes at the paths P, counted one by one.
OnDisk(P) ==
    Cardinality(UNION {{p} \X (1 .. files[p].bytes) : p \in P \cap DOMAIN files})

Walk == [at |-> "walk", rest |-> Order, seen |-> {}, total |-> 0]

\* The process before left any tiles, and temporary files if it was killed.
Init ==
    /\ \E P \in SUBSET Paths : \E n \in [P -> Bytes] :
          files = [p \in P |-> [bytes |-> n[p], mod |-> 0]]
    /\ size = 0
    /\ sweeping = FALSE
    /\ put = Idle
    /\ sweep = Idle
    /\ scan = Walk
    /\ writes = 0 /\ stuck = 0
    /\ slack = 0

\* Files are being counted or removed.
Busy == scan # Idle \/ sweeping

-----------------------------------------------------------------------------
(***************************************************************************)
(* put, under mu: a temporary file, Stat, Rename, Add.  The tile may be in *)
(* the cache already: its get may have missed before another put.          *)
(***************************************************************************)
CreateTemp(t, n) ==
    /\ put = Idle
    /\ writes < MaxWrites
    /\ \E p \in Temps \ DOMAIN files :
          /\ files' = Put(p, [bytes |-> n, mod |-> writes + 1])
          /\ put' = [at |-> "stat", tile |-> t, temp |-> p, bytes |-> n,
                     old |-> 0, late |-> Busy]
    /\ writes' = writes + 1
    /\ UNCHANGED <<size, sweeping, sweep, scan, stuck, slack>>

\* An error of Write, Close or Rename: the temporary file is removed.
PutFails ==
    /\ put.at \in {"stat", "rename"}
    /\ files' = Without({put.temp})
    /\ put' = Idle
    /\ UNCHANGED <<size, sweeping, sweep, scan, bounds, slack>>

Old(t) == IF t \in DOMAIN files THEN files[t].bytes ELSE 0

Stat ==
    /\ put.at = "stat"
    /\ put' = [put EXCEPT !.at = "rename", !.old = Old(put.tile)]
    /\ UNCHANGED <<files, size, sweeping, sweep, scan, bounds, slack>>

\* If the sweep has taken the temporary file away, this is PutFails.
Rename ==
    /\ put.at = "rename"
    /\ put.temp \in DOMAIN files
    /\ files' = [q \in (DOMAIN files \cup {put.tile}) \ {put.temp} |->
                    IF q = put.tile THEN files[put.temp] ELSE files[q]]
    /\ put' = [put EXCEPT !.at = "add"]
    /\ UNCHANGED <<size, sweeping, sweep, scan, bounds, slack>>

Add ==
    /\ put.at = "add"
    /\ size' = size + put.bytes - put.old
    /\ put' = [put EXCEPT !.at = "check"]
    /\ slack' = IF put.late THEN slack + put.bytes + put.old ELSE slack
    /\ UNCHANGED <<files, sweeping, sweep, scan, bounds>>

(***************************************************************************)
(* sweepIfNeeded.  Only who turns sweeping on starts a sweep; a caller who *)
(* finds it on leaves it at that.                                          *)
(***************************************************************************)
StartSweep ==
    IF size > MaxBytes /\ ~sweeping
    THEN /\ sweeping' = TRUE
         /\ sweep' = Walk
         /\ slack' = IF scan # Idle THEN slack ELSE 0
    ELSE UNCHANGED <<sweeping, sweep, slack>>

\* (mutant) a put does not look at the limit
PutEndsUnchecked ==
    /\ put.at = "check"
    /\ put' = Idle
    /\ UNCHANGED <<files, size, sweeping, sweep, scan, bounds, slack>>
PutEnds ==
    /\ put.at = "check"
    /\ put' = Idle
    /\ StartSweep
    /\ UNCHANGED <<files, size, scan, bounds>>

-----------------------------------------------------------------------------
(***************************************************************************)
(* WalkDir comes to a path: the file is as it is then.  What is created at *)
(* a path passed already is not seen.                                      *)
(***************************************************************************)
Visited(w) ==
    LET p == Head(w.rest)
    IN  IF p \in DOMAIN files
        THEN [w EXCEPT !.rest = Tail(@),
                       !.seen = @ \cup {[path |-> p, bytes |-> files[p].bytes,
                                         mod |-> files[p].mod]},
                       !.total = @ + files[p].bytes]
        ELSE [w EXCEPT !.rest = Tail(@)]

\* newTileCache: what is there is counted, then swept if it is too much.
ScanVisits ==
    /\ scan.at = "walk"
    /\ scan.rest # <<>>
    /\ scan' = [Visited(scan) EXCEPT !.seen = {}]
    /\ UNCHANGED <<files, size, sweeping, put, sweep, bounds, slack>>

ScanStores ==
    /\ scan.at = "walk"
    /\ scan.rest = <<>>
    /\ size' = scan.total
    /\ scan' = [scan EXCEPT !.at = "check"]
    /\ UNCHANGED <<files, sweeping, put, sweep, bounds, slack>>

ScanEnds ==
    /\ scan.at = "check"
    /\ scan' = Idle
    /\ StartSweep
    /\ UNCHANGED <<files, size, put, bounds>>

-----------------------------------------------------------------------------
(***************************************************************************)
(* sweep: the files are listed and counted, then removed from the oldest   *)
(* on until the total is down to Target.  A file that is written again     *)
(* meanwhile is removed all the same; one that cannot be removed is passed *)
(* over and stays in the total.                                            *)
(***************************************************************************)
SweepVisits ==
    /\ sweep.at = "walk"
    /\ sweep.rest # <<>>
    /\ sweep' = Visited(sweep)
    /\ UNCHANGED <<files, size, sweeping, put, scan, bounds, slack>>

SweepCounted ==
    /\ sweep.at = "walk"
    /\ sweep.rest = <<>>
    /\ size' = sweep.total
    /\ sweep' = [sweep EXCEPT !.at = IF sweep.total <= Target THEN "end"
                                      ELSE "remove"]
    /\ UNCHANGED <<files, sweeping, put, scan, bounds, slack>>

\* The entries a sweep may come to first, and whether it goes on.
Oldest(E) == {e \in E : \A d \in E : e.mod <= d.mod}

More == sweep.at = "remove" /\ sweep.total > Target /\ sweep.seen # {}

SweepRemoves(e) ==
    /\ e.path \in DOMAIN files
    /\ files' = Without({e.path})
    /\ sweep' = [sweep EXCEPT !.seen = @ \ {e}, !.total = @ - e.bytes]
    /\ UNCHANGED <<size, sweeping, put, scan, bounds, slack>>

\* os.Remove fails: the file is gone, or it cannot be removed.
SweepPassesOver(e) ==
    /\ sweep' = [sweep EXCEPT !.seen = @ \ {e}]
    /\ IF e.path \in DOMAIN files
       THEN /\ stuck < MaxStuck
            /\ stuck' = stuck + 1
            /\ slack' = slack + files[e.path].bytes
       ELSE UNCHANGED <<stuck, slack>>
    /\ UNCHANGED <<files, size, sweeping, put, scan, writes>>

SweepStores ==
    /\ sweep.at = "remove"
    /\ ~More
    /\ size' = sweep.total
    /\ sweep' = [sweep EXCEPT !.at = "end"]
    /\ UNCHANGED <<files, sweeping, put, scan, bounds, slack>>

SweepEnds ==
    /\ sweep.at = "end"
    /\ sweep' = Idle
    /\ sweeping' = FALSE
    /\ UNCHANGED <<files, size, put, scan, bounds, slack>>

PutStep ==
    \/ \E t \in Tiles, n \in Bytes : CreateTemp(t, n)
    \/ PutFails
    \/ Stat
    \/ Rename
    \/ Add
    \/ PutEnds

ScanStep ==
    \/ ScanVisits
    \/ ScanStores
    \/ ScanEnds

SweepStep ==
    \/ SweepVisits
    \/ SweepCounted
    \/ More /\ \E e \in Oldest(sweep.seen) : SweepRemoves(e) \/ SweepPassesOver(e)
    \/ SweepStores
    \/ SweepEnds

Next == PutStep \/ ScanStep \/ SweepStep

Spec == Init /\ [][Next]_vars

-----------------------------------------------------------------------------
Walks == [at: {"walk", "remove", "check", "end"}, rest: Seq(Paths),
          seen: SUBSET Entries, total: Nat]

TypeOK ==
    /\ DOMAIN files \subseteq Paths
    /\ files \in [DOMAIN files -> Files]
    /\ size \in Int
    /\ sweeping \in BOOLEAN
    /\ put \in {Idle} \cup [at: {"stat", "rename", "add", "check"},
                            tile: Tiles, temp: Temps, bytes: Bytes,
                            old: Bytes \cup {0}, late: BOOLEAN]
    /\ sweep \in {Idle} \cup Walks
    /\ scan \in {Idle} \cup Walks
    /\ sweeping = (sweep # Idle)
    /\ writes \in 0 .. MaxWrites
    /\ stuck \in 0 .. MaxStuck
    /\ slack \in Nat

\* Bytes of the put under way that size does not know of yet.
InFlight == IF put # Idle THEN put.bytes ELSE 0

(***************************************************************************)
(* The counter is set to what a walk found and moved by what puts add, and *)
(* each forgets the other: between sweeps it is below the disk by no more  *)
(* than the bytes puts moved while files were counted or removed.          *)
(***************************************************************************)
CounterBounded == ~Busy => OnDisk(Paths) <= size + InFlight + slack

(***************************************************************************)
(* So the disk does not fill up: it holds MaxBytes, and in addition only   *)
(* what came in during the last sweep (a put that finds sweeping on starts *)
(* none), what could not be removed, and the image being written.          *)
(***************************************************************************)
DiskBounded == ~Busy => OnDisk(Paths) <= MaxBytes + InFlight + slack
=============================================================================
