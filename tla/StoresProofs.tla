---------------------------- MODULE StoresProofs -----------------------------
(***************************************************************************)
(* Proofs about the two stores that keep pictures, for any tiles, paths,   *)
(* sizes, submissions, photos and limits: the disk cache of tiles          *)
(* (TileCache), and the submitted places with their photos (Submissions,   *)
(* the instance Photos).  Last come the properties of MCStores, where the  *)
(* two are side by side.                                                   *)
(***************************************************************************)
EXTENDS MCStores, FiniteSetTheorems, TLAPS

\* The instance counts as this module does.
LEMMA PhotosCounts ==
    ASSUME NEW S
    PROVE  /\ Photos!Cardinality(S) = Cardinality(S)
           /\ Photos!IsFiniteSet(S) <=> IsFiniteSet(S)
<1>1. Photos!Cardinality(S) = Cardinality(S)
  BY DEF Photos!Cardinality, Cardinality
<1>2. Photos!IsFiniteSet(S) <=> IsFiniteSet(S)
  BY DEF Photos!IsFiniteSet, IsFiniteSet
<1>3. QED
  BY <1>1, <1>2

-----------------------------------------------------------------------------
(***************************************************************************)
(* What approving, rejecting and deleting leave of a submission, and that  *)
(* nothing is stored before its handler says so.                           *)
(***************************************************************************)
Fresh == {"new", "counted", "upload"}

PlaceInv ==
    \A s \in Submissions :
        /\ pc[s] \in Fresh => status[s] = "absent"
        /\ \/ status[s] = "approved" /\ place[s] # "none" /\ places[s] = 1
           \/ status[s] # "approved" /\ place[s] = "none" /\ places[s] = 0

Shapes ==
    /\ DOMAIN pc = Submissions /\ DOMAIN status = Submissions
    /\ DOMAIN recent = Submissions
    /\ DOMAIN place = Submissions /\ DOMAIN places = Submissions

(***************************************************************************)
(* A handler that has passed a check takes its room at once: the queue     *)
(* with those that passed its check, and the last hour of a submitter with *)
(* those that passed the check of the quota, are already bounded.          *)
(***************************************************************************)
Queue == {s \in Submissions : status[s] = "pending" \/ pc[s] = "upload"}
Quota(h) == {s \in Submissions : /\ HintOf[s] = h
                                 /\ recent[s] \/ pc[s] \in {"counted", "upload"}}
Recent(h) == {s \in Submissions : recent[s] /\ HintOf[s] = h}
Pending == {s \in Submissions : status[s] = "pending"}

RoomInv ==
    /\ Cardinality(Photos!UnderWay) <= MaxHandlers
    /\ Cardinality(Queue) <= MaxPending + MaxHandlers - 1
    /\ \A h \in Hints : Cardinality(Quota(h)) <= MaxPerHour + MaxHandlers - 1

SubmissionInv == Shapes /\ PlaceInv /\ RoomInv

\* Counting parts of a finite set.
LEMMA Smaller ==
    ASSUME NEW S, IsFiniteSet(S), NEW T, T \subseteq S
    PROVE  /\ IsFiniteSet(T)
           /\ Cardinality(T) \in Nat /\ Cardinality(S) \in Nat
           /\ Cardinality(T) <= Cardinality(S)
BY FS_Subset, FS_CardinalityType

\* Whoever passes a check, together with the other handlers at work.
LEMMA PassesTogether ==
    ASSUME NEW A, NEW B, NEW C, IsFiniteSet(A), IsFiniteSet(B),
           C \subseteq A \cup B, NEW limit \in Nat \ {0}, NEW most \in Nat \ {0},
           ~(Cardinality(A) >= limit), Cardinality(B) <= most
    PROVE  Cardinality(C) <= limit + most - 1
<1>1. /\ IsFiniteSet(A \cup B)
      /\ Cardinality(A \cup B) =
            Cardinality(A) + Cardinality(B) - Cardinality(A \cap B)
  BY FS_Union
<1>2. Cardinality(C) \in Nat /\ Cardinality(C) <= Cardinality(A \cup B)
  BY <1>1, Smaller
<1>3. /\ Cardinality(A) \in Nat /\ Cardinality(B) \in Nat
      /\ Cardinality(A \cap B) \in Nat
  BY Smaller, FS_CardinalityType
<1>4. QED
  BY <1>1, <1>2, <1>3

LEMMA SubmissionInit ==
    ASSUME Photos!LimitsAssumption PROVE Photos!Init => SubmissionInv
<1> SUFFICES ASSUME Photos!Init PROVE SubmissionInv
  OBVIOUS
<1>1. Shapes /\ PlaceInv
  BY DEF Photos!Init, Shapes, PlaceInv, Fresh
<1>2. Photos!UnderWay = {} /\ Queue = {} /\ \A h \in Hints : Quota(h) = {}
  BY DEF Photos!Init, Photos!UnderWay, Queue, Quota
<1>3. RoomInv
  BY <1>2, FS_EmptySet DEF RoomInv, Photos!LimitsAssumption
<1>4. QED
  BY <1>1, <1>3 DEF SubmissionInv

\* A step that lets nobody pass a check.
LEMMA NobodyPasses ==
    ASSUME Photos!LimitsAssumption, Photos!SubmissionsAssumption, RoomInv,
           Photos!UnderWay' \subseteq Photos!UnderWay, Queue' \subseteq Queue,
           \A h \in Hints : Quota(h)' \subseteq Quota(h)
    PROVE  RoomInv'
<1>1. /\ IsFiniteSet(Photos!UnderWay) /\ IsFiniteSet(Queue)
      /\ \A h : IsFiniteSet(Quota(h))
  BY FS_Subset, PhotosCounts
     DEF Photos!SubmissionsAssumption, Photos!UnderWay, Queue, Quota
<1>2. /\ Cardinality(Photos!UnderWay') <= MaxHandlers
      /\ Cardinality(Queue') <= MaxPending + MaxHandlers - 1
  BY <1>1, Smaller DEF RoomInv, Photos!LimitsAssumption
<1>3. ASSUME NEW h \in Hints
      PROVE  Cardinality(Quota(h)') <= MaxPerHour + MaxHandlers - 1
  BY <1>1, <1>3, Smaller DEF RoomInv, Photos!LimitsAssumption
<1>4. QED
  BY <1>2, <1>3 DEF RoomInv

\* The handler of s goes on, its submission is not stored by this step.
LEMMA GoesOn ==
    ASSUME Photos!LimitsAssumption, Photos!SubmissionsAssumption, SubmissionInv,
           NEW s \in Submissions, NEW where,
           Photos!Goto(s, where), UNCHANGED <<status, recent, place, places>>,
           where \in Fresh => pc[s] \in Fresh,
           \/ where \notin {"counted", "upload", "undo"}
           \/ pc[s] = "upload" /\ where = "undo"
    PROVE  SubmissionInv'
<1>1. /\ pc' = [pc EXCEPT ![s] = where] /\ DOMAIN pc = Submissions
      /\ UNCHANGED <<status, recent, place, places>>
  BY DEF Photos!Goto, SubmissionInv, Shapes
<1>2. Shapes' /\ PlaceInv'
  BY <1>1 DEF SubmissionInv, Shapes, PlaceInv, Fresh
<1>3. /\ Photos!UnderWay' \subseteq Photos!UnderWay /\ Queue' \subseteq Queue
      /\ \A h \in Hints : Quota(h)' \subseteq Quota(h)
  BY <1>1 DEF Photos!UnderWay, Queue, Quota
<1>4. QED
  BY <1>2, <1>3, NobodyPasses DEF SubmissionInv

\* The handlers at work stay where they are.
LEMMA HandlersRest ==
    ASSUME Photos!LimitsAssumption, Photos!SubmissionsAssumption,
           SubmissionInv, Shapes', PlaceInv',
           UNCHANGED pc,
           \A s \in Submissions : /\ status'[s] = "pending" => status[s] = "pending"
                                  /\ recent'[s] => recent[s]
    PROVE  SubmissionInv'
<1>1. /\ Photos!UnderWay' \subseteq Photos!UnderWay /\ Queue' \subseteq Queue
      /\ \A h \in Hints : Quota(h)' \subseteq Quota(h)
  BY DEF Photos!UnderWay, Queue, Quota
<1>2. QED
  BY <1>1, NobodyPasses DEF SubmissionInv

LEMMA CountRecentStep ==
    ASSUME Photos!LimitsAssumption, Photos!SubmissionsAssumption, SubmissionInv,
           NEW s \in Submissions, Photos!CountRecent(s)
    PROVE  SubmissionInv'
<1> DEFINE n == Cardinality(Recent(HintOf[s]))
<1>1. /\ pc[s] = "new" /\ Cardinality(Photos!UnderWay) < MaxHandlers
      /\ Photos!Goto(s, IF n >= MaxPerHour THEN "refused" ELSE "counted")
      /\ UNCHANGED <<status, recent, place, places>>
  BY PhotosCounts DEF Photos!CountRecent, Recent, Photos!tableVars, Photos!seen
<1>2. CASE n >= MaxPerHour
  BY <1>1, <1>2, GoesOn DEF Fresh
<1>3. CASE ~(n >= MaxPerHour)
  <2>1. pc' = [pc EXCEPT ![s] = "counted"] /\ DOMAIN pc = Submissions
    BY <1>1, <1>3 DEF Photos!Goto, SubmissionInv, Shapes
  <2>2. Shapes' /\ PlaceInv'
    BY <1>1, <2>1 DEF SubmissionInv, Shapes, PlaceInv, Fresh
  <2>3. IsFiniteSet(Photos!UnderWay) /\ IsFiniteSet(Photos!UnderWay') /\ IsFiniteSet(Queue)
        /\ \A h : IsFiniteSet(Recent(h)) /\ IsFiniteSet(Quota(h))
    BY FS_Subset, PhotosCounts
       DEF Photos!SubmissionsAssumption, Photos!UnderWay, Queue, Quota, Recent
  <2>4. Cardinality(Photos!UnderWay') <= MaxHandlers
    <3>1. Photos!UnderWay' = Photos!UnderWay \cup {s} /\ s \notin Photos!UnderWay
      BY <1>1, <2>1 DEF Photos!UnderWay
    <3>2. Cardinality(Photos!UnderWay') = Cardinality(Photos!UnderWay) + 1
          /\ Cardinality(Photos!UnderWay) \in Nat
      BY <2>3, <3>1, FS_AddElement, FS_CardinalityType
    <3>3. QED
      BY <1>1, <3>2 DEF Photos!LimitsAssumption
  <2>5. Cardinality(Queue') <= MaxPending + MaxHandlers - 1
    <3>1. Queue' = Queue
      BY <1>1, <2>1 DEF Queue
    <3>2. QED
      BY <3>1 DEF SubmissionInv, RoomInv
  <2>6. ASSUME NEW h \in Hints
        PROVE  Cardinality(Quota(h)') <= MaxPerHour + MaxHandlers - 1
    <3>1. CASE h # HintOf[s]
      <4>1. Quota(h)' = Quota(h)
        BY <1>1, <2>1, <3>1 DEF Quota
      <4>2. QED
        BY <4>1 DEF SubmissionInv, RoomInv
    <3>2. CASE h = HintOf[s]
      <4>1. Quota(h)' \subseteq Recent(h) \cup Photos!UnderWay'
        BY <1>1, <2>1 DEF Quota, Recent, Photos!UnderWay
      <4>2. ~(Cardinality(Recent(h)) >= MaxPerHour)
        BY <1>3, <3>2
      <4>3. MaxPerHour \in Nat \ {0} /\ MaxHandlers \in Nat \ {0}
        BY DEF Photos!LimitsAssumption
      <4>4. QED
        BY <2>3, <2>4, <4>1, <4>2, <4>3, PassesTogether
    <3>3. QED
      BY <3>1, <3>2
  <2>7. QED
    BY <2>2, <2>4, <2>5, <2>6 DEF SubmissionInv, RoomInv
<1>4. QED
  BY <1>2, <1>3

LEMMA CountPendingStep ==
    ASSUME Photos!LimitsAssumption, Photos!SubmissionsAssumption, SubmissionInv,
           NEW s \in Submissions, Photos!CountPending(s)
    PROVE  SubmissionInv'
<1> DEFINE n == Cardinality(Pending)
<1>1. /\ pc[s] = "counted"
      /\ Photos!Goto(s, IF n >= MaxPending THEN "refused" ELSE "upload")
      /\ UNCHANGED <<status, recent, place, places>>
  BY PhotosCounts DEF Photos!CountPending, Pending, Photos!Tally,
         Photos!tableVars, Photos!seen
<1>2. CASE n >= MaxPending
  BY <1>1, <1>2, GoesOn DEF Fresh
<1>3. CASE ~(n >= MaxPending)
  <2>1. pc' = [pc EXCEPT ![s] = "upload"] /\ DOMAIN pc = Submissions
    BY <1>1, <1>3 DEF Photos!Goto, SubmissionInv, Shapes
  <2>2. Shapes' /\ PlaceInv'
    BY <1>1, <2>1 DEF SubmissionInv, Shapes, PlaceInv, Fresh
  <2>3. Photos!UnderWay' = Photos!UnderWay /\ \A h \in Hints : Quota(h)' = Quota(h)
    BY <1>1, <2>1 DEF Photos!UnderWay, Quota
  <2>4. Queue' \subseteq Pending \cup Photos!UnderWay'
    BY <1>1, <2>1 DEF Queue, Pending, Photos!UnderWay
  <2>5. IsFiniteSet(Pending) /\ IsFiniteSet(Photos!UnderWay')
    BY <2>3, FS_Subset, PhotosCounts
       DEF Photos!SubmissionsAssumption, Pending, Photos!UnderWay
  <2>6. Cardinality(Photos!UnderWay') <= MaxHandlers
    BY <2>3 DEF SubmissionInv, RoomInv
  <2>7. MaxPending \in Nat \ {0} /\ MaxHandlers \in Nat \ {0}
    BY DEF Photos!LimitsAssumption
  <2>8. Cardinality(Queue') <= MaxPending + MaxHandlers - 1
    BY <1>3, <2>4, <2>5, <2>6, <2>7, PassesTogether
  <2>9. QED
    BY <2>2, <2>3, <2>6, <2>8 DEF SubmissionInv, RoomInv
<1>4. QED
  BY <1>2, <1>3

\* The transaction takes the room its handler had.
LEMMA StoredStep ==
    ASSUME Photos!LimitsAssumption, Photos!SubmissionsAssumption, SubmissionInv,
           NEW s \in Submissions, Photos!Stored(s), NEW where \in {"done", "undo"},
           Photos!Goto(s, where)
    PROVE  SubmissionInv'
<1>1. /\ pc[s] = "upload" /\ pc' = [pc EXCEPT ![s] = where]
      /\ status' = [status EXCEPT ![s] = "pending"]
      /\ recent' = [recent EXCEPT ![s] = TRUE]
      /\ UNCHANGED <<place, places>>
      /\ DOMAIN pc = Submissions /\ DOMAIN status = Submissions
      /\ DOMAIN recent = Submissions
  BY DEF Photos!Stored, Photos!Goto, Photos!seen, SubmissionInv, Shapes
<1>2. Shapes'
  BY <1>1 DEF SubmissionInv, Shapes
<1>3. PlaceInv'
  BY <1>1 DEF SubmissionInv, PlaceInv, Fresh
<1>4. /\ Photos!UnderWay' \subseteq Photos!UnderWay /\ Queue' \subseteq Queue
      /\ \A h \in Hints : Quota(h)' \subseteq Quota(h)
  BY <1>1 DEF Photos!UnderWay, Queue, Quota
<1>5. QED
  BY <1>2, <1>3, <1>4, NobodyPasses DEF SubmissionInv

LEMMA HandlerStepInv ==
    ASSUME Photos!LimitsAssumption, Photos!SubmissionsAssumption, SubmissionInv,
           NEW s \in Submissions, Photos!HandlerStep(s)
    PROVE  SubmissionInv'
<1>1. CASE Photos!CountRecent(s)
  BY <1>1, CountRecentStep
<1>2. CASE Photos!CountPending(s)
  BY <1>2, CountPendingStep
<1>3. CASE Photos!GivesUp(s) \/ Photos!HandlerLost(s) \/ Photos!Undo(s)
  <2>1. Photos!Goto(s, "refused") /\ UNCHANGED <<status, recent, place, places>>
    BY <1>3 DEF Photos!GivesUp, Photos!HandlerLost, Photos!Undo,
           Photos!tableVars, Photos!seen
  <2>2. QED
    BY <2>1, GoesOn DEF Fresh
<1>4. CASE Photos!Upload(s)
  <2>1. UNCHANGED <<pc, status, recent, place, places>>
    BY <1>4 DEF Photos!Upload, Photos!tableVars, Photos!seen
  <2>2. Shapes' /\ PlaceInv'
    BY <2>1 DEF SubmissionInv, Shapes, PlaceInv
  <2>3. QED
    BY <2>1, <2>2, HandlersRest
<1>5. CASE Photos!UploadFails(s) \/ Photos!UploadLies(s) \/ Photos!CommitFails(s)
  <2>1. /\ pc[s] = "upload" /\ Photos!Goto(s, "undo")
        /\ UNCHANGED <<status, recent, place, places>>
    BY <1>5 DEF Photos!UploadFails, Photos!UploadLies, Photos!CommitFails,
           Photos!Uploading, Photos!tableVars, Photos!seen
  <2>2. QED
    BY <2>1, GoesOn DEF Fresh
<1>6. CASE Photos!Commit(s) \/ Photos!CommitLies(s)
  BY <1>6, StoredStep DEF Photos!Commit, Photos!CommitLies
<1>7. QED
  BY <1>1, <1>2, <1>3, <1>4, <1>5, <1>6 DEF Photos!HandlerStep

LEMMA ModerationStepInv ==
    ASSUME Photos!LimitsAssumption, Photos!SubmissionsAssumption, SubmissionInv,
           NEW s \in Submissions, Photos!ModerationStep(s)
    PROVE  SubmissionInv'
<1>1. ASSUME NEW keep, Photos!Approve(s, keep) PROVE SubmissionInv'
  <2>1. /\ status[s] = "pending" /\ status' = [status EXCEPT ![s] = "approved"]
        /\ place' = [place EXCEPT ![s] = "live"]
        /\ places' = [places EXCEPT ![s] = @ + 1]
        /\ UNCHANGED <<pc, recent>>
    BY <1>1 DEF Photos!Approve, Photos!handlerVars
  <2>2. Shapes'
    BY <2>1 DEF SubmissionInv, Shapes
  <2>3. PlaceInv'
    BY <2>1 DEF SubmissionInv, Shapes, PlaceInv, Fresh
  <2>4. QED
    BY <2>1, <2>2, <2>3, HandlersRest DEF SubmissionInv, Shapes
<1>2. CASE Photos!Reject(s)
  <2>1. /\ status[s] = "pending" /\ status' = [status EXCEPT ![s] = "rejected"]
        /\ UNCHANGED <<pc, recent, place, places>>
    BY <1>2 DEF Photos!Reject, Photos!handlerVars, Photos!seen
  <2>2. Shapes'
    BY <2>1 DEF SubmissionInv, Shapes
  <2>3. PlaceInv'
    BY <2>1 DEF SubmissionInv, Shapes, PlaceInv, Fresh
  <2>4. QED
    BY <2>1, <2>2, <2>3, HandlersRest DEF SubmissionInv, Shapes
<1>3. CASE Photos!DeletePlace(s)
  <2>1. /\ place[s] = "live" /\ place' = [place EXCEPT ![s] = "deleted"]
        /\ UNCHANGED <<pc, status, recent, places>>
    BY <1>3 DEF Photos!DeletePlace, Photos!handlerVars, Photos!seen
  <2>2. Shapes' /\ PlaceInv'
    BY <2>1 DEF SubmissionInv, Shapes, PlaceInv
  <2>3. QED
    BY <2>1, <2>2, HandlersRest
<1>4. CASE Photos!Cleans(s) \/ Photos!CleanupLost(s)
  <2>1. UNCHANGED <<pc, status, recent, place, places>>
    BY <1>4 DEF Photos!Cleans, Photos!CleanupLost, Photos!handlerVars,
           Photos!tableVars, Photos!seen
  <2>2. Shapes' /\ PlaceInv'
    BY <2>1 DEF SubmissionInv, Shapes, PlaceInv
  <2>3. QED
    BY <2>1, <2>2, HandlersRest
<1>5. QED
  BY <1>1, <1>2, <1>3, <1>4 DEF Photos!ModerationStep

LEMMA SubmissionStep ==
    ASSUME Photos!LimitsAssumption, Photos!SubmissionsAssumption
    PROVE  SubmissionInv /\ [Photos!Next]_Photos!vars => SubmissionInv'
<1> SUFFICES ASSUME SubmissionInv, [Photos!Next]_Photos!vars PROVE SubmissionInv'
  OBVIOUS
<1>1. ASSUME NEW s \in Submissions, Photos!Ages(s) PROVE SubmissionInv'
  <2>1. /\ UNCHANGED <<pc, status, place, places>>
        /\ recent' = [recent EXCEPT ![s] = FALSE]
    BY <1>1 DEF Photos!Ages, Photos!handlerVars, Photos!tableVars, Photos!seen
  <2>2. Shapes' /\ PlaceInv'
    BY <2>1 DEF SubmissionInv, Shapes, PlaceInv
  <2>3. QED
    BY <2>1, <2>2, HandlersRest DEF SubmissionInv, Shapes
<1>2. CASE UNCHANGED Photos!vars
  <2>1. UNCHANGED <<pc, status, recent, place, places>>
    BY <1>2 DEF Photos!vars, Photos!handlerVars, Photos!tableVars, Photos!seen
  <2>2. Shapes' /\ PlaceInv'
    BY <2>1 DEF SubmissionInv, Shapes, PlaceInv
  <2>3. QED
    BY <2>1, <2>2, HandlersRest
<1>3. QED
  BY <1>1, <1>2, HandlerStepInv, ModerationStepInv DEF Photos!Next

-----------------------------------------------------------------------------
(***************************************************************************)
(* ApproveSubmission and RejectSubmission look at the status in the        *)
(* transaction that locks the row: however many moderators there are, a    *)
(* submission becomes one place at most, and one if and only if it was     *)
(* approved.                                                               *)
(***************************************************************************)
THEOREM PlaceCorrect ==
    ASSUME Photos!LimitsAssumption, Photos!SubmissionsAssumption
    PROVE  Photos!Spec => []Photos!OnePlace
<1>1. SubmissionInv => Photos!OnePlace
  BY DEF SubmissionInv, PlaceInv, Photos!OnePlace
<1>2. QED
  BY <1>1, SubmissionInit, SubmissionStep, PTL DEF Photos!Spec

(***************************************************************************)
(* handleSubmitPlace counts long before Submit inserts: the queue and the  *)
(* last hour of every submitter exceed their limits, and by less than the  *)
(* handlers under way at once, whatever the limits.                        *)
(***************************************************************************)
THEOREM LimitsCorrect ==
    ASSUME Photos!LimitsAssumption, Photos!SubmissionsAssumption
    PROVE  Photos!Spec => []Photos!LimitsBounded
<1>1. ASSUME SubmissionInv PROVE Photos!LimitsBounded
  <2>1. Pending \subseteq Queue /\ \A h : Recent(h) \subseteq Quota(h)
    BY DEF Pending, Queue, Recent, Quota
  <2>2. IsFiniteSet(Queue) /\ \A h : IsFiniteSet(Quota(h))
    BY FS_Subset, PhotosCounts DEF Photos!SubmissionsAssumption, Queue, Quota
  <2>3. Cardinality(Pending) <= MaxPending + MaxHandlers - 1
    BY <1>1, <2>1, <2>2, Smaller
       DEF SubmissionInv, RoomInv, Photos!LimitsAssumption
  <2>4. ASSUME NEW h \in Hints
        PROVE  Cardinality(Recent(h)) <= MaxPerHour + MaxHandlers - 1
    BY <1>1, <2>1, <2>2, Smaller
       DEF SubmissionInv, RoomInv, Photos!LimitsAssumption
  <2>5. QED
    BY <2>3, <2>4, PhotosCounts
       DEF Photos!LimitsBounded, Photos!Tally, Pending, Recent
<1>2. QED
  BY <1>1, SubmissionInit, SubmissionStep, PTL DEF Photos!Spec
-----------------------------------------------------------------------------
(***************************************************************************)
(* The keys of a submission.                                               *)
(***************************************************************************)
LEMMA KeysFacts ==
    ASSUME NEW s, NEW n \in 0 .. MaxPhotos, MaxPhotos \in Nat
    PROVE  /\ \A k \in Photos!KeysOf(s, n) : k[1] = s
           /\ s \in Submissions => Photos!KeysOf(s, n) \subseteq Photos!Keys
           /\ Photos!KeysOf(s, 0) = {}
           /\ Photos!KeysOf(s, n + 1) = Photos!KeysOf(s, n) \cup {<<s, n>>}
<1>1. 0 .. (n + 1) - 1 = 0 .. n /\ 0 .. n = (0 .. n - 1) \cup {n}
  OBVIOUS
<1>2. Photos!KeysOf(s, n + 1) = {s} \X ((0 .. n - 1) \cup {n})
  BY <1>1 DEF Photos!KeysOf
<1>3. {s} \X ((0 .. n - 1) \cup {n}) = ({s} \X (0 .. n - 1)) \cup {<<s, n>>}
  OBVIOUS
<1>4. Photos!KeysOf(s, 0) = {}
  BY DEF Photos!KeysOf
<1>5. \A k \in Photos!KeysOf(s, n) : k[1] = s
  BY DEF Photos!KeysOf
<1>6. s \in Submissions => Photos!KeysOf(s, n) \subseteq Photos!Keys
  BY DEF Photos!KeysOf, Photos!Keys, Photos!Positions
<1>7. QED
  BY <1>2, <1>3, <1>4, <1>5, <1>6 DEF Photos!KeysOf

LEMMA KeyIsPair ==
    ASSUME NEW k \in Photos!Keys
    PROVE  k[1] \in Submissions /\ k[2] \in Photos!Positions /\ k = <<k[1], k[2]>>
BY DEF Photos!Keys

\* How many positions come before one: as many as its place in their order.
LEMMA BeforeGrows ==
    ASSUME NEW kept \in SUBSET Photos!Positions, MaxPhotos \in Nat
    PROVE  /\ IsFiniteSet(kept) /\ kept \subseteq Int
           /\ Cardinality(kept) \in Nat
           /\ \A p \in kept : Photos!Before(p, kept) \in 0 .. Cardinality(kept) - 1
           /\ \A p, q \in kept : p < q => Photos!Before(p, kept) < Photos!Before(q, kept)
<1> DEFINE n == Cardinality(kept)
<1> DEFINE below(p) == {q \in kept : q < p}
<1>1. IsFiniteSet(kept) /\ kept \subseteq Int /\ n \in Nat
  <2>1. IsFiniteSet(Photos!Positions) /\ Photos!Positions \subseteq Int
    BY FS_Interval DEF Photos!Positions
  <2>2. QED
    BY <2>1, FS_Subset, FS_CardinalityType
<1>2. ASSUME NEW p \in kept, NEW T \in SUBSET kept, below(p) \subseteq T, p \in T
      PROVE  /\ Photos!Before(p, kept) \in Nat
             /\ Photos!Before(p, kept) < Cardinality(T)
  <2>0. p \notin below(p) /\ below(p) \in SUBSET kept /\ below(p) \in SUBSET T
    BY <1>1, <1>2
  <2>1. IsFiniteSet(T) /\ IsFiniteSet(below(p)) /\ below(p) # T
    BY <1>1, <1>2, <2>0, FS_Subset
  <2>2. /\ Cardinality(below(p)) <= Cardinality(T)
        /\ Cardinality(T) = Cardinality(below(p)) => T = below(p)
    BY <2>0, <2>1, FS_Subset
  <2>3. Cardinality(below(p)) \in Nat /\ Cardinality(T) \in Nat
    BY <2>1, FS_CardinalityType
  <2>4. Photos!Before(p, kept) = Cardinality(below(p))
    BY PhotosCounts DEF Photos!Before
  <2>5. QED
    BY <2>1, <2>2, <2>3, <2>4
<1>3. \A p \in kept : Photos!Before(p, kept) \in 0 .. n - 1
  <2> SUFFICES ASSUME NEW p \in kept PROVE Photos!Before(p, kept) \in 0 .. n - 1
    OBVIOUS
  <2>1. Photos!Before(p, kept) \in Nat /\ Photos!Before(p, kept) < n
    BY <1>2
  <2>2. QED
    BY <1>1, <2>1
<1>4. \A p, q \in kept : p < q => Photos!Before(p, kept) < Photos!Before(q, kept)
  <2> SUFFICES ASSUME NEW p \in kept, NEW q \in kept, p < q
               PROVE  Photos!Before(p, kept) < Photos!Before(q, kept)
    OBVIOUS
  <2>1. below(p) \subseteq below(q) /\ p \in below(q) /\ below(q) \subseteq kept
    <3>1. p \in Int /\ q \in Int /\ \A x \in kept : x \in Int
      BY <1>1
    <3>2. \A x \in kept : x < p => x < q
      BY <3>1
    <3>3. QED
      BY <3>2
  <2>2. Photos!Before(p, kept) < Cardinality(below(q))
    BY <1>2, <2>1
  <2>3. Photos!Before(q, kept) = Cardinality(below(q))
    BY PhotosCounts DEF Photos!Before
  <2>4. QED
    BY <2>2, <2>3
<1>5. QED
  BY <1>1, <1>3, <1>4

\* Positions are taken in order: as many come before each as its index says.
LEMMA Ranked ==
    ASSUME NEW kept \in SUBSET Photos!Positions, NEW i \in 1 .. Cardinality(kept),
           MaxPhotos \in Nat
    PROVE  \E p \in kept : Photos!Before(p, kept) = i - 1
<1> DEFINE n == Cardinality(kept)
<1> DEFINE rank == [p \in kept |-> Photos!Before(p, kept)]
<1>1. IsFiniteSet(kept) /\ kept \subseteq Int /\ n \in Nat
  BY BeforeGrows
<1>3. \A p \in kept : rank[p] \in 0 .. n - 1
  BY BeforeGrows
<1>4. \A p, q \in kept : p < q => rank[p] < rank[q]
  BY BeforeGrows
<1> HIDE DEF rank
<1>5. rank \in [kept -> 0 .. n - 1]
  <2>1. DOMAIN rank = kept /\ rank = [p \in kept |-> rank[p]]
    BY DEF rank
  <2>2. QED
    BY <1>3, <2>1
<1>6. rank \in Injection(kept, 0 .. n - 1)
  <2>1. \A p, q \in kept : rank[p] = rank[q] => p = q
    BY <1>1, <1>3, <1>4
  <2>2. QED
    BY <1>5, <2>1 DEF Injection, IsInjective
<1>7. IsFiniteSet(0 .. n - 1) /\ Cardinality(0 .. n - 1) = n
  <2>1. n - 1 \in Int /\ 0 \in Int /\ (n - 1) - 0 + 1 = n
        /\ (0 > n - 1 => n = 0)
    BY <1>1
  <2> HIDE DEF n
  <2>2. QED
    BY <2>1, FS_Interval
<1>8. rank \in Surjection(kept, 0 .. n - 1)
  BY <1>6, <1>7, FS_Injection
<1>9. \E p \in kept : rank[p] = i - 1
  BY <1>1, <1>8 DEF Surjection
<1>10. QED
  BY <1>9 DEF rank

\* The gallery made of the positions kept: each of them once, nothing else.
LEMMA InOrderKeeps ==
    ASSUME NEW s, NEW kept \in SUBSET Photos!Positions, MaxPhotos \in Nat
    PROVE  /\ Photos!InOrder(s, kept) \in Seq({s} \X kept)
           /\ Photos!ToSet(Photos!InOrder(s, kept)) = {s} \X kept
           /\ Photos!IsInjective(Photos!InOrder(s, kept))
<1> DEFINE n == Cardinality(kept)
<1> DEFINE at(i) == CHOOSE p \in kept : Photos!Before(p, kept) = i - 1
<1>1. IsFiniteSet(kept) /\ kept \subseteq Int /\ n \in Nat
  BY BeforeGrows
<1>2. \A i \in 1 .. n : at(i) \in kept /\ Photos!Before(at(i), kept) = i - 1
  BY Ranked
<1>3. ASSUME NEW p \in kept
      PROVE  \E i \in 1 .. n : at(i) = p
  <2>1. Photos!Before(p, kept) \in 0 .. n - 1
    BY BeforeGrows
  <2>2. PICK i \in 1 .. n : Photos!Before(p, kept) = i - 1
    <3>1. Photos!Before(p, kept) + 1 \in 1 .. n
      BY <1>1, <2>1
    <3>2. QED
      BY <2>1, <3>1
  <2>3. at(i) \in kept /\ Photos!Before(at(i), kept) = Photos!Before(p, kept)
    BY <1>2, <2>2
  <2> HIDE DEF at
  <2>4. \A x \in kept, y \in kept :
           /\ Photos!Before(x, kept) \in Int /\ x \in Int
           /\ x < y => Photos!Before(x, kept) < Photos!Before(y, kept)
    BY BeforeGrows
  <2>5. at(i) = p
    BY <2>3, <2>4
  <2>6. QED
    BY <2>5
<1> HIDE DEF at
<1>4. Photos!InOrder(s, kept) = [i \in 1 .. n |-> <<s, at(i)>>]
  BY PhotosCounts DEF Photos!InOrder, at
<1> HIDE DEF n
<1>5. \A i \in 1 .. n : <<s, at(i)>> \in {s} \X kept
  BY <1>2
<1>6. Photos!InOrder(s, kept) \in [1 .. n -> {s} \X kept]
  BY <1>4, <1>5
<1>7. Photos!InOrder(s, kept) \in Seq({s} \X kept)
  BY <1>1, <1>6
<1>8. DOMAIN Photos!InOrder(s, kept) = 1 .. n
      /\ \A i \in 1 .. n : Photos!InOrder(s, kept)[i] = <<s, at(i)>>
  BY <1>4
<1>9. Photos!ToSet(Photos!InOrder(s, kept)) = {s} \X kept
  <2>1. ASSUME NEW k \in {s} \X kept
        PROVE  k \in Photos!ToSet(Photos!InOrder(s, kept))
    <3>1. PICK p \in kept : k = <<s, p>>
      OBVIOUS
    <3>2. PICK i \in 1 .. n : at(i) = p
      BY <1>3
    <3>3. QED
      BY <1>8, <3>1, <3>2 DEF Photos!ToSet
  <2>2. ASSUME NEW k \in Photos!ToSet(Photos!InOrder(s, kept))
        PROVE  k \in {s} \X kept
    <3>1. PICK i \in 1 .. n : k = Photos!InOrder(s, kept)[i]
      BY <1>8 DEF Photos!ToSet
    <3>2. k = <<s, at(i)>>
      BY <1>8, <3>1
    <3>3. QED
      BY <1>5, <3>2
  <2>3. QED
    BY <2>1, <2>2
<1>10. Photos!IsInjective(Photos!InOrder(s, kept))
  <2>1. ASSUME NEW i \in 1 .. n, NEW j \in 1 .. n, at(i) = at(j) PROVE i = j
    <3>1. i - 1 = Photos!Before(at(i), kept) /\ j - 1 = Photos!Before(at(j), kept)
      BY <1>2
    <3>2. i - 1 = j - 1
      BY <2>1, <3>1
    <3>3. QED
      BY <1>1, <3>2
  <2>2. QED
    BY <1>8, <2>1 DEF Photos!IsInjective
<1>11. QED
  BY <1>7, <1>9, <1>10

-----------------------------------------------------------------------------
(***************************************************************************)
(* Types, with what keeps the number of photos uploaded within those sent: *)
(* a handler uploads none before it has passed both checks.                *)
(***************************************************************************)
PhotoTypeInv ==
    /\ Photos!TypeOK
    /\ DOMAIN uploaded = Submissions /\ DOMAIN gallery = Submissions
    /\ \A s \in Submissions : pc[s] \in {"new", "counted"} => uploaded[s] = 0

LEMMA PhotoTypeInit ==
    ASSUME Photos!LimitsAssumption PROVE Photos!Init => PhotoTypeInv
<1> SUFFICES ASSUME Photos!Init PROVE PhotoTypeInv
  OBVIOUS
<1>1. <<>> \in Seq(Photos!Keys)
  OBVIOUS
<1>2. QED
  BY <1>1 DEF Photos!Init, PhotoTypeInv, Photos!TypeOK, Photos!LimitsAssumption

LEMMA PhotoTypeUnchanged ==
    ASSUME PhotoTypeInv, UNCHANGED Photos!vars PROVE PhotoTypeInv'
BY DEF PhotoTypeInv, Photos!TypeOK, Photos!vars, Photos!handlerVars,
       Photos!tableVars, Photos!seen, Photos!Keys, Photos!Positions

\* The photos uploaded are keys, and so is the next while some are missing.
LEMMA UploadedKeys ==
    ASSUME PhotoTypeInv, Photos!LimitsAssumption, NEW s \in Submissions
    PROVE  /\ uploaded[s] \in 0 .. MaxPhotos /\ photos[s] \in 0 .. MaxPhotos
           /\ Photos!KeysOf(s, uploaded[s]) \subseteq Photos!Keys
           /\ Photos!KeysOf(s, photos[s]) \subseteq Photos!Keys
           /\ uploaded[s] < photos[s] => Photos!NextKey(s) \in Photos!Keys
<1>1. /\ uploaded[s] \in 0 .. photos[s] /\ photos[s] \in 0 .. MaxPhotos
      /\ MaxPhotos \in Nat
  BY DEF PhotoTypeInv, Photos!TypeOK, Photos!LimitsAssumption
<1>2. uploaded[s] \in 0 .. MaxPhotos /\ photos[s] \in 0 .. MaxPhotos
  BY <1>1
<1>3. uploaded[s] < photos[s] => uploaded[s] \in Photos!Positions
  BY <1>1 DEF Photos!Positions
<1>4. QED
  BY <1>1, <1>2, <1>3, KeysFacts DEF Photos!NextKey, Photos!Keys

LEMMA PhotoTypeHandler ==
    ASSUME PhotoTypeInv, Photos!LimitsAssumption, Photos!PhotoCountsAssumption,
           NEW s \in Submissions, Photos!HandlerStep(s)
    PROVE  PhotoTypeInv'
<1> USE DEF Photos!Goto, Photos!handlerVars, Photos!tableVars, Photos!seen
<1>1. CASE Photos!CountRecent(s)
  <2>1. PICK k \in 0 .. MaxPhotos : photos' = [photos EXCEPT ![s] = k]
    BY <1>1 DEF Photos!CountRecent, Photos!PhotoCountsAssumption
  <2>2. PICK where \in {"refused", "counted"} : pc' = [pc EXCEPT ![s] = where]
    BY <1>1 DEF Photos!CountRecent
  <2>3. /\ pc[s] = "new"
        /\ UNCHANGED <<uploaded, status, quarantine, place, gallery, recent,
                       objects, cleanup, lies, places, forgotten>>
    BY <1>1 DEF Photos!CountRecent
  <2>4. uploaded[s] = 0 /\ MaxPhotos \in Nat
    BY <2>3 DEF PhotoTypeInv, Photos!LimitsAssumption
  <2>5. photos' \in [Submissions -> 0 .. MaxPhotos]
    BY <2>1 DEF PhotoTypeInv, Photos!TypeOK
  <2>6. \A r \in Submissions : uploaded'[r] \in 0 .. photos'[r]
    BY <2>1, <2>3, <2>4 DEF PhotoTypeInv, Photos!TypeOK
  <2>7. pc' \in [Submissions -> {"new", "counted", "upload", "undo",
                                 "refused", "done"}]
    BY <2>2 DEF PhotoTypeInv, Photos!TypeOK
  <2>8. \A r \in Submissions : pc'[r] \in {"new", "counted"} => uploaded'[r] = 0
    BY <2>2, <2>3, <2>4 DEF PhotoTypeInv, Photos!TypeOK
  <2>9. QED
    BY <2>3, <2>5, <2>6, <2>7, <2>8 DEF PhotoTypeInv, Photos!TypeOK
<1>2. ASSUME NEW where \in {"upload", "undo", "refused", "done"},
             Photos!Goto(s, where),
             UNCHANGED <<photos, uploaded, place, gallery, cleanup, places>>,
             status' \in [Submissions -> {"absent", "pending", "approved", "rejected"}],
             recent' \in [Submissions -> BOOLEAN],
             quarantine' \subseteq Photos!Keys, objects' \subseteq Photos!Keys,
             lies' \in 0 .. MaxLies, forgotten' \subseteq Photos!Keys
      PROVE  PhotoTypeInv'
  <2>1. pc' \in [Submissions -> {"new", "counted", "upload", "undo",
                                 "refused", "done"}]
    BY <1>2 DEF PhotoTypeInv, Photos!TypeOK
  <2>2. \A r \in Submissions : pc'[r] \in {"new", "counted"} => uploaded'[r] = 0
    BY <1>2 DEF PhotoTypeInv, Photos!TypeOK
  <2>3. QED
    BY <1>2, <2>1, <2>2 DEF PhotoTypeInv, Photos!TypeOK
<1>3. /\ status \in [Submissions -> {"absent", "pending", "approved", "rejected"}]
      /\ recent \in [Submissions -> BOOLEAN]
      /\ quarantine \subseteq Photos!Keys /\ objects \subseteq Photos!Keys
      /\ lies \in 0 .. MaxLies /\ forgotten \subseteq Photos!Keys
      /\ MaxLies \in Nat
  BY DEF PhotoTypeInv, Photos!TypeOK, Photos!LimitsAssumption
<1>4. CASE \/ Photos!CountPending(s) \/ Photos!GivesUp(s)
           \/ Photos!UploadFails(s) \/ Photos!CommitFails(s)
  <2>1. \E where \in {"upload", "undo", "refused", "done"} : Photos!Goto(s, where)
    BY <1>4 DEF Photos!CountPending, Photos!GivesUp, Photos!UploadFails,
           Photos!CommitFails
  <2>2. UNCHANGED <<photos, uploaded, place, gallery, cleanup, places, status,
                    recent, quarantine, objects, lies, forgotten>>
    BY <1>4 DEF Photos!CountPending, Photos!GivesUp, Photos!UploadFails,
           Photos!CommitFails
  <2>3. QED
    BY <1>2, <1>3, <2>1, <2>2
<1>5. CASE Photos!Upload(s)
  <2>1. /\ uploaded[s] < photos[s] /\ pc[s] = "upload"
        /\ objects' = objects \cup {Photos!NextKey(s)}
        /\ uploaded' = [uploaded EXCEPT ![s] = @ + 1]
        /\ UNCHANGED <<pc, photos, place, gallery, cleanup, places, status,
                       recent, quarantine, lies, forgotten>>
    BY <1>5 DEF Photos!Upload, Photos!Uploading
  <2>2. objects' \subseteq Photos!Keys
    BY <1>3, <2>1, UploadedKeys
  <2>3. \A r \in Submissions : uploaded'[r] \in 0 .. photos'[r]
    BY <2>1 DEF PhotoTypeInv, Photos!TypeOK
  <2>4. \A r \in Submissions : pc'[r] \in {"new", "counted"} => uploaded'[r] = 0
    BY <2>1 DEF PhotoTypeInv, Photos!TypeOK
  <2>5. DOMAIN uploaded' = Submissions
    BY <2>1 DEF PhotoTypeInv
  <2>6. QED
    BY <2>1, <2>2, <2>3, <2>4, <2>5 DEF PhotoTypeInv, Photos!TypeOK
<1>6. CASE Photos!UploadLies(s)
  <2>1. /\ uploaded[s] < photos[s] /\ lies < MaxLies /\ lies' = lies + 1
        /\ objects' = objects \cup {Photos!NextKey(s)}
        /\ forgotten' = forgotten \cup {Photos!NextKey(s)}
        /\ Photos!Goto(s, "undo")
        /\ UNCHANGED <<photos, uploaded, place, gallery, cleanup, places,
                       status, recent, quarantine>>
    BY <1>6 DEF Photos!UploadLies, Photos!Uploading
  <2>2. objects' \subseteq Photos!Keys /\ forgotten' \subseteq Photos!Keys
    BY <1>3, <2>1, UploadedKeys
  <2>3. lies' \in 0 .. MaxLies
    BY <1>3, <2>1
  <2> HIDE DEF Photos!Goto
  <2>4. QED
    BY <1>2, <1>3, <2>1, <2>2, <2>3
<1>7. CASE Photos!Commit(s) \/ Photos!CommitLies(s)
  <2>1. PICK where \in {"undo", "done"} : Photos!Goto(s, where)
    BY <1>7 DEF Photos!Commit, Photos!CommitLies
  <2>2. lies' \in 0 .. MaxLies
    BY <1>3, <1>7 DEF Photos!Commit, Photos!CommitLies
  <2>3. /\ status' = [status EXCEPT ![s] = "pending"]
        /\ recent' = [recent EXCEPT ![s] = TRUE]
        /\ quarantine' = quarantine \cup Photos!KeysOf(s, photos[s])
        /\ UNCHANGED <<photos, uploaded, place, gallery, objects, cleanup,
                       places, forgotten>>
    BY <1>7 DEF Photos!Commit, Photos!CommitLies, Photos!Stored
  <2>4. /\ status' \in [Submissions -> {"absent", "pending", "approved", "rejected"}]
        /\ recent' \in [Submissions -> BOOLEAN]
    BY <1>3, <2>3
  <2>5. quarantine' \subseteq Photos!Keys
    BY <1>3, <2>3, UploadedKeys
  <2> HIDE DEF Photos!Goto
  <2>6. QED
    BY <1>2, <1>3, <2>1, <2>2, <2>3, <2>4, <2>5
<1>8. CASE Photos!Undo(s) \/ Photos!HandlerLost(s)
  <2>1. /\ Photos!Goto(s, "refused")
        /\ UNCHANGED <<photos, uploaded, place, gallery, cleanup, places,
                       status, recent, quarantine, lies>>
    BY <1>8 DEF Photos!Undo, Photos!HandlerLost
  <2>2. /\ objects' \subseteq Photos!Keys /\ forgotten' \subseteq Photos!Keys
    BY <1>3, <1>8, UploadedKeys DEF Photos!Undo, Photos!HandlerLost
  <2> HIDE DEF Photos!Goto
  <2>3. QED
    BY <1>2, <1>3, <2>1, <2>2
<1>9. QED
  BY <1>1, <1>4, <1>5, <1>6, <1>7, <1>8 DEF Photos!HandlerStep

Rows(s) == {k \in quarantine : k[1] = s}

\* ApproveSubmission moves the rows kept to the gallery, each of them once.
LEMMA ApproveMoves ==
    ASSUME PhotoTypeInv, Photos!LimitsAssumption, NEW s \in Submissions,
           NEW keep \in SUBSET Photos!Positions, Photos!Approve(s, keep)
    PROVE  /\ DOMAIN gallery' = Submissions
           /\ \A r \in Submissions \ {s} : gallery'[r] = gallery[r]
           /\ gallery'[s] \in Seq(Photos!Keys) /\ Photos!IsInjective(gallery'[s])
           /\ Photos!ToSet(gallery'[s]) = {k \in Rows(s) : k[2] \in keep}
<1> DEFINE kept == {k[2] : k \in Rows(s)} \cap keep
<1>1. /\ gallery' = [gallery EXCEPT ![s] = Photos!InOrder(s, kept)]
      /\ DOMAIN gallery = Submissions /\ quarantine \subseteq Photos!Keys
      /\ MaxPhotos \in Nat
  BY DEF Photos!Approve, Rows, PhotoTypeInv, Photos!TypeOK,
         Photos!LimitsAssumption
<1>2. kept \in SUBSET Photos!Positions
  OBVIOUS
<1>3. /\ Photos!InOrder(s, kept) \in Seq({s} \X kept)
      /\ Photos!ToSet(Photos!InOrder(s, kept)) = {s} \X kept
      /\ Photos!IsInjective(Photos!InOrder(s, kept))
  BY <1>1, <1>2, InOrderKeeps
<1>4. {s} \X kept = {k \in Rows(s) : k[2] \in keep}
  <2>1. ASSUME NEW k \in {s} \X kept PROVE k \in Rows(s) /\ k[2] \in keep
    <3>1. PICK p \in kept : k = <<s, p>>
      OBVIOUS
    <3>2. PICK j \in Rows(s) : j[2] = p
      BY <3>1
    <3>3. j = <<s, p>> /\ p \in keep
      BY <1>1, <3>1, <3>2, KeyIsPair DEF Rows
    <3>4. QED
      BY <3>1, <3>2, <3>3
  <2>2. ASSUME NEW k \in Rows(s), k[2] \in keep PROVE k \in {s} \X kept
    <3>1. k = <<s, k[2]>>
      BY <1>1, KeyIsPair DEF Rows
    <3>2. k[2] \in kept
      BY <2>2
    <3>3. QED
      BY <3>1, <3>2
  <2>3. QED
    BY <2>1, <2>2
<1>5. {s} \X kept \subseteq Photos!Keys
  BY <1>1, <1>4 DEF Rows
<1> HIDE DEF kept
<1>6. Photos!InOrder(s, kept) \in Seq(Photos!Keys)
  BY <1>3, <1>5
<1>7. QED
  BY <1>1, <1>3, <1>4, <1>6

\* The photos of a deleted place.
LEMMA GalleryKeys ==
    ASSUME PhotoTypeInv, NEW s \in Submissions
    PROVE  Photos!ToSet(gallery[s]) \subseteq Photos!Keys
<1>1. gallery[s] \in Seq(Photos!Keys)
  BY DEF PhotoTypeInv, Photos!TypeOK
<1>2. QED
  BY <1>1 DEF Photos!ToSet

LEMMA EmptyGallery == Photos!ToSet(<<>>) = {} /\ Photos!IsInjective(<<>>)
BY DEF Photos!ToSet, Photos!IsInjective

LEMMA PhotoTypeModeration ==
    ASSUME PhotoTypeInv, Photos!LimitsAssumption, NEW s \in Submissions,
           Photos!ModerationStep(s)
    PROVE  PhotoTypeInv'
<1> USE DEF Photos!handlerVars, Photos!tableVars, Photos!seen
<1>1. /\ quarantine \subseteq Photos!Keys /\ objects \subseteq Photos!Keys
      /\ forgotten \subseteq Photos!Keys
      /\ cleanup \in [Submissions -> SUBSET Photos!Keys]
  BY DEF PhotoTypeInv, Photos!TypeOK
<1>2. ASSUME NEW keep \in SUBSET Photos!Positions, Photos!Approve(s, keep)
      PROVE  PhotoTypeInv'
  <2>1. /\ status' = [status EXCEPT ![s] = "approved"]
        /\ place' = [place EXCEPT ![s] = "live"]
        /\ places' = [places EXCEPT ![s] = @ + 1]
        /\ quarantine' = quarantine \ Rows(s)
        /\ cleanup' = [cleanup EXCEPT ![s] =
                          @ \cup {k \in Rows(s) : k[2] \notin keep}]
        /\ UNCHANGED <<pc, photos, uploaded, recent, objects, lies, forgotten>>
    BY <1>2 DEF Photos!Approve, Rows
  <2>2. /\ DOMAIN gallery' = Submissions
        /\ \A r \in Submissions : gallery'[r] \in Seq(Photos!Keys)
    BY <1>2, ApproveMoves DEF PhotoTypeInv, Photos!TypeOK
  <2>3. /\ quarantine' \subseteq Photos!Keys
        /\ cleanup' \in [Submissions -> SUBSET Photos!Keys]
    BY <1>1, <2>1 DEF Rows
  <2>4. QED
    BY <2>1, <2>2, <2>3 DEF PhotoTypeInv, Photos!TypeOK
<1>3. CASE Photos!Reject(s)
  <2>1. /\ status' = [status EXCEPT ![s] = "rejected"]
        /\ quarantine' = quarantine \ Rows(s)
        /\ cleanup' = [cleanup EXCEPT ![s] = @ \cup Rows(s)]
        /\ UNCHANGED <<pc, photos, uploaded, recent, place, gallery, objects,
                       lies, places, forgotten>>
    BY <1>3 DEF Photos!Reject, Rows
  <2>2. /\ quarantine' \subseteq Photos!Keys
        /\ cleanup' \in [Submissions -> SUBSET Photos!Keys]
    BY <1>1, <2>1 DEF Rows
  <2>3. QED
    BY <2>1, <2>2 DEF PhotoTypeInv, Photos!TypeOK
<1>4. CASE Photos!DeletePlace(s)
  <2>1. /\ place' = [place EXCEPT ![s] = "deleted"]
        /\ gallery' = [gallery EXCEPT ![s] = <<>>]
        /\ cleanup' = [cleanup EXCEPT ![s] = @ \cup Photos!ToSet(gallery[s])]
        /\ UNCHANGED <<pc, photos, uploaded, recent, status, quarantine,
                       objects, lies, places, forgotten>>
    BY <1>4 DEF Photos!DeletePlace
  <2>2. cleanup' \in [Submissions -> SUBSET Photos!Keys]
    BY <1>1, <2>1, GalleryKeys
  <2>3. <<>> \in Seq(Photos!Keys)
    OBVIOUS
  <2>4. QED
    BY <2>1, <2>2, <2>3 DEF PhotoTypeInv, Photos!TypeOK
<1>5. CASE Photos!Cleans(s) \/ Photos!CleanupLost(s)
  <2>1. /\ cleanup' = [cleanup EXCEPT ![s] = {}]
        /\ objects' \subseteq objects
        /\ forgotten' \subseteq forgotten \cup cleanup[s]
        /\ UNCHANGED <<pc, photos, uploaded, status, quarantine, place, gallery,
                       recent, lies, places>>
    BY <1>5 DEF Photos!Cleans, Photos!CleanupLost
  <2>2. /\ cleanup' \in [Submissions -> SUBSET Photos!Keys]
        /\ objects' \subseteq Photos!Keys /\ forgotten' \subseteq Photos!Keys
    BY <1>1, <2>1
  <2>3. QED
    BY <2>1, <2>2 DEF PhotoTypeInv, Photos!TypeOK
<1>6. QED
  BY <1>2, <1>3, <1>4, <1>5 DEF Photos!ModerationStep

LEMMA PhotoTypeStep ==
    ASSUME Photos!LimitsAssumption, Photos!PhotoCountsAssumption
    PROVE  PhotoTypeInv /\ [Photos!Next]_Photos!vars => PhotoTypeInv'
<1> SUFFICES ASSUME PhotoTypeInv, [Photos!Next]_Photos!vars PROVE PhotoTypeInv'
  OBVIOUS
<1>1. ASSUME NEW s \in Submissions, Photos!Ages(s) PROVE PhotoTypeInv'
  BY <1>1 DEF Photos!Ages, Photos!handlerVars, Photos!tableVars, Photos!seen,
         PhotoTypeInv, Photos!TypeOK
<1>2. QED
  BY <1>1, PhotoTypeUnchanged, PhotoTypeHandler, PhotoTypeModeration
     DEF Photos!Next

-----------------------------------------------------------------------------
(***************************************************************************)
(* Where the keys of a submission are, by its status: in quarantine while  *)
(* it is pending, in its gallery once it was approved, and with a          *)
(* moderation that has to delete them after that; never in two of these.   *)
(***************************************************************************)
PhotoInv ==
    \A s \in Submissions :
        /\ status[s] \in {"absent", "pending"} => cleanup[s] = {}
        /\ status[s] # "approved" => gallery[s] = <<>>
        /\ status[s] # "pending" => Rows(s) = {}
        /\ \A k \in Photos!ToSet(gallery[s]) \cup cleanup[s] : k[1] = s
        /\ Photos!ToSet(gallery[s]) \cap cleanup[s] = {}
        /\ Photos!IsInjective(gallery[s])

LEMMA PhotoInit == Photos!Init => PhotoInv
BY EmptyGallery DEF Photos!Init, PhotoInv, Rows

\* Nobody moderates and nothing is stored.
LEMMA PhotoRest ==
    ASSUME PhotoInv, UNCHANGED <<status, quarantine, gallery, cleanup>>
    PROVE  PhotoInv'
BY DEF PhotoInv, Rows

\* What a step does to one submission only.
LEMMA PhotoOne ==
    ASSUME PhotoInv, NEW s \in Submissions,
           \A r \in Submissions \ {s} :
              /\ status'[r] = status[r] /\ gallery'[r] = gallery[r]
              /\ cleanup'[r] = cleanup[r]
              /\ Rows(r)' = Rows(r),
           status'[s] \in {"absent", "pending"} => cleanup'[s] = {},
           status'[s] # "approved" => gallery'[s] = <<>>,
           status'[s] # "pending" => Rows(s)' = {},
           \A k \in Photos!ToSet(gallery'[s]) \cup cleanup'[s] : k[1] = s,
           Photos!ToSet(gallery'[s]) \cap cleanup'[s] = {},
           Photos!IsInjective(gallery'[s])
    PROVE  PhotoInv'
<1> SUFFICES ASSUME NEW r \in Submissions
             PROVE  /\ status'[r] \in {"absent", "pending"} => cleanup'[r] = {}
                    /\ status'[r] # "approved" => gallery'[r] = <<>>
                    /\ status'[r] # "pending" => Rows(r)' = {}
                    /\ \A k \in Photos!ToSet(gallery'[r]) \cup cleanup'[r] : k[1] = r
                    /\ Photos!ToSet(gallery'[r]) \cap cleanup'[r] = {}
                    /\ Photos!IsInjective(gallery'[r])
  BY DEF PhotoInv
<1>1. CASE r = s
  BY <1>1
<1>2. CASE r # s
  BY <1>2 DEF PhotoInv
<1>3. QED
  BY <1>1, <1>2

LEMMA PhotoStored ==
    ASSUME PhotoTypeInv, Photos!LimitsAssumption, PlaceInv, PhotoInv,
           NEW s \in Submissions,
           Photos!Stored(s)
    PROVE  PhotoInv'
<1>1. /\ pc[s] = "upload" /\ status' = [status EXCEPT ![s] = "pending"]
      /\ quarantine' = quarantine \cup Photos!KeysOf(s, photos[s])
      /\ UNCHANGED <<gallery, cleanup>>
      /\ DOMAIN status = Submissions
  BY DEF Photos!Stored, PhotoTypeInv, Photos!TypeOK
<1>2. /\ status[s] = "absent" /\ cleanup[s] = {} /\ gallery[s] = <<>>
      /\ Photos!ToSet(gallery[s]) = {}
  BY <1>1, EmptyGallery DEF PlaceInv, Fresh, PhotoInv
<1>3. \A k \in Photos!KeysOf(s, photos[s]) : k[1] = s
  BY KeysFacts, UploadedKeys DEF Photos!LimitsAssumption
<1>4. \A r \in Submissions \ {s} : Rows(r)' = Rows(r)
  BY <1>1, <1>3 DEF Rows
<1>5. QED
  BY <1>1, <1>2, <1>4, PhotoOne DEF PhotoInv

LEMMA PhotoModeration ==
    ASSUME PhotoTypeInv, Photos!LimitsAssumption, PlaceInv, PhotoInv,
           NEW s \in Submissions,
           Photos!ModerationStep(s)
    PROVE  PhotoInv'
<1>1. /\ DOMAIN status = Submissions /\ DOMAIN gallery = Submissions
      /\ DOMAIN cleanup = Submissions
  BY DEF PhotoTypeInv, Photos!TypeOK
<1>2. ASSUME quarantine' = quarantine \ Rows(s)
      PROVE  Rows(s)' = {} /\ \A r \in Submissions \ {s} : Rows(r)' = Rows(r)
  BY <1>2 DEF Rows
<1>3. ASSUME NEW keep \in SUBSET Photos!Positions, Photos!Approve(s, keep)
      PROVE  PhotoInv'
  <2>1. /\ status[s] = "pending"
        /\ status' = [status EXCEPT ![s] = "approved"]
        /\ quarantine' = quarantine \ Rows(s)
        /\ cleanup' = [cleanup EXCEPT ![s] =
                          @ \cup {k \in Rows(s) : k[2] \notin keep}]
    BY <1>3 DEF Photos!Approve, Rows
  <2>2. cleanup[s] = {}
    BY <2>1 DEF PhotoInv
  <2>3. /\ cleanup'[s] = {k \in Rows(s) : k[2] \notin keep}
        /\ \A r \in Submissions \ {s} : cleanup'[r] = cleanup[r]
    BY <1>1, <2>1, <2>2
  <2>4. /\ \A r \in Submissions \ {s} : gallery'[r] = gallery[r]
        /\ Photos!IsInjective(gallery'[s])
        /\ Photos!ToSet(gallery'[s]) = {k \in Rows(s) : k[2] \in keep}
    BY <1>3, ApproveMoves
  <2>5. /\ \A k \in Photos!ToSet(gallery'[s]) \cup cleanup'[s] : k[1] = s
        /\ Photos!ToSet(gallery'[s]) \cap cleanup'[s] = {}
    BY <2>3, <2>4 DEF Rows
  <2>6. /\ status'[s] = "approved"
        /\ \A r \in Submissions \ {s} : status'[r] = status[r]
    BY <1>1, <2>1
  <2>7. QED
    BY <1>2, <2>1, <2>3, <2>4, <2>5, <2>6, PhotoOne
<1>4. CASE Photos!Reject(s)
  <2>1. /\ status[s] = "pending" /\ UNCHANGED gallery
        /\ status' = [status EXCEPT ![s] = "rejected"]
        /\ quarantine' = quarantine \ Rows(s)
        /\ cleanup' = [cleanup EXCEPT ![s] = @ \cup Rows(s)]
    BY <1>4 DEF Photos!Reject, Rows, Photos!tableVars
  <2>2. cleanup[s] = {} /\ gallery[s] = <<>> /\ Photos!IsInjective(gallery[s])
    BY <2>1 DEF PhotoInv
  <2>3. /\ cleanup'[s] = Rows(s) /\ status'[s] = "rejected"
        /\ \A r \in Submissions \ {s} : /\ cleanup'[r] = cleanup[r]
                                        /\ status'[r] = status[r]
    BY <1>1, <2>1, <2>2
  <2>4. /\ \A k \in Photos!ToSet(gallery'[s]) \cup cleanup'[s] : k[1] = s
        /\ Photos!ToSet(gallery'[s]) \cap cleanup'[s] = {}
    BY <2>1, <2>2, <2>3, EmptyGallery DEF Rows
  <2>5. QED
    BY <1>2, <2>1, <2>2, <2>3, <2>4, PhotoOne
<1>5. CASE Photos!DeletePlace(s)
  <2>1. /\ place[s] = "live" /\ UNCHANGED <<status, quarantine>>
        /\ gallery' = [gallery EXCEPT ![s] = <<>>]
        /\ cleanup' = [cleanup EXCEPT ![s] = @ \cup Photos!ToSet(gallery[s])]
    BY <1>5 DEF Photos!DeletePlace
  <2>2. status[s] = "approved"
    BY <2>1 DEF PlaceInv
  <2>3. /\ gallery'[s] = <<>> /\ cleanup'[s] = cleanup[s] \cup Photos!ToSet(gallery[s])
        /\ \A r \in Submissions \ {s} : /\ cleanup'[r] = cleanup[r]
                                        /\ gallery'[r] = gallery[r]
    BY <1>1, <2>1
  <2>4. /\ Rows(s) = {} /\ \A r \in Submissions : Rows(r)' = Rows(r)
        /\ \A k \in Photos!ToSet(gallery[s]) \cup cleanup[s] : k[1] = s
    BY <2>1, <2>2 DEF PhotoInv, Rows
  <2>5. /\ \A k \in Photos!ToSet(gallery'[s]) \cup cleanup'[s] : k[1] = s
        /\ Photos!ToSet(gallery'[s]) \cap cleanup'[s] = {}
        /\ Photos!IsInjective(gallery'[s])
    BY <2>3, <2>4, EmptyGallery
  <2>6. QED
    BY <2>1, <2>2, <2>3, <2>4, <2>5, PhotoOne
<1>6. CASE Photos!Cleans(s) \/ Photos!CleanupLost(s)
  <2>1. /\ cleanup' = [cleanup EXCEPT ![s] = {}]
        /\ UNCHANGED <<status, quarantine, gallery>>
    BY <1>6 DEF Photos!Cleans, Photos!CleanupLost, Photos!tableVars
  <2>2. cleanup'[s] = {} /\ \A r \in Submissions \ {s} : cleanup'[r] = cleanup[r]
    BY <1>1, <2>1
  <2>3. \A r \in Submissions : Rows(r)' = Rows(r)
    BY <2>1 DEF Rows
  <2>4. QED
    BY <2>1, <2>2, <2>3, PhotoOne DEF PhotoInv
<1>7. QED
  BY <1>3, <1>4, <1>5, <1>6 DEF Photos!ModerationStep

LEMMA PhotoStep ==
    ASSUME Photos!LimitsAssumption
    PROVE  PhotoTypeInv /\ PlaceInv /\ PhotoInv /\ [Photos!Next]_Photos!vars => PhotoInv'
<1> SUFFICES ASSUME PhotoTypeInv, PlaceInv, PhotoInv, [Photos!Next]_Photos!vars
             PROVE  PhotoInv'
  OBVIOUS
<1> USE DEF Photos!handlerVars, Photos!tableVars, Photos!seen
<1>1. ASSUME NEW s \in Submissions, Photos!HandlerStep(s) PROVE PhotoInv'
  <2>1. CASE Photos!Commit(s) \/ Photos!CommitLies(s)
    BY <2>1, PhotoStored DEF Photos!Commit, Photos!CommitLies
  <2>2. CASE ~(Photos!Commit(s) \/ Photos!CommitLies(s))
    <3>1. UNCHANGED <<status, quarantine, gallery, cleanup>>
      BY <1>1, <2>2 DEF Photos!HandlerStep, Photos!CountRecent,
             Photos!CountPending, Photos!GivesUp, Photos!Upload,
         Photos!UploadFails, Photos!UploadLies, Photos!CommitFails, Photos!Undo, Photos!HandlerLost
    <3>2. QED
      BY <3>1, PhotoRest
  <2>3. QED
    BY <2>1, <2>2
<1>2. ASSUME NEW s \in Submissions, Photos!Ages(s) PROVE PhotoInv'
  BY <1>2, PhotoRest DEF Photos!Ages
<1>3. CASE UNCHANGED Photos!vars
  BY <1>3, PhotoRest DEF Photos!vars
<1>4. QED
  BY <1>1, <1>2, <1>3, PhotoModeration DEF Photos!Next

-----------------------------------------------------------------------------
(***************************************************************************)
(* R2 against the tables.  A handler that still uploads has its photos in  *)
(* R2; one that takes its committed row for a failure still holds them,    *)
(* though a moderator may have moved or deleted them meanwhile.            *)
(***************************************************************************)
Mine(s) == Photos!KeysOf(s, uploaded[s])

\* What a table names is in R2, unless its handler ended in a failure.
PhotosThere ==
    \A k \in Photos!Referenced : k \in objects \/ pc[k[1]] = "refused"

StoreInv ==
    /\ \A s \in Submissions :
          /\ pc[s] = "upload" => Mine(s) \subseteq objects
          /\ pc[s] = "undo" /\ status[s] # "absent" =>
                Mine(s) \cap objects \subseteq Photos!Referenced \cup cleanup[s] \cup forgotten
    /\ PhotosThere
    /\ Photos!NoOrphans

LEMMA StoreInit == Photos!Init => StoreInv
<1> SUFFICES ASSUME Photos!Init PROVE StoreInv
  OBVIOUS
<1>1. Photos!Referenced = {}
  BY EmptyGallery DEF Photos!Init, Photos!Referenced
<1>2. QED
  BY <1>1 DEF Photos!Init, StoreInv, PhotosThere, Photos!NoOrphans

LEMMA MineIs ==
    ASSUME PhotoTypeInv, Photos!LimitsAssumption, NEW s \in Submissions
    PROVE  /\ \A k \in Mine(s) : k[1] = s
           /\ uploaded[s] = 0 => Mine(s) = {}
BY KeysFacts, UploadedKeys DEF Mine, Photos!LimitsAssumption

LEMMA HeldIs ==
    ASSUME NEW k
    PROVE  k \in Photos!Held <=> \E s \in Submissions :
                             \/ pc[s] \in {"upload", "undo"} /\ k \in Mine(s)
                             \/ k \in cleanup[s]
<1> DEFINE mine(s) == IF pc[s] \in {"upload", "undo"}
                      THEN Photos!KeysOf(s, uploaded[s]) ELSE {}
<1>1. k \in Photos!Held <=> \/ k \in UNION {mine(s) : s \in Submissions}
                    \/ k \in UNION {cleanup[s] : s \in Submissions}
  BY Zenon DEF Photos!Held
<1>2. \A s : k \in mine(s) <=> pc[s] \in {"upload", "undo"} /\ k \in Mine(s)
  BY DEF Mine
<1> HIDE DEF mine
<1>3. k \in UNION {mine(s) : s \in Submissions}
         <=> \E s \in Submissions : k \in mine(s)
  BY Zenon
<1>4. k \in UNION {cleanup[s] : s \in Submissions}
         <=> \E s \in Submissions : k \in cleanup[s]
  BY Zenon
<1>5. QED
  BY <1>1, <1>2, <1>3, <1>4

\* What is in somebody's hands after a step.
LEMMA HeldNext ==
    ASSUME NEW k, NEW r \in Submissions,
           \/ pc'[r] \in {"upload", "undo"} /\ k \in Mine(r)'
           \/ k \in cleanup'[r]
    PROVE  k \in Photos!Held'
<1>1. Mine(r)' = Photos!KeysOf(r, uploaded'[r])
  BY DEF Mine
<1>2. CASE k \in cleanup'[r]
  BY <1>2 DEF Photos!Held
<1>3. CASE pc'[r] \in {"upload", "undo"} /\ k \in Photos!KeysOf(r, uploaded'[r])
  <2>1. k \in IF pc'[r] \in {"upload", "undo"}
              THEN Photos!KeysOf(r, uploaded'[r]) ELSE {}
    BY <1>3
  <2>2. k \in UNION {IF pc'[q] \in {"upload", "undo"}
                     THEN Photos!KeysOf(q, uploaded'[q]) ELSE {} : q \in Submissions}
    BY <2>1, Zenon
  <2>3. QED
    BY <2>2, Zenon DEF Photos!Held
<1>4. QED
  BY <1>1, <1>2, <1>3

LEMMA ReferencedIs ==
    ASSUME NEW k
    PROVE  k \in Photos!Referenced <=>
              \/ k \in quarantine
              \/ \E s \in Submissions : k \in Photos!ToSet(gallery[s])
BY DEF Photos!Referenced

\* A key the tables name is of a submission that is stored, and not dropped.
LEMMA NamedKey ==
    ASSUME PhotoTypeInv, PhotoInv, NEW k \in Photos!Referenced
    PROVE  /\ k[1] \in Submissions /\ status[k[1]] \in {"pending", "approved"}
           /\ \A s \in Submissions : k \notin cleanup[s]
<1>1. CASE k \in quarantine
  <2>1. k[1] \in Submissions /\ k \in Rows(k[1])
    BY <1>1, KeyIsPair DEF PhotoTypeInv, Photos!TypeOK, Rows
  <2>2. status[k[1]] = "pending" /\ cleanup[k[1]] = {}
    BY <2>1 DEF PhotoInv
  <2>3. QED
    BY <2>1, <2>2 DEF PhotoInv
<1>2. ASSUME NEW s \in Submissions, k \in Photos!ToSet(gallery[s])
      PROVE  /\ k[1] \in Submissions /\ status[k[1]] = "approved"
             /\ \A r \in Submissions : k \notin cleanup[r]
  BY <1>2, EmptyGallery DEF PhotoInv
<1>3. QED
  BY <1>1, <1>2, ReferencedIs

\* The tables and the keys to delete rest; the handler of s goes on.
LEMMA StoreHandler ==
    ASSUME PhotoTypeInv, PhotoInv, StoreInv, NEW s \in Submissions,
           UNCHANGED <<status, quarantine, gallery, cleanup>>,
           pc[s] # "refused",
           \A r \in Submissions \ {s} : pc'[r] = pc[r] /\ Mine(r)' = Mine(r),
           forgotten \subseteq forgotten',
           pc'[s] = "upload" => Mine(s)' \subseteq objects',
           \A r \in Submissions \ {s} :
              pc[r] = "upload" /\ Mine(r) \subseteq objects
                => Mine(r) \subseteq objects',
           pc'[s] = "undo" => status[s] = "absent",
           \A k \in objects' :
              \/ k \in objects
              \/ k \in forgotten'
              \/ pc'[s] \in {"upload", "undo"} /\ k \in Mine(s)',
           \A k \in objects' :
              pc[s] \in {"upload", "undo"} /\ k \in Mine(s)
                => \/ k \in Photos!Referenced \cup cleanup[s] \cup forgotten'
                   \/ pc'[s] \in {"upload", "undo"} /\ k \in Mine(s)',
           \A k \in Photos!Referenced :
              k \in objects => k \in objects' \/ pc'[k[1]] = "refused",
           \A r \in Submissions \ {s}, k \in objects' : k \in Mine(r) => k \in objects
    PROVE  StoreInv'
<1>1. Photos!Referenced' = Photos!Referenced
  BY DEF Photos!Referenced
<1>2. PhotosThere'
  <2> SUFFICES ASSUME NEW k \in Photos!Referenced
               PROVE  k \in objects' \/ pc'[k[1]] = "refused"
    BY <1>1 DEF PhotosThere
  <2>1. k[1] \in Submissions /\ (k \in objects \/ pc[k[1]] = "refused")
    BY NamedKey DEF StoreInv, PhotosThere
  <2>2. QED
    BY <2>1
<1>3. Photos!NoOrphans'
  <2> SUFFICES ASSUME NEW k \in objects'
               PROVE  k \in Photos!Referenced' \cup Photos!Held' \cup forgotten'
    BY DEF Photos!NoOrphans
  <2>1. CASE k \in forgotten' \/ (pc'[s] \in {"upload", "undo"} /\ k \in Mine(s)')
    BY <2>1, HeldNext
  <2>2. CASE k \in objects
    <3>2. k \in Photos!Referenced \cup forgotten \/ k \in Photos!Held
      BY <2>2 DEF StoreInv, Photos!NoOrphans
    <3>3. CASE k \in Photos!Held
      <4>1. PICK r \in Submissions :
               \/ pc[r] \in {"upload", "undo"} /\ k \in Mine(r)
               \/ k \in cleanup[r]
        BY <3>3, HeldIs
      <4>2. CASE r = s
        <5>1. CASE k \in cleanup[s]
          BY <5>1, HeldNext
        <5>2. CASE pc[s] \in {"upload", "undo"} /\ k \in Mine(s)
          BY <1>1, <5>2, HeldNext
        <5>3. QED
          BY <4>1, <4>2, <5>1, <5>2
      <4>3. CASE r # s
        BY <4>1, <4>3, HeldNext
      <4>4. QED
        BY <4>2, <4>3
    <3>4. QED
      BY <1>1, <3>2, <3>3
  <2>3. QED
    BY <2>1, <2>2
<1>4. ASSUME NEW r \in Submissions
      PROVE  /\ pc'[r] = "upload" => Mine(r)' \subseteq objects'
             /\ pc'[r] = "undo" /\ status'[r] # "absent" =>
                   Mine(r)' \cap objects'
                      \subseteq Photos!Referenced' \cup cleanup'[r] \cup forgotten'
  <2>1. CASE r = s
    BY <2>1
  <2>2. CASE r # s
    <3>1. pc'[r] = pc[r] /\ Mine(r)' = Mine(r)
      BY <2>2
    <3>2. pc[r] = "upload" => Mine(r) \subseteq objects'
      BY <2>2 DEF StoreInv
    <3>3. ASSUME pc[r] = "undo", status[r] # "absent",
                 NEW k \in Mine(r) \cap objects'
          PROVE  k \in Photos!Referenced' \cup cleanup'[r] \cup forgotten'
      <4>1. k \in objects
        BY <2>2, <3>3
      <4>2. k \in Photos!Referenced \cup cleanup[r] \cup forgotten
        BY <3>3, <4>1 DEF StoreInv
      <4>3. QED
        BY <1>1, <4>2
    <3>4. QED
      BY <3>1, <3>2, <3>3
  <2>3. QED
    BY <2>1, <2>2
<1>5. QED
  BY <1>2, <1>3, <1>4 DEF StoreInv

LEMMA StoreHandlerStep ==
    ASSUME PhotoTypeInv, Photos!LimitsAssumption, PlaceInv, PhotoInv, StoreInv,
           NEW s \in Submissions, Photos!HandlerStep(s),
           ~(Photos!Commit(s) \/ Photos!CommitLies(s))
    PROVE  StoreInv'
<1> USE DEF Photos!handlerVars, Photos!tableVars, Photos!seen
<1>1. UNCHANGED <<status, quarantine, gallery, cleanup>>
  BY DEF Photos!HandlerStep, Photos!CountRecent, Photos!CountPending,
         Photos!GivesUp, Photos!Upload,
     Photos!UploadFails, Photos!UploadLies, Photos!CommitFails, Photos!Undo, Photos!HandlerLost
<1>2. /\ DOMAIN pc = Submissions /\ DOMAIN uploaded = Submissions
      /\ uploaded[s] \in 0 .. MaxPhotos /\ MaxPhotos \in Nat
  BY UploadedKeys DEF PhotoTypeInv, Photos!TypeOK, Photos!LimitsAssumption
<1>3. \A r \in Submissions : \A k \in Mine(r) : k[1] = r
  BY MineIs
<1>4. uploaded[s] = 0 => Mine(s) = {}
  BY MineIs
<1>5. pc[s] \in {"new", "counted"} => uploaded[s] = 0
  BY DEF PhotoTypeInv
<1>6. pc[s] = "upload" => status[s] = "absent" /\ Mine(s) \subseteq objects
  BY DEF PlaceInv, Fresh, StoreInv
<1>7. pc[s] = "undo" /\ status[s] # "absent" =>
         Mine(s) \cap objects \subseteq Photos!Referenced \cup cleanup[s] \cup forgotten
  BY DEF StoreInv
<1>8. \A r \in Submissions : UNCHANGED uploaded => Mine(r)' = Mine(r)
  BY DEF Mine
<1>9. CASE Photos!CountRecent(s) \/ Photos!CountPending(s) \/ Photos!GivesUp(s)
  <2>1. /\ pc[s] # "refused" /\ uploaded[s] = 0
        /\ UNCHANGED <<uploaded, objects, forgotten>>
        /\ \E where \in {"counted", "upload", "refused"} : Photos!Goto(s, where)
    BY <1>5, <1>9 DEF Photos!CountRecent, Photos!CountPending, Photos!GivesUp
  <2>2. /\ Mine(s) = {} /\ Mine(s)' = {} /\ pc'[s] # "undo"
        /\ \A r \in Submissions \ {s} : pc'[r] = pc[r] /\ Mine(r)' = Mine(r)
    BY <1>2, <1>4, <1>8, <2>1 DEF Photos!Goto
  <2>3. QED
    BY <1>1, <2>1, <2>2, StoreHandler
<1>10. CASE Photos!UploadFails(s) \/ Photos!CommitFails(s)
  <2>1. /\ pc[s] = "upload" /\ Photos!Goto(s, "undo")
        /\ UNCHANGED <<uploaded, objects, forgotten>>
    BY <1>10 DEF Photos!UploadFails, Photos!CommitFails, Photos!Uploading
  <2>2. /\ pc'[s] = "undo"
        /\ \A r \in Submissions : Mine(r)' = Mine(r)
        /\ \A r \in Submissions \ {s} : pc'[r] = pc[r]
    BY <1>2, <1>8, <2>1 DEF Photos!Goto
  <2>3. QED
    BY <1>1, <1>6, <2>1, <2>2, StoreHandler
<1>11. CASE Photos!Upload(s) \/ Photos!UploadLies(s)
  <2>1. pc[s] = "upload" /\ objects' = objects \cup {Photos!NextKey(s)}
    BY <1>11 DEF Photos!Upload, Photos!UploadLies, Photos!Uploading
  <2>2. Photos!NextKey(s)[1] = s
    BY DEF Photos!NextKey
  <2>3. \A r \in Submissions \ {s}, k \in objects' : k \in Mine(r) => k \in objects
    BY <1>3, <2>1, <2>2
  <2>4. CASE Photos!Upload(s)
    <3>1. /\ uploaded' = [uploaded EXCEPT ![s] = @ + 1]
          /\ UNCHANGED <<pc, forgotten>>
      BY <2>4 DEF Photos!Upload
    <3>2. Mine(s)' = Mine(s) \cup {Photos!NextKey(s)}
      BY <1>2, <3>1, KeysFacts DEF Mine, Photos!NextKey
    <3>3. \A r \in Submissions \ {s} : Mine(r)' = Mine(r)
      BY <1>2, <3>1 DEF Mine
    <3>4. QED
      BY <1>1, <1>6, <2>1, <2>3, <3>1, <3>2, <3>3, StoreHandler
  <2>5. CASE Photos!UploadLies(s)
    <3>1. /\ forgotten' = forgotten \cup {Photos!NextKey(s)} /\ Photos!Goto(s, "undo")
          /\ UNCHANGED uploaded
      BY <2>5 DEF Photos!UploadLies
    <3>2. /\ pc'[s] = "undo"
          /\ \A r \in Submissions : Mine(r)' = Mine(r)
          /\ \A r \in Submissions \ {s} : pc'[r] = pc[r]
      BY <1>2, <1>8, <3>1 DEF Photos!Goto
    <3>3. QED
      BY <1>1, <1>6, <2>1, <2>3, <3>1, <3>2, StoreHandler
  <2>6. QED
    BY <1>11, <2>4, <2>5
<1>12. CASE Photos!Undo(s)
  <2>1. /\ pc[s] = "undo" /\ Photos!Goto(s, "refused") /\ objects' = objects \ Mine(s)
        /\ UNCHANGED <<uploaded, forgotten>>
    BY <1>12 DEF Photos!Undo, Mine
  <2>2. /\ pc'[s] = "refused"
        /\ \A r \in Submissions : Mine(r)' = Mine(r)
        /\ \A r \in Submissions \ {s} : pc'[r] = pc[r]
    BY <1>2, <1>8, <2>1 DEF Photos!Goto
  <2>3. ASSUME NEW r \in Submissions \ {s}, Mine(r) \subseteq objects
        PROVE  Mine(r) \subseteq objects'
    BY <1>3, <2>1, <2>3
  <2>4. ASSUME NEW k \in Photos!Referenced, k \in objects
        PROVE  k \in objects' \/ pc'[k[1]] = "refused"
    BY <1>3, <2>1, <2>2, <2>4
  <2>5. QED
    BY <1>1, <2>1, <2>2, <2>3, <2>4, StoreHandler
<1>13. CASE Photos!HandlerLost(s)
  <2>1. /\ pc[s] \in {"new", "counted", "upload", "undo"} /\ Photos!Goto(s, "refused")
        /\ forgotten' = IF status[s] = "absent" THEN forgotten \cup Mine(s)
                        ELSE forgotten
        /\ UNCHANGED <<uploaded, objects>>
    BY <1>13 DEF Photos!HandlerLost, Mine
  <2>2. /\ pc'[s] = "refused"
        /\ \A r \in Submissions : Mine(r)' = Mine(r)
        /\ \A r \in Submissions \ {s} : pc'[r] = pc[r]
    BY <1>2, <1>8, <2>1 DEF Photos!Goto
  <2>3. ASSUME NEW k \in objects', pc[s] \in {"upload", "undo"}, k \in Mine(s)
        PROVE  k \in Photos!Referenced \cup cleanup[s] \cup forgotten'
    BY <1>6, <1>7, <2>1, <2>3
  <2>4. QED
    BY <1>1, <2>1, <2>2, <2>3, StoreHandler
<1>14. QED
  BY <1>9, <1>10, <1>11, <1>12, <1>13 DEF Photos!HandlerStep

\* The transaction: its handler's photos are named from now on.
LEMMA StoreStored ==
    ASSUME PhotoTypeInv, Photos!LimitsAssumption, PlaceInv, PhotoInv, StoreInv,
           NEW s \in Submissions, Photos!Stored(s), NEW where \in {"done", "undo"},
           Photos!Goto(s, where)
    PROVE  StoreInv'
<1>1. /\ pc[s] = "upload" /\ uploaded[s] = photos[s]
      /\ pc' = [pc EXCEPT ![s] = where]
      /\ status' = [status EXCEPT ![s] = "pending"]
      /\ quarantine' = quarantine \cup Mine(s)
      /\ UNCHANGED <<uploaded, gallery, objects, cleanup, forgotten>>
      /\ DOMAIN pc = Submissions /\ DOMAIN status = Submissions
  BY DEF Photos!Stored, Photos!Goto, Photos!seen, Mine, PhotoTypeInv,
         Photos!TypeOK
<1>2. Mine(s) \subseteq objects
  BY <1>1 DEF StoreInv
<1>3. Photos!Referenced' = Photos!Referenced \cup Mine(s)
  BY <1>1 DEF Photos!Referenced
<1>4. \A r \in Submissions : Mine(r)' = Mine(r)
  BY <1>1 DEF Mine
<1>5. /\ pc'[s] = where
      /\ \A r \in Submissions \ {s} : pc'[r] = pc[r] /\ status'[r] = status[r]
  BY <1>1
<1>6. PhotosThere'
  <2> SUFFICES ASSUME NEW k \in Photos!Referenced, k \notin objects
               PROVE  pc'[k[1]] = "refused"
    BY <1>1, <1>2, <1>3 DEF PhotosThere
  <2>1. k[1] \in Submissions /\ pc[k[1]] = "refused"
    BY NamedKey DEF StoreInv, PhotosThere
  <2>2. QED
    BY <1>1, <1>5, <2>1
<1>7. ASSUME NEW k \in objects'
      PROVE  k \in Photos!Referenced' \cup Photos!Held' \cup forgotten'
  <2>1. k \in Photos!Referenced \cup forgotten \/ k \in Photos!Held
    BY <1>1, <1>7 DEF StoreInv, Photos!NoOrphans
  <2>2. CASE k \in Photos!Held
    <3>1. PICK r \in Submissions :
             \/ pc[r] \in {"upload", "undo"} /\ k \in Mine(r)
             \/ k \in cleanup[r]
      BY <2>2, HeldIs
    <3>2. CASE k \in cleanup[r]
      BY <1>1, <3>2, HeldNext
    <3>3. CASE pc[r] \in {"upload", "undo"} /\ k \in Mine(r) /\ r # s
      BY <1>4, <1>5, <3>3, HeldNext
    <3>4. CASE k \in Mine(r) /\ r = s
      BY <1>3, <3>4
    <3>5. QED
      BY <3>1, <3>2, <3>3, <3>4
  <2>3. QED
    BY <1>1, <1>3, <2>1, <2>2
<1>8. ASSUME NEW r \in Submissions
      PROVE  /\ pc'[r] = "upload" => Mine(r)' \subseteq objects'
             /\ pc'[r] = "undo" /\ status'[r] # "absent" =>
                   Mine(r)' \cap objects'
                      \subseteq Photos!Referenced' \cup cleanup'[r] \cup forgotten'
  <2>1. CASE r = s
    BY <1>3, <1>4, <1>5, <2>1
  <2>2. CASE r # s
    BY <1>1, <1>3, <1>4, <1>5, <2>2 DEF StoreInv
  <2>3. QED
    BY <2>1, <2>2
<1>9. QED
  BY <1>6, <1>7, <1>8 DEF StoreInv, Photos!NoOrphans

\* A moderator takes keys out of the tables: it holds them from then on.
LEMMA StoreTakes ==
    ASSUME PhotoTypeInv, Photos!LimitsAssumption, PhotoInv', StoreInv,
           NEW s \in Submissions,
           UNCHANGED <<pc, uploaded, objects, forgotten>>,
           \A r \in Submissions : status'[r] # "absent" => status[r] # "absent",
           \A r \in Submissions : cleanup[r] \subseteq cleanup'[r],
           Photos!Referenced' \subseteq Photos!Referenced,
           Photos!Referenced \subseteq Photos!Referenced' \cup cleanup'[s]
    PROVE  StoreInv'
<1>1. \A r \in Submissions : Mine(r)' = Mine(r) /\ \A k \in Mine(r) : k[1] = r
  BY MineIs DEF Mine
<1>2. PhotosThere'
  BY DEF StoreInv, PhotosThere
<1>3. ASSUME NEW k \in objects'
      PROVE  k \in Photos!Referenced' \cup Photos!Held' \cup forgotten'
  <2>1. k \in Photos!Referenced \cup forgotten \/ k \in Photos!Held
    BY <1>3 DEF StoreInv, Photos!NoOrphans
  <2>2. CASE k \in Photos!Held
    <3>1. PICK r \in Submissions :
             \/ pc[r] \in {"upload", "undo"} /\ k \in Mine(r)
             \/ k \in cleanup[r]
      BY <2>2, HeldIs
    <3>2. QED
      BY <1>1, <3>1, HeldNext
  <2>3. CASE k \in cleanup'[s]
    BY <2>3, HeldNext
  <2>4. QED
    BY <2>1, <2>2, <2>3
<1>4. ASSUME NEW r \in Submissions, pc'[r] = "undo", status'[r] # "absent",
             NEW k \in Mine(r)', k \in objects'
      PROVE  k \in Photos!Referenced' \cup cleanup'[r] \cup forgotten'
  <2>1. k \in Photos!Referenced \cup cleanup[r] \cup forgotten /\ k[1] = r
    BY <1>1, <1>4 DEF StoreInv
  <2>2. ASSUME k \in cleanup'[s] PROVE r = s
    BY <2>1, <2>2 DEF PhotoInv
  <2>3. QED
    BY <2>1, <2>2
<1>5. \A r \in Submissions : pc'[r] = "upload" => Mine(r)' \subseteq objects'
  BY <1>1 DEF StoreInv
<1>6. QED
  BY <1>2, <1>3, <1>4, <1>5 DEF StoreInv, Photos!NoOrphans

LEMMA StoreModeration ==
    ASSUME PhotoTypeInv, Photos!LimitsAssumption, PlaceInv, PhotoInv,
           PhotoInv', StoreInv,
           NEW s \in Submissions, Photos!ModerationStep(s)
    PROVE  StoreInv'
<1> USE DEF Photos!handlerVars, Photos!tableVars, Photos!seen
<1>1. /\ DOMAIN status = Submissions /\ DOMAIN gallery = Submissions
      /\ DOMAIN cleanup = Submissions
  BY DEF PhotoTypeInv, Photos!TypeOK
<1>2. ASSUME NEW keep \in SUBSET Photos!Positions, Photos!Approve(s, keep)
      PROVE  StoreInv'
  <2>1. /\ status[s] = "pending"
        /\ status' = [status EXCEPT ![s] = "approved"]
        /\ quarantine' = quarantine \ Rows(s)
        /\ cleanup' = [cleanup EXCEPT ![s] =
                          @ \cup {k \in Rows(s) : k[2] \notin keep}]
        /\ UNCHANGED <<pc, uploaded, objects, forgotten>>
    BY <1>2 DEF Photos!Approve, Rows
  <2>2. /\ \A r \in Submissions \ {s} : gallery'[r] = gallery[r]
        /\ Photos!ToSet(gallery'[s]) = {k \in Rows(s) : k[2] \in keep}
    BY <1>2, ApproveMoves
  <2>3. gallery[s] = <<>> /\ Photos!ToSet(gallery[s]) = {}
    BY <2>1, EmptyGallery DEF PhotoInv
  <2>4. \A k : k \in Photos!Referenced' <=>
                  \/ k \in quarantine'
                  \/ \E r \in Submissions : k \in Photos!ToSet(gallery'[r])
    BY DEF Photos!Referenced
  <2>5. Photos!Referenced' \subseteq Photos!Referenced
    BY <2>1, <2>2, <2>4, ReferencedIs DEF Rows
  <2>6. Rows(s) \subseteq Photos!Referenced' \cup cleanup'[s]
    <3>1. cleanup'[s] = cleanup[s] \cup {k \in Rows(s) : k[2] \notin keep}
      BY <1>1, <2>1
    <3>2. QED
      BY <2>2, <2>4, <3>1
  <2>7. Photos!Referenced \subseteq Photos!Referenced' \cup cleanup'[s]
    BY <2>1, <2>2, <2>3, <2>4, <2>6, ReferencedIs
  <2>8. \A r \in Submissions : /\ cleanup[r] \subseteq cleanup'[r]
                               /\ status'[r] # "absent" => status[r] # "absent"
    BY <1>1, <2>1
  <2>9. QED
    BY <2>1, <2>5, <2>7, <2>8, StoreTakes
<1>3. CASE Photos!Reject(s)
  <2>1. /\ status[s] = "pending"
        /\ status' = [status EXCEPT ![s] = "rejected"]
        /\ quarantine' = quarantine \ Rows(s)
        /\ cleanup' = [cleanup EXCEPT ![s] = @ \cup Rows(s)]
        /\ UNCHANGED <<pc, uploaded, gallery, objects, forgotten>>
    BY <1>3 DEF Photos!Reject, Rows
  <2>2. Photos!Referenced' \subseteq Photos!Referenced /\ Photos!Referenced \subseteq Photos!Referenced' \cup Rows(s)
    BY <2>1 DEF Photos!Referenced
  <2>3. \A r \in Submissions : /\ cleanup[r] \subseteq cleanup'[r]
                               /\ status'[r] # "absent" => status[r] # "absent"
    BY <1>1, <2>1
  <2>4. Rows(s) \subseteq cleanup'[s]
    BY <1>1, <2>1
  <2>5. QED
    BY <2>1, <2>2, <2>3, <2>4, StoreTakes
<1>4. CASE Photos!DeletePlace(s)
  <2>1. /\ UNCHANGED <<status, quarantine>>
        /\ gallery' = [gallery EXCEPT ![s] = <<>>]
        /\ cleanup' = [cleanup EXCEPT ![s] = @ \cup Photos!ToSet(gallery[s])]
        /\ UNCHANGED <<pc, uploaded, objects, forgotten>>
    BY <1>4 DEF Photos!DeletePlace
  <2>2. /\ gallery'[s] = <<>> /\ Photos!ToSet(gallery'[s]) = {}
        /\ \A r \in Submissions \ {s} : gallery'[r] = gallery[r]
    BY <1>1, <2>1, EmptyGallery
  <2>3. \A k : k \in Photos!Referenced' <=>
                  \/ k \in quarantine
                  \/ \E r \in Submissions : k \in Photos!ToSet(gallery'[r])
    BY <2>1 DEF Photos!Referenced
  <2>4. Photos!Referenced' \subseteq Photos!Referenced
    BY <2>2, <2>3, ReferencedIs
  <2>5. /\ Photos!ToSet(gallery[s]) \subseteq cleanup'[s]
        /\ \A r \in Submissions : cleanup[r] \subseteq cleanup'[r]
    BY <1>1, <2>1
  <2>6. Photos!Referenced \subseteq Photos!Referenced' \cup cleanup'[s]
    BY <2>2, <2>3, <2>5, ReferencedIs
  <2>7. QED
    BY <2>1, <2>4, <2>5, <2>6, StoreTakes
<1>5. CASE Photos!Cleans(s) \/ Photos!CleanupLost(s)
  <2>1. /\ cleanup' = [cleanup EXCEPT ![s] = {}]
        /\ UNCHANGED <<pc, uploaded, status, quarantine, gallery>>
        /\ objects' \subseteq objects
        /\ forgotten \subseteq forgotten'
        /\ objects \ cleanup[s] \subseteq objects'
        /\ \A k \in objects' : k \in cleanup[s] => k \in forgotten'
    BY <1>5 DEF Photos!Cleans, Photos!CleanupLost
  <2>2. Photos!Referenced' = Photos!Referenced
    BY <2>1 DEF Photos!Referenced
  <2>3. \A r \in Submissions : Mine(r)' = Mine(r) /\ \A k \in Mine(r) : k[1] = r
    BY <2>1, MineIs DEF Mine
  <2>4. PhotosThere'
    BY <2>1, <2>2, NamedKey DEF StoreInv, PhotosThere
  <2>5. ASSUME NEW k \in objects'
        PROVE  k \in Photos!Referenced' \cup Photos!Held' \cup forgotten'
    <3>1. k \in Photos!Referenced \cup forgotten \/ k \in Photos!Held
      BY <2>1, <2>5 DEF StoreInv, Photos!NoOrphans
    <3>2. CASE k \in Photos!Held
      <4>1. PICK r \in Submissions :
               \/ pc[r] \in {"upload", "undo"} /\ k \in Mine(r)
               \/ k \in cleanup[r]
        BY <3>2, HeldIs
      <4>2. CASE pc[r] \in {"upload", "undo"} /\ k \in Mine(r)
        BY <2>1, <2>3, <4>2, HeldNext
      <4>3. CASE k \in cleanup[r] /\ r # s
        BY <1>1, <2>1, <4>3, HeldNext
      <4>4. CASE k \in cleanup[s]
        BY <2>1, <4>4
      <4>5. QED
        BY <4>1, <4>2, <4>3, <4>4
    <3>3. QED
      BY <2>1, <2>2, <3>1, <3>2
  <2>6. ASSUME NEW r \in Submissions, pc'[r] = "upload"
        PROVE  Mine(r)' \subseteq objects'
    <3>1. Mine(r) \subseteq objects /\ status[r] = "absent"
      BY <2>1, <2>6 DEF StoreInv, PlaceInv, Fresh
    <3>2. cleanup[r] = {} /\ \A k \in cleanup[s] : k[1] = s
      BY <3>1 DEF PhotoInv
    <3>3. QED
      BY <2>1, <2>3, <3>1, <3>2
  <2>7. ASSUME NEW r \in Submissions, pc'[r] = "undo", status'[r] # "absent",
               NEW k \in Mine(r)', k \in objects'
        PROVE  k \in Photos!Referenced' \cup cleanup'[r] \cup forgotten'
    <3>1. k \in Photos!Referenced \cup cleanup[r] \cup forgotten
      BY <2>1, <2>3, <2>7 DEF StoreInv
    <3>2. k \in cleanup[r] => k \in cleanup'[r] \cup forgotten'
      BY <1>1, <2>1, <2>7
    <3>3. QED
      BY <2>1, <2>2, <3>1, <3>2
  <2>8. QED
    BY <2>4, <2>5, <2>6, <2>7 DEF StoreInv, Photos!NoOrphans
<1>6. QED
  BY <1>2, <1>3, <1>4, <1>5 DEF Photos!ModerationStep

LEMMA StoreRest ==
    ASSUME StoreInv, UNCHANGED <<pc, uploaded, status, quarantine, gallery,
                                 objects, cleanup, forgotten>>
    PROVE  StoreInv'
<1>1. /\ Photos!Referenced' = Photos!Referenced /\ Photos!Held' = Photos!Held
      /\ \A r \in Submissions : Mine(r)' = Mine(r)
  BY DEF Photos!Referenced, Photos!Held, Mine
<1>2. QED
  BY <1>1 DEF StoreInv, PhotosThere, Photos!NoOrphans

LEMMA StoreStep ==
    ASSUME Photos!LimitsAssumption
    PROVE  /\ PhotoTypeInv /\ PlaceInv /\ PhotoInv
           /\ PhotoInv' /\ StoreInv /\ [Photos!Next]_Photos!vars
           => StoreInv'
<1> SUFFICES ASSUME PhotoTypeInv, PlaceInv, PhotoInv, PhotoInv', StoreInv,
                    [Photos!Next]_Photos!vars
             PROVE  StoreInv'
  OBVIOUS
<1>1. ASSUME NEW s \in Submissions, Photos!HandlerStep(s) PROVE StoreInv'
  BY <1>1, StoreHandlerStep, StoreStored DEF Photos!Commit, Photos!CommitLies
<1>2. ASSUME NEW s \in Submissions, Photos!Ages(s) PROVE StoreInv'
  BY <1>2, StoreRest
     DEF Photos!Ages, Photos!handlerVars, Photos!tableVars, Photos!seen
<1>3. CASE UNCHANGED Photos!vars
  BY <1>3, StoreRest
     DEF Photos!vars, Photos!handlerVars, Photos!tableVars, Photos!seen
<1>4. QED
  BY <1>1, <1>2, <1>3, StoreModeration DEF Photos!Next

-----------------------------------------------------------------------------
(***************************************************************************)
(* Handlers that failed though their row is there: one for each commit     *)
(* whose answer was lost.                                                  *)
(***************************************************************************)
Lied == {s \in Submissions : pc[s] \in {"undo", "refused"} /\ status[s] # "absent"}
LiedInv == Cardinality(Lied) <= lies

LEMMA LiedInit == Photos!Init => LiedInv
<1> SUFFICES ASSUME Photos!Init PROVE LiedInv
  OBVIOUS
<1>1. Lied = {} /\ lies = 0
  BY DEF Photos!Init, Lied
<1>2. QED
  BY <1>1, FS_EmptySet DEF LiedInv

\* No handler joins those that failed though their row is there.
LEMMA LiedFewer ==
    ASSUME Photos!SubmissionsAssumption, PhotoTypeInv, LiedInv,
           Lied' \subseteq Lied, lies' \in Int, lies' >= lies
    PROVE  LiedInv'
<1>1. IsFiniteSet(Lied) /\ lies \in Int
  BY FS_Subset, PhotosCounts
     DEF Photos!SubmissionsAssumption, Lied, PhotoTypeInv, Photos!TypeOK
<1>2. /\ Cardinality(Lied') \in Nat /\ Cardinality(Lied) \in Nat
      /\ Cardinality(Lied') <= Cardinality(Lied)
  BY <1>1, Smaller
<1>3. QED
  BY <1>1, <1>2 DEF LiedInv

LEMMA LiedHandler ==
    ASSUME Photos!SubmissionsAssumption, PhotoTypeInv, PlaceInv, LiedInv,
           NEW s \in Submissions, Photos!HandlerStep(s)
    PROVE  LiedInv'
<1> USE DEF Photos!Goto, Photos!handlerVars, Photos!tableVars, Photos!seen
<1>1. /\ DOMAIN pc = Submissions /\ DOMAIN status = Submissions /\ lies \in Int
      /\ pc[s] \in Fresh => status[s] = "absent"
  BY DEF PhotoTypeInv, Photos!TypeOK, PlaceInv
<1>2. CASE Photos!CommitLies(s)
  <2>1. /\ pc[s] = "upload" /\ lies' = lies + 1
        /\ \A r \in Submissions \ {s} : pc'[r] = pc[r] /\ status'[r] = status[r]
    BY <1>1, <1>2 DEF Photos!CommitLies, Photos!Stored
  <2>2. IsFiniteSet(Lied) /\ s \notin Lied
    BY <2>1, FS_Subset, PhotosCounts DEF Photos!SubmissionsAssumption, Lied
  <2>3. Lied' \subseteq Lied \cup {s}
    BY <2>1 DEF Lied
  <2>4. /\ IsFiniteSet(Lied \cup {s})
        /\ Cardinality(Lied \cup {s}) = Cardinality(Lied) + 1
        /\ Cardinality(Lied) \in Nat
    BY <2>2, FS_AddElement, FS_CardinalityType
  <2>5. /\ Cardinality(Lied') \in Nat
        /\ Cardinality(Lied') <= Cardinality(Lied \cup {s})
    BY <2>3, <2>4, Smaller
  <2>6. QED
    BY <1>1, <2>1, <2>4, <2>5 DEF LiedInv
<1>3. CASE Photos!Commit(s)
  <2>1. /\ pc'[s] = "done" /\ lies' = lies
        /\ \A r \in Submissions \ {s} : pc'[r] = pc[r] /\ status'[r] = status[r]
    BY <1>1, <1>3 DEF Photos!Commit, Photos!Stored
  <2>2. Lied' \subseteq Lied
    BY <2>1 DEF Lied
  <2>3. QED
    BY <1>1, <2>1, <2>2, LiedFewer
<1>4. CASE ~(Photos!Commit(s) \/ Photos!CommitLies(s))
  <2>1. /\ UNCHANGED status
        /\ lies' = lies \/ lies' = lies + 1
        /\ pc[s] \in Fresh \cup {"undo"}
        /\ \A r \in Submissions \ {s} : pc'[r] = pc[r]
    BY <1>1, <1>4 DEF Photos!HandlerStep, Photos!CountRecent,
       Photos!CountPending, Photos!GivesUp, Photos!Upload, Photos!Uploading,
       Photos!UploadFails, Photos!UploadLies, Photos!CommitFails, Photos!Undo,
       Photos!HandlerLost, Fresh
  <2>2. Lied' \subseteq Lied
    BY <1>1, <2>1 DEF Lied, Fresh
  <2>3. QED
    BY <1>1, <2>1, <2>2, LiedFewer
<1>5. QED
  BY <1>2, <1>3, <1>4

LEMMA LiedStep ==
    ASSUME Photos!SubmissionsAssumption
    PROVE  PhotoTypeInv /\ PlaceInv /\ LiedInv /\ [Photos!Next]_Photos!vars => LiedInv'
<1> SUFFICES ASSUME PhotoTypeInv, PlaceInv, LiedInv, [Photos!Next]_Photos!vars
             PROVE  LiedInv'
  OBVIOUS
<1> USE DEF Photos!handlerVars, Photos!tableVars, Photos!seen
<1>1. DOMAIN status = Submissions /\ lies \in Int
  BY DEF PhotoTypeInv, Photos!TypeOK
<1>2. ASSUME NEW s \in Submissions, Photos!ModerationStep(s) PROVE LiedInv'
  <2>1. /\ UNCHANGED <<pc, lies>>
        /\ \A r \in Submissions : status'[r] # "absent" => status[r] # "absent"
    BY <1>1, <1>2 DEF Photos!ModerationStep, Photos!Approve, Photos!Reject,
       Photos!DeletePlace, Photos!Cleans, Photos!CleanupLost
  <2>2. Lied' \subseteq Lied
    BY <2>1 DEF Lied
  <2>3. QED
    BY <1>1, <2>1, <2>2, LiedFewer
<1>3. ASSUME UNCHANGED <<pc, status, lies>> PROVE LiedInv'
  BY <1>3 DEF LiedInv, Lied
<1>4. ASSUME NEW s \in Submissions, Photos!Ages(s) PROVE LiedInv'
  BY <1>3, <1>4 DEF Photos!Ages
<1>5. CASE UNCHANGED Photos!vars
  BY <1>3, <1>5 DEF Photos!vars
<1>6. QED
  BY <1>2, <1>4, <1>5, LiedHandler DEF Photos!Next

\* A submission without its photos is one of them.
LEMMA BrokenLied ==
    ASSUME Photos!SubmissionsAssumption, PhotoTypeInv, PhotoInv, StoreInv, LiedInv
    PROVE  Photos!NoPhotoMissing
<1>1. ASSUME NEW s \in Photos!Broken PROVE s \in Lied /\ pc[s] = "refused"
  <2>1. PICK k \in Photos!Referenced \ objects : k[1] = s
    BY DEF Photos!Broken
  <2>2. s \in Submissions /\ status[s] \in {"pending", "approved"}
    BY <2>1, NamedKey
  <2>3. pc[s] = "refused"
    BY <2>1 DEF StoreInv, PhotosThere
  <2>4. QED
    BY <2>2, <2>3 DEF Lied
<1>2. IsFiniteSet(Lied) /\ lies \in Int
  BY FS_Subset, PhotosCounts
     DEF Photos!SubmissionsAssumption, Lied, PhotoTypeInv, Photos!TypeOK
<1>3. /\ Cardinality(Photos!Broken) \in Nat /\ Cardinality(Lied) \in Nat
      /\ Cardinality(Photos!Broken) <= Cardinality(Lied)
  BY <1>1, <1>2, Smaller
<1>4. Cardinality(Photos!Broken) <= lies
  BY <1>2, <1>3 DEF LiedInv
<1>5. QED
  BY <1>1, <1>4, PhotosCounts DEF Photos!NoPhotoMissing

-----------------------------------------------------------------------------
LEMMA PhotosInductive ==
    ASSUME Photos!LimitsAssumption, Photos!SubmissionsAssumption,
           Photos!PhotoCountsAssumption
    PROVE  Photos!Spec => [](/\ PhotoTypeInv /\ SubmissionInv
                        /\ PhotoInv /\ StoreInv /\ LiedInv)
<1>1. Photos!Init => PhotoTypeInv /\ SubmissionInv /\ PhotoInv /\ StoreInv /\ LiedInv
  BY PhotoTypeInit, SubmissionInit, PhotoInit, StoreInit, LiedInit
<1>2. /\ PhotoTypeInv /\ SubmissionInv /\ PhotoInv
      /\ StoreInv /\ LiedInv /\ [Photos!Next]_Photos!vars
      => (PhotoTypeInv /\ SubmissionInv /\ PhotoInv /\ StoreInv /\ LiedInv)'
  <2>1. SubmissionInv => PlaceInv
    BY DEF SubmissionInv
  <2>2. QED
    BY <2>1, PhotoTypeStep, SubmissionStep, PhotoStep, StoreStep, LiedStep
<1>3. QED
  BY <1>1, <1>2, PTL DEF Photos!Spec

(***************************************************************************)
(* The database and R2 agree over every crash of a handler and every call  *)
(* that failed or only said so: what a table names is there, except for as *)
(* many submissions as answers were lost, each refused to its visitor;     *)
(* what is there is named, held by a handler or on the list of a           *)
(* moderation, or nobody will delete it for a reason that forgotten        *)
(* records; and photos are in quarantine or in the gallery.                *)
(***************************************************************************)
THEOREM PhotosCorrect ==
    ASSUME Photos!LimitsAssumption, Photos!SubmissionsAssumption,
           Photos!PhotoCountsAssumption
    PROVE  Photos!Spec => [](/\ Photos!TypeOK /\ Photos!NoPhotoMissing
                             /\ Photos!NoOrphans /\ Photos!PhotosApart)
<1>1. ASSUME PhotoTypeInv, PhotoInv PROVE Photos!PhotosApart
  <2>1. ASSUME NEW s \in Submissions
        PROVE  /\ Photos!ToSet(gallery[s]) \cap quarantine = {}
               /\ Photos!IsInjective(gallery[s])
               /\ (Photos!ToSet(gallery[s]) \cup quarantine) \cap cleanup[s] = {}
               /\ status[s] = "rejected" => \A k \in Photos!Referenced : k[1] # s
    <3>1. ASSUME NEW k \in Photos!ToSet(gallery[s]), k \in quarantine PROVE FALSE
      <4>1. k[1] = s /\ gallery[s] # <<>>
        BY <1>1, <3>1, EmptyGallery DEF PhotoInv
      <4>2. status[s] = "approved" /\ k \in Rows(s)
        BY <1>1, <3>1, <4>1 DEF PhotoInv, Rows
      <4>3. QED
        BY <1>1, <4>2 DEF PhotoInv
    <3>2. \A k \in Photos!ToSet(gallery[s]) \cup quarantine : k \in Photos!Referenced
      BY ReferencedIs
    <3>3. QED
      BY <1>1, <3>1, <3>2, NamedKey DEF PhotoInv
  <2>2. QED
    BY <2>1 DEF Photos!PhotosApart
<1>2. PhotoTypeInv /\ SubmissionInv /\ PhotoInv /\ StoreInv /\ LiedInv
         => /\ Photos!TypeOK /\ Photos!NoPhotoMissing
            /\ Photos!NoOrphans /\ Photos!PhotosApart
  BY <1>1, BrokenLied DEF PhotoTypeInv, StoreInv
<1>3. QED
  BY <1>2, PhotosInductive, PTL

-----------------------------------------------------------------------------
(***************************************************************************)
(* Bytes, counted one by one: those of the things P that f tells of.       *)
(***************************************************************************)
Heap(f, P) == UNION {{p} \X (1 .. f[p].bytes) : p \in P \cap DOMAIN f}
Weight(f, P) == Cardinality(Heap(f, P))
BytesIn(f, p) == IF p \in DOMAIN f THEN f[p].bytes ELSE 0

\* A heap of finitely many things, each of some bytes.
Heavy(f) == IsFiniteSet(DOMAIN f) /\ \A p \in DOMAIN f : f[p].bytes \in Nat

LEMMA HeapIs ==
    ASSUME NEW f, NEW P, NEW u
    PROVE  u \in Heap(f, P)
              <=> \E p \in P \cap DOMAIN f : u \in {p} \X (1 .. f[p].bytes)
BY DEF Heap

LEMMA HeapFinite ==
    ASSUME NEW f, Heavy(f), NEW P
    PROVE  IsFiniteSet(Heap(f, P)) /\ Weight(f, P) \in Nat
<1> DEFINE D == P \cap DOMAIN f
<1> DEFINE T == {{p} \X (1 .. f[p].bytes) : p \in D}
<1> DEFINE g == [p \in D |-> {p} \X (1 .. f[p].bytes)]
<1>1. IsFiniteSet(D)
  BY FS_Subset DEF Heavy
<1>2. g \in Surjection(D, T)
  BY DEF Surjection
<1>3. IsFiniteSet(T)
  <2> HIDE DEF D, T, g
  <2>1. QED
    BY <1>1, <1>2, FS_Surjection
<1>4. ASSUME NEW t \in T PROVE IsFiniteSet(t)
  <2>1. PICK p \in D : t = {p} \X (1 .. f[p].bytes)
    OBVIOUS
  <2>2. f[p].bytes \in Int
    BY DEF Heavy
  <2>3. IsFiniteSet(1 .. f[p].bytes) /\ IsFiniteSet({p})
    <3>1. IsFiniteSet({p})
      BY FS_Singleton
    <3>2. IsFiniteSet(1 .. f[p].bytes)
      BY <2>2, FS_Interval
    <3>3. QED
      BY <3>1, <3>2
  <2>4. IsFiniteSet({p} \X (1 .. f[p].bytes))
    BY <2>3, FS_Product
  <2>5. QED
    BY <2>1, <2>4
<1>5. IsFiniteSet(UNION T)
  <2> HIDE DEF T
  <2>1. QED
    BY <1>3, <1>4, FS_UNION
<1>6. QED
  BY <1>5, FS_CardinalityType DEF Heap, Weight

LEMMA WeightMonotone ==
    ASSUME NEW f, NEW g, Heavy(f), Heavy(g), NEW P, NEW Q,
           \A p \in P \cap DOMAIN f :
              p \in Q \cap DOMAIN g /\ f[p].bytes <= g[p].bytes
    PROVE  Weight(f, P) <= Weight(g, Q)
<1>1. ASSUME NEW u \in Heap(f, P) PROVE u \in Heap(g, Q)
  <2>1. PICK p \in P \cap DOMAIN f : u \in {p} \X (1 .. f[p].bytes)
    BY HeapIs
  <2>2. /\ p \in Q \cap DOMAIN g /\ f[p].bytes <= g[p].bytes
        /\ f[p].bytes \in Nat /\ g[p].bytes \in Nat
    BY DEF Heavy
  <2>3. 1 .. f[p].bytes \subseteq 1 .. g[p].bytes
    BY <2>2
  <2>4. u \in {p} \X (1 .. g[p].bytes)
    BY <2>1, <2>3
  <2>5. QED
    BY <2>2, <2>4, HeapIs
<1>2. Heap(f, P) \in SUBSET Heap(g, Q)
  BY <1>1
<1>3. QED
  BY <1>2, HeapFinite, FS_Subset DEF Weight

\* One thing apart from the others.
LEMMA WeightSplit ==
    ASSUME NEW f, Heavy(f), NEW P, NEW p \in P
    PROVE  Weight(f, P) = Weight(f, P \ {p}) + BytesIn(f, p)
<1> DEFINE A == Heap(f, P \ {p})
<1>1. CASE p \notin DOMAIN f
  <2>1. Heap(f, P) = Heap(f, P \ {p})
    BY <1>1 DEF Heap
  <2>2. Weight(f, P) \in Nat
    BY HeapFinite
  <2>3. QED
    BY <1>1, <2>1, <2>2 DEF Weight, BytesIn
<1>2. CASE p \in DOMAIN f
  <2> DEFINE B == {p} \X (1 .. f[p].bytes)
  <2>1. f[p].bytes \in Nat
    BY <1>2 DEF Heavy
  <2>2. IsFiniteSet(B) /\ Cardinality(B) = f[p].bytes
    <3>0. IsFiniteSet({p}) /\ Cardinality({p}) = 1
      BY FS_Singleton
    <3>1. /\ IsFiniteSet(1 .. f[p].bytes)
          /\ Cardinality(1 .. f[p].bytes) = f[p].bytes
      <4>1. \A n \in Nat : /\ IsFiniteSet(1 .. n)
                           /\ Cardinality(1 .. n) = IF 1 > n THEN 0 ELSE n - 1 + 1
        BY FS_Interval
      <4>2. QED
        BY <2>1, <4>1
    <3>2. /\ Cardinality(B) = Cardinality({p}) * Cardinality(1 .. f[p].bytes)
          /\ IsFiniteSet(B)
      BY <3>0, <3>1, FS_Product
    <3>3. 1 * f[p].bytes = f[p].bytes
      BY <2>1
    <3>4. QED
      BY <3>0, <3>1, <3>2, <3>3
  <2>3. ASSUME NEW u PROVE u \in Heap(f, P) <=> u \in A \/ u \in B
    <3>1. u \in Heap(f, P) <=> \E q \in P \cap DOMAIN f : u \in {q} \X (1 .. f[q].bytes)
      BY HeapIs
    <3>2. u \in A <=> \E q \in (P \ {p}) \cap DOMAIN f : u \in {q} \X (1 .. f[q].bytes)
      BY HeapIs
    <3> HIDE DEF A
    <3>3. QED
      BY <1>2, <3>1, <3>2
  <2>4. A \cap B = {}
    <3>1. ASSUME NEW u \in A, u \in B PROVE FALSE
      <4>1. PICK q \in (P \ {p}) \cap DOMAIN f : u \in {q} \X (1 .. f[q].bytes)
        BY HeapIs
      <4>2. u[1] = q /\ u[1] = p
        BY <3>1, <4>1
      <4>3. QED
        BY <4>1, <4>2
    <3> HIDE DEF A, B
    <3>2. QED
      BY <3>1
  <2>5. IsFiniteSet(A) /\ Cardinality(A) \in Nat
    BY HeapFinite DEF Weight
  <2>6. Heap(f, P) = A \cup B
    <3> HIDE DEF A, B
    <3>1. QED
      BY <2>3
  <2> HIDE DEF A, B
  <2>7. Cardinality(A \cup B) = Cardinality(A) + Cardinality(B) - Cardinality({})
    BY <2>2, <2>4, <2>5, FS_Union
  <2>8. Weight(f, P) = Cardinality(A) + f[p].bytes
    BY <2>1, <2>2, <2>5, <2>6, <2>7, FS_EmptySet DEF Weight
  <2>9. QED
    BY <1>2, <2>8 DEF A, Weight, BytesIn
<1>3. QED
  BY <1>1, <1>2

LEMMA WeightNone ==
    ASSUME NEW f, NEW P, P \cap DOMAIN f = {}
    PROVE  Weight(f, P) = 0
<1>1. Heap(f, P) = {}
  BY DEF Heap
<1>2. QED
  BY <1>1, FS_EmptySet DEF Weight

-----------------------------------------------------------------------------
(***************************************************************************)
(* Types.  The total of a sweep stays a number because it is never below   *)
(* the bytes of the entries that are still listed.                         *)
(***************************************************************************)
CacheAssumptions ==
    TilesAssumption /\ PathsAssumption /\ BytesAssumption /\ BoundsAssumption

SeenBytes(E) == Weight([e \in E |-> e], E)

ListInv ==
    sweep.at \in {"walk", "remove"} =>
        IsFiniteSet(sweep.seen) /\ SeenBytes(sweep.seen) <= sweep.total

LEMMA PathsFinite ==
    ASSUME CacheAssumptions
    PROVE  /\ IsFiniteSet(Paths) /\ Order \in Seq(Paths) /\ Bytes \subseteq Nat
           /\ MaxBytes \in Nat /\ MaxWrites \in Nat /\ MaxStuck \in Nat
<1>1. IsFiniteSet(Paths)
  BY FS_Union DEF CacheAssumptions, TilesAssumption, Paths
<1>2. QED
  BY <1>1 DEF CacheAssumptions, PathsAssumption, BytesAssumption,
     BoundsAssumption, Paths

LEMMA PutFields ==
    ASSUME TypeOK, CacheAssumptions
    PROVE  /\ put.at \in {"idle", "stat", "rename", "add", "check"}
           /\ put = Idle <=> put.at = "idle"
           /\ put.at # "idle" =>
                 /\ put = [at |-> put.at, tile |-> put.tile, temp |-> put.temp,
                           bytes |-> put.bytes, old |-> put.old, late |-> put.late]
                 /\ put.tile \in Tiles /\ put.temp \in Temps
                 /\ put.bytes \in Bytes /\ put.old \in Bytes \cup {0}
                 /\ put.late \in BOOLEAN
                 /\ put.tile \in Paths /\ put.temp \in Paths
                 /\ put.tile # put.temp
                 /\ put.bytes \in Nat /\ put.old \in Nat
<1>1. /\ Bytes \subseteq Nat /\ Tiles \cap Temps = {}
      /\ Tiles \subseteq Paths /\ Temps \subseteq Paths
  BY PathsFinite DEF CacheAssumptions, PathsAssumption, Paths
<1>2. CASE put = Idle
  BY <1>2 DEF Idle
<1>3. CASE put \in [at: {"stat", "rename", "add", "check"}, tile: Tiles,
                    temp: Temps, bytes: Bytes, old: Bytes \cup {0}, late: BOOLEAN]
  <2>1. /\ put = [at |-> put.at, tile |-> put.tile, temp |-> put.temp,
                  bytes |-> put.bytes, old |-> put.old, late |-> put.late]
        /\ put.at \in {"stat", "rename", "add", "check"}
        /\ put.tile \in Tiles /\ put.temp \in Temps /\ put.bytes \in Bytes
        /\ put.old \in Bytes \cup {0} /\ put.late \in BOOLEAN
    BY <1>3
  <2>2. put # Idle /\ put.at # "idle"
    BY <2>1 DEF Idle
  <2>3. /\ put.tile \in Paths /\ put.temp \in Paths /\ put.tile # put.temp
        /\ put.bytes \in Nat /\ put.old \in Nat
    BY <1>1, <2>1
  <2>4. QED
    BY <2>1, <2>2, <2>3
<1>4. QED
  BY <1>2, <1>3 DEF TypeOK

LEMMA WalkFields ==
    ASSUME NEW w \in {Idle} \cup Walks
    PROVE  /\ w = Idle <=> w.at = "idle"
           /\ w.at \in {"idle", "walk", "remove", "check", "end"}
           /\ w.at # "idle" =>
                 /\ w = [at |-> w.at, rest |-> w.rest, seen |-> w.seen,
                         total |-> w.total]
                 /\ w.rest \in Seq(Paths) /\ w.seen \in SUBSET Entries
                 /\ w.total \in Nat
BY DEF Idle, Walks

LEMMA FilesHeavy ==
    ASSUME TypeOK, CacheAssumptions
    PROVE  /\ Heavy(files)
           /\ \A p \in DOMAIN files : /\ p \in Paths /\ files[p] \in Files
                                      /\ files[p].bytes \in Bytes
                                      /\ files[p].bytes \in Nat
                                      /\ files[p].mod \in 0 .. MaxWrites
<1>1. DOMAIN files \subseteq Paths /\ \A p \in DOMAIN files : files[p] \in Files
  BY DEF TypeOK
<1>2. IsFiniteSet(DOMAIN files)
  BY <1>1, PathsFinite, FS_Subset
<1>3. \A p \in DOMAIN files : /\ files[p].bytes \in Bytes
                              /\ files[p].mod \in 0 .. MaxWrites
  BY <1>1 DEF Files
<1>4. QED
  BY <1>1, <1>2, <1>3, PathsFinite DEF Heavy

LEMMA DiskIsWeight == \A P : OnDisk(P) = Weight(files, P)
BY DEF OnDisk, Weight, Heap

LEMMA EntriesHeavy ==
    ASSUME CacheAssumptions, NEW E \in SUBSET Entries, IsFiniteSet(E)
    PROVE  Heavy([e \in E |-> e]) /\ SeenBytes(E) \in Nat
<1>1. \A e \in E : e.bytes \in Nat
  BY PathsFinite DEF Entries
<1>2. Heavy([e \in E |-> e])
  BY <1>1 DEF Heavy
<1>3. QED
  BY <1>2, HeapFinite DEF SeenBytes

LEMMA SeenMonotone ==
    ASSUME CacheAssumptions, NEW E \in SUBSET Entries, IsFiniteSet(E),
           NEW D \in SUBSET E
    PROVE  IsFiniteSet(D) /\ SeenBytes(D) \in Nat /\ SeenBytes(D) <= SeenBytes(E)
<1> DEFINE f == [e \in D |-> e]
<1> DEFINE g == [e \in E |-> e]
<1>1. IsFiniteSet(D) /\ Heavy(f) /\ Heavy(g) /\ SeenBytes(D) \in Nat
  BY FS_Subset, EntriesHeavy
<1>2. \A e \in D \cap DOMAIN f :
         e \in E \cap DOMAIN g /\ f[e].bytes <= g[e].bytes
  BY <1>1 DEF Heavy
<1>3. Weight(f, D) <= Weight(g, E)
  <2> HIDE DEF f, g
  <2>1. QED
    BY <1>1, <1>2, WeightMonotone
<1>4. QED
  BY <1>1, <1>3 DEF SeenBytes

LEMMA SeenSplit ==
    ASSUME CacheAssumptions, NEW E \in SUBSET Entries, IsFiniteSet(E), NEW e \in E
    PROVE  SeenBytes(E) = SeenBytes(E \ {e}) + e.bytes
<1> DEFINE f == [d \in E |-> d]
<1> DEFINE g == [d \in E \ {e} |-> d]
<1>1. /\ Heavy(f) /\ Heavy(g)
      /\ Weight(g, E \ {e}) \in Nat /\ Weight(f, E \ {e}) \in Nat
  BY FS_Subset, EntriesHeavy, HeapFinite
<1>2. /\ \A d \in (E \ {e}) \cap DOMAIN f :
            d \in (E \ {e}) \cap DOMAIN g /\ f[d].bytes <= g[d].bytes
      /\ \A d \in (E \ {e}) \cap DOMAIN g :
            d \in (E \ {e}) \cap DOMAIN f /\ g[d].bytes <= f[d].bytes
  BY <1>1 DEF Heavy
<1>3. BytesIn(f, e) = e.bytes
  BY DEF BytesIn
<1> HIDE DEF f, g
<1>4. Weight(f, E \ {e}) = Weight(g, E \ {e})
  BY <1>1, <1>2, WeightMonotone
<1>5. Weight(f, E) = Weight(f, E \ {e}) + e.bytes
  BY <1>1, <1>3, WeightSplit
<1>6. QED
  BY <1>4, <1>5 DEF SeenBytes, f, g

LEMMA CacheTypeInit ==
    ASSUME CacheAssumptions PROVE Init => TypeOK /\ ListInv
<1> SUFFICES ASSUME Init PROVE TypeOK /\ ListInv
  OBVIOUS
<1>1. PICK P \in SUBSET Paths : \E n \in [P -> Bytes] :
         files = [p \in P |-> [bytes |-> n[p], mod |-> 0]]
  BY DEF Init
<1>2. DOMAIN files \subseteq Paths /\ files \in [DOMAIN files -> Files]
  <2>1. PICK n \in [P -> Bytes] : files = [p \in P |-> [bytes |-> n[p], mod |-> 0]]
    BY <1>1
  <2>2. 0 \in 0 .. MaxWrites
    BY PathsFinite
  <2>3. \A p \in P : [bytes |-> n[p], mod |-> 0] \in Files
    BY <2>2 DEF Files
  <2>4. QED
    BY <2>1, <2>3
<1>3. Walk \in Walks
  BY PathsFinite DEF Walk, Walks
<1>4. sweep.at = "idle" /\ sweep = Idle
  BY DEF Init, Idle
<1>5. ListInv
  BY <1>4 DEF ListInv
<1>6. /\ writes \in 0 .. MaxWrites /\ stuck \in 0 .. MaxStuck /\ slack \in Nat
      /\ size \in Int
  BY PathsFinite DEF Init
<1>7. /\ sweeping \in BOOLEAN /\ sweeping = (sweep # Idle)
      /\ put = Idle /\ scan \in {Idle} \cup Walks /\ sweep \in {Idle} \cup Walks
  BY <1>3, <1>4 DEF Init
<1>8. QED
  BY <1>2, <1>5, <1>6, <1>7 DEF TypeOK

\* What CreateTemp and Rename leave on the disk.
LEMMA FilesType ==
    ASSUME TypeOK, NEW D, NEW f, D \subseteq Paths,
           f = [q \in D |-> f[q]], \A q \in D : f[q] \in Files
    PROVE  DOMAIN f \subseteq Paths /\ f \in [DOMAIN f -> Files]
OBVIOUS

LEMMA WithoutType ==
    ASSUME TypeOK, NEW P, files' = Without(P)
    PROVE  DOMAIN files' \subseteq Paths /\ files' \in [DOMAIN files' -> Files]
BY DEF TypeOK, Without

\* A sweep starts, or not, when a put or the scan is through.
LEMMA StartType ==
    ASSUME TypeOK, CacheAssumptions, StartSweep,
           UNCHANGED <<files, size, writes, stuck>>,
           \/ put' = Idle /\ scan' = scan
           \/ scan' = Idle /\ put' = put
    PROVE  TypeOK'
<1>1. Walk \in Walks /\ Walk # Idle
  BY PathsFinite DEF Walk, Walks, Idle
<1>2. \/ sweeping' = TRUE /\ sweep' = Walk
      \/ UNCHANGED <<sweeping, sweep>>
  BY DEF StartSweep
<1>3. /\ sweeping' \in BOOLEAN /\ sweep' \in {Idle} \cup Walks
      /\ sweeping' = (sweep' # Idle)
  BY <1>1, <1>2 DEF TypeOK
<1>4. slack' \in {slack, 0}
  BY DEF StartSweep
<1>5. QED
  BY <1>3, <1>4 DEF TypeOK

LEMMA PutType ==
    ASSUME TypeOK, CacheAssumptions, PutStep
    PROVE  TypeOK'
<1> USE DEF bounds
<1>1. ASSUME NEW t \in Tiles, NEW n \in Bytes, CreateTemp(t, n) PROVE TypeOK'
  <2>1. PICK p \in Temps :
           /\ files' = [q \in DOMAIN files \cup {p} |->
                           IF q = p THEN [bytes |-> n, mod |-> writes + 1]
                           ELSE files[q]]
           /\ put' = [at |-> "stat", tile |-> t, temp |-> p, bytes |-> n,
                      old |-> 0, late |-> Busy]
    BY <1>1 DEF CreateTemp, Put
  <2>2. /\ writes < MaxWrites /\ writes' = writes + 1
        /\ UNCHANGED <<size, sweeping, sweep, scan, stuck, slack>>
    BY <1>1 DEF CreateTemp
  <2>3. writes + 1 \in 0 .. MaxWrites
    BY <2>2, PathsFinite DEF TypeOK
  <2>4. [bytes |-> n, mod |-> writes + 1] \in Files /\ p \in Paths
    BY <2>3 DEF Files, Paths
  <2>5. DOMAIN files' \subseteq Paths /\ files' \in [DOMAIN files' -> Files]
    BY <2>1, <2>4 DEF TypeOK
  <2>6. Busy \in BOOLEAN
    BY DEF Busy
  <2>7. put' \in [at: {"stat", "rename", "add", "check"}, tile: Tiles,
                  temp: Temps, bytes: Bytes, old: Bytes \cup {0}, late: BOOLEAN]
    BY <2>1, <2>6
  <2>8. QED
    BY <2>2, <2>3, <2>5, <2>7 DEF TypeOK
<1>2. CASE PutFails
  <2>1. /\ files' = Without({put.temp}) /\ put' = Idle
        /\ UNCHANGED <<size, sweeping, sweep, scan, writes, stuck, slack>>
    BY <1>2 DEF PutFails
  <2>2. QED
    BY <2>1, WithoutType DEF TypeOK
<1>3. CASE Stat
  <2>1. /\ put.at = "stat" /\ put' = [put EXCEPT !.at = "rename", !.old = Old(put.tile)]
        /\ UNCHANGED <<files, size, sweeping, sweep, scan, writes, stuck, slack>>
    BY <1>3 DEF Stat
  <2>2. Old(put.tile) \in Bytes \cup {0}
    BY FilesHeavy DEF Old
  <2>3. put \in [at: {"stat", "rename", "add", "check"}, tile: Tiles,
                 temp: Temps, bytes: Bytes, old: Bytes \cup {0}, late: BOOLEAN]
    BY <2>1, PutFields DEF TypeOK
  <2>4. put' \in [at: {"stat", "rename", "add", "check"}, tile: Tiles,
                  temp: Temps, bytes: Bytes, old: Bytes \cup {0}, late: BOOLEAN]
    BY <2>1, <2>2, <2>3
  <2>5. QED
    BY <2>1, <2>4 DEF TypeOK
<1>4. CASE Rename
  <2>1. /\ put.at = "rename" /\ put.temp \in DOMAIN files
        /\ files' = [q \in (DOMAIN files \cup {put.tile}) \ {put.temp} |->
                        IF q = put.tile THEN files[put.temp] ELSE files[q]]
        /\ put' = [put EXCEPT !.at = "add"]
        /\ UNCHANGED <<size, sweeping, sweep, scan, writes, stuck, slack>>
    BY <1>4 DEF Rename
  <2>2. put \in [at: {"stat", "rename", "add", "check"}, tile: Tiles,
                 temp: Temps, bytes: Bytes, old: Bytes \cup {0}, late: BOOLEAN]
    BY <2>1, PutFields DEF TypeOK
  <2>3. put' \in [at: {"stat", "rename", "add", "check"}, tile: Tiles,
                  temp: Temps, bytes: Bytes, old: Bytes \cup {0}, late: BOOLEAN]
    BY <2>1, <2>2
  <2>4. put.tile \in Paths
    BY <2>1, PutFields
  <2>5. DOMAIN files' \subseteq Paths /\ files' \in [DOMAIN files' -> Files]
    BY <2>1, <2>4 DEF TypeOK
  <2>6. QED
    BY <2>1, <2>3, <2>5 DEF TypeOK
<1>5. CASE Add
  <2>1. /\ put.at = "add" /\ size' = size + put.bytes - put.old
        /\ put' = [put EXCEPT !.at = "check"]
        /\ slack' \in {slack, slack + put.bytes + put.old}
        /\ UNCHANGED <<files, sweeping, sweep, scan, writes, stuck>>
    BY <1>5 DEF Add
  <2>2. /\ put \in [at: {"stat", "rename", "add", "check"}, tile: Tiles,
                    temp: Temps, bytes: Bytes, old: Bytes \cup {0}, late: BOOLEAN]
        /\ put.bytes \in Nat /\ put.old \in Nat
    BY <2>1, PutFields DEF TypeOK
  <2>3. put' \in [at: {"stat", "rename", "add", "check"}, tile: Tiles,
                  temp: Temps, bytes: Bytes, old: Bytes \cup {0}, late: BOOLEAN]
    BY <2>1, <2>2
  <2>4. size \in Int /\ slack \in Nat
    BY DEF TypeOK
  <2>5. size' \in Int /\ slack' \in Nat
    BY <2>1, <2>2, <2>4
  <2>6. QED
    BY <2>1, <2>3, <2>5 DEF TypeOK
<1>6. CASE PutEnds
  BY <1>6, StartType DEF PutEnds
<1>7. QED
  BY <1>1, <1>2, <1>3, <1>4, <1>5, <1>6 DEF PutStep

Entry(p) == [path |-> p, bytes |-> files[p].bytes, mod |-> files[p].mod]

LEMMA VisitFacts ==
    ASSUME TypeOK, CacheAssumptions, NEW w \in Walks, w.rest # <<>>
    PROVE  /\ Head(w.rest) \in Paths /\ Tail(w.rest) \in Seq(Paths)
           /\ Visited(w) \in Walks
           /\ Visited(w).at = w.at /\ Visited(w).rest = Tail(w.rest)
           /\ Head(w.rest) \in DOMAIN files =>
                 /\ Entry(Head(w.rest)) \in Entries
                 /\ Visited(w).seen = w.seen \cup {Entry(Head(w.rest))}
                 /\ Visited(w).total = w.total + files[Head(w.rest)].bytes
           /\ Head(w.rest) \notin DOMAIN files =>
                 Visited(w).seen = w.seen /\ Visited(w).total = w.total
<1> DEFINE p == Head(w.rest)
<1>1. /\ w = [at |-> w.at, rest |-> w.rest, seen |-> w.seen, total |-> w.total]
      /\ w.at \in {"walk", "remove", "check", "end"}
      /\ w.rest \in Seq(Paths) /\ w.seen \in SUBSET Entries /\ w.total \in Nat
  BY DEF Walks
<1>2. p \in Paths /\ Tail(w.rest) \in Seq(Paths)
  BY <1>1
<1>3. p \in DOMAIN files => Entry(p) \in Entries /\ files[p].bytes \in Nat
  BY <1>2, FilesHeavy DEF Entries, Entry
<1>4. Visited(w) = IF p \in DOMAIN files
                   THEN [w EXCEPT !.rest = Tail(w.rest),
                                  !.seen = w.seen \cup {Entry(p)},
                                  !.total = w.total + files[p].bytes]
                   ELSE [w EXCEPT !.rest = Tail(w.rest)]
  BY DEF Visited, Entry
<1> HIDE DEF p
<1>5. CASE p \in DOMAIN files
  <2>1. w.seen \cup {Entry(p)} \in SUBSET Entries /\ w.total + files[p].bytes \in Nat
    BY <1>1, <1>3, <1>5
  <2>2. Visited(w) = [w EXCEPT !.rest = Tail(w.rest),
                               !.seen = w.seen \cup {Entry(p)},
                               !.total = w.total + files[p].bytes]
    BY <1>4, <1>5
  <2>3. /\ Visited(w) \in Walks
        /\ Visited(w).at = w.at /\ Visited(w).rest = Tail(w.rest)
        /\ Visited(w).seen = w.seen \cup {Entry(p)}
        /\ Visited(w).total = w.total + files[p].bytes
    BY <1>2, <2>1, <2>2 DEF Walks
  <2>4. QED
    BY <1>2, <1>3, <1>5, <2>3 DEF p
<1>6. CASE p \notin DOMAIN files
  <2>1. Visited(w) = [w EXCEPT !.rest = Tail(w.rest)]
    BY <1>4, <1>6
  <2>2. /\ Visited(w) \in Walks
        /\ Visited(w).at = w.at /\ Visited(w).rest = Tail(w.rest)
        /\ Visited(w).seen = w.seen /\ Visited(w).total = w.total
    BY <1>2, <2>1 DEF Walks
  <2>3. QED
    BY <1>2, <1>6, <2>2 DEF p
<1>7. QED
  BY <1>5, <1>6

LEMMA ScanType ==
    ASSUME TypeOK, CacheAssumptions, ScanStep
    PROVE  TypeOK'
<1> USE DEF bounds
<1>1. scan.at # "idle" => scan \in Walks
  BY WalkFields DEF TypeOK, Idle
<1>2. CASE ScanVisits
  <2>1. /\ scan.at = "walk" /\ scan.rest # <<>>
        /\ scan' = [Visited(scan) EXCEPT !.seen = {}]
        /\ UNCHANGED <<files, size, sweeping, put, sweep, writes, stuck, slack>>
    BY <1>2 DEF ScanVisits
  <2>2. Visited(scan) \in Walks
    BY <1>1, <2>1, VisitFacts
  <2>3. scan' \in Walks
    BY <2>1, <2>2 DEF Walks
  <2>4. QED
    BY <2>1, <2>3 DEF TypeOK
<1>3. CASE ScanStores
  <2>1. /\ scan.at = "walk" /\ size' = scan.total
        /\ scan' = [scan EXCEPT !.at = "check"]
        /\ UNCHANGED <<files, sweeping, put, sweep, writes, stuck, slack>>
    BY <1>3 DEF ScanStores
  <2>2. scan \in Walks /\ scan.total \in Nat
    BY <1>1, <2>1 DEF Walks
  <2>3. scan' \in Walks /\ size' \in Int
    BY <2>1, <2>2 DEF Walks
  <2>4. QED
    BY <2>1, <2>3 DEF TypeOK
<1>4. CASE ScanEnds
  BY <1>4, StartType DEF ScanEnds
<1>5. QED
  BY <1>2, <1>3, <1>4 DEF ScanStep

LEMMA SweepType ==
    ASSUME TypeOK, ListInv, CacheAssumptions, SweepStep
    PROVE  TypeOK'
<1> USE DEF bounds
<1>1. sweep.at # "idle" => sweep \in Walks
  BY WalkFields DEF TypeOK, Idle
<1>2. ASSUME sweep \in Walks, sweep' \in Walks, sweeping' = sweeping
      PROVE  sweep' \in {Idle} \cup Walks /\ sweeping' \in BOOLEAN
             /\ sweeping' = (sweep' # Idle)
  <2>1. sweep # Idle /\ sweep' # Idle
    BY <1>2 DEF Walks, Idle
  <2>2. QED
    BY <1>2, <2>1 DEF TypeOK
<1>3. CASE SweepVisits
  <2>1. /\ sweep.at = "walk" /\ sweep.rest # <<>> /\ sweep' = Visited(sweep)
        /\ UNCHANGED <<files, size, sweeping, put, scan, writes, stuck, slack>>
    BY <1>3 DEF SweepVisits
  <2>2. sweep \in Walks /\ sweep' \in Walks
    BY <1>1, <2>1, VisitFacts
  <2>3. QED
    BY <1>2, <2>1, <2>2 DEF TypeOK
<1>4. CASE SweepCounted \/ SweepStores
  <2>1. /\ sweep.at \in {"walk", "remove"} /\ size' = sweep.total
        /\ \E where \in {"end", "remove"} : sweep' = [sweep EXCEPT !.at = where]
        /\ UNCHANGED <<files, sweeping, put, scan, writes, stuck, slack>>
    BY <1>4 DEF SweepCounted, SweepStores
  <2>2. sweep \in Walks /\ sweep' \in Walks /\ size' \in Int
    BY <1>1, <2>1 DEF Walks
  <2>3. QED
    BY <1>2, <2>1, <2>2 DEF TypeOK
<1>5. ASSUME More, NEW e \in sweep.seen, SweepRemoves(e)
      PROVE  TypeOK'
  <2>1. /\ sweep.at = "remove" /\ files' = Without({e.path})
        /\ sweep' = [sweep EXCEPT !.seen = @ \ {e}, !.total = @ - e.bytes]
        /\ UNCHANGED <<size, sweeping, put, scan, writes, stuck, slack>>
    BY <1>5 DEF More, SweepRemoves
  <2>2. /\ sweep \in Walks /\ e \in Entries /\ e.bytes \in Nat
        /\ sweep.seen \in SUBSET Entries /\ sweep.total \in Nat
    BY <1>1, <1>5, <2>1, PathsFinite DEF Walks, Entries
  <2>3. sweep.total - e.bytes \in Nat
    <3>1. IsFiniteSet(sweep.seen) /\ SeenBytes(sweep.seen) <= sweep.total
      BY <2>1 DEF ListInv
    <3>2. /\ SeenBytes(sweep.seen) = SeenBytes(sweep.seen \ {e}) + e.bytes
          /\ SeenBytes(sweep.seen \ {e}) \in Nat
      BY <1>5, <2>2, <3>1, SeenSplit, SeenMonotone
    <3>3. QED
      BY <2>2, <3>1, <3>2
  <2>4. sweep' \in Walks
    BY <2>1, <2>2, <2>3 DEF Walks
  <2>5. DOMAIN files' \subseteq Paths /\ files' \in [DOMAIN files' -> Files]
    BY <2>1, WithoutType
  <2>6. QED
    BY <1>2, <2>1, <2>2, <2>4, <2>5 DEF TypeOK
<1>6. ASSUME More, NEW e \in sweep.seen, SweepPassesOver(e)
      PROVE  TypeOK'
  <2>1. /\ sweep.at = "remove"
        /\ sweep' = [sweep EXCEPT !.seen = @ \ {e}]
        /\ UNCHANGED <<files, size, sweeping, put, scan, writes>>
    BY <1>6 DEF More, SweepPassesOver
  <2>2. sweep \in Walks /\ sweep' \in Walks
    BY <1>1, <2>1 DEF Walks
  <2>3. stuck' \in 0 .. MaxStuck /\ slack' \in Nat
    <3>1. stuck \in 0 .. MaxStuck /\ slack \in Nat /\ MaxStuck \in Nat
      BY PathsFinite DEF TypeOK
    <3>2. CASE e.path \in DOMAIN files
      <4>1. /\ stuck < MaxStuck /\ stuck' = stuck + 1
            /\ slack' = slack + files[e.path].bytes /\ files[e.path].bytes \in Nat
        BY <1>6, <3>2, FilesHeavy DEF SweepPassesOver
      <4>2. QED
        BY <3>1, <4>1
    <3>3. CASE e.path \notin DOMAIN files
      BY <1>6, <3>1, <3>3 DEF SweepPassesOver
    <3>4. QED
      BY <3>2, <3>3
  <2>4. QED
    BY <1>2, <2>1, <2>2, <2>3 DEF TypeOK
<1>7. CASE SweepEnds
  <2>1. /\ sweep' = Idle /\ sweeping' = FALSE
        /\ UNCHANGED <<files, size, put, scan, writes, stuck, slack>>
    BY <1>7 DEF SweepEnds
  <2>2. QED
    BY <2>1 DEF TypeOK
<1>8. QED
  BY <1>3, <1>4, <1>5, <1>6, <1>7 DEF SweepStep, Oldest

-----------------------------------------------------------------------------
(***************************************************************************)
(* The put under way.  Its own file, under its temporary name and then     *)
(* under that of the tile, is not counted until Add; a put that began      *)
(* while nothing was counted or swept (InTime) meets no walk before its    *)
(* end, since only its own end can start one.                              *)
(***************************************************************************)
Own ==
    IF put.at \in {"stat", "rename"} THEN {put.temp}
    ELSE IF put.at = "add" THEN {put.tile} ELSE {}
InTime == put # Idle /\ ~put.late

PutInv ==
    /\ InTime => ~Busy
    /\ put.at \in {"stat", "rename"} /\ put.temp \in DOMAIN files
          => files[put.temp].bytes = put.bytes
    /\ put.at = "add" /\ put.tile \in DOMAIN files
          => files[put.tile].bytes = put.bytes
    /\ put.at = "rename" /\ InTime => put.old = Old(put.tile)

\* Once it has its file, a put only moves it.
Moves == PutFails \/ Stat \/ Rename \/ \E t \in Tiles, n \in Bytes : CreateTemp(t, n)

LEMMA Replaces ==
    ASSUME TypeOK, CacheAssumptions, Rename
    PROVE  /\ put.at = "rename" /\ put'.at = "add" /\ put'.tile = put.tile
           /\ put'.bytes = put.bytes /\ put'.old = put.old /\ put'.late = put.late
           /\ put.temp \in DOMAIN files /\ files'[put.tile] = files[put.temp]
           /\ put.tile \in DOMAIN files'
           /\ \A p \in DOMAIN files' : p # put.tile =>
                 p # put.temp /\ p \in DOMAIN files /\ files'[p] = files[p]
           /\ UNCHANGED <<size, sweeping, sweep, scan, writes, stuck, slack>>
<1>1. /\ put.at = "rename" /\ put.temp \in DOMAIN files
      /\ files' = [q \in (DOMAIN files \cup {put.tile}) \ {put.temp} |->
                      IF q = put.tile THEN files[put.temp] ELSE files[q]]
      /\ put' = [put EXCEPT !.at = "add"]
      /\ UNCHANGED <<size, sweeping, sweep, scan, writes, stuck, slack>>
  BY DEF Rename, bounds
<1>2. /\ put \in [at: {"stat", "rename", "add", "check"}, tile: Tiles,
                  temp: Temps, bytes: Bytes, old: Bytes \cup {0}, late: BOOLEAN]
      /\ put.tile # put.temp
  BY <1>1, PutFields DEF TypeOK
<1>3. /\ put'.at = "add" /\ put'.tile = put.tile /\ put'.bytes = put.bytes
      /\ put'.old = put.old /\ put'.late = put.late
  BY <1>1, <1>2
<1>4. /\ DOMAIN files' = (DOMAIN files \cup {put.tile}) \ {put.temp}
      /\ \A q \in DOMAIN files' :
            files'[q] = IF q = put.tile THEN files[put.temp] ELSE files[q]
  BY <1>1
<1>5. QED
  BY <1>1, <1>2, <1>3, <1>4

LEMMA Adds ==
    ASSUME TypeOK, CacheAssumptions, Add
    PROVE  /\ put.at = "add" /\ put'.at = "check" /\ put' # Idle
           /\ put'.bytes = put.bytes /\ put'.late = put.late
           /\ size' = size + put.bytes - put.old
           /\ InTime => slack' = slack
           /\ ~InTime => slack' = slack + put.bytes + put.old
           /\ UNCHANGED <<files, sweeping, sweep, scan, writes, stuck>>
<1>1. /\ put.at = "add" /\ size' = size + put.bytes - put.old
      /\ put' = [put EXCEPT !.at = "check"]
      /\ UNCHANGED <<files, sweeping, sweep, scan, writes, stuck>>
  BY DEF Add, bounds
<1>2. /\ put \in [at: {"stat", "rename", "add", "check"}, tile: Tiles,
                  temp: Temps, bytes: Bytes, old: Bytes \cup {0}, late: BOOLEAN]
      /\ put # Idle
  BY <1>1, PutFields DEF TypeOK
<1>3. put'.at = "check" /\ put'.bytes = put.bytes /\ put'.late = put.late
  BY <1>1, <1>2
<1>4. put' # Idle
  BY <1>3 DEF Idle
<1>5. /\ InTime => slack' = slack
      /\ ~InTime => slack' = slack + put.bytes + put.old
  BY <1>2, Zenon DEF Add, InTime
<1>6. QED
  BY <1>1, <1>3, <1>4, <1>5

LEMMA Creates ==
    ASSUME TypeOK, CacheAssumptions, NEW t \in Tiles, NEW n \in Bytes,
           CreateTemp(t, n)
    PROVE  /\ put = Idle /\ put'.at = "stat" /\ put' # Idle
           /\ put'.temp \notin DOMAIN files /\ put'.bytes = n
           /\ put'.late <=> Busy
           /\ put'.temp \in DOMAIN files' /\ files'[put'.temp].bytes = n
           /\ \A p \in DOMAIN files' : p # put'.temp =>
                 p \in DOMAIN files /\ files'[p] = files[p]
           /\ UNCHANGED <<size, sweeping, sweep, scan, stuck, slack>>
<1>1. PICK p \in Temps \ DOMAIN files :
         /\ files' = [q \in DOMAIN files \cup {p} |->
                         IF q = p THEN [bytes |-> n, mod |-> writes + 1]
                         ELSE files[q]]
         /\ put' = [at |-> "stat", tile |-> t, temp |-> p, bytes |-> n,
                    old |-> 0, late |-> Busy]
  BY DEF CreateTemp, Put
<1>2. put = Idle /\ UNCHANGED <<size, sweeping, sweep, scan, stuck, slack>>
  BY DEF CreateTemp
<1>3. put'.at = "stat" /\ put'.temp = p /\ put'.bytes = n /\ put' # Idle
  BY <1>1 DEF Idle
<1>4. put'.late = Busy
  BY <1>1, Zenon
<1>5. /\ p \in DOMAIN files' /\ files'[p].bytes = n
      /\ \A q \in DOMAIN files' : q # p => q \in DOMAIN files /\ files'[q] = files[q]
  BY <1>1
<1>6. QED
  BY <1>1, <1>2, <1>3, <1>4, <1>5

LEMMA Stats ==
    ASSUME TypeOK, CacheAssumptions, Stat
    PROVE  /\ put.at = "stat" /\ put'.at = "rename" /\ put'.temp = put.temp
           /\ put'.tile = put.tile /\ put'.bytes = put.bytes
           /\ put'.late = put.late /\ put'.old = Old(put.tile) /\ put' # Idle
           /\ UNCHANGED <<files, size, sweeping, sweep, scan, writes, stuck, slack>>
<1>1. /\ put.at = "stat" /\ put' = [put EXCEPT !.at = "rename", !.old = Old(put.tile)]
      /\ UNCHANGED <<files, size, sweeping, sweep, scan, writes, stuck, slack>>
  BY DEF Stat, bounds
<1>2. put \in [at: {"stat", "rename", "add", "check"}, tile: Tiles,
               temp: Temps, bytes: Bytes, old: Bytes \cup {0}, late: BOOLEAN]
  BY <1>1, PutFields DEF TypeOK
<1> DEFINE old == Old(put.tile)
<1> HIDE DEF old
<1>3. put' = [put EXCEPT !.at = "rename", !.old = old]
  BY <1>1 DEF old
<1>4. /\ put'.at = "rename" /\ put'.temp = put.temp /\ put'.tile = put.tile
      /\ put'.bytes = put.bytes /\ put'.late = put.late /\ put'.old = old
  BY <1>2, <1>3
<1>5. put' # Idle
  BY <1>4 DEF Idle
<1>6. QED
  BY <1>1, <1>4, <1>5 DEF old

LEMMA Fails ==
    ASSUME TypeOK, CacheAssumptions, PutFails
    PROVE  /\ put.at \in {"stat", "rename"} /\ put' = Idle /\ put'.at = "idle"
           /\ \A p \in DOMAIN files' :
                 p # put.temp /\ p \in DOMAIN files /\ files'[p] = files[p]
           /\ UNCHANGED <<size, sweeping, sweep, scan, writes, stuck, slack>>
BY DEF PutFails, Without, Idle, bounds

LEMMA HeavyNext ==
    ASSUME TypeOK', CacheAssumptions PROVE Heavy(files')
<1>1. DOMAIN files' \subseteq Paths /\ \A p \in DOMAIN files' : files'[p] \in Files
  BY DEF TypeOK
<1>2. IsFiniteSet(DOMAIN files')
  BY <1>1, PathsFinite, FS_Subset
<1>3. \A p \in DOMAIN files' : files'[p].bytes \in Nat
  BY <1>1, PathsFinite DEF Files
<1>4. QED
  BY <1>2, <1>3 DEF Heavy

\* What is settled on the disk never grows, but when a put adds its file.
LEMMA SettledMoves ==
    ASSUME TypeOK, TypeOK', CacheAssumptions, Moves, NEW P
    PROVE  Weight(files', P \ Own') <= Weight(files, P \ Own)
<1>1. Heavy(files) /\ Heavy(files')
  BY FilesHeavy, HeavyNext
<1>2. \A p \in (P \ Own') \cap DOMAIN files' :
         p \in (P \ Own) \cap DOMAIN files /\ files'[p] = files[p]
  <2>1. ASSUME NEW t \in Tiles, NEW n \in Bytes, CreateTemp(t, n),
               NEW p \in (P \ Own') \cap DOMAIN files'
        PROVE  p \in (P \ Own) \cap DOMAIN files /\ files'[p] = files[p]
    <3>1. put.at = "idle" /\ put'.at = "stat"
      BY <2>1, Creates DEF Idle
    <3>2. Own = {} /\ Own' = {put'.temp}
      BY <3>1 DEF Own
    <3>3. QED
      BY <2>1, <3>2, Creates
  <2>2. ASSUME PutFails, NEW p \in (P \ Own') \cap DOMAIN files'
        PROVE  p \in (P \ Own) \cap DOMAIN files /\ files'[p] = files[p]
    <3>1. Own = {put.temp}
      BY <2>2, Fails DEF Own
    <3>2. QED
      BY <2>2, <3>1, Fails
  <2>3. ASSUME Stat, NEW p \in (P \ Own') \cap DOMAIN files'
        PROVE  p \in (P \ Own) \cap DOMAIN files /\ files'[p] = files[p]
    <3>1. Own' = Own
      BY <2>3, Stats DEF Own
    <3>2. QED
      BY <2>3, <3>1, Stats
  <2>4. ASSUME Rename, NEW p \in (P \ Own') \cap DOMAIN files'
        PROVE  p \in (P \ Own) \cap DOMAIN files /\ files'[p] = files[p]
    <3>1. Own = {put.temp} /\ Own' = {put.tile}
      BY <2>4, Replaces DEF Own
    <3>2. QED
      BY <2>4, <3>1, Replaces
  <2>5. QED
    BY <2>1, <2>2, <2>3, <2>4 DEF Moves
<1>3. \A p \in DOMAIN files' : files'[p].bytes \in Nat
  BY <1>1 DEF Heavy
<1>4. \A p \in (P \ Own') \cap DOMAIN files' :
         p \in (P \ Own) \cap DOMAIN files /\ files'[p].bytes <= files[p].bytes
  BY <1>2, <1>3
<1>5. QED
  BY <1>1, <1>4, WeightMonotone

LEMMA SettledAdd ==
    ASSUME TypeOK, CacheAssumptions, PutInv, put.at = "add", NEW P
    PROVE  Weight(files, P) <= Weight(files, P \ Own) + put.bytes
<1>1. /\ Own = {put.tile} /\ put.bytes \in Nat
      /\ put.tile \in DOMAIN files => files[put.tile].bytes = put.bytes
  BY PutFields DEF Own, PutInv
<1>2. BytesIn(files, put.tile) \in Nat /\ BytesIn(files, put.tile) <= put.bytes
  BY <1>1 DEF BytesIn
<1>3. Heavy(files) /\ Weight(files, P) \in Nat /\ Weight(files, P \ Own) \in Nat
  BY FilesHeavy, HeapFinite
<1>4. CASE put.tile \in P
  <2>1. Weight(files, P) = Weight(files, P \ {put.tile}) + BytesIn(files, put.tile)
    BY <1>3, <1>4, WeightSplit
  <2>2. QED
    BY <1>1, <1>2, <1>3, <2>1
<1>5. CASE put.tile \notin P
  <2>1. P \ Own = P
    BY <1>1, <1>5
  <2>2. Weight(files, P \ Own) = Weight(files, P)
    BY <2>1, Zenon
  <2>3. \A w \in Nat, m \in Nat : w <= w + m
    OBVIOUS
  <2>4. QED
    BY <1>1, <1>3, <2>2, <2>3
<1>6. QED
  BY <1>4, <1>5

\* A tile that is replaced is settled before, and not after.
LEMMA SettledRename ==
    ASSUME TypeOK, TypeOK', CacheAssumptions, Rename
    PROVE  Weight(files', Paths \ Own') + Old(put.tile) <= Weight(files, Paths \ Own)
<1>1. /\ put.tile \in Paths /\ put.temp \in Paths /\ put.tile # put.temp
      /\ Own = {put.temp} /\ Own' = {put.tile}
  BY PutFields, Replaces DEF Own
<1>2. Heavy(files) /\ Old(put.tile) = BytesIn(files, put.tile)
  BY FilesHeavy DEF Old, BytesIn
<1>3. Weight(files, Paths \ {put.temp})
         = Weight(files, (Paths \ {put.temp}) \ {put.tile}) + Old(put.tile)
  BY <1>1, <1>2, WeightSplit
<1>4. Weight(files', (Paths \ {put.tile}) \ Own')
         <= Weight(files, (Paths \ {put.tile}) \ Own)
  BY SettledMoves DEF Moves
<1>5. /\ (Paths \ {put.tile}) \ Own' = Paths \ Own'
      /\ (Paths \ {put.tile}) \ Own = (Paths \ {put.temp}) \ {put.tile}
  BY <1>1
<1>6. /\ Weight(files', Paths \ Own') \in Nat
      /\ Weight(files, (Paths \ {put.temp}) \ {put.tile}) \in Nat
      /\ Old(put.tile) \in Nat
  <2>1. Heavy(files')
    BY HeavyNext
  <2>2. Old(put.tile) \in Nat
    BY FilesHeavy DEF Old
  <2>3. QED
    BY <1>2, <2>1, <2>2, HeapFinite
<1>7. Weight(files', Paths \ Own')
         <= Weight(files, (Paths \ {put.temp}) \ {put.tile})
  BY <1>4, <1>5, Zenon
<1>8. Weight(files, Paths \ Own) = Weight(files, Paths \ {put.temp})
  BY <1>1, Zenon
<1> DEFINE a == Weight(files', Paths \ Own')
<1> DEFINE d == Weight(files, (Paths \ {put.temp}) \ {put.tile})
<1> DEFINE o == Old(put.tile)
<1>9. /\ a \in Nat /\ d \in Nat /\ o \in Nat /\ a <= d
      /\ Weight(files, Paths \ Own) = d + o
  BY <1>3, <1>6, <1>7, <1>8
<1> HIDE DEF a, d, o
<1>10. a + o <= Weight(files, Paths \ Own)
  BY <1>9
<1>11. QED
  BY <1>10 DEF a, o

-----------------------------------------------------------------------------
(***************************************************************************)
(* A walk knows what is settled at the paths behind it, but for slack: the *)
(* scan in its total, a sweep entry by entry, so that removing one keeps   *)
(* the account of all others.  Between walks the counter knows the whole   *)
(* disk, with the tile a put has just replaced and takes off in Add; and   *)
(* the disk is within the limit from the end of a sweep on.                *)
(***************************************************************************)
Settled(P) == Weight(files, P \ Own)

Sweeping == sweep.at \in {"walk", "remove"}
Ahead(w) == {w.rest[i] : i \in DOMAIN w.rest}
Once(w) == \A i, j \in DOMAIN w.rest : w.rest[i] = w.rest[j] => i = j
Listed == IF sweep.at = "walk" THEN Paths \ Ahead(sweep) ELSE Paths
Seen(P) == {e \in sweep.seen : e.path \in P}

SweepInv ==
    Sweeping =>
        /\ Once(sweep)
        /\ \A e \in sweep.seen : e.path \in Listed
        /\ \A P \in SUBSET Listed : Settled(P) <= SeenBytes(Seen(P)) + slack

ScanInv ==
    scan.at = "walk" =>
        Once(scan) /\ Settled(Paths \ Ahead(scan)) <= scan.total + slack

Replaced == IF put.at = "add" /\ InTime THEN put.old ELSE 0
Unchecked == IF put.at = "check" /\ InTime THEN put.bytes ELSE 0

CounterInv ==
    scan.at # "walk" /\ ~Sweeping => Settled(Paths) + Replaced <= size + slack

Cleared == sweep.at = "end" \/ (sweep.at = "idle" /\ scan.at = "idle")

DiskInv == Cleared => Settled(Paths) <= MaxBytes + slack + Unchecked

Walking == SweepInv /\ ScanInv
CacheInv == TypeOK /\ ListInv /\ PutInv /\ Walking /\ CounterInv /\ DiskInv

LEMMA SettledNat ==
    ASSUME TypeOK, CacheAssumptions, NEW P
    PROVE  Settled(P) \in Nat
BY FilesHeavy, HeapFinite DEF Settled

LEMMA NoWalk ==
    ASSUME TypeOK, CacheAssumptions
    PROVE  /\ sweep.at = "idle" <=> sweep = Idle
           /\ scan.at = "idle" <=> scan = Idle
           /\ Busy <=> scan.at # "idle" \/ sweep.at # "idle"
           /\ sweeping <=> sweep.at # "idle"
<1>1. /\ sweep.at = "idle" <=> sweep = Idle
      /\ scan.at = "idle" <=> scan = Idle
  BY WalkFields DEF TypeOK
<1>2. sweeping = (sweep # Idle)
  BY DEF TypeOK
<1>3. QED
  BY <1>1, <1>2, Zenon DEF Busy

LEMMA CountsNat ==
    ASSUME TypeOK, CacheAssumptions
    PROVE  /\ Replaced \in Nat /\ Unchecked \in Nat
           /\ size \in Int /\ slack \in Nat /\ MaxBytes \in Nat
<1>1. put.at # "idle" => put.old \in Nat /\ put.bytes \in Nat
  BY PutFields
<1>2. put.at = "add" \/ put.at = "check" => put.at # "idle"
  OBVIOUS
<1>3. Replaced \in Nat /\ Unchecked \in Nat
  BY <1>1, <1>2 DEF Replaced, Unchecked
<1>4. QED
  BY <1>3, PathsFinite DEF TypeOK

\* A walk goes on as it was while its slack and what is settled allow it.
LEMMA SweepStays ==
    ASSUME TypeOK, TypeOK', CacheAssumptions, SweepInv, ListInv, sweep' = sweep,
           slack <= slack', \A P : Weight(files', P \ Own') <= Settled(P)
    PROVE  SweepInv' /\ ListInv'
<1> SUFFICES ASSUME Sweeping'
             PROVE  /\ Once(sweep)'
                    /\ \A e \in sweep'.seen : e.path \in Listed'
                    /\ \A P \in SUBSET Listed' :
                          Weight(files', P \ Own') <= SeenBytes(Seen(P)') + slack'
  BY DEF SweepInv, Settled, ListInv
<1>1. Sweeping /\ Listed' = Listed /\ (Once(sweep)' <=> Once(sweep))
  BY DEF Sweeping, Listed, Once, Ahead
<1>2. IsFiniteSet(sweep.seen) /\ sweep.seen \in SUBSET Entries
  BY <1>1, WalkFields DEF ListInv, Sweeping, TypeOK
<1>3. slack \in Nat /\ slack' \in Nat
  BY DEF TypeOK
<1>4. ASSUME NEW P \in SUBSET Listed
      PROVE  Weight(files', P \ Own') <= SeenBytes(Seen(P)') + slack'
  <2>1. Seen(P)' = Seen(P)
    BY DEF Seen
  <2>2. Settled(P) <= SeenBytes(Seen(P)) + slack
    BY <1>1 DEF SweepInv
  <2>3. SeenBytes(Seen(P)) \in Nat /\ Settled(P) \in Nat
    BY <1>2, SeenMonotone, SettledNat DEF Seen
  <2>4. Weight(files', P \ Own') \in Nat /\ Weight(files', P \ Own') <= Settled(P)
    BY HeavyNext, HeapFinite
  <2>5. QED
    BY <1>3, <2>1, <2>2, <2>3, <2>4
<1>5. QED
  BY <1>1, <1>4 DEF SweepInv

LEMMA ScanStays ==
    ASSUME TypeOK, TypeOK', CacheAssumptions, ScanInv, scan' = scan,
           slack <= slack', \A P : Weight(files', P \ Own') <= Settled(P)
    PROVE  ScanInv'
<1> SUFFICES ASSUME scan'.at = "walk"
             PROVE  /\ Once(scan)'
                    /\ Weight(files', (Paths \ Ahead(scan')) \ Own')
                          <= scan'.total + slack'
  BY DEF ScanInv, Settled, Ahead
<1>1. /\ Once(scan) /\ scan.total \in Nat
      /\ Settled(Paths \ Ahead(scan)) <= scan.total + slack
  BY WalkFields DEF ScanInv, TypeOK
<1>2. Once(scan)'
  BY <1>1 DEF Once
<1>3. slack \in Nat /\ slack' \in Nat
  BY DEF TypeOK
<1>4. \A P : Settled(P) \in Nat /\ Weight(files', P \ Own') \in Nat
  BY HeavyNext, HeapFinite, SettledNat
<1>5. QED
  BY <1>1, <1>2, <1>3, <1>4

\* A step of a put before its file is added.
LEMMA MovesRest ==
    ASSUME TypeOK, CacheAssumptions, Moves
    PROVE  /\ UNCHANGED <<size, sweeping, sweep, scan, slack>>
           /\ put.at \in {"idle", "stat", "rename"}
           /\ put'.at \in {"idle", "stat", "rename", "add"}
           /\ put'.at = "add" => Rename
<1>1. ASSUME NEW t \in Tiles, NEW n \in Bytes, CreateTemp(t, n)
      PROVE  /\ UNCHANGED <<size, sweeping, sweep, scan, slack>>
             /\ put.at = "idle" /\ put'.at = "stat"
  BY <1>1, Creates DEF Idle
<1>2. QED
  BY <1>1, Fails, Stats, Replaces DEF Moves

LEMMA PutInvMoves ==
    ASSUME TypeOK, TypeOK', CacheAssumptions, PutInv, Moves
    PROVE  PutInv'
<1>0. scan' = scan /\ sweeping' = sweeping
  BY MovesRest
<1>1. Busy' <=> Busy
  BY <1>0, Zenon DEF Busy
<1>2. ASSUME NEW t \in Tiles, NEW n \in Bytes, CreateTemp(t, n) PROVE PutInv'
  BY <1>1, <1>2, Creates DEF PutInv, InTime
<1>3. CASE PutFails
  <2>1. put'.at = "idle" /\ put' = Idle
    BY <1>3, Fails
  <2>2. ~InTime'
    BY <2>1, Zenon DEF InTime
  <2>3. QED
    BY <2>1, <2>2 DEF PutInv
<1>4. CASE Stat
  <2>1. InTime' <=> InTime
    <3>1. put # Idle /\ put' # Idle /\ put'.late = put.late
      BY <1>4, Stats DEF Idle
    <3>2. QED
      BY <3>1, Zenon DEF InTime
  <2>2. Old(put.tile)' = Old(put.tile)
    BY <1>4, Stats DEF Old
  <2>3. QED
    BY <1>1, <1>4, <2>1, <2>2, Stats DEF PutInv
<1>5. CASE Rename
  <2>1. InTime' <=> InTime
    <3>1. put # Idle /\ put' # Idle /\ put'.late = put.late
      BY <1>5, Replaces DEF Idle
    <3>2. QED
      BY <3>1, Zenon DEF InTime
  <2>2. QED
    BY <1>1, <1>5, <2>1, Replaces DEF PutInv
<1>6. QED
  BY <1>2, <1>3, <1>4, <1>5 DEF Moves

LEMMA MovesStep ==
    ASSUME TypeOK', CacheAssumptions, CacheInv, Moves
    PROVE  CacheInv'
<1>1. TypeOK /\ ListInv /\ PutInv /\ Walking /\ CounterInv /\ DiskInv
  BY DEF CacheInv
<1>2. /\ UNCHANGED <<size, sweeping, sweep, scan, slack>>
      /\ put.at \in {"idle", "stat", "rename"}
      /\ put'.at \in {"idle", "stat", "rename", "add"}
      /\ put'.at = "add" => Rename
  BY <1>1, MovesRest
<1>3. \A P : /\ Settled(P) \in Nat /\ Weight(files', P \ Own') \in Nat
             /\ Weight(files', P \ Own') <= Settled(P)
  BY <1>1, SettledNat, SettledMoves, HeavyNext, HeapFinite DEF Settled
<1>4. Replaced = 0 /\ Unchecked = 0 /\ Unchecked' = 0
  BY <1>2 DEF Replaced, Unchecked
<1>5. slack \in Nat /\ size \in Int /\ MaxBytes \in Nat
  BY <1>1, CountsNat
<1>6. ListInv'
  BY <1>1, <1>2 DEF ListInv
<1>7. PutInv'
  BY <1>1, PutInvMoves
<1>8. SweepInv'
  BY <1>1, <1>2, <1>3, <1>5, SweepStays DEF Walking
<1>9. ScanInv'
  BY <1>1, <1>2, <1>3, <1>5, ScanStays DEF Walking
<1>10. CounterInv'
  <2> SUFFICES ASSUME scan'.at # "walk", ~Sweeping'
               PROVE  Weight(files', Paths \ Own') + Replaced' <= size' + slack'
    BY DEF CounterInv, Settled
  <2>1. Settled(Paths) <= size + slack
    <3>1. scan.at # "walk" /\ ~Sweeping
      BY <1>2 DEF Sweeping
    <3>2. Settled(Paths) + Replaced <= size + slack
      BY <1>1, <3>1 DEF CounterInv
    <3>3. Settled(Paths) \in Nat
      BY <1>3
    <3>4. QED
      BY <1>4, <1>5, <3>2, <3>3
  <2>2. CASE put'.at = "add" /\ InTime'
    <3>1. Rename
      BY <1>2, <2>2
    <3>2. InTime /\ put.at = "rename" /\ put'.old = put.old
      BY <2>2, <3>1, <1>1, Replaces DEF InTime, Idle
    <3>3. put.old = Old(put.tile)
      BY <1>1, <3>2 DEF PutInv
    <3>4. Replaced' = Old(put.tile)
      BY <2>2, <3>2, <3>3 DEF Replaced
    <3>5. Weight(files', Paths \ Own') + Old(put.tile) <= Settled(Paths)
      BY <1>1, <3>1, SettledRename DEF Settled
    <3>6. Old(put.tile) \in Nat
      BY <1>1, FilesHeavy DEF Old
    <3>7. QED
      BY <1>2, <1>3, <1>5, <2>1, <3>4, <3>5, <3>6
  <2>3. CASE ~(put'.at = "add" /\ InTime')
    <3>1. Replaced' = 0
      BY <2>3 DEF Replaced
    <3>2. QED
      BY <1>2, <1>3, <1>5, <2>1, <3>1
  <2>4. QED
    BY <2>2, <2>3
<1>11. DiskInv'
  <2> SUFFICES ASSUME Cleared'
               PROVE  Weight(files', Paths \ Own') <= MaxBytes + slack' + Unchecked'
    BY DEF DiskInv, Settled
  <2>1. Cleared
    BY <1>2 DEF Cleared
  <2>2. Settled(Paths) <= MaxBytes + slack + 0
    BY <1>1, <1>4, <2>1 DEF DiskInv
  <2>3. QED
    BY <1>2, <1>3, <1>4, <1>5, <2>2
<1>12. QED
  BY <1>6, <1>7, <1>8, <1>9, <1>10, <1>11 DEF CacheInv, Walking

\* A walk that has begun has listed nothing, and has everything ahead.
LEMMA WalkBegins ==
    ASSUME CacheAssumptions
    PROVE  /\ Walk \in Walks /\ Walk # Idle /\ Walk.at = "walk"
           /\ Once(Walk) /\ Paths \ Ahead(Walk) = {}
           /\ Walk.seen = {} /\ Walk.total = 0
           /\ IsFiniteSet(Walk.seen) /\ SeenBytes({}) = 0
<1>1. /\ Walk.at = "walk" /\ Walk.rest = Order /\ Walk.seen = {} /\ Walk.total = 0
      /\ Walk \in Walks /\ Walk # Idle
  BY PathsFinite DEF Walk, Walks, Idle
<1>2. Once(Walk)
  BY <1>1 DEF Once, CacheAssumptions, PathsAssumption
<1>3. \A p \in Paths : \E i \in DOMAIN Order : Order[i] = p
  BY DEF CacheAssumptions, PathsAssumption, Paths
<1>4. Paths \ Ahead(Walk) = {}
  BY <1>1, <1>3 DEF Ahead
<1>5. SeenBytes({}) = 0
  BY WeightNone DEF SeenBytes
<1>6. QED
  BY <1>1, <1>2, <1>4, <1>5, FS_EmptySet

LEMMA SweepBegins ==
    ASSUME TypeOK', CacheAssumptions, sweep' = Walk
    PROVE  SweepInv' /\ ListInv'
<1>0. slack' \in Nat
  BY DEF TypeOK
<1>1. /\ sweep'.at = "walk" /\ Once(sweep') /\ sweep'.seen = {} /\ sweep'.total = 0
      /\ Paths \ Ahead(sweep') = {} /\ IsFiniteSet(sweep'.seen)
      /\ SeenBytes({}) = 0
  BY WalkBegins
<1>2. ListInv'
  BY <1>1 DEF ListInv
<1>3. Listed' = {} /\ \A P : Seen(P)' = {}
  BY <1>1 DEF Listed, Ahead, Seen
<1>4. ASSUME NEW P \in SUBSET Listed'
      PROVE  Weight(files', P \ Own') <= SeenBytes(Seen(P)') + slack'
  <2>1. (P \ Own') \cap DOMAIN files' = {}
    BY <1>3
  <2>2. Weight(files', P \ Own') = 0 /\ SeenBytes(Seen(P)') = 0
    BY <1>1, <1>3, <2>1, WeightNone
  <2>3. \A n \in Nat : 0 <= 0 + n
    OBVIOUS
  <2>4. QED
    BY <1>0, <2>2, <2>3, Zenon
<1>5. Once(sweep)' /\ \A e \in sweep'.seen : e.path \in Listed'
  BY <1>1 DEF Once
<1>6. QED
  BY <1>2, <1>4, <1>5 DEF SweepInv, Settled

LEMMA CacheInit ==
    ASSUME CacheAssumptions PROVE Init => CacheInv
<1> SUFFICES ASSUME Init PROVE CacheInv
  OBVIOUS
<1>1. TypeOK /\ ListInv
  BY CacheTypeInit
<1>2. /\ put = Idle /\ put.at = "idle" /\ sweep.at = "idle" /\ scan = Walk
      /\ scan.at = "walk" /\ slack = 0
  BY WalkBegins DEF Init, Idle
<1>3. ~InTime
  BY <1>2, Zenon DEF InTime
<1>4. PutInv
  BY <1>2, <1>3 DEF PutInv
<1>5. SweepInv /\ CounterInv /\ DiskInv
  BY <1>2 DEF SweepInv, Sweeping, CounterInv, DiskInv, Cleared
<1>6. ScanInv
  <2>1. Paths \ Ahead(scan) = {} /\ Once(scan) /\ scan.total = 0
    BY <1>2, WalkBegins
  <2>2. Settled({}) = 0
    BY WeightNone DEF Settled
  <2>3. QED
    BY <1>2, <2>1, <2>2 DEF ScanInv
<1>7. QED
  BY <1>1, <1>4, <1>5, <1>6 DEF CacheInv, Walking

LEMMA AddStep ==
    ASSUME TypeOK', CacheAssumptions, CacheInv, Add
    PROVE  CacheInv'
<1>1. TypeOK /\ ListInv /\ PutInv /\ Walking /\ CounterInv /\ DiskInv
  BY DEF CacheInv
<1>2. /\ put.at = "add" /\ put'.at = "check" /\ put' # Idle
      /\ put'.bytes = put.bytes /\ put'.late = put.late
      /\ size' = size + put.bytes - put.old
      /\ InTime => slack' = slack
      /\ ~InTime => slack' = slack + put.bytes + put.old
      /\ UNCHANGED <<files, sweeping, sweep, scan>>
  BY <1>1, Adds
<1>3. put # Idle /\ put.bytes \in Nat /\ put.old \in Nat
  BY <1>1, <1>2, PutFields
<1>4. InTime' <=> InTime
  <2>1. put # Idle /\ put' # Idle /\ put'.late = put.late
    BY <1>2, <1>3
  <2>2. QED
    BY <2>1, Zenon DEF InTime
<1>5. Own' = {}
  BY <1>2 DEF Own
<1>6. \A P : /\ Settled(P) \in Nat /\ Weight(files', P \ Own') \in Nat
             /\ Weight(files', P \ Own') <= Settled(P) + put.bytes
  <2>1. ASSUME NEW P
        PROVE  /\ Weight(files, P) \in Nat
               /\ Weight(files, P) <= Settled(P) + put.bytes
    BY <1>1, <1>2, SettledAdd, FilesHeavy, HeapFinite DEF Settled
  <2>2. \A P : P \ Own' = P /\ files' = files
    BY <1>2, <1>5
  <2>3. QED
    BY <1>1, <2>1, <2>2, SettledNat
<1>7. slack \in Nat /\ size \in Int /\ MaxBytes \in Nat
  BY <1>1, CountsNat
<1>8. InTime => scan.at = "idle" /\ sweep.at = "idle"
  BY <1>1, NoWalk DEF PutInv
<1>9. ListInv'
  BY <1>1, <1>2 DEF ListInv
<1>10. PutInv'
  <2>1. Busy' <=> Busy
    <3>1. scan' = scan /\ sweeping' = sweeping
      BY <1>2
    <3>2. QED
      BY <3>1, Zenon DEF Busy
  <2>2. QED
    BY <1>1, <1>2, <1>4, <2>1 DEF PutInv
<1>11. SweepInv'
  <2> SUFFICES ASSUME Sweeping'
               PROVE  /\ Once(sweep)'
                      /\ \A e \in sweep'.seen : e.path \in Listed'
                      /\ \A P \in SUBSET Listed' :
                            Weight(files', P \ Own') <= SeenBytes(Seen(P)') + slack'
    BY DEF SweepInv, Settled
  <2>1. Sweeping /\ Listed' = Listed /\ (Once(sweep)' <=> Once(sweep))
    BY <1>2 DEF Sweeping, Listed, Once, Ahead
  <2>2. slack' = slack + put.bytes + put.old
    BY <1>2, <1>8, <2>1 DEF Sweeping
  <2>3. ASSUME NEW P \in SUBSET Listed
        PROVE  Weight(files', P \ Own') <= SeenBytes(Seen(P)') + slack'
    <3>1. Seen(P)' = Seen(P)
      BY <1>2 DEF Seen
    <3>2. Settled(P) <= SeenBytes(Seen(P)) + slack
      BY <1>1, <2>1 DEF Walking, SweepInv
    <3>3. SeenBytes(Seen(P)) \in Nat
      <4>1. IsFiniteSet(sweep.seen) /\ sweep.seen \in SUBSET Entries
        BY <1>1, <2>1, WalkFields DEF ListInv, Sweeping, TypeOK
      <4>2. QED
        BY <4>1, SeenMonotone DEF Seen
    <3>4. QED
      BY <1>3, <1>6, <1>7, <2>2, <3>1, <3>2, <3>3
  <2>4. QED
    BY <1>1, <1>2, <2>1, <2>3 DEF Walking, SweepInv
<1>12. ScanInv'
  <2> SUFFICES ASSUME scan'.at = "walk"
               PROVE  /\ Once(scan)'
                      /\ Weight(files', (Paths \ Ahead(scan')) \ Own')
                            <= scan'.total + slack'
    BY DEF ScanInv, Settled, Ahead
  <2>1. /\ scan.at = "walk" /\ Once(scan) /\ scan.total \in Nat
        /\ Settled(Paths \ Ahead(scan)) <= scan.total + slack
    BY <1>1, <1>2, WalkFields DEF Walking, ScanInv, TypeOK
  <2>2. Once(scan)' /\ scan' = scan /\ slack' = slack + put.bytes + put.old
    BY <1>2, <1>8, <2>1 DEF Once
  <2>3. QED
    BY <1>3, <1>6, <1>7, <2>1, <2>2
<1>13. CounterInv'
  <2> SUFFICES ASSUME scan'.at # "walk", ~Sweeping'
               PROVE  Weight(files', Paths \ Own') + Replaced' <= size' + slack'
    BY DEF CounterInv, Settled
  <2>1. Settled(Paths) + Replaced <= size + slack
    BY <1>1, <1>2 DEF CounterInv, Sweeping
  <2>2. Replaced' = 0
    BY <1>2 DEF Replaced
  <2>3. CASE InTime
    <3>1. Replaced = put.old /\ slack' = slack
      BY <1>2, <2>3 DEF Replaced
    <3>2. QED
      BY <1>2, <1>3, <1>6, <1>7, <2>1, <2>2, <3>1
  <2>4. CASE ~InTime
    <3>1. Replaced = 0 /\ slack' = slack + put.bytes + put.old
      BY <1>2, <2>4 DEF Replaced
    <3>2. QED
      BY <1>2, <1>3, <1>6, <1>7, <2>1, <2>2, <3>1
  <2>5. QED
    BY <2>3, <2>4
<1>14. DiskInv'
  <2> SUFFICES ASSUME Cleared'
               PROVE  Weight(files', Paths \ Own') <= MaxBytes + slack' + Unchecked'
    BY DEF DiskInv, Settled
  <2>1. Settled(Paths) <= MaxBytes + slack + Unchecked
    BY <1>1, <1>2 DEF DiskInv, Cleared
  <2>2. Unchecked = 0
    BY <1>2 DEF Unchecked
  <2>3. CASE InTime
    <3>1. Unchecked' = put.bytes /\ slack' = slack
      BY <1>2, <1>4, <2>3 DEF Unchecked
    <3>2. QED
      BY <1>3, <1>6, <1>7, <2>1, <2>2, <3>1
  <2>4. CASE ~InTime
    <3>1. Unchecked' = 0 /\ slack' = slack + put.bytes + put.old
      BY <1>2, <1>4, <2>4 DEF Unchecked
    <3>2. QED
      BY <1>3, <1>6, <1>7, <2>1, <2>2, <3>1
  <2>5. QED
    BY <2>3, <2>4
<1>15. QED
  BY <1>9, <1>10, <1>11, <1>12, <1>13, <1>14 DEF CacheInv, Walking

-----------------------------------------------------------------------------
(***************************************************************************)
(* The ends of a put and of the scan: a sweep is started, or there is no   *)
(* need to, or one goes on.                                                *)
(***************************************************************************)
LEMMA Starts ==
    ASSUME TypeOK, TypeOK', CacheAssumptions, CacheInv, StartSweep,
           files' = files, size' = size, Own' = Own,
           InTime => put.at = "check", ~InTime',
           scan' = scan \/ (scan.at = "check" /\ scan' = Idle)
    PROVE  ListInv' /\ Walking' /\ CounterInv' /\ DiskInv'
<1>1. /\ ListInv /\ PutInv /\ SweepInv /\ ScanInv /\ CounterInv /\ DiskInv
      /\ slack \in Nat /\ size \in Int /\ MaxBytes \in Nat
      /\ Unchecked \in Nat /\ Replaced \in Nat
  BY CountsNat DEF CacheInv, Walking
<1>2. \A P : /\ Settled(P) \in Nat /\ Weight(files', P \ Own') = Settled(P)
             /\ Weight(files', P \ Own') <= Settled(P)
  BY SettledNat DEF Settled
<1>3. Replaced' = 0 /\ Unchecked' = 0
  BY DEF Replaced, Unchecked
<1>4. /\ sweeping <=> sweep.at # "idle"
      /\ scan = Idle <=> scan.at = "idle"
      /\ Busy <=> scan.at # "idle" \/ sweep.at # "idle"
  BY NoWalk
<1>5. scan'.at = "walk" => scan' = scan /\ scan.at = "walk"
  BY DEF Idle
<1>6. CASE size > MaxBytes /\ sweep.at = "idle"
  <2>1. ~sweeping
    BY <1>4, <1>6, Zenon
  <2>2. sweep' = Walk /\ slack' = IF scan # Idle THEN slack ELSE 0
    <3>1. size > MaxBytes /\ ~sweeping
      BY <1>6, <2>1, Zenon
    <3>2. QED
      BY <3>1, Zenon DEF StartSweep
  <2>3. SweepInv' /\ ListInv' /\ sweep'.at = "walk"
    BY <2>2, SweepBegins, WalkBegins
  <2>4. ScanInv'
    <3>1. CASE scan'.at = "walk"
      <4>1. scan' = scan /\ slack' = slack
        BY <1>4, <1>5, <2>2, <3>1
      <4>2. QED
        BY <1>1, <1>2, <4>1, ScanStays
    <3>2. CASE scan'.at # "walk"
      BY <3>2 DEF ScanInv
    <3>3. QED
      BY <3>1, <3>2
  <2>5. CounterInv' /\ DiskInv'
    BY <2>3 DEF CounterInv, DiskInv, Sweeping, Cleared
  <2>6. QED
    BY <2>3, <2>4, <2>5 DEF Walking
<1>7. CASE ~(size > MaxBytes /\ sweep.at = "idle")
  <2>1. sweep' = sweep /\ slack' = slack
    <3>1. ~(size > MaxBytes /\ ~sweeping)
      BY <1>4, <1>7, Zenon
    <3>2. QED
      BY <3>1, Zenon DEF StartSweep
  <2>2. SweepInv' /\ ListInv'
    BY <1>1, <1>2, <2>1, SweepStays
  <2>3. ScanInv'
    <3>1. CASE scan'.at = "walk"
      BY <1>1, <1>2, <1>5, <2>1, <3>1, ScanStays
    <3>2. CASE scan'.at # "walk"
      BY <3>2 DEF ScanInv
    <3>3. QED
      BY <3>1, <3>2
  <2>4. scan'.at # "walk" => scan.at # "walk"
    OBVIOUS
  <2>5. scan.at # "walk" /\ ~Sweeping => Settled(Paths) <= size + slack
    <3>1. Settled(Paths) \in Nat
      BY <1>2
    <3>2. scan.at # "walk" /\ ~Sweeping => Settled(Paths) + Replaced <= size + slack
      BY <1>1 DEF CounterInv
    <3>3. QED
      BY <1>1, <3>1, <3>2
  <2>6. CounterInv'
    <3> SUFFICES ASSUME scan'.at # "walk", ~Sweeping'
                 PROVE  Weight(files', Paths \ Own') + Replaced' <= size' + slack'
      BY DEF CounterInv, Settled
    <3>1. ~Sweeping
      BY <2>1 DEF Sweeping
    <3>2. QED
      BY <1>1, <1>2, <1>3, <2>1, <2>4, <2>5, <3>1
  <2>7. DiskInv'
    <3> SUFFICES ASSUME Cleared'
                 PROVE  Weight(files', Paths \ Own') <= MaxBytes + slack' + Unchecked'
      BY DEF DiskInv, Settled
    <3>1. sweep.at = "end" \/ (sweep.at = "idle" /\ scan'.at = "idle")
      BY <2>1 DEF Cleared
    <3>2. CASE sweep.at = "end"
      <4>1. Unchecked = 0
        <5>1. ~InTime
          BY <1>1, <1>4, <3>2 DEF PutInv
        <5>2. QED
          BY <5>1 DEF Unchecked
      <4>2. Settled(Paths) <= MaxBytes + slack + Unchecked
        BY <1>1, <3>2 DEF DiskInv, Cleared
      <4>3. QED
        BY <1>1, <1>2, <1>3, <2>1, <4>1, <4>2
    <3>3. CASE sweep.at = "idle" /\ scan'.at = "idle"
      <4>1. size <= MaxBytes
        BY <1>1, <1>7, <3>3
      <4>2. Settled(Paths) <= size + slack
        BY <2>4, <2>5, <3>3 DEF Sweeping
      <4>3. QED
        BY <1>1, <1>2, <1>3, <2>1, <4>1, <4>2
    <3>4. QED
      BY <3>1, <3>2, <3>3
  <2>8. QED
    BY <2>2, <2>3, <2>6, <2>7 DEF Walking
<1>8. QED
  BY <1>6, <1>7

LEMMA PutEndsStep ==
    ASSUME TypeOK', CacheAssumptions, CacheInv, PutEnds
    PROVE  CacheInv'
<1>1. /\ put.at = "check" /\ put' = Idle /\ StartSweep
      /\ files' = files /\ size' = size /\ scan' = scan
  BY DEF PutEnds
<1>2. put'.at = "idle"
  BY <1>1 DEF Idle
<1>3. Own' = Own
  BY <1>1, <1>2 DEF Own
<1>4. ~InTime'
  BY <1>1, Zenon DEF InTime
<1>5. PutInv'
  BY <1>2, <1>4 DEF PutInv
<1>6. ListInv' /\ Walking' /\ CounterInv' /\ DiskInv'
  BY <1>1, <1>3, <1>4, Starts DEF CacheInv
<1>7. QED
  BY <1>5, <1>6 DEF CacheInv

LEMMA ScanEndsStep ==
    ASSUME TypeOK', CacheAssumptions, CacheInv, ScanEnds
    PROVE  CacheInv'
<1>1. /\ scan.at = "check" /\ scan' = Idle /\ StartSweep
      /\ files' = files /\ size' = size /\ put' = put
  BY DEF ScanEnds
<1>2. Own' = Own
  BY <1>1 DEF Own
<1>3. ~InTime /\ ~InTime'
  <2>1. Busy /\ PutInv
    BY <1>1, NoWalk DEF CacheInv
  <2>2. ~InTime
    BY <2>1, Zenon DEF PutInv
  <2>3. InTime' <=> InTime
    BY <1>1, Zenon DEF InTime
  <2>4. QED
    BY <2>2, <2>3
<1>4. PutInv'
  BY <1>1, <1>3 DEF PutInv, CacheInv
<1>5. ListInv' /\ Walking' /\ CounterInv' /\ DiskInv'
  BY <1>1, <1>2, <1>3, Starts DEF CacheInv
<1>6. QED
  BY <1>4, <1>5 DEF CacheInv

-----------------------------------------------------------------------------
(***************************************************************************)
(* The scan at start.  While files are counted or removed, the put under   *)
(* way is a late one: it replaces nothing that the counter knows.          *)
(***************************************************************************)
LEMMA LatePut ==
    ASSUME TypeOK, CacheAssumptions, PutInv, Busy, put' = put,
           \A p \in DOMAIN files' : p \in DOMAIN files /\ files'[p] = files[p]
    PROVE  /\ PutInv' /\ ~InTime' /\ Own' = Own
           /\ Replaced = 0 /\ Unchecked = 0 /\ Replaced' = 0 /\ Unchecked' = 0
<1>1. ~InTime
  BY Zenon DEF PutInv
<1>2. InTime' <=> InTime
  BY Zenon DEF InTime
<1>3. Own' = Own
  BY DEF Own
<1>4. PutInv'
  BY <1>1, <1>2 DEF PutInv
<1>5. QED
  BY <1>1, <1>2, <1>3, <1>4 DEF Replaced, Unchecked

\* A visit leaves its path behind, and it alone.
LEMMA Passes ==
    ASSUME NEW w \in Walks, w.rest # <<>>, Once(w),
           NEW v, v.rest = Tail(w.rest)
    PROVE  /\ Once(v)
           /\ Head(w.rest) \in Ahead(w)
           /\ \A p \in Paths : p \notin Ahead(v)
                 <=> p \notin Ahead(w) \/ p = Head(w.rest)
<1>1. w.rest \in Seq(Paths)
  BY DEF Walks
<1>2. /\ DOMAIN w.rest = 1 .. Len(w.rest) /\ Len(w.rest) \in Nat \ {0}
      /\ Head(w.rest) = w.rest[1]
      /\ DOMAIN Tail(w.rest) = 1 .. Len(w.rest) - 1
      /\ \A i \in 1 .. Len(w.rest) - 1 : Tail(w.rest)[i] = w.rest[i + 1]
  BY <1>1
<1>3. \A i, j \in 1 .. Len(w.rest) : w.rest[i] = w.rest[j] => i = j
  BY <1>2 DEF Once
<1>4. Once(v)
  <2>1. ASSUME NEW i \in 1 .. Len(w.rest) - 1, NEW j \in 1 .. Len(w.rest) - 1,
               v.rest[i] = v.rest[j]
        PROVE  i = j
    BY <1>2, <1>3, <2>1
  <2>2. QED
    BY <1>2, <2>1 DEF Once
<1>5. ASSUME NEW p, p \in Ahead(v) PROVE p \in Ahead(w) /\ p # Head(w.rest)
  <2>1. PICK i \in 1 .. Len(w.rest) - 1 : p = w.rest[i + 1]
    BY <1>2, <1>5 DEF Ahead
  <2>2. i + 1 \in 1 .. Len(w.rest) /\ 1 \in 1 .. Len(w.rest) /\ i + 1 # 1
    BY <1>2
  <2>3. p # w.rest[1]
    BY <1>3, <2>1, <2>2
  <2>4. QED
    BY <1>2, <2>1, <2>2, <2>3 DEF Ahead
<1>6. ASSUME NEW p, p \in Ahead(w), p # Head(w.rest) PROVE p \in Ahead(v)
  <2>1. PICK i \in 1 .. Len(w.rest) : p = w.rest[i]
    BY <1>2, <1>6 DEF Ahead
  <2>2. i # 1
    BY <1>2, <1>6, <2>1
  <2>3. i - 1 \in 1 .. Len(w.rest) - 1 /\ (i - 1) + 1 = i
    BY <1>2, <2>2
  <2>4. Tail(w.rest)[i - 1] = p
    BY <1>2, <2>1, <2>3
  <2>5. QED
    BY <1>2, <2>3, <2>4 DEF Ahead
<1>7. Head(w.rest) \in Ahead(w)
  BY <1>2 DEF Ahead
<1>8. QED
  BY <1>4, <1>5, <1>6, <1>7

LEMMA SettledSame ==
    ASSUME TypeOK, CacheAssumptions, files' = files, Own' = Own
    PROVE  \A P : /\ Settled(P) \in Nat /\ Weight(files', P \ Own') = Settled(P)
                  /\ Weight(files', P \ Own') <= Settled(P)
BY SettledNat DEF Settled

\* What one more path can add to what is settled.
LEMMA SettledMore ==
    ASSUME TypeOK, CacheAssumptions, NEW P, NEW p
    PROVE  Settled(P) <= Settled(P \ {p}) + BytesIn(files, p)
<1>1. Heavy(files) /\ BytesIn(files, p) \in Nat
  BY FilesHeavy DEF BytesIn
<1>2. Settled(P) \in Nat /\ Settled(P \ {p}) \in Nat
  BY SettledNat
<1>3. (P \ {p}) \ Own = (P \ Own) \ {p}
  OBVIOUS
<1>4. CASE p \in P \ Own
  <2>1. Weight(files, P \ Own) = Weight(files, (P \ Own) \ {p}) + BytesIn(files, p)
    BY <1>1, <1>4, WeightSplit
  <2>2. Settled(P) = Settled(P \ {p}) + BytesIn(files, p)
    BY <1>3, <2>1, Zenon DEF Settled
  <2>3. QED
    BY <1>1, <1>2, <2>2
<1>5. CASE p \notin P \ Own
  <2>1. (P \ {p}) \ Own = P \ Own
    BY <1>5
  <2>2. Settled(P) = Settled(P \ {p})
    BY <2>1, Zenon DEF Settled
  <2>3. QED
    BY <1>1, <1>2, <2>2
<1>6. QED
  BY <1>4, <1>5

LEMMA ScanVisitsStep ==
    ASSUME TypeOK', CacheAssumptions, CacheInv, ScanVisits
    PROVE  CacheInv'
<1>1. /\ TypeOK /\ ListInv /\ PutInv /\ SweepInv /\ ScanInv /\ CounterInv /\ DiskInv
      /\ slack \in Nat /\ size \in Int /\ MaxBytes \in Nat
  BY CountsNat DEF CacheInv, Walking
<1>2. /\ scan.at = "walk" /\ scan.rest # <<>>
      /\ scan' = [Visited(scan) EXCEPT !.seen = {}]
      /\ files' = files /\ size' = size /\ sweeping' = sweeping /\ put' = put
      /\ sweep' = sweep /\ slack' = slack
  BY DEF ScanVisits, bounds
<1>3. Busy
  BY <1>1, <1>2, NoWalk
<1>4. PutInv' /\ Own' = Own /\ Unchecked = 0 /\ Unchecked' = 0
  BY <1>1, <1>2, <1>3, LatePut
<1>5. \A P : /\ Settled(P) \in Nat /\ Weight(files', P \ Own') = Settled(P)
             /\ Weight(files', P \ Own') <= Settled(P)
  BY <1>1, <1>2, <1>4, SettledSame
<1>6. SweepInv' /\ ListInv'
  BY <1>1, <1>2, <1>5, SweepStays
<1>7. scan \in Walks /\ scan.total \in Nat
  BY <1>1, <1>2, WalkFields DEF TypeOK, Idle
<1> DEFINE p == Head(scan.rest)
<1>8. /\ scan'.at = "walk" /\ scan'.rest = Tail(scan.rest)
      /\ scan'.total = scan.total + BytesIn(files, p)
      /\ BytesIn(files, p) \in Nat
  <2>1. /\ Visited(scan) \in Walks
        /\ Visited(scan).at = "walk" /\ Visited(scan).rest = Tail(scan.rest)
        /\ Visited(scan).total = scan.total + BytesIn(files, p)
        /\ BytesIn(files, p) \in Nat
    BY <1>1, <1>2, <1>7, VisitFacts, FilesHeavy DEF BytesIn
  <2>2. QED
    BY <1>2, <2>1 DEF Walks
<1>9. ScanInv'
  <2>1. Once(scan) /\ Settled(Paths \ Ahead(scan)) <= scan.total + slack
    BY <1>1, <1>2 DEF ScanInv
  <2>2. /\ Once(scan') /\ p \in Ahead(scan)
        /\ \A q \in Paths : q \notin Ahead(scan') <=> q \notin Ahead(scan) \/ q = p
    BY <1>2, <1>7, <1>8, <2>1, Passes
  <2>3. (Paths \ Ahead(scan')) \ {p} = Paths \ Ahead(scan)
    BY <2>2
  <2>4. Settled(Paths \ Ahead(scan'))
           <= Settled((Paths \ Ahead(scan')) \ {p}) + BytesIn(files, p)
    <3>1. \A P : Settled(P) <= Settled(P \ {p}) + BytesIn(files, p)
      BY <1>1, SettledMore
    <3>2. QED
      BY <3>1, Zenon
  <2>5. Weight(files', (Paths \ Ahead(scan')) \ Own') <= scan'.total + slack'
    <3>1. Settled(Paths \ Ahead(scan'))
             <= Settled(Paths \ Ahead(scan)) + BytesIn(files, p)
      BY <2>3, <2>4, Zenon
    <3>2. /\ Settled(Paths \ Ahead(scan)) \in Nat
          /\ Settled(Paths \ Ahead(scan')) \in Nat
          /\ Weight(files', (Paths \ Ahead(scan')) \ Own')
                <= Settled(Paths \ Ahead(scan'))
      BY <1>5
    <3>3. slack' = slack /\ slack \in Nat
      BY <1>1, <1>2
    <3>4. Weight(files', (Paths \ Ahead(scan')) \ Own') \in Nat
      BY HeavyNext, HeapFinite
    <3>5. QED
      BY <1>7, <1>8, <2>1, <3>1, <3>2, <3>3, <3>4
  <2>6. QED
    BY <2>2, <2>5 DEF ScanInv, Settled, Once, Ahead
<1>10. CounterInv'
  BY <1>8 DEF CounterInv
<1>11. DiskInv'
  BY <1>1, <1>2, <1>4, <1>5, <1>8 DEF DiskInv, Cleared, Settled
<1>12. QED
  BY <1>4, <1>6, <1>9, <1>10, <1>11 DEF CacheInv, Walking

LEMMA ScanStoresStep ==
    ASSUME TypeOK', CacheAssumptions, CacheInv, ScanStores
    PROVE  CacheInv'
<1>1. /\ TypeOK /\ ListInv /\ PutInv /\ SweepInv /\ ScanInv /\ CounterInv /\ DiskInv
      /\ slack \in Nat /\ size \in Int /\ MaxBytes \in Nat
  BY CountsNat DEF CacheInv, Walking
<1>2. /\ scan.at = "walk" /\ scan.rest = <<>> /\ size' = scan.total
      /\ scan' = [scan EXCEPT !.at = "check"]
      /\ files' = files /\ sweeping' = sweeping /\ put' = put
      /\ sweep' = sweep /\ slack' = slack
  BY DEF ScanStores, bounds
<1>3. Busy
  BY <1>1, <1>2, NoWalk
<1>4. PutInv' /\ Own' = Own /\ Replaced' = 0 /\ Unchecked = 0 /\ Unchecked' = 0
  BY <1>1, <1>2, <1>3, LatePut
<1>5. \A P : /\ Settled(P) \in Nat /\ Weight(files', P \ Own') = Settled(P)
             /\ Weight(files', P \ Own') <= Settled(P)
  BY <1>1, <1>2, <1>4, SettledSame
<1>6. SweepInv' /\ ListInv'
  BY <1>1, <1>2, <1>5, SweepStays
<1>7. scan \in Walks /\ scan.total \in Nat
  BY <1>1, <1>2, WalkFields DEF TypeOK, Idle
<1>8. scan'.at = "check"
  BY <1>2, <1>7 DEF Walks
<1>9. ScanInv'
  BY <1>8 DEF ScanInv
<1>10. CounterInv'
  <2>1. Paths \ Ahead(scan) = Paths
    BY <1>2 DEF Ahead
  <2>2. Settled(Paths) <= scan.total + slack
    BY <1>1, <1>2, <2>1 DEF ScanInv
  <2>3. Weight(files', Paths \ Own') + Replaced' <= size' + slack'
    BY <1>1, <1>2, <1>4, <1>5, <1>7, <2>2
  <2>4. QED
    BY <2>3 DEF CounterInv, Settled
<1>11. DiskInv'
  BY <1>1, <1>2, <1>4, <1>5, <1>8 DEF DiskInv, Cleared, Settled
<1>12. QED
  BY <1>4, <1>6, <1>9, <1>10, <1>11 DEF CacheInv, Walking

-----------------------------------------------------------------------------
(***************************************************************************)
(* The sweep: listing, then removing.                                      *)
(***************************************************************************)
LEMMA SweepFacts ==
    ASSUME TypeOK, CacheAssumptions, ListInv, Sweeping
    PROVE  /\ sweep \in Walks /\ sweep.total \in Nat
           /\ sweep.seen \in SUBSET Entries /\ IsFiniteSet(sweep.seen)
           /\ SeenBytes(sweep.seen) \in Nat /\ SeenBytes(sweep.seen) <= sweep.total
           /\ \A P : /\ Seen(P) \in SUBSET Entries /\ IsFiniteSet(Seen(P))
                     /\ SeenBytes(Seen(P)) \in Nat
                     /\ SeenBytes(Seen(P)) <= sweep.total
<1>1. /\ sweep \in Walks /\ sweep.total \in Nat
      /\ sweep.seen \in SUBSET Entries /\ IsFiniteSet(sweep.seen)
      /\ SeenBytes(sweep.seen) <= sweep.total
  BY WalkFields DEF Sweeping, ListInv, TypeOK, Idle
<1>2. SeenBytes(sweep.seen) \in Nat
  BY <1>1, EntriesHeavy
<1>3. ASSUME NEW P
      PROVE  /\ Seen(P) \in SUBSET Entries /\ IsFiniteSet(Seen(P))
             /\ SeenBytes(Seen(P)) \in Nat
             /\ SeenBytes(Seen(P)) <= sweep.total
  <2>1. Seen(P) \in SUBSET sweep.seen
    BY DEF Seen
  <2>2. /\ IsFiniteSet(Seen(P)) /\ SeenBytes(Seen(P)) \in Nat
        /\ SeenBytes(Seen(P)) <= SeenBytes(sweep.seen)
    BY <1>1, <2>1, SeenMonotone
  <2>3. Seen(P) \in SUBSET Entries
    BY <1>1, <2>1
  <2>4. SeenBytes(Seen(P)) <= sweep.total
    BY <1>1, <1>2, <2>2
  <2>5. QED
    BY <2>2, <2>3, <2>4
<1>4. QED
  BY <1>1, <1>2, <1>3

\* The rest of the state, in the steps of a sweep.
LEMMA SweepRest ==
    ASSUME TypeOK, TypeOK', CacheAssumptions, CacheInv, sweep.at # "idle",
           scan' = scan, put' = put, slack <= slack',
           \A p \in DOMAIN files' : p \in DOMAIN files /\ files'[p] = files[p]
    PROVE  /\ PutInv' /\ ScanInv' /\ Own' = Own
           /\ Replaced' = 0 /\ Unchecked' = 0 /\ Unchecked = 0
           /\ slack \in Nat /\ slack' \in Nat /\ MaxBytes \in Nat
           /\ \A P : /\ Settled(P) \in Nat /\ Weight(files', P \ Own') \in Nat
                     /\ Weight(files', P \ Own') <= Settled(P)
<1>1. PutInv /\ ScanInv /\ Busy
  BY NoWalk DEF CacheInv, Walking
<1>2. /\ PutInv' /\ Own' = Own /\ Replaced' = 0 /\ Unchecked' = 0 /\ Unchecked = 0
  BY <1>1, LatePut
<1>3. Heavy(files) /\ Heavy(files')
  BY FilesHeavy, HeavyNext
<1>4. \A P : /\ Settled(P) \in Nat /\ Weight(files', P \ Own') \in Nat
             /\ Weight(files', P \ Own') <= Settled(P)
  <2>1. ASSUME NEW P PROVE Weight(files', P \ Own') <= Weight(files, P \ Own)
    <3>1. \A p \in (P \ Own') \cap DOMAIN files' :
             p \in (P \ Own) \cap DOMAIN files /\ files'[p].bytes <= files[p].bytes
      BY <1>2, <1>3 DEF Heavy
    <3>2. QED
      BY <1>3, <3>1, WeightMonotone
  <2>2. QED
    BY <1>3, <2>1, HeapFinite, SettledNat DEF Settled
<1>5. ScanInv'
  BY <1>1, <1>4, ScanStays
<1>6. slack \in Nat /\ slack' \in Nat /\ MaxBytes \in Nat
  BY PathsFinite DEF TypeOK
<1>7. QED
  BY <1>2, <1>4, <1>5, <1>6

LEMMA SweepVisitsStep ==
    ASSUME TypeOK', CacheAssumptions, CacheInv, SweepVisits
    PROVE  CacheInv'
<1> DEFINE p == Head(sweep.rest)
<1>1. TypeOK /\ ListInv /\ SweepInv
  BY DEF CacheInv, Walking
<1>2. /\ sweep.at = "walk" /\ sweep.rest # <<>> /\ sweep' = Visited(sweep)
      /\ files' = files /\ size' = size /\ put' = put
      /\ scan' = scan /\ slack' = slack
  BY DEF SweepVisits
<1>3. Sweeping
  BY <1>2 DEF Sweeping
<1>4. /\ sweep \in Walks /\ sweep.total \in Nat
      /\ sweep.seen \in SUBSET Entries /\ IsFiniteSet(sweep.seen)
      /\ SeenBytes(sweep.seen) \in Nat /\ SeenBytes(sweep.seen) <= sweep.total
      /\ \A P : Seen(P) \in SUBSET Entries /\ IsFiniteSet(Seen(P))
  BY <1>1, <1>3, SweepFacts
<1>5. slack <= slack' /\ slack \in Nat
  BY <1>1, <1>2 DEF TypeOK
<1>6. /\ PutInv' /\ ScanInv' /\ Own' = Own
      /\ \A P : /\ Settled(P) \in Nat /\ Weight(files', P \ Own') \in Nat
                /\ Weight(files', P \ Own') <= Settled(P)
  BY <1>1, <1>2, <1>5, SweepRest
<1>7. /\ sweep'.at = "walk" /\ sweep'.rest = Tail(sweep.rest)
      /\ p \in DOMAIN files =>
            /\ Entry(p) \in Entries /\ sweep'.seen = sweep.seen \cup {Entry(p)}
            /\ sweep'.total = sweep.total + files[p].bytes
      /\ p \notin DOMAIN files =>
            sweep'.seen = sweep.seen /\ sweep'.total = sweep.total
      /\ p \in Paths
  BY <1>1, <1>2, <1>4, VisitFacts
<1>8. Once(sweep) /\ \A e \in sweep.seen : e.path \in Listed
  BY <1>1, <1>3 DEF SweepInv
<1>9. /\ Once(sweep') /\ p \in Ahead(sweep)
      /\ \A q \in Paths : q \notin Ahead(sweep') <=> q \notin Ahead(sweep) \/ q = p
  BY <1>2, <1>4, <1>7, <1>8, Passes
<1>10. p \notin Listed /\ Listed' = Listed \cup {p}
  <2>1. Listed = Paths \ Ahead(sweep) /\ Listed' = Paths \ Ahead(sweep')
    BY <1>2, <1>7 DEF Listed, Ahead
  <2>2. QED
    BY <1>7, <1>9, <2>1
<1>11. p \in DOMAIN files =>
          /\ Entry(p).path = p /\ Entry(p).bytes = files[p].bytes
          /\ files[p].bytes \in Nat
  BY <1>1, FilesHeavy DEF Entry
<1> HIDE DEF p
<1>12. ASSUME p \in DOMAIN files,
              NEW D \in SUBSET sweep.seen
       PROVE  /\ IsFiniteSet(D \cup {Entry(p)})
              /\ SeenBytes(D \cup {Entry(p)}) = SeenBytes(D) + files[p].bytes
              /\ SeenBytes(D) \in Nat
  <2>1. IsFiniteSet(D) /\ SeenBytes(D) \in Nat
    BY <1>4, SeenMonotone
  <2>2. IsFiniteSet(D \cup {Entry(p)}) /\ D \cup {Entry(p)} \in SUBSET Entries
    BY <1>4, <1>7, <1>12, <2>1, FS_AddElement
  <2>3. Entry(p) \notin D
    BY <1>8, <1>10, <1>11, <1>12
  <2>4. (D \cup {Entry(p)}) \ {Entry(p)} = D
    BY <2>3
  <2>5. SeenBytes(D \cup {Entry(p)})
           = SeenBytes((D \cup {Entry(p)}) \ {Entry(p)}) + Entry(p).bytes
    BY <2>2, SeenSplit
  <2>6. QED
    BY <1>11, <1>12, <2>1, <2>2, <2>4, <2>5
<1>13. ListInv'
  <2>1. CASE p \in DOMAIN files
    <3>1. /\ IsFiniteSet(sweep'.seen)
          /\ SeenBytes(sweep'.seen) = SeenBytes(sweep.seen) + files[p].bytes
      BY <1>7, <1>12, <2>1
    <3>2. SeenBytes(sweep'.seen) <= sweep'.total
      BY <1>4, <1>7, <1>11, <2>1, <3>1
    <3>3. QED
      BY <3>1, <3>2 DEF ListInv
  <2>2. CASE p \notin DOMAIN files
    BY <1>4, <1>7, <2>2 DEF ListInv
  <2>3. QED
    BY <2>1, <2>2
<1>14. \A e \in sweep'.seen : e.path \in Listed'
  BY <1>7, <1>8, <1>10, <1>11
<1>15. ASSUME NEW P \in SUBSET Listed'
       PROVE  Weight(files', P \ Own') <= SeenBytes(Seen(P)') + slack'
  <2> DEFINE Q == P \ {p}
  <2>1. Q \in SUBSET Listed /\ Seen(P) = Seen(Q) /\ Seen(Q) \in SUBSET sweep.seen
    BY <1>8, <1>10 DEF Seen
  <2> HIDE DEF Q
  <2>2. Settled(Q) <= SeenBytes(Seen(Q)) + slack
    BY <1>1, <1>3, <2>1 DEF SweepInv
  <2>3. SeenBytes(Seen(Q)) \in Nat
    BY <1>4, <2>1, SeenMonotone
  <2>4. BytesIn(files, p) \in Nat /\ Settled(P) <= Settled(Q) + BytesIn(files, p)
    BY <1>1, <1>11, SettledMore DEF Q, BytesIn
  <2>5. Weight(files', P \ Own') \in Nat /\ Settled(P) \in Nat /\ Settled(Q) \in Nat
        /\ Weight(files', P \ Own') <= Settled(P)
    BY <1>6
  <2>6. CASE p \in P /\ p \in DOMAIN files
    <3>1. Seen(P)' = Seen(Q) \cup {Entry(p)}
      <4>1. Seen(P)' = {e \in sweep'.seen : e.path \in P}
        BY DEF Seen
      <4>2. Seen(P)' = {e \in sweep.seen \cup {Entry(p)} : e.path \in P}
        BY <1>7, <2>6, <4>1
      <4>3. Seen(P) = {e \in sweep.seen : e.path \in P}
        BY DEF Seen
      <4>4. QED
        BY <1>11, <2>1, <2>6, <4>2, <4>3
    <3>2. SeenBytes(Seen(P)') = SeenBytes(Seen(Q)) + BytesIn(files, p)
      BY <1>12, <2>1, <2>6, <3>1 DEF BytesIn
    <3>3. QED
      BY <1>2, <1>5, <2>2, <2>3, <2>4, <2>5, <3>2
  <2>7. CASE ~(p \in P /\ p \in DOMAIN files)
    <3>1. Seen(P)' = Seen(Q)
      <4>1. Seen(P)' = {e \in sweep'.seen : e.path \in P}
        BY DEF Seen
      <4>2. Seen(P) = {e \in sweep.seen : e.path \in P}
        BY DEF Seen
      <4>3. CASE p \in DOMAIN files
        BY <1>7, <1>11, <2>1, <2>7, <4>1, <4>2, <4>3
      <4>4. CASE p \notin DOMAIN files
        BY <1>7, <2>1, <4>1, <4>2, <4>4
      <4>5. QED
        BY <4>3, <4>4
    <3>2. Settled(P) <= Settled(Q)
      <4>1. CASE p \in DOMAIN files
        <5>1. P = Q
          BY <2>7, <4>1 DEF Q
        <5>2. QED
          BY <2>5, <5>1
      <4>2. CASE p \notin DOMAIN files
        <5>1. BytesIn(files, p) = 0
          BY <4>2 DEF BytesIn
        <5>2. QED
          BY <2>4, <2>5, <5>1
      <4>3. QED
        BY <4>1, <4>2
    <3>3. QED
      BY <1>2, <1>5, <2>2, <2>3, <2>5, <3>1, <3>2
  <2>8. QED
    BY <2>6, <2>7
<1>16. Once(sweep)'
  BY <1>9 DEF Once
<1>17. SweepInv'
  BY <1>14, <1>15, <1>16 DEF SweepInv, Settled
<1>18. CounterInv' /\ DiskInv'
  BY <1>7 DEF CounterInv, DiskInv, Sweeping, Cleared
<1>19. QED
  BY <1>6, <1>13, <1>17, <1>18 DEF CacheInv, Walking

LEMMA TargetBelow ==
    ASSUME CacheAssumptions PROVE Target \in Nat /\ Target <= MaxBytes
<1>1. MaxBytes \in Nat
  BY PathsFinite
<1>2. \A m \in Nat : (4 * m) \div 5 \in Nat /\ (4 * m) \div 5 <= m
  OBVIOUS
<1>3. QED
  BY <1>1, <1>2 DEF Target

\* The total that a sweep stores covers the disk.
LEMMA TotalCovers ==
    ASSUME TypeOK, CacheAssumptions, ListInv, SweepInv, Sweeping, Listed = Paths
    PROVE  /\ Settled(Paths) <= sweep.total + slack
           /\ sweep.seen = {} => Settled(Paths) <= slack
<1>1. Settled(Paths) <= SeenBytes(Seen(Paths)) + slack
  BY DEF SweepInv
<1>2. /\ SeenBytes(Seen(Paths)) \in Nat /\ sweep.total \in Nat
      /\ SeenBytes(Seen(Paths)) <= sweep.total
  BY SweepFacts
<1>3. Settled(Paths) \in Nat /\ slack \in Nat
  BY SettledNat DEF TypeOK
<1>4. sweep.seen = {} => SeenBytes(Seen(Paths)) = 0
  <2>1. SeenBytes({}) = 0
    BY WeightNone DEF SeenBytes
  <2>2. sweep.seen = {} => Seen(Paths) = {}
    BY DEF Seen
  <2>3. QED
    BY <2>1, <2>2
<1>5. QED
  BY <1>1, <1>2, <1>3, <1>4

LEMMA SweepCountedStep ==
    ASSUME TypeOK', CacheAssumptions, CacheInv, SweepCounted
    PROVE  CacheInv'
<1>1. TypeOK /\ ListInv /\ SweepInv
  BY DEF CacheInv, Walking
<1>2. /\ sweep.at = "walk" /\ sweep.rest = <<>> /\ size' = sweep.total
      /\ sweep' = [sweep EXCEPT !.at = IF sweep.total <= Target THEN "end"
                                        ELSE "remove"]
      /\ files' = files /\ put' = put /\ scan' = scan /\ slack' = slack
  BY DEF SweepCounted
<1>3. Sweeping
  BY <1>2 DEF Sweeping
<1>4. /\ sweep \in Walks /\ sweep.total \in Nat
      /\ sweep.seen \in SUBSET Entries /\ IsFiniteSet(sweep.seen)
      /\ SeenBytes(sweep.seen) <= sweep.total
  BY <1>1, <1>3, SweepFacts
<1>5. slack <= slack' /\ slack \in Nat
  BY <1>1, <1>2 DEF TypeOK
<1>6. /\ PutInv' /\ ScanInv' /\ Own' = Own /\ Replaced' = 0 /\ Unchecked' = 0
      /\ MaxBytes \in Nat
      /\ \A P : /\ Settled(P) \in Nat /\ Weight(files', P \ Own') \in Nat
                /\ Weight(files', P \ Own') <= Settled(P)
  BY <1>1, <1>2, <1>5, SweepRest
<1>7. /\ sweep'.at = IF sweep.total <= Target THEN "end" ELSE "remove"
      /\ sweep'.rest = sweep.rest /\ sweep'.seen = sweep.seen
      /\ sweep'.total = sweep.total
  BY <1>2, <1>4 DEF Walks
<1>8. Listed = Paths /\ (sweep'.at = "remove" => Listed' = Paths)
  BY <1>2 DEF Listed, Ahead
<1>9. Settled(Paths) <= sweep.total + slack
  BY <1>1, <1>3, <1>8, TotalCovers
<1>10. ListInv'
  BY <1>4, <1>7 DEF ListInv
<1>11. SweepInv'
  <2> SUFFICES ASSUME Sweeping'
               PROVE  /\ Once(sweep)'
                      /\ \A e \in sweep'.seen : e.path \in Listed'
                      /\ \A P \in SUBSET Listed' :
                            Weight(files', P \ Own') <= SeenBytes(Seen(P)') + slack'
    BY DEF SweepInv, Settled
  <2>1. Listed' = Listed
    BY <1>7, <1>8 DEF Sweeping
  <2>2. Once(sweep)' /\ \A e \in sweep'.seen : e.path \in Listed'
    BY <1>1, <1>3, <1>7, <2>1 DEF SweepInv, Once
  <2>3. ASSUME NEW P \in SUBSET Listed
        PROVE  Weight(files', P \ Own') <= SeenBytes(Seen(P)') + slack'
    <3>1. Seen(P)' = Seen(P)
      BY <1>7 DEF Seen
    <3>2. Settled(P) <= SeenBytes(Seen(P)) + slack /\ SeenBytes(Seen(P)) \in Nat
      BY <1>1, <1>3, SweepFacts DEF SweepInv
    <3>3. QED
      BY <1>2, <1>5, <1>6, <3>1, <3>2
  <2>4. QED
    BY <2>1, <2>2, <2>3
<1>12. CounterInv'
  <2>1. Weight(files', Paths \ Own') + Replaced' <= size' + slack'
    BY <1>2, <1>4, <1>5, <1>6, <1>9
  <2>2. QED
    BY <2>1 DEF CounterInv, Settled
<1>13. DiskInv'
  <2> SUFFICES ASSUME Cleared'
               PROVE  Weight(files', Paths \ Own') <= MaxBytes + slack' + Unchecked'
    BY DEF DiskInv, Settled
  <2>1. sweep.total <= Target
    BY <1>7 DEF Cleared
  <2>2. sweep.total <= MaxBytes
    BY <1>4, <1>6, <2>1, TargetBelow
  <2>3. QED
    BY <1>2, <1>4, <1>5, <1>6, <1>9, <2>2
<1>14. QED
  BY <1>6, <1>10, <1>11, <1>12, <1>13 DEF CacheInv, Walking

LEMMA SweepStoresStep ==
    ASSUME TypeOK', CacheAssumptions, CacheInv, SweepStores
    PROVE  CacheInv'
<1>1. TypeOK /\ ListInv /\ SweepInv
  BY DEF CacheInv, Walking
<1>2. /\ sweep.at = "remove" /\ ~More /\ size' = sweep.total
      /\ sweep' = [sweep EXCEPT !.at = "end"]
      /\ files' = files /\ put' = put /\ scan' = scan /\ slack' = slack
  BY DEF SweepStores
<1>3. Sweeping /\ Listed = Paths
  BY <1>2 DEF Sweeping, Listed
<1>4. sweep \in Walks /\ sweep.total \in Nat
  BY <1>1, <1>3, SweepFacts
<1>5. slack <= slack' /\ slack \in Nat
  BY <1>1, <1>2 DEF TypeOK
<1>6. /\ PutInv' /\ ScanInv' /\ Own' = Own /\ Replaced' = 0 /\ Unchecked' = 0
      /\ MaxBytes \in Nat
      /\ \A P : /\ Settled(P) \in Nat /\ Weight(files', P \ Own') \in Nat
                /\ Weight(files', P \ Own') <= Settled(P)
  BY <1>1, <1>2, <1>5, SweepRest
<1>7. sweep'.at = "end"
  BY <1>2, <1>4 DEF Walks
<1>8. /\ Settled(Paths) <= sweep.total + slack
      /\ sweep.seen = {} => Settled(Paths) <= slack
  BY <1>1, <1>3, TotalCovers
<1>9. ListInv' /\ SweepInv'
  BY <1>7 DEF ListInv, SweepInv, Sweeping
<1>10. CounterInv'
  <2>1. Weight(files', Paths \ Own') + Replaced' <= size' + slack'
    BY <1>2, <1>4, <1>5, <1>6, <1>8
  <2>2. QED
    BY <2>1 DEF CounterInv, Settled
<1>11. DiskInv'
  <2>1. sweep.total <= MaxBytes \/ sweep.seen = {}
    BY <1>2, <1>4, <1>6, TargetBelow DEF More
  <2>2. Settled(Paths) <= MaxBytes + slack
    <3>1. Settled(Paths) \in Nat
      BY <1>6
    <3>2. CASE sweep.total <= MaxBytes
      <4>1. /\ sweep.total \in Nat /\ slack \in Nat /\ MaxBytes \in Nat
            /\ Settled(Paths) <= sweep.total + slack
        BY <1>4, <1>5, <1>6, <1>8
      <4>2. QED
        BY <3>1, <3>2, <4>1
    <3>3. CASE sweep.seen = {}
      <4>1. slack \in Nat /\ MaxBytes \in Nat /\ Settled(Paths) <= slack
        BY <1>5, <1>6, <1>8, <3>3
      <4>2. QED
        BY <3>1, <4>1
    <3>4. QED
      BY <2>1, <3>2, <3>3
  <2>3. Weight(files', Paths \ Own') <= MaxBytes + slack' + Unchecked'
    BY <1>2, <1>5, <1>6, <2>2
  <2>4. QED
    BY <2>3 DEF DiskInv, Settled
<1>12. QED
  BY <1>6, <1>9, <1>10, <1>11 DEF CacheInv, Walking

LEMMA SweepEndsStep ==
    ASSUME TypeOK', CacheAssumptions, CacheInv, SweepEnds
    PROVE  CacheInv'
<1>1. TypeOK /\ CounterInv /\ DiskInv /\ size \in Int
  BY DEF CacheInv, TypeOK
<1>2. /\ sweep.at = "end" /\ sweep' = Idle /\ size' = size
      /\ files' = files /\ put' = put /\ scan' = scan /\ slack' = slack
  BY DEF SweepEnds
<1>3. slack <= slack' /\ slack \in Nat
  BY <1>1, <1>2 DEF TypeOK
<1>4. /\ PutInv' /\ ScanInv' /\ Own' = Own
      /\ Replaced' = 0 /\ Unchecked' = 0 /\ Unchecked = 0 /\ MaxBytes \in Nat
      /\ \A P : /\ Settled(P) \in Nat /\ Weight(files', P \ Own') \in Nat
                /\ Weight(files', P \ Own') <= Settled(P)
  BY <1>1, <1>2, <1>3, SweepRest
<1>5. sweep'.at = "idle"
  BY <1>2 DEF Idle
<1>6. ListInv' /\ SweepInv'
  BY <1>5 DEF ListInv, SweepInv, Sweeping
<1>7. CounterInv'
  <2> SUFFICES ASSUME scan'.at # "walk", ~Sweeping'
               PROVE  Weight(files', Paths \ Own') + Replaced' <= size' + slack'
    BY DEF CounterInv, Settled
  <2>1. Settled(Paths) + Replaced <= size + slack
    BY <1>1, <1>2 DEF CounterInv, Sweeping
  <2>2. Replaced \in Nat
    BY <1>1, CountsNat
  <2>3. QED
    BY <1>1, <1>2, <1>3, <1>4, <2>1, <2>2
<1>8. DiskInv'
  <2>1. Settled(Paths) <= MaxBytes + slack + Unchecked
    BY <1>1, <1>2 DEF DiskInv, Cleared
  <2>2. Weight(files', Paths \ Own') <= MaxBytes + slack' + Unchecked'
    BY <1>2, <1>3, <1>4, <2>1
  <2>3. QED
    BY <2>2 DEF DiskInv, Settled
<1>9. QED
  BY <1>4, <1>6, <1>7, <1>8 DEF CacheInv, Walking

\* The entry a sweep is at: the others keep their account.
LEMMA Struck ==
    ASSUME TypeOK, CacheAssumptions, ListInv, SweepInv, sweep.at = "remove",
           NEW e \in sweep.seen, NEW v, v.at = sweep.at, v.rest = sweep.rest,
           v.seen = sweep.seen \ {e}
    PROVE  /\ e \in Entries /\ e.bytes \in Nat /\ e.path \in Paths
           /\ IsFiniteSet(v.seen) /\ SeenBytes(v.seen) \in Nat
           /\ SeenBytes(v.seen) + e.bytes <= sweep.total /\ sweep.total \in Nat
           /\ Once(v) /\ \A d \in v.seen : d.path \in Paths
           /\ \A P \in SUBSET Paths : LET D == {d \in v.seen : d.path \in P} IN
                 /\ SeenBytes(D) \in Nat
                 /\ Settled(P \ {e.path}) <= SeenBytes(D) + slack
<1>1. Sweeping /\ Listed = Paths
  BY DEF Sweeping, Listed
<1>2. /\ sweep.total \in Nat
      /\ sweep.seen \in SUBSET Entries /\ IsFiniteSet(sweep.seen)
      /\ SeenBytes(sweep.seen) <= sweep.total
  BY <1>1, SweepFacts
<1>3. e \in Entries /\ e.bytes \in Nat /\ e.path \in Paths
  BY <1>2, PathsFinite DEF Entries
<1>4. v.seen \in SUBSET sweep.seen /\ v.seen \in SUBSET Entries
  BY <1>2
<1>5. IsFiniteSet(v.seen) /\ SeenBytes(v.seen) \in Nat
  BY <1>2, <1>4, SeenMonotone
<1>6. SeenBytes(sweep.seen) = SeenBytes(v.seen) + e.bytes
  BY <1>2, SeenSplit
<1>7. Once(sweep) /\ \A d \in sweep.seen : d.path \in Paths
  BY <1>1 DEF SweepInv
<1>8. Once(v) /\ \A d \in v.seen : d.path \in Paths
  BY <1>4, <1>7 DEF Once
<1>9. ASSUME NEW P \in SUBSET Paths
      PROVE  /\ SeenBytes({d \in v.seen : d.path \in P}) \in Nat
             /\ Settled(P \ {e.path}) <= SeenBytes({d \in v.seen : d.path \in P}) + slack
  <2> DEFINE Q == P \ {e.path}
             D == {d \in v.seen : d.path \in P}
  <2>1. Seen(Q) \in SUBSET D /\ D \in SUBSET v.seen /\ Q \in SUBSET Listed
    BY <1>1 DEF Seen
  <2> HIDE DEF Q, D
  <2>2. Settled(Q) <= SeenBytes(Seen(Q)) + slack
    BY <1>1, <2>1 DEF SweepInv
  <2>3. IsFiniteSet(D) /\ D \in SUBSET Entries /\ SeenBytes(D) \in Nat
    BY <1>4, <1>5, <2>1, SeenMonotone
  <2>4. SeenBytes(Seen(Q)) \in Nat /\ SeenBytes(Seen(Q)) <= SeenBytes(D)
    BY <2>1, <2>3, SeenMonotone
  <2>5. Settled(Q) \in Nat /\ slack \in Nat
    BY SettledNat DEF TypeOK
  <2>6. Settled(Q) <= SeenBytes(D) + slack
    BY <2>2, <2>3, <2>4, <2>5
  <2>7. QED
    BY <2>3, <2>6 DEF Q, D
<1>10. SeenBytes(v.seen) + e.bytes <= sweep.total
  BY <1>2, <1>6
<1>11. QED
  BY <1>2, <1>3, <1>5, <1>8, <1>9, <1>10

LEMMA SweepRemovesStep ==
    ASSUME TypeOK', CacheAssumptions, CacheInv, sweep.at = "remove",
           NEW e \in sweep.seen, SweepRemoves(e)
    PROVE  CacheInv'
<1>1. TypeOK /\ ListInv /\ SweepInv
  BY DEF CacheInv, Walking
<1>2. /\ e.path \in DOMAIN files
      /\ sweep' = [sweep EXCEPT !.seen = sweep.seen \ {e},
                                !.total = sweep.total - e.bytes]
      /\ files' = [q \in DOMAIN files \ {e.path} |-> files[q]]
      /\ put' = put /\ scan' = scan /\ slack' = slack
  BY DEF SweepRemoves, Without
<1>3. slack <= slack' /\ slack \in Nat
  BY <1>1, <1>2 DEF TypeOK
<1>4. \A p \in DOMAIN files' :
         p # e.path /\ p \in DOMAIN files /\ files'[p] = files[p]
  BY <1>2
<1>5. /\ PutInv' /\ ScanInv' /\ Own' = Own
      /\ \A P : Settled(P) \in Nat /\ Weight(files', P \ Own') \in Nat
  BY <1>1, <1>2, <1>3, <1>4, SweepRest
<1>6. sweep \in Walks
  BY <1>1, WalkFields DEF TypeOK, Idle
<1>7. /\ sweep'.at = "remove" /\ sweep'.rest = sweep.rest
      /\ sweep'.seen = sweep.seen \ {e}
      /\ sweep'.total = sweep.total - e.bytes
  BY <1>2, <1>6 DEF Walks
<1>8. /\ e.bytes \in Nat /\ IsFiniteSet(sweep'.seen)
      /\ SeenBytes(sweep'.seen) \in Nat /\ sweep.total \in Nat
      /\ SeenBytes(sweep'.seen) + e.bytes <= sweep.total
      /\ Once(sweep') /\ \A d \in sweep'.seen : d.path \in Paths
      /\ \A P \in SUBSET Paths : LET D == {d \in sweep'.seen : d.path \in P} IN
            /\ SeenBytes(D) \in Nat
            /\ Settled(P \ {e.path}) <= SeenBytes(D) + slack
  BY <1>1, <1>7, Struck
<1>9. ListInv'
  <2>1. SeenBytes(sweep'.seen) <= sweep'.total
    BY <1>7, <1>8
  <2>2. QED
    BY <1>8, <2>1 DEF ListInv
<1>10. ASSUME NEW P \in SUBSET Paths
       PROVE  Weight(files', P \ Own') <= SeenBytes(Seen(P)') + slack'
  <2>1. Weight(files', P \ Own') <= Weight(files, (P \ {e.path}) \ Own)
    <3>1. Heavy(files) /\ Heavy(files')
      BY <1>1, FilesHeavy, HeavyNext
    <3>2. \A p \in (P \ Own') \cap DOMAIN files' :
             /\ p \in ((P \ {e.path}) \ Own) \cap DOMAIN files
             /\ files'[p].bytes <= files[p].bytes
      BY <1>4, <1>5, <3>1 DEF Heavy
    <3>3. QED
      BY <3>1, <3>2, WeightMonotone
  <2>2. Seen(P)' = {d \in sweep'.seen : d.path \in P}
    BY DEF Seen
  <2>3. /\ SeenBytes(Seen(P)') \in Nat
        /\ Settled(P \ {e.path}) <= SeenBytes(Seen(P)') + slack
    BY <1>8, <2>2
  <2>4. Settled(P \ {e.path}) \in Nat /\ Weight(files', P \ Own') \in Nat
    BY <1>5
  <2>5. Weight(files', P \ Own') <= Settled(P \ {e.path})
    BY <2>1 DEF Settled
  <2>6. QED
    BY <1>2, <1>3, <2>3, <2>4, <2>5
<1>11. Listed' = Paths /\ Once(sweep)'
  BY <1>7, <1>8 DEF Listed, Once
<1>12. SweepInv'
  BY <1>8, <1>10, <1>11 DEF SweepInv, Settled
<1>13. CounterInv' /\ DiskInv'
  BY <1>7 DEF CounterInv, DiskInv, Sweeping, Cleared
<1>14. QED
  BY <1>5, <1>9, <1>12, <1>13 DEF CacheInv, Walking

LEMMA SweepPassesOverStep ==
    ASSUME TypeOK', CacheAssumptions, CacheInv, sweep.at = "remove",
           NEW e \in sweep.seen, SweepPassesOver(e)
    PROVE  CacheInv'
<1>1. TypeOK /\ ListInv /\ SweepInv
  BY DEF CacheInv, Walking
<1>2. BytesIn(files, e.path) \in Nat /\ slack \in Nat
  BY <1>1, FilesHeavy DEF BytesIn, TypeOK
<1>3. /\ sweep' = [sweep EXCEPT !.seen = sweep.seen \ {e}]
      /\ files' = files /\ put' = put /\ scan' = scan
      /\ slack' = slack + BytesIn(files, e.path)
  BY <1>2 DEF SweepPassesOver, BytesIn
<1>4. slack <= slack'
  BY <1>2, <1>3
<1>5. /\ PutInv' /\ ScanInv' /\ Own' = Own
      /\ \A P : /\ Settled(P) \in Nat /\ Weight(files', P \ Own') \in Nat
                /\ Weight(files', P \ Own') <= Settled(P)
  BY <1>1, <1>3, <1>4, SweepRest
<1>6. sweep \in Walks
  BY <1>1, WalkFields DEF TypeOK, Idle
<1>7. /\ sweep'.at = "remove" /\ sweep'.rest = sweep.rest
      /\ sweep'.seen = sweep.seen \ {e} /\ sweep'.total = sweep.total
  BY <1>3, <1>6 DEF Walks
<1>8. /\ e.bytes \in Nat /\ IsFiniteSet(sweep'.seen)
      /\ SeenBytes(sweep'.seen) \in Nat /\ sweep.total \in Nat
      /\ SeenBytes(sweep'.seen) + e.bytes <= sweep.total
      /\ Once(sweep') /\ \A d \in sweep'.seen : d.path \in Paths
      /\ \A P \in SUBSET Paths : LET D == {d \in sweep'.seen : d.path \in P} IN
            /\ SeenBytes(D) \in Nat
            /\ Settled(P \ {e.path}) <= SeenBytes(D) + slack
  BY <1>1, <1>7, Struck
<1>9. ListInv'
  <2>1. SeenBytes(sweep'.seen) <= sweep'.total
    BY <1>7, <1>8
  <2>2. QED
    BY <1>8, <2>1 DEF ListInv
<1>10. ASSUME NEW P \in SUBSET Paths
       PROVE  Weight(files', P \ Own') <= SeenBytes(Seen(P)') + slack'
  <2>1. Settled(P) <= Settled(P \ {e.path}) + BytesIn(files, e.path)
    BY <1>1, SettledMore
  <2>2. Seen(P)' = {d \in sweep'.seen : d.path \in P}
    BY DEF Seen
  <2>3. /\ SeenBytes(Seen(P)') \in Nat
        /\ Settled(P \ {e.path}) <= SeenBytes(Seen(P)') + slack
    BY <1>8, <2>2
  <2>4. /\ Settled(P \ {e.path}) \in Nat /\ Settled(P) \in Nat
        /\ Weight(files', P \ Own') \in Nat /\ Weight(files', P \ Own') <= Settled(P)
    BY <1>5
  <2>5. QED
    BY <1>2, <1>3, <2>1, <2>3, <2>4
<1>11. Listed' = Paths /\ Once(sweep)'
  BY <1>7, <1>8 DEF Listed, Once
<1>12. SweepInv'
  BY <1>8, <1>10, <1>11 DEF SweepInv, Settled
<1>13. CounterInv' /\ DiskInv'
  BY <1>7 DEF CounterInv, DiskInv, Sweeping, Cleared
<1>14. QED
  BY <1>5, <1>9, <1>12, <1>13 DEF CacheInv, Walking

LEMMA CacheStays ==
    ASSUME TypeOK, CacheAssumptions, CacheInv, UNCHANGED vars
    PROVE  CacheInv'
<1>1. /\ files' = files /\ size' = size /\ sweeping' = sweeping /\ put' = put
      /\ sweep' = sweep /\ scan' = scan /\ writes' = writes /\ stuck' = stuck
      /\ slack' = slack
  BY DEF vars, goroutines, bounds
<1>2. /\ TypeOK /\ ListInv /\ PutInv /\ SweepInv /\ ScanInv /\ CounterInv /\ DiskInv
      /\ slack <= slack'
  BY <1>1 DEF CacheInv, Walking, TypeOK
<1>3. TypeOK'
  BY <1>1, <1>2 DEF TypeOK
<1>4. Own' = Own
  BY <1>1 DEF Own
<1>5. \A P : Weight(files', P \ Own') = Settled(P) /\ Weight(files', P \ Own') <= Settled(P)
  BY <1>1, <1>2, <1>4, SettledSame
<1>6. InTime' = InTime /\ Busy' = Busy
  BY <1>1, Zenon DEF InTime, Busy
<1>7. SweepInv' /\ ListInv'
  BY <1>1, <1>2, <1>3, <1>5, SweepStays
<1>8. ScanInv'
  BY <1>1, <1>2, <1>3, <1>5, ScanStays
<1>9. PutInv'
  BY <1>1, <1>2, <1>6 DEF PutInv, Old
<1>10. Replaced' = Replaced /\ Unchecked' = Unchecked
  BY <1>1, <1>6 DEF Replaced, Unchecked
<1>11. CounterInv'
  BY <1>1, <1>2, <1>5, <1>10 DEF CounterInv, Sweeping, Settled
<1>12. DiskInv'
  BY <1>1, <1>2, <1>5, <1>10 DEF DiskInv, Cleared, Settled
<1>13. QED
  BY <1>3, <1>7, <1>8, <1>9, <1>11, <1>12 DEF CacheInv, Walking

LEMMA CacheMoves ==
    ASSUME CacheAssumptions, CacheInv, [Next]_vars
    PROVE  CacheInv'
<1>1. TypeOK /\ ListInv
  BY DEF CacheInv
<1>2. CASE PutStep
  <2>1. TypeOK'
    BY <1>1, <1>2, PutType
  <2>2. Moves \/ Add \/ PutEnds
    BY <1>2 DEF PutStep, Moves
  <2>3. QED
    BY <2>1, <2>2, MovesStep, AddStep, PutEndsStep
<1>3. CASE ScanStep
  <2>1. TypeOK'
    BY <1>1, <1>3, ScanType
  <2>2. QED
    BY <1>3, <2>1, ScanVisitsStep, ScanStoresStep, ScanEndsStep DEF ScanStep
<1>4. CASE SweepStep
  <2>1. TypeOK'
    BY <1>1, <1>4, SweepType
  <2>2. ASSUME More, NEW e \in sweep.seen, SweepRemoves(e) \/ SweepPassesOver(e)
        PROVE  CacheInv'
    <3>1. sweep.at = "remove"
      BY <2>2 DEF More
    <3>2. CASE SweepRemoves(e)
      BY <2>1, <3>1, <3>2, SweepRemovesStep
    <3>3. CASE SweepPassesOver(e)
      BY <2>1, <3>1, <3>3, SweepPassesOverStep
    <3>4. QED
      BY <2>2, <3>2, <3>3
  <2>3. QED
    BY <1>4, <2>1, <2>2, SweepVisitsStep, SweepCountedStep, SweepStoresStep,
       SweepEndsStep DEF SweepStep, Oldest
<1>5. CASE UNCHANGED vars
  BY <1>1, <1>5, CacheStays
<1>6. QED
  BY <1>2, <1>3, <1>4, <1>5 DEF Next

\* The file under way weighs what its put is to add.
LEMMA CacheBounds ==
    ASSUME CacheAssumptions, CacheInv
    PROVE  TypeOK /\ CounterBounded /\ DiskBounded
<1>1. /\ TypeOK /\ PutInv /\ CounterInv /\ DiskInv
      /\ slack \in Nat /\ size \in Int /\ MaxBytes \in Nat
      /\ Unchecked \in Nat /\ Replaced \in Nat /\ Settled(Paths) \in Nat
  BY CountsNat, SettledNat DEF CacheInv
<1>2. InFlight \in Nat
  BY <1>1, PutFields DEF InFlight
<1>3. OnDisk(Paths) \in Nat /\ OnDisk(Paths) = Weight(files, Paths)
  BY <1>1, DiskIsWeight, FilesHeavy, HeapFinite
<1>4. Unchecked # 0 => Own = {} /\ Unchecked = InFlight
  <2>1. Unchecked # 0 => put.at = "check" /\ InTime /\ Unchecked = put.bytes
    BY DEF Unchecked
  <2>2. InTime => put # Idle
    BY Zenon DEF InTime
  <2>3. QED
    BY <2>1, <2>2 DEF Own, InFlight
<1>5. Weight(files, Paths) <= Settled(Paths) + (IF Own = {} THEN 0 ELSE InFlight)
  <2>1. CASE Own = {}
    <3>1. Settled(Paths) = Weight(files, Paths)
      <4>1. Paths \ Own = Paths
        BY <2>1
      <4>2. QED
        BY <4>1, Zenon DEF Settled
    <3>2. QED
      BY <1>1, <2>1, <3>1
  <2>2. CASE Own # {}
    <3>1. PICK p : /\ Own = {p} /\ put.at \in {"stat", "rename", "add"}
                   /\ p \in DOMAIN files => files[p].bytes = put.bytes
      BY <1>1, <2>2 DEF Own, PutInv
    <3>2. put # Idle /\ put.bytes \in Nat
      BY <1>1, <3>1, PutFields DEF Idle
    <3>3. BytesIn(files, p) <= put.bytes /\ BytesIn(files, p) \in Nat
      BY <3>1, <3>2 DEF BytesIn
    <3>4. Weight(files, Paths) <= Settled(Paths) + BytesIn(files, p)
      <4>1. CASE p \in Paths
        <5>1. Weight(files, Paths) = Weight(files, Paths \ {p}) + BytesIn(files, p)
          BY <1>1, <4>1, FilesHeavy, WeightSplit
        <5>2. Settled(Paths) = Weight(files, Paths \ {p})
          BY <3>1, Zenon DEF Settled
        <5>3. QED
          BY <1>3, <3>3, <5>1, <5>2, <1>1
      <4>2. CASE p \notin Paths
        <5>1. Paths \ Own = Paths
          BY <3>1, <4>2
        <5>2. Settled(Paths) = Weight(files, Paths)
          BY <5>1, Zenon DEF Settled
        <5>3. QED
          BY <1>1, <3>3, <5>2
      <4>3. QED
        BY <4>1, <4>2
    <3>5. InFlight = put.bytes
      BY <3>2 DEF InFlight
    <3>6. QED
      BY <1>1, <1>3, <2>2, <3>2, <3>3, <3>4, <3>5
  <2>3. QED
    BY <2>1, <2>2
<1>6. OnDisk(Paths) <= Settled(Paths) + InFlight
  BY <1>1, <1>2, <1>3, <1>5
<1>7. ~Busy => scan.at = "idle" /\ sweep.at = "idle"
  BY <1>1, NoWalk
<1>8. CounterBounded
  <2> SUFFICES ASSUME ~Busy PROVE OnDisk(Paths) <= size + InFlight + slack
    BY DEF CounterBounded
  <2>1. Settled(Paths) + Replaced <= size + slack
    BY <1>1, <1>7 DEF CounterInv, Sweeping
  <2>2. QED
    BY <1>1, <1>2, <1>3, <1>6, <2>1
<1>9. DiskBounded
  <2> SUFFICES ASSUME ~Busy PROVE OnDisk(Paths) <= MaxBytes + InFlight + slack
    BY DEF DiskBounded
  <2>1. Settled(Paths) <= MaxBytes + slack + Unchecked
    BY <1>1, <1>7 DEF DiskInv, Cleared
  <2>2. CASE Unchecked = 0
    BY <1>1, <1>2, <1>3, <1>6, <2>1, <2>2
  <2>3. CASE Unchecked # 0
    <3>1. OnDisk(Paths) <= Settled(Paths)
      BY <1>1, <1>3, <1>4, <1>5, <2>3
    <3>2. Unchecked = InFlight
      BY <1>4, <2>3
    <3>3. QED
      BY <1>1, <1>2, <1>3, <2>1, <3>1, <3>2
  <2>4. QED
    BY <2>2, <2>3
<1>10. QED
  BY <1>1, <1>8, <1>9

\* What the parts of the cache know of the disk, in every state.
THEOREM CacheInductive ==
    ASSUME CacheAssumptions PROVE Spec => []CacheInv
<1>1. Init => CacheInv
  BY CacheInit
<1>2. CacheInv /\ [Next]_vars => CacheInv'
  BY CacheMoves
<1>3. QED
  BY <1>1, <1>2, PTL DEF Spec

(***************************************************************************)
(* Neither the counter nor the disk runs away, for any tiles, sizes, limit *)
(* and order of the walk, however puts, the scan at start and sweeps       *)
(* interleave: while nothing is counted or swept, the disk holds no more   *)
(* than the counter says and no more than MaxBytes, but for the image      *)
(* being written and the bytes of slack.                                   *)
(***************************************************************************)
THEOREM CacheCorrect ==
    ASSUME CacheAssumptions
    PROVE  Spec => [](TypeOK /\ CounterBounded /\ DiskBounded)
<1>1. CacheInv => TypeOK /\ CounterBounded /\ DiskBounded
  BY CacheBounds
<1>2. Spec => []CacheInv
  BY CacheInductive
<1>3. QED
  BY <1>1, <1>2, PTL

-----------------------------------------------------------------------------
(***************************************************************************)
(* The two side by side, as the run explores them: a step of one is one    *)
(* the other does not see.                                                 *)
(***************************************************************************)
LEMMA StoresParts == StoresSpec => Spec /\ Photos!Spec
<1>1. StoresInit => Init /\ Photos!Init
  BY DEF StoresInit
<1>2. [StoresNext]_<<part, cacheVars, photosVars>>
          => [Next]_vars /\ [Photos!Next]_Photos!vars
  <2>1. UNCHANGED cacheVars => UNCHANGED vars
    BY DEF cacheVars, vars, goroutines, bounds
  <2>2. UNCHANGED photosVars => UNCHANGED Photos!vars
    BY DEF photosVars, Photos!vars, Photos!handlerVars, Photos!tableVars,
           Photos!seen
  <2>3. QED
    BY <2>1, <2>2, Zenon DEF StoresNext, CacheStep, PhotosStep
<1>3. QED
  BY <1>1, <1>2, PTL DEF StoresSpec, Spec, Photos!Spec

LEMMA StoresConstants ==
    /\ CacheAssumptions
    /\ Photos!SubmissionsAssumption /\ Photos!PhotoCountsAssumption
    /\ Photos!LimitsAssumption
BY CacheAssumption, PhotosAssumption DEF CacheAssumptions

\* The types of the part that moves.
THEOREM TypesCorrect == StoresSpec => []TypesOK
<1>1. StoresSpec => [](TypeOK /\ CounterBounded /\ DiskBounded)
  BY StoresConstants, StoresParts, CacheCorrect, PTL
<1>2. StoresSpec => [](/\ Photos!TypeOK /\ Photos!NoPhotoMissing
                       /\ Photos!NoOrphans /\ Photos!PhotosApart)
  BY StoresConstants, StoresParts, PhotosCorrect, PTL
<1>3. TypeOK /\ Photos!TypeOK => TypesOK
  BY DEF TypesOK
<1>4. QED
  BY <1>1, <1>2, <1>3, PTL

\* What the tables and the object store say of the photos of a submission, and
\* the one place it becomes.
THEOREM PhotosKeptCorrect == StoresSpec => []PhotosKept
<1>1. StoresSpec => [](/\ Photos!TypeOK /\ Photos!NoPhotoMissing
                       /\ Photos!NoOrphans /\ Photos!PhotosApart)
  BY StoresConstants, StoresParts, PhotosCorrect, PTL
<1>2. StoresSpec => []Photos!OnePlace
  BY StoresConstants, StoresParts, PlaceCorrect, PTL
<1>3. /\ Photos!NoPhotoMissing /\ Photos!NoOrphans
      /\ Photos!OnePlace /\ Photos!PhotosApart
      => PhotosKept
  BY DEF PhotosKept
<1>4. QED
  BY <1>1, <1>2, <1>3, PTL

\* Several that pass a check together exceed a limit by what is theirs, no more:
\* the queue and the quota of submissions, the counter of the cache and its disk.
THEOREM LimitsKeptCorrect == StoresSpec => []LimitsKept
<1>1. StoresSpec => []Photos!LimitsBounded
  BY StoresConstants, StoresParts, LimitsCorrect, PTL
<1>2. StoresSpec => [](TypeOK /\ CounterBounded /\ DiskBounded)
  BY StoresConstants, StoresParts, CacheCorrect, PTL
<1>3. Photos!LimitsBounded /\ CounterBounded /\ DiskBounded => LimitsKept
  BY DEF LimitsKept
<1>4. QED
  BY <1>1, <1>2, <1>3, PTL
=============================================================================
