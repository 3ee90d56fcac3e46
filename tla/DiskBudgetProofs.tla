-------------------------- MODULE DiskBudgetProofs --------------------------
(***************************************************************************)
(* Theorems about DiskBudget: what the planner starts, together with all   *)
(* that runs already, never reaches into the floor and the buffer by more  *)
(* than what happened behind the back of the tick; and it starts nothing   *)
(* that does not carry the paused tag.                                     *)
(***************************************************************************)
EXTENDS DiskBudget, ModeEngineProofs, ResumePlannerProofs

-----------------------------------------------------------------------------
(* What runs unforced, and its share of a torrent *)

Running == {h \in Hash : State(h) = "downloading"}

Share(h) == IF State(h) = "downloading" THEN left[h] ELSE 0

LEMMA HashIsFinite ==
  ASSUME NEW S \in SUBSET Hash
  PROVE  IsFiniteSet(S)
BY WorldAssumption, FS_Subset

LEMMA RunningHaveASize ==
  ASSUME WorldTypeOK, NEW h \in Hash
  PROVE  /\ left[h] \in Int /\ left[h] >= Unknown
         /\ State(h) \in {"downloading", "forcedDL"} => left[h] > 0
         /\ Share(h) \in Int /\ Share(h) >= 0
BY WorldAssumption DEF WorldTypeOK, State, Reported, Unknown, Share

LEMMA SumSplit ==
  ASSUME NEW f, NEW S, IsFiniteSet(S), \A x \in S : f[x] \in Int, NEW y
  PROVE  SumFunctionOnSet(f, S) =
           (IF y \in S THEN f[y] ELSE 0) + SumFunctionOnSet(f, S \ {y})
<1>1. CASE y \in S
  BY <1>1, SumTake
<1>2. CASE y \notin S
  <2>1. S \ {y} = S
    BY <1>2
  <2>2. SumFunctionOnSet(f, S \ {y}) = SumFunctionOnSet(f, S)
    BY <2>1, Zenon
  <2>3. SumFunctionOnSet(f, S) \in Int
    BY SumType
  <2>4. QED
    BY <1>2, <2>2, <2>3
<1>3. QED
  BY <1>1, <1>2

LEMMA CommittedType ==
  ASSUME WorldTypeOK
  PROVE  Committed \in Int
<1>1. IsFiniteSet(Running) /\ \A h \in Running : left[h] \in Int
  BY HashIsFinite, RunningHaveASize DEF Running
<1>2. QED
  BY <1>1, SumType DEF Committed, Running

(* A step that concerns one torrent changes what is committed by the       *)
(* change of that torrent's share.                                         *)
LEMMA OneShareChanges ==
  ASSUME WorldTypeOK, WorldTypeOK', NEW h \in Hash,
         \A g \in Hash \ {h} : left'[g] = left[g] /\ State(g)' = State(g)
  PROVE  Committed' = Committed - Share(h) + Share(h)'
<1> DEFINE Rest == Running \ {h}
<1>1. /\ IsFiniteSet(Running) /\ \A g \in Running : left[g] \in Int
      /\ IsFiniteSet(Running') /\ \A g \in Running' : left'[g] \in Int
  <2>1. IsFiniteSet(Running) /\ IsFiniteSet(Running')
    BY HashIsFinite DEF Running
  <2>2. \A g \in Hash : left[g] \in Int /\ left'[g] \in Int
    BY WorldAssumption DEF WorldTypeOK, Unknown
  <2>3. QED
    BY <2>1, <2>2 DEF Running
<1>2. Committed = Share(h) + SumFunctionOnSet(left, Rest)
  <2>1. IsFiniteSet(Running) /\ \A g \in Running : left[g] \in Int
    BY <1>1
  <2>2. SumFunctionOnSet(left, Running) =
          (IF h \in Running THEN left[h] ELSE 0)
            + SumFunctionOnSet(left, Running \ {h})
    BY <2>1, SumSplit, SMTT(60)
  <2>3. QED
    BY <2>2 DEF Committed, Running, Share
<1>3. Committed' = Share(h)' + SumFunctionOnSet(left', Running' \ {h})
  <2>1. SumFunctionOnSet(left', Running') =
          (IF h \in Running' THEN left'[h] ELSE 0)
            + SumFunctionOnSet(left', Running' \ {h})
    BY <1>1, SumSplit
  <2>2. QED
    BY <2>1 DEF Committed, Running, Share
<1>4. Running' \ {h} = Rest
  BY DEF Running
<1>5. IsFiniteSet(Rest) /\ \A g \in Rest : left[g] \in Int /\ left[g] = left'[g]
  <2>1. IsFiniteSet(Rest)
    BY HashIsFinite DEF Running
  <2>2. QED
    BY <1>1, <2>1 DEF Running
<1>6. /\ SumFunctionOnSet(left, Rest) = SumFunctionOnSet(left', Rest)
      /\ SumFunctionOnSet(left, Rest) \in Int
  BY <1>5, SumSame, SumType
<1>7. Share(h) \in Int /\ Share(h)' \in Int
  BY WorldAssumption DEF WorldTypeOK, Share, Unknown
<1>8. SumFunctionOnSet(left', Running' \ {h}) = SumFunctionOnSet(left', Rest)
  BY <1>4, Zenon
<1> HIDE DEF Rest
<1>9. QED
  BY <1>2, <1>3, <1>6, <1>7, <1>8

LEMMA CommittedStays ==
  ASSUME UNCHANGED <<listed, intent, left, checking>>
  PROVE  Committed' = Committed
BY DEF Committed, State, Reported

-----------------------------------------------------------------------------
(* The inductive invariant *)

SeenRunning == {h \in Hash : snap[h].state = "downloading"}

(* Until the snapshot is taken, the measurement is off by no more than     *)
(* what was written since.                                                 *)
MeasurementHolds ==
  engPc \in {"probePaused", "probeSoft", "snapshot"} => engFree <= free + drift

(* From the snapshot on, what is committed has only grown by the start of  *)
(* torrents, and the space has shrunk by what is left less.  No torrent of *)
(* known size has more left than the snapshot says.                        *)
SnapshotHolds ==
  engPc \in {"forced", "completed", "revoke", "heal", "resume"} =>
    /\ Committed + engFree <= free + drift + Costs(snap, SeenRunning)
    /\ \A h \in Hash :
         snap[h].left > 0 => h \in listed /\ left[h] \in 0..snap[h].left

(* The self-heal leaves no running torrent among those believed tagged.    *)
Healed ==
  engPc = "resume" /\ faults = 0 =>
    \A h \in engPaused : IsPausedDownload(snap[h].state)

BudgetInv ==
  /\ BudgetTypeOK
  /\ MeasurementHolds
  /\ SnapshotHolds
  /\ Healed
  /\ StartsKeepFloor

LEMMA BudgetNumbers ==
  ASSUME BudgetTypeOK
  PROVE  /\ free \in Int /\ engFree \in Int /\ drift \in Int /\ faults \in Nat
         /\ Committed \in Int /\ Costs(snap, SeenRunning) \in Int
         /\ FloorBytes \in Int /\ SafetyBuffer \in Int
         /\ \A h \in Hash : snap[h].left \in Int
         /\ Listing(snap) /\ engPaused \in SUBSET DOMAIN snap
         /\ SeenRunning \in SUBSET Hash
<1>1. /\ free \in Int /\ engFree \in Int /\ drift \in Int /\ faults \in Nat
      /\ WorldTypeOK /\ snap \in Snapshot /\ engPaused \in SUBSET Hash
  BY WorldAssumption, DriftAssumption
  DEF BudgetTypeOK, TypeOK, WorldTypeOK, EngineTypeOK
<1>2. /\ \A h \in Hash : snap[h].left \in Int
      /\ DOMAIN snap = Hash
  BY <1>1, WorldAssumption DEF Snapshot, Unknown
<1>3. Listing(snap)
  BY <1>2, WorldAssumption, PlannerAssumption DEF Listing
<1>4. SeenRunning \in SUBSET Hash
  BY DEF SeenRunning
<1>5. Costs(snap, SeenRunning) \in Int
  <2>1. IsFiniteSet(SeenRunning)
    BY <1>4, HashIsFinite
  <2>2. \A h \in SeenRunning : AmountLeft(snap)[h] \in Int
    BY <1>2, <1>4 DEF AmountLeft
  <2>3. QED
    BY <2>1, <2>2, SumType DEF Costs
<1>6. QED
  BY <1>1, <1>2, <1>3, <1>4, <1>5, CommittedType, FloorType

LEMMA BudgetTypeStep ==
  ASSUME BudgetTypeOK, BudgetNext
  PROVE  BudgetTypeOK'
<1>1. TypeOK
  BY DEF BudgetTypeOK
<1>2. ASSUME NEW h \in Hash, Download(h) PROVE BudgetTypeOK'
  <2>1. left[h] \in 1..MaxLeft /\ left[h] - 1 \in Unknown..MaxLeft
    BY <1>1, <1>2, RunningHaveASize, WorldAssumption
    DEF Download, TypeOK, WorldTypeOK, Unknown
  <2>2. WorldTypeOK'
    BY <1>1, <1>2, <2>1 DEF Download, TypeOK, WorldTypeOK, historyVars
  <2>3. EngineTypeOK'
    BY <1>1, <1>2 DEF Download, engineVars, tickLocals, TypeOK, EngineTypeOK
  <2>4. drift' \in 0..MaxDrift
    BY <1>2, DriftAssumption DEF Download, Behind, BudgetTypeOK
  <2>5. QED
    BY <2>2, <2>3, <2>4 DEF BudgetTypeOK, TypeOK
<1>3. ASSUME NEW h \in Hash, TorrentChanges(h) PROVE BudgetTypeOK'
  <2>1. WorldStep
    BY <1>3 DEF TorrentChanges, WorldStep
  <2>2. WorldTypeOK'
    BY <1>1, <2>1, WorldStepType DEF TypeOK
  <2>3. EngineTypeOK'
    BY <1>1, <1>3
    DEF TorrentChanges, engineVars, tickLocals, TypeOK, EngineTypeOK
  <2>4. Share(h)' \in Nat
    BY <2>2, WorldAssumption
    DEF WorldTypeOK, Share, State, Reported, Unknown
  <2>5. drift' \in 0..MaxDrift
    BY <1>3, <2>4, DriftAssumption
    DEF TorrentChanges, Behind, BudgetTypeOK, Share
  <2>6. QED
    BY <2>2, <2>3, <2>5 DEF BudgetTypeOK, TypeOK
<1>4. ASSUME OthersWrite \/ OthersDelete PROVE BudgetTypeOK'
  <2>1. drift' \in 0..MaxDrift
    BY <1>4, DriftAssumption DEF OthersWrite, OthersDelete, Behind, BudgetTypeOK
  <2>2. TypeOK'
    BY <1>1, <1>4
    DEF OthersWrite, OthersDelete, TypeOK, WorldTypeOK, EngineTypeOK,
        torrentVars, historyVars, engineVars, tickLocals
  <2>3. QED
    BY <2>1, <2>2 DEF BudgetTypeOK
<1>5. ASSUME Tick PROVE BudgetTypeOK'
  <2>1. TypeOK'
    BY <1>1, <1>5, TypeStep DEF Tick, Next
  <2>2. drift' \in 0..MaxDrift
    BY <1>5, DriftAssumption DEF Tick, BudgetTypeOK
  <2>3. QED
    BY <2>1, <2>2 DEF BudgetTypeOK
<1>6. QED
  BY <1>2, <1>3, <1>4, <1>5 DEF BudgetNext

-----------------------------------------------------------------------------
(* Behind the back of the tick *)

LEMMA DriftArithmetic ==
  \A c, f, d, f2, d2 \in Int : f + d <= f2 + d2 => c + f + d <= c + f2 + d2
OBVIOUS

(* A step of the world keeps the invariant when the drift makes good for   *)
(* the space it takes and for the torrents it starts.                      *)
LEMMA DriftCovers ==
  ASSUME BudgetInv, BudgetTypeOK', UNCHANGED engineVars, faults' = faults,
         Measured /\ ~Looked => free + drift <= free' + drift',
         Looked => Committed' + free + drift <= Committed + free' + drift',
         \A h \in listed : left[h] # Unknown =>
                             h \in listed' /\ left'[h] \in 0..left[h]
  PROVE  BudgetInv'
<1> USE DEF engineVars, tickLocals
<1>1. BudgetTypeOK
  BY DEF BudgetInv
<1>2. /\ free \in Int /\ drift \in Int /\ engFree \in Int /\ Committed \in Int
      /\ Costs(snap, SeenRunning) \in Int
      /\ FloorBytes \in Int /\ SafetyBuffer \in Int
      /\ \A h \in Hash : snap[h].left \in Int
  BY <1>1, BudgetNumbers
<1>3. free' \in Int /\ drift' \in Int /\ Committed' \in Int
  <2>1. WorldTypeOK' /\ drift' \in 0..MaxDrift
    BY DEF BudgetTypeOK, TypeOK
  <2>2. Committed' \in Int
    <3>1. /\ IsFiniteSet(Running')
          /\ \A h \in Running' : left'[h] \in Int
      BY <2>1, HashIsFinite, WorldAssumption DEF Running, WorldTypeOK, Unknown
    <3>2. QED
      BY <3>1, SumType DEF Committed, Running
  <2>3. QED
    BY <2>1, <2>2, WorldAssumption, DriftAssumption DEF WorldTypeOK
<1>4. MeasurementHolds'
  BY <1>2, <1>3 DEF BudgetInv, MeasurementHolds, Measured, Looked
<1>5. SnapshotHolds'
  <2> SUFFICES ASSUME engPc \in {"forced", "completed", "revoke", "heal",
                                 "resume"}
               PROVE  SnapshotHolds'
    BY DEF SnapshotHolds
  <2>1. Looked /\ SeenRunning' = SeenRunning
        /\ Costs(snap, SeenRunning)' = Costs(snap, SeenRunning)
    BY DEF Looked, Measured, SeenRunning, Costs
  <2>2. /\ Committed + engFree <= free + drift + Costs(snap, SeenRunning)
        /\ \A h \in Hash :
             snap[h].left > 0 => h \in listed /\ left[h] \in 0..snap[h].left
    BY DEF BudgetInv, SnapshotHolds
  <2>3. Committed' + engFree
          <= free' + drift' + Costs(snap, SeenRunning)
    <3>1. Committed' + free + drift <= Committed + free' + drift'
      BY <2>1
    <3> HIDE DEF engineVars, tickLocals
    <3>2. QED
      BY <1>2, <1>3, <2>2, <3>1
  <2>4. ASSUME NEW h \in Hash, snap[h].left > 0
        PROVE  h \in listed' /\ left'[h] \in 0..snap[h].left
    <3>1. h \in listed /\ left[h] \in 0..snap[h].left
      BY <2>2, <2>4
    <3>2. h \in listed' /\ left'[h] \in 0..left[h]
      BY <3>1 DEF Unknown
    <3>3. QED
      BY <1>2, <3>1, <3>2
  <2>5. QED
    BY <2>1, <2>3, <2>4 DEF SnapshotHolds
<1>6. Healed'
  BY DEF BudgetInv, Healed
<1>7. StartsKeepFloor'
  <2> SUFFICES ASSUME engPc = "untag", faults = 0
               PROVE  Committed' + FloorBytes + SafetyBuffer <= free' + drift'
    BY DEF StartsKeepFloor
  <2>1. Committed + FloorBytes + SafetyBuffer <= free + drift
    BY DEF BudgetInv, StartsKeepFloor
  <2>2. Committed' + free + drift <= Committed + free' + drift'
    BY DEF Looked, Measured
  <2>3. \A c, f, d \in Int :
          c + free + drift <= Committed + f + d
            => c + FloorBytes + SafetyBuffer <= f + d
    BY <1>2, <2>1
  <2>4. QED
    BY <1>3, <2>2, <2>3, Zenon
<1>8. QED
  BY <1>4, <1>5, <1>6, <1>7 DEF BudgetInv

LEMMA DownloadKeepsBudgetInv ==
  ASSUME BudgetInv, NEW h \in Hash, Download(h)
  PROVE  BudgetInv'
<1>1. BudgetTypeOK /\ BudgetTypeOK'
  BY BudgetTypeStep DEF BudgetInv, BudgetNext
<1>2. WorldTypeOK /\ WorldTypeOK'
  BY <1>1 DEF BudgetTypeOK, TypeOK
<1>3. left[h] \in Int /\ left[h] > 0 /\ free \in Int /\ drift \in Int
      /\ Committed \in Int /\ Share(h) \in Int
  BY <1>1, <1>2, RunningHaveASize, BudgetNumbers DEF Download
<1>4. /\ free' = free - 1 /\ faults' = faults
      /\ drift' = drift + IF Measured /\ (~Looked \/ IsForced(State(h)))
                          THEN 1 ELSE 0
      /\ left' = [left EXCEPT ![h] = @ - 1]
      /\ UNCHANGED <<listed, intent, checking, engineVars>>
  BY DEF Download, Behind
<1>5. /\ left'[h] = left[h] - 1
      /\ \A g \in Hash \ {h} : left'[g] = left[g] /\ State(g)' = State(g)
  BY <1>2, <1>4 DEF WorldTypeOK, State, Reported
<1>6. Share(h)' = Share(h) - IF State(h) = "downloading" THEN 1 ELSE 0
  BY <1>2, <1>3, <1>4, <1>5
  DEF Download, Share, State, Reported, WorldTypeOK, Unknown
<1>7. Committed' = Committed - IF State(h) = "downloading" THEN 1 ELSE 0
  BY <1>2, <1>3, <1>5, <1>6, OneShareChanges
<1>8. Measured /\ ~Looked => free + drift <= free' + drift'
  BY <1>3, <1>4
<1>9. Looked => Committed' + free + drift <= Committed + free' + drift'
  <2>1. State(h) = "downloading" \/ IsForced(State(h))
    BY DEF Download, IsForced
  <2>2. Looked => Measured
    BY DEF Looked
  <2>3. QED
    BY <1>3, <1>4, <1>7, <2>1, <2>2
<1>10. \A g \in listed : left[g] # Unknown =>
                           g \in listed' /\ left'[g] \in 0..left[g]
  BY <1>2, <1>3, <1>4, <1>5, WorldAssumption DEF WorldTypeOK, Unknown
<1>11. UNCHANGED engineVars /\ faults' = faults
  BY <1>4
<1>12. QED
  BY <1>1, <1>8, <1>9, <1>10, <1>11, DriftCovers

LEMMA OthersKeepBudgetInv ==
  ASSUME BudgetInv, OthersWrite \/ OthersDelete
  PROVE  BudgetInv'
<1>1. BudgetTypeOK /\ BudgetTypeOK'
  BY BudgetTypeStep DEF BudgetInv, BudgetNext
<1>2. /\ WorldTypeOK /\ free \in Int /\ drift \in Int /\ Committed \in Int
  BY <1>1, BudgetNumbers DEF BudgetTypeOK, TypeOK
<1>3. /\ faults' = faults /\ UNCHANGED <<listed, intent, checking, left>>
      /\ UNCHANGED engineVars
      /\ Measured => free + drift <= free' + drift'
  BY <1>2 DEF OthersWrite, OthersDelete, Behind, torrentVars
<1>4. Committed' = Committed
  BY <1>3, CommittedStays
<1>5. Looked => Committed' + free + drift <= Committed + free' + drift'
  <2>1. free' \in Int /\ drift' \in Int
    BY <1>2 DEF OthersWrite, OthersDelete, Behind
  <2>2. Looked => free + drift <= free' + drift'
    BY <1>3 DEF Looked
  <2>3. Looked => Committed + free + drift <= Committed + free' + drift'
    BY <1>2, <2>1, <2>2, DriftArithmetic, Zenon
  <2>4. QED
    BY <1>4, <2>3, Zenon
<1>6. \A g \in listed : left[g] # Unknown =>
                          g \in listed' /\ left'[g] \in 0..left[g]
  BY <1>2, <1>3, WorldAssumption DEF WorldTypeOK, Unknown
<1>7. Measured /\ ~Looked => free + drift <= free' + drift'
  BY <1>3
<1>8. QED
  BY <1>1, <1>3, <1>5, <1>6, <1>7, DriftCovers

LEMMA TorrentChangesKeepBudgetInv ==
  ASSUME BudgetInv, NEW h \in Hash, TorrentChanges(h)
  PROVE  BudgetInv'
<1>1. BudgetTypeOK /\ BudgetTypeOK'
  BY BudgetTypeStep DEF BudgetInv, BudgetNext
<1>2. WorldTypeOK /\ WorldTypeOK'
  BY <1>1 DEF BudgetTypeOK, TypeOK
<1>3. /\ free \in Int /\ drift \in Int /\ Committed \in Int
      /\ Share(h) \in Int /\ Share(h) >= 0 /\ Share(h)' \in Int
  BY <1>1, <1>2, RunningHaveASize, BudgetNumbers, WorldAssumption
  DEF Share, WorldTypeOK, Unknown
<1>4. /\ free' = free /\ faults' = faults /\ UNCHANGED engineVars
      /\ drift' = drift + IF Looked THEN Share(h)' ELSE 0
  BY <1>3 DEF TorrentChanges, Behind, Share, AddTorrent, UserPause, UserResume,
         UserForce, UserStarts, MetadataArrives, Moves
<1>5. \A g \in Hash \ {h} : left'[g] = left[g] /\ State(g)' = State(g)
  BY <1>2 DEF WorldTypeOK, TorrentChanges, AddTorrent, UserPause, UserResume,
              UserForce, UserStarts, MetadataArrives, State, Reported
<1>6. Committed' = Committed - Share(h) + Share(h)'
  BY <1>2, <1>5, OneShareChanges
<1>7. Measured /\ ~Looked => free + drift <= free' + drift'
  BY <1>3, <1>4
<1>8. Looked => Committed' + free + drift <= Committed + free' + drift'
  BY <1>3, <1>4, <1>6
<1>9. \A g \in listed : left[g] # Unknown =>
                          g \in listed' /\ left'[g] \in 0..left[g]
  BY <1>2, WorldAssumption
  DEF WorldTypeOK, TorrentChanges, AddTorrent, UserPause, UserResume,
      UserForce, UserStarts, MetadataArrives, State, Reported, Unknown
<1>10. QED
  BY <1>1, <1>4, <1>7, <1>8, <1>9, DriftCovers

-----------------------------------------------------------------------------
(* The tick *)

(* What runs after a start costs no more than what ran before and what was *)
(* started, at the size the planner saw.                                   *)
LEMMA StartsAdd ==
  ASSUME NEW f, NEW g, NEW R, NEW P, IsFiniteSet(R), IsFiniteSet(P),
         NEW S \in SUBSET (R \cup P),
         \A x \in R \cup P : f[x] \in Int /\ f[x] >= 0,
         \A x \in P : g[x] \in Int /\ f[x] <= g[x]
  PROVE  SumFunctionOnSet(f, S)
           <= SumFunctionOnSet(f, R) + SumFunctionOnSet(g, P)
<1> DEFINE New == P \ R
           Sum(h, T) == SumFunctionOnSet(h, T)
<1>1. /\ New \in SUBSET P /\ IsFiniteSet(New) /\ R \cup P = R \cup New
      /\ R \cap New = {}
  BY FS_Subset
<1>2. IsFiniteSet(R \cup P)
  BY FS_Union
<1>3. Sum(f, S) <= Sum(f, R \cup P)
  BY <1>2, SumPart
<1>4. Sum(f, R \cup P) = Sum(f, R) + Sum(f, New)
  <2>1. \A x \in R \cup New : f[x] \in Int
    OBVIOUS
  <2> HIDE DEF New
  <2>2. SumFunctionOnSet(f, R \cup New) = Sum(f, R) + Sum(f, New)
    BY <1>1, <2>1, SumUnion
  <2>3. QED
    BY <1>1, <2>2, Zenon
<1>5. Sum(f, New) <= Sum(f, P)
  BY <1>1, SumPart
<1>6. Sum(f, P) <= Sum(g, P)
  BY SumOrder
<1>7. /\ Sum(f, S) \in Int /\ Sum(f, R) \in Int /\ Sum(f, New) \in Int
      /\ Sum(f, P) \in Int /\ Sum(g, P) \in Int
  <2>1. IsFiniteSet(S)
    BY <1>2, FS_Subset
  <2>2. /\ \A x \in S : f[x] \in Int
        /\ \A x \in New : f[x] \in Int
    OBVIOUS
  <2> HIDE DEF New
  <2>3. QED
    BY <1>1, <2>1, <2>2, SumType
<1> HIDE DEF New, Sum
<1>8. Sum(f, S) <= Sum(f, R) + Sum(g, P)
  BY <1>3, <1>4, <1>5, <1>6, <1>7
<1>9. QED
  BY <1>8 DEF Sum

LEMMA StartKeepsFloor ==
  ASSUME "downloading" \in DownloadingStates, BudgetInv, ResumePlanned,
         drift' = drift, engPc' = "untag", faults' = 0
  PROVE  StartsKeepFloor'
<1> DEFINE resume == [policy |-> Policy, strict_fifo |-> StrictFifo]
           Others == Projected(snap, engPaused)
<1>1. BudgetTypeOK /\ WorldTypeOK
  BY DEF BudgetInv, BudgetTypeOK, TypeOK
<1>2. /\ free \in Int /\ engFree \in Int /\ drift \in Int /\ faults \in Nat
      /\ Committed \in Int /\ Costs(snap, SeenRunning) \in Int
      /\ FloorBytes \in Int /\ SafetyBuffer \in Int
      /\ \A h \in Hash : snap[h].left \in Int
      /\ Listing(snap) /\ engPaused \in SUBSET DOMAIN snap /\ DOMAIN snap = Hash
  BY <1>1, BudgetNumbers DEF BudgetTypeOK, TypeOK, EngineTypeOK, Snapshot
<1>3. /\ engPc = "resume" /\ ResumeCall(ToResume, "ok") /\ ToResume # {}
      /\ faults = 0
  BY DEF ResumePlanned, Abandon, Finish, ForgetLocals, Continue, ResumeCall,
         CallMayEnd
<1>4. /\ free' = free /\ left' = left /\ listed' = listed
      /\ checking' = checking
      /\ intent' = [h \in Hash |-> IF h \in ToResume \cap listed THEN "run"
                                   ELSE intent[h]]
  BY <1>3 DEF ResumeCall, Took
<1>5. /\ Committed + engFree <= free + drift + Costs(snap, SeenRunning)
      /\ \A h \in Hash :
           snap[h].left > 0 => h \in listed /\ left[h] \in 0..snap[h].left
      /\ \A h \in engPaused : IsPausedDownload(snap[h].state)
  BY <1>3 DEF BudgetInv, SnapshotHolds, Healed
<1>6. /\ \A h \in Others : snap[h].left >= 0
      /\ Costs(snap, ToResume) + Costs(snap, Others)
           + FloorBytes + SafetyBuffer <= engFree
  <2>1. Planned(resume, snap, engPaused, engFree) # {}
    BY <1>3 DEF ToResume
  <2> HIDE DEF resume
  <2>2. /\ \A h \in Projected(snap, engPaused) : snap[h].left >= 0
        /\ Costs(snap, Planned(resume, snap, engPaused, engFree))
             + Costs(snap, Projected(snap, engPaused))
             + FloorBytes + SafetyBuffer <= engFree
    BY <1>2, <2>1, PlannedFits
  <2>3. ToResume = Planned(resume, snap, engPaused, engFree)
    BY DEF ToResume, resume
  <2>4. QED
    BY <2>2, <2>3
<1>7. ToResume \in SUBSET Hash /\ \A h \in ToResume : snap[h].left > 0
  BY <1>2 DEF ToResume, Planned, EligibleCandidates
<1>8. Others \in SUBSET Hash /\ SeenRunning \in SUBSET Others
  BY <1>2, <1>5
  DEF Projected, SeenRunning, IsActiveForProjection, IsPausedDownload,
      PausedDownloadStates, IsForced, IsDownloadingIsh
<1>9. /\ IsFiniteSet(Others) /\ IsFiniteSet(ToResume) /\ IsFiniteSet(Running)
      /\ \A h \in Hash : AmountLeft(snap)[h] = snap[h].left
  BY <1>2, <1>7, <1>8, HashIsFinite DEF Running, AmountLeft
<1> HIDE DEF resume, Others
<1>10. /\ Costs(snap, SeenRunning) <= Costs(snap, Others)
       /\ Costs(snap, Others) \in Int /\ Costs(snap, ToResume) \in Int
  <2>1. \A h \in Others : AmountLeft(snap)[h] \in Int /\ AmountLeft(snap)[h] >= 0
    BY <1>2, <1>6, <1>8, <1>9
  <2>2. SumFunctionOnSet(AmountLeft(snap), SeenRunning)
          <= SumFunctionOnSet(AmountLeft(snap), Others)
    BY <1>8, <1>9, <2>1, SumPart
  <2>3. \A h \in ToResume : AmountLeft(snap)[h] \in Int
    BY <1>2, <1>7, <1>9
  <2>4. QED
    BY <1>9, <2>1, <2>2, <2>3, SumType DEF Costs
<1>11. Committed' <= Committed + Costs(snap, ToResume)
  <2>1. Running' \in SUBSET (Running \cup ToResume)
    BY <1>1, <1>4, <1>7 DEF Running, State, Reported, WorldTypeOK
  <2>2. \A h \in Running \cup ToResume : left[h] \in Int /\ left[h] >= 0
    BY <1>1, <1>2, <1>5, <1>7, RunningHaveASize DEF Running
  <2>3. \A h \in ToResume : /\ AmountLeft(snap)[h] \in Int
                            /\ left[h] <= AmountLeft(snap)[h]
    BY <1>2, <1>5, <1>7, <1>9
  <2>4. SumFunctionOnSet(left, Running')
          <= SumFunctionOnSet(left, Running)
               + SumFunctionOnSet(AmountLeft(snap), ToResume)
    BY <1>9, <2>1, <2>2, <2>3, StartsAdd
  <2>5. Committed' = SumFunctionOnSet(left, Running')
    BY <1>4 DEF Committed, Running
  <2>6. QED
    BY <2>4, <2>5 DEF Committed, Running, Costs
<1>12. Committed' \in Int
  <2>1. IsFiniteSet(Running') /\ \A h \in Running' : left'[h] \in Int
    BY <1>1, <1>4, WorldAssumption, HashIsFinite
    DEF Running, WorldTypeOK, Unknown
  <2>2. QED
    BY <2>1, SumType DEF Committed, Running
<1>13. \A c \in Int : c <= Committed + Costs(snap, ToResume)
                        => c + FloorBytes + SafetyBuffer <= free + drift
  BY <1>2, <1>5, <1>6, <1>10
<1>14. Committed' + FloorBytes + SafetyBuffer <= free + drift
  BY <1>11, <1>12, <1>13, Zenon
<1>15. QED
  BY <1>4, <1>14 DEF StartsKeepFloor

LEMMA SnapshotKeepsBudgetInv ==
  ASSUME BudgetInv, TakeSnapshot, drift' = drift, BudgetTypeOK'
  PROVE  BudgetInv'
<1>1. BudgetTypeOK /\ WorldTypeOK /\ EngineTypeOK
  BY DEF BudgetInv, BudgetTypeOK, TypeOK
<1>2. CASE ReadCall(FALSE) /\ Abandon
  BY <1>2 DEF BudgetInv, MeasurementHolds, SnapshotHolds, Healed,
              StartsKeepFloor, Abandon, ForgetLocals
<1>3. CASE ReadCall(TRUE) /\ Continue("forced")
  <2>1. /\ free' = free /\ engFree' = engFree /\ engPc' = "forced"
        /\ UNCHANGED <<listed, intent, left, checking>>
        /\ snap' = [h \in Hash |->
                      [state |-> State(h),
                       left |-> IF h \in listed THEN left[h] ELSE Unknown]]
    BY <1>3 DEF TakeSnapshot, ReadCall, Continue, torrentVars, Abandon,
                ForgetLocals
  <2>2. engPc = "snapshot" /\ engFree <= free + drift
    BY DEF BudgetInv, MeasurementHolds, TakeSnapshot
  <2>3. SeenRunning' = Running
    BY <2>1 DEF SeenRunning, Running
  <2>4. SumFunctionOnSet(AmountLeft(snap'), Running) = Committed
    <3>1. \A h \in Running : /\ left[h] \in Int
                             /\ left[h] = AmountLeft(snap')[h]
      BY <1>1, <2>1, RunningHaveASize DEF Running, AmountLeft, State
    <3>2. IsFiniteSet(Running)
      BY HashIsFinite DEF Running
    <3>3. SumFunctionOnSet(left, Running)
            = SumFunctionOnSet(AmountLeft(snap'), Running)
      BY <3>1, <3>2, SumSame
    <3>4. QED
      BY <3>3 DEF Committed, Running
  <2>5. Committed' = Committed
    BY <2>1, CommittedStays
  <2>6. Costs(snap, SeenRunning)' = Committed
    BY <2>3, <2>4 DEF Costs
  <2>7. Committed \in Int /\ free \in Int /\ drift \in Int /\ engFree \in Int
    BY <1>1, BudgetNumbers
  <2>8. Committed + engFree <= free + drift + Committed
    BY <2>2, <2>7
  <2>9. Committed' + engFree'
          <= free' + drift' + Costs(snap, SeenRunning)'
    BY <2>1, <2>5, <2>6, <2>8, Zenon
  <2>10. \A h \in Hash :
           snap'[h].left > 0 => h \in listed' /\ left'[h] \in 0..snap'[h].left
    BY <1>1, <2>1, WorldAssumption DEF WorldTypeOK, Unknown
  <2>11. SnapshotHolds'
    BY <2>9, <2>10 DEF SnapshotHolds
  <2>12. QED
    BY <2>1, <2>11
    DEF BudgetInv, MeasurementHolds, Healed, StartsKeepFloor
<1>4. QED
  BY <1>2, <1>3 DEF TakeSnapshot

(* The calls between the snapshot and the planner touch tags only. *)
LEMMA CleanupKeepsBudgetInv ==
  ASSUME BudgetInv, drift' = drift, BudgetTypeOK',
         CleanupForced \/ CleanupCompleted \/ RevokeSoft \/ HealPaused
  PROVE  BudgetInv'
<1> USE DEF Abandon, ForgetLocals, Continue
<1>1. /\ engPc \in {"forced", "completed", "revoke", "heal"}
      /\ UNCHANGED <<listed, intent, left, checking, free>>
  BY DEF CleanupForced, CleanupCompleted, RevokeSoft, HealPaused, UnmarkCall,
         RevokeCall
<1>2. Committed' = Committed
  BY <1>1, CommittedStays
<1>3. CASE engPc' = "idle"
  BY <1>3 DEF BudgetInv, MeasurementHolds, SnapshotHolds, Healed,
              StartsKeepFloor
<1>4. CASE engPc' # "idle"
  <2>1. /\ UNCHANGED <<engFree, snap>>
        /\ engPc' \in {"completed", "revoke", "heal", "resume", "grant",
                       "pause"}
        /\ engPc' = "resume" => HealPaused
    <3>1. CASE CleanupForced
      BY <1>4, <3>1 DEF CleanupForced
    <3>2. CASE CleanupCompleted
      BY <1>4, <3>2 DEF CleanupCompleted
    <3>3. CASE RevokeSoft
      BY <1>4, <3>3 DEF RevokeSoft, KeepLists
    <3>4. CASE HealPaused
      BY <1>4, <3>4 DEF HealPaused
    <3>5. QED
      BY <3>1, <3>2, <3>3, <3>4
  <2>2. SnapshotHolds'
    <3>1. SnapshotHolds /\ engPc \in {"forced", "completed", "revoke", "heal"}
      BY <1>1 DEF BudgetInv
    <3>2. /\ Committed + engFree <= free + drift + Costs(snap, SeenRunning)
          /\ \A h \in Hash :
               snap[h].left > 0 => h \in listed /\ left[h] \in 0..snap[h].left
      BY <3>1 DEF SnapshotHolds
    <3>3. Costs(snap, SeenRunning)' = Costs(snap, SeenRunning)
      BY <2>1 DEF Costs, SeenRunning
    <3>4. Committed' + engFree'
            <= free' + drift' + Costs(snap, SeenRunning)'
      BY <1>1, <1>2, <2>1, <3>2, <3>3, Zenon
    <3>5. QED
      BY <1>1, <2>1, <3>2, <3>4 DEF SnapshotHolds
  <2>3. Healed'
    <3> SUFFICES ASSUME engPc' = "resume", faults' = 0
                 PROVE  \A h \in engPaused' : IsPausedDownload(snap'[h].state)
      BY DEF Healed
    <3>1. HealPaused
      BY <2>1
    <3>2. PICK r \in Outcome :
            /\ UnmarkCall(SelfHeal, r) /\ r # "raise"
            /\ engPaused' = IF r = "ok" THEN engPaused \ SelfHeal ELSE engPaused
      BY <1>4, <3>1 DEF HealPaused
    <3>3. r = "ok"
      <4>1. faults \in Nat
        BY BudgetNumbers DEF BudgetInv
      <4>2. QED
        BY <3>2, <4>1 DEF UnmarkCall, CallMayEnd
    <3>4. QED
      BY <2>1, <3>2, <3>3 DEF SelfHeal
  <2>4. QED
    BY <2>1, <2>2, <2>3 DEF BudgetInv, MeasurementHolds, StartsKeepFloor
<1>5. QED
  BY <1>3, <1>4

LEMMA TickKeepsBudgetInv ==
  ASSUME "downloading" \in DownloadingStates, BudgetInv, Tick
  PROVE  BudgetInv'
<1>1. BudgetTypeOK'
  BY BudgetTypeStep DEF BudgetInv, BudgetNext
<1>2. CASE engPc' \in {"idle", "grant", "pause", "mark"}
  BY <1>1, <1>2 DEF BudgetInv, MeasurementHolds, SnapshotHolds, Healed,
                    StartsKeepFloor
<1>3. CASE StartTick
  <2>1. /\ drift' = 0 /\ free' = free
        /\ engPc' \in {"idle", "probePaused", "snapshot"}
        /\ engPc' # "idle" => engFree' = free
    BY <1>3 DEF Tick, StartTick, ReadCall, engineVars
  <2>2. free \in Int
    BY BudgetNumbers DEF BudgetInv
  <2>3. MeasurementHolds'
    <3> SUFFICES ASSUME engPc' # "idle"
                 PROVE  engFree' <= free' + drift'
      BY DEF MeasurementHolds
    <3>1. free <= free + 0
      BY <2>2
    <3>2. QED
      BY <2>1, <3>1, Zenon
  <2>4. SnapshotHolds' /\ Healed' /\ StartsKeepFloor'
    <3>1. engPc' \in {"idle", "probePaused", "snapshot"}
      BY <2>1
    <3>2. QED
      BY <3>1 DEF SnapshotHolds, Healed, StartsKeepFloor
  <2>5. QED
    BY <1>1, <2>3, <2>4 DEF BudgetInv
<1>4. CASE ProbePausedTag \/ ProbeSoftTag
  <2>1. /\ free' = free /\ engPc \in {"probePaused", "probeSoft"}
        /\ engPc' \in {"idle", "probeSoft", "snapshot"}
        /\ engPc' # "idle" => engFree' = engFree
    BY <1>4 DEF ProbePausedTag, ProbeSoftTag, ReadCall, Continue, Finish,
                Abandon, ForgetLocals
  <2>2. drift' = drift
    BY <2>1 DEF Tick
  <2>3. QED
    BY <1>1, <2>1, <2>2
    DEF BudgetInv, MeasurementHolds, SnapshotHolds, Healed, StartsKeepFloor
<1>5. CASE TakeSnapshot
  BY <1>1, <1>5, SnapshotKeepsBudgetInv DEF Tick, TakeSnapshot
<1>6. CASE CleanupForced \/ CleanupCompleted \/ RevokeSoft \/ HealPaused
  <2>1. drift' = drift
    BY <1>6 DEF Tick, CleanupForced, CleanupCompleted, RevokeSoft, HealPaused
  <2>2. QED
    BY <1>1, <1>6, <2>1, CleanupKeepsBudgetInv
<1>7. CASE ResumePlanned
  <2>1. drift' = drift /\ engPc' \in {"idle", "untag"}
    BY <1>7 DEF Tick, ResumePlanned, Abandon, Finish, ForgetLocals, Continue
  <2>2. CASE engPc' = "untag"
    <3>1. StartsKeepFloor'
      BY <1>7, <2>1, <2>2, StartKeepsFloor DEF StartsKeepFloor
    <3>2. QED
      BY <1>1, <2>2, <3>1
      DEF BudgetInv, MeasurementHolds, SnapshotHolds, Healed
  <2>3. QED
    BY <1>2, <2>1, <2>2
<1>8. CASE UntagResumed \/ GrantSoft \/ PauseDownloads \/ MarkPaused
  BY <1>2, <1>8 DEF UntagResumed, GrantSoft, PauseDownloads, MarkPaused,
                    Abandon, Finish, ForgetLocals, Continue
<1>9. QED
  BY <1>3, <1>4, <1>5, <1>6, <1>7, <1>8 DEF Tick, EngineStep

LEMMA BudgetInvInductive ==
  ASSUME "downloading" \in DownloadingStates
  PROVE  BudgetInv /\ [BudgetNext]_budgetVars => BudgetInv'
<1>1. ASSUME BudgetInv, BudgetNext PROVE BudgetInv'
  BY <1>1, TickKeepsBudgetInv, DownloadKeepsBudgetInv, OthersKeepBudgetInv,
     TorrentChangesKeepBudgetInv DEF BudgetNext
<1>2. ASSUME BudgetInv, UNCHANGED budgetVars PROVE BudgetInv'
  <2>1. /\ UNCHANGED <<drift, free, listed, intent, left, checking>>
        /\ UNCHANGED engineVars /\ faults' = faults
    BY <1>2 DEF budgetVars, vars, worldVars, torrentVars
  <2>2. BudgetTypeOK'
    BY <1>2 DEF BudgetInv, BudgetTypeOK, TypeOK, WorldTypeOK, EngineTypeOK,
                budgetVars, vars, worldVars, torrentVars, historyVars,
                engineVars, tickLocals
  <2>3. Committed' = Committed
    BY <2>1, CommittedStays
  <2>4. Costs(snap, SeenRunning)' = Costs(snap, SeenRunning)
    BY <2>1 DEF Costs, SeenRunning, engineVars, tickLocals
  <2>5. MeasurementHolds' /\ SnapshotHolds' /\ Healed' /\ StartsKeepFloor'
    BY <1>2, <2>1, <2>3, <2>4
    DEF BudgetInv, MeasurementHolds, SnapshotHolds, Healed, StartsKeepFloor,
        engineVars, tickLocals
  <2>6. QED
    BY <2>2, <2>5 DEF BudgetInv
<1>3. QED
  BY <1>1, <1>2

LEMMA BudgetInitInv == BudgetInit => BudgetInv
<1>1. BudgetInit => BudgetTypeOK
  BY InitType, DriftAssumption DEF BudgetInit, BudgetTypeOK
<1>2. BudgetInit => engPc = "idle"
  BY DEF BudgetInit, Init, EngineInit
<1>3. QED
  BY <1>1, <1>2 DEF BudgetInv, MeasurementHolds, SnapshotHolds, Healed,
                    StartsKeepFloor

(* What the planner starts can be downloaded to its end, together with all *)
(* that runs unforced, without touching the floor and the buffer, short by *)
(* no more than what the tick could not know of: for any torrents, any     *)
(* sizes, any policy and any order of the steps, as long as no call has    *)
(* failed (execute in resume_planner.py with the projection and the        *)
(* self-heal before it).  It needs the configured downloading_states to    *)
(* include what a running download reports.                                *)
THEOREM AlwaysStartsKeepFloor ==
  ASSUME "downloading" \in DownloadingStates
  PROVE  BudgetSpec => []StartsKeepFloor
<1>1. BudgetInit => BudgetInv
  BY BudgetInitInv
<1>2. BudgetInv /\ [BudgetNext]_budgetVars => BudgetInv'
  BY BudgetInvInductive
<1>3. BudgetInv => StartsKeepFloor
  BY DEF BudgetInv
<1>4. QED
  BY <1>1, <1>2, <1>3, PTL DEF BudgetSpec

-----------------------------------------------------------------------------
(* Starting only what is tagged, on a disk that downloads fill *)

LEMMA BudgetStartInv ==
  ASSUME StartInv, [BudgetNext]_budgetVars
  PROVE  StartInv'
<1> USE DEF StartInv, SeenStoppedIsTagged
<1>1. CASE Tick
  BY <1>1, EngineStepKeepsStartInv DEF Tick
<1>2. ASSUME NEW h \in Hash, Download(h) PROVE StartInv'
  <2>1. left[h] \in 1..MaxLeft
    BY <1>2, RunningHaveASize DEF Download, TypeOK, WorldTypeOK, Unknown
  <2>2. TypeOK'
    BY <1>2, <2>1, WorldAssumption
    DEF Download, TypeOK, WorldTypeOK, EngineTypeOK, historyVars, engineVars,
        tickLocals, Unknown
  <2>3. QED
    BY <1>2, <2>2 DEF Download, engineVars, tickLocals
<1>3. ASSUME NEW h \in Hash, TorrentChanges(h) PROVE StartInv'
  <2>1. WorldStep /\ UNCHANGED engineVars
    BY <1>3 DEF TorrentChanges, WorldStep
  <2>2. TypeOK'
    BY <2>1, TypeStep DEF Next
  <2>3. pausedTag' = pausedTag
    BY <1>3 DEF TorrentChanges, AddTorrent, UserPause, UserResume, UserForce,
                UserStarts, MetadataArrives
  <2>4. QED
    BY <2>1, <2>2, <2>3 DEF engineVars, tickLocals
<1>4. CASE OthersWrite \/ OthersDelete \/ UNCHANGED budgetVars
  BY <1>4 DEF OthersWrite, OthersDelete, budgetVars, vars, worldVars,
              torrentVars, historyVars, engineVars, tickLocals, TypeOK,
              WorldTypeOK, EngineTypeOK
<1>5. QED
  BY <1>1, <1>2, <1>3, <1>4 DEF BudgetNext

(* The planner starts only torrents that carry the paused tag at that      *)
(* moment, also while downloads fill the disk (ResumePlanner.execute).     *)
THEOREM OnlyTaggedAreStartedOnBudget == BudgetSpec => StartsOnlyTagged
<1>1. BudgetInit => StartInv
  BY InitType
  DEF BudgetInit, Init, EngineInit, StartInv, SeenStoppedIsTagged
<1>2. StartInv /\ [BudgetNext]_budgetVars => StartInv'
  BY BudgetStartInv
<1>3. StartInv /\ [BudgetNext]_budgetVars =>
        [\A h \in Hash : GuardStarts(h) => h \in pausedTag]_vars
  <2>1. ASSUME NEW h \in Hash, GuardStarts(h), [BudgetNext]_budgetVars
        PROVE  EngineStep
    BY <2>1 DEF BudgetNext, Tick, Download, OthersWrite, OthersDelete,
                TorrentChanges, GuardStarts, engineVars, budgetVars, vars
  <2>2. QED
    BY <2>1, StartedAreTagged
<1>4. QED
  BY <1>1, <1>2, <1>3, PTL DEF BudgetSpec, StartsOnlyTagged
=============================================================================
