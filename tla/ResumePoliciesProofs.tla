------------------------ MODULE ResumePoliciesProofs ------------------------
(***************************************************************************)
(* Proofs that ResumePlanner's decision is the one its policies promise,   *)
(* for every collection of torrents, every capacity and configuration,     *)
(* every order of priorities and every measurement.                        *)
(***************************************************************************)
EXTENDS ResumePolicies, ResumePlannerProofs

(* What the run's initial states range over, and the one step              *)
PlanInv ==
  /\ snapshot \in [Torrents -> [state : TorrentStates, left : Int]]
  /\ tagged \in SUBSET Torrents
  /\ freeBytes \in Int
  /\ resume \in ResumeSections
  /\ plan = Undecided \/ plan = Planned(resume, snapshot, tagged, freeBytes)

(* The invariant holds: what is decided is what the planner computes.      *)
LEMMA AlwaysPlanInv == PlanSpec => []PlanInv
<1>1. PlanInit => PlanInv
  BY InputAssumption DEF PlanInit, PlanInv, InputAssumption
<1>2. PlanInv /\ [PlanNext]_planVars => PlanInv'
  BY DEF PlanInv, PlanNext, planVars
<1> QED
  BY <1>1, <1>2, PTL DEF PlanSpec

-----------------------------------------------------------------------------
(* The terms of the documentation are those of the planner.                *)

LEMMA TermsAgree ==
  ASSUME PlanInv
  PROVE  /\ Listing(snapshot)
         /\ DOMAIN snapshot = Torrents
         /\ tagged \in SUBSET DOMAIN snapshot
         /\ Candidates = EligibleCandidates(snapshot, tagged)
         /\ Active = Projected(snapshot, tagged)
         /\ \A S : Total(S) = Costs(snapshot, S)
         /\ \A h \in Torrents : Size(h) = snapshot[h].left /\ Size(h) \in Int
<1>1. DOMAIN snapshot = Torrents
  BY DEF PlanInv
<1>2. Listing(snapshot)
  BY <1>1, InputAssumption DEF PlanInv, Listing, InputAssumption
<1>3. Candidates = EligibleCandidates(snapshot, tagged)
  BY DEF Candidates, EligibleCandidates, IsPausedDownload,
         PausedDownloadStates, Size
<1>4. Active = Projected(snapshot, tagged)
  BY <1>1 DEF Active, Projected, IsActiveForProjection, IsForced,
              IsDownloadingIsh
<1>5. \A S : Total(S) = Costs(snapshot, S)
  BY DEF Total, Costs
<1>6. \A h \in Torrents : Size(h) = snapshot[h].left /\ Size(h) \in Int
  BY DEF PlanInv, Size
<1> QED
  BY <1>1, <1>2, <1>3, <1>4, <1>5, <1>6 DEF PlanInv

LEMMA OrdersAgree ==
  ASSUME PlanInv, NEW g \in Torrents, NEW h \in Torrents
  PROVE  SortsBefore(resume.policy, snapshot, g, h) <=> Comes(g, h)
<1> DEFINE policy == resume.policy
           s == SizeKey(policy, snapshot[g].left)
           t == SizeKey(policy, snapshot[h].left)
<1>1. /\ Priority[g] \in Int /\ Priority[h] \in Int
      /\ Size(g) \in Int /\ Size(h) \in Int
      /\ Size(g) = snapshot[g].left /\ Size(h) = snapshot[h].left
  BY TermsAgree, OrderAssumption, InputAssumption
     DEF OrderAssumption, InputAssumption
<1>2. SortsBefore(policy, snapshot, g, h) <=>
        \/ s < t
        \/ s = t /\ -Priority[g] < -Priority[h]
        \/ /\ s = t /\ -Priority[g] = -Priority[h]
           /\ AddedOn[g] < AddedOn[h]
        \/ /\ s = t /\ -Priority[g] = -Priority[h]
           /\ AddedOn[g] = AddedOn[h] /\ HashOrder[g] < HashOrder[h]
  BY SortsBeforeIs
<1>3. SortsBefore(policy, snapshot, g, h) <=> s < t \/ (s = t /\ Older(g, h))
  BY <1>1, <1>2 DEF Older
<1>4. CASE policy = "smallest_first"
  <2>1. s = Size(g) /\ t = Size(h)
    BY <1>1, <1>4 DEF SizeKey
  <2>2. Comes(g, h) <=> Size(g) < Size(h) \/ (Size(g) = Size(h) /\ Older(g, h))
    BY <1>4 DEF Comes
  <2> QED
    BY <1>3, <2>1, <2>2
<1>5. CASE policy = "largest_first"
  <2>1. s = -Size(g) /\ t = -Size(h)
    BY <1>1, <1>5 DEF SizeKey
  <2>2. Comes(g, h) <=> Size(g) > Size(h) \/ (Size(g) = Size(h) /\ Older(g, h))
    BY <1>5 DEF Comes
  <2> QED
    BY <1>1, <1>3, <2>1, <2>2
<1>6. CASE policy # "smallest_first" /\ policy # "largest_first"
  <2>1. s = 0 /\ t = 0
    BY <1>6 DEF SizeKey
  <2>2. Comes(g, h) <=> Older(g, h)
    BY <1>6 DEF Comes
  <2> QED
    BY <1>3, <2>1, <2>2
<1> QED
  BY <1>4, <1>5, <1>6

LEMMA PrefixesAgree ==
  ASSUME PlanInv, NEW h \in Torrents, NEW S \in SUBSET Torrents
  PROVE  SortedUpTo(resume.policy, snapshot, h, S) = UpTo(h, S)
<1>1. \A g \in S : SortsBefore(resume.policy, snapshot, g, h) <=> Comes(g, h)
  BY OrdersAgree
<1> QED
  BY <1>1 DEF SortedUpTo, UpTo

(* The decision, in the terms of the documentation                         *)
LEMMA DecisionIs ==
  ASSUME PlanInv, Decided
  PROVE  /\ plan = Planned(resume, snapshot, tagged, freeBytes)
         /\ Candidates \in SUBSET Torrents /\ Active \in SUBSET Torrents
         /\ Positive(snapshot, Candidates)
         /\ Room \in Int
         /\ ~SizesKnown => plan = {}
         /\ SizesKnown =>
              /\ plan = Fitting(resume, snapshot, Candidates, Room)
              /\ plan \in SUBSET Candidates
              /\ plan # {} => Total(plan) <= Room
              /\ \A h \in Candidates :
                   h \in plan <=>
                     IF StopsAtMisfit(resume)
                     THEN Total(UpTo(h, Candidates)) <= Room
                     ELSE Total(UpTo(h, plan) \cup {h}) <= Room
<1> DEFINE C == EligibleCandidates(snapshot, tagged)
           A == Projected(snapshot, tagged)
           budget == freeBytes - FloorBytes - SafetyBuffer - Costs(snapshot, A)
           decision == Planned(resume, snapshot, tagged, freeBytes)
<1>1. /\ Listing(snapshot) /\ DOMAIN snapshot = Torrents
      /\ tagged \in SUBSET DOMAIN snapshot
      /\ Candidates = C /\ Active = A
      /\ \A S : Total(S) = Costs(snapshot, S)
      /\ \A h \in Torrents : Size(h) = snapshot[h].left /\ Size(h) \in Int
  BY TermsAgree
<1>2. freeBytes \in Int /\ plan = decision
  BY DEF PlanInv, Decided
<1>3. /\ Positive(snapshot, C) /\ C \in SUBSET DOMAIN snapshot
      /\ A \in SUBSET DOMAIN snapshot /\ budget \in Int
      /\ (\E h \in A : snapshot[h].left < 0) => decision = {}
      /\ (\A h \in A : snapshot[h].left >= 0)
           => decision = Fitting(resume, snapshot, C, budget)
  BY <1>1, <1>2, PlannedIs
<1> HIDE DEF C, A, budget, decision
<1>4. Room = budget
  BY <1>1 DEF Room, budget
<1>5. ASSUME ~SizesKnown
      PROVE  plan = {}
  <2>1. \E h \in A : snapshot[h].left < 0
    BY <1>1, <1>3, <1>5 DEF SizesKnown
  <2> QED
    BY <1>2, <1>3, <2>1
<1>6. ASSUME SizesKnown
      PROVE  /\ plan = Fitting(resume, snapshot, Candidates, Room)
             /\ plan \in SUBSET Candidates
             /\ plan # {} => Total(plan) <= Room
             /\ \A h \in Candidates :
                  h \in plan <=>
                    IF StopsAtMisfit(resume)
                    THEN Total(UpTo(h, Candidates)) <= Room
                    ELSE Total(UpTo(h, plan) \cup {h}) <= Room
  <2>1. \A h \in A : snapshot[h].left >= 0
    BY <1>1, <1>3, <1>6 DEF SizesKnown
  <2>2. plan = Fitting(resume, snapshot, C, budget)
    BY <1>2, <1>3, <2>1, Zenon
  <2>3. /\ plan \in SUBSET C
        /\ plan # {} => Costs(snapshot, plan) <= budget
        /\ \A h \in C :
             h \in plan <=>
               IF StopsAtMisfit(resume)
               THEN Costs(snapshot, SortedUpTo(resume.policy, snapshot, h, C))
                      <= budget
               ELSE Costs(snapshot, SortedUpTo(resume.policy, snapshot, h, plan)
                                      \cup {h}) <= budget
    <3> DEFINE started == Fitting(resume, snapshot, C, budget)
    <3>1. /\ started \in SUBSET C
          /\ started # {} => Costs(snapshot, started) <= budget
          /\ \A h \in C :
               h \in started <=>
                 IF StopsAtMisfit(resume)
                 THEN Costs(snapshot,
                            SortedUpTo(resume.policy, snapshot, h, C))
                        <= budget
                 ELSE Costs(snapshot,
                            SortedUpTo(resume.policy, snapshot, h, started)
                              \cup {h}) <= budget
      BY <1>3, FittingIs
    <3>2. started = plan
      BY <2>2
    <3> HIDE DEF started
    <3> QED
      BY <3>1, <3>2, Zenon
  <2>4. \A h \in C :
          /\ SortedUpTo(resume.policy, snapshot, h, C) = UpTo(h, C)
          /\ SortedUpTo(resume.policy, snapshot, h, plan) = UpTo(h, plan)
    BY <1>1, <1>3, <2>3, PrefixesAgree
  <2>5. \A h \in C :
          h \in plan <=>
            IF StopsAtMisfit(resume)
            THEN Total(UpTo(h, C)) <= Room
            ELSE Total(UpTo(h, plan) \cup {h}) <= Room
    BY <1>1, <1>4, <2>3, <2>4, Zenon
  <2>6. plan # {} => Total(plan) <= Room
    BY <1>1, <1>4, <2>3, Zenon
  <2>7. plan \in SUBSET Candidates
    BY <1>1, <2>3, Zenon
  <2>8. plan = Fitting(resume, snapshot, Candidates, Room)
    BY <1>1, <1>4, <2>2, Zenon
  <2>9. \A h \in Candidates :
          h \in plan <=>
            IF StopsAtMisfit(resume)
            THEN Total(UpTo(h, Candidates)) <= Room
            ELSE Total(UpTo(h, plan) \cup {h}) <= Room
    BY <1>1, <2>5, Zenon
  <2> QED
    BY <2>6, <2>7, <2>8, <2>9
<1>7. /\ Candidates \in SUBSET Torrents /\ Active \in SUBSET Torrents
      /\ Positive(snapshot, Candidates) /\ Room \in Int
  BY <1>1, <1>3, <1>4, Zenon
<1> QED
  BY <1>2, <1>5, <1>6, <1>7 DEF decision

-----------------------------------------------------------------------------
(* The loop of ResumePlanner.execute starts exactly the candidates that    *)
(* the configured policy promises, and none while the size of an active    *)
(* download is unknown.                                                    *)
THEOREM AlwaysPlanFollowsPolicy == PlanSpec => []PlanFollowsPolicy
<1>1. ASSUME PlanInv
      PROVE  PlanFollowsPolicy
  <2> SUFFICES ASSUME Decided
               PROVE  IF ~SizesKnown THEN plan = {}
                      ELSE plan =
                        {h \in Candidates :
                           IF resume.policy = "priority_fifo"
                                /\ resume.strict_fifo
                           THEN Total(UpTo(h, Candidates)) <= Room
                           ELSE Total(UpTo(h, plan) \cup {h}) <= Room}
    BY DEF PlanFollowsPolicy
  <2>1. StopsAtMisfit(resume)
          <=> resume.policy = "priority_fifo" /\ resume.strict_fifo
    BY DEF StopsAtMisfit
  <2>2. ~SizesKnown => plan = {}
    BY <1>1, DecisionIs
  <2>3. SizesKnown =>
          /\ plan \in SUBSET Candidates
          /\ \A h \in Candidates :
               h \in plan <=>
                 IF StopsAtMisfit(resume)
                 THEN Total(UpTo(h, Candidates)) <= Room
                 ELSE Total(UpTo(h, plan) \cup {h}) <= Room
    BY <1>1, DecisionIs
  <2> QED
    BY <2>1, <2>2, <2>3
<1> QED
  BY <1>1, AlwaysPlanInv, PTL

(* What the planner starts together leaves the floor, the safety buffer    *)
(* and what the active downloads still need.                               *)
THEOREM AlwaysPlanKeepsFloor == PlanSpec => []PlanKeepsFloor
<1>1. ASSUME PlanInv
      PROVE  PlanKeepsFloor
  <2> SUFFICES ASSUME Decided, plan # {}
               PROVE  Total(plan) + Total(Active) + FloorBytes + SafetyBuffer
                        <= freeBytes
    BY DEF PlanKeepsFloor
  <2>1. plan = Planned(resume, snapshot, tagged, freeBytes)
    BY <1>1, DecisionIs
  <2>2. /\ Listing(snapshot) /\ tagged \in SUBSET DOMAIN snapshot
        /\ freeBytes \in Int
    BY <1>1, TermsAgree DEF PlanInv
  <2>3. Costs(snapshot, Planned(resume, snapshot, tagged, freeBytes))
          + Costs(snapshot, Projected(snapshot, tagged))
          + FloorBytes + SafetyBuffer <= freeBytes
    BY <2>1, <2>2, PlannedFits
  <2>4. /\ Active = Projected(snapshot, tagged)
        /\ \A S : Total(S) = Costs(snapshot, S)
    BY <1>1, TermsAgree
  <2> QED
    BY <2>1, <2>3, <2>4, Zenon
<1> QED
  BY <1>1, AlwaysPlanInv, PTL

(* In order of size, no other choice of candidates that fits has more of   *)
(* them: "maximizes the number of torrents that can resume".  Otherwise    *)
(* let m be a smallest candidate that was left behind, and exchange.       *)
THEOREM AlwaysSmallestStartsMost == PlanSpec => []SmallestStartsMost
<1>1. ASSUME PlanInv
      PROVE  SmallestStartsMost
  <2> SUFFICES ASSUME Decided, resume.policy = "smallest_first", SizesKnown,
                      NEW S \in SUBSET Candidates, Total(S) <= Room,
                      ~(Cardinality(S) <= Cardinality(plan))
               PROVE  FALSE
    BY DEF SmallestStartsMost
  <2>1. /\ plan \in SUBSET Candidates
        /\ Candidates \in SUBSET Torrents
        /\ Room \in Int
        /\ \A h \in Candidates :
             h \in plan <=> Total(UpTo(h, plan) \cup {h}) <= Room
    BY <1>1, DecisionIs DEF StopsAtMisfit
  <2>2. \A R \in SUBSET Candidates :
          /\ IsFiniteSet(R) /\ Cardinality(R) \in Nat
          /\ Total(R) \in Int
    <3> SUFFICES ASSUME NEW R \in SUBSET Candidates
                 PROVE  /\ IsFiniteSet(R) /\ Cardinality(R) \in Nat
                        /\ Total(R) \in Int
      OBVIOUS
    <3>1. IsFiniteSet(R)
      <4>1. R \in SUBSET Torrents
        BY <2>1
      <4> QED
        BY <4>1, InputAssumption, FS_Subset, Zenon DEF InputAssumption
    <3>2. \A h \in R : AmountLeft(snapshot)[h] \in Int
      BY <2>1, <1>1, TermsAgree DEF AmountLeft
    <3> QED
      BY <3>1, <3>2, FS_CardinalityType, SumType DEF Total
  <2>3. \A h \in Candidates :
          Size(h) \in Nat /\ AmountLeft(snapshot)[h] = Size(h)
    BY <2>1, <1>1, TermsAgree DEF AmountLeft, Candidates
  <2>4. PICK m \in Candidates \ plan :
          \A h \in Candidates \ plan : Size(m) <= Size(h)
    <3> DEFINE sizes == {Size(h) : h \in Candidates \ plan}
    <3>1. Candidates \ plan # {}
      <4>1. ASSUME plan = Candidates
            PROVE  FALSE
        <5>1. IsFiniteSet(Candidates)
          BY <2>2
        <5>2. Cardinality(S) <= Cardinality(Candidates)
          BY <5>1, FS_Subset
        <5> QED
          BY <4>1, <5>2
      <4> QED
        BY <2>1, <4>1
    <3>2. sizes \in SUBSET Nat /\ sizes # {}
      BY <2>3, <3>1
    <3>3. PICK n \in sizes : \A k \in sizes : ~(k < n)
      <4> HIDE DEF sizes
      <4> QED
        BY <3>2, LeastNumber
    <3>4. PICK m \in Candidates \ plan : n = Size(m)
      BY <3>3
    <3>5. ASSUME NEW h \in Candidates \ plan
          PROVE  Size(m) <= Size(h)
      <4>1. ~(Size(h) < Size(m))
        BY <3>3, <3>4
      <4>2. Size(h) \in Nat /\ Size(m) \in Nat
        BY <2>3
      <4> QED
        BY <4>1, <4>2
    <3> QED
      BY <3>5
  <2> DEFINE F == UpTo(m, plan) \cup {m}
             x == Size(m)
  <2>5. F \in SUBSET Candidates /\ ~(Total(F) <= Room)
    BY <2>1, <2>4 DEF UpTo
  <2>6. ASSUME NEW h \in Candidates
        PROVE  /\ h \in F => Size(h) <= x
               /\ h \notin F => Size(h) >= x
    <3>1. Comes(h, m) <=>
            Size(h) < Size(m) \/ (Size(h) = Size(m) /\ Older(h, m))
      BY DEF Comes
    <3>2. h \in F <=> h = m \/ (h \in plan /\ Comes(h, m))
      BY DEF UpTo
    <3>3. h \notin plan => Size(m) <= Size(h)
      BY <2>4
    <3>4. Size(h) \in Nat /\ Size(m) \in Nat
      BY <2>3, <2>4
    <3> HIDE DEF F
    <3> QED
      BY <3>1, <3>2, <3>3, <3>4
  <2>7. Cardinality(F \ S) <= Cardinality(S \ F)
    <3>1. Cardinality(F) <= Cardinality(plan) + 1
      <4>1. UpTo(m, plan) \in SUBSET plan
        BY DEF UpTo
      <4>2. IsFiniteSet(plan) /\ IsFiniteSet(UpTo(m, plan))
        BY <2>1, <2>2, <4>1
      <4>3. Cardinality(UpTo(m, plan)) <= Cardinality(plan)
        BY <4>1, <4>2, FS_Subset
      <4>4. Cardinality(UpTo(m, plan)) \in Nat /\ Cardinality(plan) \in Nat
        BY <4>2, FS_CardinalityType
      <4>5. Cardinality(F) \in {Cardinality(UpTo(m, plan)),
                                Cardinality(UpTo(m, plan)) + 1}
        BY <4>2, FS_AddElement
      <4> QED
        BY <4>3, <4>4, <4>5
    <3>2. IsFiniteSet(F) /\ IsFiniteSet(S)
      BY <2>2, <2>5
    <3> HIDE DEF F
    <3>3. /\ Cardinality(F \ S) = Cardinality(F) - Cardinality(F \cap S)
          /\ Cardinality(S \ F) = Cardinality(S) - Cardinality(S \cap F)
      BY <3>2, FS_Difference
    <3>4. Cardinality(F \cap S) = Cardinality(S \cap F)
      <4>1. F \cap S = S \cap F
        OBVIOUS
      <4> QED
        BY <4>1, Zenon
    <3>5. /\ Cardinality(F) \in Nat /\ Cardinality(S) \in Nat
          /\ Cardinality(plan) \in Nat /\ Cardinality(S \cap F) \in Nat
      <4>1. plan \in SUBSET Candidates /\ S \cap F \in SUBSET Candidates
        BY <2>1
      <4> QED
        BY <2>2, <2>5, <4>1
    <3> QED
      BY <3>1, <3>3, <3>4, <3>5
  <2> DEFINE f == AmountLeft(snapshot)
  <2> HIDE DEF F
  <2>8. /\ F \ S \in SUBSET Candidates /\ S \ F \in SUBSET Candidates
        /\ S \cap F \in SUBSET Candidates
    BY <2>5
  <2>9. Total(F \ S) <= Cardinality(F \ S) * x
    <3>1. \A h \in F \ S : f[h] \in Int /\ f[h] <= x
      BY <2>3, <2>5, <2>6
    <3>2. IsFiniteSet(F \ S) /\ x \in Int
      BY <2>2, <2>3, <2>4, <2>8
    <3> HIDE DEF f, x
    <3> QED
      BY <3>1, <3>2, SumAtMost DEF Total, f
  <2>10. Total(S \ F) >= Cardinality(S \ F) * x
    <3>1. \A h \in S \ F : f[h] \in Int /\ f[h] >= x
      BY <2>3, <2>6
    <3>2. IsFiniteSet(S \ F) /\ x \in Int
      BY <2>2, <2>3, <2>4, <2>8
    <3> HIDE DEF f, x
    <3> QED
      BY <3>1, <3>2, SumAtLeast DEF Total, f
  <2>11. Cardinality(F \ S) * x <= Cardinality(S \ F) * x
    <3>1. /\ Cardinality(F \ S) \in Nat /\ Cardinality(S \ F) \in Nat
          /\ x \in Nat
      BY <2>2, <2>3, <2>4, <2>8
    <3> HIDE DEF x
    <3>2. \A a, b, c \in Nat : a <= b => a * c <= b * c
      OBVIOUS
    <3> QED
      BY <2>7, <3>1, <3>2
  <2>12. /\ Total(F) = Total(S \cap F) + Total(F \ S)
         /\ Total(S) = Total(S \cap F) + Total(S \ F)
    <3>1. ASSUME NEW A \in SUBSET Candidates, NEW B \in SUBSET Candidates,
                 A \cap B = {}
          PROVE  Total(A \cup B) = Total(A) + Total(B)
      <4>1. IsFiniteSet(A) /\ IsFiniteSet(B)
        BY <2>2
      <4>2. \A h \in A \cup B : f[h] \in Int
        BY <2>3
      <4> HIDE DEF f
      <4> QED
        BY <3>1, <4>1, <4>2, SumUnion DEF Total, f
    <3>2. /\ Total((S \cap F) \cup (F \ S)) = Total(S \cap F) + Total(F \ S)
          /\ Total((S \cap F) \cup (S \ F)) = Total(S \cap F) + Total(S \ F)
      BY <2>8, <3>1
    <3>3. F = (S \cap F) \cup (F \ S) /\ S = (S \cap F) \cup (S \ F)
      OBVIOUS
    <3> QED
      BY <3>2, <3>3, Zenon
  <2>13. /\ Total(F \ S) \in Int /\ Total(S \ F) \in Int
         /\ Total(S \cap F) \in Int
         /\ Cardinality(F \ S) * x \in Int /\ Cardinality(S \ F) * x \in Int
    BY <2>2, <2>3, <2>4, <2>8
  <2> HIDE DEF x, f
  <2> QED
    BY <2>1, <2>5, <2>9, <2>10, <2>11, <2>12, <2>13
<1> QED
  BY <1>1, AlwaysPlanInv, PTL
=============================================================================
