-------------------------- MODULE Transcript_proofs --------------------------
(***************************************************************************)
(* What is proved of the frontend alone holds in the pipeline; the         *)
(* timeline that is made of its windows has one segment per slot; answers  *)
(* match the timeline, and stay what they are unless it gives cause.       *)
(***************************************************************************)
EXTENDS Transcript, Frontend_proofs, FunctionTheorems, WellFoundedInduction

\* Every call is a call of the frontend.
LEMMA StepsAreFrontendSteps == [Next]_vars => [FrontendNext]_frontendVars
<1>1. Ingest => FrontendNext
  BY DEF Ingest, FrontendNext
<1>2. FlushSession => FrontendNext
  BY DEF FlushSession, FrontendNext
<1>3. UNCHANGED vars => UNCHANGED frontendVars
  BY DEF vars
<1> QED BY <1>1, <1>2, <1>3 DEF Next

\* The pipeline uses the frontend as it is specified.
THEOREM UsesFrontend == Spec => FrontendSpec
<1>1. Init => FrontendInit
  BY DEF Init
<1> QED BY <1>1, StepsAreFrontendSteps, PTL DEF Spec, FrontendSpec

\* Windows do not span a break of the recording, whatever the pipeline does.
THEOREM PipelineNeverSpansBreak == Spec => []OneStretch
BY UsesFrontend, NeverSpansBreak, PTL

\* Segments, whose times are the windows' labels, are where the audio was.
THEOREM PipelineLabelsAreTrue == Spec => []LabelsFollowAudio
BY UsesFrontend, LabelsAreTrue, PTL

\* Windows are offered for attribution at every hop of a stretch.
THEOREM PipelineSkipsNoHop == Spec => []EveryHop
BY UsesFrontend, NoHopIsSkipped, PTL

\* What is never offered for attribution is bounded.
THEOREM PipelineLosesLittle == Spec => []LittleIsLost
BY UsesFrontend, LossIsBounded, PTL
-----------------------------------------------------------------------------
(* Induction, without an operator as a parameter: a predicate is a set *)

LEMMA Induction ==
  ASSUME NEW T \in SUBSET Nat, 0 \in T, \A n \in T : n + 1 \in T
  PROVE  T = Nat
<1> SUFFICES ASSUME Nat \ T # {} PROVE FALSE
  OBVIOUS
<1> DEFINE R == OpToRel(<, Nat)
           U == Nat \ T
<1>1. IsWellFoundedOn(R, Nat)
  BY NatLessThanWellFounded
<1>2. U \subseteq Nat /\ U # {}
  OBVIOUS
<1> HIDE DEF R, U
<1>3. PICK x \in U : \A y \in U : ~(<<y, x>> \in R)
  BY <1>1, <1>2, WFMin
<1>4. x \in Nat /\ x # 0 /\ x - 1 \in Nat /\ x - 1 < x
  BY <1>2, <1>3 DEF U
<1>5. <<x - 1, x>> \in R
  BY <1>4 DEF R, OpToRel
<1>6. x - 1 \in T
  BY <1>3, <1>4, <1>5 DEF U
<1>7. (x - 1) + 1 \in T
  BY <1>6
<1> QED BY <1>3, <1>4, <1>7 DEF U

\* A finite set has a first element in every order of its elements.
LEMMA FiniteChoice ==
  ASSUME NEW S, IsFiniteSet(S), NEW R,
         \A x, y, z \in S : <<x, y>> \in R /\ <<y, z>> \in R => <<x, z>> \in R,
         \A x, y \in S : x = y \/ <<x, y>> \in R \/ <<y, x>> \in R
  PROVE  S # {} => \E x \in S : \A y \in S \ {x} : <<x, y>> \in R
<1> DEFINE First(U, x) == \A y \in U \ {x} : <<x, y>> \in R
           Bad == {U \in SUBSET S : U # {} /\ ~\E x \in U : First(U, x)}
<1> SUFFICES ASSUME Bad # {} PROVE FALSE
  OBVIOUS
<1>1. PICK U \in Bad : \A V \in Bad : ~(<<V, U>> \in StrictSubsetOrdering(S))
  <2>1. IsWellFoundedOn(StrictSubsetOrdering(S), SUBSET S)
    BY FS_StrictSubsetOrderingWellFounded, FS_FiniteSubsetsOfFinite
  <2>2. Bad \subseteq SUBSET S
    OBVIOUS
  <2> HIDE DEF Bad
  <2> QED BY <2>1, <2>2, WFMin
<1>2. U \in SUBSET S /\ ~\E x \in U : First(U, x)
  OBVIOUS
<1>3. PICK x \in U : TRUE
  OBVIOUS
<1>4. U \ {x} \in SUBSET S /\ U \ {x} \notin Bad
  <2>1. <<U \ {x}, U>> \in StrictSubsetOrdering(S)
    BY <1>2, <1>3 DEF StrictSubsetOrdering
  <2> HIDE DEF Bad
  <2> QED BY <1>1, <1>2, <2>1
<1>5. U \ {x} # {}
  <2>1. U \ {x} = {} => First(U, x)
    OBVIOUS
  <2> HIDE DEF First
  <2> QED BY <1>2, <1>3, <2>1
<1>6. PICK y \in U \ {x} : First(U \ {x}, y)
  <2> HIDE DEF First
  <2> QED BY <1>4, <1>5
<1>7. x \in S /\ y \in S
  BY <1>2, <1>3, <1>6
<1>8. First(U, y) \/ First(U, x)
  <2>1. CASE <<y, x>> \in R
    BY <1>6, <2>1
  <2>2. CASE <<x, y>> \in R
    <3>1. ASSUME NEW z \in U \ {x} PROVE <<x, z>> \in R
      BY <1>2, <1>6, <1>7, <2>2
    <3> QED BY <3>1
  <2> QED BY <1>6, <1>7, <2>1, <2>2
<1> HIDE DEF First
<1> QED BY <1>2, <1>3, <1>6, <1>8

LEMMA FiniteImage ==
  ASSUME NEW S, IsFiniteSet(S), NEW f, NEW T, \A y \in T : \E x \in S : y = f[x]
  PROVE  IsFiniteSet(T)
<1> DEFINE U == {x \in S : f[x] \in T}
           g == [x \in U |-> f[x]]
<1>1. IsFiniteSet(U)
  <2>1. U \in SUBSET S
    OBVIOUS
  <2> HIDE DEF U
  <2> QED BY <2>1, FS_Subset
<1>2. g \in Surjection(U, T)
  BY DEF Surjection
<1> HIDE DEF U, g
<1> QED BY <1>1, <1>2, FS_Surjection
-----------------------------------------------------------------------------
(* A call cuts off finitely many windows *)

LEMMA FiniteWindows ==
  ASSUME NEW s, Len(s.audio) \in Nat
  PROVE  IsFiniteSet(Windows(s))
<1>1. IsFiniteSet(0..(WindowCount(s) - 1))
  BY WindowsFit, FS_Interval
<1> DEFINE indices == 0..(WindowCount(s) - 1)
           window == [k \in indices |-> WindowAt(s, k)]
<1>2. \A w \in Windows(s) : \E k \in indices : w = window[k]
  BY DEF Windows
<1> HIDE DEF window
<1> QED BY <1>1, <1>2, FiniteImage

LEMMA FiniteTail ==
  ASSUME NEW s
  PROVE  IsFiniteSet(TailOf(s))
BY FS_EmptySet, FS_Singleton DEF TailOf

LEMMA FiniteResult ==
  ASSUME IInv, FrontendNext
  PROVE  IsFiniteSet(result')
<1>1. ASSUME NEW c \in Chunks, NEW final \in BOOLEAN, PushKnown(c, final)
      PROVE  IsFiniteSet(result')
  <2>1. result' = {} \cup TailOf(stream) \/ result' = {} \cup {}
    BY <1>1 DEF PushKnown, Leaves
  <2> QED BY <2>1, FiniteTail, FS_EmptySet
<1>2. ASSUME NEW c \in Chunks, NEW final \in BOOLEAN, PushNew(c, final)
      PROVE  IsFiniteSet(result')
  <2> DEFINE s == Appended(c)
  <2>1. Len(s.audio) \in Nat
    BY <1>2, AppendedIsStretch, LenProperties DEF PushNew, Stretch
  <2> HIDE DEF s
  <2>2. IsFiniteSet(Windows(s)) /\ IsFiniteSet(TailOf(Remainder(s)))
    BY <2>1, FiniteWindows, FiniteTail
  <2>3. result' = Windows(s) \cup TailOf(Remainder(s)) \/ result' = Windows(s) \cup {}
    BY <1>2 DEF s, PushNew, Leaves
  <2>4. IsFiniteSet(Windows(s) \cup TailOf(Remainder(s)))
    BY <2>2, FS_Union
  <2> QED BY <2>2, <2>3, <2>4
<1>3. CASE Flush
  BY <1>3, FiniteTail DEF Flush
<1> QED BY <1>1, <1>2, <1>3 DEF FrontendNext
-----------------------------------------------------------------------------
(* The timeline *)

OneSegmentPerSlot(segments) == \A x, y \in segments : SameSlot(x, y) => x = y

\* What best and last segments depend on: slots differ, and there are finitely many.
Timeline(segments) == /\ segments \in SUBSET Segment
                      /\ OneSegmentPerSlot(segments) /\ IsFiniteSet(segments)

TimelineOK == Timeline(line) /\ newest \in Epochs \cup {0}

\* What a call adds has different slots, since its windows have.
LEMMA NewSegments ==
  ASSUME NEW speech, NEW outcome \in [speech -> Outcomes],
         speech \subseteq WindowType, DistinctSlots(speech)
  PROVE  LET new == {SegmentOf(w, outcome[w]) : w \in speech}
         IN  new \subseteq Segment /\ OneSegmentPerSlot(new)
<1>1. ASSUME NEW w \in speech
      PROVE  SegmentOf(w, outcome[w]) \in Segment
  <2>1. w.start \in Nat /\ w.end \in Nat
    BY DEF WindowType
  <2>2. outcome[w].speaker \in Speakers \cup {Unknown} /\ outcome[w].confidence \in Nat
    BY OutcomesAssumption
  <2> QED BY <2>1, <2>2 DEF SegmentOf, Segment
<1>2. ASSUME NEW v \in speech, NEW w \in speech,
             SameSlot(SegmentOf(v, outcome[v]), SegmentOf(w, outcome[w]))
      PROVE  v = w
  BY <1>2 DEF SameSlot, SegmentOf, DistinctSlots
<1> QED BY <1>1, <1>2 DEF OneSegmentPerSlot

\* What add() has before it cuts off.
Merged(old, new) == {x \in old : ~\E n \in new : SameSlot(n, x) /\ Supersedes(n, x)}
                      \cup {n \in new : \A x \in old : SameSlot(n, x) => Supersedes(n, x)}

\* It has one segment per slot, the newer of two that are of equal rank.
LEMMA MergeKeepsTimeline ==
  ASSUME NEW old, NEW new, Timeline(old), Timeline(new)
  PROVE  Timeline(Merged(old, new))
<1> DEFINE kept == {x \in old : ~\E n \in new : SameSlot(n, x) /\ Supersedes(n, x)}
           added == {n \in new : \A x \in old : SameSlot(n, x) => Supersedes(n, x)}
<1>1. Merged(old, new) = kept \cup added
  BY DEF Merged
<1>2. kept \in SUBSET old /\ added \in SUBSET new
  OBVIOUS
<1>3. ASSUME NEW x \in kept, NEW n \in added PROVE ~SameSlot(n, x)
  OBVIOUS
<1> HIDE DEF kept, added
<1>4. OneSegmentPerSlot(kept \cup added)
  <2> SUFFICES ASSUME NEW x \in kept \cup added, NEW y \in kept \cup added, SameSlot(x, y)
               PROVE  x = y
    BY DEF OneSegmentPerSlot
  <2>1. CASE x \in kept /\ y \in kept
    BY <1>2, <2>1 DEF Timeline, OneSegmentPerSlot
  <2>2. CASE x \in added /\ y \in added
    BY <1>2, <2>2 DEF Timeline, OneSegmentPerSlot
  <2>3. CASE (x \in kept /\ y \in added) \/ (x \in added /\ y \in kept)
    BY <1>3, <2>3 DEF SameSlot
  <2> QED BY <2>1, <2>2, <2>3
<1>5. IsFiniteSet(kept \cup added)
  BY <1>2, FS_Subset, FS_Union DEF Timeline
<1> QED BY <1>1, <1>2, <1>4, <1>5 DEF Timeline

\* A part of a timeline is a timeline.
LEMMA PartOfTimeline ==
  ASSUME NEW segments, Timeline(segments), NEW part \in SUBSET segments
  PROVE  Timeline(part)
BY FS_Subset DEF Timeline, OneSegmentPerSlot

LEMMA AddKeepsTimeline ==
  ASSUME NEW old, NEW new, Timeline(old), Timeline(new)
  PROVE  Timeline(Add(old, new)) /\ Add(old, new) = Retained(Merged(old, new))
<1>1. Add(old, new) = Retained(Merged(old, new))
  BY DEF Add, Merged
<1>2. Retained(Merged(old, new)) \in SUBSET Merged(old, new)
  BY DEF Retained
<1> QED BY <1>1, <1>2, MergeKeepsTimeline, PartOfTimeline

\* A call adds the segments of some of its windows to the timeline.
LEMMA AddsSegments ==
  ASSUME IInv, IInv', FrontendNext, Attribute
  PROVE  \E new : Timeline(new) /\ line' = Add(line, new)
<1>1. PICK speech \in SUBSET result' : \E outcome \in [speech -> Outcomes] :
        line' = Add(line, {SegmentOf(w, outcome[w]) : w \in speech})
  BY DEF Attribute
<1>2. PICK outcome \in [speech -> Outcomes] :
        line' = Add(line, {SegmentOf(w, outcome[w]) : w \in speech})
  BY <1>1
<1> DEFINE new == {SegmentOf(w, outcome[w]) : w \in speech}
           segment == [w \in speech |-> SegmentOf(w, outcome[w])]
<1>3. speech \subseteq WindowType /\ DistinctSlots(speech)
  BY DEF IInv, FrontendTypeOK, DistinctSlots
<1>4. new \in SUBSET Segment /\ OneSegmentPerSlot(new)
  BY <1>3, NewSegments
<1>5. IsFiniteSet(speech)
  BY FiniteResult, FS_Subset
<1>6. \A n \in new : \E w \in speech : n = segment[w]
  OBVIOUS
<1>7. line' = Add(line, new)
  BY <1>2
<1> HIDE DEF new, segment
<1>8. IsFiniteSet(new)
  BY <1>5, <1>6, FiniteImage
<1> QED BY <1>4, <1>7, <1>8 DEF Timeline

LEMMA InitialTimeline == Init => IInv /\ TimelineOK
BY Initial, FS_EmptySet DEF Init, TimelineOK, Timeline, OneSegmentPerSlot

LEMMA InductiveTimeline == IInv /\ TimelineOK /\ [Next]_vars => IInv' /\ TimelineOK'
<1> SUFFICES ASSUME IInv, TimelineOK, [Next]_vars PROVE IInv' /\ TimelineOK'
  OBVIOUS
<1>1. IInv'
  BY StepsAreFrontendSteps, Inductive
<1>2. Ingest \/ FlushSession => FrontendNext /\ Attribute /\ newest' \in Epochs \cup {0}
  BY ChunkTypes DEF Ingest, FlushSession, FrontendNext, TimelineOK
<1>3. CASE Ingest \/ FlushSession
  BY <1>1, <1>2, <1>3, AddsSegments, AddKeepsTimeline DEF TimelineOK
<1>4. CASE UNCHANGED vars
  BY <1>1, <1>4 DEF vars, TimelineOK
<1> QED BY <1>1, <1>3, <1>4 DEF Next

LEMMA TimelineInvariance == Spec => [](IInv /\ TimelineOK)
BY InitialTimeline, InductiveTimeline, PTL DEF Spec

\* Type correctness of the composition: the timeline is the function from slots
\* to segments that the code's dictionary is.
THEOREM TimelineIsCorrect == Spec => []TypeOK
<1>1. IInv /\ TimelineOK => TypeOK
  BY DEF IInv, TimelineOK, Timeline, TypeOK, OneSegmentPerSlot
<1> QED BY <1>1, TimelineInvariance, PTL
-----------------------------------------------------------------------------
(* The best segment, and the last *)

LEMMA Overlaps ==
  ASSUME NEW x, NEW y, x.start \in Int, x.end \in Int, y.start \in Int, y.end \in Int
  PROVE  OverlapMs(x, y) \in Nat
BY DEF OverlapMs, Higher, Lower

\* With one segment per slot, exactly one ranks before all others.
LEMMA BestExists ==
  ASSUME NEW segments, Timeline(segments),
         segments # {}, NEW w, w.start \in Int, w.end \in Int
  PROVE  /\ BestSegment(w, segments) \in segments
         /\ \A y \in segments \ {BestSegment(w, segments)} :
              RanksBefore(w, BestSegment(w, segments), y)
<1> DEFINE R == {p \in segments \X segments : RanksBefore(w, p[1], p[2])}
<1>1. \A x \in segments : /\ x.start \in Nat /\ x.end \in Nat /\ x.confidence \in Nat
                          /\ OverlapMs(w, x) \in Nat
  BY Overlaps DEF Timeline, Segment
<1>2. \A x, y \in segments : <<x, y>> \in R <=> RanksBefore(w, x, y)
  OBVIOUS
<1>3. ASSUME NEW x \in segments, NEW y \in segments, NEW z \in segments,
             RanksBefore(w, x, y), RanksBefore(w, y, z)
      PROVE  RanksBefore(w, x, z)
  BY <1>1, <1>3 DEF RanksBefore, SortsBefore
<1>4. ASSUME NEW x \in segments, NEW y \in segments
      PROVE  x = y \/ RanksBefore(w, x, y) \/ RanksBefore(w, y, x)
  <2>1. x # y => x.start # y.start \/ x.end # y.end
    BY DEF Timeline, OneSegmentPerSlot, SameSlot
  <2> QED BY <1>1, <2>1 DEF RanksBefore, SortsBefore
<1> HIDE DEF R
<1>5. \A x, y, z \in segments : <<x, y>> \in R /\ <<y, z>> \in R => <<x, z>> \in R
  BY <1>2, <1>3
<1>6. \A x, y \in segments : x = y \/ <<x, y>> \in R \/ <<y, x>> \in R
  BY <1>2, <1>4
<1>7. \E x \in segments : \A y \in segments \ {x} : <<x, y>> \in R
  BY <1>5, <1>6, FiniteChoice DEF Timeline
<1>8. \E x \in segments : \A y \in segments \ {x} : RanksBefore(w, x, y)
  BY <1>2, <1>7
<1> QED BY <1>8 DEF BestSegment

LEMMA BestIsUnique ==
  ASSUME NEW segments, Timeline(segments),
         NEW w, w.start \in Int, w.end \in Int,
         NEW x \in segments, \A y \in segments \ {x} : RanksBefore(w, x, y)
  PROVE  BestSegment(w, segments) = x
<1> DEFINE b == BestSegment(w, segments)
<1>1. b \in segments /\ \A y \in segments \ {b} : RanksBefore(w, b, y)
  BY BestExists
<1> HIDE DEF b
<1>2. /\ OverlapMs(w, x) \in Nat /\ OverlapMs(w, b) \in Nat
      /\ x \in Segment /\ b \in Segment
  BY <1>1, Overlaps DEF Timeline, Segment
<1>3. ~(RanksBefore(w, x, b) /\ RanksBefore(w, b, x))
  BY <1>2 DEF RanksBefore, SortsBefore, Segment
<1> QED BY <1>1, <1>3 DEF b

\* The last segment of a list that is not empty.
LEMMA LastExists ==
  ASSUME NEW segments, Timeline(segments),
         segments # {}
  PROVE  LastOf(segments) \in segments
<1> DEFINE R == {p \in segments \X segments : SortsBefore(p[2], p[1])}
<1>1. \A x \in segments : x.start \in Nat /\ x.end \in Nat
  BY DEF Timeline, Segment
<1>2. \A x, y \in segments : <<x, y>> \in R <=> SortsBefore(y, x)
  OBVIOUS
<1>3. ASSUME NEW x \in segments, NEW y \in segments, NEW z \in segments,
             SortsBefore(y, x), SortsBefore(z, y)
      PROVE  SortsBefore(z, x)
  BY <1>1, <1>3 DEF SortsBefore
<1>4. ASSUME NEW x \in segments, NEW y \in segments
      PROVE  x = y \/ SortsBefore(x, y) \/ SortsBefore(y, x)
  BY <1>1 DEF Timeline, SortsBefore, OneSegmentPerSlot, SameSlot
<1> HIDE DEF R
<1>5. \A x, y, z \in segments : <<x, y>> \in R /\ <<y, z>> \in R => <<x, z>> \in R
  BY <1>2, <1>3
<1>6. \A x, y \in segments : x = y \/ <<x, y>> \in R \/ <<y, x>> \in R
  BY <1>2, <1>4
<1>7. \E x \in segments : \A y \in segments \ {x} : <<x, y>> \in R
  BY <1>5, <1>6, FiniteChoice DEF Timeline
<1>8. \E x \in segments : \A y \in segments : y = x \/ SortsBefore(y, x)
  BY <1>2, <1>7
<1> QED BY <1>8 DEF LastOf
-----------------------------------------------------------------------------
(* Answers that are asked for again *)

\* What is cut off ended more than Retention before the last segment, which stays.
LEMMA LastIsRetained ==
  ASSUME NEW segments, Timeline(segments), NEW x \in segments, x \notin Retained(segments)
  PROVE  \E y \in Retained(segments) : x.end < y.end - Retention
<1>1. LastOf(segments) \in segments
  BY LastExists
<1>2. \A y \in segments : y.end \in Nat
  BY DEF Timeline, Segment
<1>3. LastOf(segments) \in Retained(segments)
  BY <1>1, <1>2, RetentionAssumption DEF Retained
<1>4. x.end < LastOf(segments).end - Retention
  BY <1>1, <1>2, RetentionAssumption DEF Retained
<1> QED BY <1>3, <1>4

\* A segment stays, or another one takes its slot, unless Retention passes.
LEMMA AddKeepsOrReplaces ==
  ASSUME NEW old, NEW new, Timeline(old), Timeline(new), NEW x \in old
  PROVE  \/ \E y \in Add(old, new) : SameSlot(x, y) /\ (y = x \/ y \notin old)
         \/ \E y \in Add(old, new) : x.end < y.end - Retention
<1> DEFINE merged == Merged(old, new)
<1>1. Timeline(merged)
  BY MergeKeepsTimeline
<1>2. Add(old, new) = Retained(merged)
  BY AddKeepsTimeline
<1>3. \E y \in merged : SameSlot(x, y) /\ (y = x \/ y \notin old)
  <2>1. CASE x \in merged
    BY <2>1 DEF SameSlot
  <2>2. CASE x \notin merged
    <3>1. PICK n \in new : SameSlot(n, x) /\ Supersedes(n, x)
      BY <2>2 DEF Merged
    <3>2. \A z \in old : SameSlot(n, z) => z = x
      BY <3>1 DEF Timeline, OneSegmentPerSlot, SameSlot
    <3>3. n \in merged
      BY <3>1, <3>2 DEF Merged
    <3>4. n = x \/ n \notin old
      BY <3>2 DEF SameSlot
    <3> QED BY <3>1, <3>3, <3>4 DEF SameSlot
  <2> QED BY <2>1, <2>2
<1> HIDE DEF merged
<1>4. PICK y \in merged : SameSlot(x, y) /\ (y = x \/ y \notin old)
  BY <1>3
<1>5. CASE y \in Retained(merged)
  BY <1>2, <1>4, <1>5
<1>6. CASE y \notin Retained(merged)
  BY <1>1, <1>2, <1>4, <1>6, LastIsRetained DEF SameSlot
<1> QED BY <1>5, <1>6

\* An answer about words changes only for a segment that matches them as well, or
\* when what it went by is older than what the timeline keeps.
THEOREM StableAnswers == Spec => AnswersAreStable
<1> DEFINE Stable ==
      line' # line =>
         \A w \in {e \in Events : e.words = <<>>}, old \in line :
           OverlapMs(w, old) > 0 /\ old = BestSegment(w, line) =>
             \/ BestSpeaker(w, line') = old.speaker
             \/ \E x \in line' \ line : OverlapMs(w, x) >= OverlapMs(w, old)
             \/ \E x \in line' : old.end < x.end - Retention
<1>1. IInv /\ TimelineOK /\ [Next]_vars => [Stable]_vars
  <2> SUFFICES ASSUME IInv, TimelineOK, Next PROVE Stable
    OBVIOUS
  <2> SUFFICES ASSUME NEW w \in Events, NEW old \in line, OverlapMs(w, old) > 0,
                      old = BestSegment(w, line),
                      ~\E x \in line' \ line : OverlapMs(w, x) >= OverlapMs(w, old),
                      ~\E x \in line' : old.end < x.end - Retention
               PROVE  BestSpeaker(w, line') = old.speaker
    OBVIOUS
  <2>1. w.start \in Int /\ w.end \in Int
    BY EventsAssumption
  <2>2. Timeline(line) /\ Timeline(line')
    BY InductiveTimeline DEF TimelineOK
  <2>3. PICK new : Timeline(new) /\ line' = Add(line, new)
    <3>1. FrontendNext /\ Attribute
      BY DEF Next, Ingest, FlushSession, FrontendNext
    <3> QED BY <3>1, InductiveTimeline, AddsSegments
  <2>4. \A x \in line \cup line' : OverlapMs(w, x) \in Nat
    BY <2>1, <2>2, Overlaps DEF Timeline, Segment
  <2>5. old \in line'
    <3>1. PICK y \in line' : SameSlot(old, y) /\ (y = old \/ y \notin line)
      BY <2>2, <2>3, AddKeepsOrReplaces
    <3>2. OverlapMs(w, y) = OverlapMs(w, old)
      BY <3>1 DEF OverlapMs, SameSlot
    <3> QED BY <2>4, <3>1, <3>2
  <2>6. ASSUME NEW y \in line' \ {old} PROVE RanksBefore(w, old, y)
    <3>1. CASE y \in line
      BY <2>1, <2>2, <3>1, BestExists
    <3>2. CASE y \notin line
      BY <2>4, <3>2 DEF RanksBefore
    <3> QED BY <3>1, <3>2
  <2>7. BestSegment(w, line') = old
    BY <2>1, <2>2, <2>5, <2>6, BestIsUnique
  <2> QED BY <2>4, <2>5, <2>7 DEF BestSpeaker
<1> QED BY <1>1, TimelineInvariance, PTL DEF Spec, AnswersAreStable
-----------------------------------------------------------------------------
(* The loop over the words of an event *)

IsLoop(g, words, segments, n) ==
    g = [i \in 0..n |-> IF i = 0 THEN <<>> ELSE Join(words, segments, g[i - 1], i)]

LEMMA LoopExists ==
  ASSUME NEW words, NEW segments, NEW n \in Nat
  PROVE  \E g : IsLoop(g, words, segments, n)
<1> DEFINE T == {k \in Nat : \E g : IsLoop(g, words, segments, k)}
<1>1. 0 \in T
  <2>1. IsLoop([i \in 0..0 |-> <<>>], words, segments, 0)
    BY DEF IsLoop
  <2> QED BY <2>1
<1>2. ASSUME NEW k \in Nat, NEW g, IsLoop(g, words, segments, k)
      PROVE  \E h : IsLoop(h, words, segments, k + 1)
  <2> DEFINE h == [i \in 0..(k + 1) |-> IF i = k + 1 THEN Join(words, segments, g[k], k + 1)
                                        ELSE g[i]]
  <2>1. \A i \in 0..k : g[i] = IF i = 0 THEN <<>> ELSE Join(words, segments, g[i - 1], i)
    BY <1>2 DEF IsLoop
  <2>2. ASSUME NEW i \in 0..(k + 1)
        PROVE  h[i] = IF i = 0 THEN <<>> ELSE Join(words, segments, h[i - 1], i)
    <3>1. CASE i = k + 1
      <4>1. h[k] = g[k] /\ i # 0 /\ i - 1 = k
        BY <3>1
      <4>2. h[i] = Join(words, segments, g[k], i)
        BY <3>1
      <4> HIDE DEF h
      <4> QED BY <4>1, <4>2
    <3>2. CASE i \in 0..k
      <4>1. h[i] = g[i] /\ (i # 0 => h[i - 1] = g[i - 1])
        BY <3>2
      <4> HIDE DEF h
      <4> QED BY <2>1, <3>2, <4>1
    <3> QED BY <3>1, <3>2
  <2>3. h = [i \in 0..(k + 1) |-> h[i]]
    OBVIOUS
  <2> HIDE DEF h
  <2>4. IsLoop(h, words, segments, k + 1)
    BY <2>2, <2>3 DEF IsLoop
  <2> QED BY <2>4
<1>3. T = Nat
  <2>1. T \in SUBSET Nat
    OBVIOUS
  <2>2. \A k \in T : k + 1 \in T
    BY <1>2
  <2> HIDE DEF T
  <2> QED BY <1>1, <2>1, <2>2, Induction
<1> QED BY <1>3

\* align() is the last value of the loop.
LEMMA AlignIsLoop ==
  ASSUME NEW event, NEW segments, NEW n \in Nat, Len(WordsOf(event)) = n
  PROVE  \E g : /\ IsLoop(g, WordsOf(event), segments, n)
                /\ Align(event, segments) = g[n]
<1> DEFINE words == WordsOf(event)
           g == CHOOSE h : IsLoop(h, words, segments, Len(words))
<1>1. IsLoop(g, words, segments, n)
  BY LoopExists
<1>2. Align(event, segments) = g[Len(words)]
  BY DEF Align, IsLoop
<1> QED BY <1>1, <1>2

Span == [speaker : Speakers \cup {Unknown}, first : Nat, last : Nat, start : Int, end : Int]

\* After k words: the spans have the words up to k, in order, and each of them its
\* best speaker; neighbours differ.
Covers(spans, words, segments, k) ==
    /\ spans \in Seq(Span)
    /\ k > 0 => /\ Len(spans) > 0
                /\ spans[1].first = 1 /\ spans[Len(spans)].last = k
    /\ k = 0 => Len(spans) = 0
    /\ \A j \in 1..(Len(spans) - 1) : /\ spans[j + 1].first = spans[j].last + 1
                                      /\ spans[j + 1].speaker # spans[j].speaker
    /\ \A j \in 1..Len(spans) :
         /\ 1 <= spans[j].first /\ spans[j].first <= spans[j].last /\ spans[j].last <= k
         /\ spans[j].start = words[spans[j].first].start
         /\ spans[j].end = words[spans[j].last].end
    /\ \A i \in 1..k : \E j \in 1..Len(spans) :
         /\ spans[j].first <= i /\ i <= spans[j].last
         /\ spans[j].speaker = BestSpeaker(words[i], segments)

LEMMA BestSpeakerType ==
  ASSUME NEW segments, Timeline(segments), NEW w, w.start \in Int, w.end \in Int
  PROVE  BestSpeaker(w, segments) \in Speakers \cup {Unknown}
<1>1. segments # {} => BestSegment(w, segments) \in Segment
  BY BestExists DEF Timeline
<1> QED BY <1>1 DEF BestSpeaker, Segment

\* The last span is changed or a new one is added: it reaches up to the next word.
LastReaches(new, m, spans, words, segments, k) ==
    /\ new \in Seq(Span) /\ m \in Nat \ {0} /\ Len(new) = m /\ m - 1 <= Len(spans)
    /\ \A j \in 1..(m - 1) : new[j] = spans[j]
    /\ 1 <= new[m].first /\ new[m].first <= new[m].last /\ new[m].last = k + 1
    /\ new[m].start = words[new[m].first].start /\ new[m].end = words[k + 1].end
    /\ new[m].speaker = BestSpeaker(words[k + 1], segments)
    /\ m = 1 => new[m].first = 1
    /\ m > 1 => /\ new[m].first = spans[m - 1].last + 1
                /\ new[m].speaker # spans[m - 1].speaker
    /\ \A i \in 1..k : \/ \E j \in 1..(m - 1) :
                            /\ spans[j].first <= i /\ i <= spans[j].last
                            /\ spans[j].speaker = BestSpeaker(words[i], segments)
                       \/ /\ new[m].first <= i
                          /\ new[m].speaker = BestSpeaker(words[i], segments)

LEMMA CoversNext ==
  ASSUME NEW words, NEW segments, NEW k \in Nat, NEW spans, Covers(spans, words, segments, k),
         NEW new, NEW m, LastReaches(new, m, spans, words, segments, k)
  PROVE  Covers(new, words, segments, k + 1)
<1> USE DEF LastReaches
<1>1. Len(spans) \in Nat /\ \A j \in 1..(m - 1) : j \in 1..Len(spans)
  BY LenProperties DEF Covers
<1>2. \A j \in 1..m : j \in 1..(m - 1) \/ j = m
  OBVIOUS
<1>3. \A j \in 1..m : new[j].first \in Nat /\ new[j].last \in Nat
  <2>1. \A j \in 1..m : new[j] \in Span
    BY ElementOfSeq
  <2> QED BY <2>1 DEF Span
<1>4. new[1].first = 1
  BY <1>1, <1>2 DEF Covers
<1>5. ASSUME NEW j \in 1..(m - 1)
      PROVE  new[j + 1].first = new[j].last + 1 /\ new[j + 1].speaker # new[j].speaker
  <2>1. CASE j + 1 = m
    BY <2>1
  <2>2. CASE j + 1 # m
    <3>1. j \in 1..(Len(spans) - 1) /\ j + 1 \in 1..(m - 1)
      BY <1>1, <2>2
    <3>2. new[j] = spans[j] /\ new[j + 1] = spans[j + 1]
      BY <3>1
    <3> QED BY <3>1, <3>2 DEF Covers
  <2> QED BY <2>1, <2>2
<1>6. ASSUME NEW j \in 1..m
      PROVE  /\ 1 <= new[j].first /\ new[j].first <= new[j].last /\ new[j].last <= k + 1
             /\ new[j].start = words[new[j].first].start
             /\ new[j].end = words[new[j].last].end
  <2>1. CASE j = m
    BY <2>1
  <2>2. CASE j \in 1..(m - 1)
    <3>1. new[j] = spans[j] /\ j \in 1..Len(spans)
      BY <1>1, <2>2
    <3> QED BY <1>3, <3>1 DEF Covers
  <2> QED BY <1>2, <2>1, <2>2
<1>7. ASSUME NEW i \in 1..(k + 1)
      PROVE  \E j \in 1..m : /\ new[j].first <= i /\ i <= new[j].last
                             /\ new[j].speaker = BestSpeaker(words[i], segments)
  <2>1. CASE i = k + 1
    BY <1>3, <2>1
  <2>2. CASE i \in 1..k
    <3>1. m \in 1..m /\ \A j \in 1..(m - 1) : j \in 1..m
      OBVIOUS
    <3> QED BY <2>2, <3>1
  <2> QED BY <2>1, <2>2
<1> QED BY <1>4, <1>5, <1>6, <1>7 DEF Covers

LEMMA JoinCovers ==
  ASSUME NEW words, NEW segments, Timeline(segments), NEW k \in Nat,
         words[k + 1].start \in Int, words[k + 1].end \in Int,
         NEW spans, Covers(spans, words, segments, k)
  PROVE  Covers(Join(words, segments, spans, k + 1), words, segments, k + 1)
<1> DEFINE n == Len(spans)
           w == words[k + 1]
           speaker == BestSpeaker(w, segments)
           new == Join(words, segments, spans, k + 1)
<1>1. /\ spans \in Seq(Span) /\ n \in Nat
      /\ \A j \in 1..n : spans[j] \in Span
      /\ speaker \in Speakers \cup {Unknown}
      /\ k > 0 => n > 0 /\ spans[n].last = k
      /\ n > 0 => k > 0
      /\ \A i \in 1..k : \E j \in 1..n :
           /\ spans[j].first <= i /\ i <= spans[j].last
           /\ spans[j].speaker = BestSpeaker(words[i], segments)
  BY BestSpeakerType, LenProperties, ElementOfSeq DEF Covers
<1>2. CASE n > 0 /\ spans[n].speaker = speaker
  <2> DEFINE s == [spans[n] EXCEPT !.last = k + 1, !.end = w.end]
  <2>1. new = [spans EXCEPT ![n] = s]
    BY <1>2 DEF Join
  <2>2. /\ spans[n] \in Span /\ k > 0 /\ spans[n].last = k
        /\ 1 <= spans[n].first /\ spans[n].first <= spans[n].last
        /\ spans[n].start = words[spans[n].first].start
        /\ n = 1 => spans[n].first = 1
        /\ n > 1 => /\ spans[n].first = spans[n - 1].last + 1
                    /\ spans[n].speaker # spans[n - 1].speaker
    <3>1. n \in 1..n
      BY <1>1, <1>2
    <3>2. n > 1 => n - 1 \in 1..(n - 1) /\ (n - 1) + 1 = n
      BY <1>1
    <3> QED BY <1>1, <1>2, <3>1, <3>2 DEF Covers
  <2>3. /\ s \in Span /\ s.first = spans[n].first /\ s.start = spans[n].start
        /\ s.speaker = spans[n].speaker /\ s.last = k + 1 /\ s.end = w.end
    <3>1. w.end \in Int /\ k + 1 \in Nat
      OBVIOUS
    <3> HIDE DEF w
    <3> QED BY <2>2, <3>1 DEF Span
  <2> HIDE DEF s
  <2>4. /\ new \in Seq(Span) /\ Len(new) = n /\ new[n] = s
        /\ \A j \in 1..(n - 1) : new[j] = spans[j]
    BY <1>1, <1>2, <2>1, <2>3, ExceptSeq
  <2>5. \A i \in 1..k : \/ \E j \in 1..(n - 1) :
                             /\ spans[j].first <= i /\ i <= spans[j].last
                             /\ spans[j].speaker = BestSpeaker(words[i], segments)
                        \/ /\ s.first <= i
                           /\ s.speaker = BestSpeaker(words[i], segments)
    <3>1. \A j \in 1..n : j \in 1..(n - 1) \/ j = n
      BY <1>1
    <3> QED BY <1>1, <2>3, <3>1
  <2>6. s.first \in Nat /\ s.first <= s.last
    BY <2>2, <2>3 DEF Span
  <2>7. n \in Nat \ {0} /\ n - 1 <= n
    BY <1>1, <1>2
  <2> HIDE DEF new
  <2>8. Covers(new, words, segments, k + 1)
    <3>1. LastReaches(new, n, spans, words, segments, k)
      BY <1>1, <1>2, <2>2, <2>3, <2>4, <2>5, <2>6, <2>7 DEF LastReaches
    <3> QED BY <3>1, CoversNext
  <2> QED BY <2>8 DEF new
<1>3. CASE ~(n > 0 /\ spans[n].speaker = speaker)
  <2> DEFINE s == [speaker |-> speaker, first |-> k + 1, last |-> k + 1,
                   start |-> w.start, end |-> w.end]
  <2>1. new = Append(spans, s)
    BY <1>3 DEF Join
  <2>2. /\ s \in Span /\ s.first = k + 1 /\ s.last = k + 1 /\ s.speaker = speaker
        /\ s.start = w.start /\ s.end = w.end
    BY <1>1 DEF Span
  <2> HIDE DEF s
  <2>3. /\ new \in Seq(Span) /\ Len(new) = n + 1 /\ new[n + 1] = s
        /\ \A j \in 1..n : new[j] = spans[j]
    <3> HIDE DEF new
    <3> QED BY <1>1, <2>1, <2>2, AppendProperties
  <2> DEFINE m == n + 1
  <2>4. /\ m \in Nat \ {0} /\ m - 1 = n
        /\ m = 1 => k = 0
        /\ m > 1 => spans[n].last = k /\ speaker # spans[n].speaker
    BY <1>1, <1>3
  <2> HIDE DEF new, m
  <2>5. /\ Len(new) = m /\ new[m] = s /\ \A j \in 1..(m - 1) : new[j] = spans[j]
        /\ \A i \in 1..k : \E j \in 1..(m - 1) :
             /\ spans[j].first <= i /\ i <= spans[j].last
             /\ spans[j].speaker = BestSpeaker(words[i], segments)
    BY <1>1, <2>3, <2>4 DEF m
  <2>6. k = 0 => s.first = 1
    BY <2>2
  <2>7. m > 1 => s.first = spans[m - 1].last + 1 /\ s.speaker # spans[m - 1].speaker
    BY <2>2, <2>4
  <2>8. /\ m - 1 <= Len(spans)
        /\ 1 <= new[m].first /\ new[m].first <= new[m].last /\ new[m].last = k + 1
        /\ new[m].start = words[new[m].first].start /\ new[m].end = words[k + 1].end
        /\ new[m].speaker = BestSpeaker(words[k + 1], segments)
        /\ m = 1 => new[m].first = 1
        /\ m > 1 => /\ new[m].first = spans[m - 1].last + 1
                    /\ new[m].speaker # spans[m - 1].speaker
    BY <2>2, <2>4, <2>5, <2>6, <2>7
  <2>9. \A i \in 1..k : \/ \E j \in 1..(m - 1) :
                             /\ spans[j].first <= i /\ i <= spans[j].last
                             /\ spans[j].speaker = BestSpeaker(words[i], segments)
                        \/ /\ new[m].first <= i
                           /\ new[m].speaker = BestSpeaker(words[i], segments)
    BY <2>5
  <2>10. new \in Seq(Span) /\ m \in Nat \ {0} /\ Len(new) = m
         /\ \A j \in 1..(m - 1) : new[j] = spans[j]
    BY <2>3, <2>4, <2>5
  <2>11. Covers(new, words, segments, k + 1)
    <3>1. LastReaches(new, m, spans, words, segments, k)
      BY <2>8, <2>9, <2>10 DEF LastReaches
    <3> QED BY <3>1, CoversNext
  <2> QED BY <2>11 DEF new
<1> QED BY <1>2, <1>3

LEMMA LoopCovers ==
  ASSUME NEW words, NEW segments, Timeline(segments), NEW n \in Nat,
         \A i \in 1..n : words[i].start \in Int /\ words[i].end \in Int,
         NEW g, IsLoop(g, words, segments, n)
  PROVE  Covers(g[n], words, segments, n)
<1> DEFINE T == {k \in Nat : k <= n => Covers(g[k], words, segments, k)}
<1>1. 0 \in T
  <2>1. g[0] = <<>>
    BY DEF IsLoop
  <2>2. <<>> \in Seq(Span) /\ Len(<<>>) = 0
    BY EmptySeq
  <2>3. Covers(<<>>, words, segments, 0)
    BY <2>2 DEF Covers
  <2> QED BY <2>1, <2>3
<1>2. ASSUME NEW k \in Nat, k + 1 <= n, Covers(g[k], words, segments, k)
      PROVE  Covers(g[k + 1], words, segments, k + 1)
  <2>1. k + 1 \in 0..n /\ k + 1 # 0 /\ (k + 1) - 1 = k /\ k + 1 \in 1..n
    BY <1>2
  <2>2. g[k + 1] = Join(words, segments, g[k], k + 1)
    BY <2>1 DEF IsLoop
  <2> QED BY <1>2, <2>1, <2>2, JoinCovers
<1>3. T = Nat
  <2>1. T \in SUBSET Nat
    OBVIOUS
  <2>2. \A k \in T : k + 1 \in T
    BY <1>2
  <2> HIDE DEF T
  <2> QED BY <1>1, <2>1, <2>2, Induction
<1> QED BY <1>3

\* What the aligner answers for a whole event.
LEMMA AlignCovers ==
  ASSUME NEW event \in Events, NEW segments, Timeline(segments)
  PROVE  LET words == WordsOf(event)
         IN  /\ Len(words) \in Nat \ {0}
             /\ \A i \in 1..Len(words) : words[i].start \in Int /\ words[i].end \in Int
             /\ Covers(Align(event, segments), words, segments, Len(words))
<1> DEFINE words == WordsOf(event)
           n == Len(words)
<1>1. n \in Nat \ {0} /\ \A i \in 1..n : words[i].start \in Int /\ words[i].end \in Int
  <2>1. /\ event.start \in Int /\ event.end \in Int
        /\ event.words \in Seq([start : Int, end : Int])
    BY EventsAssumption
  <2>2. CASE event.words = <<>>
    BY <2>1, <2>2 DEF WordsOf
  <2>3. CASE event.words # <<>>
    <3>1. words = event.words
      BY <2>3 DEF WordsOf
    <3> HIDE DEF words
    <3>2. words \in Seq([start : Int, end : Int]) /\ words # <<>>
      BY <2>1, <2>3, <3>1
    <3>3. n \in Nat /\ n # 0
      BY <3>2, EmptySeq, LenProperties
    <3>4. \A i \in 1..n : words[i] \in [start : Int, end : Int]
      BY <3>2, ElementOfSeq
    <3> QED BY <3>3, <3>4
  <2> QED BY <2>2, <2>3
<1> HIDE DEF words
<1>2. Covers(Align(event, segments), words, segments, n)
  <2>1. PICK g : IsLoop(g, words, segments, n) /\ Align(event, segments) = g[n]
    BY <1>1, AlignIsLoop DEF words
  <2> QED BY <1>1, <2>1, LoopCovers
<1> QED BY <1>1, <1>2 DEF words
-----------------------------------------------------------------------------
(* The best speaker *)

\* The best of what overlaps an event is the best of the whole timeline, for words
\* within the event.
LEMMA BestSpeakerIsBest ==
  ASSUME NEW segments, Timeline(segments), NEW w, w.start \in Int, w.end \in Int
  PROVE  IsBest(BestSpeaker(w, segments), w, segments)
<1> DEFINE closest == {x \in segments : /\ OverlapMs(w, x) > 0
                                        /\ \A y \in segments : OverlapMs(w, y) <= OverlapMs(w, x)}
           b == BestSegment(w, segments)
<1>1. \A x \in segments : OverlapMs(w, x) \in Nat /\ x.confidence \in Nat
  BY Overlaps DEF Timeline, Segment
<1>2. CASE segments = {}
  BY <1>2 DEF IsBest, BestSpeaker
<1>3. CASE segments # {}
  <2>1. b \in segments /\ \A y \in segments \ {b} : RanksBefore(w, b, y)
    BY <1>3, BestExists
  <2> HIDE DEF b
  <2>2. ASSUME NEW y \in segments
        PROVE  /\ OverlapMs(w, y) <= OverlapMs(w, b)
               /\ OverlapMs(w, y) = OverlapMs(w, b) => y.confidence <= b.confidence
    BY <1>1, <2>1 DEF RanksBefore
  <2>3. CASE OverlapMs(w, b) <= 0
    <3>1. closest = {}
      BY <1>1, <2>1, <2>2, <2>3
    <3> QED BY <1>3, <2>3, <3>1 DEF IsBest, BestSpeaker, b
  <2>4. CASE OverlapMs(w, b) > 0
    <3>1. b \in closest
      BY <2>1, <2>2, <2>4
    <3>2. \A y \in closest : y.confidence <= b.confidence
      BY <1>1, <2>1, <2>2
    <3>3. BestSpeaker(w, segments) = b.speaker
      BY <1>1, <1>3, <2>1, <2>4 DEF BestSpeaker, b
    <3> QED BY <3>1, <3>2, <3>3 DEF IsBest
  <2> QED BY <1>1, <2>1, <2>3, <2>4
<1> QED BY <1>2, <1>3

LEMMA BestOfQuery ==
  ASSUME NEW segments, Timeline(segments), NEW event, event.start \in Int, event.end \in Int,
         NEW w, w.start \in Int, w.end \in Int, Within(w, event), NEW speaker,
         IsBest(speaker, w, Query(segments, event))
  PROVE  IsBest(speaker, w, segments)
<1> DEFINE Closest(s) == {x \in s : /\ OverlapMs(w, x) > 0
                                    /\ \A y \in s : OverlapMs(w, y) <= OverlapMs(w, x)}
<1>1. ASSUME NEW x \in segments
      PROVE  OverlapMs(w, x) > 0 => x \in Query(segments, event)
  BY Overlaps DEF Timeline, Segment, Query, OverlapMs, Higher, Lower, Within
<1>2. \A x \in segments : OverlapMs(w, x) \in Nat
  BY Overlaps DEF Timeline, Segment
<1>3. Query(segments, event) \subseteq segments
  BY DEF Query
<1>4. ASSUME NEW x \in Closest(Query(segments, event))
      PROVE  x \in Closest(segments)
  <2>1. /\ x \in segments /\ OverlapMs(w, x) > 0
        /\ \A y \in Query(segments, event) : OverlapMs(w, y) <= OverlapMs(w, x)
    BY <1>3
  <2>2. ASSUME NEW y \in segments
        PROVE  OverlapMs(w, y) <= OverlapMs(w, x)
    <3>1. CASE OverlapMs(w, y) > 0
      BY <1>1, <2>1, <3>1
    <3>2. CASE ~(OverlapMs(w, y) > 0)
      BY <1>2, <2>1, <3>2
    <3> QED BY <3>1, <3>2
  <2> QED BY <2>1, <2>2
<1>5. ASSUME NEW x \in Closest(segments)
      PROVE  x \in Closest(Query(segments, event))
  BY <1>1, <1>2, <1>3
<1>6. Closest(Query(segments, event)) = Closest(segments)
  BY <1>4, <1>5
<1> QED BY <1>6 DEF IsBest

\* Every word of an event is given, in order and once, its best speaker.
THEOREM AnswersMatch == Spec => []BestMatch
<1>1. TimelineOK => BestMatch
  <2> SUFFICES ASSUME TimelineOK, NEW event \in Events
               PROVE  LET spans == AlignStt(event, line)
                          words == WordsOf(event)
                      IN  /\ spans[1].first = 1 /\ spans[Len(spans)].last = Len(words)
                          /\ \A j \in 1..(Len(spans) - 1) :
                               /\ spans[j + 1].first = spans[j].last + 1
                               /\ spans[j + 1].speaker # spans[j].speaker
                          /\ \A j \in 1..Len(spans) :
                               /\ spans[j].start = words[spans[j].first].start
                               /\ spans[j].end = words[spans[j].last].end
                          /\ \A i \in 1..Len(words) :
                               \E j \in 1..Len(spans) :
                                 /\ spans[j].first <= i /\ i <= spans[j].last
                                 /\ IsBest(spans[j].speaker, words[i],
                                           IF Within(words[i], event) THEN line
                                           ELSE Query(line, event))
    BY DEF BestMatch
  <2> DEFINE spans == AlignStt(event, line)
             words == WordsOf(event)
             near == Query(line, event)
  <2>1. Timeline(line) /\ Timeline(near)
    BY PartOfTimeline DEF TimelineOK, Query
  <2>2. /\ Len(words) \in Nat \ {0}
        /\ \A i \in 1..Len(words) : words[i].start \in Int /\ words[i].end \in Int
        /\ Covers(spans, words, near, Len(words))
    BY <2>1, AlignCovers DEF AlignStt
  <2>3. ASSUME NEW i \in 1..Len(words)
        PROVE  IsBest(BestSpeaker(words[i], near), words[i],
                      IF Within(words[i], event) THEN line ELSE near)
    <3>1. IsBest(BestSpeaker(words[i], near), words[i], near)
      BY <2>1, <2>2, BestSpeakerIsBest
    <3>2. event.start \in Int /\ event.end \in Int
      BY EventsAssumption
    <3> HIDE DEF words
    <3> QED BY <2>1, <2>2, <3>1, <3>2, BestOfQuery
  <2> HIDE DEF spans, words, near
  <2>4. \A i \in 1..Len(words) :
          \E j \in 1..Len(spans) :
            /\ spans[j].first <= i /\ i <= spans[j].last
            /\ IsBest(spans[j].speaker, words[i],
                      IF Within(words[i], event) THEN line ELSE near)
    <3> SUFFICES ASSUME NEW i \in 1..Len(words)
                 PROVE  \E j \in 1..Len(spans) :
                          /\ spans[j].first <= i /\ i <= spans[j].last
                          /\ IsBest(spans[j].speaker, words[i],
                                    IF Within(words[i], event) THEN line ELSE near)
      OBVIOUS
    <3>1. PICK j \in 1..Len(spans) : /\ spans[j].first <= i /\ i <= spans[j].last
                                     /\ spans[j].speaker = BestSpeaker(words[i], near)
      BY <2>2 DEF Covers
    <3> QED BY <2>3, <3>1
  <2> QED BY <2>2, <2>4 DEF Covers, spans, words, near
<1> QED BY <1>1, TimelineInvariance, PTL
=============================================================================
