--------------------------- MODULE Frontend_proofs ---------------------------
(***************************************************************************)
(* Type correctness of the window assembly, and what it promises of labels,*)
(* stretches, hops and losses, for any packets, any configuration and      *)
(* streams of any length.                                                  *)
(***************************************************************************)
EXTENDS Frontend, SequenceTheorems, FiniteSetTheorems, TLAPS

\* Audio that is recorded in one epoch, without a break, and labelled from
\* `base` on up to `more` and `less`.
Sound(audio, epoch, base, more, less) ==
    /\ \A i \in 1..Len(audio) : /\ audio[i].epoch = epoch
                                /\ audio[i].at - (base + i - 1) \in (-less)..more
    /\ \A i \in 1..(Len(audio) - 1) :
         audio[i + 1].at - audio[i].at \in (1 - Tolerance)..(1 + Frame + Tolerance)

\* The last sample was recorded when the stream expects to go on, up to the
\* tolerance of its packet.
EndsInTime(s) == s.audio # <<>> =>
    s.audio[Len(s.audio)].at - s.expected \in (-1 - Tolerance)..(Tolerance - 1)

\* A stream, with what is missing in it and what it has too much.  The label
\* that the next sample would get is as far from the time that is expected
\* next as the labels may be from the contents.
Stretch(s, more, less) ==
    /\ s \in [epoch : Epochs, audio : Seq(Sample), base : Nat, expected : Nat]
    /\ Sound(s.audio, s.epoch, s.base, more, less)
    /\ EndsInTime(s)
    /\ s.expected - (s.base + Len(s.audio)) \in (-less)..more

\* So many windows were cut off, a hop apart, and the buffer begins after them.
Hops(s, from, labels) ==
    /\ from \in Nat
    /\ \E m \in Nat : /\ s.base = from + m * Hop
                      /\ labels = {from + j * Hop : j \in 0..(m - 1)}

\* What no window had is in the buffer, behind the last window if there was one.
Waits(s, labels, samples) ==
    /\ labels # {} => Window - Hop <= Len(s.audio)
    /\ samples \subseteq (IF labels = {} THEN s.base ELSE s.base + Window - Hop)
                           ..(s.base + Len(s.audio) - 1)

\* A window that may be passed on.
Shown(w, more, less) ==
    /\ w \in WindowType /\ Unbroken(w.audio)
    /\ \A i \in 1..Len(w.audio) : w.audio[i].at - (w.start + i - 1) \in (-less)..more

DistinctSlots(windows) ==
    \A v, w \in windows : v.start = w.start /\ v.end = w.end => v = w

IInv ==
    /\ FrontendTypeOK
    /\ \A w \in result : Shown(w, missing, surplus)
    /\ DistinctSlots(result)
    /\ stream # NoStream => /\ Stretch(stream, missing, surplus)
                            /\ Hops(stream, origin, cuts) /\ Waits(stream, cuts, unheard)
    /\ stream = NoStream => Cardinality(unheard) < MinFlush
-----------------------------------------------------------------------------
(* Arithmetic of hops *)

LEMMA Division ==
  ASSUME NEW a \in Nat, NEW d \in Nat \ {0}
  PROVE  /\ a \div d \in Nat /\ (a \div d) * d \in Nat
         /\ (a \div d) * d <= a /\ a < (a \div d) * d + d
<1>1. a \div d \in Nat /\ (a \div d) * d <= a
  OBVIOUS
<1>2. a < (a \div d) * d + d
  OBVIOUS
<1> QED BY <1>1, <1>2

LEMMA WholeHops ==
  ASSUME NEW a \in Nat, NEW d \in Nat \ {0}, a % d = 0
  PROVE  a = (a \div d) * d
OBVIOUS

LEMMA MultiplesOrdered ==
  ASSUME NEW k \in Nat, NEW q \in Nat, NEW d \in Nat, k <= q
  PROVE  k * d \in Nat /\ q * d \in Nat /\ k * d <= q * d
<1>1. k * d \in Nat /\ q * d \in Nat
  OBVIOUS
<1>2. k * d <= q * d
  OBVIOUS
<1> QED BY <1>1, <1>2

LEMMA MultiplesDivide ==
  ASSUME NEW k \in Nat, NEW d \in Nat \ {0}
  PROVE  (k * d) % d = 0
OBVIOUS

\* One hop more than k hops is at most q hops, if k is less than q.
LEMMA NextMultiple ==
  ASSUME NEW k \in Nat, NEW q \in Nat, NEW d \in Nat, k < q
  PROVE  k * d \in Nat /\ q * d \in Nat /\ k * d + d <= q * d
<1>1. (k + 1) * d <= q * d /\ k * d \in Nat /\ q * d \in Nat
  BY MultiplesOrdered
<1>2. (k + 1) * d = k * d + d
  OBVIOUS
<1> QED BY <1>1, <1>2

\* A step by whole hops, in front of which there are only whole hops.
LEMMA HopsAreEven ==
  ASSUME NEW from \in Nat, NEW m \in Nat
  PROVE  {from + j * Hop : j \in 0..(m - 1)}
           = {t \in from..(from + m * Hop - 1) : (t - from) % Hop = 0}
<1>1. ASSUME NEW j \in 0..(m - 1)
      PROVE  /\ from + j * Hop \in from..(from + m * Hop - 1)
             /\ ((from + j * Hop) - from) % Hop = 0
  <2> DEFINE x == j * Hop
             y == m * Hop
  <2>1. x \in Nat /\ y \in Nat /\ x + Hop <= y
    BY NextMultiple, FrontendAssumption
  <2>2. x % Hop = 0
    BY MultiplesDivide, FrontendAssumption
  <2> HIDE DEF x, y
  <2>3. from + x \in from..(from + y - 1)
    BY <2>1, FrontendAssumption
  <2>4. (from + x) - from = x
    BY <2>1
  <2> QED BY <2>2, <2>3, <2>4 DEF x, y
<1>2. ASSUME NEW t \in from..(from + m * Hop - 1), (t - from) % Hop = 0
      PROVE  \E j \in 0..(m - 1) : t = from + j * Hop
  <2> DEFINE j == (t - from) \div Hop
             x == j * Hop
             y == m * Hop
  <2>1. y \in Nat
    BY MultiplesOrdered, FrontendAssumption
  <2>2. t - from \in Nat
    BY <2>1
  <2>3. j \in Nat /\ t - from = x
    BY <1>2, <2>2, WholeHops, Division, FrontendAssumption
  <2>4. m <= j => y <= x
    BY <2>3, MultiplesOrdered, FrontendAssumption
  <2>5. t < from + y
    BY <2>1
  <2> HIDE DEF j, x, y
  <2>6. j \in 0..(m - 1) /\ t = from + x
    BY <2>1, <2>2, <2>3, <2>4, <2>5
  <2> QED BY <2>6 DEF x
<1> QED BY <1>1, <1>2

\* The windows that fit into the audio of a stream, and what they leave.
LEMMA WindowsFit ==
  ASSUME NEW s, Len(s.audio) \in Nat
  PROVE  /\ WindowCount(s) \in Nat
         /\ \A k \in 0..(WindowCount(s) - 1) :
              k * Hop \in Nat /\ k * Hop + Window <= Len(s.audio)
         /\ WindowCount(s) * Hop \in Nat
         /\ Len(s.audio) - WindowCount(s) * Hop \in 0..(Window - 1)
<1> DEFINE n == Len(s.audio)
           q == (n - Window) \div Hop
           cut == q * Hop
           all == WindowCount(s) * Hop
<1>1. CASE n < Window
  <2>1. WindowCount(s) = 0
    BY <1>1 DEF WindowCount
  <2>2. all = 0
    BY <2>1, FrontendAssumption
  <2> QED BY <1>1, <2>1, <2>2, FrontendAssumption
<1>2. CASE n >= Window
  <2>1. WindowCount(s) = q + 1
    <3>1. WindowCount(s) = IF n < Window THEN 0 ELSE q + 1
      BY DEF WindowCount
    <3>2. ~(n < Window)
      BY <1>2, FrontendAssumption
    <3> QED BY <3>1, <3>2
  <2>2. n - Window \in Nat
    BY <1>2, FrontendAssumption
  <2>3. q \in Nat /\ cut \in Nat /\ cut <= n - Window /\ n - Window < cut + Hop
    BY <2>2, Division, FrontendAssumption
  <2> HIDE DEF q
  <2>4. all = cut + Hop
    BY <2>1, <2>3, FrontendAssumption
  <2>5. ASSUME NEW k \in 0..q
        PROVE  k * Hop \in Nat /\ k * Hop <= cut
    BY <2>3, MultiplesOrdered, FrontendAssumption
  <2> HIDE DEF cut, all
  <2>6. all \in Nat /\ n - all \in 0..(Window - 1)
    BY <1>2, <2>3, <2>4, FrontendAssumption
  <2>7. ASSUME NEW k \in 0..q
        PROVE  k * Hop \in Nat /\ k * Hop + Window <= n
    <3> DEFINE x == k * Hop
    <3>1. x \in Nat /\ x <= cut
      BY <2>5
    <3> HIDE DEF x
    <3>2. x + Window <= n
      BY <2>3, <3>1, FrontendAssumption
    <3> QED BY <3>1, <3>2 DEF x
  <2>8. WindowCount(s) \in Nat /\ 0..(WindowCount(s) - 1) = 0..q
    BY <2>1, <2>3
  <2> QED BY <2>6, <2>7, <2>8 DEF all
<1> QED BY <1>1, <1>2, FrontendAssumption
-----------------------------------------------------------------------------
(* Cutting and joining audio *)

LEMMA SliceIsSound ==
  ASSUME NEW audio \in Seq(Sample), NEW epoch, NEW base \in Nat,
         NEW more \in Nat, NEW less \in Nat, Sound(audio, epoch, base, more, less),
         NEW n \in Nat, NEW m \in Nat, n <= m, m <= Len(audio)
  PROVE  /\ SubSeq(audio, n + 1, m) \in Seq(Sample)
         /\ Len(SubSeq(audio, n + 1, m)) = m - n
         /\ \A i \in 1..(m - n) : SubSeq(audio, n + 1, m)[i] = audio[n + i]
         /\ Sound(SubSeq(audio, n + 1, m), epoch, base + n, more, less)
<1> DEFINE slice == SubSeq(audio, n + 1, m)
<1>1. Len(audio) \in Nat /\ \A i \in 1..Len(audio) : audio[i] \in Sample
  BY LenProperties, ElementOfSeq
<1>2. \A i \in (n + 1)..m : audio[i] \in Sample
  BY <1>1
<1>3. /\ slice \in Seq(Sample)
      /\ Len(slice) = IF n + 1 <= m THEN m - (n + 1) + 1 ELSE 0
      /\ \A i \in 1..(m - (n + 1) + 1) : slice[i] = audio[(n + 1) + i - 1]
  BY <1>2, SubSeqProperties
<1>4. Len(slice) = m - n
  BY <1>3
<1>5. \A i \in 1..(m - n) : slice[i] = audio[n + i]
  BY <1>3
<1> HIDE DEF slice
<1>6. ASSUME NEW i \in 1..(m - n)
      PROVE  slice[i].epoch = epoch /\ slice[i].at - (base + n + i - 1) \in (-less)..more
  <2>1. n + i \in 1..Len(audio)
    BY <1>1
  <2>2. audio[n + i].epoch = epoch /\ audio[n + i].at - (base + (n + i) - 1) \in (-less)..more
    BY <2>1 DEF Sound
  <2> QED BY <1>5, <2>2
<1>7. ASSUME NEW i \in 1..(m - n - 1)
      PROVE  slice[i + 1].at - slice[i].at \in (1 - Tolerance)..(1 + Frame + Tolerance)
  <2>1. n + i \in 1..(Len(audio) - 1) /\ slice[i] = audio[n + i] /\ slice[i + 1] = audio[(n + i) + 1]
    BY <1>1, <1>5
  <2> QED BY <2>1 DEF Sound
<1>8. Sound(slice, epoch, base + n, more, less)
  BY <1>4, <1>6, <1>7 DEF Sound
<1> QED BY <1>3, <1>4, <1>5, <1>8 DEF slice

LEMMA JoinIsSound ==
  ASSUME NEW a \in Seq(Sample), NEW b \in Seq(Sample), NEW epoch, NEW base \in Nat,
         NEW more \in Nat, NEW less \in Nat,
         Sound(a, epoch, base, more, less), Sound(b, epoch, base + Len(a), more, less),
         a # <<>> /\ b # <<>> =>
           b[1].at - a[Len(a)].at \in (1 - Tolerance)..(1 + Frame + Tolerance)
  PROVE  Sound(a \o b, epoch, base, more, less)
<1>1. Len(a) \in Nat /\ Len(b) \in Nat /\ (Len(a) > 0 => a # <<>>) /\ (Len(b) > 0 => b # <<>>)
  BY LenProperties, EmptySeq
<1>2. /\ Len(a \o b) = Len(a) + Len(b)
      /\ \A i \in 1..(Len(a) + Len(b)) :
           (a \o b)[i] = IF i <= Len(a) THEN a[i] ELSE b[i - Len(a)]
  BY ConcatProperties
<1> DEFINE ab == a \o b
<1> HIDE DEF ab
<1>3. /\ Len(ab) = Len(a) + Len(b)
      /\ \A i \in 1..(Len(a) + Len(b)) : ab[i] = IF i <= Len(a) THEN a[i] ELSE b[i - Len(a)]
  BY <1>2 DEF ab
<1>4. ASSUME NEW i \in 1..Len(ab)
      PROVE  ab[i].epoch = epoch /\ ab[i].at - (base + i - 1) \in (-less)..more
  <2>1. CASE i <= Len(a)
    <3>1. i \in 1..Len(a) /\ ab[i] = a[i]
      BY <1>1, <1>3, <2>1
    <3> QED BY <3>1 DEF Sound
  <2>2. CASE i > Len(a)
    <3> DEFINE j == i - Len(a)
    <3>1. j \in 1..Len(b) /\ ab[i] = b[j]
      BY <1>1, <1>3, <2>2
    <3>2. b[j].epoch = epoch /\ b[j].at - (base + Len(a) + j - 1) \in (-less)..more
      BY <3>1 DEF Sound
    <3>3. base + Len(a) + j - 1 = base + i - 1
      BY <1>1, <1>3
    <3> QED BY <3>1, <3>2, <3>3
  <2> QED BY <1>1, <1>3, <2>1, <2>2
<1>5. ASSUME NEW i \in 1..(Len(ab) - 1)
      PROVE  ab[i + 1].at - ab[i].at \in (1 - Tolerance)..(1 + Frame + Tolerance)
  <2>1. CASE i < Len(a)
    <3>1. i \in 1..(Len(a) - 1) /\ ab[i] = a[i] /\ ab[i + 1] = a[i + 1]
      BY <1>1, <1>3, <2>1
    <3> QED BY <3>1 DEF Sound
  <2>2. CASE i = Len(a)
    <3>1. ab[i] = a[Len(a)] /\ ab[i + 1] = b[1] /\ Len(a) > 0 /\ Len(b) > 0
      BY <1>1, <1>3, <2>2
    <3> QED BY <1>1, <3>1
  <2>3. CASE i > Len(a)
    <3> DEFINE j == i - Len(a)
    <3>1. j \in 1..(Len(b) - 1) /\ (i + 1) - Len(a) = j + 1
      BY <1>1, <1>3, <2>3
    <3>2. ab[i] = b[j]
      <4>1. i \in 1..(Len(a) + Len(b)) /\ ~(i <= Len(a))
        BY <1>1, <1>3, <2>3
      <4> QED BY <1>3, <4>1
    <3>3. ab[i + 1] = b[(i + 1) - Len(a)]
      <4>1. i + 1 \in 1..(Len(a) + Len(b)) /\ ~(i + 1 <= Len(a))
        BY <1>1, <1>3, <2>3
      <4> QED BY <1>3, <4>1
    <3>4. ab[i + 1] = b[j + 1]
      BY <3>1, <3>3
    <3> QED BY <3>1, <3>2, <3>4 DEF Sound
  <2> QED BY <1>1, <1>3, <2>1, <2>2, <2>3
<1> QED BY <1>4, <1>5 DEF Sound, ab

LEMMA SoundAllowsMore ==
  ASSUME NEW audio \in Seq(Sample), NEW epoch, NEW base \in Nat,
         NEW more \in Nat, NEW less \in Nat, Sound(audio, epoch, base, more, less),
         NEW more2 \in Nat, NEW less2 \in Nat, more <= more2, less <= less2
  PROVE  Sound(audio, epoch, base, more2, less2)
<1>1. Len(audio) \in Nat /\ \A i \in 1..Len(audio) : audio[i] \in Sample
  BY LenProperties, ElementOfSeq
<1>2. ASSUME NEW i \in 1..Len(audio)
      PROVE  audio[i].at - (base + i - 1) \in (-less2)..more2
  <2>1. audio[i].at - (base + i - 1) \in (-less)..more /\ audio[i].at \in Nat
    BY <1>1 DEF Sound, Sample
  <2> QED BY <2>1
<1> QED BY <1>2 DEF Sound

LEMMA SoundIsShown ==
  ASSUME NEW audio \in Seq(Sample), NEW epoch, NEW base \in Nat,
         NEW more \in Nat, NEW less \in Nat, Sound(audio, epoch, base, more, less)
  PROVE  /\ Unbroken(audio)
         /\ \A i \in 1..Len(audio) : audio[i].at - (base + i - 1) \in (-less)..more
         /\ Shown([start |-> base, end |-> base + Len(audio), audio |-> audio], more, less)
<1>1. Len(audio) \in Nat
  BY LenProperties
<1>2. Unbroken(audio)
  <2> SUFFICES ASSUME NEW i \in 1..(Len(audio) - 1)
               PROVE  /\ audio[i].epoch = audio[i + 1].epoch
                      /\ audio[i + 1].at - audio[i].at
                           \in (1 - Tolerance)..(1 + Frame + Tolerance)
    BY DEF Unbroken
  <2>1. i \in 1..Len(audio) /\ i + 1 \in 1..Len(audio)
    BY <1>1
  <2> QED BY <2>1 DEF Sound
<1>3. \A i \in 1..Len(audio) : audio[i].at - (base + i - 1) \in (-less)..more
  BY DEF Sound
<1> QED BY <1>1, <1>2, <1>3 DEF Shown, WindowType
-----------------------------------------------------------------------------
(* Packets *)

LEMMA ChunkTypes ==
  ASSUME NEW c \in Chunks
  PROVE  /\ c.epoch \in Epochs /\ c.epoch \in Nat
         /\ c.start \in Nat /\ c.end \in Nat /\ c.size \in Nat \ {0}
         /\ c.start < c.end
         /\ c.size - (c.end - c.start) \in (-Tolerance)..Tolerance
BY FrontendAssumption DEF Chunks

\* The samples of a packet from the n-th on are sound where its label is.
LEMMA SamplesAreSound ==
  ASSUME NEW c \in Chunks, NEW n \in Nat, n < c.size,
         NEW base \in Nat, NEW more \in Nat, NEW less \in Nat,
         (c.start + n) - base \in (-less)..more
  PROVE  /\ Samples(c, n) \in Seq(Sample) /\ Len(Samples(c, n)) = c.size - n
         /\ Samples(c, n) # <<>>
         /\ \A i \in 1..(c.size - n) : Samples(c, n)[i].at = c.start + n + i - 1
         /\ Sound(Samples(c, n), c.epoch, base, more, less)
<1> DEFINE new == Samples(c, n)
           size == c.size - n
<1>1. /\ c.epoch \in Epochs /\ c.start \in Nat /\ c.size \in Nat /\ size \in Nat \ {0}
  BY ChunkTypes
<1>2. new = [i \in 1..size |-> [epoch |-> c.epoch, at |-> c.start + n + i - 1]]
  BY DEF Samples
<1>3. \A i \in 1..size : [epoch |-> c.epoch, at |-> c.start + n + i - 1] \in Sample
  BY <1>1 DEF Sample
<1>4. new \in Seq(Sample) /\ Len(new) = size
  <2> HIDE DEF new, size
  <2> QED BY <1>1, <1>2, <1>3
<1>5. \A i \in 1..size : new[i].at = c.start + n + i - 1 /\ new[i].epoch = c.epoch
  BY <1>2
<1> HIDE DEF new, size
<1>6. ASSUME NEW i \in 1..size
      PROVE  new[i].at - (base + i - 1) \in (-less)..more
  BY <1>1, <1>5
<1>7. ASSUME NEW i \in 1..(size - 1)
      PROVE  new[i + 1].at - new[i].at \in (1 - Tolerance)..(1 + Frame + Tolerance)
  <2>1. i \in 1..size /\ i + 1 \in 1..size
    BY <1>1
  <2>2. new[i + 1].at = c.start + n + (i + 1) - 1 /\ new[i].at = c.start + n + i - 1
    BY <1>5, <2>1
  <2> QED BY <1>1, <2>2, FrontendAssumption
<1>8. Sound(new, c.epoch, base, more, less)
  BY <1>4, <1>5, <1>6, <1>7 DEF Sound
<1>9. new # <<>>
  BY <1>1, <1>4
<1> QED BY <1>4, <1>5, <1>8, <1>9 DEF new, size

\* The first packet of a stretch.
IsNew(c) == stream.epoch # c.epoch \/ IsMaterialGap(stream, c)

LEMMA StreamTypes ==
  ASSUME IInv, NEW c \in Chunks, stream.epoch = c.epoch
  PROVE  /\ stream # NoStream
         /\ stream \in [epoch : Epochs, audio : Seq(Sample), base : Nat, expected : Nat]
         /\ Stretch(stream, missing, surplus) /\ Hops(stream, origin, cuts)
         /\ Waits(stream, cuts, unheard)
<1>1. stream # NoStream
  BY ChunkTypes DEF NoStream
<1> QED BY <1>1 DEF IInv, FrontendTypeOK, Stream

LEMMA NewStretch ==
  ASSUME IInv, NEW c \in Chunks, IsNew(c)
  PROVE  Appended(c) = [epoch |-> c.epoch, audio |-> Samples(c, 0),
                        base |-> c.start, expected |-> c.end]
<1>1. /\ c.epoch \in Epochs /\ c.start \in Nat /\ c.end \in Nat /\ c.start < c.end
      /\ c.size \in Nat \ {0}
  BY ChunkTypes
<1>2. Samples(c, 0) \in Seq(Sample)
  BY <1>1, SamplesAreSound
<1>3. <<>> \o Samples(c, 0) = Samples(c, 0)
  BY <1>2, ConcatEmptySeq
<1>4. CASE stream.epoch # c.epoch
  <2>1. Opened(c) = [epoch |-> c.epoch, audio |-> <<>>, base |-> c.start, expected |-> c.start]
    BY <1>4 DEF Opened
  <2>2. Cleared(c) = Opened(c)
    BY <1>1, <2>1, FrontendAssumption DEF Cleared, IsMaterialGap
  <2>3. Overlap(Cleared(c), c) = 0
    BY <1>1, <2>1, <2>2 DEF Overlap, Greatest
  <2>4. Greatest(c.start, c.end) = c.end
    BY <1>1 DEF Greatest
  <2>5. Appended(c) = [Cleared(c) EXCEPT !.audio = @ \o Samples(c, 0),
                                         !.expected = Greatest(@, c.end)]
    BY <2>3 DEF Appended
  <2>6. Appended(c) = [epoch |-> c.epoch, audio |-> <<>> \o Samples(c, 0),
                       base |-> c.start, expected |-> Greatest(c.start, c.end)]
    <3> DEFINE old == [epoch |-> c.epoch, audio |-> <<>>, base |-> c.start,
                       expected |-> c.start]
    <3>1. Appended(c) = [old EXCEPT !.audio = @ \o Samples(c, 0),
                                    !.expected = Greatest(@, c.end)]
      BY <2>1, <2>2, <2>5
    <3> QED BY <3>1
  <2> QED BY <1>3, <2>4, <2>6
<1>5. CASE stream.epoch = c.epoch
  <2>1. stream \in [epoch : Epochs, audio : Seq(Sample), base : Nat, expected : Nat]
    BY <1>5, StreamTypes
  <2>2. c.start - stream.expected > Frame /\ stream.expected \in Nat
    BY <1>5, <2>1 DEF IsNew, IsMaterialGap
  <2>3. Cleared(c) = [epoch |-> c.epoch, audio |-> <<>>, base |-> c.start,
                      expected |-> stream.expected]
    BY <1>5, <2>1, <2>2 DEF Cleared, Opened, IsMaterialGap
  <2>4. Overlap(Cleared(c), c) = 0
    BY <1>1, <2>2, <2>3, FrontendAssumption DEF Overlap, Greatest
  <2>5. Greatest(stream.expected, c.end) = c.end
    BY <1>1, <2>2, FrontendAssumption DEF Greatest
  <2>6. Appended(c) = [Cleared(c) EXCEPT !.audio = @ \o Samples(c, 0),
                                         !.expected = Greatest(@, c.end)]
    BY <2>4 DEF Appended
  <2>7. Appended(c) = [epoch |-> c.epoch, audio |-> <<>> \o Samples(c, 0),
                       base |-> c.start, expected |-> Greatest(stream.expected, c.end)]
    <3> DEFINE old == [epoch |-> c.epoch, audio |-> <<>>, base |-> c.start,
                       expected |-> stream.expected]
    <3>1. Appended(c) = [old EXCEPT !.audio = @ \o Samples(c, 0),
                                    !.expected = Greatest(@, c.end)]
      BY <2>3, <2>6
    <3> QED BY <3>1
  <2> QED BY <1>3, <2>5, <2>7
<1> QED BY <1>4, <1>5

\* A packet that goes on where the last one ended, or overlaps it.
LEMMA SameStretch ==
  ASSUME IInv, NEW c \in Chunks, ~IsNew(c), ~IsKnown(c)
  PROVE  LET n == Overlap(stream, c)
         IN  /\ n \in Nat /\ n < c.size
             /\ n = IF stream.expected >= c.start THEN stream.expected - c.start ELSE 0
             /\ c.start - stream.expected <= Frame
             /\ Appended(c) = [epoch |-> c.epoch, audio |-> stream.audio \o Samples(c, n),
                               base |-> stream.base,
                               expected |-> Greatest(stream.expected, c.end)]
<1> DEFINE n == Overlap(stream, c)
<1>1. /\ c.epoch \in Epochs /\ c.start \in Nat /\ c.end \in Nat /\ c.start < c.end
      /\ c.size \in Nat \ {0}
  BY ChunkTypes
<1>2. stream.epoch = c.epoch /\ ~IsMaterialGap(stream, c)
  BY DEF IsNew
<1>3. stream \in [epoch : Epochs, audio : Seq(Sample), base : Nat, expected : Nat]
  BY <1>2, StreamTypes
<1>4. Opened(c) = stream /\ Cleared(c) = stream
  BY <1>2 DEF Opened, Cleared
<1>5. /\ n \in Nat
      /\ n = IF stream.expected >= c.start THEN stream.expected - c.start ELSE 0
      /\ c.start - stream.expected <= Frame
  BY <1>1, <1>2, <1>3, FrontendAssumption DEF Overlap, Greatest, IsMaterialGap
<1>6. n < c.size
  BY <1>1, <1>3, <1>4, <1>5 DEF IsKnown
<1>7. Appended(c) = [stream EXCEPT !.audio = @ \o Samples(c, n),
                                   !.expected = Greatest(@, c.end)]
  BY <1>4 DEF Appended
<1> QED BY <1>2, <1>3, <1>5, <1>6, <1>7

\* What missing and surplus become, by the packet's lack of samples.
LEMMA AppendedIsStretch ==
  ASSUME IInv, NEW c \in Chunks, NEW final \in BOOLEAN, ~IsKnown(c), Accounts(c, final)
  PROVE  /\ missing' \in Nat /\ surplus' \in Nat
         /\ Stretch(Appended(c), missing', surplus')
         /\ Appended(c).base = IF IsNew(c) THEN c.start ELSE stream.base
         /\ ~IsNew(c) => Len(stream.audio) <= Len(Appended(c).audio)
<1> DEFINE lacks == (c.end - c.start) - c.size
           s == Appended(c)
<1>1. /\ c.epoch \in Epochs /\ c.start \in Nat /\ c.end \in Nat /\ c.start < c.end
      /\ c.size \in Nat \ {0} /\ c.size - (c.end - c.start) \in (-Tolerance)..Tolerance
  BY ChunkTypes
<1>2. missing \in Nat /\ surplus \in Nat /\ lacks \in Int
  BY <1>1 DEF IInv, FrontendTypeOK
<1>3. CASE IsNew(c)
  <2> DEFINE new == Samples(c, 0)
  <2>1. s = [epoch |-> c.epoch, audio |-> new, base |-> c.start, expected |-> c.end]
    BY <1>3, NewStretch
  <2>2. missing' = 0 + Greatest(0, lacks) /\ surplus' = 0 + Greatest(0, -lacks)
    BY <1>3 DEF Accounts, IsNew
  <2>3. /\ missing' \in Nat /\ surplus' \in Nat
        /\ lacks \in (-(surplus'))..(missing') /\ 0 \in (-(surplus'))..(missing')
    BY <1>2, <2>2 DEF Greatest
  <2>4. /\ new \in Seq(Sample) /\ Len(new) = c.size /\ new # <<>>
        /\ new[c.size].at = c.start + 0 + c.size - 1
        /\ Sound(new, c.epoch, c.start, missing', surplus')
    <3>1. 0 < c.size - 0 /\ c.size - 0 = c.size /\ c.size \in 1..c.size
      BY <1>1
    <3>2. (c.start + 0) - c.start \in (-(surplus'))..(missing')
      BY <1>1, <2>3
    <3> QED BY <1>1, <2>3, <3>1, <3>2, SamplesAreSound
  <2> HIDE DEF new, s
  <2>5. EndsInTime(s)
    <3>1. s.audio[Len(s.audio)].at - s.expected = (c.start + 0 + c.size - 1) - c.end
      BY <2>1, <2>4
    <3> QED BY <1>1, <3>1, FrontendAssumption DEF EndsInTime
  <2>6. s.expected - (s.base + Len(s.audio)) \in (-(surplus'))..(missing')
    <3>1. s.expected - (s.base + Len(s.audio)) = c.end - (c.start + c.size)
      BY <2>1, <2>4
    <3>2. c.end - (c.start + c.size) = lacks
      BY <1>1
    <3> QED BY <2>3, <3>1, <3>2
  <2>7. s \in [epoch : Epochs, audio : Seq(Sample), base : Nat, expected : Nat]
    BY <1>1, <2>1, <2>4
  <2>8. Sound(s.audio, s.epoch, s.base, missing', surplus')
    BY <2>1, <2>4
  <2>9. Stretch(s, missing', surplus')
    BY <2>5, <2>6, <2>7, <2>8 DEF Stretch
  <2> QED BY <1>3, <2>1, <2>3, <2>9 DEF s
<1>4. CASE ~IsNew(c)
  <2> DEFINE n == Overlap(stream, c)
             new == Samples(c, n)
             a == stream.audio
             next == stream.base + Len(a)
             then == Greatest(stream.expected, c.end)
  <2>1. /\ stream.epoch = c.epoch /\ Stretch(stream, missing, surplus)
        /\ stream \in [epoch : Epochs, audio : Seq(Sample), base : Nat, expected : Nat]
    BY <1>4, StreamTypes DEF IsNew
  <2>2. /\ n \in Nat /\ n < c.size
        /\ n = IF stream.expected >= c.start THEN stream.expected - c.start ELSE 0
        /\ c.start - stream.expected <= Frame
        /\ s = [epoch |-> c.epoch, audio |-> a \o new, base |-> stream.base,
                expected |-> then]
    BY <1>4, SameStretch
  <2>3. /\ missing' = missing + Greatest(0, c.start - stream.expected) + Greatest(0, lacks)
        /\ surplus' = surplus + Greatest(0, -lacks)
    BY <1>4 DEF Accounts, IsNew
  <2>4. /\ a \in Seq(Sample) /\ Len(a) \in Nat /\ stream.base \in Nat
        /\ stream.expected \in Nat /\ next \in Nat
        /\ stream.expected - next \in (-surplus)..missing
        /\ Sound(a, c.epoch, stream.base, missing, surplus) /\ EndsInTime(stream)
    BY <2>1, LenProperties DEF Stretch
  <2> HIDE DEF n, new, a, next, then, s
  <2>5. /\ missing' \in Nat /\ surplus' \in Nat
        /\ missing <= missing' /\ surplus <= surplus'
        /\ then \in Nat /\ (c.start + n) - stream.expected \in 0..Frame
        /\ (c.start + n) - next \in (-(surplus'))..(missing')
        /\ (c.start + n + (c.size - n) - 1) - then \in (-1 - Tolerance)..(Tolerance - 1)
        /\ then - (next + (c.size - n)) \in (-(surplus'))..(missing')
    <3> DEFINE start == c.start
               end == c.end
               size == c.size
               expected == stream.expected
               more == missing
               more2 == missing'
               less == surplus
               less2 == surplus'
    <3>1. /\ start \in Nat /\ end \in Nat /\ size \in Nat /\ start < end
          /\ size - (end - start) \in (-Tolerance)..Tolerance
      BY <1>1
    <3>2. /\ expected \in Nat /\ next \in Nat /\ more \in Nat /\ less \in Nat
          /\ expected - next \in (-less)..more /\ start - expected <= Frame
      BY <1>2, <2>2, <2>4
    <3>3. /\ n \in Nat /\ n < size
          /\ n = IF expected >= start THEN expected - start ELSE 0
      BY <2>2
    <3>4. /\ more2 = more + Greatest(0, start - expected) + Greatest(0, (end - start) - size)
          /\ less2 = less + Greatest(0, -((end - start) - size))
          /\ then = Greatest(expected, end)
      BY <2>3 DEF then
    <3> HIDE DEF start, end, size, expected, more, more2, less, less2
    <3>5. /\ more2 \in Nat /\ less2 \in Nat /\ more <= more2 /\ less <= less2
          /\ then \in Nat
          /\ (start + n) - expected \in 0..Frame
          /\ (start + n) - next \in (-less2)..more2
          /\ (start + n + (size - n) - 1) - then \in (-1 - Tolerance)..(Tolerance - 1)
          /\ then - (next + (size - n)) \in (-less2)..more2
      <4> DEFINE gap == Greatest(0, start - expected)
                 lack == Greatest(0, (end - start) - size)
                 excess == Greatest(0, -((end - start) - size))
      <4>1. /\ gap = IF expected >= start THEN 0 ELSE start - expected
            /\ lack = IF size >= end - start THEN 0 ELSE (end - start) - size
            /\ excess = IF size >= end - start THEN size - (end - start) ELSE 0
            /\ then = IF expected >= end THEN expected ELSE end
        BY <3>1, <3>2, <3>4 DEF Greatest
      <4>2. more2 = more + gap + lack /\ less2 = less + excess
        BY <3>4
      <4> HIDE DEF gap, lack, excess
      <4>3. gap \in Nat /\ lack \in Nat /\ excess \in Nat /\ then \in Nat
        BY <3>1, <3>2, <4>1
      <4>4. more2 \in Nat /\ less2 \in Nat /\ more <= more2 /\ less <= less2
        BY <3>2, <4>2, <4>3
      <4>5. (start + n) - expected \in 0..Frame /\ (start + n) - expected = gap
        BY <3>1, <3>2, <3>3, <4>1, FrontendAssumption
      <4>6. (start + n) - next \in (-less2)..more2
        BY <3>1, <3>2, <3>3, <4>2, <4>3, <4>5
      <4>7. (start + n + (size - n) - 1) - then \in (-1 - Tolerance)..(Tolerance - 1)
        BY <3>1, <3>2, <3>3, <4>1, FrontendAssumption
      <4>8. then - (next + (size - n)) \in (-less2)..more2
        BY <3>1, <3>2, <3>3, <4>1, <4>2, <4>3
      <4> QED BY <4>3, <4>4, <4>5, <4>6, <4>7, <4>8
    <3> QED BY <3>5 DEF start, end, size, expected, more, more2, less, less2
  <2>8. /\ new \in Seq(Sample) /\ Len(new) = c.size - n /\ new # <<>>
        /\ \A i \in 1..(c.size - n) : new[i].at = c.start + n + i - 1
        /\ Sound(new, c.epoch, next, missing', surplus')
    BY <2>2, <2>4, <2>5, SamplesAreSound DEF new
  <2>9. ASSUME a # <<>>
        PROVE  new[1].at - a[Len(a)].at \in (1 - Tolerance)..(1 + Frame + Tolerance)
    <3>1. a[Len(a)].at - stream.expected \in (-1 - Tolerance)..(Tolerance - 1)
      BY <2>4, <2>9 DEF EndsInTime, a
    <3>2. a[Len(a)].at \in Nat
      <4>1. Len(a) \in 1..Len(a)
        BY <2>4, <2>9, EmptySeq
      <4>2. a[Len(a)] \in Sample
        BY <2>4, <4>1, ElementOfSeq
      <4> QED BY <4>2 DEF Sample
    <3>3. new[1].at = c.start + n + 1 - 1
      BY <1>1, <2>2, <2>8
    <3>4. c.start + n + 1 - 1 = c.start + n
      BY <1>1, <2>2
    <3> DEFINE last == a[Len(a)].at
               first == c.start + n
    <3> HIDE DEF last, first
    <3>5. /\ first - last \in (1 - Tolerance)..(1 + Frame + Tolerance)
      <4>1. /\ last \in Nat /\ first \in Nat
        BY <1>1, <2>2, <3>2 DEF last, first
      <4>2. /\ last - stream.expected \in (-1 - Tolerance)..(Tolerance - 1)
            /\ first - stream.expected \in 0..Frame
        BY <2>5, <3>1 DEF last, first
      <4> QED BY <2>4, <4>1, <4>2, FrontendAssumption
    <3> QED BY <3>3, <3>4, <3>5 DEF last, first
  <2>10. Sound(a, c.epoch, stream.base, missing', surplus')
    BY <1>2, <2>4, <2>5, SoundAllowsMore
  <2>11. Sound(a \o new, c.epoch, stream.base, missing', surplus')
    BY <2>4, <2>5, <2>8, <2>9, <2>10, JoinIsSound DEF next
  <2>12. /\ a \o new \in Seq(Sample) /\ Len(a \o new) = Len(a) + (c.size - n)
         /\ (a \o new)[Len(a) + (c.size - n)] = new[c.size - n]
    <3>1. Len(a) + (c.size - n) \in 1..(Len(a) + (c.size - n))
      <4>1. c.size - n \in Nat \ {0}
        BY <1>1, <2>2
      <4>2. Len(a) \in Nat
        BY <2>4
      <4> QED BY <4>1, <4>2
    <3>2. /\ a \o new \in Seq(Sample) /\ Len(a \o new) = Len(a) + Len(new)
          /\ \A i \in 1..(Len(a) + Len(new)) :
               (a \o new)[i] = IF i <= Len(a) THEN a[i] ELSE new[i - Len(a)]
      BY <2>4, <2>8, ConcatProperties
    <3>3. ~(Len(a) + (c.size - n) <= Len(a)) /\ (Len(a) + (c.size - n)) - Len(a) = c.size - n
      BY <1>1, <2>2, <2>4
    <3>4. (a \o new)[Len(a) + (c.size - n)] = new[(Len(a) + (c.size - n)) - Len(a)]
      BY <2>8, <3>1, <3>2, <3>3
    <3> QED BY <2>8, <3>2, <3>3, <3>4
  <2>13. EndsInTime(s)
    <3>1. new[c.size - n].at = c.start + n + (c.size - n) - 1
      <4>1. c.size - n \in 1..(c.size - n)
        BY <1>1, <2>2
      <4> QED BY <2>8, <4>1
    <3>2. s.audio[Len(s.audio)].at - s.expected = (c.start + n + (c.size - n) - 1) - then
      BY <2>2, <2>12, <3>1
    <3> QED BY <2>5, <3>2 DEF EndsInTime
  <2>14. s.expected - (s.base + Len(s.audio)) \in (-(surplus'))..(missing')
    <3>1. s.expected - (s.base + Len(s.audio)) = then - (stream.base + (Len(a) + (c.size - n)))
      BY <2>2, <2>12
    <3>2. stream.base + (Len(a) + (c.size - n)) = next + (c.size - n)
      BY <1>1, <2>2, <2>4 DEF next
    <3> QED BY <2>5, <3>1, <3>2
  <2>15. s \in [epoch : Epochs, audio : Seq(Sample), base : Nat, expected : Nat]
    BY <1>1, <2>2, <2>4, <2>5, <2>12
  <2>16. Sound(s.audio, s.epoch, s.base, missing', surplus')
    BY <2>2, <2>11
  <2>17. Stretch(s, missing', surplus')
    BY <2>13, <2>14, <2>15, <2>16 DEF Stretch
  <2>18. Len(a) <= Len(s.audio)
    <3>1. Len(s.audio) = Len(a) + (c.size - n)
      BY <2>2, <2>12
    <3> QED BY <1>1, <2>2, <2>4, <3>1
  <2> QED BY <1>4, <2>2, <2>5, <2>17, <2>18 DEF s, a
<1> QED BY <1>3, <1>4
-----------------------------------------------------------------------------
(* Cutting windows off *)

LEMMA RemainderIsStretch ==
  ASSUME NEW s, NEW more \in Nat, NEW less \in Nat, Stretch(s, more, less)
  PROVE  /\ Stretch(Remainder(s), more, less) /\ Len(Remainder(s).audio) < Window
         /\ Remainder(s).base = s.base + WindowCount(s) * Hop
         /\ Len(Remainder(s).audio) = Len(s.audio) - WindowCount(s) * Hop
<1> DEFINE n == WindowCount(s) * Hop
           len == Len(s.audio)
           rest == SubSeq(s.audio, n + 1, len)
           left == Remainder(s)
<1>1. /\ s \in [epoch : Epochs, audio : Seq(Sample), base : Nat, expected : Nat]
      /\ Sound(s.audio, s.epoch, s.base, more, less) /\ EndsInTime(s)
      /\ s.expected - (s.base + len) \in (-less)..more
  BY DEF Stretch
<1>2. s.audio \in Seq(Sample) /\ s.base \in Nat /\ s.expected \in Nat /\ len \in Nat
  BY <1>1, LenProperties
<1>3. n \in Nat /\ len - n \in 0..(Window - 1) /\ n <= len
  BY <1>2, WindowsFit, FrontendAssumption
<1>4. left = [epoch |-> s.epoch, audio |-> rest, base |-> s.base + n, expected |-> s.expected]
  <2>1. left = [s EXCEPT !.audio = SubSeq(@, n + 1, Len(@)), !.base = @ + n]
    BY DEF Remainder
  <2> HIDE DEF n, left
  <2> QED BY <1>1, <2>1
<1> HIDE DEF n
<1>5. /\ rest \in Seq(Sample) /\ Len(rest) = len - n
      /\ \A i \in 1..(len - n) : rest[i] = s.audio[n + i]
      /\ Sound(rest, s.epoch, s.base + n, more, less)
  BY <1>1, <1>2, <1>3, SliceIsSound
<1> HIDE DEF rest, left, len
<1>6. EndsInTime(left)
  <2> SUFFICES ASSUME rest # <<>>
               PROVE  rest[Len(rest)].at - s.expected \in (-1 - Tolerance)..(Tolerance - 1)
    BY <1>4 DEF EndsInTime
  <2>1. len - n \in 1..(len - n) /\ n + (len - n) = len /\ len \in 1..len
    <3>1. Len(rest) \in Nat \ {0}
      BY <1>5, EmptySeq
    <3> QED BY <1>2, <1>3, <1>5, <3>1
  <2>2. rest[Len(rest)] = s.audio[len]
    <3>1. rest[len - n] = s.audio[n + (len - n)]
      BY <1>5, <2>1
    <3> QED BY <1>5, <2>1, <3>1
  <2>3. s.audio # <<>>
    BY <1>2, <2>1, EmptySeq DEF len
  <2> QED BY <1>1, <2>2, <2>3 DEF EndsInTime, len
<1>7. left.expected - (left.base + Len(left.audio)) \in (-less)..more
  <2>1. s.base + n + (len - n) = s.base + len
    BY <1>2, <1>3
  <2> QED BY <1>1, <1>4, <1>5, <2>1
<1>8. left \in [epoch : Epochs, audio : Seq(Sample), base : Nat, expected : Nat]
  <2>1. s.base + n \in Nat
    BY <1>2, <1>3
  <2> QED BY <1>1, <1>4, <1>5, <2>1
<1>9. Sound(left.audio, left.epoch, left.base, more, less)
  BY <1>4, <1>5
<1>10. Stretch(left, more, less)
  BY <1>6, <1>7, <1>8, <1>9 DEF Stretch
<1>11. Len(left.audio) < Window
  BY <1>3, <1>4, <1>5, FrontendAssumption
<1>12. left.base = s.base + n /\ Len(left.audio) = len - n
  BY <1>4, <1>5
<1> QED BY <1>10, <1>11, <1>12 DEF left, n, len

LEMMA WindowsAreShown ==
  ASSUME NEW s, NEW more \in Nat, NEW less \in Nat, Stretch(s, more, less)
  PROVE  \A w \in Windows(s) : Shown(w, more, less)
<1> SUFFICES ASSUME NEW k \in 0..(WindowCount(s) - 1)
             PROVE  Shown(WindowAt(s, k), more, less)
  BY DEF Windows
<1> DEFINE n == k * Hop
           slice == SubSeq(s.audio, n + 1, n + Window)
<1>1. /\ s.audio \in Seq(Sample) /\ s.base \in Nat /\ Len(s.audio) \in Nat
      /\ Sound(s.audio, s.epoch, s.base, more, less)
  BY LenProperties DEF Stretch
<1>2. n \in Nat /\ n + Window <= Len(s.audio)
  BY <1>1, WindowsFit
<1> HIDE DEF n
<1>3. n + Window \in Nat /\ n <= n + Window /\ (n + Window) - n = Window /\ s.base + n \in Nat
  BY <1>1, <1>2, FrontendAssumption
<1>4. /\ slice \in Seq(Sample) /\ Len(slice) = Window
      /\ Sound(slice, s.epoch, s.base + n, more, less)
  BY <1>1, <1>2, <1>3, SliceIsSound
<1> HIDE DEF slice
<1>5. Shown([start |-> s.base + n, end |-> s.base + n + Window, audio |-> slice], more, less)
  BY <1>3, <1>4, SoundIsShown
<1> QED BY <1>5 DEF WindowAt, n, slice

LEMMA TailIsShown ==
  ASSUME NEW s, NEW more \in Nat, NEW less \in Nat, Stretch(s, more, less) \/ s = NoStream
  PROVE  \A w \in TailOf(s) : Shown(w, more, less)
<1>1. CASE s = NoStream
  BY <1>1, EmptySeq, FrontendAssumption DEF TailOf, NoStream
<1>2. CASE Stretch(s, more, less)
  <2>1. /\ s.audio \in Seq(Sample) /\ s.base \in Nat
        /\ Sound(s.audio, s.epoch, s.base, more, less)
    BY <1>2 DEF Stretch
  <2> QED BY <2>1, SoundIsShown DEF TailOf
<1> QED BY <1>1, <1>2

\* The windows of a call differ in their labels, that of a flush from the others.
LEMMA SlotsDiffer ==
  ASSUME NEW s, NEW more \in Nat, NEW less \in Nat, Stretch(s, more, less)
  PROVE  DistinctSlots(Windows(s) \cup TailOf(Remainder(s)))
<1> DEFINE n == WindowCount(s)
           left == Remainder(s)
<1>1. n \in Nat /\ s.base \in Nat /\ \A k \in 0..(n - 1) : k * Hop \in Nat
  BY LenProperties, WindowsFit DEF Stretch
<1>2. Len(left.audio) < Window /\ Len(left.audio) \in Nat /\ left.base \in Nat
  BY RemainderIsStretch, LenProperties DEF Stretch
<1> HIDE DEF n, left
<1>3. ASSUME NEW k \in 0..(n - 1), NEW j \in 0..(n - 1), k < j
      PROVE  WindowAt(s, k).start < WindowAt(s, j).start
  <2> DEFINE x == k * Hop
             y == j * Hop
  <2>1. x \in Nat /\ y \in Nat /\ x + Hop <= y
    BY <1>1, <1>3, NextMultiple, FrontendAssumption
  <2>2. WindowAt(s, k).start = s.base + x /\ WindowAt(s, j).start = s.base + y
    BY DEF WindowAt
  <2> HIDE DEF x, y
  <2> QED BY <1>1, <2>1, <2>2, FrontendAssumption
<1>4. ASSUME NEW k \in 0..(n - 1)
      PROVE  /\ WindowAt(s, k).start \in Nat
             /\ WindowAt(s, k).end = WindowAt(s, k).start + Window
  BY <1>1 DEF WindowAt
<1>5. ASSUME NEW v \in Windows(s), NEW w \in Windows(s), v.start = w.start
      PROVE  v = w
  <2>1. PICK k \in 0..(n - 1) : v = WindowAt(s, k)
    BY DEF Windows, n
  <2>2. PICK j \in 0..(n - 1) : w = WindowAt(s, j)
    BY DEF Windows, n
  <2>3. ~(k < j) /\ ~(j < k)
    BY <1>3, <1>4, <1>5, <2>1, <2>2
  <2>4. k = j
    BY <1>1, <2>3
  <2> QED BY <2>1, <2>2, <2>4
<1>6. ASSUME NEW v \in Windows(s)
      PROVE  v.start \in Nat /\ v.end = v.start + Window
  BY <1>4 DEF Windows, n
<1>7. ASSUME NEW t \in TailOf(left)
      PROVE  /\ t.start = left.base /\ t.end = left.base + Len(left.audio)
             /\ \A u \in TailOf(left) : u = t
  BY DEF TailOf
<1>8. ASSUME NEW v \in Windows(s), NEW t \in TailOf(left)
      PROVE  ~(v.start = t.start /\ v.end = t.end)
  BY <1>2, <1>6, <1>7, FrontendAssumption
<1> QED BY <1>5, <1>7, <1>8 DEF DistinctSlots, left

LEMMA HopsAdvance ==
  ASSUME NEW s, NEW more \in Nat, NEW less \in Nat, Stretch(s, more, less),
         NEW from, NEW labels, Hops(s, from, labels)
  PROVE  Hops(Remainder(s), from, labels \cup {w.start : w \in Windows(s)})
<1> DEFINE n == WindowCount(s)
           new == {w.start : w \in Windows(s)}
<1>1. n \in Nat /\ s.base \in Nat
  BY LenProperties, WindowsFit DEF Stretch
<1>2. PICK m \in Nat : /\ s.base = from + m * Hop
                       /\ labels = {from + j * Hop : j \in 0..(m - 1)}
  BY DEF Hops
<1>3. from \in Nat
  BY DEF Hops
<1>4. Remainder(s).base = s.base + n * Hop
  BY DEF Remainder, Stretch
<1>5. new = {s.base + k * Hop : k \in 0..(n - 1)}
  <2>1. Windows(s) = {WindowAt(s, k) : k \in 0..(n - 1)}
    BY DEF Windows
  <2>2. \A k \in 0..(n - 1) : WindowAt(s, k).start = s.base + k * Hop
    BY DEF WindowAt
  <2>3. \A x : x \in new <=> \E k \in 0..(n - 1) : x = WindowAt(s, k).start
    BY <2>1
  <2> HIDE DEF n, new
  <2>4. \A x : x \in new <=> \E k \in 0..(n - 1) : x = s.base + k * Hop
    BY <2>2, <2>3
  <2> QED BY <2>4
<1> HIDE DEF n, new
<1>6. ASSUME NEW k \in Nat
      PROVE  s.base + k * Hop = from + (m + k) * Hop
  <2>1. (m + k) * Hop = m * Hop + k * Hop
    BY FrontendAssumption
  <2>2. m * Hop \in Nat /\ k * Hop \in Nat
    BY MultiplesOrdered, FrontendAssumption
  <2> QED BY <1>2, <1>3, <2>1, <2>2
<1>7. PICK q \in Nat : q = m + n
  BY <1>1
<1>8. new = {from + j * Hop : j \in m..(q - 1)}
  <2>1. ASSUME NEW k \in 0..(n - 1)
        PROVE  \E j \in m..(q - 1) : s.base + k * Hop = from + j * Hop
    <3>1. m + k \in m..(q - 1)
      BY <1>1, <1>7
    <3> QED BY <1>6, <3>1
  <2>2. ASSUME NEW j \in m..(q - 1)
        PROVE  \E k \in 0..(n - 1) : from + j * Hop = s.base + k * Hop
    <3>1. j - m \in 0..(n - 1) /\ m + (j - m) = j /\ j - m \in Nat
      BY <1>1, <1>7
    <3>2. s.base + (j - m) * Hop = from + (m + (j - m)) * Hop
      BY <1>6, <3>1
    <3> QED BY <3>1, <3>2
  <2> QED BY <1>5, <2>1, <2>2
<1>9. labels \cup new = {from + j * Hop : j \in 0..(q - 1)}
  <2>1. 0..(q - 1) = 0..(m - 1) \cup m..(q - 1)
    BY <1>1, <1>7
  <2> QED BY <1>2, <1>8, <2>1
<1>10. Remainder(s).base = from + q * Hop
  BY <1>1, <1>4, <1>6, <1>7
<1> QED BY <1>3, <1>9, <1>10 DEF Hops, new
-----------------------------------------------------------------------------
(* Samples that no window had *)

LEMMA FewLabels ==
  ASSUME NEW a \in Int, NEW b \in Int, NEW n \in Nat \ {0}, b - a + 1 < n,
         NEW labels \in SUBSET (a..b)
  PROVE  Cardinality(labels) < n
<1>1. IsFiniteSet(a..b) /\ Cardinality(a..b) = IF a > b THEN 0 ELSE b - a + 1
  BY FS_Interval
<1>2. IsFiniteSet(labels) /\ Cardinality(labels) <= Cardinality(a..b)
  BY <1>1, FS_Subset
<1>3. Cardinality(labels) \in Nat
  BY <1>2, FS_CardinalityType
<1> QED BY <1>1, <1>2, <1>3

\* Since a hop is no longer than a window, there is nothing between the windows.
LEMMA WindowsHearAll ==
  ASSUME NEW s, s.base \in Nat, Len(s.audio) \in Nat,
         NEW n \in Nat, n + 1 = WindowCount(s),
         NEW t \in s.base..(s.base + n * Hop + Window - 1)
  PROVE  t \in Heard(Windows(s))
<1> DEFINE d == t - s.base
           j == d \div Hop
           x == j * Hop
           y == n * Hop
<1>1. y \in Nat
  BY MultiplesOrdered, FrontendAssumption
<1>2. d \in Nat /\ t = s.base + d /\ d < y + Window
  <2>1. t \in s.base..(s.base + y + Window - 1)
    OBVIOUS
  <2> HIDE DEF y
  <2> QED BY <1>1, <2>1, FrontendAssumption
<1> HIDE DEF d
<1>3. j \in Nat /\ x \in Nat /\ x <= d /\ d < x + Hop
  BY <1>2, Division, FrontendAssumption
<1>4. n <= j => y <= x
  BY <1>3, MultiplesOrdered, FrontendAssumption
<1>5. PICK k \in 0..n : k * Hop \in Nat /\ k * Hop <= d /\ d < k * Hop + Window
  <2>1. CASE j <= n
    <3>1. j \in 0..n
      BY <1>3, <2>1
    <3> HIDE DEF j
    <3>2. x <= d /\ d < x + Window
      <4> HIDE DEF x
      <4> QED BY <1>2, <1>3, FrontendAssumption
    <3> QED BY <1>3, <3>1, <3>2
  <2>2. CASE ~(j <= n)
    <3>1. n \in 0..n /\ n <= j
      BY <1>3, <2>2
    <3> HIDE DEF j, x
    <3>2. y <= d
      <4> HIDE DEF y
      <4> QED BY <1>1, <1>2, <1>3, <1>4, <3>1
    <3> QED BY <1>1, <1>2, <3>1, <3>2
  <2> QED BY <2>1, <2>2
<1> DEFINE w == WindowAt(s, k)
           z == k * Hop
<1>6. w \in Windows(s) /\ w.start = s.base + z /\ w.end = s.base + z + Window
  <2>1. (n + 1) - 1 = n
    OBVIOUS
  <2>2. k \in 0..(WindowCount(s) - 1)
    BY <2>1
  <2> QED BY <2>2 DEF Windows, WindowAt
<1>7. z \in Nat /\ z <= d /\ d < z + Window
  BY <1>5
<1> HIDE DEF w, z
<1>8. t \in w.start..(w.end - 1)
  BY <1>2, <1>6, <1>7, FrontendAssumption
<1> QED BY <1>6, <1>8 DEF Heard

\* Cutting off windows leaves less than a hop unheard.
LEMMA WaitsAdvance ==
  ASSUME NEW s, NEW more \in Nat, NEW less \in Nat, Stretch(s, more, less),
         NEW labels, NEW samples, Waits(s, labels, samples),
         NEW windows, Windows(s) \subseteq windows
  PROVE  Waits(Remainder(s), labels \cup {w.start : w \in Windows(s)}, samples \ Heard(windows))
<1> DEFINE n == WindowCount(s)
           starts == {w.start : w \in Windows(s)}
           len == Len(s.audio)
           left == Remainder(s)
<1>1. s.base \in Nat /\ len \in Nat /\ n \in Nat
  BY LenProperties, WindowsFit DEF Stretch
<1>2. left.base = s.base + n * Hop /\ Len(left.audio) = len - n * Hop
  BY RemainderIsStretch
<1>3. CASE n = 0
  <2>1. Windows(s) = {}
    BY <1>3 DEF Windows
  <2>2. labels \cup starts = labels
    BY <2>1
  <2>3. 0 * Hop = 0
    BY FrontendAssumption
  <2>4. left.base = s.base /\ Len(left.audio) = len
    BY <1>1, <1>2, <1>3, <2>3
  <2> HIDE DEF left, starts
  <2> QED BY <2>2, <2>4 DEF Waits, starts, left
<1>4. CASE n # 0
  <2>1. PICK m \in Nat : n = m + 1
    <3>1. n - 1 \in Nat /\ n = (n - 1) + 1
      BY <1>1, <1>4
    <3> QED BY <3>1
  <2> DEFINE y == m * Hop
  <2>2. y \in Nat /\ y + Window <= len
    <3>1. m \in 0..(n - 1)
      BY <1>1, <2>1
    <3> QED BY <1>1, <3>1, WindowsFit
  <2>3. n * Hop = y + Hop
    BY <2>1, FrontendAssumption
  <2>4. labels \cup starts # {}
    <3>1. 0 \in 0..(n - 1)
      BY <1>1, <1>4
    <3>2. WindowAt(s, 0) \in Windows(s)
      BY <3>1 DEF Windows
    <3> QED BY <3>2
  <2>5. ASSUME NEW t \in s.base..(s.base + y + Window - 1)
        PROVE  t \in Heard(windows)
    <3>1. t \in Heard(Windows(s))
      BY <1>1, <2>1, WindowsHearAll
    <3> QED BY <3>1 DEF Heard
  <2> HIDE DEF y, n, len, left
  <2>6. /\ left.base + Window - Hop = s.base + y + Window
        /\ left.base + Len(left.audio) - 1 = s.base + len - 1
        /\ Window - Hop <= Len(left.audio)
    BY <1>1, <1>2, <2>2, <2>3, FrontendAssumption
  <2>7. samples \subseteq s.base..(s.base + len - 1)
    <3>1. s.base + Window - Hop \in Nat /\ s.base <= s.base + Window - Hop
      BY <1>1, FrontendAssumption
    <3> QED BY <1>1, <3>1 DEF Waits, len
  <2>8. ASSUME NEW t \in samples \ Heard(windows)
        PROVE  t \in (s.base + y + Window)..(s.base + len - 1)
    <3>1. t \in s.base..(s.base + len - 1) /\ t \notin s.base..(s.base + y + Window - 1)
      BY <2>5, <2>7
    <3> QED BY <1>1, <2>2, <3>1, FrontendAssumption
  <2>9. samples \ Heard(windows) \subseteq (left.base + Window - Hop)..(left.base + Len(left.audio) - 1)
    BY <2>6, <2>8
  <2> HIDE DEF starts
  <2> QED BY <2>4, <2>6, <2>9 DEF Waits, starts, left
<1> QED BY <1>3, <1>4

\* A flush hears all that waits, or leaves less than the shortest tail.
LEMMA TailHears ==
  ASSUME NEW s, NEW more \in Nat, NEW less \in Nat, Stretch(s, more, less),
         NEW labels, NEW samples, Waits(s, labels, samples),
         NEW windows, TailOf(s) \subseteq windows
  PROVE  Cardinality(samples \ Heard(windows)) < MinFlush
<1>1. s.base \in Nat /\ Len(s.audio) \in Nat
  BY LenProperties DEF Stretch
<1>2. samples \subseteq Buffered(s)
  <2>1. s.base + Window - Hop \in Nat /\ s.base <= s.base + Window - Hop
    BY <1>1, FrontendAssumption
  <2> QED BY <1>1, <2>1 DEF Waits, Buffered
<1>3. CASE Len(s.audio) < MinFlush
  <2> DEFINE a == s.base
             b == a + Len(s.audio) - 1
             left == samples \ Heard(windows)
  <2>1. a \in Int /\ b \in Int /\ MinFlush \in Nat \ {0} /\ b - a + 1 < MinFlush
    BY <1>1, <1>3, FrontendAssumption
  <2>2. left \in SUBSET (a..b)
    BY <1>2 DEF Buffered
  <2> HIDE DEF a, b, left
  <2>3. Cardinality(left) < MinFlush
    BY <2>1, <2>2, FewLabels
  <2> QED BY <2>3 DEF left
<1>4. CASE ~(Len(s.audio) < MinFlush)
  <2> DEFINE tail == [start |-> s.base, end |-> s.base + Len(s.audio), audio |-> s.audio]
  <2>1. tail \in windows
    BY <1>4 DEF TailOf
  <2>2. Buffered(s) \subseteq Heard(windows)
    <3>1. tail.start = s.base /\ tail.end = s.base + Len(s.audio)
      OBVIOUS
    <3> HIDE DEF tail
    <3>2. tail.start..(tail.end - 1) = Buffered(s)
      BY <1>1, <3>1 DEF Buffered
    <3> QED BY <2>1, <3>2 DEF Heard
  <2>3. samples \ Heard(windows) = {}
    BY <1>2, <2>2
  <2> QED BY <2>3, FS_EmptySet, FrontendAssumption
<1> QED BY <1>3, <1>4
-----------------------------------------------------------------------------
(* The invariant *)

LEMMA Initial == FrontendInit => IInv
<1> SUFFICES ASSUME FrontendInit PROVE IInv
  OBVIOUS
<1>1. Len(stream.audio) < Window
  BY EmptySeq, FrontendAssumption DEF FrontendInit, NoStream
<1>2. Cardinality({}) < MinFlush
  BY FS_EmptySet, FrontendAssumption
<1> QED BY <1>1, <1>2 DEF FrontendInit, IInv, FrontendTypeOK, Stream, DistinctSlots

\* What a call leaves behind, of a stretch that has no complete window left.
LEMMA LeavesPreserves ==
  ASSUME NEW s, NEW final \in BOOLEAN,
         missing' \in Nat, surplus' \in Nat, s = NoStream \/ Stretch(s, missing', surplus'),
         Len(s.audio) < Window,
         \A w \in result' : Shown(w, missing', surplus') \/ w \in TailOf(s),
         stream' = IF final THEN NoStream ELSE s,
         DistinctSlots(result'),
         origin' \in Nat, cuts' \subseteq Nat, unheard' \subseteq Nat,
         ~final /\ s # NoStream => Hops(s, origin', cuts') /\ Waits(s, cuts', unheard'),
         final \/ s = NoStream => Cardinality(unheard') < MinFlush
  PROVE  IInv'
<1>1. \A w \in TailOf(s) : Shown(w, missing', surplus')
  BY TailIsShown
<1>2. \A w \in result' : Shown(w, missing', surplus')
  BY <1>1
<1>3. result' \subseteq WindowType
  BY <1>2 DEF Shown
<1>4. stream' \in Stream /\ Len((stream').audio) < Window
  <2>1. NoStream \in Stream /\ Len(NoStream.audio) < Window
    BY EmptySeq, FrontendAssumption DEF Stream, NoStream
  <2>2. s \in Stream
    BY <2>1 DEF Stretch, Stream
  <2> QED BY <2>1, <2>2
<1>5. stream' # NoStream => /\ Stretch(stream', missing', surplus')
                            /\ Hops(stream', origin', cuts') /\ Waits(stream', cuts', unheard')
  OBVIOUS
<1>6. stream' = NoStream => Cardinality(unheard') < MinFlush
  OBVIOUS
<1> QED BY <1>2, <1>3, <1>4, <1>5, <1>6 DEF IInv, FrontendTypeOK

\* A flush where nothing is buffered leaves unheard what the last one left.
LEMMA FlushHears ==
  ASSUME IInv
  PROVE  Cardinality(unheard \ Heard(TailOf(stream))) < MinFlush
<1>1. CASE stream = NoStream
  <2>1. TailOf(stream) = {}
    BY <1>1, EmptySeq, FrontendAssumption DEF TailOf, NoStream
  <2>2. unheard \ Heard(TailOf(stream)) = unheard
    BY <2>1 DEF Heard
  <2> QED BY <1>1, <2>2 DEF IInv
<1>2. CASE stream # NoStream
  BY <1>2, TailHears DEF IInv, FrontendTypeOK
<1> QED BY <1>1, <1>2

LEMMA PushKnownPreserves ==
  ASSUME IInv, NEW c \in Chunks, NEW final \in BOOLEAN, PushKnown(c, final)
  PROVE  IInv'
<1>1. /\ missing' \in Nat /\ surplus' \in Nat /\ missing' = missing /\ surplus' = surplus
      /\ stream = NoStream \/ Stretch(stream, missing', surplus')
      /\ stream # NoStream => Hops(stream, origin, cuts) /\ Waits(stream, cuts, unheard)
      /\ stream # NoStream
      /\ Len(stream.audio) < Window /\ origin \in Nat /\ cuts \subseteq Nat
      /\ unheard \subseteq Nat
  <2>1. stream.epoch = c.epoch
    BY ChunkTypes DEF PushKnown, IsKnown, Opened
  <2> QED BY <2>1, StreamTypes DEF PushKnown, IInv, FrontendTypeOK
<1>2. /\ stream' = IF final THEN NoStream ELSE stream
      /\ result' = IF final THEN TailOf(stream) ELSE {}
      /\ result' \subseteq TailOf(stream) /\ DistinctSlots(result')
      /\ origin' = (IF final THEN 0 ELSE origin) /\ cuts' = (IF final THEN {} ELSE cuts)
      /\ unheard' = unheard \ Heard(result')
  BY DEF PushKnown, Leaves, TailOf, DistinctSlots
<1>3. origin' \in Nat /\ cuts' \subseteq Nat /\ unheard' \subseteq Nat
  BY <1>1, <1>2
<1>4. ~final => Hops(stream, origin', cuts') /\ Waits(stream, cuts', unheard')
  BY <1>1, <1>2 DEF Waits
<1>5. final => Cardinality(unheard') < MinFlush
  BY <1>2, FlushHears
<1> QED BY <1>1, <1>2, <1>3, <1>4, <1>5, LeavesPreserves

LEMMA PushNewPreserves ==
  ASSUME IInv, NEW c \in Chunks, NEW final \in BOOLEAN, PushNew(c, final)
  PROVE  IInv'
<1> DEFINE s == Appended(c)
           from == IF IsNew(c) THEN c.start ELSE origin
           labels == IF IsNew(c) THEN {} ELSE cuts
           starts == {w.start : w \in Windows(s)}
           waiting == IF IsNew(c) THEN Buffered(s)
                      ELSE unheard \cup (Buffered(s) \ Buffered(stream))
<1>1. /\ missing' \in Nat /\ surplus' \in Nat /\ Stretch(s, missing', surplus')
      /\ s.base = IF IsNew(c) THEN c.start ELSE stream.base
      /\ ~IsNew(c) => Len(stream.audio) <= Len(s.audio)
  BY AppendedIsStretch DEF PushNew
<1>2. /\ stream' = IF final THEN NoStream ELSE Remainder(s)
      /\ result' \subseteq Windows(s) \cup TailOf(Remainder(s))
      /\ origin' = (IF final THEN 0 ELSE from)
      /\ cuts' = (IF final THEN {} ELSE labels \cup starts)
      /\ unheard' = waiting \ Heard(result')
      /\ Windows(s) \subseteq result'
      /\ final => TailOf(Remainder(s)) \subseteq result'
  BY DEF PushNew, Leaves, Accounts, IsNew
<1>3. Hops(s, from, labels)
  <2>1. CASE IsNew(c)
    <3>1. c.start \in Nat /\ 0 \in Nat /\ c.start = c.start + 0 * Hop
      BY ChunkTypes, FrontendAssumption
    <3>2. {c.start + j * Hop : j \in 0..(0 - 1)} = {}
      OBVIOUS
    <3> QED BY <1>1, <2>1, <3>1, <3>2 DEF Hops
  <2>2. CASE ~IsNew(c)
    BY <1>1, <2>2, StreamTypes DEF IsNew, Hops
  <2> QED BY <2>1, <2>2
<1>4. Waits(s, labels, waiting)
  <2>1. CASE IsNew(c)
    BY <2>1 DEF Waits, Buffered
  <2>2. CASE ~IsNew(c)
    <3> DEFINE base == stream.base
               old == Len(stream.audio)
               len == Len(s.audio)
               first == IF cuts = {} THEN base ELSE base + Window - Hop
    <3>1. /\ base \in Nat /\ old \in Nat /\ len \in Nat /\ old <= len /\ s.base = base
          /\ Waits(stream, cuts, unheard)
      BY <1>1, <2>2, StreamTypes, LenProperties DEF IsNew, Stretch
    <3> HIDE DEF s
    <3>2. /\ cuts # {} => Window - Hop <= old
          /\ unheard \subseteq first..(base + old - 1)
      BY <3>1 DEF Waits
    <3>3. Buffered(s) = base..(base + len - 1) /\ Buffered(stream) = base..(base + old - 1)
      BY <3>1 DEF Buffered
    <3> HIDE DEF base, old, len
    <3>4. first \in Nat /\ first <= base + old /\ (cuts # {} => Window - Hop <= len)
      BY <3>1, <3>2, FrontendAssumption
    <3> HIDE DEF first
    <3>5. unheard \subseteq first..(base + len - 1)
      BY <3>1, <3>2, <3>4
    <3>6. Buffered(s) \ Buffered(stream) \subseteq first..(base + len - 1)
      BY <3>1, <3>3, <3>4
    <3> QED BY <2>2, <3>1, <3>4, <3>5, <3>6 DEF Waits, first, base, len
  <2> QED BY <2>1, <2>2
<1> HIDE DEF s, from, labels, waiting
<1>5. Stretch(Remainder(s), missing', surplus') /\ Len(Remainder(s).audio) < Window
  BY <1>1, RemainderIsStretch
<1>6. \A w \in Windows(s) : Shown(w, missing', surplus')
  BY <1>1, WindowsAreShown
<1>7. Hops(Remainder(s), from, labels \cup starts)
  BY <1>1, <1>3, HopsAdvance
<1>8. from \in Nat
  BY <1>3 DEF Hops
<1>9. labels \cup starts \subseteq Nat
  <2>1. starts \subseteq Nat
    BY <1>6 DEF Shown, WindowType
  <2>2. labels \subseteq Nat
    BY DEF labels, IInv, FrontendTypeOK
  <2> QED BY <2>1, <2>2
<1> HIDE DEF starts
<1>10. origin' \in Nat /\ cuts' \subseteq Nat
  BY <1>2, <1>8, <1>9
<1>11. DistinctSlots(result')
  BY <1>1, <1>2, SlotsDiffer DEF DistinctSlots
<1>12. Waits(Remainder(s), labels \cup starts, waiting \ Heard(result'))
  BY <1>1, <1>2, <1>4, WaitsAdvance DEF starts
<1>13. ~final => Hops(Remainder(s), origin', cuts') /\ Waits(Remainder(s), cuts', unheard')
  BY <1>2, <1>7, <1>12
<1>14. final => Cardinality(unheard') < MinFlush
  <2> SUFFICES ASSUME final PROVE Cardinality(unheard') < MinFlush
    OBVIOUS
  <2>1. Cardinality((waiting \ Heard(result')) \ Heard(result')) < MinFlush
    BY <1>1, <1>2, <1>5, <1>12, TailHears
  <2>2. (waiting \ Heard(result')) \ Heard(result') = waiting \ Heard(result')
    OBVIOUS
  <2> QED BY <1>2, <2>1, <2>2
<1>15. unheard' \subseteq Nat
  <2>1. waiting \ Heard(result') \subseteq Nat
    <3>1. Remainder(s).base \in Nat /\ Len(Remainder(s).audio) \in Nat
      BY <1>5, LenProperties DEF Stretch
    <3> QED BY <1>12, <3>1, FrontendAssumption DEF Waits
  <2> QED BY <1>2, <2>1
<1>16. Remainder(s) # NoStream
  <2>1. Remainder(s).epoch \in Nat /\ NoStream.epoch = -1
    BY <1>5, FrontendAssumption DEF Stretch, NoStream
  <2> QED BY <2>1
<1> QED BY <1>1, <1>2, <1>5, <1>6, <1>10, <1>11, <1>13, <1>14, <1>15, <1>16, LeavesPreserves

LEMMA FlushPreserves ==
  ASSUME IInv, Flush
  PROVE  IInv'
<1>1. /\ missing' \in Nat /\ surplus' \in Nat /\ missing' = missing /\ surplus' = surplus
      /\ stream = NoStream \/ Stretch(stream, missing', surplus')
      /\ Len(stream.audio) < Window /\ unheard \subseteq Nat
  BY DEF Flush, IInv, FrontendTypeOK
<1>2. /\ stream' = IF TRUE THEN NoStream ELSE stream
      /\ result' = TailOf(stream) /\ DistinctSlots(result')
      /\ origin' \in Nat /\ cuts' \subseteq Nat /\ unheard' = unheard \ Heard(result')
  BY DEF Flush, TailOf, DistinctSlots
<1>3. unheard' \subseteq Nat
  BY <1>1, <1>2
<1>4. Cardinality(unheard') < MinFlush
  BY <1>2, FlushHears
<1> QED BY <1>1, <1>2, <1>3, <1>4, LeavesPreserves

LEMMA Inductive == IInv /\ [FrontendNext]_frontendVars => IInv'
<1> SUFFICES ASSUME IInv, [FrontendNext]_frontendVars PROVE IInv'
  OBVIOUS
<1>1. ASSUME NEW c \in Chunks, NEW final \in BOOLEAN, PushKnown(c, final) PROVE IInv'
  BY <1>1, PushKnownPreserves
<1>2. ASSUME NEW c \in Chunks, NEW final \in BOOLEAN, PushNew(c, final) PROVE IInv'
  BY <1>2, PushNewPreserves
<1>3. CASE Flush
  BY <1>3, FlushPreserves
<1>4. CASE UNCHANGED frontendVars
  BY <1>4 DEF frontendVars, IInv, FrontendTypeOK, DistinctSlots
<1> QED BY <1>1, <1>2, <1>3, <1>4 DEF FrontendNext

LEMMA Invariance == FrontendSpec => []IInv
BY Initial, Inductive, PTL DEF FrontendSpec
-----------------------------------------------------------------------------
(* The theorems *)

\* Types, and no complete window is left in the buffer.
THEOREM TypeCorrect == FrontendSpec => []FrontendTypeOK
<1>1. IInv => FrontendTypeOK
  BY DEF IInv
<1> QED BY <1>1, Invariance, PTL

LEMMA StreamIsSound ==
  ASSUME IInv
  PROVE  Unbroken(stream.audio) /\ Labelled(stream.base, stream.audio)
<1>1. CASE stream = NoStream
  <2>1. Len(stream.audio) = 0
    BY <1>1, EmptySeq DEF NoStream
  <2> QED BY <2>1 DEF Unbroken, Labelled
<1>2. CASE stream # NoStream
  <2>1. /\ stream.audio \in Seq(Sample) /\ stream.base \in Nat
        /\ Sound(stream.audio, stream.epoch, stream.base, missing, surplus)
        /\ missing \in Nat /\ surplus \in Nat
    BY <1>2 DEF IInv, Stretch, FrontendTypeOK
  <2> QED BY <2>1, SoundIsShown DEF Labelled
<1> QED BY <1>1, <1>2

\* No window and no buffer spans a break of the recording.
THEOREM NeverSpansBreak == FrontendSpec => []OneStretch
<1>1. IInv => OneStretch
  BY StreamIsSound DEF IInv, Shown, OneStretch
<1> QED BY <1>1, Invariance, PTL

\* Labels differ from the time of recording by holes and surplus only.
THEOREM LabelsAreTrue == FrontendSpec => []LabelsFollowAudio
<1>1. IInv => LabelsFollowAudio
  BY StreamIsSound DEF IInv, Shown, Labelled, LabelsFollowAudio
<1> QED BY <1>1, Invariance, PTL

\* The windows of a stretch begin at every hop.
THEOREM NoHopIsSkipped == FrontendSpec => []EveryHop
<1>1. IInv => EveryHop
  <2> SUFFICES ASSUME IInv, stream # NoStream
               PROVE  cuts = {t \in origin..(stream.base - 1) : (t - origin) % Hop = 0}
    BY DEF EveryHop
  <2>1. PICK m \in Nat : /\ stream.base = origin + m * Hop
                         /\ cuts = {origin + j * Hop : j \in 0..(m - 1)}
    BY DEF IInv, Hops
  <2>2. origin \in Nat
    BY DEF IInv, FrontendTypeOK
  <2>3. cuts = {t \in origin..(origin + m * Hop - 1) : (t - origin) % Hop = 0}
    BY <2>1, <2>2, HopsAreEven
  <2>4. origin..(origin + m * Hop - 1) = origin..(stream.base - 1)
    <3>1. stream.base = origin + m * Hop /\ m * Hop \in Nat
      BY <2>1, MultiplesOrdered, FrontendAssumption
    <3> QED BY <2>2, <3>1
  <2> QED BY <2>3, <2>4
<1> QED BY <1>1, Invariance, PTL

\* A gap or a new epoch loses less than a hop, or than a window where none was
\* complete, and a flush less than the shortest tail; nothing else is lost.
THEOREM LossIsBounded == FrontendSpec => []LittleIsLost
<1>1. IInv => LittleIsLost
  <2> SUFFICES ASSUME IInv, stream # NoStream
               PROVE  /\ unheard \subseteq Buffered(stream)
                      /\ Cardinality(unheard) < IF cuts = {} THEN Window ELSE Hop
    BY DEF IInv, LittleIsLost
  <2> DEFINE base == stream.base
             len == Len(stream.audio)
             first == IF cuts = {} THEN base ELSE base + Window - Hop
             limit == IF cuts = {} THEN Window ELSE Hop
             last == base + len - 1
  <2>1. base \in Nat /\ len \in Nat /\ len < Window
    BY LenProperties DEF IInv, Stretch, FrontendTypeOK
  <2>2. unheard \subseteq first..last
    BY DEF IInv, Waits
  <2> HIDE DEF base, len
  <2>3. /\ first \in Nat /\ base <= first /\ last \in Int
        /\ limit \in Nat \ {0} /\ last - first + 1 < limit
    BY <2>1, FrontendAssumption
  <2> HIDE DEF first, last, limit
  <2>4. Cardinality(unheard) < limit
    BY <2>2, <2>3, FewLabels
  <2>5. unheard \subseteq base..last
    BY <2>1, <2>2, <2>3
  <2> QED BY <2>4, <2>5 DEF Buffered, base, len, last, limit
<1> QED BY <1>1, Invariance, PTL
=============================================================================
