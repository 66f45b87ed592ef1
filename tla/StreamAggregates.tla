--------------------------- MODULE StreamAggregates ---------------------------
(***************************************************************************)
(* The cross-stream queries of StreamsGroup (streams-group.cpp): the loops *)
(* of allStreamsEncrypted, isMuted, getActiveStreamsCount, isStarted and   *)
(* computeOverallQuality, avpfEnabled and getAvpfRrInterval, written as recursive operators over mStreams in  *)
(* index order, with their early returns.  The streams' own status (state, *)
(* encryption, mute, quality rating) changes freely under the media engine *)
(* and the group; every reachable combination is checked against what the *)
(* specification says the queries return.                                  *)
(***************************************************************************)
EXTENDS Integers, Sequences, FiniteSets

CONSTANTS
  N,        \* number of streams in mStreams
  Ratings,      \* float quality ratings a stream may report; -1 is "none"
  RrIntervals   \* RTCP RR intervals (ms) an MS2Stream may report under AVPF

ASSUME N \in Nat \ {0} /\ -1 \in Ratings /\ Ratings \subseteq Int
ASSUME 0 \in RrIntervals /\ RrIntervals \subseteq Nat

StreamStates == {"Stopped", "Preparing", "Running"}
Status == [state : StreamStates, enc : BOOLEAN, muted : BOOLEAN, rating : Ratings,
           avpf : BOOLEAN, rr : RrIntervals]

\* The float value globalRating / (float)countedStreams of
\* computeOverallQuality, kept as the quotient num/den; -1/0 is -infinity.
Quotient(num, den) == [num |-> num, den |-> den]
NegInf == Quotient(-1, 0)

VARIABLE streams

-----------------------------------------------------------------------------
(* The code's loops *)

\* allStreamsEncrypted from position k, having seen n running streams.
RECURSIVE EncryptedFrom(_, _, _)
\* Mutant of EncryptedFrom: the final activeStreamsCount > 0 test is dropped.
RECURSIVE EncryptedFromNoCount(_, _, _)
EncryptedFromNoCount(v, k, n) ==
  CASE k > Len(v) -> TRUE
    [] v[k].state = "Running" /\ ~v[k].enc -> FALSE
    [] v[k].state = "Running" -> EncryptedFromNoCount(v, k + 1, n + 1)
    [] OTHER -> EncryptedFromNoCount(v, k + 1, n)
EncryptedFrom(v, k, n) ==
  CASE k > Len(v) -> n > 0
    [] v[k].state = "Running" /\ ~v[k].enc -> FALSE
    [] v[k].state = "Running" -> EncryptedFrom(v, k + 1, n + 1)
    [] OTHER -> EncryptedFrom(v, k + 1, n)
AllStreamsEncrypted(v) == EncryptedFrom(v, 1, 0)

\* isMuted from position k.
RECURSIVE MutedFrom(_, _)
MutedFrom(v, k) ==
  CASE k > Len(v) -> TRUE
    [] v[k].state = "Running" /\ ~v[k].muted -> FALSE
    [] OTHER -> MutedFrom(v, k + 1)
IsMuted(v) == MutedFrom(v, 1)

\* getActiveStreamsCount and isStarted.
RECURSIVE ActiveFrom(_, _)
ActiveFrom(v, k) ==
  IF k > Len(v) THEN 0
  ELSE (IF v[k].state = "Running" THEN 1 ELSE 0) + ActiveFrom(v, k + 1)
GetActiveStreamsCount(v) == ActiveFrom(v, 1)
IsStarted(v) == \E k \in 1 .. Len(v) : v[k].state = "Running"

\* computeOverallQuality from position k with the running globalRating g and
\* countedStreams c; g starts at the sentinel -1.
RECURSIVE QualityFrom(_, _, _, _)
\* Mutant of QualityFrom: the first rating is added to the -1 sentinel.
RECURSIVE QualityFromNoReset(_, _, _, _)
QualityFromNoReset(v, k, g, c) ==
  CASE k > Len(v) -> Quotient(g, c)
    [] v[k].rating # -1 -> QualityFromNoReset(v, k + 1, g + v[k].rating, c + 1)
    [] OTHER -> QualityFromNoReset(v, k + 1, g, c)
QualityFrom(v, k, g, c) ==
  CASE k > Len(v) -> Quotient(g, c)
    [] v[k].rating # -1 /\ g = -1 -> QualityFrom(v, k + 1, v[k].rating, c + 1)
    [] v[k].rating # -1 -> QualityFrom(v, k + 1, g + v[k].rating, c + 1)
    [] OTHER -> QualityFrom(v, k + 1, g, c)
ComputeOverallQuality(v) == QualityFrom(v, 1, -1, 0)

\* getAvpfRrInterval from position k with the largest interval seen so far.
RECURSIVE RrIntervalFrom(_, _, _)
RrIntervalFrom(v, k, interval) ==
  CASE k > Len(v) -> interval
    [] v[k].rr > interval -> RrIntervalFrom(v, k + 1, v[k].rr)
    [] OTHER -> RrIntervalFrom(v, k + 1, interval)
GetAvpfRrInterval(v) == RrIntervalFrom(v, 1, 0)

\* avpfEnabled from position k, ret being true once a running stream is seen.
RECURSIVE AvpfFrom(_, _, _)
\* Mutant of AvpfFrom: the Running test is dropped, every stream counts.
RECURSIVE AvpfFromAnyState(_, _, _)
AvpfFromAnyState(v, k, ret) ==
  CASE k > Len(v) -> ret
    [] ~v[k].avpf -> FALSE
    [] OTHER -> AvpfFromAnyState(v, k + 1, TRUE)
AvpfFrom(v, k, ret) ==
  CASE k > Len(v) -> ret
    [] v[k].state = "Running" /\ ~v[k].avpf -> FALSE
    [] v[k].state = "Running" -> AvpfFrom(v, k + 1, TRUE)
    [] OTHER -> AvpfFrom(v, k + 1, ret)
AvpfEnabled(v) == AvpfFrom(v, 1, FALSE)

-----------------------------------------------------------------------------
(* The streams' status changes under the media engine and the group. *)

Init == streams = [k \in 1 .. N |->
                    [state |-> "Stopped", enc |-> FALSE, muted |-> FALSE, rating |-> -1,
                     avpf |-> FALSE, rr |-> 0]]

SetState(k, s) ==
  /\ streams[k].state # s
  /\ streams' = [streams EXCEPT ![k].state = s]

ToggleEncrypted(k) == streams' = [streams EXCEPT ![k].enc = ~@]

ToggleMuted(k) == streams' = [streams EXCEPT ![k].muted = ~@]

Rate(k, r) ==
  /\ streams[k].rating # r
  /\ streams' = [streams EXCEPT ![k].rating = r]

\* The negotiated result turns RTCP feedback on or off for a stream, and the
\* stream reports its RR interval.
ToggleAvpf(k) == streams' = [streams EXCEPT ![k].avpf = ~@]

SetRrInterval(k, r) ==
  /\ streams[k].rr # r
  /\ streams' = [streams EXCEPT ![k].rr = r]

Next ==
  \E k \in 1 .. N :
    \/ ToggleAvpf(k)
    \/ \E r \in RrIntervals : SetRrInterval(k, r)
    \/ \E s \in StreamStates : SetState(k, s)
    \/ ToggleEncrypted(k)
    \/ ToggleMuted(k)
    \/ \E r \in Ratings : Rate(k, r)

Spec == Init /\ [][Next]_streams

-----------------------------------------------------------------------------
(* Properties *)

Running(v) == {k \in 1 .. Len(v) : v[k].state = "Running"}
Rated(v) == {k \in 1 .. Len(v) : v[k].rating # -1}

RECURSIVE RatingSum(_, _)
RatingSum(v, S) ==
  IF S = {} THEN 0
  ELSE LET k == CHOOSE x \in S : TRUE IN v[k].rating + RatingSum(v, S \ {k})

\* Spec 4.4 and 8: the status queries the session asks the group agree with
\* the streams: allStreamsEncrypted holds iff some stream runs and every
\* running stream is encrypted (false with none running), isMuted iff every
\* running stream is muted (vacuously true), and getActiveStreamsCount and
\* isStarted count and detect the running streams.
StatusQueriesMatchSpec ==
  LET v == streams IN
  /\ AllStreamsEncrypted(v) = (Running(v) # {} /\ \A k \in Running(v) : v[k].enc)
  /\ IsMuted(v) = \A k \in Running(v) : v[k].muted
  /\ GetActiveStreamsCount(v) = Cardinality(Running(v))
  /\ IsStarted(v) = (GetActiveStreamsCount(v) > 0)

\* Spec 4.4: getAverageQuality/getCurrentQuality average the ratings of the
\* streams that report one.
QualityIsAverageOfRated ==
  LET v == streams  q == ComputeOverallQuality(v) IN
  Rated(v) # {} =>
    /\ q # NegInf
    /\ q.num * Cardinality(Rated(v)) = RatingSum(v, Rated(v)) * q.den

\* RTCP feedback is used for the session (avpfEnabled) iff some stream runs
\* and every running stream negotiated AVPF, so a stopped stream without
\* AVPF does not turn it off; the RR interval the session uses is the
\* largest any stream reports, 0 when none does.
AvpfQueriesMatch ==
  LET v == streams IN
  /\ AvpfEnabled(v) = (Running(v) # {} /\ \A k \in Running(v) : v[k].avpf)
  /\ \A k \in 1 .. Len(v) : GetAvpfRrInterval(v) >= v[k].rr
  /\ GetAvpfRrInterval(v) \in {v[k].rr : k \in 1 .. Len(v)} \cup {0}

=============================================================================
