------------------------------ MODULE EventPump ------------------------------
(***************************************************************************)
(* The event side of the streams of one StreamsGroup and what reaches the *)
(* call session through its listener: MS2Stream::handleEvents (TMMBR       *)
(* forwarding, encryption-changed propagation, the per-kind handler's ZRTP *)
(* start), MS2Stream::stop (reporting, final drain), the group's           *)
(* zrtpStarted / propagateEncryptionChanged, and the SAS calls             *)
(* authTokenReady / setAuthTokenVerified (streams.cpp, streams-group.cpp). *)
(*                                                                         *)
(* The streams have been rendered and are Running; the media engine        *)
(* completes their key exchanges and queues RTCP and encryption events.    *)
(* A handler runs to completion on the core thread, so every drain of a    *)
(* queue, and StreamsGroup::stop with the drains of all its streams, is    *)
(* one step.                                                               *)
(***************************************************************************)
EXTENDS Integers, Sequences, FiniteSets

CONSTANTS
  Kinds,        \* Kinds[i]: SalStreamType of the stream at index i
  KeyExchange,  \* the call's media encryption: "zrtp" or "dtls"
  HasListener,  \* getMediaSessionPrivate().getCallSessionListener() is set
  MaxEvents,    \* bound on the length of a stream's oRTP event queue
  MaxTmmbr,     \* TMMBR requests the peer sends on one stream
  Ratings       \* media_stream_get_average_quality_rating: -1 (none) or 0..5

ASSUME KeyExchange \in {"zrtp", "dtls"} /\ HasListener \in BOOLEAN
ASSUME Ratings \subseteq -1 .. 5
ASSUME \A i \in DOMAIN Kinds : Kinds[i] \in {"audio", "video", "text"}

Idx == DOMAIN Kinds
\* oRTP events: an RTCP packet carrying a TMMBR, ZRTP/DTLS encryption changed.
Events == {"tmmbr", "zrtp", "dtls"}

VARIABLES
  streams,      \* per stream: state, key-exchange progress, event queue
  view,         \* what the last propagateEncryptionChanged told the session
  fwd,          \* fwd[i]: TMMBR requests forwarded to onTmmbrReceived
  received,     \* received[i]: TMMBR requests the peer sent on stream i
  reports,      \* <<i, statsType>> passed to onUpdateMediaInfoForReporting
  rtcpReports,  \* rtcpReports[i]: onRtcpUpdateForReporting calls for stream i
  fault,        \* "nullListener" once a null listener is dereferenced
  tokenReady,   \* authTokenReady has been called
  sasVerified,  \* mAuthTokenVerified of the group
  ctxVerified,  \* the SAS-verified flag of the ZRTP context (its cache)
  logQ,         \* the call log's quality as num / 5^exp; num = -1: unset
  rated         \* rated[i]: the rating stream i had when it was stopped

vars == <<streams, view, fwd, received, reports, rtcpReports, fault,
          tokenReady, sasVerified, ctxVerified, logQ, rated>>

-----------------------------------------------------------------------------
(* Stream::isMain: the first stream of its kind. *)
IsMain(i) == ~\E j \in Idx : j < i /\ Kinds[j] = Kinds[i]
IsMainAudio(i) == Kinds[i] = "audio" /\ IsMain(i)

\* StreamsGroup::lookupMainStream(SalAudio).
MainAudio == {i \in Idx : IsMainAudio(i)}

\* StreamsGroup::allStreamsEncrypted over the stream vector s.
AllStreamsEncrypted(s) ==
  /\ \E i \in Idx : s[i].state = "Running"
  /\ \A i \in Idx : s[i].state = "Running" => s[i].enc = "secured"

\* propagateEncryptionChanged: the session recomputes and notifies the
\* encryption status of the group g.
Propagate(g) == [g EXCEPT !.view = AllStreamsEncrypted(g.s)]

\* StreamsGroup::zrtpStarted(main): every other stream starts ZRTP in
\* multistream mode with the main stream's secret, then one propagation.
ZrtpStarted(g, m) ==
  LET s1 == [k \in Idx |-> IF k # m /\ g.s[k].enc = "none"
                             THEN [g.s[k] EXCEPT !.enc = "pending"] ELSE g.s[k]]
  IN  Propagate([g EXCEPT !.s = s1])

\* Mutant of EncChangedPropagates: the !isMain() alternative is dropped.
EncChangedPropagatesNonAudio(i) == Kinds[i] # "audio"
\* The generic switch of handleEvents: an encryption change on stream i is
\* propagated unless i is the main audio stream.
EncChangedPropagates(i) == Kinds[i] # "audio" \/ ~IsMain(i)

\* The RTCP scan of handleEvents over the packet the event still owns (pkt):
\* a TMMBR is passed to the listener, which is dereferenced unchecked.
ScanTmmbr(g, i, pkt) ==
  IF ~pkt THEN g
  ELSE IF HasListener THEN [g EXCEPT !.fwd[i] = @ + 1]
  ELSE [g EXCEPT !.fault = "nullListener"]

\* linphone_call_stats_fill, which takes the RTCP packet over from the event
\* and marks the stats RECEIVED_RTCP_UPDATE, then notifyStatsUpdated: with a
\* listener, onRtcpUpdateForReporting and onStatsUpdated; the flag is reset.
FillAndNotify(g, i, ev) ==
  IF ev = "tmmbr" /\ HasListener THEN [g EXCEPT !.rtcpReports[i] = @ + 1] ELSE g

\* The generic switch and the per-kind handleEvent, where the main audio
\* stream's ZRTP change calls zrtpStarted.
DispatchEvent(g, i, ev) ==
  LET g1 == IF ev \in {"zrtp", "dtls"} /\ EncChangedPropagates(i)
              THEN Propagate(g) ELSE g
  IN  IF ev = "zrtp" /\ IsMainAudio(i) THEN ZrtpStarted(g1, i) ELSE g1

\* Mutant of HandleEvent: the stats are filled before the RTCP scan, which
\* then finds no packet.
HandleEventFillFirst(g, i, ev) ==
  DispatchEvent(ScanTmmbr(FillAndNotify(g, i, ev), i, FALSE), i, ev)
\* One event ev of stream i, in the order of the loop body: the RTCP scan
\* ("MUST be done before any call to linphone_call_stats_fill"), the stats
\* fill and notification, the generic switch, the per-kind handler.
HandleEvent(g, i, ev) ==
  DispatchEvent(FillAndNotify(ScanTmmbr(g, i, ev = "tmmbr"), i, ev), i, ev)

\* The while loop of handleEvents: the queue is re-read at every iteration.
RECURSIVE DrainFrom(_, _)
DrainFrom(g, i) ==
  IF g.s[i].evq = <<>> \/ g.fault # "none" THEN g
  ELSE DrainFrom(HandleEvent([g EXCEPT !.s[i].evq = Tail(@)], i,
                             Head(g.s[i].evq)), i)

\* The statsType MS2Stream::stop passes on for reporting: it computes one
\* per kind, then passes LINPHONE_CALL_STATS_AUDIO whatever the kind.
ReportedStatsType(k) == "audio"

\* Mutant of UpdateStats: the rating is multiplied in without the /5 scale.
UpdateStatsNoScale(g, i, q) ==
  LET g1 == [g EXCEPT !.rated[i] = q]
  IN  IF q < 0 THEN g1
      ELSE IF g.logQ.num = -1 THEN [g1 EXCEPT !.logQ = [num |-> q, exp |-> 0]]
      ELSE [g1 EXCEPT !.logQ.num = @ * q]
\* MS2Stream::updateStats with the stream's average quality rating q: a
\* rated stream sets the unset call-log quality, else multiplies it by q/5.
UpdateStats(g, i, q) ==
  LET g1 == [g EXCEPT !.rated[i] = q]
  IN  IF q < 0 THEN g1
      ELSE IF g.logQ.num = -1 THEN [g1 EXCEPT !.logQ = [num |-> q, exp |-> 0]]
      ELSE [g1 EXCEPT !.logQ = [num |-> @.num * q, exp |-> @.exp + 1]]

\* MS2Stream::stop on stream i, whose rating is q: report to the listener,
\* updateStats, drain the queue, destroy the pump timer, Stream::stop.
StopStream(g, i, q) ==
  LET g1 == IF HasListener
              THEN [g EXCEPT !.reports = @ \cup {<<i, ReportedStatsType(Kinds[i])>>}]
              ELSE g
      g2 == DrainFrom(UpdateStats(g1, i, q), i)
  IN  [g2 EXCEPT !.s[i].state = "Stopped"]

\* The loop of StreamsGroup::stop from index k; q[i] is the rating of i.
RECURSIVE StopFrom(_, _, _)
StopFrom(g, k, q) ==
  IF k > Len(Kinds) THEN g
  ELSE StopFrom(IF g.s[k].state # "Stopped" THEN StopStream(g, k, q[k]) ELSE g,
                k + 1, q)

Group == [s |-> streams, view |-> view, fwd |-> fwd, reports |-> reports,
          rtcpReports |-> rtcpReports, fault |-> fault, logQ |-> logQ,
          rated |-> rated]
Apply(g) ==
  /\ streams' = g.s /\ view' = g.view /\ fwd' = g.fwd
  /\ reports' = g.reports /\ rtcpReports' = g.rtcpReports /\ fault' = g.fault
  /\ logQ' = g.logQ /\ rated' = g.rated

-----------------------------------------------------------------------------
Init ==
  /\ streams = [i \in Idx |->
       [state |-> "Running", evq |-> <<>>,
        enc |-> IF KeyExchange = "dtls" \/ IsMainAudio(i) THEN "pending" ELSE "none"]]
  /\ view = FALSE
  /\ fwd = [i \in Idx |-> 0] /\ received = [i \in Idx |-> 0]
  /\ reports = {} /\ rtcpReports = [i \in Idx |-> 0] /\ fault = "none"
  /\ tokenReady = FALSE /\ sasVerified = FALSE /\ ctxVerified \in BOOLEAN
  /\ logQ = [num |-> -1, exp |-> 0] /\ rated = [i \in Idx |-> -1]

Ok == fault = "none"
Room(i) == streams[i].state = "Running" /\ Len(streams[i].evq) < MaxEvents

\* The media engine completes the key exchange of stream i.
SecureStream(i) ==
  /\ Ok /\ Room(i) /\ streams[i].enc = "pending"
  /\ streams' = [streams EXCEPT ![i].enc = "secured",
                                ![i].evq = Append(@, KeyExchange)]
  /\ UNCHANGED <<view, fwd, received, reports, rtcpReports, fault, tokenReady, sasVerified, ctxVerified,
                 logQ, rated>>

\* The peer sends an RTCP TMMBR on stream i.
ReceiveTmmbr(i) ==
  /\ Ok /\ Room(i) /\ received[i] < MaxTmmbr
  /\ streams' = [streams EXCEPT ![i].evq = Append(@, "tmmbr")]
  /\ received' = [received EXCEPT ![i] = @ + 1]
  /\ UNCHANGED <<view, fwd, reports, rtcpReports, fault, tokenReady, sasVerified, ctxVerified,
                 logQ, rated>>

\* The pump timer of running stream i fires: MS2Stream::handleEvents.
HandleEvents(i) ==
  /\ Ok /\ streams[i].state = "Running" /\ streams[i].evq # <<>>
  /\ Apply(DrainFrom(Group, i))
  /\ UNCHANGED <<received, tokenReady, sasVerified, ctxVerified>>

\* StreamsGroup::stop; the media engine has rated each stream.
StopAll ==
  /\ Ok /\ \E i \in Idx : streams[i].state # "Stopped"
  /\ \E q \in [Idx -> Ratings] : Apply(StopFrom(Group, 1, q))
  /\ UNCHANGED <<received, tokenReady, sasVerified, ctxVerified>>

\* The SAS of the main audio stream's ZRTP session is ready:
\* authTokenReady(token, verified) with the context's cached flag.
AuthTokenReady ==
  /\ Ok /\ KeyExchange = "zrtp" /\ ~tokenReady
  /\ \E m \in MainAudio : streams[m].enc = "secured"
  /\ tokenReady' = TRUE /\ sasVerified' = ctxVerified
  /\ UNCHANGED <<streams, view, fwd, received, reports, rtcpReports, fault, ctxVerified, logQ, rated>>

\* setAuthTokenVerified applies only with a running main audio stream that
\* has a ZRTP context.
SasApplies ==
  /\ \E m \in MainAudio : streams[m].state = "Running"
  /\ KeyExchange = "zrtp"

\* Mutant of SetAuthTokenVerified: mAuthTokenVerified set before the checks.
SetAuthTokenVerifiedEarly(v) ==
  /\ Ok
  /\ sasVerified' = v
  /\ ctxVerified' = IF SasApplies THEN v ELSE ctxVerified
  /\ UNCHANGED <<streams, view, fwd, received, reports, rtcpReports, fault, tokenReady, logQ, rated>>
\* The user confirms (v) or rejects the SAS: StreamsGroup::setAuthTokenVerified.
SetAuthTokenVerified(v) ==
  /\ Ok
  /\ IF SasApplies THEN ctxVerified' = v /\ sasVerified' = v
     ELSE UNCHANGED <<ctxVerified, sasVerified>>
  /\ UNCHANGED <<streams, view, fwd, received, reports, rtcpReports, fault, tokenReady, logQ, rated>>

Next ==
  \/ \E i \in Idx : SecureStream(i) \/ ReceiveTmmbr(i) \/ HandleEvents(i)
  \/ StopAll \/ AuthTokenReady
  \/ \E v \in BOOLEAN : SetAuthTokenVerified(v)

\* Pump timers fire while the core iterates, and the media engine completes
\* the key exchanges it has started.
Fairness ==
  \A i \in Idx : WF_vars(HandleEvents(i)) /\ WF_vars(SecureStream(i))

Spec == Init /\ [][Next]_vars /\ Fairness

-----------------------------------------------------------------------------
(* Properties *)

Tmmbrs(q) == Cardinality({k \in DOMAIN q : q[k] = "tmmbr"})

\* Spec 4.4 event pump and 4.2 stop ("flushes pending async events"): every
\* RTCP TMMBR the peer sent is either still queued or was both forwarded to
\* onTmmbrReceived and reported for quality reporting exactly once (the scan
\* reads the packet before the stats fill takes it over), and a stopped
\* stream has no queued event left, whether the queue was drained by the
\* pump timer or by the drain inside MS2Stream::stop.
TmmbrNeverLost ==
  \A i \in Idx :
    /\ fwd[i] + Tmmbrs(streams[i].evq) = received[i]
    /\ rtcpReports[i] = fwd[i]
    /\ streams[i].state = "Stopped" => streams[i].evq = <<>>

\* The call log's quality, folded by MS2Stream::updateStats as the streams
\* are stopped in the loop of StreamsGroup::stop: it stays unset while no
\* stopped stream was rated, never rates the call better than its worst
\* rated stream (each later rating scales it by rating/5), and is 0 exactly
\* when some stopped stream was rated 0.
CallLogQualityWithinRatings ==
  LET R == {i \in Idx : rated[i] >= 0} IN
  /\ (logQ.num = -1) <=> (R = {})
  /\ \A i \in R : logQ.num <= rated[i] * 5 ^ logQ.exp
  /\ (logQ.num = 0) <=> (\E i \in R : rated[i] = 0)

\* Spec 4.4 ZRTP propagation and event pump: once every stream runs
\* secured, the session is eventually told that the call is encrypted,
\* through zrtpStarted or the encryption-changed events of the other streams,
\* unless the group is stopped first.
EncryptionEventuallyNotified ==
  (\A i \in Idx : streams[i].state = "Running" /\ streams[i].enc = "secured")
    ~> (view \/ \A i \in Idx : streams[i].state = "Stopped")

\* Spec 3 (auth token and its verification flag): once the SAS is known, the
\* group's verified flag is the one of the ZRTP context; a verification the
\* code refuses (no running main audio stream, no ZRTP context) changes
\* neither.
AuthTokenVerifiedMatchesZrtpCache == tokenReady => sasVerified = ctxVerified

\* The TMMBR branch of handleEvents dereferences the call session listener,
\* which stop() and notifyStatsUpdated test for null: no dereference of a
\* null listener.
NoNullListenerDeref == fault = "none"
=============================================================================
