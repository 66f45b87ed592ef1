--------------------------- MODULE BandwidthPolicy ---------------------------
(***************************************************************************)
(* Bandwidth allocation and RTP profile construction of the streams of one *)
(* call: MS2Stream::getIdealAudioBandwidth and MS2Stream::makeProfile      *)
(* (streams.cpp), StreamsGroup::updateAllocatedAudioBandwidth and          *)
(* StreamsGroup::getVideoBandwidth (streams-group.cpp), and the adaptive   *)
(* rate control MS2Stream::render sets up (configureAdaptiveRateControl).  *)
(*                                                                         *)
(* Each offer/answer round renders the streams in m-line order; the render *)
(* of an audio or video stream builds its profile with makeProfile.  The   *)
(* audio profile stores the selected codec's bandwidth in the group        *)
(* (mAudioBandwidth), which the video stream's budget is computed from.    *)
(* The PayloadTypeHandler helpers are not under src/ and are written from  *)
(* the specification's bandwidth table; a bandwidth <= 0 means unlimited.  *)
(***************************************************************************)
EXTENDS Integers, Sequences, FiniteSets

CONSTANTS
  Kinds,        \* Kinds[i]: SalStreamType of m-line i
  AudioDescs,   \* negotiated audio stream descriptions a round may carry
  VideoDescs,   \* negotiated video stream descriptions a round may carry
  SessionBws,   \* session-level b=AS values (md->bandwidth)
  CallParams,   \* [upBw, upPtime] of the call parameters
  CoreUpload,   \* linphone_core_get_upload_bandwidth
  CorePtime,    \* linphone_core_get_upload_ptime
  RateControl,  \* linphone_core_adaptive_rate_control_enabled
  RateAlgo,     \* linphone_core_get_adaptive_rate_algorithm
  MaxRounds     \* offer/answer rounds

ASSUME \A i \in DOMAIN Kinds : Kinds[i] \in {"audio", "video"}

Idx == DOMAIN Kinds
HasVideo == \E i \in Idx : Kinds[i] = "video"
None == [usedPt |-> -2]

VARIABLES
  audioBw,   \* mAudioBandwidth of the StreamsGroup
  round,     \* the round last rendered: md bandwidth, descriptions, params
  profiles,  \* profiles[i]: what makeProfile produced for m-line i
  rounds,    \* rounds rendered
  rc         \* rc[i]: stream i is in the core's bandwidth controller (ctrl),
             \* its own adaptive bitrate control is on (abc)

vars == <<audioBw, round, profiles, rounds, rc>>

-----------------------------------------------------------------------------
(* PayloadTypeHandler, from the specification *)
Unlimited(b) == b <= 0
MinBandwidth(a, b) ==
  CASE Unlimited(a) -> b [] Unlimited(b) -> a [] a <= b -> a [] OTHER -> b
BandwidthIsGreater(a, b) == Unlimited(a) \/ a > b
RemainingBandwidthForVideo(total, audio) == IF Unlimited(total) THEN 0 ELSE total - audio
\* getAudioPayloadTypeBandwidth: the bandwidth the codec needs.
AudioPayloadTypeBandwidth(pt, maxbw) == pt.bw

-----------------------------------------------------------------------------
(* The code *)

\* The remote b=AS: per stream, else session-wide.
RemoteBandwidth(mdBw, d) == CASE d.bw > 0 -> d.bw [] mdBw > 0 -> mdBw [] OTHER -> 0

\* MS2Stream::getIdealAudioBandwidth.
GetIdealAudioBandwidth(mdBw, d, p) ==
  LET forced == p.upBw > 0
      up == MinBandwidth(IF forced THEN p.upBw ELSE CoreUpload, RemoteBandwidth(mdBw, d))
  IN  CASE ~HasVideo \/ forced -> up
        [] BandwidthIsGreater(up, 512) -> 100
        [] BandwidthIsGreater(up, 256) -> 64
        [] BandwidthIsGreater(up, 128) -> 40
        [] BandwidthIsGreater(up, 0) -> 24
        [] OTHER -> up

\* Mutant of GetVideoBandwidth: the audio allocation is not deducted.
GetVideoBandwidthNoAudio(mdBw, d, abw) ==
  LET remote == CASE d.bw > 0 -> d.bw [] mdBw > 0 -> mdBw [] OTHER -> 0
  IN  MinBandwidth(CoreUpload, remote)
\* StreamsGroup::getVideoBandwidth with mAudioBandwidth = abw.
GetVideoBandwidth(mdBw, d, abw) ==
  LET remote == CASE d.bw > 0 -> d.bw
                  [] mdBw > 0 -> RemainingBandwidthForVideo(mdBw, abw)
                  [] OTHER -> 0
  IN  MinBandwidth(RemainingBandwidthForVideo(CoreUpload, abw), remote)

\* StreamsGroup::updateAllocatedAudioBandwidth: the result is both returned
\* and stored in mAudioBandwidth (field abw of the loop state).
UpdateAllocatedAudioBandwidth(pt, maxbw) == AudioPayloadTypeBandwidth(pt, maxbw)

\* The upload ptime of the selected audio codec: call parameter, else core.
UpPtime(p) == IF p.upPtime # 0 THEN p.upPtime ELSE CorePtime

\* The payload loop of makeProfile from position k; a carries the locals
\* first, usedPt, bandwidth, the group's mAudioBandwidth and the profile.
RECURSIVE ProfileFrom(_, _, _, _)
\* Mutant of ProfileFrom: a duplicate payload number replaces the first one.
RECURSIVE ProfileFromLastWins(_, _, _, _)
ProfileFromLastWins(d, p, k, a) ==
  IF k > Len(d.payloads) THEN a ELSE
  LET pt == d.payloads[k]
      sel == pt.send /\ a.first /\ d.type = "audio"
      bw == IF sel THEN UpdateAllocatedAudioBandwidth(pt, a.bw) ELSE a.bw
      up == IF d.ptime > 0 THEN d.ptime ELSE IF sel THEN UpPtime(p) ELSE 0
      e == [pt |-> pt, bitrate |-> IF pt.ovr > 0 THEN MinBandwidth(pt.ovr, bw) ELSE bw,
            ptime |-> up, maxptime |-> d.maxptime]
  IN  ProfileFromLastWins(d, p, k + 1,
        [first |-> a.first /\ ~pt.send,
         usedPt |-> IF a.usedPt = -1 /\ ~pt.tel THEN pt.num ELSE a.usedPt,
         bw |-> bw, abw |-> IF sel THEN bw ELSE a.abw, bw0 |-> a.bw0,
         entries |-> {x \in a.entries : x.pt.num # pt.num} \cup {e}])
ProfileFrom(d, p, k, a) ==
  IF k > Len(d.payloads) THEN a ELSE
  LET pt == d.payloads[k]
      sel == pt.send /\ a.first /\ d.type = "audio"
      bw == IF sel THEN UpdateAllocatedAudioBandwidth(pt, a.bw) ELSE a.bw
      up == IF d.ptime > 0 THEN d.ptime ELSE IF sel THEN UpPtime(p) ELSE 0
      e == [pt |-> pt, bitrate |-> IF pt.ovr > 0 THEN MinBandwidth(pt.ovr, bw) ELSE bw,
            ptime |-> up, maxptime |-> d.maxptime]
  IN  ProfileFrom(d, p, k + 1,
        [first |-> a.first /\ ~pt.send,
         usedPt |-> IF a.usedPt = -1 /\ ~pt.tel THEN pt.num ELSE a.usedPt,
         bw |-> bw, abw |-> IF sel THEN bw ELSE a.abw, bw0 |-> a.bw0,
         entries |-> IF \E x \in a.entries : x.pt.num = pt.num
                       THEN a.entries ELSE a.entries \cup {e}])

\* MS2Stream::makeProfile for description d, with mAudioBandwidth = abw.
MakeProfile(mdBw, d, p, abw) ==
  LET bw0 == IF d.type = "audio" THEN GetIdealAudioBandwidth(mdBw, d, p)
             ELSE GetVideoBandwidth(mdBw, d, abw)
  IN  ProfileFrom(d, p, 1, [first |-> TRUE, usedPt |-> -1, bw |-> bw0,
                            abw |-> abw, bw0 |-> bw0, entries |-> {}])

\* The result description has a video stream that will be used: the best
\* video stream is not inactive and has payloads.
VideoWillBeUsed(ds) ==
  \E i \in Idx : Kinds[i] = "video" /\ ds[i].dir # "inactive" /\ ds[i].payloads # <<>>

\* Mutant of ConfigureAdaptiveRateControl: advanced mode without TMMBR.
ConfigureAdaptiveRateControlNoTmmbr(i, ds, r) ==
  CASE ~RateControl -> [r EXCEPT !.abc = FALSE]
    [] RateAlgo # "basic" -> [r EXCEPT !.ctrl = TRUE, !.abc = FALSE]
    [] OTHER -> [r EXCEPT !.abc = ~(Kinds[i] = "audio" /\ VideoWillBeUsed(ds))]
\* MS2Stream::configureAdaptiveRateControl on stream i with the state r of
\* its media stream: advanced (the core's bandwidth controller) needs TMMBR
\* in the result, else the simple QoS analyzer, which the audio stream does
\* not run when video is used.  Only stop() takes a stream out of the
\* controller.
ConfigureAdaptiveRateControl(i, ds, r) ==
  CASE ~RateControl -> [r EXCEPT !.abc = FALSE]
    [] RateAlgo # "basic" /\ ds[i].tmmbr -> [r EXCEPT !.ctrl = TRUE, !.abc = FALSE]
    [] OTHER -> [r EXCEPT !.abc = ~(Kinds[i] = "audio" /\ VideoWillBeUsed(ds))]

\* The render loop of StreamsGroup::render from m-line k: each stream's
\* render builds its profile and sets up its rate control; the group's
\* mAudioBandwidth carries over.
RECURSIVE RenderFrom(_, _, _, _, _, _, _)
RenderFrom(mdBw, ds, p, k, abw, res, rcv) ==
  IF k > Len(Kinds) THEN [abw |-> abw, res |-> res, rc |-> rcv]
  ELSE LET r == MakeProfile(mdBw, ds[k], p, abw)
       IN  RenderFrom(mdBw, ds, p, k + 1, r.abw, [res EXCEPT ![k] = r],
                      [rcv EXCEPT ![k] = ConfigureAdaptiveRateControl(k, ds, @)])

Descs(k) == IF k = "audio" THEN AudioDescs ELSE VideoDescs
\* The descriptions a round may carry, one per m-line of its kind.
RoundDescs == {ds \in [Idx -> AudioDescs \cup VideoDescs] : \A i \in Idx : ds[i] \in Descs(Kinds[i])}

-----------------------------------------------------------------------------
Init ==
  /\ audioBw = 0
  /\ round = [md |-> 0, ds |-> [i \in Idx |-> None], p |-> CHOOSE p \in CallParams : TRUE]
  /\ profiles = [i \in Idx |-> None]
  /\ rc = [i \in Idx |-> [ctrl |-> FALSE, abc |-> FALSE]]
  /\ rounds = 0

\* An offer/answer round is rendered with a session bandwidth, one
\* description per m-line and the call parameters.
Render ==
  /\ rounds < MaxRounds
  /\ \E mdBw \in SessionBws, ds \in RoundDescs, p \in CallParams :
       LET out == RenderFrom(mdBw, ds, p, 1, audioBw, [i \in Idx |-> None], rc)
       IN  /\ audioBw' = out.abw
           /\ profiles' = out.res
           /\ rc' = out.rc
           /\ round' = [md |-> mdBw, ds |-> ds, p |-> p]
  /\ rounds' = rounds + 1

Next == Render

Spec == Init /\ [][Next]_vars

-----------------------------------------------------------------------------
(* Properties: the specification's rules (spec 4.3) *)

Rendered == rounds > 0
AudioIdx == {i \in Idx : Kinds[i] = "audio"}
VideoIdx == {i \in Idx : Kinds[i] = "video"}

\* The first codec flagged "can send", if any.
Selected(d) == {k \in 1 .. Len(d.payloads) :
                  d.payloads[k].send /\ \A j \in 1 .. k - 1 : ~d.payloads[j].send}

\* The audio allocation of the current round: the selected audio codec's.
RoundAudioAlloc ==
  LET sel == UNION {{round.ds[i].payloads[k].bw : k \in Selected(round.ds[i])} : i \in AudioIdx}
  IN  IF sel = {} THEN 0 ELSE CHOOSE b \in sel : TRUE

\* Spec 4.3 video: the budget remaining after this round's audio
\* allocation, capped by the remote per-stream or session bandwidth.  The
\* video stream is rendered in m-line order, so this depends on where the
\* audio m-line is.
VideoBandwidthUsesThisRoundsAudio ==
  Rendered =>
    \A i \in VideoIdx :
      LET d == round.ds[i]
          remote == CASE d.bw > 0 -> d.bw
                      [] round.md > 0 -> round.md - RoundAudioAlloc
                      [] OTHER -> 0
      IN  profiles[i].bw0 = MinBandwidth(CoreUpload - RoundAudioAlloc, remote)

\* The packetization time spec 4.3 gives entry e of description d: the
\* negotiated ptime, else for the selected audio codec the send-side
\* ptime of the call or of the core.
SpecPtime(d, p, e) ==
  CASE d.ptime > 0 -> d.ptime
    [] d.type = "audio" /\ \E k \in Selected(d) : d.payloads[k] = e.pt ->
         IF p.upPtime # 0 THEN p.upPtime ELSE CorePtime
    [] OTHER -> 0

\* Spec 4.3 payload/profile construction: the chosen payload number is the
\* first one that is not telephone-event; every payload number is in the
\* profile once, registered by its first occurrence, with the negotiated
\* maxptime and the ptime above; the selected audio codec's bandwidth
\* becomes the group's audio allocation.
ProfileMatchesSpec ==
  Rendered =>
    /\ \A i \in Idx :
         LET d == round.ds[i]  r == profiles[i]
             nonTel == {k \in 1 .. Len(d.payloads) : ~d.payloads[k].tel}
         IN  /\ r.usedPt = IF nonTel = {} THEN -1
                           ELSE d.payloads[CHOOSE k \in nonTel : \A j \in nonTel : k <= j].num
             /\ {e.pt.num : e \in r.entries} = {d.payloads[k].num : k \in 1 .. Len(d.payloads)}
             /\ \A e \in r.entries :
                  \E k \in 1 .. Len(d.payloads) :
                    /\ e.pt = d.payloads[k]
                    /\ \A j \in 1 .. k - 1 : d.payloads[j].num # e.pt.num
                    /\ e.maxptime = d.maxptime
                    /\ e.ptime = SpecPtime(d, round.p, e)
    /\ \A i \in AudioIdx : Selected(round.ds[i]) # {} => audioBw = RoundAudioAlloc

\* Spec 4.3 video row: adaptive bitrate control runs in "advanced" mode only
\* when the result enables TMMBR, else falls back to "basic", and the audio
\* stream does not adapt once video is in use.
RateControlFollowsSpec ==
  Rendered =>
    \A i \in Idx :
      LET adv == RateControl /\ RateAlgo = "advanced" /\ round.ds[i].tmmbr
          audioWithVideo == Kinds[i] = "audio" /\ VideoWillBeUsed(round.ds)
      IN  /\ adv => rc[i].ctrl /\ ~rc[i].abc
          /\ rc[i].abc => RateControl /\ ~audioWithVideo
          /\ RateControl /\ ~adv /\ ~audioWithVideo => rc[i].abc

\* Spec 4.3 video row (no double adaptation): a stream is never adapted both
\* by the core's bandwidth controller and by its own QoS analyzer, across
\* renegotiations that turn TMMBR off.
NoDoubleAdaptation == \A i \in Idx : ~(rc[i].ctrl /\ rc[i].abc)

=============================================================================
