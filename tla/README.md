# TLA+ models of the linphone stream orchestration layer

This directory holds TLA+ models of the media-session stream layer of
linphone. The sources are `src/src/conference/session/streams-group.cpp` and
`streams.cpp`. Every definition is translated from those files. The
exceptions are code that is not under `src/`, which is modelled from the
specification and marked `spec_modelled` in `PROJECT.json`:

- `IceHasCompleted` (the `IceAgent`);
- `IsMain` (`Stream::isMain`);
- the `PayloadTypeHandler` bandwidth helpers;
- the initial value of `mAudioBandwidth`.

`PROJECT.json` maps each definition to the source lines it models.

## 1. The system

`StreamsGroup` belongs to one call's `MediaSession`. It owns:

- `mStreams`, the streams, one per m-line index. An entry may be a null slot.
- a shared `IceAgent`.
- a one-second bandwidth-report timer (`mBandwidthReportTimer`).
- a list of post-render hooks.
- `mCurrentOfferAnswerState`, a copy of the last rendered offer/answer context.
- `mAudioBandwidth`, the audio allocation that the video budget is computed
  from.
- the SAS (`mAuthToken`, `mAuthTokenVerified`).

The signalling layer drives one offer/answer round at a time: `createStreams`,
then `prepare`, then `render`. It may call `stop()` at any point. It calls
`clearStreams()` when the call ends and destroys the group afterwards.

Each `MS2Stream` has its own event-pump timer. `prepare()` creates the timer.
`stop()` drains the stream's oRTP event queue and then destroys the timer.

A drain (`handleEvents`) does the following for each event:

- forwards the TMMBR requests of RTCP packets to the call-session listener;
- propagates encryption changes group-wide, except for the main audio stream;
- hands ICE events to the session;
- lets the per-kind handler react. The main audio stream's ZRTP change calls
  `zrtpStarted`.

`render()` does the following:

- renders the streams in m-line order. Each stream builds its RTP profile
  (`makeProfile`) and sets up its adaptive rate control.
- starts the ICE connectivity checks, or starts DTLS once ICE has completed.

When a stream is constructed, it searches for RTP/RTCP ports that the streams
of **all** calls leave free (`setPortConfig`, `selectFixedPort`,
`selectRandomPort`). It then applies its multicast role (`initMulticast`).

The group answers status queries by looping over `mStreams`:
`allStreamsEncrypted`, `isMuted`, `getActiveStreamsCount`, `isStarted`,
`computeOverallQuality`, `avpfEnabled` and `getAvpfRrInterval`.

All of this runs on the core's single thread. The concurrency is cooperative:
timers fire between the signalling layer's calls, and events arrive at any
time. The models express it as an interleaving of atomic handler steps.

### Inventory

| Part | State | Operations | Module |
|---|---|---|---|
| StreamsGroup | `mStreams`, current context, bandwidth timer, hooks, ICE agent state, DTLS started | ctor, createStreams/createStream, prepare, render, stop, clearStreams, ~StreamsGroup, addPostRenderHook, fillLocalMediaDescription, sessionConfirmed, tryEarlyMediaForking, computeAndReportBandwidth | `StreamsGroup` |
| MS2Stream lifecycle | state, pump timer, event queue, cast it was built for | prepare, render, stop, handleEvents | `StreamsGroup` |
| Event pump and stop | each stream's queue and key-exchange progress, what the listener was told | handleEvents (TMMBR, encryption changed, per-kind ZRTP start), MS2Stream::stop with updateStats (call-log quality), StreamsGroup::stop | `EventPump` |
| ZRTP/SAS | SAS ready, `mAuthTokenVerified`, ZRTP context cache | zrtpStarted, propagateEncryptionChanged, authTokenReady, setAuthTokenVerified | `EventPump` |
| Status and AVPF queries | each stream's state, encryption, mute, rating, AVPF flag, RR interval | allStreamsEncrypted, isMuted, getActiveStreamsCount, isStarted, computeOverallQuality, avpfEnabled, getAvpfRrInterval | `StreamAggregates` |
| Bandwidth, codec and rate control | `mAudioBandwidth`, profiles, bandwidth-controller membership, adaptive bitrate flag | getIdealAudioBandwidth, makeProfile, updateAllocatedAudioBandwidth, getVideoBandwidth, configureAdaptiveRateControl | `BandwidthPolicy` |
| Stream construction and ports | `mPortConfig` of every stream of every call, the ports its RTP session is bound to, its jitter buffer | setPortConfig, selectFixedPort, selectRandomPort, isPortUsed, fillMulticastMediaAddresses, initMulticast, initializeSessions, applyJitterBufferParams | `PortAllocation` |
| Older StreamsGroup copy in `streams.cpp` (lines 53-202) | none | none | not modelled: an earlier snapshot of streams-group.cpp |
| Conference, ConferenceNotifiedEvent, GTK call logs | none | none | not modelled: forwarders, values and UI |

## 2. Modules

- **`StreamsGroup`** models the detailed group.
  - Its variables map to the code as follows:

    | Variable | Code |
    |---|---|
    | `slots` | `mStreams`; a record per stream, or the `NoStream` null slot |
    | `ctx` | the round's `OfferAnswerContext` |
    | `lastCtx` | `mCurrentOfferAnswerState` |
    | `bwTimer` | `mBandwidthReportTimer` |
    | `pumpTimers` | live `mTimer`s |
    | `hooks` | `mPostRenderHooks` |
    | `ice` | the IceAgent's state |
    | `dtls` | `startDtls` has run |
    | `alive` | the group object exists |
    | `fault` | a null slot has been dereferenced, or a timer called into a freed group |

  - Each action is one whole handler: `CreateStreams`, `Prepare`, `Render`,
    `Stop`, `ClearStreams`, `Destroy`, `AddPostRenderHook`,
    `FillLocalMediaDescription`, `SessionConfirmed`, `TryEarlyMediaForking`,
    the bandwidth-report tick `ComputeAndReportBandwidth`, and the pump tick
    `HandleEvents`.
    - The three loops that call a method on every slot without testing it
      share `DerefEverySlot`: an empty slot sets `fault`.
    - The bandwidth tick only logs on a live group. On a destroyed group,
      whose timer `stop()` failed to destroy, it sets `fault` to
      `freedGroup`.
    - `Render` contains the cast-change replacement, the bandwidth timer, the
      hooks, the ICE/DTLS start and the context save.
    - `Stop` drains each stopped stream's queue and destroys its timer.
  - The environment contributes `Offer`, which starts a round, and `Emit`, which
    delivers an oRTP event.

- **`EventPump`** models what the drains do with the events. The streams have
  been rendered and are running.
  - Variables:

    | Variable | What it holds |
    |---|---|
    | `streams` | state, queue and key-exchange progress of each stream |
    | `view` | what the last `propagateEncryptionChanged` told the session |
    | `fwd`, `received` | TMMBRs forwarded to the listener, and TMMBRs the peer sent |
    | `reports` | the `onUpdateMediaInfoForReporting` calls |
    | `rtcpReports` | the `onRtcpUpdateForReporting` calls per stream |
    | `logQ` | the call log's quality, as `num / 5^exp`; `num = -1` is the unset -1.0 |
    | `rated` | the average quality rating each stream had when it was stopped |
    | `fault` | a null listener has been dereferenced |
    | `tokenReady`, `sasVerified` | the SAS and `mAuthTokenVerified` |
    | `ctxVerified` | the ZRTP context's cached verification |

  - Handler actions:
    - `HandleEvents`, the pump tick. It drains the queue with `DrainFrom`, in
      the loop's order: TMMBR scan, generic switch, per-kind handler.
    - `StopAll`, which is `StreamsGroup::stop` with each `MS2Stream::stop`
      (reporting, `UpdateStats`, final drain) as one step. The media engine's
      rating of each stream is chosen from `Ratings`.
    - `AuthTokenReady`.
    - `SetAuthTokenVerified`, with its two early returns.
  - The media engine contributes `SecureStream` (a key exchange completes and
    queues its event) and `ReceiveTmmbr`.
  - `KeyExchange` selects ZRTP or DTLS. Only the ZRTP configuration is
    checked. For DTLS, the notification for the main audio stream depends on
    the per-kind handler, which is not under `src/`.

- **`StreamAggregates`** writes each query loop as a RECURSIVE operator with
  the loop's early returns. The streams' status changes freely, so every
  combination is reached. The quality result is kept as the exact quotient
  `num/den`, so `-1/0` is negative infinity.

- **`BandwidthPolicy`** models one `Render` action per offer/answer round.
  - Each round draws a session bandwidth, one negotiated description per
    m-line and the call parameters.
  - `RenderFrom` walks the m-lines in order. For each stream it calls
    `MakeProfile` and then `ConfigureAdaptiveRateControl`.
  - `MakeProfile` covers the whole payload loop: codec selection,
    `updateAllocatedAudioBandwidth`, ptime/maxptime, bitrate overrides, and
    first-registration-wins.
  - `mAudioBandwidth` (`audioBw`) and the rate-control state (`rc`) carry over
    between rounds, as they do in the code.
  - The `PayloadTypeHandler` helpers follow the specification's table. A
    bandwidth <= 0 means unlimited.

- **`PortAllocation`** holds, for each stream kind of each call:
  - the port configuration (`mPortConfig`);
  - the ports its RTP session is bound to (`sock`);
  - whether it joined its multicast group;
  - the jitter-buffer parameters set on its session.

  Its actions:
  - `CreateStream` and `ReplaceStream` run the whole constructor chain: the
    `Stream` constructor (port search by kind, multicast address), the
    `MS2Stream` constructor (`initMulticast`), then the per-kind constructor
    binding the session and calling `initializeSessions`. That last step
    joins the multicast group, applies the jitter-buffer settings and reads
    back the ports oRTP picked for a -1 request.
  - `ClearStreams` frees a call's ports.

  Details:
  - The old stream of a replacement still holds its ports while the search
    runs.
  - The random draw is a nondeterministic choice among the even offsets the
    code can produce, plus the give-up-after-100-tries result (-1).
  - oRTP's own random choice (`OsBind`, not under `src/`) is any even port of
    `OsPorts` whose pair no session holds.
  - The core's jitter-buffer configuration is read at construction, so each
    construction chooses one of `JbConfigs`.

- **`MCStreamsGroup`, `MCEventPump`, `MCStreamAggregates`, `MCBandwidthPolicy`
  and `MCPortAllocation`** give the constants their values for TLC.

Compositions:

- `StreamsGroup` composes the group with its streams and the ICE agent.
- `EventPump` composes the streams' pumps with the group's ZRTP/SAS state and
  the session listener.
- `BandwidthPolicy` composes the audio and video streams through
  `mAudioBandwidth`.
- `PortAllocation` composes the groups of several calls through the shared
  port search.

## 3. Runs

| Run | Expect | What it shows |
|---|---|---|
| `SG_lifecycle` | pass | Over 2 rounds on 2 m-lines, with stops, clears, destruction, ACKs, answers of other forks, local-description builds, bandwidth ticks and events at any point: pump timers belong only to owned, non-stopped streams (`EventPumpOnlyForActiveStreams`), so no timer is leaked by a replacement, `clearStreams` or the destructor. About 1.3M states, about 1 min. |
| `SG_unpumped_replacement` | violation | After a unicast/multicast change, render() replaces the stream and renders the new one without prepare(), so it runs with no pump timer. |
| `SG_bw_timer_leak` | violation | `stop()` tests `!mBandwidthReportTimer` before destroying it, so the timer outlives the group; its next tick runs `computeAndReportBandwidth` on the freed group. |
| `SG_null_slot` | violation | A SalOther m-line leaves a null slot that `prepare()` dereferences; `render()`, `fillLocalMediaDescription`, `sessionConfirmed` and `tryEarlyMediaForking` dereference it too when a stop came before prepare. |
| `EP_zrtp` | pass | Streams audio, video, audio with ZRTP, under weak fairness of the pump timers and the key exchanges. Every TMMBR is still queued, or was forwarded and reported for quality reporting exactly once, including across the drain inside `stop()` (`TmmbrNeverLost`). The RTCP scan must read the packet before the stats fill takes it over. Once the SAS is known, `mAuthTokenVerified` equals the ZRTP cache, whatever the order of stop and user verification (`AuthTokenVerifiedMatchesZrtpCache`). Once every stream runs secured, the session is eventually told that the call is encrypted, unless the group is stopped (`EncryptionEventuallyNotified`). The call-log quality folded by `updateStats` is unset exactly while no stopped stream was rated, never rates the call above its worst rated stream, and is 0 exactly when some stream was rated 0 (`CallLogQualityWithinRatings`). About 8k states, about 40 s (the liveness check dominates). |
| `EP_null_listener` | violation | A TMMBR drained while the session has no listener dereferences it (streams.cpp:872). `stop()` and `notifyStatsUpdated` test for the null listener; this path does not. |
| `AGG_queries` | pass | For every status of 3 streams, the queries match the specification, the quality is the average of the reported ratings, and `avpfEnabled`/`getAvpfRrInterval` consider the right streams. About 3M states, about 80 s. |
| `BW_profiles` | pass | Audio before video, advanced rate control, 2 rounds. Video gets the budget left by this round's audio codec. Each profile has the right chosen payload number, the first registration of each number, and the spec's ptime/maxptime. The rate-control decision follows the TMMBR and video-in-use rules. About 590k transitions, about 40 s. |
| `BW_video_first` | violation | When the video m-line precedes the audio one, video is budgeted with the previous round's audio allocation (0 in the first round). |
| `BW_double_adaptation` | violation | A stream that joined the core's bandwidth controller in a round with TMMBR stays there when a later round without TMMBR enables its own QoS analyzer. |
| `PA_ports` | pass | Audio (fixed port), video (range) and text (automatic ports) streams, in every multicast role but receiver, are created and replaced in 2 calls, and oRTP's random ports fall among the configured ones. No two RTP sessions are bound to a common port (`NoPortCollision`). This rests on every search seeing every call's streams and on `initializeSessions` reading back the ports oRTP picked. Every session's jitter buffer is enabled exactly when its jittcomp is positive, with the nominal size between its bounds (`JitterBufferWithinBounds`). |
| `PA_multicast_receiver` | violation | The same model with multicast receivers allowed breaks `NoPortCollision`. `initMulticast` overwrites `rtpPort` with 0 where the comment says RTCP is meant (streams.cpp:389), so an audio receiver holds RTCP port 11 while publishing RTP port 0. A second call's port search compares only the RTP candidate 10 with the ports in use (streams.cpp:258-261), finds it free, and binds RTCP 11 again. |

The model also reaches these behaviours, which no run states as properties.
`PROJECT.json` lists them as hazards with a note:

- A stream created in a round that was stopped before render keeps that
  round's cast. The code's TODO at streams-group.cpp:109 says so.
- With no rating reported, the quality is `-1/0`, not the specification's -1.
- `MS2Stream::stop` reports `LINPHONE_CALL_STATS_AUDIO` for every kind
  (streams.cpp:787).

`GetIdealAudioBandwidth` also models that a forced upload bandwidth bypasses
the step table that spec 4.3 applies to a session with video
(streams.cpp:676). The bounded runs keep the forced upload at 0, so no run
reaches it; `PROJECT.json` lists it as a hazard with a note.

Every property of a passing run has a mutant in `PROJECT.json`. The mutant is
a plausible slip in the mapped code, and TLC finds the property violated when
the mutant is used. The mutants are:

| Mapped code | Mutant |
|---|---|
| timer kept in `StopStream` | `StopStreamKeepTimer` |
| `mStreams` resized one slot too far | `NewLenPastIndex` |
| the `activeStreamsCount > 0` test dropped | `EncryptedFromNoCount` |
| the -1 sentinel added to the first rating | `QualityFromNoReset` |
| the Running test of `avpfEnabled` dropped | `AvpfFromAnyState` |
| only the searching call's ports consulted | `PortTakenOwnCall` |
| the random offset may reach the range size | `RandomPortOffsetsWide` |
| ports oRTP picked not read back into `mPortConfig` | `InitializeSessionsNoReadback` |
| `max_size` not raised to the nominal size | `ApplyJitterBufferParamsNoRaise` |
| stats filled before the RTCP scan | `HandleEventFillFirst` |
| the `!isMain()` alternative dropped | `EncChangedPropagatesNonAudio` |
| `mAuthTokenVerified` set before the early returns | `SetAuthTokenVerifiedEarly` |
| the rating multiplied in without the /5 scale | `UpdateStatsNoScale` |
| the audio allocation not deducted from the video budget | `GetVideoBandwidthNoAudio` |
| a duplicate payload number replaces the first | `ProfileFromLastWins` |
| advanced rate control without the TMMBR check | `ConfigureAdaptiveRateControlNoTmmbr` |

### Bounds

- `StreamsGroup`:
  - Two m-lines allow one stream to be replaced while the other is not, and a
    null slot to sit before a real stream.
  - Two rounds are the least that makes a render compare with an earlier
    context.
  - One queued event per stream is enough to reach both drains: by the pump
    and by `stop()`.
  - One hook is enough to exercise the hook clearing.
  - Both casts are in the model.
  - The first round's context is fixed: the offer of each round is chosen
    freely, so fixing the initial value loses nothing.
  - Deadlock checking is off because a destroyed group has no further steps,
    which is the program's real end.
- `EventPump`:
  - Three streams (audio, video, audio). They give a main audio stream, a
    non-main audio stream and a non-audio stream: the three cases of the
    propagation test.
  - Queues of two events and one TMMBR per stream. These let a TMMBR wait
    behind an encryption event, and reach `stop()` with a full queue.
  - Ratings {-1, 0, 4}: an unrated stream, a zero rating and a positive
    one, stopped in either order. 4 * 4 exceeds 4 unless scaled by /5, and
    a fold that kept the last or the largest rating would rate a call with
    a 0 stream above 0.
  - Deadlock checking is off because a stopped group has no further steps.
- `StreamAggregates`:
  - Three streams (audio, video, text) with ratings {-1, 1, 4}. These separate
    the sentinel, the sum and the average.
  - RR intervals {0, 5}. These separate "none" from the maximum.
- `BandwidthPolicy`:
  - Per-stream b=AS of 0, 100, 256 and 600 reach every step of
    `getIdealAudioBandwidth`, 256 on a threshold, so the video budget and the
    profiles are checked after each of them.
  - The three audio payload lists cover:
    - a telephone-event before the codec;
    - a non-sendable codec before the selected one;
    - a duplicate number with an override.
  - The two video lists include a duplicate number with an override.
  - Video may be inactive.
  - TMMBR may be on or off per stream and per round.
  - The call parameters force neither a bandwidth nor a ptime, so the core
    ptime (20) is the selected codec's send ptime unless the description
    sets one.
  - Two rounds let the carried-over `mAudioBandwidth` and rate-control state
    matter.
  - The upload cap of 1000 stays above every audio allocation. The
    negative-budget case depends on `getRemainingBandwidthForVideo`, which is
    not under `src/`.
  - Deadlock checking is off because the rounds are bounded.
- `PortAllocation`:
  - Two calls with three kinds each.
  - The fixed audio port 10 is probed over its 50 candidates.
  - The video range [200, 204] has two even offsets, so replacements and the
    second call exhaust it and force the -1 fallback.
  - Text has no range, so its ports always come from oRTP.
  - `OsPorts` {12, 202} lie among the audio probes and inside the video
    range, so a port oRTP chose is one a later search would otherwise pick.
  - Two jitter configurations: the defaults with video jittcomp off, and an
    unknown algorithm name with an audio jittcomp below the minimum-raising
    and above the maximum.

## 4. Fairness

- **`EventPump`** assumes weak fairness for each stream's `HandleEvents` and
  `SecureStream`.
  - A running stream's pump timer is a core timer. It fires at every core
    iteration (`sEventPollIntervalMs`) for as long as the stream runs.
  - The media engine completes a key exchange it has started.
  - No fairness is assumed for the signalling layer (`StopAll`) or the user
    (`SetAuthTokenVerified`). `EncryptionEventuallyNotified` therefore allows
    the group to be stopped first.
  - Every stream of `EventPump` went through `prepare()`, so each has a pump
    timer and the fairness is justified for it. A stream that `render()`
    created on a cast change has no timer (`SG_unpumped_replacement`); it is
    not in `EventPump`, and no liveness is claimed for it.
- **The other modules** check safety properties only. In `StreamsGroup` the
  signalling layer may stop driving a call at any time.

## 5. What is not modelled, and the plan

- **Not modelled:**
  - A refinement of `StreamsGroup` to the stream state machine of spec 4.2
    (Stopped, Preparing, Running). The replacement stream that `render()`
    creates on a cast change goes from Stopped to Running without Preparing
    (shown by `SG_unpumped_replacement`), so a faithful refinement
    mapping fails on that step; a mapping that hid the step would show
    nothing, and the violation adds nothing that run does not already show.
  - The statistics counters of `updateStats`; only its call-log quality
    fold is modelled. `notifyStatsUpdated` is modelled only for
    the RTCP-update reports.
  - The RTCP-feedback, RTCP-XR and SRTP-key settings of `MS2Stream::render`,
    DSCP, `setupDtlsParams` and `configureRtpSession`'s other settings. They
    configure the media engine without changing state that any property
    reads.
  - The `max_packets` value of the jitter buffer is computed as the code does
    (streams.cpp:501). No property states the comment's intent of 200 packets
    per second. A nominal size above the configured maximum leaves a lower
    packet cap, which is a tuning defect; the call does not fail.
  - `finishEarlyMediaForking` and `refreshSockets`. They forward to
    per-stream methods and to the `forEach` helper, none of which is under
    `src/`, so their effect on a stream is unknown.
  - What each stream does in `sessionConfirmed`, `tryEarlyMediaForking` and
    `fillLocalMediaDescription`. Only the group's loops, with their missing
    null test, are actions.
  - The media engine, which is abstracted to the event queue, the stream state
    and the key-exchange progress.
  - The `Conference` base class (conference.cpp, conference-p.h).
    - `addParticipant`, `removeParticipant` and `setParticipantAdminStatus`
      only log an error, and `join` and `leave` are empty, so
      `addParticipants` and `removeParticipants` change nothing.
    - The participant list is changed only by subclasses, which are not
      under `src/`.
    - What remains is getters, `setSubject`, and call-session callbacks,
      each forwarded to the `CallListener` after a null test.
    - No state of its own evolves, so there is nothing for TLC to check.
  - `ConferenceNotifiedEvent`, an immutable value with a notify id.
  - The GTK call-log window, which only presents data.
- **Planned for later sittings:**
  - Re-entrant stream re-creation from inside `handleEvents`.
  - A composition of `PortAllocation` with `StreamsGroup` replacement.
  - The DTLS configuration of `EventPump`.
