---------------------------- MODULE StreamsGroup ----------------------------
(***************************************************************************)
(* The StreamsGroup of one call session (src/src/conference/session/      *)
(* streams-group.cpp) together with the lifecycle of the MS2Stream objects *)
(* it owns (src/src/conference/session/streams.cpp).                       *)
(*                                                                         *)
(* The signaling layer drives one offer/answer round at a time:            *)
(* createStreams, prepare, render; it may stop the group at any moment,    *)
(* clear it at call termination and destroy it.  Each prepared stream has  *)
(* an event-pump timer that drains the stream's oRTP event queue; the      *)
(* group owns a one-second bandwidth-report timer and the shared ICE       *)
(* agent.  Ports, codecs and bandwidth are abstracted away here (see       *)
(* PortAllocation); a stream keeps its kind, the cast it was built for,    *)
(* its state, whether its pump timer exists, and its event queue.          *)
(***************************************************************************)
EXTENDS Integers, Sequences, SequencesExt

CONSTANTS
  Lines,      \* number of m-lines in every local session description
  Types,      \* SalStreamType values the offers may carry
  Casts,      \* network cast of a stream description (unicast/multicast)
  MaxRounds,  \* offer/answer rounds driven by the signaling layer
  MaxEvents,  \* bound on the length of one stream's oRTP event queue
  MaxHooks,   \* bound on pending post-render hooks
  NoStream,   \* an empty (nullptr) slot of mStreams
  NoContext   \* mCurrentOfferAnswerState before the first render / after clear

Audio == "audio"
Video == "video"
Text  == "text"
Other == "other"

ASSUME Lines \in Nat \ {0}
ASSUME Types \subseteq {Audio, Video, Text, Other}
ASSUME Casts \subseteq {"unicast", "multicast"} /\ Casts # {}
ASSUME MaxRounds \in Nat /\ MaxEvents \in Nat /\ MaxHooks \in Nat

StreamStates == {"Stopped", "Preparing", "Running"}
Events == {"rtcp", "iceFinished"}
\* IceAgent: "off" (no ICE session), "pending" (session created, checks not
\* started), "checking" (connectivity checks running), "completed".
IceStates == {"off", "pending", "checking", "completed"}
Phases == {"idle", "offered", "created", "prepared", "cleared"}

Indices == 0 .. Lines - 1
\* One stream description of an OfferAnswerContext scoped to an index: the
\* local stream type and the cast of the local and of the result description.
StreamDescs == [type : Types, lcast : Casts, rcast : Casts]
Contexts == [Indices -> StreamDescs]

Streams == [type : Types \ {Other}, cast : Casts \X Casts,
            state : StreamStates, timer : BOOLEAN,
            evq : UNION {[1 .. n -> Events] : n \in 0 .. MaxEvents}]

VARIABLES
  slots,       \* mStreams: position p holds the stream of index p-1
  ctx,         \* the OfferAnswerContext of the current round
  lastCtx,     \* mCurrentOfferAnswerState
  phase,       \* where the signaling layer is in the current round
  rounds,      \* offer/answer rounds started so far
  bwTimer,     \* mBandwidthReportTimer is set
  pumpTimers,  \* event-pump timers created by MS2Stream::prepare, not destroyed
  hooks,       \* number of entries of mPostRenderHooks
  ice,         \* state of the shared IceAgent
  dtls,        \* startDtls has been run on the streams
  alive,       \* the StreamsGroup object exists
  fault        \* "nullStream" once an empty slot is dereferenced,
               \* "freedGroup" once a timer calls into a destroyed group

vars == <<slots, ctx, lastCtx, phase, rounds, bwTimer, pumpTimers, hooks,
          ice, dtls, alive, fault>>

-----------------------------------------------------------------------------
(* Helpers *)

SlotIdx == 1 .. Len(slots)
HasEmptySlot == \E p \in SlotIdx : slots[p] = NoStream
CastOf(c, i) == <<c[i].lcast, c[i].rcast>>
IceHasCompleted(st) == st \in {"off", "completed"}

\* A freshly constructed stream for index i of the current context.
Fresh(i) == [type |-> ctx[i].type, cast |-> CastOf(ctx, i),
             state |-> "Stopped", timer |-> FALSE, evq |-> <<>>]

\* The ICE agent after the session has handled the ICE events of queue q.
AfterEvents(q, st) ==
  IF "iceFinished" \in ToSet(q) /\ st = "checking" THEN "completed" ELSE st

\* Mutant of StopStream: the pump timer is not destroyed.
StopStreamKeepTimer(s) == [s EXCEPT !.state = "Stopped", !.evq = <<>>]
\* MS2Stream::stop on stream s: drain the queue (handleEvents), destroy the
\* pump timer, Stream::stop.
StopStream(s) == [s EXCEPT !.state = "Stopped", !.timer = FALSE, !.evq = <<>>]

\* The streams StreamsGroup::stop calls MS2Stream::stop on.
Active == {p \in SlotIdx : slots[p] # NoStream /\ slots[p].state # "Stopped"}
\* The ICE agent after MS2Stream::stop has drained the queues of streams P.
IceAfterDrain(P) ==
  IF \E p \in P : "iceFinished" \in ToSet(slots[p].evq) /\ ice = "checking"
    THEN "completed" ELSE ice
TimersOf(P) == Cardinality({p \in P : slots[p].timer})

Ready == alive /\ fault = "none"

\* A loop over mStreams that calls stream->... on every slot, untested.
DerefEverySlot ==
  IF HasEmptySlot THEN fault' = "nullStream" ELSE UNCHANGED fault

-----------------------------------------------------------------------------
(* The signaling layer starts a round with a new OfferAnswerContext. *)
Offer ==
  /\ Ready /\ phase = "idle" /\ rounds < MaxRounds
  /\ \E c \in Contexts : ctx' = c
  /\ rounds' = rounds + 1
  /\ phase' = "offered"
  /\ UNCHANGED <<slots, lastCtx, bwTimer, pumpTimers, hooks, ice, dtls, alive, fault>>

\* createStreams: index i has no stream (beyond the end or an empty slot).
NeedsStream(i) == i >= Len(slots) \/ slots[i + 1] = NoStream
\* createStream returns nullptr, without resizing, for SalOther.
Creatable(i) == ctx[i].type # Other
Created == {i \in Indices : NeedsStream(i) /\ Creatable(i)}
\* Mutant of NewLen: mStreams resized one slot too far.
NewLenPastIndex == Max({Len(slots)} \cup {i + 2 : i \in Created})
NewLen == Max({Len(slots)} \cup {i + 1 : i \in Created})

CreateStreams ==
  /\ Ready /\ phase = "offered"
  /\ slots' = [p \in 1 .. NewLen |->
                 IF p - 1 \in Created THEN Fresh(p - 1)
                 ELSE IF p <= Len(slots) THEN slots[p] ELSE NoStream]
  /\ phase' = "created"
  /\ UNCHANGED <<ctx, lastCtx, rounds, bwTimer, pumpTimers, hooks, ice, dtls, alive, fault>>

\* MS2Stream::prepare: create the event-pump timer, Stream::prepare.
PrepareStream(s) ==
  IF s.state = "Stopped" THEN [s EXCEPT !.state = "Preparing", !.timer = TRUE]
  ELSE s

Prepare ==
  /\ Ready /\ phase = "created"
  /\ phase' = "prepared"
  /\ IF HasEmptySlot
       THEN /\ fault' = "nullStream"
            /\ UNCHANGED <<slots, pumpTimers>>
       ELSE /\ slots' = [p \in SlotIdx |-> PrepareStream(slots[p])]
            /\ pumpTimers' = pumpTimers
                 + Cardinality({p \in SlotIdx : slots[p].state = "Stopped"})
            /\ UNCHANGED fault
  /\ UNCHANGED <<ctx, lastCtx, rounds, bwTimer, hooks, ice, dtls, alive>>

\* scopeStreamToIndexWithDiff: the local or result cast of index i changed
\* since the last rendered context.
CastChanged(i) == lastCtx # NoContext /\ CastOf(lastCtx, i) # CastOf(ctx, i)

\* The stream of position p after the render loop: replaced by a fresh
\* instance on a cast change, then Stream::render.
RenderSlot(p) ==
  LET s == IF CastChanged(p - 1) THEN Fresh(p - 1) ELSE slots[p]
  IN  [s EXCEPT !.state = "Running"]

\* The end of render(): start the connectivity checks while ICE has not
\* completed, else start DTLS, on the ICE agent in state st.
StartIceOrDtls(st) ==
  IF IceHasCompleted(st) THEN ice' = st /\ dtls' = TRUE
  ELSE ice' = "checking" /\ UNCHANGED dtls

Render ==
  /\ Ready /\ phase = "prepared"
  /\ phase' = "idle"
  /\ IF HasEmptySlot \/ \E p \in SlotIdx : CastChanged(p - 1) /\ ~Creatable(p - 1)
       THEN /\ fault' = "nullStream"
            /\ UNCHANGED <<slots, lastCtx, bwTimer, pumpTimers, hooks, ice, dtls>>
       ELSE LET replaced == {p \in SlotIdx : CastChanged(p - 1)}
                ice1 == IceAfterDrain(replaced)
            IN /\ slots' = [p \in SlotIdx |-> RenderSlot(p)]
               /\ pumpTimers' = pumpTimers - TimersOf(replaced)
               /\ bwTimer' = TRUE
               /\ hooks' = 0
               /\ StartIceOrDtls(ice1)
               /\ lastCtx' = ctx
               /\ UNCHANGED fault
  /\ UNCHANGED <<ctx, rounds, alive>>

\* StreamsGroup::stop.  The guard on mBandwidthReportTimer is negated in the
\* code, so an existing timer is never destroyed.
StopAll ==
  /\ slots' = [p \in SlotIdx |-> IF p \in Active THEN StopStream(slots[p]) ELSE slots[p]]
  /\ pumpTimers' = pumpTimers - TimersOf(Active)
  /\ UNCHANGED bwTimer

Stop ==
  /\ Ready /\ phase # "cleared"
  /\ StopAll
  /\ ice' = IceAfterDrain(Active)
  /\ phase' = "idle"
  /\ UNCHANGED <<ctx, lastCtx, rounds, hooks, dtls, alive, fault>>

\* StreamsGroup::clearStreams: stop, delete the ICE session, drop streams.
ClearStreams ==
  /\ Ready /\ phase # "cleared"
  /\ pumpTimers' = pumpTimers - TimersOf(Active)
  /\ UNCHANGED bwTimer
  /\ ice' = "off"
  /\ slots' = <<>>
  /\ lastCtx' = NoContext
  /\ phase' = "cleared"
  /\ UNCHANGED <<ctx, rounds, hooks, dtls, alive, fault>>

\* ~StreamsGroup: stop(), then the members (streams, ICE agent) are freed.
Destroy ==
  /\ Ready
  /\ pumpTimers' = pumpTimers - TimersOf(Active)
  /\ UNCHANGED bwTimer
  /\ slots' = <<>>
  /\ alive' = FALSE
  /\ UNCHANGED <<ctx, lastCtx, phase, rounds, hooks, ice, dtls, fault>>

\* StreamsGroup::fillLocalMediaDescription: the session builds its next
\* local description from the streams it has.
FillLocalMediaDescription ==
  /\ Ready /\ phase = "idle"
  /\ DerefEverySlot
  /\ UNCHANGED <<slots, ctx, lastCtx, phase, rounds, bwTimer, pumpTimers, hooks, ice, dtls, alive>>

\* StreamsGroup::sessionConfirmed: the ACK of a rendered round arrives; every
\* stream is told, scoped to its index in mCurrentOfferAnswerState.
SessionConfirmed ==
  /\ Ready /\ phase = "idle" /\ lastCtx # NoContext
  /\ DerefEverySlot
  /\ UNCHANGED <<slots, ctx, lastCtx, phase, rounds, bwTimer, pumpTimers, hooks, ice, dtls, alive>>

\* StreamsGroup::tryEarlyMediaForking: another fork of the call answers;
\* each slot's index is read before its result description is tested.
TryEarlyMediaForking ==
  /\ Ready /\ phase = "idle" /\ lastCtx # NoContext
  /\ DerefEverySlot
  /\ UNCHANGED <<slots, ctx, lastCtx, phase, rounds, bwTimer, pumpTimers, hooks, ice, dtls, alive>>

\* The one-second bandwidth-report timer fires: computeAndReportBandwidth
\* on the group whose this pointer it holds.  On a live group it only
\* updates statistics and logs the running streams, skipping empty slots.
ComputeAndReportBandwidth ==
  /\ bwTimer /\ fault = "none"
  /\ IF alive THEN UNCHANGED fault ELSE fault' = "freedGroup"
  /\ UNCHANGED <<slots, ctx, lastCtx, phase, rounds, bwTimer, pumpTimers, hooks, ice, dtls, alive>>

\* MediaSession queues a post-render hook.
AddPostRenderHook ==
  /\ Ready /\ phase # "cleared" /\ hooks < MaxHooks
  /\ hooks' = hooks + 1
  /\ UNCHANGED <<slots, ctx, lastCtx, phase, rounds, bwTimer, pumpTimers, ice, dtls, alive, fault>>

\* The transport layer queues an event on a stream that is not stopped.
Emit(p, ev) ==
  /\ Ready /\ p \in SlotIdx /\ slots[p] # NoStream
  /\ slots[p].state # "Stopped" /\ Len(slots[p].evq) < MaxEvents
  /\ ev = "iceFinished" => ice = "checking"
  /\ slots' = [slots EXCEPT ![p].evq = Append(@, ev)]
  /\ UNCHANGED <<ctx, lastCtx, phase, rounds, bwTimer, pumpTimers, hooks, ice, dtls, alive, fault>>

\* The pump timer of stream p fires: MS2Stream::handleEvents drains the
\* queue; ICE events go to the session, which updates the ICE agent.
HandleEvents(p) ==
  /\ Ready /\ p \in SlotIdx /\ slots[p] # NoStream
  /\ slots[p].timer /\ slots[p].evq # <<>>
  /\ ice' = AfterEvents(slots[p].evq, ice)
  /\ slots' = [slots EXCEPT ![p].evq = <<>>]
  /\ UNCHANGED <<ctx, lastCtx, phase, rounds, bwTimer, pumpTimers, hooks, dtls, alive, fault>>

Init ==
  /\ slots = <<>>
  /\ ctx = CHOOSE c \in Contexts : TRUE
  /\ lastCtx = NoContext
  /\ phase = "idle"
  /\ rounds = 0
  /\ bwTimer = FALSE
  /\ pumpTimers = 0
  /\ hooks = 0
  /\ ice \in {"off", "pending"}
  /\ dtls = FALSE
  /\ alive = TRUE
  /\ fault = "none"

Next ==
  \/ Offer \/ CreateStreams \/ Prepare \/ Render
  \/ Stop \/ ClearStreams \/ Destroy \/ AddPostRenderHook
  \/ FillLocalMediaDescription \/ SessionConfirmed \/ TryEarlyMediaForking
  \/ ComputeAndReportBandwidth
  \/ \E p \in 1 .. Lines, ev \in Events : Emit(p, ev)
  \/ \E p \in 1 .. Lines : HandleEvents(p)

Spec == Init /\ [][Next]_vars

-----------------------------------------------------------------------------
(* Properties *)

TypeOK ==
  /\ slots \in Seq(Streams \cup {NoStream}) /\ Len(slots) <= Lines
  /\ ctx \in Contexts /\ lastCtx \in Contexts \cup {NoContext}
  /\ phase \in Phases /\ rounds \in 0 .. MaxRounds
  /\ bwTimer \in BOOLEAN /\ pumpTimers \in Nat /\ hooks \in 0 .. MaxHooks
  /\ ice \in IceStates /\ dtls \in BOOLEAN /\ alive \in BOOLEAN
  /\ fault \in {"none", "nullStream", "freedGroup"}

\* Spec 5: stop() is the cancellation primitive and no event-pump tick occurs
\* for a stream afterwards.  Every pump timer MS2Stream::prepare created and
\* nobody destroyed belongs to a stream still owned by the group, and no
\* stopped stream keeps one: neither the replacement of a stream in render(),
\* nor stop(), clearStreams() or the destructor leaves a timer that would call
\* handleEvents on a stopped or freed stream.
EventPumpOnlyForActiveStreams ==
  /\ pumpTimers = TimersOf({p \in SlotIdx : slots[p] # NoStream})
  /\ \A p \in SlotIdx : slots[p] # NoStream /\ slots[p].timer
                          => slots[p].state # "Stopped"

\* Spec 2 and 5: a running stream is driven by its event pump until stop()
\* is called, so each running stream has its pump timer.
RunningStreamIsPumped ==
  \A p \in SlotIdx : slots[p] # NoStream /\ slots[p].state = "Running"
                       => slots[p].timer

\* Spec 4.4: stop() destroys the bandwidth-report timer; its callback holds
\* the group's this pointer, so it must not outlive the group.
BandwidthTimerDiesWithGroup == bwTimer => alive

\* Spec 3: absent indices of mStreams are empty slots; no operation of the
\* group dereferences one.
NoNullStreamDeref == fault = "none"

=============================================================================
