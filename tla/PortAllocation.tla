--------------------------- MODULE PortAllocation ---------------------------
(***************************************************************************)
(* RTP/RTCP port selection of streams (Stream::setPortConfig,             *)
(* selectFixedPort, selectRandomPort, MS2Stream::initMulticast in          *)
(* streams.cpp, StreamsGroup::isPortUsed in streams-group.cpp) across the  *)
(* stream groups of all calls of the core.  A port search reads the ports  *)
(* of every stream of every call; it runs atomically on the core thread.   *)
(* Each call's group has at most one stream per kind.                      *)
(***************************************************************************)
EXTENDS Integers, FiniteSets

CONSTANTS
  Calls,      \* calls of the core (linphone_core_get_calls)
  Kinds,      \* stream kinds, one stream per kind and call
  PortRange,  \* PortRange[k] = <<min, max>>, the configured range of kind k
  Roles,      \* multicast roles a stream description may carry
  RemoteRtpPort, \* rtp_port of the remote stream description
  OsPorts,    \* even ports oRTP may bind when asked for a random port
  McastKinds, \* kinds whose multicast the call parameters enable
  JbConfigs,  \* "rtp" jitter_buffer_* settings and jittcomp values of the core
  None        \* no stream of that kind in that call

ASSUME Kinds \subseteq {"audio", "video", "text"}
ASSUME Roles \subseteq {"none", "sender", "receiver"} /\ Roles # {}
ASSUME \A k \in Kinds : PortRange[k] \in Int \X Int
ASSUME \A p \in OsPorts : p > 0 /\ p % 2 = 0
ASSUME JbConfigs \subseteq [min : Int, max : Int, algo : {"basic", "rls", "bogus"},
                             audioNom : Int, videoNom : Int]

VARIABLE streams  \* streams[c][k]: mPortConfig of the stream of kind k of
                  \* call c, the ports its RTP session is bound to, and the
                  \* jitter-buffer parameters set on that session

-----------------------------------------------------------------------------
(* StreamsGroup::isPortUsed of the group of call c. *)
IsPortUsedIn(c, port) ==
  /\ port # -1
  /\ \E k \in Kinds : streams[c][k] # None
                      /\ port \in {streams[c][k].rtp, streams[c][k].rtcp}

\* Mutant of PortTaken: only the group of the searching call is consulted.
PortTakenOwnCall(self, port) == IsPortUsedIn(self, port)
\* The loop over linphone_core_get_calls in the port searches of call self.
PortTaken(self, port) == \E c \in Calls : IsPortUsedIn(c, port)

\* selectFixedPort: the first free port of lo, lo+2, ..., lo+98, else -1.
SelectFixedPort(self, lo) ==
  LET free == {p \in {lo + 2 * j : j \in 0 .. 49} : ~PortTaken(self, p)}
  IN  IF free = {} THEN -1 ELSE CHOOSE p \in free : \A q \in free : p <= q

\* Mutant of RandomPortOffsets: the offset may reach the size of the range.
RandomPortOffsetsWide(lo, hi) == {x \in 0 .. hi - lo : x % 2 = 0}
\* (bctbx_random() % rangeSize) & ~0x1: the even offsets below the range size.
RandomPortOffsets(lo, hi) == {x \in 0 .. hi - lo - 1 : x % 2 = 0}

\* selectRandomPort: the ports it may return.  Every try draws a random even
\* offset; after 100 tries hitting used ports it gives up with -1, which is
\* possible (if unlikely) even while some port is free.
SelectRandomPort(self, lo, hi) ==
  {lo + o : o \in {x \in RandomPortOffsets(lo, hi) : ~PortTaken(self, lo + x)}}
  \cup {-1}

\* Stream::setPortConfig(): the configured range of the stream's kind.
KindPortRange(k) == PortRange[k]

\* Stream::setPortConfig(portRange): the RTP ports the search may return.
SelectRtp(self, k) ==
  LET lo == KindPortRange(k)[1]  hi == KindPortRange(k)[2] IN
  CASE lo <= 0 /\ hi <= 0 -> {-1}
    [] lo = hi            -> {SelectFixedPort(self, lo)}
    [] OTHER              -> SelectRandomPort(self, lo, hi)

\* The tail of setPortConfig: -1 gives the automatic pair, else RTCP = RTP+1.
PortPair(rtp) ==
  IF rtp = -1 THEN [rtp |-> -1, rtcp |-> -1] ELSE [rtp |-> rtp, rtcp |-> rtp + 1]

\* MS2Stream::initMulticast after the Stream constructor: a multicast
\* receiver takes the remote RTP port, then the port is overwritten by 0.
InitMulticast(pair, role) ==
  [rtp |-> IF role = "receiver" THEN 0 ELSE pair.rtp, rtcp |-> pair.rtcp, role |-> role,
   mcast |-> FALSE, joined |-> FALSE, sock |-> <<0, 0>>, jb |-> None]

\* Stream::fillMulticastMediaAddresses: the multicast address of the core
\* is kept for audio and video when the call parameters enable it.
HasMulticastIp(k) == k \in {"audio", "video"} /\ k \in McastKinds

\* MS2Stream::jitterBufferNameToAlgo: an unknown name falls back to RLS.
JitterBufferNameToAlgo(name) == IF name = "basic" THEN "basic" ELSE "rls"

\* Mutant of ApplyJitterBufferParams: max_size keeps its configured value.
ApplyJitterBufferParamsNoRaise(k, cfg) ==
  LET nom == IF k = "video" THEN cfg.videoNom ELSE cfg.audioNom
      on  == nom > 0
  IN  [enabled |-> on, nom |-> nom, min |-> IF on /\ cfg.min > nom THEN nom ELSE cfg.min,
       max |-> cfg.max, maxPackets |-> (cfg.max * 200) \div 1000,
       algo |-> JitterBufferNameToAlgo(cfg.algo)]
\* MS2Stream::applyJitterBufferParams for a stream of kind k.  Text takes the
\* audio jittcomp.  max_packets is derived from the configured max_size
\* before max_size is raised to the nominal size.
ApplyJitterBufferParams(k, cfg) ==
  LET nom == IF k = "video" THEN cfg.videoNom ELSE cfg.audioNom
      on  == nom > 0
  IN  [enabled    |-> on,
       nom        |-> nom,
       min        |-> IF on /\ cfg.min > nom THEN nom ELSE cfg.min,
       max        |-> IF on /\ cfg.max < nom THEN nom ELSE cfg.max,
       maxPackets |-> (cfg.max * 200) \div 1000,
       algo       |-> JitterBufferNameToAlgo(cfg.algo)]

\* Ports bound by the RTP sessions of live streams (0 and -1 bind nothing
\* fixed).
SocketPorts ==
  UNION {UNION {{streams[c][k].sock[1], streams[c][k].sock[2]} :
                  k \in {j \in Kinds : streams[c][j] # None}} : c \in Calls}

\* oRTP asked for a random port (-1) binds an even port and the next one
\* that no socket holds.
OsBind == {<<p, p + 1>> : p \in {q \in OsPorts : {q, q + 1} \cap SocketPorts = {}}}

\* oRTP binds a pair of its choice only for a stream asked for random ports;
\* a configured port is bound as given.
OsChoice(rtp) == IF rtp = -1 THEN OsBind ELSE {<<rtp, rtp + 1>>}

\* Mutant of InitializeSessions: the ports oRTP chose are not read back.
InitializeSessionsNoReadback(k, pc, os, cfg) ==
  [pc EXCEPT !.sock = IF pc.rtp = -1 THEN os ELSE <<pc.rtp, pc.rtcp>>,
             !.joined = pc.role = "receiver" /\ pc.mcast,
             !.jb = ApplyJitterBufferParams(k, cfg)]
\* MS2Stream::initializeSessions, run by the per-kind constructor once its
\* RTP session is bound (os: the pair oRTP chose for a random port): join the
\* multicast group as a receiver with an address, configure the session's
\* jitter buffer, and read the randomly allocated ports back into
\* mPortConfig.
InitializeSessions(k, pc, os, cfg) ==
  LET sock == IF pc.rtp = -1 THEN os ELSE <<pc.rtp, pc.rtcp>> IN
  [pc EXCEPT !.sock = sock,
             !.joined = pc.role = "receiver" /\ pc.mcast,
             !.jb = ApplyJitterBufferParams(k, cfg),
             !.rtp = IF pc.rtp = -1 THEN sock[1] ELSE pc.rtp,
             !.rtcp = IF pc.rtp = -1 THEN sock[2] ELSE pc.rtcp]

\* The constructors of a stream of kind k of call self: Stream (port search,
\* multicast address), MS2Stream (multicast role), then the per-kind one
\* (bind, initializeSessions).  The core configuration is read at that time.
NewPortConfigs(self, k) ==
  UNION {{InitializeSessions(k, [InitMulticast(PortPair(rtp), role) EXCEPT
                                   !.mcast = HasMulticastIp(k)], os, cfg) :
            role \in Roles, os \in OsChoice(rtp), cfg \in JbConfigs} :
           rtp \in SelectRtp(self, k)}

-----------------------------------------------------------------------------
Init == streams = [c \in Calls |-> [k \in Kinds |-> None]]

\* StreamsGroup::createStream for a kind the call has no stream of yet.
CreateStream(c, k) ==
  /\ streams[c][k] = None
  /\ \E pc \in NewPortConfigs(c, k) : streams' = [streams EXCEPT ![c][k] = pc]

\* render() on a unicast/multicast switch: the new stream is constructed,
\* and searches its ports, while the old one is still in mStreams; then
\* mStreams[index].reset frees the old one.
ReplaceStream(c, k) ==
  /\ streams[c][k] # None
  /\ \E pc \in NewPortConfigs(c, k) : streams' = [streams EXCEPT ![c][k] = pc]

\* The call ends: clearStreams/~StreamsGroup free its streams.
ClearStreams(c) ==
  /\ \E k \in Kinds : streams[c][k] # None
  /\ streams' = [streams EXCEPT ![c] = [k \in Kinds |-> None]]

Next ==
  \E c \in Calls :
    \/ \E k \in Kinds : CreateStream(c, k) \/ ReplaceStream(c, k)
    \/ ClearStreams(c)

Spec == Init /\ [][Next]_streams

-----------------------------------------------------------------------------
(* Properties *)

Live == {<<c, k>> \in Calls \X Kinds : streams[c][k] # None}
BoundPorts(s) == {streams[s[1]][s[2]].sock[1], streams[s[1]][s[2]].sock[2]} \ {-1, 0}

\* The RTP ports the configuration of kind k allows: the 50 probed ports of
\* a fixed port, the even offsets inside a range.
ConfiguredRtpPorts(k) ==
  LET lo == PortRange[k][1]  hi == PortRange[k][2] IN
  CASE lo <= 0 /\ hi <= 0 -> {}
    [] lo = hi            -> {lo + 2 * j : j \in 0 .. 49}
    [] OTHER              -> {p \in lo .. hi - 1 : (p - lo) % 2 = 0}

\* Every stream holds ports its kind's configuration allows (a configured RTP
\* port with the RTCP port after it, a pair oRTP chose, or the multicast
\* receiver's ports), and the session's jitter buffer has been configured.
TypeOK ==
  \A c \in Calls, k \in Kinds :
    LET pc == streams[c][k] IN
    pc = None \/
      /\ pc \in [rtp : Int, rtcp : Int, role : Roles, mcast : BOOLEAN,
                 joined : BOOLEAN, sock : Int \X Int, jb : [enabled : BOOLEAN,
                 nom : Int, min : Int, max : Int, maxPackets : Int,
                 algo : {"basic", "rls"}]]
      /\ pc.rtp \in {-1, 0, RemoteRtpPort} \cup ConfiguredRtpPorts(k) \cup OsPorts
      /\ pc.rtcp \in {-1, 0} \cup {p + 1 : p \in ConfiguredRtpPorts(k) \cup OsPorts}

\* Spec 4.2 and 5: a port search skips every port held by a live stream of
\* any call, and a port oRTP picked at random is read back into mPortConfig
\* where the searches of later streams see it; so no two live streams, of
\* one call or of two, have their RTP sessions bound to the same RTP or
\* RTCP port.
NoPortCollision ==
  \A s1, s2 \in Live : s1 # s2 => BoundPorts(s1) \cap BoundPorts(s2) = {}

\* Spec 4.3 and the error taxonomy (a): the jitter buffer that
\* applyJitterBufferParams sets on a stream's session is enabled exactly when
\* the kind's jittcomp is positive, then holds the nominal size between its
\* minimum and maximum; an unknown algorithm name falls back to RLS.
JitterBufferWithinBounds ==
  \A s \in Live :
    LET jb == streams[s[1]][s[2]].jb IN
    /\ jb.enabled <=> jb.nom > 0
    /\ jb.enabled => jb.min <= jb.nom /\ jb.nom <= jb.max
    /\ jb.algo \in {"basic", "rls"}

=============================================================================
