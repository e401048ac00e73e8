------------------------------- MODULE Bodies -------------------------------
(***************************************************************************)
(* The message bodies that rpxy-lib itself feeds or guards, one at a time: *)
(*   "h3"       a request body: the task of h3_serve_stream receives it    *)
(*              and sends it through IncomingLike's channel to the         *)
(*              upstream connection (proxy/proxy_h3.rs, hyper_ext);        *)
(*   "limited"  an HTTP/1.1 or HTTP/2 request body behind LimitedBody      *)
(*              (hyper_ext/body_type.rs);                                  *)
(*   "file"     a cached response: the task of FileStore::read sends the   *)
(*              file through a bounded channel (cache_main.rs).            *)
(* A frame of data is its size.  The source (the client, or the disk) may  *)
(* stop with an error at any frame and the consumer may be dropped at any  *)
(* moment: the upstream fails, the client leaves, or the connection        *)
(* handling timeout drops the future that holds it.                        *)
(***************************************************************************)
EXTENDS Integers, Sequences

CONSTANTS
  FrameSizes,  \* sizes of a frame of data
  MaxFrames,   \* bound on the frames of data of a body
  Limits,      \* values of the two size limits to consider
  Unlimited,   \* the limit None
  Capacity     \* CACHE_STREAM_CHANNEL_CAPACITY

ASSUME SizesAssumption == FrameSizes \subseteq Nat \ {0} /\ MaxFrames \in Nat
ASSUME LimitsAssumption == Limits \subseteq Nat \cup {Unlimited} /\ Unlimited \notin Nat
ASSUME CapacityAssumption == Capacity \in Nat

VARIABLES
  kind,      \* which of the three
  topLimit,  \* request_max_body_size
  h3Limit,   \* h3_request_max_body_size
  intact,    \* file: its content is what was hashed when it was stored
  src,       \* the source: "open", "whole" (at its end) or "failed"
  sent,      \* the frames of data the source has delivered
  trailers,  \* history: the source has delivered trailers
  size,      \* h3: size of the task; limited: LimitedBody.received
  tripped,   \* LimitedBody.tripped
  pc,        \* the task: "recv", "send", "trailers", "verify" or "done"
  queue,     \* the data channel: frames and errors (-1) not yet polled
  parked,    \* the task's sender has used its slot of the channel
  oneshot,   \* the trailers channel: "open", "sent" or "gone"
  want,      \* the watch value: "ready" or "closed"
  unlinked,  \* file: the task has called remove_uncounted_file
  body,      \* the consumer's half: "live", "ended" or "dropped"
  got,       \* the frames of data the consumer has been given
  given,     \* history: the size of those frames together
  gotTrailers,
  errs       \* errors the consumer has been given

configVars == <<kind, topLimit, h3Limit, intact>>
sourceVars == <<src, sent, trailers>>
channelVars == <<queue, parked, oneshot, want>>
consumerVars == <<body, got, given, gotTrailers, errs>>
vars == <<configVars, sourceVars, size, tripped, pc, channelVars, unlinked, consumerVars>>

Aborted == -1

\* Mutant: the override is not looked at.
TopLevelLimit == topLimit

\* The limit in force: the h3 override wins over the top-level limit.
EffectiveLimit == IF kind = "h3" /\ h3Limit # Unlimited THEN h3Limit ELSE topLimit

Exceeds(n) == EffectiveLimit # Unlimited /\ n > EffectiveLimit

\* The buffer of the data channel, to which each sender adds one slot.
Buffer == IF kind = "h3" THEN 0 ELSE Capacity

-----------------------------------------------------------------------------
Init ==
  /\ kind \in {"h3", "limited", "file"}
  /\ topLimit \in Limits
  /\ h3Limit \in IF kind = "h3" THEN Limits ELSE {Unlimited}
  /\ kind = "file" => topLimit = Unlimited
  /\ intact \in IF kind = "file" THEN BOOLEAN ELSE {TRUE}
  /\ src = "open" /\ sent = <<>> /\ trailers = FALSE
  /\ size = 0 /\ tripped = FALSE
  /\ pc = IF kind = "limited" THEN "done" ELSE "recv"
  /\ queue = <<>> /\ parked = FALSE /\ oneshot = "open" /\ want = "ready"
  /\ unlinked = FALSE
  /\ body = "live" /\ got = <<>> /\ given = 0 /\ gotTrailers = FALSE /\ errs = 0

More == src = "open" /\ Len(sent) < MaxFrames

(***************************************************************************)
(* The task of h3_serve_stream                                             *)
(***************************************************************************)
\* Mutant: the task just ends, and the channel with it.
AbortQuietly == UNCHANGED channelVars

\* Sender::abort sends the error with a cloned sender, which has a slot of its
\* own, so that it gets through even when the channel is full.
Abort ==
  /\ queue' = IF body = "dropped" THEN queue ELSE Append(queue, Aborted)
  /\ UNCHANGED <<parked, oneshot, want>>

\* recv_data yields a frame; past the limit the body is aborted.
Receive(n) ==
  /\ kind = "h3" /\ pc = "recv" /\ More
  /\ sent' = Append(sent, n)
  /\ size' = size + n
  /\ IF Exceeds(size + n) THEN Abort /\ pc' = "done"
                          ELSE pc' = "send" /\ UNCHANGED channelVars
  /\ UNCHANGED <<configVars, src, trailers, tripped, unlinked, consumerVars>>

\* recv_data yields None; the trailers are next.
ReceiveEnd ==
  /\ kind = "h3" /\ pc = "recv" /\ src = "open"
  /\ pc' = "trailers"
  /\ UNCHANGED <<configVars, sourceVars, size, tripped, channelVars, unlinked, consumerVars>>

\* Trailers, or none: send_trailers uses the oneshot channel; the task ends and
\* drops both senders.
ReceiveTrailers(some) ==
  /\ pc = "trailers"
  /\ src' = "whole" /\ trailers' = some
  /\ pc' = "done"
  /\ oneshot' = IF some THEN "sent" ELSE "gone"
  /\ UNCHANGED <<configVars, sent, size, tripped, queue, parked, want, unlinked, consumerVars>>

\* recv_data or poll_recv_trailers fails: `?` ends the task without an abort.
ReceiveFails ==
  /\ kind = "h3" /\ pc \in {"recv", "trailers"} /\ src = "open"
  /\ src' = "failed" /\ pc' = "done" /\ oneshot' = "gone"
  /\ UNCHANGED <<configVars, sent, trailers, size, tripped, queue, parked, want, unlinked,
                 consumerVars>>

(***************************************************************************)
(* The task of FileStore::read                                             *)
(***************************************************************************)
ReadChunk(n) ==
  /\ kind = "file" /\ pc = "recv" /\ More
  /\ sent' = Append(sent, n)
  /\ pc' = "send"
  /\ UNCHANGED <<configVars, src, trailers, size, tripped, channelVars, unlinked, consumerVars>>

\* The end of the file, or a read error before it: both leave the loop.
ReadStops ==
  /\ kind = "file" /\ pc = "recv" /\ src = "open"
  /\ src' \in {"whole", "failed"}
  /\ pc' = "verify"
  /\ UNCHANGED <<configVars, sent, trailers, size, tripped, channelVars, unlinked, consumerVars>>

\* The hash differs: the file is removed.  The body channel just closes.
Verify ==
  /\ pc = "verify"
  /\ unlinked' = ~(intact /\ src = "whole")
  /\ pc' = "done" /\ oneshot' = "gone"
  /\ UNCHANGED <<configVars, sourceVars, size, tripped, queue, parked, want, consumerVars>>

(***************************************************************************)
(* The channel                                                             *)
(***************************************************************************)
\* send_data, and Sender::send of the file's channel: wait for the slot, send.
SendFrame ==
  /\ pc = "send" /\ want # "closed" /\ ~parked
  /\ queue' = Append(queue, sent[Len(sent)])
  /\ parked' = (Len(queue) + 1 > Buffer)
  /\ pc' = "recv"
  /\ UNCHANGED <<configVars, sourceVars, size, tripped, oneshot, want, unlinked, consumerVars>>

\* Mutant: the loop is left, and the hash of what was read is compared.
SendFailsVerifies ==
  /\ pc = "send" /\ want = "closed"
  /\ pc' = IF kind = "file" THEN "verify" ELSE "done"
  /\ oneshot' = "gone"
  /\ UNCHANGED <<configVars, sourceVars, size, tripped, queue, parked, want, unlinked, consumerVars>>

\* The receiver is gone: the task returns the error; a file is left in place.
SendFails ==
  /\ pc = "send" /\ want = "closed"
  /\ pc' = "done" /\ oneshot' = "gone"
  /\ UNCHANGED <<configVars, sourceVars, size, tripped, queue, parked, want, unlinked, consumerVars>>

\* The consumer is given a frame of data.
Give(n) == got' = Append(got, n) /\ given' = given + n

\* poll_frame finds something in the data channel, and frees the slot.
PollQueue ==
  /\ kind # "limited" /\ body = "live" /\ queue # <<>>
  /\ queue' = Tail(queue) /\ parked' = FALSE
  /\ IF Head(queue) = Aborted THEN errs' = errs + 1 /\ UNCHANGED <<got, given>>
                              ELSE Give(Head(queue)) /\ UNCHANGED errs
  /\ UNCHANGED <<configVars, sourceVars, size, tripped, pc, oneshot, want, unlinked, body,
                 gotTrailers>>

\* The data channel is terminated: trailers, or the end of the body.
PollEnd ==
  /\ kind # "limited" /\ body = "live" /\ queue = <<>> /\ pc = "done"
  /\ IF oneshot = "sent" THEN /\ gotTrailers' = TRUE /\ oneshot' = "gone"
                              /\ UNCHANGED body
                         ELSE body' = "ended" /\ UNCHANGED <<gotTrailers, oneshot>>
  /\ UNCHANGED <<configVars, sourceVars, size, tripped, pc, queue, parked, want, unlinked, got,
                 given, errs>>

\* Mutant: the watch and the channel stay open.
DropSilently ==
  /\ body = "live"
  /\ body' = "dropped"
  /\ UNCHANGED <<configVars, sourceVars, size, tripped, pc, channelVars, unlinked, got,
                 given, gotTrailers, errs>>

\* The body is dropped: the channels close, which wakes a task that waits.
DropBody ==
  /\ body = "live"
  /\ body' = "dropped" /\ want' = "closed" /\ queue' = <<>>
  /\ UNCHANGED <<configVars, sourceVars, size, tripped, pc, parked, oneshot, unlinked, got,
                 given, gotTrailers, errs>>

(***************************************************************************)
(* LimitedBody::poll_frame; what the inner body yields is the client's     *)
(***************************************************************************)
LimitedData(n) ==
  /\ kind = "limited" /\ body = "live" /\ ~tripped /\ More
  /\ sent' = Append(sent, n)
  /\ size' = IF topLimit = Unlimited THEN size ELSE size + n
  /\ tripped' = Exceeds(size + n)
  /\ IF tripped' THEN errs' = errs + 1 /\ UNCHANGED <<got, given>>
                 ELSE Give(n) /\ UNCHANGED errs
  /\ UNCHANGED <<configVars, src, trailers, pc, channelVars, unlinked, body, gotTrailers>>

\* Mutant: the inner body is polled on after the overrun.
LimitedTrailersLate ==
  /\ kind = "limited" /\ body = "live" /\ src = "open"
  /\ src' = "whole" /\ trailers' = TRUE /\ gotTrailers' = TRUE
  /\ UNCHANGED <<configVars, sent, size, tripped, pc, channelVars, unlinked, body, got,
                 given, errs>>

LimitedTrailers ==
  /\ kind = "limited" /\ body = "live" /\ ~tripped /\ src = "open"
  /\ src' = "whole" /\ trailers' = TRUE /\ gotTrailers' = TRUE
  /\ UNCHANGED <<configVars, sent, size, tripped, pc, channelVars, unlinked, body, got,
                 given, errs>>

\* The inner body's own error is passed on.
LimitedError ==
  /\ kind = "limited" /\ body = "live" /\ ~tripped /\ src = "open"
  /\ src' = "failed" /\ errs' = errs + 1
  /\ UNCHANGED <<configVars, sent, trailers, size, tripped, pc, channelVars, unlinked, body, got,
                 given, gotTrailers>>

\* None: the inner body is at its end, or the latch is set.
LimitedEnd ==
  /\ kind = "limited" /\ body = "live"
  /\ body' = "ended"
  /\ src' = IF ~tripped /\ src = "open" THEN "whole" ELSE src
  /\ UNCHANGED <<configVars, sent, trailers, size, tripped, pc, channelVars, unlinked, got,
                 given, gotTrailers, errs>>

-----------------------------------------------------------------------------
\* What the client or the disk does.
Source ==
  \/ \E n \in FrameSizes : Receive(n) \/ ReadChunk(n)
  \/ ReceiveEnd \/ ReceiveFails \/ ReadStops
  \/ \E some \in BOOLEAN : ReceiveTrailers(some)

Task == SendFrame \/ SendFails \/ Verify

Poll ==
  \/ PollQueue \/ PollEnd
  \/ \E n \in FrameSizes : LimitedData(n)
  \/ LimitedTrailers \/ LimitedError \/ LimitedEnd

Next == Source \/ Task \/ Poll \/ DropBody

Spec == Init /\ [][Next]_vars

\* The runtime polls a task that can go on, and the connection that owns the
\* body polls it again as long as it holds it; the source owes nothing.
FairSpec == Spec /\ WF_vars(Task) /\ WF_vars(Poll)

-----------------------------------------------------------------------------
(***************************************************************************)
(* Properties                                                              *)
(***************************************************************************)
\* The consumer is never given more data than the limit that applies to the
\* protocol: over HTTP/3 the override where there is one, larger or smaller.
WithinLimit ==
  LET limit == IF kind # "h3" \/ h3Limit = Unlimited THEN topLimit ELSE h3Limit
  IN limit # Unlimited => given <= limit

\* A body the consumer sees end without an error is the whole body, trailers
\* included: exceeding the limit, even in the last frame, is never taken for the
\* end.  The exception is a source that fails under one of the two relay tasks:
\* neither aborts its channel, so the consumer sees a truncated body end.
CleanEndIsWhole ==
  /\ Len(got) <= Len(sent) /\ got = SubSeq(sent, 1, Len(got))
  /\ body = "ended" /\ errs = 0 =>
       \/ src = "whole" /\ got = sent /\ gotTrailers = trailers
       \/ src = "failed" /\ kind # "limited"

\* The overrun error is given out once and nothing follows it: no frame and no
\* trailers "slip through after the limit is exceeded", whoever polls on.
NothingAfterError ==
  [][errs > 0 => UNCHANGED <<got, gotTrailers, errs>>]_vars

\* A cache file is removed exactly when it was read to where it ends, or fails,
\* and its hash differs; a client that leaves early proves nothing about it.
RemovesOnlyCorrupted ==
  kind = "file" /\ pc = "done" =>
    (unlinked <=> (src = "failed" \/ (src = "whole" /\ ~intact)))

\* Once the source has ended, or the body has been dropped while its task waits
\* for room in the channel, the task ends and the consumer gets its end.
RelaySettles ==
  (src # "open" \/ (body = "dropped" /\ pc = "send")) ~> (pc = "done" /\ body # "live")
=============================================================================
