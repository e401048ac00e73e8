---------------------------- MODULE BodiesProofs ----------------------------
(***************************************************************************)
(* Proofs about the message bodies (module Bodies), for bodies of any      *)
(* number of frames, any frame sizes, limits and channel capacity.         *)
(***************************************************************************)
EXTENDS Bodies, SequenceTheorems, TLAPS

TypeOK ==
  /\ kind \in {"h3", "limited", "file"} /\ intact \in BOOLEAN
  /\ src \in {"open", "whole", "failed"} /\ trailers \in BOOLEAN
  /\ pc \in {"recv", "send", "trailers", "verify", "done"}
  /\ tripped \in BOOLEAN /\ parked \in BOOLEAN /\ unlinked \in BOOLEAN /\ gotTrailers \in BOOLEAN
  /\ oneshot \in {"open", "sent", "gone"} /\ want \in {"ready", "closed"}
  /\ body \in {"live", "ended", "dropped"}

DataType ==
  /\ sent \in Seq(FrameSizes) /\ got \in Seq(FrameSizes)
  /\ queue \in Seq(FrameSizes \cup {Aborted})
  /\ size \in Nat /\ given \in Nat /\ errs \in Nat
  /\ topLimit \in Nat \cup {Unlimited} /\ h3Limit \in Nat \cup {Unlimited}

\* The task of h3_serve_stream has met a frame that exceeds the limit.
Over == kind = "h3" /\ Exceeds(size)

\* Which half of the relay has got how far: the task, the source and the channels.
ControlInv ==
  /\ kind # "h3" => h3Limit = Unlimited
  /\ kind = "file" => topLimit = Unlimited
  /\ kind = "limited" => pc = "done"
  /\ pc = "trailers" => kind = "h3"
  /\ pc = "verify" => kind = "file" /\ src # "open"
  /\ pc \in {"recv", "send", "trailers"} => src = "open"
  /\ pc = "send" => sent # <<>>
  /\ Over => pc = "done" /\ src = "open"
  /\ want = "closed" <=> body = "dropped"
  /\ kind # "limited" /\ pc = "done" /\ body # "dropped" => Over \/ src # "open"
  /\ kind # "limited" /\ body = "ended" => pc = "done" /\ queue = <<>>
  /\ kind # "limited" /\ errs > 0 => Over /\ queue = <<>>

\* Trailers are on their way once the source has delivered them.
TrailersInv ==
  kind # "limited" =>
    /\ pc # "done" \/ Over => oneshot = "open"
    /\ trailers => src = "whole" /\ pc = "done"
    /\ gotTrailers => oneshot = "gone"
    /\ trailers <=> (oneshot = "sent" \/ gotTrailers)
    /\ body = "ended" => oneshot # "sent"

\* The file is removed at the end of its task, and only by its verification.
FileInv ==
  kind = "file" =>
    IF pc = "done" THEN unlinked <=> (src = "failed" \/ (src = "whole" /\ ~intact))
                   ELSE ~unlinked

\* What the source has delivered is what the consumer has been given, what waits
\* in the channel, and the frame the task holds or has refused.
Relayed(q, p) ==
  /\ sent = (got \o q) \o p
  /\ queue = IF Over /\ errs = 0 THEN Append(q, Aborted) ELSE q
  /\ Len(p) = IF pc = "send" \/ Over THEN 1 ELSE 0

DataInv ==
  kind # "limited" =>
    IF body = "dropped"
    THEN queue = <<>> /\ \E p \in Seq(FrameSizes) : sent = got \o p
    ELSE \E q, p \in Seq(FrameSizes) : Relayed(q, p)

\* HTTP/3: at most one frame waits in the channel, in front of the error.  What
\* has been given out, that frame and the one the task holds are within the limit.
QueueOK ==
  \/ queue = <<>>
  \/ Len(queue) = 1
  \/ Len(queue) = 2 /\ queue[1] # Aborted /\ queue[2] = Aborted

Waiting == IF queue # <<>> /\ queue[1] # Aborted THEN queue[1] ELSE 0
Held == IF pc = "send" THEN sent[Len(sent)] ELSE 0
Passing == given + Waiting + Held

BytesInv ==
  kind = "h3" =>
    /\ QueueOK
    /\ ~parked => Waiting = 0
    /\ pc # "done" => (queue = <<>> \/ queue[1] # Aborted) /\ Passing <= size
    /\ EffectiveLimit # Unlimited => Passing <= EffectiveLimit

LimitedInv ==
  kind = "limited" =>
    /\ trailers = gotTrailers /\ (trailers => src = "whole")
    /\ ~tripped => got = sent
    /\ tripped => src = "open" /\ \E x \in FrameSizes : sent = Append(got, x)
    /\ errs > 0 <=> (tripped \/ src = "failed")
    /\ body = "ended" => tripped \/ src # "open"
    /\ topLimit # Unlimited =>
         /\ ~tripped => size = given
         /\ given <= topLimit

Inv ==
  /\ TypeOK /\ DataType /\ ControlInv /\ TrailersInv /\ FileInv
  /\ DataInv /\ BytesInv /\ LimitedInv
-----------------------------------------------------------------------------
LEMMA SizesFacts == Aborted \notin FrameSizes /\ \A n \in FrameSizes : n \in Nat /\ n > 0
BY SizesAssumption, SMTT(30) DEF Aborted

\* Every step but those that receive data leaves the size, and with it Over.
KeepsSize == UNCHANGED <<kind, topLimit, h3Limit, size>>

LEMMA OverKept == KeepsSize => (Over' <=> Over)
BY Zenon DEF KeepsSize, Over, Exceeds, EffectiveLimit

Takes == \E n \in FrameSizes : Receive(n) \/ LimitedData(n)

Rest ==
  \/ ReceiveEnd \/ ReceiveFails \/ ReadStops \/ \E n \in FrameSizes : ReadChunk(n)
  \/ \E some \in BOOLEAN : ReceiveTrailers(some)
  \/ SendFrame \/ SendFails \/ Verify \/ PollQueue \/ PollEnd
  \/ LimitedTrailers \/ LimitedError \/ LimitedEnd \/ DropBody

LEMMA NextCases == Next => Takes \/ Rest
BY DEF Next, Source, Task, Poll, Takes, Rest

LEMMA RestKeepsSize == Rest => KeepsSize
BY Zenon DEF Rest, ReceiveEnd, ReceiveFails, ReadStops, ReadChunk, ReceiveTrailers, SendFrame, SendFails,
       Verify, PollQueue, PollEnd, LimitedTrailers, LimitedError, LimitedEnd, DropBody,
       KeepsSize, configVars

LEMMA TypeStep == TypeOK /\ Next => TypeOK'
<1>. SUFFICES ASSUME TypeOK, Next PROVE TypeOK'
  OBVIOUS
<1>1. ASSUME NEW n \in FrameSizes, Receive(n) PROVE TypeOK'
  BY <1>1 DEF Receive, Abort, TypeOK, configVars, channelVars, consumerVars
<1>2. ASSUME NEW n \in FrameSizes, LimitedData(n) PROVE TypeOK'
  <2>1. tripped' \in BOOLEAN
    BY <1>2 DEF LimitedData, Exceeds
  <2>. QED
    BY <1>2, <2>1 DEF LimitedData, TypeOK, configVars, channelVars
<1>3. ASSUME Rest PROVE TypeOK'
  <2>1. CASE ReceiveEnd \/ ReceiveFails \/ ReadStops \/ \E n \in FrameSizes : ReadChunk(n)
    BY <2>1 DEF ReceiveEnd, ReceiveFails, ReadStops, ReadChunk, TypeOK, configVars, sourceVars,
                channelVars, consumerVars
  <2>2. CASE \E some \in BOOLEAN : ReceiveTrailers(some)
    BY <2>2 DEF ReceiveTrailers, TypeOK, configVars, consumerVars
  <2>3. CASE SendFrame
    <3>1. parked' \in BOOLEAN
      BY <2>3 DEF SendFrame
    <3>. QED
      BY <2>3, <3>1 DEF SendFrame, TypeOK, configVars, sourceVars, consumerVars
  <2>4. CASE SendFails \/ PollQueue \/ PollEnd \/ DropBody
    BY <2>4, ZenonT(30) DEF SendFails, PollQueue, PollEnd, DropBody, TypeOK, configVars, sourceVars, consumerVars
  <2>5. CASE Verify
    <3>1. unlinked' \in BOOLEAN
      BY <2>5 DEF Verify
    <3>. QED
      BY <2>5, <3>1 DEF Verify, TypeOK, configVars, sourceVars, consumerVars
  <2>6. CASE LimitedTrailers \/ LimitedError \/ LimitedEnd
    BY <2>6, ZenonT(30) DEF LimitedTrailers, LimitedError, LimitedEnd, TypeOK, configVars, channelVars
  <2>. QED
    BY <1>3, <2>1, <2>2, <2>3, <2>4, <2>5, <2>6 DEF Rest
<1>. QED
  BY <1>1, <1>2, <1>3, NextCases DEF Takes

LEMMA QueueHead ==
  ASSUME DataType, queue # <<>>
  PROVE  /\ Head(queue) = queue[1] /\ Len(queue) > 0 /\ Tail(queue) \in Seq(FrameSizes \cup {Aborted})
         /\ Head(queue) = Aborted \/ Head(queue) \in FrameSizes
<1>1. queue \in Seq(FrameSizes \cup {Aborted})
  BY DEF DataType
<1>2. Head(queue) \in FrameSizes \cup {Aborted} /\ Tail(queue) \in Seq(FrameSizes \cup {Aborted})
  BY <1>1, HeadTailProperties
<1>. QED
  BY <1>1, <1>2

\* An error is the last thing in the channel.
LEMMA AbortedLast ==
  ASSUME NEW q \in Seq(FrameSizes), NEW p \in Seq(FrameSizes), Relayed(q, p), queue # <<>>,
         Head(queue) = Aborted
  PROVE  Over /\ errs = 0 /\ q = <<>> /\ queue = <<Aborted>> /\ Tail(queue) = <<>>
<1>1. Aborted \notin FrameSizes
  BY SizesFacts
<1>2. q # <<>> => Head(q) \in FrameSizes
  OBVIOUS
<1>3. Over /\ errs = 0 /\ queue = Append(q, Aborted)
  BY <1>1, <1>2, Zenon DEF Relayed
<1>4. q # <<>> => Head(Append(q, Aborted)) = Head(q)
  OBVIOUS
<1>5. q = <<>>
  BY <1>1, <1>2, <1>3, <1>4, Zenon
<1>6. queue = <<Aborted>>
  BY <1>3, <1>5
<1>. QED
  BY <1>3, <1>5, <1>6

LEMMA DataTypeStep == DataType /\ ControlInv /\ Next => DataType'
<1>. SUFFICES ASSUME DataType, ControlInv, Next PROVE DataType'
  OBVIOUS
<1>0. /\ sent \in Seq(FrameSizes) /\ got \in Seq(FrameSizes)
      /\ queue \in Seq(FrameSizes \cup {Aborted})
      /\ size \in Nat /\ given \in Nat /\ errs \in Nat
      /\ topLimit \in Nat \cup {Unlimited} /\ h3Limit \in Nat \cup {Unlimited}
  BY DEF DataType
<1>1. ASSUME NEW n \in FrameSizes, Receive(n) PROVE DataType'
  <2>1. n \in Nat
    BY SizesFacts
  <2>2. size' \in Nat /\ sent' \in Seq(FrameSizes)
    BY <1>0, <1>1, <2>1 DEF Receive
  <2>3. queue' \in Seq(FrameSizes \cup {Aborted})
    <3>1. Append(queue, Aborted) \in Seq(FrameSizes \cup {Aborted})
      BY <1>0
    <3>2. queue' = queue \/ queue' = Append(queue, Aborted)
      BY <1>1, Zenon DEF Receive, Abort, channelVars
    <3>. QED
      BY <1>0, <3>1, <3>2, Zenon
  <2>. QED
    BY <1>0, <1>1, <2>2, <2>3, Zenon DEF Receive, DataType, configVars, consumerVars
<1>2. ASSUME NEW n \in FrameSizes, LimitedData(n) PROVE DataType'
  <2>1. n \in Nat
    BY SizesFacts
  <2>2. size' \in Nat /\ sent' \in Seq(FrameSizes) /\ errs' \in Nat
    BY <1>0, <1>2, <2>1, SMTT(30) DEF LimitedData
  <2>3. got' \in Seq(FrameSizes) /\ given' \in Nat
    <3>1. Append(got, n) \in Seq(FrameSizes) /\ given + n \in Nat
      BY <1>0, <2>1
    <3>2. Give(n) \/ UNCHANGED <<got, given>>
      BY <1>2, Zenon DEF LimitedData
    <3>. QED
      BY <1>0, <3>1, <3>2, Zenon DEF Give
  <2>. QED
    BY <1>0, <1>2, <2>2, <2>3, Zenon DEF LimitedData, DataType, configVars, channelVars
<1>3. ASSUME Rest PROVE DataType'
  <2>1. CASE \/ ReceiveEnd \/ ReceiveFails \/ ReadStops \/ SendFails \/ Verify
             \/ PollEnd \/ LimitedTrailers \/ LimitedEnd
             \/ \E some \in BOOLEAN : ReceiveTrailers(some)
    BY <1>0, <2>1, Zenon
    DEF ReceiveEnd, ReceiveFails, ReadStops, SendFails, Verify, PollEnd, LimitedTrailers, LimitedEnd,
        ReceiveTrailers, DataType, configVars, sourceVars, channelVars, consumerVars
  <2>2. CASE \E n \in FrameSizes : ReadChunk(n)
    <3>1. sent' \in Seq(FrameSizes)
      BY <1>0, <2>2 DEF ReadChunk
    <3>. QED
      BY <1>0, <2>2, <3>1, Zenon DEF ReadChunk, DataType, configVars, channelVars, consumerVars
  <2>3. CASE SendFrame
    <3>1. sent # <<>>
      BY <2>3 DEF SendFrame, ControlInv
    <3>2. sent[Len(sent)] \in FrameSizes
      BY <1>0, <3>1
    <3>3. queue' \in Seq(FrameSizes \cup {Aborted})
      BY <1>0, <2>3, <3>2 DEF SendFrame
    <3>. QED
      BY <1>0, <2>3, <3>3, Zenon DEF SendFrame, DataType, configVars, sourceVars, consumerVars
  <2>4. CASE PollQueue
    <3>1. queue # <<>>
      BY <2>4 DEF PollQueue
    <3>2. queue' \in Seq(FrameSizes \cup {Aborted})
      BY <2>4, <3>1, QueueHead DEF PollQueue
    <3>3. got' \in Seq(FrameSizes) /\ given' \in Nat /\ errs' \in Nat
      <4>1. CASE Head(queue) = Aborted
        BY <1>0, <2>4, <4>1 DEF PollQueue
      <4>2. CASE Head(queue) # Aborted
        <5>1. Head(queue) \in FrameSizes /\ Head(queue) \in Nat
          BY <3>1, <4>2, QueueHead, SizesFacts
        <5>2. Append(got, Head(queue)) \in Seq(FrameSizes) /\ given + Head(queue) \in Nat
          BY <1>0, <5>1
        <5>. QED
          BY <1>0, <2>4, <4>2, <5>2, Zenon DEF PollQueue, Give
      <4>. QED
        BY <4>1, <4>2
    <3>. QED
      BY <1>0, <2>4, <3>2, <3>3, Zenon DEF PollQueue, DataType, configVars, sourceVars
  <2>5. CASE LimitedError
    <3>1. errs' \in Nat
      BY <1>0, <2>5 DEF LimitedError
    <3>. QED
      BY <1>0, <2>5, <3>1, Zenon DEF LimitedError, DataType, configVars, channelVars
  <2>6. CASE DropBody
    <3>1. queue' \in Seq(FrameSizes \cup {Aborted})
      BY <2>6 DEF DropBody
    <3>. QED
      BY <1>0, <2>6, <3>1, Zenon DEF DropBody, DataType, configVars, sourceVars
  <2>. QED
    BY <1>3, <2>1, <2>2, <2>3, <2>4, <2>5, <2>6 DEF Rest
<1>. QED
  BY <1>1, <1>2, <1>3, NextCases DEF Takes

LEMMA ControlStep == TypeOK /\ DataType /\ ControlInv /\ DataInv /\ Next => ControlInv'
<1>. SUFFICES ASSUME TypeOK, DataType, ControlInv, DataInv, Next PROVE ControlInv'
  OBVIOUS
<1>0. errs \in Nat /\ ~(errs + 0 > errs) /\ errs + 1 > 0 /\ sent \in Seq(FrameSizes)
  BY DEF DataType
<1>1. ASSUME NEW n \in FrameSizes, Receive(n) PROVE ControlInv'
  <2>1. sent' # <<>>
    BY <1>0, <1>1 DEF Receive
  <2>2. Over' <=> Exceeds(size + n)
    BY <1>1, Zenon DEF Receive, Over, Exceeds, EffectiveLimit, configVars
  <2>3. ~Over /\ ~(errs > 0) /\ body # "ended"
    BY <1>1, Zenon DEF Receive, ControlInv
  <2>. QED
    BY <1>1, <2>1, <2>2, <2>3, Zenon
    DEF Receive, More, Abort, ControlInv, TypeOK, configVars, channelVars, consumerVars
<1>2. ASSUME NEW n \in FrameSizes, LimitedData(n) PROVE ControlInv'
  <2>1. ~Over /\ ~Over'
    BY <1>2, Zenon DEF LimitedData, Over, configVars
  <2>2. kind = "limited" /\ UNCHANGED <<kind, topLimit, h3Limit, src, pc, queue, want, body>>
    BY <1>2, Zenon DEF LimitedData, configVars, channelVars
  <2>. QED
    BY <2>1, <2>2, Zenon DEF ControlInv
<1>3. ASSUME Rest PROVE ControlInv'
  <2>0. (Over' <=> Over) /\ UNCHANGED <<kind, topLimit, h3Limit, size>>
    BY <1>3, RestKeepsSize, OverKept, Zenon DEF KeepsSize
  <2>1. CASE ReceiveEnd \/ ReceiveFails \/ ReadStops
    BY <2>0, <2>1, Zenon
    DEF ReceiveEnd, ReceiveFails, ReadStops, ControlInv, configVars, sourceVars, channelVars,
        consumerVars
  <2>2. CASE \E n \in FrameSizes : ReadChunk(n)
    <3>1. sent' # <<>>
      BY <1>0, <2>2 DEF ReadChunk
    <3>. QED
      BY <2>0, <2>2, <3>1, Zenon
      DEF ReadChunk, More, ControlInv, configVars, channelVars, consumerVars
  <2>3. CASE \E some \in BOOLEAN : ReceiveTrailers(some)
    BY <2>0, <2>3, Zenon DEF ReceiveTrailers, ControlInv, configVars, consumerVars
  <2>4. CASE SendFrame
    BY <2>0, <2>4, Zenon DEF SendFrame, ControlInv, configVars, sourceVars, consumerVars
  <2>5. CASE SendFails \/ Verify
    BY <2>0, <2>5, Zenon DEF SendFails, Verify, ControlInv, configVars, sourceVars, consumerVars
  <2>6. CASE PollEnd
    BY <2>0, <2>6, Zenon DEF PollEnd, ControlInv, configVars, sourceVars
  <2>7. CASE LimitedTrailers \/ LimitedError \/ LimitedEnd
    <3>1. ~Over /\ kind = "limited" /\ UNCHANGED <<pc, queue, want, sent>>
      BY <2>7, Zenon DEF LimitedTrailers, LimitedError, LimitedEnd, Over, configVars, channelVars
    <3>2. (body' = "dropped" <=> body = "dropped")
      BY <2>7, Zenon DEF LimitedTrailers, LimitedError, LimitedEnd
    <3>. QED
      BY <2>0, <3>1, <3>2, Zenon DEF ControlInv
  <2>8. CASE DropBody
    BY <2>0, <2>8, Zenon DEF DropBody, ControlInv, configVars, sourceVars
  <2>9. CASE PollQueue
    <3>1. /\ kind # "limited" /\ queue # <<>> /\ queue' = Tail(queue) /\ body = "live"
          /\ UNCHANGED <<src, sent, pc, want, body>>
      BY <2>9, Zenon DEF PollQueue, sourceVars
    <3>2. errs' > 0 => Over /\ queue' = <<>>
      <4>1. CASE Head(queue) = Aborted
        <5>1. PICK q \in Seq(FrameSizes), p \in Seq(FrameSizes) : Relayed(q, p)
          BY <3>1, Zenon DEF DataInv
        <5>. QED
          BY <3>1, <4>1, <5>1, AbortedLast, Zenon
      <4>2. CASE Head(queue) # Aborted
        BY <2>9, <3>1, <4>2, Zenon DEF PollQueue, ControlInv
      <4>. QED
        BY <4>1, <4>2
    <3>. QED
      BY <2>0, <3>1, <3>2, Zenon DEF ControlInv
  <2>. QED
    BY <1>3, <2>1, <2>2, <2>3, <2>4, <2>5, <2>6, <2>7, <2>8, <2>9 DEF Rest
<1>. QED
  BY <1>1, <1>2, <1>3, NextCases DEF Takes
LEMMA TrailersStep == TypeOK /\ DataType /\ ControlInv /\ TrailersInv /\ Next => TrailersInv'
<1>. SUFFICES ASSUME TypeOK, DataType, ControlInv, TrailersInv, Next PROVE TrailersInv'
  OBVIOUS
<1>1. ASSUME NEW n \in FrameSizes, Receive(n) PROVE TrailersInv'
  <2>1. kind = "h3" /\ pc = "recv" /\ UNCHANGED <<kind, src, trailers, oneshot, gotTrailers, body>>
    BY <1>1, Zenon DEF Receive, Abort, configVars, channelVars, consumerVars
  <2>2. src = "open" /\ body # "ended"
    BY <2>1, Zenon DEF ControlInv
  <2>. QED
    BY <2>1, <2>2, Zenon DEF TrailersInv
<1>2. ASSUME NEW n \in FrameSizes, LimitedData(n) PROVE TrailersInv'
  BY <1>2, Zenon DEF LimitedData, TrailersInv, configVars
<1>3. ASSUME Rest PROVE TrailersInv'
  <2>0. (Over' <=> Over) /\ UNCHANGED kind
    BY <1>3, RestKeepsSize, OverKept, Zenon DEF KeepsSize
  <2>1. CASE ReceiveEnd \/ ReadStops \/ \E n \in FrameSizes : ReadChunk(n)
    BY <2>0, <2>1, Zenon
    DEF ReceiveEnd, ReadStops, ReadChunk, TrailersInv, sourceVars, channelVars, consumerVars
  <2>2. CASE ReceiveFails \/ SendFails \/ Verify
    BY <2>0, <2>2, Zenon
    DEF ReceiveFails, SendFails, Verify, TrailersInv, ControlInv, sourceVars, consumerVars
  <2>3. CASE \E some \in BOOLEAN : ReceiveTrailers(some)
    <3>1. PICK some \in BOOLEAN : ReceiveTrailers(some)
      BY <2>3
    <3>2. /\ pc = "trailers" /\ pc' = "done" /\ src' = "whole" /\ trailers' = some
          /\ oneshot' = (IF some THEN "sent" ELSE "gone") /\ UNCHANGED <<body, gotTrailers>>
      BY <3>1, Zenon DEF ReceiveTrailers, consumerVars
    <3>3. kind # "limited" /\ ~Over /\ body # "ended"
      BY <3>2, Zenon DEF ControlInv
    <3>4. ~gotTrailers
      BY <3>2, <3>3, Zenon DEF TrailersInv
    <3>. QED
      BY <2>0, <3>2, <3>3, <3>4 DEF TrailersInv
  <2>4. CASE SendFrame
    BY <2>0, <2>4, Zenon DEF SendFrame, TrailersInv, sourceVars, consumerVars
  <2>5. CASE PollQueue \/ DropBody
    BY <2>0, <2>5, Zenon DEF PollQueue, DropBody, TrailersInv, sourceVars
  <2>6. CASE PollEnd
    BY <2>0, <2>6, Zenon DEF PollEnd, TrailersInv, sourceVars
  <2>7. CASE LimitedTrailers \/ LimitedError \/ LimitedEnd
    BY <2>0, <2>7, Zenon DEF LimitedTrailers, LimitedError, LimitedEnd, TrailersInv
  <2>. QED
    BY <1>3, <2>1, <2>2, <2>3, <2>4, <2>5, <2>6, <2>7 DEF Rest
<1>. QED
  BY <1>1, <1>2, <1>3, NextCases DEF Takes

LEMMA FileStep == TypeOK /\ ControlInv /\ FileInv /\ Next => FileInv'
<1>. SUFFICES ASSUME TypeOK, ControlInv, FileInv, Next PROVE FileInv'
  OBVIOUS
<1>1. ASSUME Takes PROVE FileInv'
  BY <1>1, Zenon DEF Takes, Receive, LimitedData, FileInv, configVars
<1>2. ASSUME Rest PROVE FileInv'
  <2>0. UNCHANGED <<kind, intact>>
    BY <1>2, Zenon
    DEF Rest, ReceiveEnd, ReceiveFails, ReadStops, ReadChunk, ReceiveTrailers, SendFrame, SendFails,
        Verify, PollQueue, PollEnd, LimitedTrailers, LimitedError, LimitedEnd, DropBody, configVars
  <2>1. CASE ReceiveEnd \/ ReceiveFails \/ \E some \in BOOLEAN : ReceiveTrailers(some)
    BY <2>0, <2>1, Zenon DEF ReceiveEnd, ReceiveFails, ReceiveTrailers, FileInv, ControlInv
  <2>2. CASE ReadStops \/ \E n \in FrameSizes : ReadChunk(n)
    <3>1. pc = "recv" /\ pc' \in {"send", "verify"} /\ UNCHANGED unlinked
      BY <2>2, Zenon DEF ReadStops, ReadChunk
    <3>. QED
      BY <2>0, <3>1 DEF FileInv
  <2>3. CASE Verify
    <3>1. /\ pc = "verify" /\ pc' = "done" /\ unlinked' = ~(intact /\ src = "whole")
          /\ UNCHANGED src
      BY <2>3, Zenon DEF Verify, sourceVars
    <3>2. src \in {"whole", "failed"}
      BY <3>1, Zenon DEF ControlInv, TypeOK
    <3>. QED
      BY <2>0, <3>1, <3>2, Zenon DEF FileInv
  <2>4. CASE SendFrame \/ SendFails
    <3>1. pc = "send" /\ UNCHANGED <<src, unlinked>> /\ pc' \in {"recv", "done"}
      BY <2>4, Zenon DEF SendFrame, SendFails, sourceVars
    <3>2. src = "open"
      BY <3>1, Zenon DEF ControlInv
    <3>. QED
      BY <2>0, <3>1, <3>2 DEF FileInv
  <2>5. CASE PollQueue \/ PollEnd \/ DropBody
    <3>1. UNCHANGED <<src, pc, unlinked>>
      BY <2>5, Zenon DEF PollQueue, PollEnd, DropBody, sourceVars
    <3>. QED
      BY <2>0, <3>1, Zenon DEF FileInv
  <2>6. CASE LimitedTrailers \/ LimitedError \/ LimitedEnd
    BY <2>0, <2>6, Zenon DEF LimitedTrailers, LimitedError, LimitedEnd, FileInv
  <2>. QED
    BY <1>2, <2>1, <2>2, <2>3, <2>4, <2>5, <2>6 DEF Rest
<1>. QED
  BY <1>1, <1>2, NextCases

LEMMA LimitedStep == TypeOK /\ DataType /\ ControlInv /\ LimitedInv /\ Next => LimitedInv'
<1>. SUFFICES ASSUME TypeOK, DataType, ControlInv, LimitedInv, Next PROVE LimitedInv'
  OBVIOUS
<1>k. kind' = kind
  <2>1. CASE Takes
    BY <2>1, Zenon DEF Takes, Receive, LimitedData, configVars
  <2>2. CASE Rest
    BY <2>2, RestKeepsSize, Zenon DEF KeepsSize
  <2>. QED
    BY <2>1, <2>2, NextCases
<1>. SUFFICES ASSUME kind = "limited" PROVE LimitedInv'
  BY <1>k DEF LimitedInv
<1>0. size \in Nat /\ given \in Nat /\ errs \in Nat /\ topLimit \in Nat \cup {Unlimited}
  BY DEF DataType
<1>1. ASSUME NEW n \in FrameSizes, LimitedData(n) PROVE LimitedInv'
  <2>0. n \in Nat
    BY SizesFacts
  <2>1. /\ ~tripped /\ src = "open" /\ sent' = Append(sent, n) /\ body = "live"
        /\ UNCHANGED <<kind, topLimit, h3Limit, src, trailers, body, gotTrailers>>
        /\ size' = (IF topLimit = Unlimited THEN size ELSE size + n)
        /\ tripped' <=> Exceeds(size + n)
    BY <1>1, Zenon DEF LimitedData, More, configVars
  <2>2. got = sent /\ (topLimit # Unlimited => size = given) /\ ~(errs > 0)
    BY <2>1, Zenon DEF LimitedInv
  <2>3. EffectiveLimit = topLimit
    BY Zenon DEF EffectiveLimit
  <2>4. CASE Exceeds(size + n)
    <3>1. errs' = errs + 1 /\ UNCHANGED <<got, given>> /\ tripped'
      BY <1>1, <2>1, <2>4, Zenon DEF LimitedData
    <3>2. errs' > 0
      BY <1>0, <3>1
    <3>3. \E x \in FrameSizes : sent' = Append(got', x)
      BY <2>1, <2>2, <3>1, Zenon
    <3>. QED
      BY <2>1, <2>2, <3>1, <3>2, <3>3, Zenon DEF LimitedInv
  <2>5. CASE ~Exceeds(size + n)
    <3>1. ~tripped' /\ UNCHANGED errs /\ got' = Append(got, n) /\ given' = given + n
      BY <1>1, <2>1, <2>5, Zenon DEF LimitedData, Give
    <3>2. topLimit # Unlimited => given' <= topLimit /\ size' = given'
      BY <1>0, <2>0, <2>1, <2>2, <2>3, <2>5, <3>1 DEF Exceeds
    <3>. QED
      BY <2>1, <2>2, <3>1, <3>2, Zenon DEF LimitedInv
  <2>. QED
    BY <2>4, <2>5
<1>2. CASE LimitedTrailers
  <2>1. /\ ~tripped /\ src = "open" /\ src' = "whole" /\ trailers' = TRUE /\ gotTrailers' = TRUE
        /\ UNCHANGED <<kind, topLimit, sent, size, tripped, body, got, given, errs>>
    BY <1>2, Zenon DEF LimitedTrailers, configVars
  <2>. QED
    BY <2>1, Zenon DEF LimitedInv
<1>3. CASE LimitedError
  <2>1. /\ ~tripped /\ src = "open" /\ src' = "failed" /\ errs' = errs + 1
        /\ UNCHANGED <<kind, topLimit, sent, trailers, size, tripped, body, got, given, gotTrailers>>
    BY <1>3, Zenon DEF LimitedError, configVars
  <2>2. errs' > 0
    BY <1>0, <2>1
  <2>. QED
    BY <2>1, <2>2, Zenon DEF LimitedInv
<1>4. CASE LimitedEnd
  <2>1. /\ src' = (IF ~tripped /\ src = "open" THEN "whole" ELSE src)
        /\ UNCHANGED <<kind, topLimit, sent, trailers, size, tripped, got, given, gotTrailers, errs>>
    BY <1>4, Zenon DEF LimitedEnd, configVars
  <2>. QED
    BY <2>1, Zenon DEF LimitedInv
<1>5. CASE DropBody
  <2>1. /\ body' = "dropped"
        /\ UNCHANGED <<kind, topLimit, src, sent, trailers, size, tripped, got, given,
                       gotTrailers, errs>>
    BY <1>5, Zenon DEF DropBody, configVars, sourceVars
  <2>. QED
    BY <2>1, Zenon DEF LimitedInv
<1>6. Next => \/ \E n \in FrameSizes : LimitedData(n)
              \/ LimitedTrailers \/ LimitedError \/ LimitedEnd \/ DropBody
  BY Zenon
  DEF Next, Source, Task, Poll, Receive, ReadChunk, ReceiveEnd, ReceiveFails, ReadStops,
      ReceiveTrailers, SendFrame, SendFails, Verify, PollQueue, PollEnd, ControlInv
<1>. QED
  BY <1>1, <1>2, <1>3, <1>4, <1>5, <1>6
-----------------------------------------------------------------------------
(***************************************************************************)
(* What moving frames between the ends of the relay keeps                  *)
(***************************************************************************)
LEMMA TakeOne == ASSUME NEW S, NEW g \in Seq(S), NEW q \in Seq(S), NEW x \in S
                 PROVE Append((g \o q) \o <<>>, x) = (g \o q) \o <<x>>
OBVIOUS

LEMMA TakeLost ==
  \A g, p \in Seq(FrameSizes) : \A x \in FrameSizes :
    \E r \in Seq(FrameSizes) : Append(g \o p, x) = g \o r
<1>. TAKE g, p \in Seq(FrameSizes)
<1>. TAKE x \in FrameSizes
<1>1. Append(g \o p, x) = g \o Append(p, x)
  BY SMTT(30)
<1>2. Append(p, x) \in Seq(FrameSizes)
  OBVIOUS
<1>. QED
  BY <1>1, <1>2, Zenon

LEMMA PollOne == ASSUME NEW S, NEW g \in Seq(S), NEW q \in Seq(S), q # <<>>
                 PROVE Append(g, Head(q)) \o Tail(q) = g \o q
BY SMTT(30)

LEMMA DropAll ==
  \A g, q, p \in Seq(FrameSizes) : \E r \in Seq(FrameSizes) : (g \o q) \o p = g \o r
<1>. TAKE g, q, p \in Seq(FrameSizes)
<1>1. (g \o q) \o p = g \o (q \o p)
  BY SMTT(30)
<1>2. q \o p \in Seq(FrameSizes)
  OBVIOUS
<1>. QED
  BY <1>1, <1>2, Zenon

LEMMA LastOne ==
  \A g \in Seq(FrameSizes) : \A x \in FrameSizes : \A s : s = g \o <<x>> => s[Len(s)] = x
<1>. SUFFICES ASSUME NEW g \in Seq(FrameSizes), NEW x \in FrameSizes
             PROVE (g \o <<x>>)[Len(g \o <<x>>)] = x
  BY Zenon
<1>1. Len(g \o <<x>>) = Len(g) + 1
  OBVIOUS
<1>2. (g \o <<x>>)[Len(g) + 1] = x
  OBVIOUS
<1>. QED
  BY <1>1, <1>2, Zenon

LEMMA ShortSeq == ASSUME NEW S, NEW p \in Seq(S)
                  PROVE /\ Len(p) = 0 => p = <<>>
                        /\ Len(p) = 1 => p[1] \in S /\ p = <<p[1]>>
OBVIOUS

LEMMA HeadTail == ASSUME NEW S, NEW q \in Seq(S), NEW x
                  PROVE /\ q # <<>> => /\ Head(Append(q, x)) = Head(q)
                                       /\ Tail(Append(q, x)) = Append(Tail(q), x)
                                       /\ Head(q) \in S /\ Tail(q) \in Seq(S)
                        /\ Head(Append(<<>>, x)) = x /\ Tail(Append(<<>>, x)) = <<>>
OBVIOUS

\* A frame arrives: the task holds it or, past the limit, has refused it.
Taken(n) ==
  /\ kind # "limited" /\ pc = "recv" /\ UNCHANGED <<kind, body, got, errs>>
  /\ sent' = Append(sent, n)
  /\ queue' = IF Over' /\ body # "dropped" THEN Append(queue, Aborted) ELSE queue
  /\ pc' = "send" \/ Over'

LEMMA DataTaken ==
  ASSUME DataType, ControlInv, DataInv, NEW n \in FrameSizes, Taken(n)
  PROVE  DataInv'
<1>0. UNCHANGED <<kind, body, got, errs>> /\ kind # "limited" /\ sent' = Append(sent, n)
  BY Zenon DEF Taken
<1>1. got \in Seq(FrameSizes) /\ errs \in Nat
  BY DEF DataType
<1>2. ~Over /\ ~(errs > 0) /\ pc # "send"
  BY Zenon DEF ControlInv, Taken
<1>3. errs = 0
  BY <1>1, <1>2
<1>4. CASE body = "dropped"
  <2>1. PICK p \in Seq(FrameSizes) : sent = got \o p
    BY <1>0, <1>4, Zenon DEF DataInv
  <2>2. \E r \in Seq(FrameSizes) : Append(got \o p, n) = got \o r
    BY <1>1, TakeLost, Zenon
  <2>t. \E r \in Seq(FrameSizes) : sent' = got' \o r
    BY <1>0, <2>1, <2>2, Zenon
  <2>3. queue' = <<>> /\ body' = "dropped"
    BY <1>0, <1>4, Zenon DEF DataInv, Taken
  <2>. QED
    BY <2>t, <2>3, Zenon DEF DataInv
<1>5. CASE body # "dropped"
  <2>1. PICK q, p \in Seq(FrameSizes) : Relayed(q, p)
    BY <1>0, <1>5, Zenon DEF DataInv
  <2>2. Len(p) = 0
    BY <1>2, <2>1, Zenon DEF Relayed
  <2>3. p = <<>>
    BY <2>2, ShortSeq
  <2>4. sent' = (got' \o q) \o <<n>>
    BY <1>0, <1>1, <2>1, <2>3, TakeOne, SMTT(30) DEF Relayed
  <2>5. queue = q
    BY <1>2, <2>1, Zenon DEF Relayed
  <2>6. queue' = IF Over' /\ errs' = 0 THEN Append(q, Aborted) ELSE q
    BY <1>0, <1>3, <1>5, <2>5, Zenon DEF Taken
  <2>7. <<n>> \in Seq(FrameSizes) /\ Len(<<n>>) = 1
    OBVIOUS
  <2>8. Relayed(q, <<n>>)'
    BY <2>4, <2>6, <2>7, Zenon DEF Relayed, Taken
  <2>9. body' # "dropped"
    BY <1>0, <1>5
  <2>. QED
    BY <2>7, <2>8, <2>9, Zenon DEF DataInv
<1>. QED
  BY <1>4, <1>5

LEMMA DataSent == DataType /\ ControlInv /\ DataInv /\ kind # "limited" /\ SendFrame => DataInv'
<1>. SUFFICES ASSUME DataType, ControlInv, DataInv, kind # "limited", SendFrame PROVE DataInv'
  OBVIOUS
<1>0. got \in Seq(FrameSizes) /\ errs \in Nat
  BY DEF DataType
<1>1. /\ pc = "send" /\ want # "closed" /\ queue' = Append(queue, sent[Len(sent)]) /\ pc' = "recv"
      /\ UNCHANGED <<kind, sent, got, body, errs>> /\ KeepsSize
  BY Zenon DEF SendFrame, KeepsSize, configVars, sourceVars, consumerVars
<1>2. body # "dropped" /\ ~Over
  BY <1>1, Zenon DEF ControlInv
<1>3. PICK q, p \in Seq(FrameSizes) : Relayed(q, p)
  BY <1>2, Zenon DEF DataInv
<1>4. Len(p) = 1 /\ queue = q /\ sent = (got \o q) \o p
  BY <1>1, <1>2, <1>3, Zenon DEF Relayed
<1>5. PICK x \in FrameSizes : p = <<x>>
  BY <1>4, ShortSeq
<1>6. got \o q \in Seq(FrameSizes)
  BY <1>0
<1>7. sent[Len(sent)] = x
  BY <1>4, <1>5, <1>6, LastOne, ZenonT(30)
<1>8. sent = (got \o Append(q, x)) \o <<>>
  <2>1. (got \o Append(q, x)) \o <<>> = (got \o q) \o <<x>>
    BY <1>0, SMTT(30)
  <2>. QED
    BY <1>4, <1>5, <2>1, Zenon
<1>9. Append(q, x) \in Seq(FrameSizes) /\ <<>> \in Seq(FrameSizes) /\ Len(<<>>) = 0
  BY <1>5
<1>10. ~Over'
  BY <1>1, <1>2, OverKept
<1>11. Relayed(Append(q, x), <<>>)'
  BY <1>1, <1>4, <1>7, <1>8, <1>9, <1>10, SMTT(30) DEF Relayed
<1>. QED
  BY <1>1, <1>2, <1>9, <1>11, Zenon DEF DataInv

LEMMA DataPolled == DataType /\ ControlInv /\ DataInv /\ PollQueue => DataInv'
<1>. SUFFICES ASSUME DataType, ControlInv, DataInv, PollQueue PROVE DataInv'
  OBVIOUS
<1>0. got \in Seq(FrameSizes) /\ errs \in Nat
  BY DEF DataType
<1>1. /\ kind # "limited" /\ body = "live" /\ queue # <<>> /\ queue' = Tail(queue)
      /\ UNCHANGED <<kind, sent, body, pc>> /\ KeepsSize
  BY Zenon DEF PollQueue, KeepsSize, configVars, sourceVars
<1>2. PICK q, p \in Seq(FrameSizes) : Relayed(q, p)
  BY <1>1, Zenon DEF DataInv
<1>3. Over' <=> Over
  BY <1>1, OverKept
<1>4. CASE Head(queue) = Aborted
  <2>1. Over /\ errs = 0 /\ q = <<>> /\ Tail(queue) = <<>>
    BY <1>1, <1>2, <1>4, AbortedLast, Zenon
  <2>2. errs' = errs + 1 /\ UNCHANGED got
    BY <1>4, Zenon DEF PollQueue
  <2>3. errs' # 0
    BY <1>0, <2>2
  <2>4. Relayed(q, p)'
    BY <1>1, <1>2, <1>3, <2>1, <2>2, <2>3, Zenon DEF Relayed
  <2>. QED
    BY <1>1, <2>4, Zenon DEF DataInv
<1>5. CASE Head(queue) # Aborted
  <2>1. got' = Append(got, Head(queue)) /\ UNCHANGED errs
    BY <1>5, Zenon DEF PollQueue, Give
  <2>2. q # <<>>
    BY <1>1, <1>2, <1>5, HeadTail, Zenon DEF Relayed
  <2>3. Head(queue) = Head(q)
    BY <1>2, <2>2, HeadTail, ZenonT(30) DEF Relayed
  <2>t. Tail(Append(q, Aborted)) = Append(Tail(q), Aborted)
    BY <2>2
  <2>4. Tail(queue) = IF Over /\ errs = 0 THEN Append(Tail(q), Aborted) ELSE Tail(q)
    BY <1>2, <2>t, Zenon DEF Relayed
  <2>5. Tail(q) \in Seq(FrameSizes)
    BY <2>2
  <2>p. Append(got, Head(q)) \o Tail(q) = got \o q
    BY <1>0, <2>2, PollOne, Zenon
  <2>6. sent = (got' \o Tail(q)) \o p
    BY <1>2, <2>1, <2>3, <2>p, Zenon DEF Relayed
  <2>7. Relayed(Tail(q), p)'
    BY <1>1, <1>2, <1>3, <2>1, <2>4, <2>6, Zenon DEF Relayed
  <2>. QED
    BY <1>1, <2>5, <2>7, Zenon DEF DataInv
<1>. QED
  BY <1>4, <1>5
LEMMA DataDropped == DataType /\ DataInv /\ DropBody => DataInv'
<1>. SUFFICES ASSUME DataType, DataInv, DropBody PROVE DataInv'
  OBVIOUS
<1>0. got \in Seq(FrameSizes)
  BY DEF DataType
<1>1. /\ body = "live" /\ body' = "dropped" /\ queue' = <<>> /\ UNCHANGED <<kind, sent, got>>
  BY Zenon DEF DropBody, configVars, sourceVars
<1>2. CASE kind # "limited"
  <2>1. PICK q, p \in Seq(FrameSizes) : Relayed(q, p)
    BY <1>1, <1>2, Zenon DEF DataInv
  <2>2. \E r \in Seq(FrameSizes) : (got \o q) \o p = got \o r
    BY <1>0, DropAll, ZenonT(30)
  <2>3. \E r \in Seq(FrameSizes) : sent' = got' \o r
    BY <1>1, <2>1, <2>2, Zenon DEF Relayed
  <2>. QED
    BY <1>1, <2>3, Zenon DEF DataInv
<1>3. CASE kind = "limited"
  BY <1>1, <1>3 DEF DataInv
<1>. QED
  BY <1>2, <1>3

\* Steps that move no data.
Still == UNCHANGED <<kind, sent, got, queue, errs>> /\ (Over' <=> Over)

LEMMA DataStill ==
  ASSUME DataInv, Still, (pc = "send" <=> pc' = "send") \/ body = "dropped",
         body' = "dropped" <=> body = "dropped"
  PROVE  DataInv'
<1>1. UNCHANGED <<kind, sent, got, queue, errs>> /\ (Over' <=> Over)
  BY Zenon DEF Still
<1>2. CASE kind = "limited"
  BY <1>1, <1>2, Zenon DEF DataInv
<1>3. CASE kind # "limited" /\ body = "dropped"
  BY <1>1, <1>3, Zenon DEF DataInv
<1>4. CASE kind # "limited" /\ body # "dropped"
  <2>1. PICK q, p \in Seq(FrameSizes) : Relayed(q, p)
    BY <1>4, Zenon DEF DataInv
  <2>2. Relayed(q, p)'
    BY <1>1, <1>4, <2>1, Zenon DEF Relayed
  <2>. QED
    BY <1>4, <2>2, Zenon DEF DataInv
<1>. QED
  BY <1>2, <1>3, <1>4

LEMMA DataStep == TypeOK /\ DataType /\ ControlInv /\ DataInv /\ Next => DataInv'
<1>. SUFFICES ASSUME TypeOK, DataType, ControlInv, DataInv, Next PROVE DataInv'
  OBVIOUS
<1>1. ASSUME NEW n \in FrameSizes, Receive(n) PROVE DataInv'
  <2>1. /\ kind = "h3" /\ pc = "recv" /\ sent' = Append(sent, n) /\ size' = size + n
        /\ UNCHANGED <<kind, topLimit, h3Limit, body, got, errs>>
    BY <1>1, Zenon DEF Receive, configVars, consumerVars
  <2>2. Over' <=> Exceeds(size + n)
    BY <2>1, Zenon DEF Over, Exceeds, EffectiveLimit
  <2>3. Taken(n)
    BY <1>1, <2>1, <2>2, Zenon DEF Taken, Receive, Abort, channelVars
  <2>. QED
    BY <2>3, DataTaken
<1>2. ASSUME NEW n \in FrameSizes, LimitedData(n) PROVE DataInv'
  BY <1>2, Zenon DEF LimitedData, DataInv, configVars
<1>3. ASSUME Rest PROVE DataInv'
  <2>0. (Over' <=> Over) /\ UNCHANGED kind
    BY <1>3, RestKeepsSize, OverKept, Zenon DEF KeepsSize
  <2>1. ASSUME NEW n \in FrameSizes, ReadChunk(n) PROVE DataInv'
    <3>1. kind = "file" /\ ~Over'
      BY <2>0, <2>1, Zenon DEF ReadChunk, Over
    <3>2. Taken(n)
      BY <2>0, <2>1, <3>1, Zenon DEF Taken, ReadChunk, channelVars, consumerVars
    <3>. QED
      BY <3>2, DataTaken
  <2>2. CASE \/ ReceiveEnd \/ ReceiveFails \/ ReadStops \/ Verify
             \/ \E some \in BOOLEAN : ReceiveTrailers(some)
    <3>1. Still /\ UNCHANGED body
      BY <2>0, <2>2, Zenon
      DEF ReceiveEnd, ReceiveFails, ReadStops, Verify, ReceiveTrailers, Still, sourceVars,
          channelVars, consumerVars
    <3>2. pc # "send" /\ pc' # "send"
      BY <2>2, Zenon DEF ReceiveEnd, ReceiveFails, ReadStops, Verify, ReceiveTrailers
    <3>. QED
      BY <3>1, <3>2, DataStill
  <2>3. CASE SendFails
    <3>1. Still /\ UNCHANGED body /\ want = "closed"
      BY <2>0, <2>3, Zenon DEF SendFails, Still, sourceVars, consumerVars
    <3>2. body = "dropped"
      BY <3>1, Zenon DEF ControlInv
    <3>. QED
      BY <3>1, <3>2, DataStill
  <2>4. CASE PollEnd
    <3>1. Still /\ UNCHANGED pc /\ body = "live" /\ body' # "dropped"
      BY <2>0, <2>4 DEF PollEnd, Still, sourceVars
    <3>. QED
      BY <3>1, DataStill
  <2>5. CASE LimitedTrailers \/ LimitedError \/ LimitedEnd
    BY <2>0, <2>5, Zenon DEF LimitedTrailers, LimitedError, LimitedEnd, DataInv
  <2>6. CASE SendFrame
    BY <2>6, DataSent, Zenon DEF SendFrame, ControlInv
  <2>. QED
    BY <1>3, <2>1, <2>2, <2>3, <2>4, <2>5, <2>6, DataPolled, DataDropped DEF Rest
<1>. QED
  BY <1>1, <1>2, <1>3, NextCases DEF Takes
-----------------------------------------------------------------------------
LEMMA SizesNat ==
  ASSUME DataType, ControlInv
  PROVE  given \in Nat /\ size \in Nat /\ Waiting \in Nat /\ Held \in Nat
<1>1. /\ given \in Nat /\ size \in Nat /\ sent \in Seq(FrameSizes)
      /\ queue \in Seq(FrameSizes \cup {Aborted})
  BY DEF DataType
<1>2. \A n \in FrameSizes : n \in Nat
  BY SizesFacts, Zenon
<1>3. queue # <<>> /\ queue[1] # Aborted => queue[1] \in FrameSizes
  <2>1. queue # <<>> => queue[1] \in FrameSizes \cup {Aborted}
    BY <1>1
  <2>. QED
    BY <2>1, Zenon
<1>4. Waiting \in Nat
  BY <1>2, <1>3 DEF Waiting
<1>5. pc = "send" => sent # <<>>
  BY Zenon DEF ControlInv
<1>6. sent # <<>> => sent[Len(sent)] \in FrameSizes
  BY <1>1
<1>7. Held \in Nat
  BY <1>2, <1>5, <1>6 DEF Held
<1>. QED
  BY <1>1, <1>4, <1>7

\* While the task is at work there is no error in the channel.
LEMMA QueueClean ==
  ASSUME ControlInv, DataInv, kind # "limited", pc # "done"
  PROVE  queue \in Seq(FrameSizes)
<1>1. ~Over
  BY Zenon DEF ControlInv
<1>2. CASE body = "dropped"
  <2>1. queue = <<>>
    BY <1>2, Zenon DEF DataInv
  <2>. QED
    BY <2>1
<1>3. CASE body # "dropped"
  BY <1>1, <1>3, Zenon DEF DataInv, Relayed
<1>. QED
  BY <1>2, <1>3

\* HTTP/3: the channel has room for one frame, which is no error.
LEMMA QueueShort ==
  ASSUME queue \in Seq(FrameSizes), QueueOK
  PROVE  /\ queue = <<>> \/ (Len(queue) = 1 /\ queue[1] \in FrameSizes)
         /\ queue # <<>> => Waiting > 0
<1>1. Aborted \notin FrameSizes /\ \A n \in FrameSizes : n \in Nat /\ n > 0
  BY SizesFacts
<1>2. \A i \in 1..Len(queue) : queue[i] \in FrameSizes
  OBVIOUS
<1>3. Len(queue) = 2 => queue[2] \in FrameSizes
  BY <1>2
<1>4. queue = <<>> \/ Len(queue) = 1
  BY <1>1, <1>3, Zenon DEF QueueOK
<1>5. Len(queue) = 1 => queue[1] \in FrameSizes
  BY <1>2
<1>. QED
  BY <1>1, <1>4, <1>5 DEF Waiting

\* Steps that leave the channel and the sizes; the task may give up its frame.
Idle == /\ UNCHANGED <<kind, topLimit, h3Limit, size, given, queue, parked>>
        /\ Held' = Held \/ Held' = 0
        /\ pc' # "done" => pc # "done"

LEMMA BytesIdle == DataType /\ ControlInv /\ BytesInv /\ Idle => BytesInv'
<1>. SUFFICES ASSUME DataType, ControlInv, BytesInv, Idle, kind = "h3" PROVE BytesInv'
  BY Zenon DEF BytesInv, Idle
<1>0. given \in Nat /\ size \in Nat /\ Waiting \in Nat /\ Held \in Nat
  BY SizesNat
<1>1. /\ UNCHANGED <<kind, size, given, queue, parked>> /\ (pc' # "done" => pc # "done")
      /\ Held' = Held \/ Held' = 0
      /\ EffectiveLimit' = EffectiveLimit /\ Waiting' = Waiting /\ (QueueOK' <=> QueueOK)
  BY Zenon DEF Idle, EffectiveLimit, Waiting, QueueOK
<1>2. EffectiveLimit # Unlimited => EffectiveLimit \in Nat
  BY DEF DataType, EffectiveLimit
<1>3. Passing' <= Passing /\ Passing \in Nat /\ Passing' \in Nat
  BY <1>0, <1>1 DEF Passing
<1>4. QueueOK' /\ (~parked' => Waiting' = 0)
  BY <1>1, Zenon DEF BytesInv
<1>5. pc' # "done" => (queue' = <<>> \/ queue'[1] # Aborted) /\ Passing <= size
  BY <1>1, Zenon DEF BytesInv
<1>6. EffectiveLimit # Unlimited => Passing <= EffectiveLimit
  BY Zenon DEF BytesInv
<1>7. Passing <= size => Passing' <= size'
  BY <1>0, <1>1, <1>3
<1>8. EffectiveLimit' # Unlimited => Passing' <= EffectiveLimit'
  BY <1>1, <1>2, <1>3, <1>6
<1>. QED
  BY <1>4, <1>5, <1>7, <1>8, Zenon DEF BytesInv
LEMMA ErrorBehind == ASSUME NEW S, NEW q \in Seq(S), NEW x \in S
                     PROVE  Len(q) = 1 => /\ Len(Append(q, x)) = 2 /\ Append(q, x)[1] = q[1]
                                          /\ Append(q, x)[2] = x
<1>1. Len(Append(q, x)) = Len(q) + 1
  OBVIOUS
<1>2. \A i \in 1 .. Len(q) : Append(q, x)[i] = q[i]
  OBVIOUS
<1>3. Append(q, x)[Len(q) + 1] = x
  OBVIOUS
<1>. QED
  BY <1>1, <1>2, <1>3

LEMMA BytesReceived ==
  ASSUME DataType, ControlInv, DataInv, BytesInv, NEW n \in FrameSizes, Receive(n)
  PROVE  BytesInv'
<1>0. /\ given \in Nat /\ size \in Nat /\ Waiting \in Nat /\ n \in Nat
      /\ sent \in Seq(FrameSizes) /\ queue \in Seq(FrameSizes \cup {Aborted})
  BY SizesNat, SizesFacts, Zenon DEF DataType
<1>1. /\ kind = "h3" /\ pc = "recv" /\ sent' = Append(sent, n) /\ size' = size + n
      /\ UNCHANGED <<kind, topLimit, h3Limit, given, parked>>
  BY Zenon DEF Receive, Abort, channelVars, configVars, consumerVars
<1>2. EffectiveLimit' = EffectiveLimit /\ (EffectiveLimit # Unlimited => EffectiveLimit \in Nat)
  BY <1>1, Zenon DEF DataType, EffectiveLimit
<1>3. Held = 0 /\ QueueOK /\ queue \in Seq(FrameSizes)
  BY <1>1, QueueClean, Zenon DEF BytesInv, Held
<1>4. /\ Passing = given + Waiting /\ Passing <= size
      /\ EffectiveLimit # Unlimited => Passing <= EffectiveLimit
  <2>1. Passing <= size /\ (EffectiveLimit # Unlimited => Passing <= EffectiveLimit)
    BY <1>1, Zenon DEF BytesInv
  <2>2. Passing = given + Waiting
    BY <1>0, <1>3 DEF Passing
  <2>. QED
    BY <2>1, <2>2, Zenon
<1>5. queue = <<>> \/ (Len(queue) = 1 /\ queue[1] \in FrameSizes)
  BY <1>3, QueueShort
<1>6. CASE Exceeds(size + n)
  <2>1. pc' = "done" /\ queue' = IF body = "dropped" THEN queue ELSE Append(queue, Aborted)
    BY <1>6, Zenon DEF Receive, Abort
  <2>2. Held' = 0
    BY <2>1 DEF Held
  <2>3. queue' = queue \/ queue' = Append(queue, Aborted)
    BY <2>1, Zenon
  <2>4. QueueOK' /\ Waiting' = Waiting
    <3>1. CASE queue' = queue
      BY <1>3, <3>1, Zenon DEF QueueOK, Waiting
    <3>2. CASE queue' = Append(queue, Aborted) /\ queue = <<>>
      <4>1. Len(queue') = 1 /\ queue'[1] = Aborted
        BY <3>2
      <4>. QED
        BY <3>2, <4>1 DEF QueueOK, Waiting
    <3>3. CASE queue' = Append(queue, Aborted) /\ Len(queue) = 1 /\ queue[1] \in FrameSizes
      <4>1. Len(queue') = 2 /\ queue'[1] = queue[1] /\ queue'[2] = Aborted
        BY <1>0, <3>3, ErrorBehind
      <4>2. queue[1] # Aborted /\ queue # <<>> /\ queue' # <<>>
        BY <3>3, <4>1, SizesFacts
      <4>. QED
        BY <4>1, <4>2, Zenon DEF QueueOK, Waiting
    <3>. QED
      BY <1>5, <2>3, <3>1, <3>2, <3>3, Zenon
  <2>5. Passing' = Passing
    BY <1>0, <1>1, <1>4, <2>2, <2>4 DEF Passing
  <2>6. ~parked' => Waiting' = 0
    BY <1>1, <2>4, Zenon DEF BytesInv
  <2>. QED
    BY <1>1, <1>2, <1>4, <2>1, <2>4, <2>5, <2>6, Zenon DEF BytesInv
<1>7. CASE ~Exceeds(size + n)
  <2>1. pc' = "send" /\ UNCHANGED queue
    BY <1>7, Zenon DEF Receive, channelVars
  <2>2. Held' = n
    BY <1>0, <1>1, <2>1 DEF Held
  <2>3. QueueOK' /\ Waiting' = Waiting
    BY <1>3, <2>1, Zenon DEF QueueOK, Waiting
  <2>4. Passing' = Passing + n
    BY <1>0, <1>1, <1>4, <2>2, <2>3, Zenon DEF Passing
  <2>5. Passing' <= size'
    BY <1>0, <1>1, <1>4, <2>4
  <2>6. EffectiveLimit' # Unlimited => Passing' <= EffectiveLimit'
    BY <1>0, <1>1, <1>2, <1>4, <1>7, <2>4, <2>5, SMTT(30) DEF Exceeds
  <2>7. ~parked' => Waiting' = 0
    BY <1>1, <2>3, Zenon DEF BytesInv
  <2>8. queue' = <<>> \/ queue'[1] # Aborted
    BY <1>1, <2>1, Zenon DEF BytesInv
  <2>. QED
    BY <2>3, <2>5, <2>6, <2>7, <2>8, Zenon DEF BytesInv
<1>. QED
  BY <1>6, <1>7

\* The channel of HTTP/3 has no buffer, and its only sender one slot.
LEMMA BytesSent ==
  ASSUME DataType, ControlInv, DataInv, BytesInv, SendFrame, kind = "h3"
  PROVE  BytesInv'
<1>0. given \in Nat /\ size \in Nat /\ Waiting \in Nat /\ Held \in Nat /\ sent \in Seq(FrameSizes)
  BY SizesNat, Zenon DEF DataType
<1>1. /\ pc = "send" /\ ~parked /\ pc' = "recv" /\ queue' = Append(queue, sent[Len(sent)])
      /\ parked' = (Len(queue) + 1 > Buffer)
      /\ UNCHANGED <<kind, topLimit, h3Limit, size, given>>
  BY Zenon DEF SendFrame, configVars, consumerVars
<1>2. QueueOK /\ Waiting = 0 /\ queue \in Seq(FrameSizes)
  BY <1>1, QueueClean, Zenon DEF BytesInv
<1>3. queue = <<>>
  BY <1>2, QueueShort
<1>4. parked'
  <2>1. Len(queue) + 1 > Buffer
    BY <1>3 DEF Buffer
  <2>. QED
    BY <1>1, <2>1, Zenon
<1>5. sent[Len(sent)] \in FrameSizes
  <2>1. sent # <<>>
    BY <1>1, Zenon DEF ControlInv
  <2>. QED
    BY <1>0, <2>1
<1>6. Len(queue') = 1 /\ queue'[1] = sent[Len(sent)] /\ queue' # <<>> /\ queue'[1] # Aborted
  BY <1>1, <1>3, <1>5, SizesFacts
<1>7. QueueOK' /\ Waiting' = Held /\ Held' = 0
  BY <1>1, <1>6 DEF QueueOK, Waiting, Held
<1>8. Passing' = Passing
  BY <1>0, <1>1, <1>2, <1>7 DEF Passing
<1>9. EffectiveLimit' = EffectiveLimit
  BY <1>1, Zenon DEF EffectiveLimit
<1>. QED
  BY <1>1, <1>4, <1>6, <1>7, <1>8, <1>9, Zenon DEF BytesInv

LEMMA BytesPolled ==
  ASSUME DataType, ControlInv, DataInv, BytesInv, PollQueue, kind = "h3"
  PROVE  BytesInv'
<1>0. given \in Nat /\ size \in Nat /\ Waiting \in Nat /\ Held \in Nat
  BY SizesNat
<1>1. /\ queue # <<>> /\ queue' = Tail(queue)
      /\ UNCHANGED <<kind, topLimit, h3Limit, size, sent, pc>>
      /\ given' = IF Head(queue) = Aborted THEN given ELSE given + Head(queue)
  BY Zenon DEF PollQueue, Give, configVars, sourceVars
<1>2. Head(queue) = queue[1] /\ queue \in Seq(FrameSizes \cup {Aborted})
  BY <1>1, QueueHead, Zenon DEF DataType
<1>3. given' = given + Waiting
  BY <1>0, <1>1, <1>2 DEF Waiting
<1>4. QueueOK
  BY Zenon DEF BytesInv
<1>5. queue' = <<>> \/ (Len(queue) = 2 /\ Len(queue') = 1 /\ queue'[1] = Aborted)
  BY <1>1, <1>2, <1>4, SMTT(30) DEF QueueOK
<1>6. QueueOK' /\ Waiting' = 0
  BY <1>5, Zenon DEF QueueOK, Waiting
<1>7. Held' = Held
  BY <1>1, Zenon DEF Held
<1>8. Passing' = Passing
  BY <1>0, <1>3, <1>6, <1>7 DEF Passing
<1>9. EffectiveLimit' = EffectiveLimit
  BY <1>1, Zenon DEF EffectiveLimit
<1>10. pc' # "done" => queue' = <<>>
  <2>1. pc' # "done" => queue \in Seq(FrameSizes)
    BY <1>1, QueueClean, Zenon
  <2>2. pc' # "done" => Len(queue) # 2
    BY <1>4, <2>1, QueueShort, SMTT(30)
  <2>. QED
    BY <1>5, <2>2
<1>. QED
  BY <1>1, <1>6, <1>8, <1>9, <1>10, Zenon DEF BytesInv

LEMMA BytesDropped ==
  ASSUME DataType, ControlInv, BytesInv, DropBody, kind = "h3"
  PROVE  BytesInv'
<1>0. given \in Nat /\ size \in Nat /\ Waiting \in Nat /\ Held \in Nat
  BY SizesNat
<1>1. /\ queue' = <<>> /\ UNCHANGED <<kind, topLimit, h3Limit, size, sent, pc, given>>
  BY Zenon DEF DropBody, configVars, sourceVars
<1>2. QueueOK' /\ Waiting' = 0 /\ Held' = Held /\ EffectiveLimit' = EffectiveLimit
  BY <1>1, Zenon DEF QueueOK, Waiting, Held, EffectiveLimit
<1>3. Passing' <= Passing /\ Passing \in Nat /\ Passing' \in Nat
  BY <1>0, <1>1, <1>2 DEF Passing
<1>4. EffectiveLimit # Unlimited => EffectiveLimit \in Nat
  BY Zenon DEF DataType, EffectiveLimit
<1>5. pc' # "done" => Passing <= size
  BY <1>1, Zenon DEF BytesInv
<1>6. EffectiveLimit # Unlimited => Passing <= EffectiveLimit
  BY Zenon DEF BytesInv
<1>7. pc' # "done" => Passing' <= size'
  BY <1>0, <1>1, <1>3, <1>5
<1>8. EffectiveLimit' # Unlimited => Passing' <= EffectiveLimit'
  BY <1>2, <1>3, <1>4, <1>6
<1>. QED
  BY <1>1, <1>2, <1>7, <1>8, Zenon DEF BytesInv
LEMMA BytesStep == TypeOK /\ DataType /\ ControlInv /\ DataInv /\ BytesInv /\ Next => BytesInv'
<1>. SUFFICES ASSUME TypeOK, DataType, ControlInv, DataInv, BytesInv, Next PROVE BytesInv'
  OBVIOUS
<1>1. CASE Takes
  <2>1. ASSUME NEW n \in FrameSizes, LimitedData(n) PROVE BytesInv'
    BY <2>1, Zenon DEF LimitedData, BytesInv, configVars
  <2>. QED
    BY <1>1, <2>1, BytesReceived DEF Takes
<1>2. CASE Rest
  <2>0. UNCHANGED <<kind, topLimit, h3Limit, size>>
    BY <1>2, RestKeepsSize, Zenon DEF KeepsSize
  <2>1. CASE \/ ReceiveEnd \/ ReceiveFails \/ SendFails \/ Verify
             \/ \E some \in BOOLEAN : ReceiveTrailers(some)
    <3>1. /\ pc # "done" /\ pc' \in {"trailers", "done"} /\ UNCHANGED <<given, queue, parked>>
      BY <2>1, Zenon
      DEF ReceiveEnd, ReceiveFails, SendFails, Verify, ReceiveTrailers, channelVars, consumerVars
    <3>2. Held' = 0
      BY <3>1 DEF Held
    <3>3. Idle
      BY <2>0, <3>1, <3>2, Zenon DEF Idle
    <3>. QED
      BY <3>3, BytesIdle
  <2>2. CASE PollEnd
    <3>1. UNCHANGED <<pc, sent, given, queue, parked>>
      BY <2>2, Zenon DEF PollEnd, sourceVars
    <3>2. Held' = Held
      BY <3>1, Zenon DEF Held
    <3>3. Idle
      BY <2>0, <3>1, <3>2, Zenon DEF Idle
    <3>. QED
      BY <3>3, BytesIdle
  <2>3. CASE \/ ReadStops \/ LimitedTrailers \/ LimitedError \/ LimitedEnd
             \/ \E n \in FrameSizes : ReadChunk(n)
    <3>1. kind # "h3"
      BY <2>3, Zenon DEF ReadStops, LimitedTrailers, LimitedError, LimitedEnd, ReadChunk
    <3>. QED
      BY <2>0, <3>1, Zenon DEF BytesInv
  <2>4. CASE SendFrame \/ PollQueue \/ DropBody
    <3>1. CASE kind # "h3"
      BY <2>0, <3>1, Zenon DEF BytesInv
    <3>. QED
      BY <2>4, <3>1, BytesSent, BytesPolled, BytesDropped
  <2>. QED
    BY <1>2, <2>1, <2>2, <2>3, <2>4, Zenon DEF Rest
<1>. QED
  BY <1>1, <1>2, NextCases
-----------------------------------------------------------------------------
LEMMA InitInv == Init => Inv
<1>. SUFFICES ASSUME Init PROVE Inv
  OBVIOUS
<1>1. TypeOK
  BY Zenon DEF Init, TypeOK
<1>2. DataType
  BY LimitsAssumption DEF Init, DataType
<1>3. ~Over /\ ~(errs > 0)
  <2>1. EffectiveLimit # Unlimited => EffectiveLimit \in Nat
    BY <1>2, Zenon DEF DataType, EffectiveLimit
  <2>. QED
    BY <2>1 DEF Init, Over, Exceeds
<1>4. ControlInv
  BY <1>3, Zenon DEF Init, ControlInv
<1>5. TrailersInv /\ FileInv
  BY <1>3, Zenon DEF Init, TrailersInv, FileInv
<1>6. DataInv
  <2>1. <<>> \in Seq(FrameSizes) /\ (<<>> \o <<>>) \o <<>> = <<>> /\ Len(<<>>) = 0
    OBVIOUS
  <2>2. pc # "send" /\ body # "dropped" /\ sent = <<>> /\ got = <<>> /\ queue = <<>>
    BY Zenon DEF Init
  <2>3. Relayed(<<>>, <<>>)
    BY <1>3, <2>1, <2>2 DEF Relayed
  <2>. QED
    BY <2>1, <2>2, <2>3, Zenon DEF DataInv
<1>7. BytesInv
  <2>1. QueueOK /\ Waiting = 0 /\ Held = 0 /\ given = 0 /\ size = 0 /\ queue = <<>>
    BY Zenon DEF Init, QueueOK, Waiting, Held
  <2>2. Passing = 0
    BY <2>1 DEF Passing
  <2>3. EffectiveLimit # Unlimited => EffectiveLimit \in Nat
    BY <1>2 DEF DataType, EffectiveLimit
  <2>. QED
    BY <2>1, <2>2, <2>3 DEF BytesInv
<1>8. LimitedInv
  <2>1. topLimit # Unlimited => given <= topLimit
    BY <1>2 DEF Init, DataType
  <2>. QED
    BY <1>3, <2>1, Zenon DEF Init, LimitedInv
<1>. QED
  BY <1>1, <1>2, <1>4, <1>5, <1>6, <1>7, <1>8 DEF Inv

LEMMA NextInv == Inv /\ [Next]_vars => Inv'
<1>. SUFFICES ASSUME Inv, [Next]_vars PROVE Inv'
  OBVIOUS
<1>1. CASE Next
  BY <1>1, TypeStep, DataTypeStep, ControlStep, TrailersStep, FileStep, DataStep, BytesStep,
     LimitedStep, Zenon DEF Inv
<1>2. CASE UNCHANGED vars
  <2>1. /\ UNCHANGED <<kind, topLimit, h3Limit, intact, src, sent, trailers, size, tripped, pc>>
        /\ UNCHANGED <<queue, parked, oneshot, want, unlinked, body, got, given, gotTrailers, errs>>
    BY <1>2, Zenon DEF vars, configVars, sourceVars, channelVars, consumerVars
  <2>2. (Over' <=> Over) /\ EffectiveLimit' = EffectiveLimit /\ Passing' = Passing
        /\ Waiting' = Waiting /\ (QueueOK' <=> QueueOK)
    BY <2>1, Zenon DEF Over, Exceeds, EffectiveLimit, Passing, Waiting, Held, QueueOK
  <2>3. TypeOK' /\ DataType'
    <3>1. TypeOK /\ DataType
      BY Zenon DEF Inv
    <3>2. TypeOK'
      BY <2>1, <3>1, SMTT(30) DEF TypeOK
    <3>3. DataType'
      BY <2>1, <3>1, Zenon DEF DataType
    <3>. QED
      BY <3>2, <3>3
  <2>4. ControlInv'
    BY <2>1, <2>2, ZenonT(30) DEF Inv, ControlInv
  <2>5. TrailersInv' /\ FileInv'
    BY <2>1, <2>2, Zenon DEF Inv, TrailersInv, FileInv
  <2>6. DataInv'
    BY <2>1, <2>2, DataStill, Zenon DEF Inv, Still
  <2>7. BytesInv' /\ LimitedInv'
    BY <2>1, <2>2, Zenon DEF Inv, BytesInv, LimitedInv
  <2>. QED
    BY <2>3, <2>4, <2>5, <2>6, <2>7, Zenon DEF Inv
<1>. QED
  BY <1>1, <1>2
\* The task, the channel and the consumer of each of the three bodies stay in
\* step: nothing is lost, repeated or reordered between them, and the sizes the
\* limit was checked on cover what is on its way.
THEOREM Invariant == Spec => []Inv
BY InitInv, NextInv, PTL DEF Spec
-----------------------------------------------------------------------------
\* The consumer of a request body is never given more data than the limit in
\* force for its protocol, whatever the frames: over HTTP/3 although the task
\* counts a frame before it is sent and the consumer polls it later.
THEOREM LimitKept == Spec => []WithinLimit
<1>1. Inv => WithinLimit
  <2>. SUFFICES ASSUME Inv PROVE WithinLimit
    OBVIOUS
  <2>1. TypeOK /\ DataType /\ ControlInv /\ BytesInv /\ LimitedInv
    BY Zenon DEF Inv
  <2>2. CASE kind = "h3"
    <3>1. given \in Nat /\ Waiting \in Nat /\ Held \in Nat
      BY <2>1, SizesNat
    <3>2. EffectiveLimit # Unlimited => Passing <= EffectiveLimit /\ EffectiveLimit \in Nat
      BY <2>1, <2>2, Zenon DEF BytesInv, DataType, EffectiveLimit
    <3>3. EffectiveLimit # Unlimited => given <= EffectiveLimit
      BY <3>1, <3>2 DEF Passing
    <3>. QED
      BY <2>2, <3>3, Zenon DEF WithinLimit, EffectiveLimit
  <2>3. CASE kind = "limited"
    BY <2>1, <2>3, Zenon DEF LimitedInv, WithinLimit
  <2>4. CASE kind = "file"
    BY <2>1, <2>4, Zenon DEF ControlInv, WithinLimit
  <2>. QED
    BY <2>1, <2>2, <2>3, <2>4, Zenon DEF TypeOK
<1>. QED
  BY <1>1, Invariant, PTL

LEMMA PrefixOf == ASSUME NEW S, NEW g \in Seq(S), NEW r \in Seq(S), NEW s, s = g \o r
                  PROVE Len(g) <= Len(s) /\ g = SubSeq(s, 1, Len(g))
OBVIOUS

\* A body that ends without an error is the whole body, in order and with its
\* trailers, for all three bodies; the exception is a source that fails under
\* one of the two relay tasks, which end without Sender::abort.
THEOREM CleanEnd == Spec => []CleanEndIsWhole
<1>1. Inv => CleanEndIsWhole
  <2>. SUFFICES ASSUME Inv PROVE CleanEndIsWhole
    OBVIOUS
  <2>0. TypeOK /\ DataType /\ ControlInv /\ TrailersInv /\ DataInv /\ LimitedInv
    BY Zenon DEF Inv
  <2>1. got \in Seq(FrameSizes) /\ sent \in Seq(FrameSizes) /\ errs \in Nat
    BY <2>0 DEF DataType
  <2>2. \E r \in Seq(FrameSizes) : sent = got \o r
    <3>1. CASE kind = "limited"
      <4>1. sent = got \/ \E x \in FrameSizes : sent = Append(got, x)
        BY <2>0, <3>1, Zenon DEF LimitedInv
      <4>2. sent = got => sent = got \o <<>>
        BY <2>1
      <4>3. \A x \in FrameSizes : Append(got, x) = got \o <<x>>
        BY <2>1
      <4>4. <<>> \in Seq(FrameSizes) /\ \A x \in FrameSizes : <<x>> \in Seq(FrameSizes)
        OBVIOUS
      <4>. QED
        BY <4>1, <4>2, <4>3, <4>4, Zenon
    <3>2. CASE kind # "limited" /\ body = "dropped"
      BY <2>0, <3>2, Zenon DEF DataInv
    <3>3. CASE kind # "limited" /\ body # "dropped"
      <4>1. PICK q, p \in Seq(FrameSizes) : Relayed(q, p)
        BY <2>0, <3>3, Zenon DEF DataInv
      <4>g. got \in Seq(FrameSizes)
        BY <2>1
      <4>2. \E r \in Seq(FrameSizes) : (got \o q) \o p = got \o r
        BY <4>g, DropAll, ZenonT(30)
      <4>. QED
        BY <4>1, <4>2, Zenon DEF Relayed
    <3>. QED
      BY <3>1, <3>2, <3>3, Zenon
  <2>3. Len(got) <= Len(sent) /\ got = SubSeq(sent, 1, Len(got))
    BY <2>1, <2>2, PrefixOf, Zenon
  <2>4. ASSUME body = "ended", errs = 0
        PROVE  \/ src = "whole" /\ got = sent /\ gotTrailers = trailers
               \/ src = "failed" /\ kind # "limited"
    <3>0. ~(errs > 0)
      BY <2>4
    <3>1. CASE kind = "limited"
      <4>1. ~tripped /\ src \notin {"open", "failed"} /\ got = sent /\ trailers = gotTrailers
        BY <2>0, <2>4, <3>0, <3>1, Zenon DEF LimitedInv
      <4>. QED
        BY <2>0, <4>1 DEF TypeOK
    <3>2. CASE kind # "limited"
      <4>1. PICK q, p \in Seq(FrameSizes) : Relayed(q, p)
        BY <2>0, <2>4, <3>2 DEF DataInv
      <4>2. pc = "done" /\ queue = <<>>
        BY <2>0, <2>4, <3>2, Zenon DEF ControlInv
      <4>3. Append(q, Aborted) # <<>>
        OBVIOUS
      <4>4. ~Over /\ q = <<>> /\ Len(p) = 0
        BY <2>4, <4>1, <4>2, <4>3 DEF Relayed
      <4>5. p = <<>>
        BY <4>4, ShortSeq
      <4>6. sent = got
        BY <2>1, <4>1, <4>4, <4>5 DEF Relayed
      <4>7. src # "open"
        BY <2>0, <2>4, <3>2, <4>2, <4>4, Zenon DEF ControlInv
      <4>8. trailers <=> gotTrailers
        BY <2>0, <2>4, <3>2 DEF TrailersInv
      <4>9. trailers = gotTrailers
        BY <2>0, <4>8, Zenon DEF TypeOK
      <4>. QED
        BY <2>0, <3>2, <4>6, <4>7, <4>9, Zenon DEF TypeOK
    <3>. QED
      BY <3>1, <3>2
  <2>. QED
    BY <2>3, <2>4, Zenon DEF CleanEndIsWhole
<1>. QED
  BY <1>1, Invariant, PTL

\* A cache file is removed by the task that reads it exactly when it was read to
\* its end or to a read error and the hash differs, never because the client left.
THEOREM OnlyCorruptedRemoved == Spec => []RemovesOnlyCorrupted
<1>1. Inv => RemovesOnlyCorrupted
  BY Zenon DEF Inv, FileInv, RemovesOnlyCorrupted
<1>. QED
  BY <1>1, Invariant, PTL

\* Once the consumer has been given an error no step gives it a frame, trailers
\* or a second error, whoever polls on.
THEOREM ErrorIsLast == Spec => NothingAfterError
<1>1. Inv /\ [Next]_vars => [errs > 0 => UNCHANGED <<got, gotTrailers, errs>>]_vars
  <2>. SUFFICES ASSUME Inv, Next, errs > 0 PROVE UNCHANGED <<got, gotTrailers, errs>>
    BY Zenon
  <2>0. ControlInv /\ TrailersInv /\ LimitedInv
    BY Zenon DEF Inv
  <2>1. kind # "limited" => queue = <<>> /\ oneshot = "open"
    BY <2>0, Zenon DEF ControlInv, TrailersInv
  <2>2. kind = "limited" => tripped \/ src # "open"
    BY <2>0 DEF LimitedInv
  <2>3. CASE Source \/ Task
    BY <2>3, Zenon
    DEF Source, Task, Receive, ReadChunk, ReceiveEnd, ReceiveFails, ReadStops, ReceiveTrailers,
        SendFrame, SendFails, Verify, consumerVars
  <2>4. CASE PollQueue \/ PollEnd
    BY <2>1, <2>4, Zenon DEF PollQueue, PollEnd
  <2>5. CASE \/ LimitedTrailers \/ LimitedError \/ LimitedEnd
             \/ \E n \in FrameSizes : LimitedData(n)
    BY <2>2, <2>5, Zenon DEF LimitedTrailers, LimitedError, LimitedEnd, LimitedData, More
  <2>6. CASE DropBody
    BY <2>6, Zenon DEF DropBody
  <2>. QED
    BY <2>3, <2>4, <2>5, <2>6, Zenon DEF Next, Poll
<1>. QED
  BY <1>1, Invariant, PTL DEF Spec, NothingAfterError
============================================================================
