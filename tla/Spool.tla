-------------------------------- MODULE Spool --------------------------------
(***************************************************************************)
(* The store/miss path of the response cache: spool_and_store relays an    *)
(* upstream body to the client through a bounded channel and, as a side    *)
(* effect, collects it on memory or in a temporary file.  One put task and *)
(* the consumer of its channel.  A step of the task ends at an await of    *)
(* the upstream body or of the channel, the only places where its consumer *)
(* can tell the order.                                                     *)
(***************************************************************************)
EXTENDS Naturals, Sequences, Functions

CONSTANTS
  Lens,             \* possible lengths of a data frame
  MaxEachSize,      \* cache_max_each_size
  MaxOnMemory,      \* cache_max_each_size_on_memory, as configured
  Capacity,         \* CACHE_STREAM_CHANNEL_CAPACITY
  MaxFrames         \* bound on the frames of the upstream body

ASSUME LensAssumption == Lens \subseteq Nat
ASSUME SizesAssumption == MaxEachSize \in Nat /\ MaxOnMemory \in Nat
ASSUME CapacityAssumption == Capacity \in Nat
ASSUME FramesAssumption == MaxFrames \in Nat

VARIABLES
  pc,         \* "frame", "send", "parked", "store", "end" or "done"
  taken,      \* the frames taken from the upstream body so far
  ended,      \* the upstream body has yielded its end
  queue,      \* the frames in the channel
  got,        \* the frames the consumer has received
  rx,         \* the receiver: "open", "dropped", or "eof" once it saw the end
  size,       \* bytes accepted for caching
  buf,        \* the data frames held on memory
  bufLen,     \* and their bytes
  cacheable,
  spill,      \* an open SpillFile exists
  file,       \* the data frames written to the temporary file
  temp,       \* the temporary file: "absent", "present" or "stuck"
  result,     \* what the task returned: "none", "memory" or "file"
  ioFailed    \* history: a file operation failed

relayVars == <<taken, ended, queue, got, rx>>
storeVars == <<size, buf, bufLen, cacheable, spill, file, temp, ioFailed>>
vars == <<pc, taken, ended, queue, got, rx, size, buf, bufLen, cacheable, spill,
          file, temp, result, ioFailed>>

\* A frame is numbered by its place in the body; only data has a length.
Frame(i, kind, len) == [id |-> i, kind |-> kind, len |-> len]

Current == taken[Len(taken)]

\* RpxyCache::new lowers the on-memory limit to the limit of each object.
OnMemoryLimit == IF MaxEachSize < MaxOnMemory THEN MaxEachSize ELSE MaxOnMemory

Init ==
  /\ pc = "frame" /\ taken = <<>> /\ ended = FALSE
  /\ queue = <<>> /\ got = <<>> /\ rx = "open"
  /\ size = 0 /\ buf = <<>> /\ bufLen = 0 /\ cacheable = TRUE /\ spill = FALSE
  /\ file = <<>> /\ temp = "absent" /\ result = "none" /\ ioFailed = FALSE

(***************************************************************************)
(* The relay                                                               *)
(***************************************************************************)
\* body.frame().await yields a frame.
TakeFrame ==
  /\ pc = "frame"
  /\ Len(taken) < MaxFrames
  /\ \E f \in {Frame(Len(taken) + 1, "data", n) : n \in Lens}
              \cup {Frame(Len(taken) + 1, k, 0) : k \in {"trailers", "error"}} :
       taken' = Append(taken, f)
  /\ pc' = "send"
  /\ UNCHANGED <<ended, queue, got, rx, storeVars, result>>

\* body.frame().await yields None.
TakeNone ==
  /\ pc = "frame"
  /\ pc' = "end" /\ ended' = TRUE
  /\ UNCHANGED <<taken, queue, got, rx, storeVars, result>>

\* The temporary file, if any, is gone unless its unlink failed.
AbortSpill ==
  /\ spill' = FALSE
  /\ IF spill THEN temp' \in {"absent", "stuck"} ELSE UNCHANGED temp

\* body_tx.send fails: the receiver is gone, the store is abandoned.
SendFails ==
  /\ pc = "send"
  /\ rx = "dropped"
  /\ AbortSpill
  /\ pc' = "done" /\ result' = "none"
  /\ UNCHANGED <<relayVars, size, buf, bufLen, cacheable, file, ioFailed>>

\* Mutant: an unbounded channel.
SendUnbounded ==
  /\ pc = "send"
  /\ rx = "open"
  /\ queue' = Append(queue, Current)
  /\ pc' = "store"
  /\ UNCHANGED <<taken, ended, got, rx, storeVars, result>>

\* body_tx.send enqueues the frame; the sender of a futures mpsc channel is
\* parked when that leaves more than the channel's buffer queued.
Send ==
  /\ pc = "send"
  /\ rx = "open"
  /\ queue' = Append(queue, Current)
  /\ pc' = IF Len(queue) + 1 > Capacity THEN "parked" ELSE "store"
  /\ UNCHANGED <<taken, ended, got, rx, storeVars, result>>

(***************************************************************************)
(* The store.  GiveUp is the code's "no longer caching".                   *)
(***************************************************************************)
\* Mutant: caching stops and the temporary file stays.
GiveUpKeepsTemp ==
  /\ cacheable' = FALSE
  /\ buf' = <<>> /\ bufLen' = 0
  /\ UNCHANGED <<spill, temp>>

GiveUp ==
  /\ cacheable' = FALSE
  /\ buf' = <<>> /\ bufLen' = 0
  /\ AbortSpill

Resume == pc = "store" /\ pc' = "frame" /\ UNCHANGED <<relayVars, result>>

Collecting == cacheable /\ Current.kind = "data"

TooLarge == size + Current.len > MaxEachSize

Accept == size' = size + Current.len

\* The frame is not cached: caching was given up, or it is not data.
StoreNothing ==
  /\ Resume
  /\ ~cacheable \/ Current.kind = "trailers"
  /\ UNCHANGED storeVars

StoreError ==
  /\ Resume
  /\ cacheable /\ Current.kind = "error"
  /\ GiveUp
  /\ UNCHANGED <<size, file, ioFailed>>

\* Mutant: the loop is left when the body is over the limit.
StoreTooLargeBreaks ==
  /\ pc = "store" /\ pc' = "end"
  /\ Collecting /\ TooLarge
  /\ GiveUp
  /\ UNCHANGED <<relayVars, result, size, file, ioFailed>>

StoreTooLarge ==
  /\ Resume
  /\ Collecting /\ TooLarge
  /\ GiveUp
  /\ UNCHANGED <<size, file, ioFailed>>

\* Phase M, still under the on-memory limit.
StoreBuffer ==
  /\ Resume
  /\ Collecting /\ ~TooLarge /\ ~spill
  /\ bufLen + Current.len <= OnMemoryLimit
  /\ Accept
  /\ buf' = Append(buf, Current) /\ bufLen' = bufLen + Current.len
  /\ UNCHANGED <<cacheable, spill, file, temp, ioFailed>>

\* Phase M, crossing the limit: create the file, write the buffer, write the
\* frame; any of the three may fail.
StoreSpill ==
  /\ Resume
  /\ Collecting /\ ~TooLarge /\ ~spill
  /\ bufLen + Current.len > OnMemoryLimit
  /\ Accept
  /\ buf' = <<>> /\ bufLen' = 0
  /\ \/ /\ spill' = TRUE /\ temp' = "present"
        /\ file' = Append(buf, Current)
        /\ UNCHANGED <<cacheable, ioFailed>>
     \/ /\ cacheable' = FALSE /\ ioFailed' = TRUE
        /\ temp' \in {"absent", "stuck"}
        /\ UNCHANGED <<spill, file>>

\* Phase F: write to the temporary file.
StoreWrite ==
  /\ Resume
  /\ Collecting /\ ~TooLarge /\ spill
  /\ Accept
  /\ \/ /\ file' = Append(file, Current)
        /\ UNCHANGED <<cacheable, spill, temp, ioFailed>>
     \/ /\ cacheable' = FALSE /\ ioFailed' = TRUE
        /\ AbortSpill
        /\ UNCHANGED file
  /\ UNCHANGED <<buf, bufLen>>

\* The body has ended: commit the file, return the buffer, or return nothing.
EndStore ==
  /\ pc = "end"
  /\ pc' = "done"
  /\ \/ ~cacheable /\ result' = "none" /\ UNCHANGED <<spill, temp, ioFailed>>
     \/ /\ cacheable /\ ~spill
        /\ result' = "memory" /\ UNCHANGED <<spill, temp, ioFailed>>
     \/ /\ cacheable /\ spill
        /\ spill' = FALSE
        /\ \/ result' = "file" /\ temp' = "absent" /\ UNCHANGED ioFailed
           \/ result' = "none" /\ temp' \in {"absent", "stuck"} /\ ioFailed' = TRUE
  /\ UNCHANGED <<relayVars, size, buf, bufLen, cacheable, file>>

(***************************************************************************)
(* The consumer of the channel                                             *)
(***************************************************************************)
\* Mutant: the wake-up is lost.
RecvLosesWakeup ==
  /\ rx = "open" /\ queue # <<>>
  /\ got' = Append(got, Head(queue)) /\ queue' = Tail(queue)
  /\ UNCHANGED <<pc, taken, ended, rx, storeVars, result>>

\* Taking a frame wakes the parked sender.
Recv ==
  /\ rx = "open" /\ queue # <<>>
  /\ got' = Append(got, Head(queue)) /\ queue' = Tail(queue)
  /\ pc' = IF pc = "parked" THEN "store" ELSE pc
  /\ UNCHANGED <<taken, ended, rx, storeVars, result>>

\* The sender is gone and the channel empty.
RecvEnd ==
  /\ rx = "open" /\ queue = <<>> /\ pc = "done"
  /\ rx' = "eof"
  /\ UNCHANGED <<pc, taken, ended, queue, got, storeVars, result>>

\* The client goes away: the queued frames are dropped, a parked sender wakes
\* and its send succeeds.
DropReceiver ==
  /\ rx = "open"
  /\ rx' = "dropped" /\ queue' = <<>>
  /\ pc' = IF pc = "parked" THEN "store" ELSE pc
  /\ UNCHANGED <<taken, ended, got, storeVars, result>>

-----------------------------------------------------------------------------
Store ==
  \/ StoreNothing \/ StoreError \/ StoreTooLarge \/ StoreBuffer \/ StoreSpill
  \/ StoreWrite

Task == Send \/ SendFails \/ Store \/ EndStore

Next == TakeFrame \/ TakeNone \/ Task \/ Recv \/ RecvEnd \/ DropReceiver

Spec == Init /\ [][Next]_vars

\* The runtime polls the task again when it is woken, and the consumer reads as
\* long as it has not gone away.  The upstream server owes nothing.
FairSpec == Spec /\ WF_vars(Task) /\ WF_vars(Recv \/ RecvEnd)

-----------------------------------------------------------------------------
(***************************************************************************)
(* Properties                                                              *)
(***************************************************************************)
\* The frames handed to the channel.
Relayed == IF pc = "send" THEN SubSeq(taken, 1, Len(taken) - 1) ELSE taken

\* s holds the data frames among the frames, all of them and in their order.
HoldsData(s, frames) ==
  /\ Range(s) = {f \in Range(frames) : f.kind = "data"}
  /\ \A i, j \in DOMAIN s : i < j => s[i].id < s[j].id

\* While the client listens, what it has received and what is queued for it is
\* the upstream body frame by frame, error and trailers included; at the end of
\* the channel it has the whole body.  No limit, upstream error or file error in
\* the store changes that ("never truncates the response").  And an object is
\* cached only when that body ended without an error, with all its data, in
\* order and within the limit, on memory exactly when it fits there.
RelayIsFaithful ==
  /\ rx # "dropped" => got \o queue = Relayed
  /\ rx = "eof" => ended /\ got = taken
  /\ result # "none" =>
       /\ \A i \in DOMAIN taken : taken[i].kind # "error"
       /\ ~ioFailed /\ size <= MaxEachSize
       /\ result = "memory" => HoldsData(buf, taken) /\ size <= OnMemoryLimit
       /\ result = "file" => HoldsData(file, taken) /\ size > OnMemoryLimit

\* A slow client holds at most capacity + 1 frames in memory, and the buffer of
\* the store stays within the on-memory limit however large a frame is.
MemoryIsBounded == Len(queue) <= Capacity + 1 /\ bufLen <= OnMemoryLimit

\* Every frame taken from the upstream reaches the client, and so does the end
\* of the body, unless the client leaves; and the task always comes back for the
\* next frame or ends: neither the store nor backpressure stops the relay.
RelayGoesOn ==
  /\ (pc # "frame") ~> (pc \in {"frame", "done"})
  /\ \A i \in 1 .. MaxFrames :
       (Len(taken) = i) ~> (Len(got) >= i \/ rx = "dropped")
  /\ (pc = "end") ~> (rx \in {"eof", "dropped"})

Contract ==
  INSTANCE StoreContract WITH
    phase <- IF pc = "done" THEN result
             ELSE IF ~cacheable THEN "none" ELSE IF spill THEN "spill" ELSE "spool"

\* The store implements the contract module CacheStore builds on.
ImplementsContract == Contract!Spec
=============================================================================
