---------------------------- MODULE SpoolProofs ----------------------------
(***************************************************************************)
(* Proofs about spool_and_store (module Spool), for any limits, capacity,  *)
(* frame lengths and length of the body.                                   *)
(***************************************************************************)
EXTENDS Spool, SequenceTheorems, TLAPS

FrameType == [id : Nat, kind : {"data", "trailers", "error"}, len : Nat]

\* The frames the store has dealt with: it comes after the relay.
AllBut1(s) == SubSeq(s, 1, Len(s) - 1)
InHand == pc \in {"send", "parked", "store"}
Seen == IF InHand THEN AllBut1(taken) ELSE taken

ErrorFree(frames) == \A i \in DOMAIN frames : frames[i].kind # "error"

\* Frames are numbered by their place.
Numbered(frames) == \A i \in DOMAIN frames : frames[i].id = i

RelayTypeOK ==
  /\ pc \in {"frame", "send", "parked", "store", "end", "done"}
  /\ taken \in Seq(FrameType) /\ queue \in Seq(FrameType) /\ got \in Seq(FrameType)
  /\ ended \in BOOLEAN
  /\ rx \in {"open", "dropped", "eof"}
  /\ result \in {"none", "memory", "file"}

StoreTypeOK ==
  /\ size \in Nat /\ bufLen \in Nat
  /\ buf \in Seq(FrameType) /\ file \in Seq(FrameType)
  /\ cacheable \in BOOLEAN /\ spill \in BOOLEAN /\ ioFailed \in BOOLEAN
  /\ temp \in {"absent", "present", "stuck"}

\* What the relay keeps: the client has, or is about to get, the frames sent so
\* far; the task leaves its loop at the end of the body, or without its client.
RelayInv ==
  /\ RelayTypeOK
  /\ Numbered(taken)
  /\ InHand => taken # <<>>
  /\ rx # "dropped" => got \o queue = Relayed
  /\ rx = "eof" => pc = "done" /\ queue = <<>>
  /\ pc = "parked" => rx = "open"
  /\ pc = "end" => ended
  /\ pc = "done" /\ rx # "dropped" => ended
  /\ Len(queue) <= Capacity + (IF pc = "parked" THEN 1 ELSE 0)
  /\ result # "none" => pc = "done"

\* What the store keeps while it caches: all the data of the frames it has seen,
\* on memory as long as it fits and in the file from then on.
Stored(frames) ==
  /\ ErrorFree(frames) /\ ~ioFailed /\ size <= MaxEachSize
  /\ ~spill => HoldsData(buf, frames) /\ bufLen = size
  /\ spill => HoldsData(file, frames) /\ size > OnMemoryLimit

Outcome(frames) ==
  /\ ErrorFree(frames) /\ ~ioFailed /\ size <= MaxEachSize
  /\ result = "memory" => HoldsData(buf, frames) /\ size <= OnMemoryLimit
  /\ result = "file" => HoldsData(file, frames) /\ size > OnMemoryLimit

StoreInv ==
  /\ StoreTypeOK
  /\ bufLen <= OnMemoryLimit
  /\ pc # "done" /\ cacheable => Stored(Seen)
  /\ result # "none" => Outcome(taken)

\* The temporary file and the spill that owns it.
TempInv ==
  pc # "done" => /\ spill => cacheable /\ temp = "present"
                 /\ cacheable /\ ~spill => temp = "absent"

Inv == RelayInv /\ StoreInv /\ TempInv

(***************************************************************************)
(* Sequences of frames                                                     *)
(***************************************************************************)
\* A non-empty sequence is all but its last element, and that element.
LEMMA LastApart ==
  ASSUME NEW S, NEW s \in Seq(S), s # <<>>
  PROVE  /\ Len(s) \in Nat \ {0} /\ s[Len(s)] \in S
         /\ AllBut1(s) \in Seq(S) /\ Len(AllBut1(s)) = Len(s) - 1
         /\ \A i \in 1 .. Len(s) - 1 : AllBut1(s)[i] = s[i]
         /\ s = Append(AllBut1(s), s[Len(s)])
<1>1. Len(s) \in Nat \ {0} /\ s[Len(s)] \in S
  BY EmptySeq
<1>2. /\ AllBut1(s) \in Seq(S) /\ Len(AllBut1(s)) = Len(s) - 1
      /\ \A i \in 1 .. Len(s) - 1 : AllBut1(s)[i] = s[i]
  BY <1>1, SubSeqProperties, SMTT(30) DEF AllBut1
<1>3. s = Append(AllBut1(s), s[Len(s)])
  <2>. DEFINE a == AllBut1(s)
              x == s[Len(s)]
              t == Append(a, x)
  <2>1. a \in Seq(S) /\ x \in S /\ Len(a) = Len(s) - 1 /\ Len(s) \in Nat \ {0}
    BY <1>1, <1>2
  <2>2. \A i \in 1 .. Len(s) - 1 : a[i] = s[i]
    BY <1>2
  <2>. HIDE DEF a
  <2>3. t \in Seq(S) /\ Len(t) = Len(s)
    BY <2>1
  <2>4. ASSUME NEW i \in 1 .. Len(s) PROVE s[i] = t[i]
    BY <2>1, <2>2
  <2>5. s = t
    BY <2>3, <2>4, SeqEqual
  <2>. QED
    BY <2>5 DEF a
<1>. QED
  BY <1>1, <1>2, <1>3, Zenon

LEMMA AppendApart ==
  ASSUME NEW S, NEW s \in Seq(S), NEW x \in S
  PROVE  /\ Append(s, x) \in Seq(S) /\ Append(s, x) # <<>>
         /\ Len(Append(s, x)) = Len(s) + 1 /\ Append(s, x)[Len(s) + 1] = x
         /\ \A i \in 1 .. Len(s) : Append(s, x)[i] = s[i]
         /\ AllBut1(Append(s, x)) = s
  BY DEF AllBut1

\* Queueing at the back, and taking at the front what was queued.
LEMMA AppendToConcat ==
  ASSUME NEW S, NEW s \in Seq(S), NEW t \in Seq(S), NEW x \in S
  PROVE  s \o Append(t, x) = Append(s \o t, x)
<1>. DEFINE l == s \o Append(t, x)
            r == Append(s \o t, x)
<1>1. l \in Seq(S) /\ r \in Seq(S) /\ Len(l) = Len(r) /\ Len(l) = Len(s) + Len(t) + 1
  OBVIOUS
<1>2. ASSUME NEW i \in 1 .. Len(l) PROVE l[i] = r[i]
  BY <1>1
<1>. HIDE DEF l, r
<1>3. l = r
  BY <1>1, <1>2, SeqEqual, Zenon
<1>. QED
  BY <1>3 DEF l, r

LEMMA HeadToConcat ==
  ASSUME NEW S, NEW s \in Seq(S), NEW t \in Seq(S), t # <<>>
  PROVE  /\ Append(s, Head(t)) \o Tail(t) = s \o t
         /\ Append(s, Head(t)) \in Seq(S) /\ Tail(t) \in Seq(S)
         /\ Len(Tail(t)) = Len(t) - 1
  OBVIOUS

LEMMA RangeAppend ==
  ASSUME NEW S, NEW s \in Seq(S), NEW x \in S
  PROVE  Range(Append(s, x)) = Range(s) \cup {x}
<1>1. /\ DOMAIN Append(s, x) = 1 .. Len(s) + 1 /\ DOMAIN s = 1 .. Len(s)
      /\ Len(s) \in Nat /\ Append(s, x)[Len(s) + 1] = x
      /\ \A i \in 1 .. Len(s) : Append(s, x)[i] = s[i]
  OBVIOUS
<1>2. ASSUME NEW y PROVE y \in Range(Append(s, x)) <=> y \in Range(s) \cup {x}
  BY <1>1 DEF Range
<1>. QED
  BY <1>2

\* A data frame that is added to both sides, or another one that is not.
LEMMA HoldsMore ==
  ASSUME NEW s \in Seq(FrameType), NEW frames \in Seq(FrameType), NEW f \in FrameType,
         Numbered(frames), HoldsData(s, frames), f.kind = "data", f.id = Len(frames) + 1
  PROVE  HoldsData(Append(s, f), Append(frames, f))
<1>. DEFINE s1 == Append(s, f)
            frames1 == Append(frames, f)
<1>1. /\ Range(s1) = Range(s) \cup {f}
      /\ Range(frames1) = Range(frames) \cup {f}
  BY RangeAppend
<1>2. Range(s1) = {g \in Range(frames1) : g.kind = "data"}
  BY <1>1 DEF HoldsData
<1>3. ASSUME NEW i \in DOMAIN s PROVE s[i].id < f.id
  <2>1. s[i] \in Range(frames)
    BY Zenon DEF HoldsData, Range
  <2>2. PICK k \in DOMAIN frames : s[i] = frames[k]
    BY <2>1 DEF Range
  <2>3. s[i].id = k /\ k \in Nat /\ k <= Len(frames) /\ Len(frames) \in Nat
    BY <2>2 DEF Numbered
  <2>. QED
    BY <2>3
<1>4. ASSUME NEW i \in DOMAIN s1, NEW j \in DOMAIN s1, i < j
      PROVE  s1[i].id < s1[j].id
  <2>1. i \in DOMAIN s /\ s1[i] = s[i]
    BY <1>4
  <2>2. CASE j = Len(s) + 1
    BY <2>1, <2>2, <1>3
  <2>3. CASE j # Len(s) + 1
    BY <2>1, <2>3, <1>4 DEF HoldsData
  <2>. QED
    BY <2>2, <2>3
<1>. QED
  BY <1>2, <1>4 DEF HoldsData

LEMMA HoldsSame ==
  ASSUME NEW s \in Seq(FrameType), NEW frames \in Seq(FrameType), NEW f \in FrameType,
         HoldsData(s, frames), f.kind # "data"
  PROVE  HoldsData(s, Append(frames, f))
<1>1. Range(Append(frames, f)) = Range(frames) \cup {f}
  BY RangeAppend
<1>. QED
  BY <1>1 DEF HoldsData

LEMMA ErrorFreeMore ==
  ASSUME NEW frames \in Seq(FrameType), NEW f \in FrameType,
         ErrorFree(frames), f.kind # "error"
  PROVE  ErrorFree(Append(frames, f))
  BY DEF ErrorFree
(***************************************************************************)
(* The relay                                                               *)
(***************************************************************************)
\* The frame in hand is the next one of those the store has seen.
LEMMA InHandIsNext ==
  ASSUME RelayInv, pc = "store"
  PROVE  /\ Seen \in Seq(FrameType) /\ Numbered(Seen)
         /\ Current \in FrameType /\ Current.id = Len(Seen) + 1
         /\ taken = Append(Seen, Current)
<1>1. taken \in Seq(FrameType) /\ taken # <<>> /\ Numbered(taken) /\ Seen = AllBut1(taken)
  BY DEF RelayInv, RelayTypeOK, InHand, Seen
<1>2. /\ Len(taken) \in Nat \ {0} /\ Current \in FrameType
      /\ Seen \in Seq(FrameType) /\ Len(Seen) = Len(taken) - 1
      /\ \A i \in 1 .. Len(taken) - 1 : Seen[i] = taken[i]
      /\ taken = Append(Seen, Current)
  BY <1>1, LastApart, Zenon DEF Current
<1>3. Numbered(Seen) /\ Current.id = Len(Seen) + 1
  BY <1>1, <1>2, SMTT(30) DEF Numbered, Current
<1>. QED
  BY <1>2, <1>3

LEMMA RelayInit == Init => RelayInv
<1>1. <<>> \in Seq(FrameType) /\ <<>> \o <<>> = <<>> /\ Len(<<>>) = 0 /\ Numbered(<<>>)
  BY EmptySeq, ConcatEmptySeq DEF Numbered
<1>. QED
  <2>. SUFFICES ASSUME Init PROVE RelayInv
    OBVIOUS
  <2>1. RelayTypeOK
    BY <1>1, Zenon DEF Init, RelayTypeOK
  <2>2. got \o queue = Relayed
    BY <1>1 DEF Init, Relayed
  <2>. QED
    BY <1>1, <2>1, <2>2, CapacityAssumption DEF Init, RelayInv, InHand

LEMMA RelayTake == ASSUME RelayInv, TakeFrame PROVE RelayInv'
<1>1. /\ pc = "frame" /\ pc' = "send" /\ UNCHANGED <<ended, queue, got, rx, result>>
      /\ taken \in Seq(FrameType) /\ Numbered(taken) /\ RelayTypeOK
  BY DEF TakeFrame, RelayInv, RelayTypeOK
<1>2. PICK f \in FrameType : taken' = Append(taken, f) /\ f.id = Len(taken) + 1
  <2>1. \A n \in Lens : Frame(Len(taken) + 1, "data", n) \in FrameType
    BY <1>1, LensAssumption DEF Frame, FrameType
  <2>2. \A k \in {"trailers", "error"} : Frame(Len(taken) + 1, k, 0) \in FrameType
    BY <1>1 DEF Frame, FrameType
  <2>. QED
    BY <2>1, <2>2 DEF TakeFrame, Frame
<1>3. /\ taken' \in Seq(FrameType) /\ taken' # <<>> /\ AllBut1(taken') = taken
      /\ Numbered(taken')
  BY <1>1, <1>2, AppendApart DEF Numbered
<1>4. Relayed' = Relayed
  BY <1>1, <1>3 DEF Relayed, AllBut1
<1>. QED
  BY <1>1, <1>3, <1>4, Zenon DEF RelayInv, RelayTypeOK, InHand

LEMMA RelaySend == ASSUME RelayInv, Send PROVE RelayInv'
<1>1. /\ pc = "send" /\ rx = "open" /\ queue' = Append(queue, Current)
      /\ pc' = (IF Len(queue) + 1 > Capacity THEN "parked" ELSE "store")
      /\ UNCHANGED <<taken, ended, got, rx, result>>
      /\ RelayTypeOK /\ taken # <<>> /\ Len(queue) <= Capacity
      /\ got \o queue = AllBut1(taken)
  BY CapacityAssumption, SMTT(30) DEF Send, RelayInv, RelayTypeOK, InHand, Relayed, AllBut1
<1>2. Current \in FrameType /\ taken = Append(AllBut1(taken), Current)
  BY <1>1, LastApart, Zenon DEF RelayTypeOK, Current
<1>3. got \o queue' = taken
  <2>1. got \in Seq(FrameType) /\ queue \in Seq(FrameType)
    BY <1>1 DEF RelayTypeOK
  <2>2. got \o Append(queue, Current) = Append(got \o queue, Current)
    BY <2>1, <1>2, AppendToConcat, SMTT(30)
  <2>. QED
    BY <2>2, <1>1, <1>2, Zenon
<1>4. Relayed' = taken
  BY <1>1 DEF Relayed
<1>5. queue' \in Seq(FrameType) /\ Len(queue') = Len(queue) + 1 /\ Len(queue) \in Nat
  BY <1>1, <1>2, AppendApart DEF RelayTypeOK
<1>. QED
  BY <1>1, <1>3, <1>4, <1>5, CapacityAssumption, SMTT(30) DEF RelayInv, RelayTypeOK, InHand

LEMMA RelayRecv == ASSUME RelayInv, Recv PROVE RelayInv'
<1>1. /\ rx = "open" /\ queue # <<>> /\ RelayTypeOK
      /\ got' = Append(got, Head(queue)) /\ queue' = Tail(queue)
      /\ pc' = (IF pc = "parked" THEN "store" ELSE pc)
      /\ UNCHANGED <<taken, ended, rx, result>>
      /\ got \o queue = Relayed
  BY DEF Recv, RelayInv
<1>2. /\ got' \o queue' = got \o queue /\ Len(queue') = Len(queue) - 1
      /\ got' \in Seq(FrameType) /\ queue' \in Seq(FrameType) /\ Len(queue) \in Nat
  <2>1. got \in Seq(FrameType) /\ queue \in Seq(FrameType)
    BY <1>1 DEF RelayTypeOK
  <2>2. /\ Append(got, Head(queue)) \o Tail(queue) = got \o queue
        /\ Append(got, Head(queue)) \in Seq(FrameType) /\ Tail(queue) \in Seq(FrameType)
        /\ Len(Tail(queue)) = Len(queue) - 1
    BY <2>1, <1>1, HeadToConcat, Zenon
  <2>. QED
    BY <2>1, <2>2, <1>1, SMTT(30)
<1>3. Relayed' = Relayed
  BY <1>1 DEF Relayed
<1>. QED
  BY <1>1, <1>2, <1>3, CapacityAssumption, SMTT(30) DEF RelayInv, RelayTypeOK, InHand

LEMMA RelayStep == RelayInv /\ [Next]_vars => RelayInv'
<1>. SUFFICES ASSUME RelayInv, [Next]_vars PROVE RelayInv'
  OBVIOUS
<1>1. CASE TakeNone
  BY <1>1 DEF TakeNone, RelayInv, RelayTypeOK, InHand, Relayed
<1>2. CASE SendFails
  BY <1>2 DEF SendFails, relayVars, RelayInv, RelayTypeOK, InHand, Relayed
<1>3. CASE Store
  <2>1. Resume
    BY <1>3 DEF Store, StoreNothing, StoreError, StoreTooLarge, StoreBuffer, StoreSpill,
                StoreWrite
  <2>. QED
    BY <2>1, Zenon DEF Resume, relayVars, RelayInv, RelayTypeOK, InHand, Relayed
<1>4. CASE EndStore
  BY <1>4, Zenon DEF EndStore, relayVars, RelayInv, RelayTypeOK, InHand, Relayed
<1>5. CASE RecvEnd
  BY <1>5 DEF RecvEnd, RelayInv, RelayTypeOK, InHand, Relayed
<1>6. CASE DropReceiver
  BY <1>6, CapacityAssumption DEF DropReceiver, RelayInv, RelayTypeOK, InHand, Relayed
<1>7. CASE UNCHANGED vars
  BY <1>7, Zenon DEF vars, RelayInv, RelayTypeOK, InHand, Relayed, Numbered
<1>. QED
  BY <1>1, <1>2, <1>3, <1>4, <1>5, <1>6, <1>7, RelayTake, RelaySend, RelayRecv
  DEF Next, Task
(***************************************************************************)
(* The store                                                               *)
(***************************************************************************)
LEMMA LimitType == OnMemoryLimit \in Nat /\ OnMemoryLimit <= MaxEachSize
  BY SizesAssumption DEF OnMemoryLimit

LEMMA StoreInit == Init => StoreInv
<1>. SUFFICES ASSUME Init PROVE StoreInv
  OBVIOUS
<1>1. <<>> \in Seq(FrameType) /\ Range(<<>>) = {} /\ ErrorFree(<<>>)
  BY EmptySeq DEF ErrorFree, Range
<1>2. HoldsData(<<>>, <<>>)
  BY <1>1 DEF HoldsData
<1>3. StoreTypeOK
  BY <1>1, Zenon DEF Init, StoreTypeOK
<1>4. Seen = <<>>
  BY DEF Init, Seen, InHand
<1>. QED
  BY <1>1, <1>2, <1>3, <1>4, LimitType, SizesAssumption DEF Init, StoreInv, Stored

\* Steps that leave the store alone.
LEMMA StoreFrame ==
  ASSUME StoreInv, UNCHANGED storeVars, Seen' = Seen, UNCHANGED taken,
         pc' # "done" => pc # "done", result' = "none" \/ result' = result
  PROVE  StoreInv'
<1>1. StoreTypeOK'
  BY DEF StoreInv, StoreTypeOK, storeVars
<1>2. Stored(Seen) => Stored(Seen)'
  BY Zenon DEF Stored, storeVars, HoldsData, OnMemoryLimit, ErrorFree
<1>3. result' # "none" /\ Outcome(taken) => Outcome(taken)'
  BY Zenon DEF Outcome, storeVars, HoldsData, OnMemoryLimit, ErrorFree
<1>. QED
  BY <1>1, <1>2, <1>3 DEF StoreInv, storeVars, OnMemoryLimit

\* The store gives up caching: nothing on memory, and nothing promised.
LEMMA StoreGivesUp ==
  ASSUME StoreInv, StoreTypeOK', bufLen' <= OnMemoryLimit, ~cacheable', result' = "none"
  PROVE  StoreInv'
  BY DEF StoreInv, OnMemoryLimit

\* The frame in hand goes to the buffer or to the file, or is not data.
LEMMA StoreKeeps ==
  ASSUME RelayInv, StoreInv, StoreTypeOK', Resume, cacheable, Current.kind # "error",
         bufLen' <= OnMemoryLimit, ~ioFailed', size' <= MaxEachSize,
         ~spill' => HoldsData(buf', taken) /\ bufLen' = size',
         spill' => HoldsData(file', taken) /\ size' > OnMemoryLimit
  PROVE  StoreInv'
<1>1. /\ pc = "store" /\ pc' = "frame" /\ taken' = taken /\ result' = "none"
  BY DEF Resume, relayVars, RelayInv, RelayTypeOK
<1>2. Seen' = taken
  BY <1>1 DEF Seen, InHand
<1>3. ErrorFree(taken)
  BY <1>1, InHandIsNext, ErrorFreeMore, Zenon DEF StoreInv, Stored
<1>4. Stored(Seen)'
  BY <1>2, <1>3, Zenon DEF Stored, OnMemoryLimit, ErrorFree, HoldsData
<1>. QED
  BY <1>1, <1>4 DEF StoreInv, OnMemoryLimit
LEMMA StoreOther ==
  ASSUME RelayInv, StoreInv,
         TakeFrame \/ TakeNone \/ Send \/ Recv \/ RecvEnd \/ DropReceiver \/ UNCHANGED vars
  PROVE  StoreInv'
<1>1. CASE TakeFrame
  <2>1. /\ pc = "frame" /\ pc' = "send" /\ UNCHANGED <<storeVars, result>>
        /\ result = "none" /\ taken \in Seq(FrameType)
    BY <1>1, Zenon DEF TakeFrame, RelayInv, RelayTypeOK
  <2>2. PICK f : taken' = Append(taken, f) /\ f \in FrameType
    <3>1. Len(taken) + 1 \in Nat
      BY <2>1
    <3>. QED
      BY <1>1, <3>1, LensAssumption, SMTT(30) DEF TakeFrame, Frame, FrameType
  <2>3. Seen' = Seen
    BY <2>1, <2>2, AppendApart, Zenon DEF Seen, InHand
  <2>4. StoreTypeOK'
    BY <2>1 DEF StoreInv, StoreTypeOK, storeVars
  <2>5. Stored(Seen) => Stored(Seen)'
    BY <2>1, <2>3, Zenon DEF Stored, storeVars, HoldsData, OnMemoryLimit, ErrorFree
  <2>. QED
    BY <2>1, <2>4, <2>5 DEF StoreInv, storeVars, OnMemoryLimit
<1>2. CASE TakeNone
  BY <1>2, StoreFrame DEF TakeNone, Seen, InHand
<1>3. CASE Send
  BY <1>3, StoreFrame DEF Send, Seen, InHand
<1>4. CASE Recv
  BY <1>4, StoreFrame DEF Recv, Seen, InHand
<1>5. CASE RecvEnd
  BY <1>5, StoreFrame DEF RecvEnd, Seen, InHand
<1>6. CASE DropReceiver
  BY <1>6, StoreFrame DEF DropReceiver, Seen, InHand
<1>7. CASE UNCHANGED vars
  BY <1>7, StoreFrame DEF vars, storeVars, Seen, InHand
<1>. QED
  BY <1>1, <1>2, <1>3, <1>4, <1>5, <1>6, <1>7

LEMMA StoreStore == ASSUME RelayInv, StoreInv, Store PROVE StoreInv'
<1>0. /\ StoreTypeOK /\ bufLen <= OnMemoryLimit /\ OnMemoryLimit \in Nat
      /\ MaxEachSize \in Nat /\ Resume /\ pc = "store" /\ result' = "none"
  BY LimitType, SizesAssumption, Zenon
  DEF Store, StoreNothing, StoreError, StoreTooLarge, StoreBuffer, StoreSpill, StoreWrite,
      Resume, relayVars, StoreInv, RelayInv, RelayTypeOK
<1>1. /\ Seen \in Seq(FrameType) /\ Numbered(Seen) /\ Current \in FrameType
      /\ Current.id = Len(Seen) + 1 /\ taken = Append(Seen, Current)
      /\ Current.len \in Nat
  BY <1>0, InHandIsNext DEF FrameType
<1>2. cacheable => Stored(Seen)
  BY <1>0 DEF StoreInv
<1>3. \A s \in Seq(FrameType) :
        /\ HoldsData(s, Seen) /\ Current.kind = "data" =>
             HoldsData(Append(s, Current), taken) /\ Append(s, Current) \in Seq(FrameType)
        /\ HoldsData(s, Seen) /\ Current.kind # "data" => HoldsData(s, taken)
  BY <1>1, HoldsMore, HoldsSame, AppendApart, Zenon
<1>4. CASE StoreNothing
  <2>1. UNCHANGED storeVars /\ StoreTypeOK'
    BY <1>0, <1>4, Zenon DEF StoreNothing, StoreTypeOK, storeVars
  <2>2. CASE ~cacheable
    BY <2>1, <2>2, <1>0, StoreGivesUp DEF storeVars
  <2>3. CASE cacheable
    <3>1. Current.kind = "trailers"
      BY <1>4, <2>3 DEF StoreNothing
    <3>. QED
      BY <2>1, <2>3, <3>1, <1>0, <1>2, <1>3, StoreKeeps, Zenon DEF Stored, storeVars, StoreTypeOK
  <2>. QED
    BY <2>2, <2>3, <1>0 DEF StoreTypeOK
<1>5. CASE StoreError \/ StoreTooLarge
  <2>1. /\ ~cacheable' /\ bufLen' = 0 /\ buf' = <<>> /\ spill' = FALSE
        /\ temp' \in {"absent", "present", "stuck"} /\ UNCHANGED <<size, file, ioFailed>>
    BY <1>5, <1>0 DEF StoreError, StoreTooLarge, GiveUp, AbortSpill, StoreTypeOK
  <2>2. StoreTypeOK'
    BY <2>1, <1>0, <1>5, EmptySeq, Zenon
    DEF StoreTypeOK, StoreError, StoreTooLarge, GiveUp
  <2>. QED
    BY <2>1, <2>2, <1>0, StoreGivesUp
<1>6. CASE StoreBuffer
  <2>1. /\ cacheable /\ ~spill /\ Current.kind = "data" /\ size + Current.len <= MaxEachSize
        /\ bufLen + Current.len <= OnMemoryLimit /\ size' = size + Current.len
        /\ buf' = Append(buf, Current) /\ bufLen' = bufLen + Current.len
        /\ UNCHANGED <<cacheable, spill, file, temp, ioFailed>>
    BY <1>0, <1>1, <1>6, SMTT(30) DEF StoreBuffer, Collecting, TooLarge, Accept, StoreTypeOK
  <2>2. HoldsData(buf, Seen) /\ bufLen = size /\ ~ioFailed
    BY <2>1, <1>2 DEF Stored
  <2>3. HoldsData(buf', taken) /\ buf' \in Seq(FrameType)
    BY <2>1, <2>2, <1>0, <1>3, Zenon DEF StoreTypeOK
  <2>4. StoreTypeOK'
    <3>0. size \in Nat /\ bufLen \in Nat /\ Current.len \in Nat
      BY <1>0, <1>1 DEF StoreTypeOK
    <3>1. size' \in Nat /\ bufLen' \in Nat
      BY <2>1, <3>0, SMTT(30)
    <3>. QED
      BY <2>1, <2>3, <3>1, <1>0, Zenon DEF StoreTypeOK
  <2>5. /\ Current.kind # "error" /\ bufLen' <= OnMemoryLimit /\ ~ioFailed' /\ ~spill'
        /\ size' <= MaxEachSize /\ bufLen' = size'
    BY <2>1, <2>2
  <2>. QED
    BY <2>1, <2>3, <2>4, <2>5, <1>0, StoreKeeps, Zenon
<1>7. CASE StoreSpill
  <2>1. /\ cacheable /\ ~spill /\ Current.kind = "data" /\ size + Current.len <= MaxEachSize
        /\ bufLen + Current.len > OnMemoryLimit /\ size' = size + Current.len
        /\ buf' = <<>> /\ bufLen' = 0
    BY <1>0, <1>1, <1>7, SMTT(30) DEF StoreSpill, Collecting, TooLarge, Accept, StoreTypeOK
  <2>0. size' \in Nat /\ bufLen' \in Nat /\ buf' \in Seq(FrameType)
    <3>1. size \in Nat /\ Current.len \in Nat
      BY <1>0, <1>1, Zenon DEF StoreTypeOK
    <3>2. size + Current.len \in Nat /\ 0 \in Nat
      BY <3>1
    <3>. QED
      BY <2>1, <3>2, EmptySeq, Zenon
  <2>2. HoldsData(buf, Seen) /\ bufLen = size /\ ~ioFailed
    BY <2>1, <1>2 DEF Stored
  <2>3. HoldsData(Append(buf, Current), taken) /\ Append(buf, Current) \in Seq(FrameType)
    BY <2>1, <2>2, <1>0, <1>3, Zenon DEF StoreTypeOK
  <2>4. CASE spill' = TRUE /\ temp' = "present" /\ file' = Append(buf, Current)
             /\ UNCHANGED <<cacheable, ioFailed>>
    <3>1. StoreTypeOK'
      BY <2>0, <2>1, <2>3, <2>4, <1>0, Zenon DEF StoreTypeOK
    <3>2. /\ Current.kind # "error" /\ bufLen' <= OnMemoryLimit /\ ~ioFailed' /\ spill'
          /\ size' <= MaxEachSize /\ size' > OnMemoryLimit /\ HoldsData(file', taken)
      BY <2>1, <2>2, <2>3, <2>4, <3>1, <1>0
    <3>. QED
      BY <2>1, <3>1, <3>2, <1>0, StoreKeeps, Zenon
  <2>5. CASE cacheable' = FALSE /\ ioFailed' = TRUE /\ temp' \in {"absent", "stuck"}
             /\ UNCHANGED <<spill, file>>
    <3>1. StoreTypeOK'
      BY <2>0, <2>1, <2>5, <1>0, Zenon DEF StoreTypeOK
    <3>. QED
      BY <2>1, <2>5, <3>1, <1>0, StoreGivesUp
  <2>. QED
    BY <1>7, <2>4, <2>5, Zenon DEF StoreSpill
<1>8. CASE StoreWrite
  <2>1. /\ cacheable /\ spill /\ Current.kind = "data" /\ size + Current.len <= MaxEachSize
        /\ size' = size + Current.len /\ UNCHANGED <<buf, bufLen>>
    BY <1>0, <1>1, <1>8, SMTT(30) DEF StoreWrite, Collecting, TooLarge, Accept, StoreTypeOK
  <2>0. size' \in Nat
    BY <2>1, <1>0, <1>1, SMTT(30) DEF StoreTypeOK
  <2>2. HoldsData(file, Seen) /\ size > OnMemoryLimit /\ ~ioFailed
    BY <2>1, <1>2 DEF Stored
  <2>3. HoldsData(Append(file, Current), taken) /\ Append(file, Current) \in Seq(FrameType)
    BY <2>1, <2>2, <1>0, <1>3, Zenon DEF StoreTypeOK
  <2>4. CASE file' = Append(file, Current) /\ UNCHANGED <<cacheable, spill, temp, ioFailed>>
    <3>0. size' > OnMemoryLimit
      BY <2>1, <2>2, <1>0, <1>1, SMTT(30) DEF StoreTypeOK
    <3>1. StoreTypeOK'
      BY <2>0, <2>1, <2>3, <2>4, <1>0, Zenon DEF StoreTypeOK
    <3>2. /\ Current.kind # "error" /\ bufLen' <= OnMemoryLimit /\ ~ioFailed' /\ spill'
          /\ size' <= MaxEachSize /\ size' > OnMemoryLimit /\ HoldsData(file', taken)
      BY <2>1, <2>2, <2>3, <2>4, <3>0, <1>0, Zenon
    <3>. QED
      BY <2>1, <3>1, <3>2, <1>0, StoreKeeps, Zenon
  <2>5. CASE cacheable' = FALSE /\ ioFailed' = TRUE /\ AbortSpill /\ UNCHANGED file
    <3>1. StoreTypeOK'
      BY <2>0, <2>1, <2>5, <1>0, Zenon DEF StoreTypeOK, AbortSpill
    <3>. QED
      BY <2>1, <2>5, <3>1, <1>0, StoreGivesUp
  <2>. QED
    BY <1>8, <2>4, <2>5, Zenon DEF StoreWrite
<1>. QED
  BY <1>4, <1>5, <1>6, <1>7, <1>8 DEF Store
LEMMA StoreStep == RelayInv /\ StoreInv /\ [Next]_vars => StoreInv'
<1>. SUFFICES ASSUME RelayInv, StoreInv, [Next]_vars PROVE StoreInv'
  OBVIOUS
<1>1. CASE SendFails
  <2>1. /\ pc' = "done" /\ result' = "none" /\ spill' = FALSE
        /\ temp' \in {"absent", "present", "stuck"}
        /\ UNCHANGED <<size, buf, bufLen, cacheable, file, ioFailed>>
    BY <1>1, Zenon DEF SendFails, AbortSpill, StoreInv, StoreTypeOK
  <2>. QED
    BY <2>1, Zenon DEF StoreInv, StoreTypeOK, OnMemoryLimit
<1>2. CASE EndStore
  <2>1. /\ pc = "end" /\ pc' = "done" /\ Seen = taken /\ StoreTypeOK /\ bufLen <= OnMemoryLimit
        /\ UNCHANGED <<relayVars, size, buf, bufLen, cacheable, file>>
    BY <1>2, Zenon DEF EndStore, Seen, InHand, StoreInv
  <2>2. cacheable => Stored(taken)
    BY <2>1 DEF StoreInv
  <2>3. CASE ~cacheable /\ result' = "none" /\ UNCHANGED <<spill, temp, ioFailed>>
    BY <2>1, <2>3, Zenon DEF StoreInv, StoreTypeOK, OnMemoryLimit
  <2>4. CASE cacheable /\ ~spill /\ result' = "memory" /\ UNCHANGED <<spill, temp, ioFailed>>
    <3>1. Outcome(taken)'
      BY <2>1, <2>2, <2>4, Zenon
      DEF Stored, Outcome, relayVars, HoldsData, OnMemoryLimit, ErrorFree
    <3>. QED
      BY <2>1, <2>4, <3>1, Zenon DEF StoreInv, StoreTypeOK, OnMemoryLimit
  <2>5. CASE /\ cacheable /\ spill /\ spill' = FALSE
             /\ result' = "file" /\ temp' = "absent" /\ UNCHANGED ioFailed
    <3>1. Outcome(taken)'
      BY <2>1, <2>2, <2>5, Zenon
      DEF Stored, Outcome, relayVars, HoldsData, OnMemoryLimit, ErrorFree
    <3>. QED
      BY <2>1, <2>5, <3>1, Zenon DEF StoreInv, StoreTypeOK, OnMemoryLimit
  <2>6. CASE /\ cacheable /\ spill /\ spill' = FALSE
             /\ result' = "none" /\ temp' \in {"absent", "stuck"} /\ ioFailed' = TRUE
    BY <2>1, <2>6, Zenon DEF StoreInv, StoreTypeOK, OnMemoryLimit
  <2>. QED
    BY <1>2, <2>3, <2>4, <2>5, <2>6, Zenon DEF EndStore
<1>. QED
  BY <1>1, <1>2, StoreOther, StoreStore DEF Next, Task

LEMMA TempStep == StoreInv /\ TempInv /\ [Next]_vars => TempInv'
<1>. SUFFICES ASSUME StoreInv, TempInv, [Next]_vars PROVE TempInv'
  OBVIOUS
<1>. USE DEF TempInv
<1>1. cacheable \in BOOLEAN /\ spill \in BOOLEAN
  BY DEF StoreInv, StoreTypeOK
<1>2. CASE StoreError \/ StoreTooLarge
  BY <1>2, <1>1, Zenon DEF StoreError, StoreTooLarge, Resume, GiveUp, AbortSpill
<1>3. CASE StoreSpill
  BY <1>3, <1>1, Zenon DEF StoreSpill, Resume, Collecting
<1>4. CASE StoreWrite
  BY <1>4, <1>1, Zenon DEF StoreWrite, Resume, AbortSpill
<1>5. CASE StoreNothing \/ StoreBuffer
  BY <1>5, Zenon DEF StoreNothing, StoreBuffer, Resume, storeVars
<1>6. CASE SendFails \/ EndStore
  BY <1>6, Zenon DEF SendFails, EndStore
<1>7. CASE \/ TakeFrame \/ TakeNone \/ Send \/ Recv \/ RecvEnd \/ DropReceiver
           \/ UNCHANGED vars
  BY <1>7, Zenon DEF TakeFrame, TakeNone, Send, Recv, RecvEnd, DropReceiver, vars, storeVars
<1>. QED
  BY <1>2, <1>3, <1>4, <1>5, <1>6, <1>7, Zenon DEF Next, Task, Store

-----------------------------------------------------------------------------
(***************************************************************************)
(* Results                                                                 *)
(***************************************************************************)
LEMMA Invariance == Spec => []Inv
<1>1. Init => Inv
  BY RelayInit, StoreInit DEF Init, Inv, TempInv
<1>2. Inv /\ [Next]_vars => Inv'
  BY RelayStep, StoreStep, TempStep DEF Inv
<1>. QED
  BY <1>1, <1>2, PTL DEF Spec

\* spool_and_store never truncates, reorders or alters the response, whatever the
\* store meets, and caches only whole bodies within the limits.
THEOREM Faithful == Spec => []RelayIsFaithful
<1>1. Inv => RelayIsFaithful
  <2>. SUFFICES ASSUME Inv PROVE RelayIsFaithful
    OBVIOUS
  <2>1. RelayInv /\ StoreInv
    BY DEF Inv
  <2>2. rx # "dropped" => got \o queue = Relayed
    BY <2>1 DEF RelayInv
  <2>3. rx = "eof" => ended /\ got = taken
    <3>. SUFFICES ASSUME rx = "eof" PROVE ended /\ got = taken
      OBVIOUS
    <3>1. pc = "done" /\ queue = <<>> /\ ended /\ got \in Seq(FrameType)
      BY <2>1, Zenon DEF RelayInv, RelayTypeOK
    <3>2. got \o queue = taken /\ got \o queue = got
      BY <3>1, <2>2, ConcatEmptySeq DEF Relayed
    <3>. QED
      BY <3>1, <3>2
  <2>4. result # "none" => Outcome(taken)
    BY <2>1 DEF StoreInv
  <2>. QED
    BY <2>2, <2>3, <2>4, Zenon DEF RelayIsFaithful, Outcome, ErrorFree
<1>. QED
  BY <1>1, Invariance, PTL

\* However slow the client and however large a frame, the channel holds at most
\* capacity + 1 frames and the buffer at most the on-memory limit.
THEOREM Bounded == Spec => []MemoryIsBounded
<1>1. Inv => MemoryIsBounded
  <2>1. Inv => Len(queue) <= Capacity + 1
    BY CapacityAssumption DEF Inv, RelayInv, RelayTypeOK
  <2>2. Inv => bufLen <= OnMemoryLimit
    BY DEF Inv, StoreInv
  <2>. QED
    BY <2>1, <2>2 DEF MemoryIsBounded
<1>. QED
  BY <1>1, Invariance, PTL

\* Every step of spool_and_store is a step of the contract that module CacheStore
\* builds on, or leaves its phase and its temporary file alone.
THEOREM Refinement == Spec => ImplementsContract
<1>1. Init => Contract!Init
  BY DEF Init, Contract!Init
<1>2. Inv /\ [Next]_vars => [Contract!Next]_(Contract!vars)
  <2>. SUFFICES ASSUME RelayInv, StoreInv, TempInv, [Next]_vars
                PROVE  Contract!Next \/ UNCHANGED Contract!vars
    BY DEF Inv
  <2>0. cacheable \in BOOLEAN /\ spill \in BOOLEAN
    BY DEF StoreInv, StoreTypeOK
  <2>1. CASE Store
    <3>0. pc = "store" /\ pc' = "frame"
      BY <2>1, Zenon DEF Store, StoreNothing, StoreError, StoreTooLarge, StoreBuffer, StoreSpill,
                  StoreWrite, Resume
    <3>1. CASE StoreNothing \/ StoreBuffer
      BY <3>0, <3>1 DEF StoreNothing, StoreBuffer, storeVars, Contract!vars
    <3>2. CASE StoreError \/ StoreTooLarge
      <4>1. cacheable /\ GiveUp
        BY <3>2 DEF StoreError, StoreTooLarge, Collecting
      <4>2. CASE spill
        BY <3>0, <4>1, <4>2 DEF GiveUp, AbortSpill, Contract!Abort, Contract!Next
      <4>3. CASE ~spill
        BY <3>0, <4>1, <4>3 DEF GiveUp, AbortSpill, Contract!GiveUp, Contract!Next
      <4>. QED
        BY <4>2, <4>3
    <3>3. CASE StoreSpill
      BY <3>0, <3>3, <2>0, Zenon
      DEF StoreSpill, Collecting, Contract!Create, Contract!CreateAndAbort, Contract!Next
    <3>4. CASE StoreWrite
      BY <3>0, <3>4, <2>0, Zenon
      DEF StoreWrite, Collecting, AbortSpill, Contract!Abort, Contract!Next, Contract!vars
    <3>. QED
      BY <2>1, <3>1, <3>2, <3>3, <3>4 DEF Store
  <2>2. CASE EndStore
    <3>0. pc = "end" /\ pc' = "done"
      BY <2>2 DEF EndStore
    <3>. QED
      BY <3>0, <2>2, <2>0, Zenon
      DEF EndStore, Contract!InMemory, Contract!Commit, Contract!Abort, Contract!Next,
          Contract!vars
  <2>3. CASE SendFails
    <3>0. pc = "send" /\ pc' = "done" /\ result' = "none" /\ AbortSpill
      BY <2>3 DEF SendFails
    <3>1. CASE spill
      BY <3>0, <3>1 DEF AbortSpill, TempInv, Contract!Abort, Contract!Next
    <3>2. CASE ~spill
      BY <3>0, <3>2, <2>0, Zenon
      DEF AbortSpill, Contract!GiveUp, Contract!Next, Contract!vars
    <3>. QED
      BY <3>1, <3>2
  <2>4. CASE \/ TakeFrame \/ TakeNone \/ Send \/ Recv \/ RecvEnd \/ DropReceiver
             \/ UNCHANGED vars
    <3>1. UNCHANGED <<storeVars, result>> /\ (pc' = "done" <=> pc = "done")
      BY <2>4, Zenon DEF TakeFrame, TakeNone, Send, Recv, RecvEnd, DropReceiver, vars, storeVars
    <3>. QED
      BY <3>1 DEF storeVars, Contract!vars
  <2>. QED
    BY <2>1, <2>2, <2>3, <2>4 DEF Next, Task
<1>. QED
  BY <1>1, <1>2, Invariance, PTL DEF Spec, ImplementsContract, Contract!Spec
============================================================================
