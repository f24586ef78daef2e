-------------------------- MODULE NativeWire_proofs --------------------------
(***************************************************************************)
(* TLAPS proofs about NativeWire, for any threads, any sizes and limits    *)
(* and any pipe: read_message returns the messages sent, whole and in      *)
(* order, and how the reading ends tells whether something was lost.  The  *)
(* argument: every unit of the stream is in its place in a whole frame,    *)
(* and the frames follow each other as in sent; so what follows the last   *)
(* unit of one message is the header of the next.                          *)
(***************************************************************************)
EXTENDS NativeWire, SequenceTheorems, TLAPS

(* Where a thread is says whether it is in sent and what it has written.   *)
Shape ==
    \A t \in Sender :
        /\ writer[t] \in {"idle", "lock", "refused"} =>
              left[t] = FrameSize(t) /\ \A i \in 1..Len(sent) : sent[i] # t
        /\ writer[t] = "write" <=> lock = t
        /\ writer[t] = "sent" => left[t] = 0
        /\ writer[t] = "failed" => reading # "on"
        /\ left[t] <= FrameSize(t)

(* A thread is in sent once, and only the last one there can be writing.   *)
Order ==
    /\ \A i, j \in 1..Len(sent) : sent[i] = sent[j] => i = j
    /\ lock # None => sent # << >> /\ lock = sent[Len(sent)]

At(t, n) == [of |-> t, at |-> n]

Start(k) == k - stream[k].at

(* A unit is in its place in a whole frame, as far as the stream goes, and *)
(* the frame follows the last unit of the frame sent before it.            *)
InFrame(k) ==
    /\ stream[k].at \in 1..FrameSize(stream[k].of)
    /\ Start(k) >= 0
    /\ \A n \in 1..FrameSize(stream[k].of) :
          Start(k) + n <= Len(stream) => stream[Start(k) + n] = At(stream[k].of, n)
    /\ \E i \in 1..Len(sent) :
          /\ stream[k].of = sent[i]
          /\ Start(k) = 0 => i = 1
          /\ Start(k) > 0 => /\ i > 1
                             /\ stream[Start(k)] = At(sent[i - 1], FrameSize(sent[i - 1]))

Frames == \A k \in 1..Len(stream) : InFrame(k)

(* The last unit is the last its thread has written, and those after it    *)
(* have not begun.                                                         *)
Front ==
    /\ stream = << >> => \A t \in Sender : left[t] = FrameSize(t)
    /\ stream # << >> =>
          \A i \in 1..Len(sent) : stream[Len(stream)].of = sent[i] =>
              /\ stream[Len(stream)].at = FrameSize(sent[i]) - left[sent[i]]
              /\ \A j \in 1..Len(sent) : j > i => left[sent[j]] = FrameSize(sent[j])

(* What was received is the beginning of what was sent, and the reader is  *)
(* behind the last unit of it, or behind the header of the next.           *)
Reader ==
    /\ Len(received) <= Len(sent)
    /\ \A i \in 1..Len(received) : received[i] = sent[i]
    /\ body = NoBody =>
          IF received = << >> THEN base = 0
          ELSE base > 0 /\ stream[base] = At(sent[Len(received)], FrameSize(sent[Len(received)]))
    /\ body # NoBody =>
          /\ Len(received) < Len(sent)
          /\ base > 0
          /\ stream[base] = At(sent[Len(received) + 1], HEADER)
          /\ body = Size[sent[Len(received) + 1]]

(* An orderly end is an end of the other process.                          *)
Ends == reading = "eof" => ~alive

IInv ==
    /\ TypeOK /\ Shape /\ Order /\ Frames /\ Front /\ Reader /\ Ends
    /\ EofMeansComplete /\ ErrorMeansTorn

-----------------------------------------------------------------------------
(* The data.                                                               *)

LEMMA Sizes ==
    /\ HEADER \in Nat \ {0} /\ Capacity \in Nat \ {0} /\ READ_MAX \in Nat /\ WRITE_MAX \in Nat
    /\ \A t \in Sender : /\ Size[t] \in Nat \ {0}
                         /\ FrameSize(t) = HEADER + Size[t]
                         /\ FrameSize(t) \in Nat
  BY WireAssumption DEF FrameSize

(* The sequences and the reader's place in the stream.                     *)
LEMMA Lengths ==
    ASSUME TypeOK
    PROVE  /\ Len(stream) \in Nat /\ Len(sent) \in Nat /\ Len(received) \in Nat
           /\ \A k \in 1..Len(stream) : stream[k] \in [of : Sender, at : Nat]
           /\ \A k \in 1..Len(sent) : sent[k] \in Sender
           /\ stream = << >> <=> Len(stream) = 0
           /\ received = << >> <=> Len(received) = 0
           /\ sent = << >> <=> Len(sent) = 0
           /\ pos \in Nat /\ base \in Nat /\ base <= pos /\ pos <= Len(stream)
           /\ pos <= base + Wanted /\ Wanted \in Nat
  <1>1. /\ Len(stream) \in Nat /\ Len(sent) \in Nat /\ Len(received) \in Nat
        /\ \A k \in 1..Len(stream) : stream[k] \in [of : Sender, at : Nat]
        /\ \A k \in 1..Len(sent) : sent[k] \in Sender
        /\ stream = << >> <=> Len(stream) = 0
        /\ received = << >> <=> Len(received) = 0
        /\ sent = << >> <=> Len(sent) = 0
    BY LenProperties, ElementOfSeq, EmptySeq DEF TypeOK
  <1>2. Wanted \in Nat
    BY Sizes DEF Wanted, TypeOK, NoBody
  <1> QED
    BY <1>1, <1>2 DEF TypeOK, Need

(* Between two frames, what follows is the frame sent next.                *)
LEMMA NextFrame ==
    ASSUME IInv, body = NoBody, base < Len(stream)
    PROVE  /\ Len(received) < Len(sent)
           /\ \A n \in 1..FrameSize(sent[Len(received) + 1]) :
                 base + n <= Len(stream) => stream[base + n] = At(sent[Len(received) + 1], n)
  <1> DEFINE k == base + 1
             u == stream[k].of
  <1>1. TypeOK /\ Order /\ Frames /\ Reader
    BY DEF IInv
  <1>2. k \in 1..Len(stream) /\ base \in Nat /\ InFrame(k) /\ Len(received) \in Nat
    BY <1>1, Lengths DEF Frames
  <1>3. u \in Sender /\ stream[k].at \in Nat /\ FrameSize(u) \in Nat
    BY <1>1, <1>2, Lengths, Sizes
  <1>4. Start(k) = base
    <2>1. stream[k].at \in 1..FrameSize(u) /\ Start(k) = base + 1 - stream[k].at /\ Start(k) >= 0
      BY <1>2 DEF InFrame, Start
    <2>2. CASE received = << >>
      BY <2>1, <2>2, <1>1, <1>3 DEF Reader
    <2>3. CASE received # << >>
      <3>1. stream[base].at = FrameSize(stream[base].of) /\ base > 0
        BY <2>3, <1>1 DEF Reader, At
      <3>2. SUFFICES ASSUME stream[k].at > 1 PROVE FALSE
        BY <2>1, <1>2, <1>3
      <3>3. stream[k].at - 1 \in 1..FrameSize(u) /\ Start(k) + (stream[k].at - 1) = base
        BY <3>2, <2>1, <1>2, <1>3
      <3>4. stream[base] = At(u, stream[k].at - 1)
        BY <3>3, <1>2 DEF InFrame
      <3> QED
        BY <3>1, <3>4, <2>1, <1>3 DEF At
    <2> QED
      BY <2>2, <2>3
  <1>5. Len(received) < Len(sent) /\ u = sent[Len(received) + 1]
    <2>1. PICK i \in 1..Len(sent) :
              /\ u = sent[i]
              /\ base = 0 => i = 1
              /\ base > 0 => i > 1 /\ stream[base] = At(sent[i - 1], FrameSize(sent[i - 1]))
      BY <1>2, <1>4 DEF InFrame
    <2>2. CASE received = << >>
      BY <2>1, <2>2, <1>1, Lengths DEF Reader
    <2>3. CASE received # << >>
      <3>1. /\ base > 0 /\ Len(received) \in 1..Len(sent)
            /\ stream[base].of = sent[Len(received)]
        BY <2>3, <1>1, <1>2, Lengths DEF Reader, At
      <3>2. i - 1 \in 1..Len(sent) /\ sent[i - 1] = sent[Len(received)]
        BY <3>1, <2>1, <1>1, Lengths DEF At
      <3>3. i - 1 = Len(received)
        BY <3>1, <3>2, <1>1 DEF Order
      <3> QED
        BY <3>3, <2>1, <1>1, Lengths
    <2> QED
      BY <2>2, <2>3
  <1> QED
    BY <1>2, <1>4, <1>5 DEF InFrame

(* Behind a header, what follows is the body it announced.                 *)
LEMMA NextBody ==
    ASSUME IInv, body # NoBody
    PROVE  \A n \in 1..Size[sent[Len(received) + 1]] :
              base + n <= Len(stream) => stream[base + n] = At(sent[Len(received) + 1], HEADER + n)
  <1> DEFINE s == sent[Len(received) + 1]
  <1>1. TypeOK /\ Frames /\ Reader
    BY DEF IInv
  <1>2. s \in Sender /\ stream[base] = At(s, HEADER) /\ base \in 1..Len(stream)
    BY <1>1, Lengths DEF Reader
  <1>3. InFrame(base) /\ Start(base) = base - HEADER
    BY <1>1, <1>2 DEF Frames, Start, At
  <1>4. SUFFICES ASSUME NEW n \in 1..Size[s], base + n <= Len(stream)
                 PROVE  stream[base + n] = At(s, HEADER + n)
    OBVIOUS
  <1>5. HEADER + n \in 1..FrameSize(s) /\ Start(base) + (HEADER + n) = base + n
    <2>1. /\ base \in Nat /\ n \in Nat /\ HEADER \in Nat /\ Size[s] \in Nat /\ n >= 1
          /\ n <= Size[s] /\ FrameSize(s) = HEADER + Size[s]
      BY <1>2, Sizes
    <2> QED
      BY <2>1, <1>3
  <1>6. stream[base].of = s
    BY <1>2 DEF At
  <1> QED
    BY <1>3, <1>4, <1>5, <1>6 DEF InFrame

(* While the other end reads, a frame that is cut short is being written.  *)
LEMMA CutShort ==
    ASSUME IInv, reading = "on", NEW t \in Sender, NEW n \in Nat,
           stream # << >>, stream[Len(stream)] = At(t, n), n < FrameSize(t)
    PROVE  lock = t /\ left[t] = FrameSize(t) - n
  <1>1. TypeOK /\ Shape /\ Frames /\ Front
    BY DEF IInv
  <1>2. Len(stream) \in 1..Len(stream)
    BY <1>1, Lengths
  <1>3. PICK i \in 1..Len(sent) : stream[Len(stream)].of = sent[i]
    BY <1>1, <1>2 DEF Frames, InFrame
  <1>4. sent[i] = t /\ n = FrameSize(t) - left[t]
    BY <1>1, <1>3 DEF Front, At
  <1>5. left[t] = FrameSize(t) - n /\ left[t] > 0
    <2>1. left[t] \in Nat /\ FrameSize(t) \in Nat
      BY <1>1, Sizes DEF TypeOK
    <2> QED
      BY <2>1, <1>4
  <1>6. writer[t] = "write"
    <2>1. writer[t] \in {"idle", "lock", "write", "sent", "failed", "refused"}
      BY <1>1 DEF TypeOK
    <2>2. writer[t] \notin {"idle", "lock", "refused"}
      BY <1>1, <1>3, <1>4 DEF Shape
    <2>3. writer[t] # "sent" /\ writer[t] # "failed"
      BY <1>1, <1>5 DEF Shape
    <2> QED
      BY <2>1, <2>2, <2>3
  <1> QED
    BY <1>1, <1>5, <1>6 DEF Shape

-----------------------------------------------------------------------------
(* The steps of the senders.                                               *)

LEMMA InitInv == Init => IInv
  <1> SUFFICES ASSUME Init PROVE IInv
    OBVIOUS
  <1>1. Len(sent) = 0 /\ Len(stream) = 0 /\ Len(received) = 0
    BY DEF Init
  <1>2. TypeOK
    <2>1. left \in [Sender -> Nat]
      BY Sizes DEF Init
    <2>2. Wanted = HEADER /\ Need = HEADER
      BY Sizes DEF Init, Wanted, Need, NoBody
    <2> QED
      BY <2>1, <2>2, <1>1, Sizes, EmptySeq DEF Init, TypeOK, NoBody
  <1>3. Shape /\ Order /\ Ends
    <2>1. \A t \in Sender : left[t] = FrameSize(t)
      BY DEF Init
    <2>2. ASSUME NEW t \in Sender PROVE left[t] <= FrameSize(t)
      BY <2>1, Sizes
    <2> QED
      BY <1>1, <2>1, <2>2, NoneAssumption DEF Init, Shape, Order, Ends
  <1>4. Frames /\ Front /\ Reader /\ EofMeansComplete /\ ErrorMeansTorn
    BY <1>1 DEF Init, Frames, Front, Reader, EofMeansComplete, ErrorMeansTorn
  <1> QED
    BY <1>2, <1>3, <1>4 DEF IInv

(* What a step that does not touch them keeps.                             *)
LEMMA Kept ==
    /\ UNCHANGED <<stream, sent>> /\ Frames => Frames'
    /\ UNCHANGED <<stream, sent, left>> /\ Front => Front'
    /\ UNCHANGED <<stream, sent, base, body, received>> /\ Reader => Reader'
    /\ UNCHANGED <<sent, lock>> /\ Order => Order'
    /\ UNCHANGED <<reading, left, received, sent>> /\ EofMeansComplete => EofMeansComplete'
  <1>1. UNCHANGED <<stream, sent>> /\ Frames => Frames'
    <2>1. SUFFICES ASSUME stream' = stream, sent' = sent, NEW k \in 1..Len(stream), InFrame(k)
                   PROVE  InFrame(k)'
      BY DEF Frames
    <2>2. Start(k)' = Start(k)
      BY <2>1 DEF Start
    <2> QED
      BY <2>1, <2>2 DEF InFrame, At, FrameSize
  <1>2. UNCHANGED <<stream, sent, left>> /\ Front => Front'
    BY DEF Front, FrameSize
  <1>3. UNCHANGED <<stream, sent, base, body, received>> /\ Reader => Reader'
    BY DEF Reader, At, FrameSize
  <1>4. UNCHANGED <<sent, lock>> /\ Order => Order'
    BY DEF Order
  <1>5. UNCHANGED <<reading, left, received, sent>> /\ EofMeansComplete => EofMeansComplete'
    BY DEF EofMeansComplete, FrameSize
  <1> QED
    BY <1>1, <1>2, <1>3, <1>4, <1>5

(* A thread that runs shows that the process has not ended: an error of    *)
(* the reader is one about a large frame, and stays.                       *)
LEMMA SenderKeepsEnds ==
    ASSUME IInv, alive, UNCHANGED <<alive, reading>>, Len(sent) <= Len(sent'),
           \A i \in 1..Len(sent) : sent'[i] = sent[i]
    PROVE  Ends' /\ EofMeansComplete' /\ ErrorMeansTorn'
  <1>1. reading # "eof"
    BY DEF IInv, Ends
  <1>2. reading = "error" => Oversized
    BY DEF IInv, ErrorMeansTorn, Torn
  <1>3. Oversized => Oversized'
    <2>1. SUFFICES ASSUME NEW i \in 1..Len(sent), Size[sent[i]] > READ_MAX
                   PROVE  Oversized'
      BY DEF Oversized
    <2>2. i \in 1..Len(sent') /\ sent'[i] = sent[i]
      <3>1. Len(sent) \in Nat
        BY Lengths DEF IInv
      <3> QED
        BY <3>1
    <2> QED
      BY <2>1, <2>2 DEF Oversized
  <1> QED
    BY <1>1, <1>2, <1>3 DEF Ends, EofMeansComplete, ErrorMeansTorn

LEMMA EncodeStep ==
    ASSUME IInv, NEW t \in Sender, Encode(t)
    PROVE  IInv'
  <1>1. TypeOK'
    BY DEF IInv, TypeOK, Encode, Goto, receiving, Need, Wanted
  <1>2. Shape'
    BY DEF IInv, TypeOK, Shape, Encode, Goto, receiving
  <1>3. Order' /\ Frames' /\ Front' /\ Reader'
    BY Kept DEF IInv, Encode, receiving
  <1>4. Ends' /\ EofMeansComplete' /\ ErrorMeansTorn'
    BY SenderKeepsEnds, Lengths DEF IInv, Encode, receiving
  <1> QED
    BY <1>1, <1>2, <1>3, <1>4 DEF IInv

LEMMA AcquireStep ==
    ASSUME IInv, NEW t \in Sender, Acquire(t)
    PROVE  IInv'
  <1> DEFINE L == Len(sent)
  <1>1. /\ TypeOK /\ Shape /\ Order /\ Frames /\ Front /\ Reader
        /\ UNCHANGED <<alive, left, stream, pos, base, body, reading, received>>
        /\ alive /\ writer[t] = "lock" /\ lock = None /\ lock' = t
        /\ sent' = Append(sent, t) /\ writer' = [writer EXCEPT ![t] = "write"]
    BY DEF IInv, Acquire, LockFree, Goto, receiving
  <1>2. /\ L \in Nat /\ Len(sent') = L + 1 /\ sent'[L + 1] = t /\ sent' \in Seq(Sender)
        /\ \A i \in 1..L : sent'[i] = sent[i] /\ sent[i] # t /\ sent[i] \in Sender
    <2>1. sent \in Seq(Sender)
      BY <1>1 DEF TypeOK
    <2>2. \A i \in 1..L : sent[i] # t
      BY <1>1 DEF Shape
    <2> QED
      BY <2>1, <2>2, <1>1, AppendProperties, LenProperties, ElementOfSeq
  <1>3. TypeOK'
    BY <1>1, <1>2 DEF TypeOK, Need, Wanted
  <1>4. Shape'
    BY <1>1, <1>2, NoneAssumption DEF Shape, TypeOK
  <1>5. Order'
    BY <1>1, <1>2, EmptySeq DEF Order
  <1>6. Frames'
    <2>1. SUFFICES ASSUME NEW k \in 1..Len(stream) PROVE InFrame(k)'
      BY <1>1 DEF Frames
    <2>2. InFrame(k)
      BY <1>1 DEF Frames
    <2>3. PICK i \in 1..L :
              /\ stream[k].of = sent[i]
              /\ Start(k) = 0 => i = 1
              /\ Start(k) > 0 => i > 1 /\ stream[Start(k)] = At(sent[i - 1], FrameSize(sent[i - 1]))
      BY <2>2 DEF InFrame
    <2>4. i \in 1..Len(sent') /\ sent'[i] = sent[i] /\ (i > 1 => sent'[i - 1] = sent[i - 1])
      BY <1>2
    <2> QED
      BY <2>2, <2>3, <2>4, <1>1 DEF InFrame, Start
  <1>7. Front'
    <2>1. CASE stream = << >>
      BY <2>1, <1>1 DEF Front
    <2>2. CASE stream # << >>
      <3>1. SUFFICES ASSUME NEW i \in 1..Len(sent'), stream[Len(stream)].of = sent'[i]
                     PROVE  /\ stream[Len(stream)].at = FrameSize(sent'[i]) - left[sent'[i]]
                            /\ \A j \in 1..Len(sent') : j > i => left[sent'[j]] = FrameSize(sent'[j])
        BY <2>2, <1>1 DEF Front
      <3>2. Len(stream) \in 1..Len(stream)
        BY <2>2, <1>1, Lengths
      <3>3. PICK n \in 1..L : stream[Len(stream)].of = sent[n]
        BY <3>2, <1>1 DEF Frames, InFrame
      <3>4. i \in 1..L /\ sent'[i] = sent[i]
        <4>1. i \in 1..(L + 1)
          BY <1>2
        <4>2. i # L + 1
          BY <3>1, <3>3, <1>2
        <4> QED
          BY <4>1, <4>2, <1>2
      <3>5. /\ stream[Len(stream)].at = FrameSize(sent[i]) - left[sent[i]]
            /\ \A j \in 1..L : j > i => left[sent[j]] = FrameSize(sent[j])
        BY <3>1, <3>4, <2>2, <1>1 DEF Front
      <3>6. left[t] = FrameSize(t)
        BY <1>1 DEF Shape
      <3> QED
        BY <3>4, <3>5, <3>6, <1>2
    <2> QED
      BY <2>1, <2>2
  <1>8. Reader'
    <2>1. Len(received) \in Nat
      BY <1>1, Lengths
    <2> QED
      BY <2>1, <1>1, <1>2, Lengths DEF Reader
  <1>9. Ends' /\ EofMeansComplete' /\ ErrorMeansTorn'
    BY <1>1, <1>2, SenderKeepsEnds
  <1> QED
    BY <1>3, <1>4, <1>5, <1>6, <1>7, <1>8, <1>9 DEF IInv

LEMMA ReleaseStep ==
    ASSUME IInv, NEW t \in Sender, Fail(t) \/ Finish(t)
    PROVE  IInv'
  <1>1. /\ TypeOK /\ Shape /\ lock' = None /\ writer[t] = "write" /\ lock = t
        /\ UNCHANGED <<alive, left, stream, sent, pos, base, body, reading, received>>
        /\ \/ writer' = [writer EXCEPT ![t] = "failed"] /\ reading # "on"
           \/ writer' = [writer EXCEPT ![t] = "sent"] /\ left[t] = 0
    BY DEF IInv, Shape, Fail, Finish, Unlock, Goto, receiving
  <1>2. TypeOK'
    BY <1>1 DEF TypeOK, Need, Wanted
  <1>3. Shape'
    <2>1. SUFFICES ASSUME NEW x \in Sender
                   PROVE  /\ writer'[x] \in {"idle", "lock", "refused"} =>
                                /\ left[x] = FrameSize(x)
                                /\ \A i \in 1..Len(sent) : sent[i] # x
                          /\ writer'[x] = "write" <=> None = x
                          /\ writer'[x] = "sent" => left[x] = 0
                          /\ writer'[x] = "failed" => reading # "on"
                          /\ left[x] <= FrameSize(x)
      BY <1>1 DEF Shape, FrameSize
    <2>2. writer \in [Sender -> {"idle", "lock", "write", "sent", "failed", "refused"}]
      BY <1>1 DEF TypeOK
    <2>3. CASE x = t
      BY <2>2, <2>3, <1>1, NoneAssumption DEF Shape
    <2>4. CASE x # t
      BY <2>2, <2>4, <1>1, NoneAssumption DEF Shape
    <2> QED
      BY <2>3, <2>4
  <1>4. Order'
    BY DEF IInv, Order, Fail, Finish, Unlock, receiving
  <1>5. Frames' /\ Front' /\ Reader'
    BY Kept DEF IInv, Fail, Finish, receiving
  <1>6. Ends' /\ EofMeansComplete' /\ ErrorMeansTorn'
    <2>1. alive /\ UNCHANGED <<alive, reading, sent>>
      BY DEF Fail, Finish, receiving
    <2>2. Len(sent) \in Nat
      BY Lengths DEF IInv
    <2> QED
      BY <2>1, <2>2, SenderKeepsEnds
  <1> QED
    BY <1>2, <1>3, <1>4, <1>5, <1>6 DEF IInv

(* What is on the stream when t writes on, w units into its frame.         *)
LEMMA WriterAtFront ==
    ASSUME IInv, NEW t \in Sender, writer[t] = "write", reading = "on",
           NEW w, w = FrameSize(t) - left[t]
    PROVE  /\ w \in Nat
           /\ Len(sent) > 0 /\ sent[Len(sent)] = t
           /\ w > 0 => Len(stream) > 0 /\ stream[Len(stream)] = At(t, w)
           /\ w = 0 /\ Len(stream) = 0 => Len(sent) = 1
           /\ w = 0 /\ Len(stream) > 0 =>
                 /\ Len(sent) > 1
                 /\ stream[Len(stream)] =
                       At(sent[Len(sent) - 1], FrameSize(sent[Len(sent) - 1]))
  <1> DEFINE L == Len(stream)
             N == Len(sent)
  <1>1. TypeOK /\ Shape /\ Order /\ Frames /\ Front
    BY DEF IInv
  <1>2. L \in Nat /\ N \in Nat /\ \A i \in 1..N : sent[i] \in Sender
    BY <1>1, Lengths
  <1>3. left[t] \in Nat /\ FrameSize(t) \in Nat /\ FrameSize(t) > 0 /\ left[t] <= FrameSize(t)
    <2>1. left[t] \in Nat
      BY <1>1 DEF TypeOK
    <2>2. left[t] <= FrameSize(t)
      BY <1>1 DEF Shape
    <2> QED
      BY <2>1, <2>2, Sizes
  <1>4. lock = t /\ N > 0 /\ sent[N] = t
    BY <1>1, <1>2, NoneAssumption, Lengths DEF Shape, Order
  <1>5. \A j \in 1..N : sent[j] # t => left[sent[j]] = 0
    <2>1. SUFFICES ASSUME NEW j \in 1..N, sent[j] # t PROVE left[sent[j]] = 0
      OBVIOUS
    <2>2. writer[sent[j]] \in {"idle", "lock", "write", "sent", "failed", "refused"}
      BY <1>1, <1>2 DEF TypeOK
    <2>3. writer[sent[j]] \notin {"idle", "lock", "refused"}
      BY <1>1, <1>2 DEF Shape
    <2>4. writer[sent[j]] # "write" /\ writer[sent[j]] # "failed"
      BY <1>1, <1>2, <1>4, <2>1 DEF Shape
    <2> QED
      BY <2>2, <2>3, <2>4, <1>1, <1>2 DEF Shape
  <1>6. ASSUME L > 0
        PROVE  \E i \in 1..N :
                  /\ stream[L] = At(sent[i], FrameSize(sent[i]) - left[sent[i]])
                  /\ FrameSize(sent[i]) - left[sent[i]] > 0
                  /\ \A j \in 1..N : j > i => left[sent[j]] = FrameSize(sent[j])
    <2>1. L \in 1..Len(stream) /\ stream # << >>
      BY <1>1, <1>2, <1>6, Lengths
    <2>2. stream[L] \in [of : Sender, at : Nat] /\ InFrame(L)
      BY <2>1, <1>1, Lengths DEF Frames
    <2>3. stream[L].at > 0 /\ \E i \in 1..N : stream[L].of = sent[i]
      BY <2>2, Sizes DEF InFrame
    <2>4. PICK i \in 1..N : stream[L].of = sent[i]
      BY <2>3
    <2>5. /\ stream[L].at = FrameSize(sent[i]) - left[sent[i]]
          /\ \A j \in 1..N : j > i => left[sent[j]] = FrameSize(sent[j])
      BY <2>1, <2>4, <1>1 DEF Front
    <2> QED
      BY <2>2, <2>3, <2>4, <2>5 DEF At
  <1>7. w \in Nat
    BY <1>3
  <1>8. w > 0 => L > 0 /\ stream[L] = At(t, w)
    <2>1. SUFFICES ASSUME w > 0 PROVE L > 0 /\ stream[L] = At(t, w)
      OBVIOUS
    <2>2. L > 0
      BY <2>1, <1>1, <1>2, <1>3, Lengths DEF Front
    <2>3. PICK i \in 1..N :
              /\ stream[L] = At(sent[i], FrameSize(sent[i]) - left[sent[i]])
              /\ \A j \in 1..N : j > i => left[sent[j]] = FrameSize(sent[j])
      BY <2>2, <1>6
    <2>4. i = N
      BY <2>1, <2>3, <1>2, <1>3, <1>4
    <2> QED
      BY <2>2, <2>3, <2>4, <1>4
  <1>9. w = 0 /\ L = 0 => N = 1
    <2>1. SUFFICES ASSUME L = 0 PROVE N = 1
      OBVIOUS
    <2>2. 1 \in 1..N /\ N \in 1..N
      BY <1>2, <1>4
    <2>3. stream = << >>
      BY <2>1, <1>1, Lengths
    <2>4. left[sent[1]] = FrameSize(sent[1]) /\ FrameSize(sent[1]) > 0
      BY <2>2, <2>3, <1>1, <1>2, Sizes DEF Front
    <2>5. sent[1] = t
      BY <2>2, <2>4, <1>5
    <2> QED
      BY <2>2, <2>5, <1>1, <1>4 DEF Order
  <1>10. w = 0 /\ L > 0 => N > 1 /\ stream[L] = At(sent[N - 1], FrameSize(sent[N - 1]))
    <2>1. SUFFICES ASSUME w = 0, L > 0
                   PROVE  N > 1 /\ stream[L] = At(sent[N - 1], FrameSize(sent[N - 1]))
      OBVIOUS
    <2>2. PICK i \in 1..N :
              /\ stream[L] = At(sent[i], FrameSize(sent[i]) - left[sent[i]])
              /\ FrameSize(sent[i]) - left[sent[i]] > 0
              /\ \A j \in 1..N : j > i => left[sent[j]] = FrameSize(sent[j])
      BY <2>1, <1>6
    <2>3. sent[i] # t /\ i # N
      BY <2>1, <2>2, <1>3, <1>4
    <2>4. N - 1 \in 1..N /\ N \in 1..N /\ i <= N - 1 /\ N > 1
      BY <2>2, <2>3, <1>2
    <2>5. sent[N - 1] # t
      BY <2>4, <1>1, <1>4 DEF Order
    <2>6. left[sent[N - 1]] = 0 /\ FrameSize(sent[N - 1]) \in Nat /\ FrameSize(sent[N - 1]) > 0
      BY <2>4, <2>5, <1>2, <1>5, Sizes
    <2>7. i = N - 1
      BY <2>2, <2>4, <2>6
    <2> QED
      BY <2>2, <2>4, <2>6, <2>7
  <1> QED
    BY <1>4, <1>7, <1>8, <1>9, <1>10

LEMMA WriteStep ==
    ASSUME IInv, NEW t \in Sender, Write(t)
    PROVE  IInv'
  <1> DEFINE L == Len(stream)
             N == Len(sent)
             w == FrameSize(t) - left[t]
             Unit == [of : Sender, at : Nat]
  <1>1. /\ TypeOK /\ Shape /\ Order /\ Frames /\ Front /\ Reader
        /\ UNCHANGED <<alive, writer, lock, sent, pos, base, body, reading, received>>
        /\ alive /\ writer[t] = "write" /\ reading = "on"
    BY DEF IInv, Write, receiving
  <1>2. PICK n \in 1..left[t] :
            /\ n <= Room
            /\ stream' = stream \o Units(t, n)
            /\ left' = [left EXCEPT ![t] = left[t] - n]
    BY DEF Write, Remaining
  <1>3. /\ w \in Nat /\ N > 0 /\ sent[N] = t
        /\ w > 0 => L > 0 /\ stream[L] = At(t, w)
        /\ w = 0 /\ L = 0 => N = 1
        /\ w = 0 /\ L > 0 => N > 1 /\ stream[L] = At(sent[N - 1], FrameSize(sent[N - 1]))
    BY <1>1, WriterAtFront
  <1>4. /\ left \in [Sender -> Nat] /\ left[t] \in Nat /\ n \in Nat /\ n > 0 /\ n <= left[t]
        /\ FrameSize(t) \in Nat /\ FrameSize(t) = w + left[t]
        /\ L \in Nat /\ N \in Nat
        /\ left'[t] = left[t] - n /\ left'[t] \in Nat
        /\ \A x \in Sender \ {t} : left'[x] = left[x]
        /\ left' \in [Sender -> Nat]
    <2>1. left \in [Sender -> Nat] /\ left[t] \in Nat
      BY <1>1 DEF TypeOK
    <2>2. FrameSize(t) \in Nat /\ L \in Nat /\ N \in Nat
      BY <1>1, Lengths, Sizes
    <2> QED
      BY <2>1, <2>2, <1>2, <1>3
  <1> HIDE DEF w
  <1>5. /\ stream' \in Seq(Unit)
        /\ Len(stream') = L + n
        /\ \A k \in 1..L : stream'[k] = stream[k]
        /\ \A m \in 1..n : stream'[L + m] = At(t, w + m)
    <2>1. /\ Units(t, n) \in Seq(Unit) /\ Len(Units(t, n)) = n
          /\ \A m \in 1..n : Units(t, n)[m] = At(t, w + m)
      <3>1. Units(t, n) = [m \in 1..n |-> At(t, w + m)]
        BY DEF Units, At, w
      <3>2. ASSUME NEW m \in 1..n PROVE At(t, w + m) \in Unit
        BY <1>3, <1>4 DEF At
      <3>3. Units(t, n) \in [1..n -> Unit]
        BY <3>1, <3>2
      <3> QED
        BY <3>1, <3>3, <1>4, LenProperties
    <2>2. stream \in Seq(Unit)
      BY <1>1 DEF TypeOK
    <2>3. /\ stream' \in Seq(Unit) /\ Len(stream') = L + n
          /\ \A k \in 1..L + n : stream'[k] = IF k <= L THEN stream[k] ELSE Units(t, n)[k - L]
      BY <2>1, <2>2, <1>2, ConcatProperties
    <2>4. ASSUME NEW m \in 1..n PROVE stream'[L + m] = At(t, w + m)
      <3>1. L + m \in 1..L + n /\ ~(L + m <= L) /\ (L + m) - L = m
        BY <1>4
      <3> QED
        BY <3>1, <2>1, <2>3
    <2>5. ASSUME NEW k \in 1..L PROVE stream'[k] = stream[k]
      <3>1. k \in 1..L + n /\ k <= L
        BY <1>4
      <3> QED
        BY <3>1, <2>3
    <2> QED
      BY <2>3, <2>4, <2>5
  <1>6. TypeOK'
    <2>1. L - pos + n <= Capacity /\ pos \in 0..L
      BY <1>1, <1>2, <1>4, Sizes, Lengths DEF Room
    <2>2. Need' = Need
      BY <1>1 DEF Need, Wanted
    <2>3. Len(stream') - pos <= Capacity /\ pos \in 0..Len(stream')
      BY <2>1, <1>4, <1>5, <1>1, Lengths, Sizes
    <2> QED
      BY <2>2, <2>3, <1>1, <1>4, <1>5 DEF TypeOK
  <1>7. Shape'
    <2>1. SUFFICES ASSUME NEW x \in Sender
                   PROVE  /\ writer[x] \in {"idle", "lock", "refused"} =>
                                /\ left'[x] = FrameSize(x)
                                /\ \A i \in 1..N : sent[i] # x
                          /\ writer[x] = "write" <=> lock = x
                          /\ writer[x] = "sent" => left'[x] = 0
                          /\ writer[x] = "failed" => reading # "on"
                          /\ left'[x] <= FrameSize(x)
      BY <1>1 DEF Shape, FrameSize
    <2>2. CASE x = t
      BY <2>2, <1>1, <1>3, <1>4 DEF Shape
    <2>3. CASE x # t
      BY <2>3, <1>1, <1>4 DEF Shape
    <2> QED
      BY <2>2, <2>3
  <1>8. Order'
    BY <1>1 DEF Order
  <1>9. \A k \in 1..L : InFrame(k)
    BY <1>1 DEF Frames
  \* The frame of t begins at L - w.
  <1>10. /\ L - w >= 0
         /\ \A j \in 1..FrameSize(t) : (L - w) + j <= L + n => stream'[(L - w) + j] = At(t, j)
         /\ L - w = 0 => N = 1
         /\ L - w > 0 => N > 1 /\ stream[L - w] = At(sent[N - 1], FrameSize(sent[N - 1]))
    <2>1. CASE w = 0
      BY <2>1, <1>3, <1>4, <1>5
    <2>2. CASE w > 0
      <3>1. L \in 1..L /\ InFrame(L) /\ stream[L] = At(t, w) /\ Start(L) = L - w
        BY <2>2, <1>3, <1>4, <1>9 DEF Start, At
      <3>2. PICK i \in 1..N :
                /\ sent[i] = t
                /\ L - w = 0 => i = 1
                /\ L - w > 0 => i > 1 /\ stream[L - w] = At(sent[i - 1], FrameSize(sent[i - 1]))
        <4>1. stream[L].of = t
          BY <3>1 DEF At
        <4> QED
          BY <3>1, <4>1 DEF InFrame
      <3>3. i = N
        BY <3>2, <1>1, <1>3, <1>4 DEF Order
      <3>4. \A j \in 1..FrameSize(t) : (L - w) + j <= L => stream[(L - w) + j] = At(t, j)
        BY <3>1 DEF InFrame, At
      <3>5. L - w >= 0
        BY <3>1 DEF InFrame
      <3>6. ASSUME NEW j \in 1..FrameSize(t), (L - w) + j <= L + n
            PROVE  stream'[(L - w) + j] = At(t, j)
        <4>1. CASE j <= w
          <5>1. (L - w) + j \in 1..L
            BY <4>1, <3>5, <1>3, <1>4
          <5>2. stream[(L - w) + j] = At(t, j)
            BY <5>1, <3>4
          <5>3. stream'[(L - w) + j] = stream[(L - w) + j]
            BY <5>1, <1>5
          <5> QED
            BY <5>2, <5>3
        <4>2. CASE j > w
          <5>1. j - w \in 1..n /\ L + (j - w) = (L - w) + j /\ w + (j - w) = j
            BY <4>2, <3>6, <1>3, <1>4
          <5>2. stream'[L + (j - w)] = At(t, w + (j - w))
            BY <5>1, <1>5
          <5> QED
            BY <5>1, <5>2
        <4> QED
          BY <4>1, <4>2, <1>3
      <3> QED
        BY <3>2, <3>3, <3>5, <3>6
    <2> QED
      BY <2>1, <2>2, <1>3
  <1>11. Frames'
    <2>1. SUFFICES ASSUME NEW k \in 1..L + n PROVE InFrame(k)'
      BY <1>5 DEF Frames
    <2>2. CASE k > L
      <3>1. k - L \in 1..n /\ stream'[k] = At(t, w + (k - L))
        <4>1. k - L \in 1..n /\ L + (k - L) = k
          BY <2>2, <1>4
        <4> QED
          BY <4>1, <1>5
      <3>2. /\ stream'[k].of = t /\ stream'[k].at = w + (k - L)
            /\ w + (k - L) \in 1..FrameSize(t) /\ Start(k)' = L - w
        <4>1. stream'[k].of = t /\ stream'[k].at = w + (k - L)
          BY <3>1 DEF At
        <4>2. /\ k - L >= 1 /\ k - L <= n /\ k \in Nat /\ k - L \in Nat
          BY <2>2, <3>1, <1>4
        <4>3. w + (k - L) \in 1..FrameSize(t) /\ k - (w + (k - L)) = L - w
          BY <4>2, <1>3, <1>4
        <4> QED
          BY <4>1, <4>3 DEF Start
      <3>3. ASSUME L - w > 0 PROVE stream'[L - w] = stream[L - w]
        <4>1. L - w \in 1..L
          BY <3>3, <1>3, <1>4
        <4> QED
          BY <4>1, <1>5
      <3>4. N \in 1..N
        BY <1>3, <1>4
      <3> QED
        BY <3>2, <3>3, <3>4, <1>1, <1>3, <1>5, <1>10 DEF InFrame, At, FrameSize
    <2>3. CASE k <= L
      <3>1. k \in 1..L /\ InFrame(k) /\ stream'[k] = stream[k] /\ Start(k)' = Start(k)
        <4>1. k \in 1..L
          BY <2>3, <1>4
        <4>2. InFrame(k) /\ stream'[k] = stream[k]
          BY <4>1, <1>5, <1>9
        <4> QED
          BY <4>1, <4>2 DEF Start
      <3>2. PICK i \in 1..N :
                /\ stream[k].of = sent[i]
                /\ Start(k) = 0 => i = 1
                /\ Start(k) > 0 => i > 1 /\ stream[Start(k)] = At(sent[i - 1], FrameSize(sent[i - 1]))
        BY <3>1 DEF InFrame
      <3> DEFINE s == stream[k].of
      <3>3. /\ s \in Sender /\ stream[k].at \in 1..FrameSize(s) /\ FrameSize(s) \in Nat
            /\ Start(k) = k - stream[k].at /\ Start(k) \in Nat /\ Start(k) < k
        BY <3>1, <1>1, Lengths, Sizes DEF InFrame, Start
      <3>4. ASSUME Start(k) > 0 PROVE stream'[Start(k)] = stream[Start(k)]
        <4>1. Start(k) \in 1..L
          BY <3>4, <3>1, <3>3, <1>4
        <4> QED
          BY <4>1, <1>5
      <3>5. ASSUME NEW j \in 1..FrameSize(s), Start(k) + j <= L + n
            PROVE  stream'[Start(k) + j] = At(s, j)
        <4>1. CASE Start(k) + j <= L
          <5>1. stream[Start(k) + j] = At(s, j) /\ Start(k) + j \in 1..L
            BY <4>1, <3>1, <3>3, <3>5 DEF InFrame
          <5> QED
            BY <5>1, <1>5
        <4>2. CASE ~(Start(k) + j <= L)
          \* The frame is cut short at L, so it is that of t.
          <5> DEFINE m == L - Start(k)
          <5>7. /\ L \in Nat /\ Start(k) \in Nat /\ FrameSize(s) \in Nat /\ j \in Nat
                /\ Start(k) < L /\ j <= FrameSize(s) /\ Start(k) + j > L
            <6>1. L \in Nat /\ Start(k) \in Nat /\ FrameSize(s) \in Nat /\ Start(k) < L
              BY <3>1, <3>3, <1>4
            <6>2. j \in Nat /\ j <= FrameSize(s)
              BY <3>5, <6>1
            <6> QED
              BY <4>2, <6>1, <6>2
          <5>1. m \in 1..FrameSize(s) /\ m < FrameSize(s) /\ Start(k) + m = L /\ m \in Nat
            BY <5>7
          <5>2. stream[L] = At(s, m)
            BY <5>1, <3>1, <1>4 DEF InFrame
          <5>3. stream # << >>
            BY <3>1, <1>1, Lengths
          <5>4. lock = s /\ left[s] = FrameSize(s) - m
            BY <5>1, <5>2, <5>3, <3>3, <1>1, CutShort
          <5>5. s = t
            BY <5>4, <1>1, NoneAssumption DEF Shape
          <5>6. m = w /\ Start(k) = L - w
            <6>1. left[t] = FrameSize(t) - m
              BY <5>4, <5>5
            <6>2. /\ FrameSize(t) \in Nat /\ w \in Nat /\ m \in Nat /\ left[t] \in Nat
                  /\ FrameSize(t) = w + left[t]
              BY <5>1, <1>3, <1>4
            <6>3. m = w
              BY <6>1, <6>2
            <6> QED
              BY <6>3, <5>7, <5>1
          <5>8. stream'[(L - w) + j] = At(t, j)
            BY <5>5, <5>6, <3>5, <1>10
          <5> QED
            BY <5>5, <5>6, <5>8
        <4> QED
          BY <4>1, <4>2
      <3>6. \E x \in 1..N :
              /\ s = sent[x]
              /\ Start(k) = 0 => x = 1
              /\ Start(k) > 0 =>
                    x > 1 /\ stream'[Start(k)] = At(sent[x - 1], FrameSize(sent[x - 1]))
        BY <3>2, <3>4
      <3>7. stream'[k].of = s /\ stream'[k].at = stream[k].at /\ Start(k) >= 0
        BY <3>1, <3>3
      <3> HIDE DEF s
      <3>8. InFrame(k)' <=>
              /\ stream'[k].at \in 1..FrameSize(stream'[k].of)
              /\ Start(k)' >= 0
              /\ \A j \in 1..FrameSize(stream'[k].of) :
                    Start(k)' + j <= Len(stream') =>
                        stream'[Start(k)' + j] = At(stream'[k].of, j)
              /\ \E x \in 1..Len(sent') :
                    /\ stream'[k].of = sent'[x]
                    /\ Start(k)' = 0 => x = 1
                    /\ Start(k)' > 0 =>
                          x > 1 /\ stream'[Start(k)'] = At(sent'[x - 1], FrameSize(sent'[x - 1]))
        BY DEF InFrame, FrameSize, At
      <3> QED
        BY <3>1, <3>3, <3>5, <3>6, <3>7, <3>8, <1>1, <1>5
    <2> QED
      BY <2>2, <2>3, <1>4
  <1>12. Front'
    <2>1. stream'[L + n] = At(t, w + n) /\ L + n \in 1..L + n
      BY <1>4, <1>5
    <2>2. stream' # << >>
      BY <1>4, <1>5, EmptySeq
    <2>3. SUFFICES ASSUME NEW i \in 1..N, t = sent[i]
                   PROVE  /\ w + n = FrameSize(sent[i]) - left'[sent[i]]
                          /\ \A j \in 1..N : j > i => left'[sent[j]] = FrameSize(sent[j])
      BY <2>1, <2>2, <1>1, <1>5 DEF Front, At, FrameSize
    <2>4. i = N
      BY <2>3, <1>1, <1>3, <1>4 DEF Order
    <2> QED
      BY <2>3, <2>4, <1>3, <1>4
  <1>13. Reader'
    <2>1. base > 0 => base \in 1..L
      BY <1>1, Lengths
    <2> QED
      BY <2>1, <1>1, <1>5 DEF Reader, At, FrameSize
  <1>14. Ends' /\ EofMeansComplete' /\ ErrorMeansTorn'
    BY <1>1, <1>4, SenderKeepsEnds
  <1> QED
    BY <1>6, <1>7, <1>8, <1>11, <1>12, <1>13, <1>14 DEF IInv

-----------------------------------------------------------------------------
(* The steps of the reader, and the two ends.                              *)

LEMMA ReadChunkStep ==
    ASSUME IInv, ReadChunk
    PROVE  IInv'
  <1>1. /\ TypeOK /\ Shape /\ Order /\ Frames /\ Front /\ Reader
        /\ UNCHANGED <<alive, writer, lock, left, stream, sent, base, body, reading, received>>
        /\ reading = "on"
    BY DEF IInv, ReadChunk, sending
  <1>2. PICK n \in 1..Need : pos + n <= Len(stream) /\ pos' = pos + n
    BY DEF ReadChunk
  <1>3. /\ pos \in Nat /\ base \in Nat /\ base <= pos /\ Wanted \in Nat /\ Len(stream) \in Nat
        /\ Len(stream) - pos <= Capacity
    BY <1>1, Lengths DEF TypeOK
  <1>4. Wanted' = Wanted
    BY <1>1 DEF Wanted
  <1>5. /\ pos' \in 0..Len(stream) /\ Len(stream) - pos' <= Capacity /\ base \in 0..pos'
        /\ Need' >= 0
    BY <1>1, <1>2, <1>3, <1>4, Sizes DEF Need
  <1>6. TypeOK'
    BY <1>1, <1>5 DEF TypeOK
  <1>7. Shape'
    BY <1>1 DEF Shape, FrameSize
  <1>8. Order' /\ Frames' /\ Front' /\ Reader'
    BY <1>1, Kept
  <1>9. Ends' /\ EofMeansComplete' /\ ErrorMeansTorn'
    BY <1>1 DEF Ends, EofMeansComplete, ErrorMeansTorn
  <1> QED
    BY <1>6, <1>7, <1>8, <1>9 DEF IInv

LEMMA UnpackStep ==
    ASSUME IInv, Unpack
    PROVE  IInv'
  <1> DEFINE s == sent[Len(received) + 1]
  <1>1. /\ TypeOK /\ Shape /\ Order /\ Frames /\ Front /\ Reader
        /\ UNCHANGED <<alive, writer, lock, left, stream, sent, pos, received>>
        /\ reading = "on" /\ body = NoBody
    BY DEF IInv, Unpack, sending
  <1>2. /\ pos = base + HEADER /\ pos <= Len(stream) /\ pos \in Nat /\ base \in Nat
        /\ Len(stream) \in Nat /\ Len(received) \in Nat /\ Len(sent) \in Nat
    BY <1>1, Lengths, Sizes DEF Unpack, Got, Need, Wanted
  <1>3. base < Len(stream)
    BY <1>2, Sizes
  <1>4. /\ Len(received) < Len(sent)
        /\ \A n \in 1..FrameSize(s) : base + n <= Len(stream) => stream[base + n] = At(s, n)
    BY <1>1, <1>3, NextFrame
  <1>5. Len(received) + 1 \in 1..Len(sent) /\ s \in Sender
    BY <1>1, <1>2, <1>4, Lengths
  <1>6. ASSUME NEW n \in 1..HEADER PROVE base + n <= Len(stream) /\ stream[base + n] = At(s, n)
    <2>1. n \in 1..FrameSize(s) /\ base + n <= Len(stream)
      BY <1>2, <1>5, Sizes
    <2> QED
      BY <2>1, <1>4
  <1>7. Declared = {Size[s]}
    <2>1. Whole(s, 0, HEADER)
      BY <1>2, <1>6 DEF Whole, At
    <2>2. ASSUME NEW t \in Sender, Whole(t, 0, HEADER) PROVE t = s
      <3>1. 1 \in 1..HEADER
        BY Sizes
      <3>2. stream[base + 1] = [of |-> t, at |-> 0 + 1]
        BY <2>2, <3>1 DEF Whole
      <3>3. stream[base + 1] = [of |-> s, at |-> 1]
        BY <3>1, <1>6 DEF At
      <3>4. stream[base + 1].of = t /\ stream[base + 1].of = s
        BY <3>2, <3>3
      <3> QED
        BY <3>4
    <2>3. {t \in Sender : Whole(t, 0, HEADER)} = {s}
      BY <2>1, <2>2, <1>5
    <2> QED
      BY <2>3 DEF Declared
  <1>8. Size[s] \in Nat \ {0}
    BY <1>5, Sizes
  <1>9. Order' /\ Frames' /\ Front'
    BY <1>1, Kept
  <1>10. CASE Size[s] > READ_MAX /\ reading' = "error" /\ UNCHANGED <<body, base>>
    <2>1. TypeOK'
      BY <1>1, <1>10 DEF TypeOK, Need, Wanted
    <2>2. Shape'
      BY <1>1, <1>10 DEF Shape, FrameSize
    <2>3. Reader'
      BY <1>1, <1>10, Kept
    <2>4. Oversized'
      BY <1>1, <1>5, <1>10 DEF Oversized
    <2>5. Ends' /\ EofMeansComplete' /\ ErrorMeansTorn'
      BY <1>10, <2>4 DEF Ends, EofMeansComplete, ErrorMeansTorn
    <2> QED
      BY <1>9, <2>1, <2>2, <2>3, <2>5 DEF IInv
  <1>11. CASE /\ ~(Size[s] > READ_MAX) /\ body' = Size[s] /\ base' = pos
              /\ UNCHANGED reading
    <2>1. body' \in Nat /\ body' <= READ_MAX /\ body' # NoBody
      BY <1>8, <1>11, Sizes DEF NoBody
    <2>2. Need' >= 0
      BY <1>1, <1>2, <1>11, <2>1 DEF Need, Wanted
    <2>3. TypeOK'
      BY <1>1, <1>2, <1>11, <2>1, <2>2 DEF TypeOK
    <2>4. Shape'
      BY <1>1, <1>11 DEF Shape, FrameSize
    <2>5. stream[pos] = At(s, HEADER) /\ pos > 0
      <3>1. HEADER \in 1..HEADER
        BY Sizes
      <3> QED
        BY <3>1, <1>2, <1>6
    <2>6. Reader'
      BY <1>1, <1>4, <1>11, <2>1, <2>5 DEF Reader, At
    <2>7. Ends' /\ EofMeansComplete' /\ ErrorMeansTorn'
      BY <1>1, <1>11 DEF Ends, EofMeansComplete, ErrorMeansTorn
    <2> QED
      BY <1>9, <2>3, <2>4, <2>6, <2>7 DEF IInv
  <1> QED
    BY <1>7, <1>10, <1>11 DEF Unpack, TooLarge

(* What Decode returns is the message sent next.                           *)
LEMMA DecodesNext ==
    ASSUME IInv, Decode
    PROVE  /\ Len(received) + 1 \in 1..Len(sent)
           /\ received' = Append(received, sent[Len(received) + 1])
           /\ UNCHANGED <<sending, pos, reading>>
           /\ body' = NoBody /\ base' = pos /\ pos > 0
           /\ stream[pos] = At(sent[Len(received) + 1], FrameSize(sent[Len(received) + 1]))
  <1> DEFINE s == sent[Len(received) + 1]
  <1>1. TypeOK /\ Reader /\ body # NoBody
    BY DEF IInv, Decode
  <1>2. /\ Len(received) + 1 \in 1..Len(sent) /\ s \in Sender
        /\ body = Size[s] /\ Size[s] \in Nat \ {0}
    BY <1>1, Lengths, Sizes DEF Reader
  <1>3. /\ pos = base + Size[s] /\ pos <= Len(stream) /\ pos \in Nat /\ base \in Nat
        /\ Len(stream) \in Nat
    <2>1. Wanted = Size[s] /\ base + Wanted - pos = 0
      BY <1>1, <1>2 DEF Decode, Got, Need, Wanted
    <2>2. pos \in Nat /\ base \in Nat /\ pos <= Len(stream) /\ Len(stream) \in Nat
      BY <1>1, Lengths
    <2> QED
      BY <2>1, <2>2, <1>2
  <1>4. ASSUME NEW n \in 1..Size[s]
        PROVE  base + n <= Len(stream) /\ stream[base + n] = At(s, HEADER + n)
    <2>1. base + n <= Len(stream)
      BY <1>2, <1>3
    <2> QED
      BY <2>1, <1>1, NextBody
  <1>5. Is(s)
    BY <1>2, <1>3, <1>4 DEF Is, Whole, At
  <1>6. ASSUME NEW t \in Sender, Is(t) PROVE t = s
    <2>1. 1 \in 1..Size[s]
      BY <1>2
    <2>2. stream[base + 1] = [of |-> t, at |-> HEADER + 1]
      BY <1>2, <1>6, <2>1 DEF Is, Whole
    <2>3. stream[base + 1] = [of |-> s, at |-> HEADER + 1]
      BY <2>1, <1>4 DEF At
    <2>4. stream[base + 1].of = t /\ stream[base + 1].of = s
      BY <2>2, <2>3
    <2> QED
      BY <2>4
  <1>7. received' = Append(received, s) /\ UNCHANGED reading
    BY <1>2, <1>5, <1>6 DEF Decode
  <1>8. pos > 0 /\ stream[pos] = At(s, FrameSize(s))
    <2>1. Size[s] \in 1..Size[s] /\ FrameSize(s) = HEADER + Size[s]
      BY <1>2, Sizes
    <2> QED
      BY <2>1, <1>2, <1>3, <1>4
  <1> QED
    BY <1>2, <1>7, <1>8 DEF Decode

LEMMA DecodeStep ==
    ASSUME IInv, Decode
    PROVE  IInv'
  <1> DEFINE s == sent[Len(received) + 1]
  <1>1. /\ TypeOK /\ Shape /\ Order /\ Frames /\ Front /\ Reader
        /\ Len(received) + 1 \in 1..Len(sent)
        /\ received' = Append(received, s)
        /\ UNCHANGED <<alive, writer, lock, left, stream, sent, pos, reading>>
        /\ body' = NoBody /\ base' = pos /\ pos > 0
        /\ stream[pos] = At(s, FrameSize(s))
        /\ reading = "on"
    BY DecodesNext DEF IInv, sending, Decode
  <1>2. s \in Sender /\ received \in Seq(Sender \cup {None})
    BY <1>1, Lengths DEF TypeOK
  <1>3. /\ received' \in Seq(Sender \cup {None}) /\ received' # << >>
        /\ Len(received) \in Nat /\ Len(received') = Len(received) + 1
        /\ \A i \in 1..Len(received) : received'[i] = received[i]
        /\ received'[Len(received) + 1] = s
    BY <1>1, <1>2, AppendProperties, LenProperties
  <1>4. TypeOK'
    <2>1. Need' >= 0 /\ pos \in 0..pos /\ NoBody <= READ_MAX
      BY <1>1, Lengths, Sizes DEF Need, Wanted, NoBody
    <2> QED
      BY <2>1, <1>1, <1>3 DEF TypeOK
  <1>5. Shape'
    BY <1>1 DEF Shape, FrameSize
  <1>6. Order' /\ Frames' /\ Front'
    BY <1>1, Kept
  <1>7. Reader'
    <2>1. Len(received') <= Len(sent)
      BY <1>1, <1>3
    <2>2. ASSUME NEW i \in 1..Len(received') PROVE received'[i] = sent[i]
      <3>1. i \in 1..Len(received) \/ i = Len(received) + 1
        BY <1>3
      <3> QED
        BY <3>1, <1>1, <1>3 DEF Reader
    <2> QED
      BY <2>1, <2>2, <1>1, <1>3 DEF Reader, At, FrameSize
  <1>8. Ends' /\ EofMeansComplete' /\ ErrorMeansTorn'
    BY <1>1 DEF Ends, EofMeansComplete, ErrorMeansTorn
  <1> QED
    BY <1>4, <1>5, <1>6, <1>7, <1>8 DEF IInv

(* Where the stream ends short of what the reader wants, a frame is cut.   *)
LEMMA EndInFrame ==
    ASSUME IInv, End, ~CleanEnd
    PROVE  Torn
  <1> DEFINE s == sent[Len(received) + 1]
  <1>1. /\ TypeOK /\ Frames /\ Reader /\ reading = "on" /\ ~alive
        /\ pos = Len(stream) /\ Need > 0
    BY DEF IInv, End
  <1>2. /\ pos \in Nat /\ base \in Nat /\ base <= pos /\ Wanted \in Nat
        /\ pos < base + Wanted /\ Len(received) \in Nat /\ Len(sent) \in Nat
    BY <1>1, Lengths DEF Need
  <1>3. \E n \in Nat : s \in Sender /\ n < FrameSize(s) /\ pos > 0 /\ stream[pos] = At(s, n)
    <2>1. CASE body = NoBody
      <3>1. base < pos /\ pos - base < HEADER
        BY <2>1, <1>1, <1>2, Sizes DEF CleanEnd, Wanted
      <3>2. /\ Len(received) < Len(sent)
            /\ \A n \in 1..FrameSize(s) : base + n <= Len(stream) => stream[base + n] = At(s, n)
        BY <2>1, <3>1, <1>1, NextFrame
      <3>3. s \in Sender
        BY <3>2, <1>1, <1>2, Lengths
      <3>4. /\ pos - base \in 1..FrameSize(s) /\ pos - base < FrameSize(s)
            /\ base + (pos - base) = pos
        BY <3>1, <3>3, <1>2, Sizes
      <3>5. stream[pos] = At(s, pos - base)
        BY <3>2, <3>4, <1>1, <1>2
      <3> QED
        BY <3>1, <3>3, <3>4, <3>5, <1>2
    <2>2. CASE body # NoBody
      <3>1. s \in Sender /\ Wanted = Size[s] /\ base > 0 /\ stream[base] = At(s, HEADER)
        BY <2>2, <1>1, <1>2, Lengths DEF Reader, Wanted
      <3>2. /\ Size[s] \in Nat \ {0} /\ FrameSize(s) = HEADER + Size[s] /\ HEADER \in Nat
            /\ FrameSize(s) \in Nat
        BY <3>1, Sizes
      <3>3. CASE pos = base
        BY <3>1, <3>2, <3>3, <1>2
      <3>4. CASE pos > base
        <4>1. pos - base \in 1..Size[s] /\ base + (pos - base) = pos
          BY <3>1, <3>2, <3>4, <1>2
        <4>2. stream[pos] = At(s, HEADER + (pos - base))
          BY <4>1, <2>2, <1>1, <1>2, NextBody
        <4>3. HEADER + (pos - base) \in Nat /\ HEADER + (pos - base) < FrameSize(s)
          BY <3>1, <3>2, <3>4, <1>2
        <4> QED
          BY <4>2, <4>3, <3>1, <3>4, <1>2
      <3> QED
        BY <3>3, <3>4, <1>2
    <2> QED
      BY <2>1, <2>2
  <1>4. PICK n \in Nat : s \in Sender /\ n < FrameSize(s) /\ pos > 0 /\ stream[pos] = At(s, n)
    BY <1>3
  <1>5. stream # << >>
    BY <1>1, <1>4, Lengths
  <1>6. lock = s /\ left[s] = FrameSize(s) - n
    BY <1>1, <1>4, <1>5, CutShort
  <1> QED
    BY <1>1, <1>4, <1>6, NoneAssumption, Sizes DEF Torn

(* Where it ends between two frames, everything begun has been received.   *)
LEMMA EndBetweenFrames ==
    ASSUME IInv, End, CleanEnd, NEW i \in 1..Len(sent), left[sent[i]] < FrameSize(sent[i])
    PROVE  i <= Len(received)
  <1>1. /\ TypeOK /\ Front /\ Reader /\ body = NoBody
        /\ base = Len(stream) /\ Len(received) \in Nat /\ Len(sent) \in Nat
        /\ sent[i] \in Sender /\ FrameSize(sent[i]) \in Nat
    BY Lengths, Sizes DEF IInv, End, CleanEnd
  <1>2. CASE received = << >>
    BY <1>1, <1>2, Lengths DEF Front, Reader
  <1>3. CASE received # << >>
    <2>1. /\ Len(received) \in 1..Len(sent)
          /\ stream[Len(stream)].of = sent[Len(received)] /\ stream # << >>
      BY <1>1, <1>3, Lengths DEF Reader, At
    <2>2. \A j \in 1..Len(sent) : j > Len(received) => left[sent[j]] = FrameSize(sent[j])
      BY <2>1, <1>1 DEF Front
    <2> QED
      BY <2>2, <1>1
  <1> QED
    BY <1>2, <1>3

LEMMA EndStep ==
    ASSUME IInv, End
    PROVE  IInv'
  <1>1. /\ TypeOK /\ Shape /\ Order /\ Frames /\ Front /\ Reader
        /\ UNCHANGED <<alive, writer, lock, left, stream, sent, pos, base, body, received>>
        /\ reading = "on" /\ ~alive
        /\ reading' = IF CleanEnd THEN "eof" ELSE "error"
    BY DEF IInv, End, sending
  <1>2. TypeOK'
    BY <1>1 DEF TypeOK, Need, Wanted
  <1>3. Shape'
    BY <1>1 DEF Shape, FrameSize
  <1>4. Order' /\ Frames' /\ Front' /\ Reader'
    BY <1>1, Kept
  <1>5. Ends'
    BY <1>1 DEF Ends
  <1>6. EofMeansComplete'
    BY <1>1, EndBetweenFrames DEF EofMeansComplete, FrameSize
  <1>7. ErrorMeansTorn'
    BY <1>1, EndInFrame DEF ErrorMeansTorn, Torn
  <1> QED
    BY <1>2, <1>3, <1>4, <1>5, <1>6, <1>7 DEF IInv

LEMMA LeaveStep ==
    ASSUME IInv, Leave
    PROVE  IInv'
  <1>1. /\ TypeOK /\ Shape /\ Order /\ Frames /\ Front /\ Reader
        /\ UNCHANGED <<alive, writer, lock, left, stream, sent, pos, base, body, received>>
        /\ reading' = "gone"
    BY DEF IInv, Leave, sending
  <1>2. TypeOK'
    BY <1>1 DEF TypeOK, Need, Wanted
  <1>3. Shape'
    BY <1>1 DEF Shape, FrameSize
  <1>4. Order' /\ Frames' /\ Front' /\ Reader'
    BY <1>1, Kept
  <1>5. Ends' /\ EofMeansComplete' /\ ErrorMeansTorn'
    BY <1>1 DEF Ends, EofMeansComplete, ErrorMeansTorn
  <1> QED
    BY <1>2, <1>3, <1>4, <1>5 DEF IInv

LEMMA ExitStep ==
    ASSUME IInv, Exit
    PROVE  IInv'
  <1>1. /\ TypeOK /\ Shape /\ Order /\ Frames /\ Front /\ Reader
        /\ EofMeansComplete /\ ErrorMeansTorn
        /\ UNCHANGED <<writer, lock, left, stream, sent, pos, base, body, reading, received>>
        /\ alive /\ alive' = FALSE
    BY DEF IInv, Exit, receiving
  <1>2. TypeOK'
    BY <1>1 DEF TypeOK, Need, Wanted
  <1>3. Shape'
    BY <1>1 DEF Shape, FrameSize
  <1>4. Order' /\ Frames' /\ Front' /\ Reader' /\ EofMeansComplete'
    BY <1>1, Kept
  <1>5. Ends' /\ ErrorMeansTorn'
    BY <1>1 DEF Ends, ErrorMeansTorn, Torn, Oversized
  <1> QED
    BY <1>2, <1>3, <1>4, <1>5 DEF IInv

LEMMA StutterStep ==
    ASSUME IInv, UNCHANGED vars
    PROVE  IInv'
  <1>1. /\ TypeOK /\ Shape /\ Order /\ Frames /\ Front /\ Reader
        /\ Ends /\ EofMeansComplete /\ ErrorMeansTorn
        /\ UNCHANGED <<alive, writer, lock, left, stream, sent>>
        /\ UNCHANGED <<pos, base, body, reading, received>>
    BY DEF IInv, vars, sending, receiving
  <1>2. TypeOK'
    BY <1>1 DEF TypeOK, Need, Wanted
  <1>3. Shape'
    BY <1>1 DEF Shape, FrameSize
  <1>4. Order' /\ Frames' /\ Front' /\ Reader' /\ EofMeansComplete'
    BY <1>1, Kept
  <1>5. Ends' /\ ErrorMeansTorn'
    BY <1>1 DEF Ends, ErrorMeansTorn, Torn, Oversized
  <1> QED
    BY <1>2, <1>3, <1>4, <1>5 DEF IInv

LEMMA StepInv == IInv /\ [Next]_vars => IInv'
  BY EncodeStep, AcquireStep, WriteStep, ReleaseStep, ReadChunkStep, UnpackStep, DecodeStep,
     EndStep, LeaveStep, ExitStep, StutterStep DEF Next, Send, Read

LEMMA Invariance == Spec => []IInv
  BY InitInv, StepInv, PTL DEF Spec

-----------------------------------------------------------------------------
(* Theorems.                                                               *)

(* Types, and that the pipe never holds more than it can: what a thread    *)
(* hands over while there is no room waits in write (framing.py:84-93).    *)
THEOREM WireIsTyped == Spec => []TypeOK
  <1>1. IInv => TypeOK
    BY DEF IInv
  <1> QED
    BY <1>1, Invariance, PTL

(* An end of file between two frames means that every frame begun has been *)
(* received (framing.py:38-40).                                            *)
THEOREM EofIsComplete == Spec => []EofMeansComplete
  <1>1. IInv => EofMeansComplete
    BY DEF IInv
  <1> QED
    BY <1>1, Invariance, PTL

(* A FrameError means that the end of the process cut a frame short, or    *)
(* that one was too large (framing.py:41-50).                              *)
THEOREM ErrorIsTorn == Spec => []ErrorMeansTorn
  <1>1. IInv => ErrorMeansTorn
    BY DEF IInv
  <1> QED
    BY <1>1, Invariance, PTL

(* The threads, the lock and the pieces a pipe takes and gives implement a *)
(* stream of whole messages in order (framing.py:31-55, 74-94).            *)
THEOREM WireImplementsStream == Spec => ImplementsStream
  <1>1. Init => Stream!Init
    BY DEF Init, Stream!Init
  <1>2. IInv /\ [Next]_vars => [Stream!Next]_(Stream!vars)
    <2>1. SUFFICES ASSUME IInv, [Next]_vars PROVE [Stream!Next]_(Stream!vars)
      OBVIOUS
    <2>2. ASSUME NEW t \in Sender, Acquire(t) PROVE Stream!Put
      BY <2>2 DEF Acquire, receiving, Stream!Put
    <2>3. ASSUME Decode PROVE Stream!Get
      <3>1. /\ Len(received) + 1 \in 1..Len(sent) /\ UNCHANGED sent
            /\ received' = Append(received, sent[Len(received) + 1])
        BY <2>1, <2>3, DecodesNext DEF sending
      <3>2. Len(received) \in Nat /\ Len(sent) \in Nat
        BY <2>1, Lengths DEF IInv
      <3> QED
        BY <3>1, <3>2 DEF Stream!Get
    <2>4. ASSUME \/ \E t \in Sender : Encode(t) \/ Write(t) \/ Fail(t) \/ Finish(t)
                 \/ Exit \/ ReadChunk \/ Unpack \/ End \/ Leave \/ UNCHANGED vars
          PROVE  UNCHANGED Stream!vars
      BY <2>4 DEF Encode, Write, Fail, Finish, Exit, ReadChunk, Unpack, End, Leave, vars,
                  sending, receiving, Stream!vars
    <2> QED
      BY <2>1, <2>2, <2>3, <2>4 DEF Next, Send, Read, Stream!Next
  <1> QED
    BY <1>1, <1>2, Invariance, PTL DEF Spec, ImplementsStream, Stream!Spec
=============================================================================
