----------------------------- MODULE NativeWire -----------------------------
(***************************************************************************)
(* One direction of the native-messaging stream (framing.py): threads that *)
(* share a NativeWriter on one end of a pipe, read_message on the other.   *)
(* The same frames run from the host to Firefox and from Firefox to the    *)
(* host, with different limits; here both ends are the ones of framing.py. *)
(*                                                                         *)
(* The pipe takes and gives a few units at a time.  "stream" is everything *)
(* ever written to it, "pos" how much of that was read.  The host may end  *)
(* at any moment and take its threads along, half-way through a frame; the *)
(* reader may go away at any moment, and then writing fails for good.      *)
(***************************************************************************)
EXTENDS Integers, Sequences

CONSTANTS
    Sender,      \* threads; each has one message to send
    Size,        \* units of the body of a thread's message
    HEADER,      \* units of a header
    Capacity,    \* units the pipe holds
    WRITE_MAX,   \* encode_message refuses larger bodies
    READ_MAX     \* read_message refuses larger bodies

ASSUME WireAssumption ==
    /\ Size \in [Sender -> Nat \ {0}]
    /\ {HEADER, Capacity} \subseteq Nat \ {0}
    /\ {WRITE_MAX, READ_MAX} \subseteq Nat

None == "none"
ASSUME NoneAssumption == None \notin Sender

VARIABLES
    alive,      \* the writing process
    writer,     \* where every thread is in send
    lock,       \* holder of NativeWriter.lock
    left,       \* units of its frame a thread has still to write
    stream, pos,
    base,       \* where the header or body being read begins
    body,       \* size of the body being read, or NoBody: a header is
    reading,    \* "on", or how read_message came to its end
    sent,       \* history: messages in the order their senders got the lock
    received    \* what read_message returned

sending   == <<alive, writer, lock, left, stream, sent>>
receiving == <<pos, base, body, reading, received>>
vars      == <<sending, receiving>>

NoBody == -1    \* of body: a header is read

FrameSize(t) == HEADER + Size[t]

Init ==
    /\ alive = TRUE
    /\ writer = [t \in Sender |-> "idle"]
    /\ lock = None
    /\ left = [t \in Sender |-> FrameSize(t)]
    /\ stream = << >>
    /\ pos = 0
    /\ base = 0
    /\ body = NoBody
    /\ reading = "on"
    /\ sent = << >>
    /\ received = << >>

Goto(t, l) == writer' = [writer EXCEPT ![t] = l]

-----------------------------------------------------------------------------
(* NativeWriter.send.                                                      *)

(* encode_message, before the lock is asked for.                           *)
Encode(t) ==
    /\ alive
    /\ writer[t] = "idle"
    /\ Goto(t, IF Size[t] > WRITE_MAX THEN "refused" ELSE "lock")
    /\ UNCHANGED <<alive, lock, left, stream, sent, receiving>>

(* Mutant: frames are written without the lock.                            *)
LockFreeAlways == TRUE

LockFree == lock = None

Acquire(t) ==
    /\ alive
    /\ writer[t] = "lock"
    /\ LockFree
    /\ lock' = t
    /\ sent' = Append(sent, t)
    /\ Goto(t, "write")
    /\ UNCHANGED <<alive, left, stream, receiving>>

Room == Capacity - (Len(stream) - pos)

(* The next n units of the frame of t.                                     *)
Units(t, n) == [i \in 1..n |-> [of |-> t, at |-> FrameSize(t) - left[t] + i]]

(* Mutant: what write did not take is given up.                            *)
RemainingNever(t, n) == 0

Remaining(t, n) == left[t] - n

(* write takes what there is room for, and blocks when there is none.      *)
Write(t) ==
    /\ alive
    /\ writer[t] = "write"
    /\ reading = "on"
    /\ \E n \in 1..left[t] :
          /\ n <= Room
          /\ stream' = stream \o Units(t, n)
          /\ left' = [left EXCEPT ![t] = Remaining(t, n)]
    /\ UNCHANGED <<alive, writer, lock, sent, receiving>>

(* Mutant: an exception leaves the lock behind.                            *)
KeepLock(ok) == lock' = IF ok THEN None ELSE lock

Unlock(ok) == lock' = None

(* The reader is gone: write or flush raises, here and ever after.         *)
Fail(t) ==
    /\ alive
    /\ writer[t] = "write"
    /\ reading # "on"
    /\ Goto(t, "failed")
    /\ Unlock(FALSE)
    /\ UNCHANGED <<alive, left, stream, sent, receiving>>

Finish(t) ==
    /\ alive
    /\ writer[t] = "write"
    /\ left[t] = 0
    /\ Goto(t, "sent")
    /\ Unlock(TRUE)
    /\ UNCHANGED <<alive, left, stream, sent, receiving>>

(* The process ends, by itself or killed, with whatever its threads were   *)
(* doing.                                                                  *)
Exit ==
    /\ alive
    /\ alive' = FALSE
    /\ UNCHANGED <<writer, lock, left, stream, sent, receiving>>

-----------------------------------------------------------------------------
(* read_message.                                                           *)

Wanted == IF body = NoBody THEN HEADER ELSE body

(* Units read_exact has still to get.                                      *)
Need == base + Wanted - pos

(* A chunk of what read_exact needs.                                       *)
ReadChunk ==
    /\ reading = "on"
    /\ \E n \in 1..Need : /\ pos + n <= Len(stream)
                          /\ pos' = pos + n
    /\ UNCHANGED <<sending, base, body, reading, received>>

(* Mutant: one read is taken for the whole.                                *)
GotOnce == pos > base \/ Wanted = 0

Got == Need = 0

(* The units from base on are the first n, from unit "from" on, of one     *)
(* message's frame.                                                        *)
Whole(t, from, n) ==
    /\ base + n <= Len(stream)
    /\ \A i \in 1..n : stream[base + i] = [of |-> t, at |-> from + i]

TooLarge(size) == size > READ_MAX

(* The four bytes of a header declare the size of the body; four bytes of  *)
(* anything else declare any size, READ_MAX + 1 standing for all that are  *)
(* too large.                                                              *)
Declared ==
    LET whole == {t \in Sender : Whole(t, 0, HEADER)}
    IN  IF whole = {} THEN 0..READ_MAX + 1 ELSE {Size[t] : t \in whole}

Unpack ==
    /\ reading = "on" /\ body = NoBody /\ Got
    /\ \E size \in Declared :
          \/ TooLarge(size) /\ reading' = "error" /\ UNCHANGED <<body, base>>
          \/ ~TooLarge(size) /\ body' = size /\ base' = pos /\ UNCHANGED reading
    /\ UNCHANGED <<sending, pos, received>>

Is(t) == body = Size[t] /\ Whole(t, HEADER, body)

(* A body that is not exactly one message is not JSON, or worse: it is     *)
(* some message nobody sent.                                               *)
Decode ==
    /\ reading = "on" /\ body # NoBody /\ Got
    /\ \/ \E t \in Sender : Is(t) /\ received' = Append(received, t) /\ UNCHANGED reading
       \/ /\ \A t \in Sender : ~Is(t)
          /\ \/ reading' = "error" /\ UNCHANGED received
             \/ received' = Append(received, None) /\ UNCHANGED reading
    /\ body' = NoBody
    /\ base' = pos
    /\ UNCHANGED <<sending, pos>>

(* Mutant: a header that is cut short is taken for the end.                *)
CleanEndShort == body = NoBody

CleanEnd == body = NoBody /\ pos = base

(* read returns nothing: the end of the stream, between two frames or not. *)
End ==
    /\ reading = "on"
    /\ ~alive /\ pos = Len(stream) /\ Need > 0
    /\ reading' = IF CleanEnd THEN "eof" ELSE "error"
    /\ UNCHANGED <<sending, pos, base, body, received>>

(* The process that reads goes away.                                       *)
Leave ==
    /\ reading = "on"
    /\ reading' = "gone"
    /\ UNCHANGED <<sending, pos, base, body, received>>

-----------------------------------------------------------------------------

Send(t) == Encode(t) \/ Acquire(t) \/ Write(t) \/ Fail(t) \/ Finish(t)

Read == ReadChunk \/ Unpack \/ Decode \/ End

Next == (\E t \in Sender : Send(t)) \/ Exit \/ Read \/ Leave

(* The threads are scheduled.  That the other end reads is a premise.      *)
Spec == Init /\ [][Next]_vars /\ \A t \in Sender : WF_vars(Send(t))

ReaderReads == WF_vars(Read)

-----------------------------------------------------------------------------

(* Types, and that the pipe never holds more than it can.                  *)
TypeOK ==
    /\ alive \in BOOLEAN
    /\ writer \in [Sender -> {"idle", "lock", "write", "sent", "failed", "refused"}]
    /\ lock \in Sender \cup {None}
    /\ left \in [Sender -> Nat]
    /\ stream \in Seq([of : Sender, at : Nat])
    /\ pos \in 0..Len(stream) /\ Len(stream) - pos <= Capacity
    /\ base \in 0..pos /\ Need >= 0
    /\ body \in Nat \cup {NoBody} /\ body <= READ_MAX
    /\ reading \in {"on", "eof", "error", "gone"}
    /\ sent \in Seq(Sender)
    /\ received \in Seq(Sender \cup {None})

(* The abstract stream: what is put in comes out, in order, until someone  *)
(* goes away.                                                              *)
Stream == INSTANCE MessageStream WITH Message <- Sender, in <- sent, out <- received

(* Whatever the threads do at the same time and in whatever pieces the     *)
(* frames travel, what read_message returns are the messages sent, whole   *)
(* and in the order of the lock (framing.py:31-55, 74-94).                 *)
ImplementsStream == Stream!Spec

(* End of file between two frames means that nothing got lost: every frame *)
(* a thread had begun to write was received (framing.py:38-40).            *)
EofMeansComplete ==
    reading = "eof" =>
        \A i \in 1..Len(sent) : left[sent[i]] < FrameSize(sent[i]) => i <= Len(received)

(* read_message raises FrameError for a reason only: a frame the end of    *)
(* the process cut short, or one that is larger than it accepts            *)
(* (framing.py:41-50).                                                     *)
Torn == ~alive /\ lock # None /\ left[lock] > 0
Oversized == \E i \in 1..Len(sent) : Size[sent[i]] > READ_MAX
ErrorMeansTorn == reading = "error" => Torn \/ Oversized

(* A thread that wants to send is not kept for good, neither by a full     *)
(* pipe nor by a thread whose write failed, if the other end reads or goes *)
(* away (framing.py:81-94).                                                *)
SendReturns ==
    ReaderReads => \A t \in Sender :
        (writer[t] = "lock") ~> (writer[t] \in {"sent", "failed"} \/ ~alive)

(* What a send that returned has sent arrives, even if the process ends    *)
(* right after, as long as the other end reads and does not meet a frame   *)
(* it refuses.                                                             *)
Delivered ==
    ReaderReads => \A t \in Sender :
        (writer[t] = "sent") ~>
            ((\E i \in 1..Len(received) : received[i] = t) \/ reading = "gone" \/ Oversized)
=============================================================================
