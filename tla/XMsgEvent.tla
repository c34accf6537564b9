------------------------------ MODULE XMsgEvent ------------------------------
(***************************************************************************)
(* The message framing of XMsgEvent (src/xplatform/xmsg_event.cpp, xmsg.h) *)
(* over one direction of one connection.  SendMsg writes a frame in three  *)
(* Writes: the size of the header, the header, and the body unless it is   *)
(* empty.  The bytes travel in order and arrive in chunks that need not    *)
(* end where a Write ended.  Every arrival calls ReadCB, which loops over  *)
(* RecvMsg (the three stages below), GetMsg and the callback until the     *)
(* input buffer has nothing more to give.                                  *)
(*                                                                         *)
(* The bytes of a part of a frame are records that say which byte of which *)
(* frame they are; what the reader would make of bytes taken for something *)
(* they are not is not modelled: it is then "lost" until the connection    *)
(* breaks.                                                                 *)
(*                                                                         *)
(* Either end may be the one that connects again with the same object, so  *)
(* here both the sender and the reader outlive a connection.  Framing has  *)
(* no defence against three things, each of which can happen: a chunk that *)
(* ends in a header, two threads that send on one task, and a SendMsg that *)
(* goes on on the next connection.  "torn" notes that one of them happened *)
(* on this connection; what the module promises it promises until then.    *)
(***************************************************************************)
EXTENDS Naturals, Sequences, FiniteSets

CONSTANTS
  Msgs,         \* the messages given to SendMsg, each of them once
  NoMsg,        \* the null XMsgHead pointer
  Registered,   \* the messages whose type has a callback in msg_callback
  Senders,      \* the threads that call SendMsg on this task
  SenderOf,     \* SenderOf[m]: the thread that sends m
  SizeLen,      \* the bytes of the size that starts a frame: 4 in the code
  HeadLen,      \* the bytes of a serialised XMsgHead
  BodyLen,      \* BodyLen[m]: the bytes of the body of m, 0 for an empty one
  NoSender,     \* no frame is under way
  MaxBreaks     \* bound: how often the connection breaks

ASSUME ConstantsAssumption ==
  /\ NoMsg \notin Msgs /\ NoSender \notin Senders
  /\ Registered \subseteq Msgs /\ SenderOf \in [Msgs -> Senders]
  /\ SizeLen \in Nat \ {0} /\ HeadLen \in Nat \ {0}
  /\ BodyLen \in [Msgs -> Nat]
  /\ MaxBreaks \in Nat

VARIABLES
  conn,      \* is the connection up?
  breaks,    \* how often it broke
  sender,    \* sender[s]: the message s is sending and its next Write
  wire,      \* the bytes written and not yet arrived
  inbuf,     \* the input buffer of the reader's bufferevent
  reader,    \* where ReadCB is
  head_,     \* the XMsg head_: its size and the bytes received, recv_size many
  msg_,      \* the XMsg msg_, likewise
  pb_head_,  \* the message whose header was parsed last
  sent,      \* history: the messages begun on this connection
  done,      \* history: how many of the frames of this connection were consumed
  handled,   \* history: the calls of callbacks, over all connections
  owner,     \* history: the sender of the frame under way on this connection
  torn       \* history: has something cut or crossed a frame on it?

vars == <<conn, breaks, sender, wire, inbuf, reader, head_, msg_, pb_head_,
          sent, done, handled, owner, torn>>
linkVars == <<conn, breaks>>
sendVars == <<sender, sent, owner>>
recvVars == <<inbuf, reader, head_, msg_, pb_head_, done, handled>>

Length(m, part) == CASE part = "size" -> SizeLen
                     [] part = "head" -> HeadLen
                     [] part = "body" -> BodyLen[m]
Bytes(m, part) ==
  [i \in 1 .. Length(m, part) |-> [msg |-> m, part |-> part, pos |-> i]]

Smaller(a, b) == IF a < b THEN a ELSE b
Drop(s, n) == SubSeq(s, n + 1, Len(s))

Empty == [size |-> 0, data |-> <<>>]
Recved(x) == Len(x.data) = x.size

NotSending == [msg |-> NoMsg, part |-> "none"]

Init ==
  /\ conn = TRUE
  /\ breaks = 0
  /\ sender = [s \in Senders |-> NotSending]
  /\ wire = <<>> /\ inbuf = <<>>
  /\ reader = "idle"
  /\ head_ = Empty /\ msg_ = Empty
  /\ pb_head_ = NoMsg
  /\ sent = <<>> /\ done = 0 /\ handled = <<>>
  /\ owner = NoSender /\ torn = FALSE
-----------------------------------------------------------------------------
(* SendMsg, one Write at a time: the mutex of the task covers one Write.    *)

NeverSent(m) ==
  /\ \A i \in 1 .. Len(sent) : sent[i] # m
  /\ \A i \in 1 .. Len(handled) : handled[i].head # m

\* A Write of s goes out where the frame of o is to begin or to go on; who is
\* to write next is "next".
Writes(s, o, next) ==
  /\ owner' = next
  /\ torn' = (torn \/ owner # o)

WriteSize(s, m) ==
  /\ sender[s] = NotSending
  /\ conn
  /\ SenderOf[m] = s /\ NeverSent(m)
  /\ wire' = wire \o Bytes(m, "size")
  /\ sent' = Append(sent, m)
  /\ sender' = [sender EXCEPT ![s] = [msg |-> m, part |-> "head"]]
  /\ Writes(s, NoSender, s)
  /\ UNCHANGED <<linkVars, recvVars>>

\* Mutant: the body is never written.
WriteHeadNoBody(s) ==
  /\ sender[s].part = "head"
  /\ conn
  /\ wire' = wire \o Bytes(sender[s].msg, "head")
  /\ sender' = [sender EXCEPT ![s] = NotSending]
  /\ Writes(s, s, NoSender)
  /\ UNCHANGED <<linkVars, sent, recvVars>>

WriteHead(s) ==
  LET m == sender[s].msg IN
  /\ sender[s].part = "head"
  /\ conn
  /\ wire' = wire \o Bytes(m, "head")
  /\ sender' = [sender EXCEPT ![s] = IF BodyLen[m] > 0 THEN [@ EXCEPT !.part = "body"]
                                                       ELSE NotSending]
  /\ Writes(s, s, IF BodyLen[m] > 0 THEN s ELSE NoSender)
  /\ UNCHANGED <<linkVars, sent, recvVars>>

WriteBody(s) ==
  /\ sender[s].part = "body"
  /\ conn
  /\ wire' = wire \o Bytes(sender[s].msg, "body")
  /\ sender' = [sender EXCEPT ![s] = NotSending]
  /\ Writes(s, s, NoSender)
  /\ UNCHANGED <<linkVars, sent, recvVars>>

\* Write finds no bufferevent and SendMsg returns false in mid-frame.
WriteFails(s) ==
  /\ sender[s] # NotSending
  /\ ~conn
  /\ sender' = [sender EXCEPT ![s] = NotSending]
  /\ UNCHANGED <<linkVars, sent, owner, wire, recvVars, torn>>
-----------------------------------------------------------------------------
(* ReadCB.  It runs on the thread of the event loop, so neither an arrival  *)
(* nor a Close of the task comes between its steps.                         *)

\* Does a chunk of the first n bytes of the wire end with a whole header, or
\* at least between the size and the end of the header of the first message
\* that this task ever receives?
FirstFrame(m) == pb_head_ = NoMsg /\ sent # <<>> /\ m = Head(sent)
WholeHeader(n) ==
  IF n < Len(wire)
  THEN LET b == wire[n + 1] IN
       \/ b.part = "body"
       \/ b.part = "size" /\ b.pos = 1
       \/ b.part = "head" /\ FirstFrame(b.msg)
  ELSE owner # NoSender /\ sender[owner].part = "head" => FirstFrame(sender[owner].msg)

Arrive(n) ==
  /\ reader = "idle"
  /\ n <= Len(wire)
  /\ inbuf' = inbuf \o SubSeq(wire, 1, n)
  /\ wire' = Drop(wire, n)
  /\ reader' = "size"
  /\ torn' = (torn \/ ~WholeHeader(n))
  /\ UNCHANGED <<linkVars, sendVars, head_, msg_, pb_head_, done, handled>>

\* XMsgEvent::Clear
Clear == head_' = Empty /\ msg_' = Empty

\* Mutant: one byte more than the size is taken.
RecvSizeOneMore ==
  /\ reader = "size"
  /\ \/ /\ head_.size > 0
        /\ reader' = "head"
        /\ UNCHANGED <<inbuf, head_, msg_>>
     \/ /\ head_.size = 0 /\ inbuf = <<>>
        /\ Clear
        /\ reader' = "idle"
        /\ UNCHANGED inbuf
     \/ /\ head_.size = 0 /\ inbuf # <<>>
        /\ head_' = [size |-> HeadLen, data |-> <<>>]
        /\ inbuf' = Drop(inbuf, Smaller(SizeLen + 1, Len(inbuf)))
        /\ reader' = "head"
        /\ UNCHANGED msg_
  /\ UNCHANGED <<linkVars, sendVars, torn, wire, pb_head_, done, handled>>

\* RecvMsg, lines 100 to 117: the size of the header.  A short Read is not
\* noticed; its low byte comes first and already holds the size.
RecvSize ==
  LET n == Smaller(SizeLen, Len(inbuf))
      got == SubSeq(inbuf, 1, n)
  IN
  /\ reader = "size"
  /\ \/ /\ head_.size > 0                      \* resumed: the size is known
        /\ reader' = "head"
        /\ UNCHANGED <<inbuf, head_, msg_>>
     \/ /\ head_.size = 0 /\ inbuf = <<>>      \* RecvMsg returns false
        /\ Clear
        /\ reader' = "idle"
        /\ UNCHANGED inbuf
     \/ /\ head_.size = 0 /\ inbuf # <<>>
        /\ inbuf' = Drop(inbuf, n)
        /\ head_' = [size |-> HeadLen, data |-> <<>>]
        /\ reader' = IF got = SubSeq(Bytes(got[1].msg, "size"), 1, n)
                     THEN "head" ELSE "lost"
        /\ UNCHANGED msg_
  /\ UNCHANGED <<linkVars, sendVars, torn, wire, pb_head_, done, handled>>

\* Mutant: pb_head_ is only parsed when it is null.
RecvHeadOnce ==
  LET n == Smaller(head_.size - Len(head_.data), Len(inbuf))
      got == head_.data \o SubSeq(inbuf, 1, n)
  IN
  /\ reader = "head"
  /\ inbuf' = Drop(inbuf, n)
  /\ head_' = [head_ EXCEPT !.data = got]
  /\ \/ /\ Recved(head_)
        /\ reader' = "body"
        /\ UNCHANGED <<msg_, pb_head_>>
     \/ /\ ~Recved(head_) /\ Len(got) < head_.size
        /\ reader' = "get"
        /\ UNCHANGED <<msg_, pb_head_>>
     \/ /\ ~Recved(head_) /\ Len(got) = head_.size
        /\ LET m == got[1].msg IN
             /\ pb_head_' = IF pb_head_ = NoMsg THEN m ELSE pb_head_
             /\ msg_' = [size |-> BodyLen[m], data |-> <<>>]
             /\ reader' = IF BodyLen[m] = 0 THEN "get" ELSE "body"
  /\ UNCHANGED <<linkVars, sendVars, torn, wire, done, handled>>

\* Lines 119 to 175: the header, and the size of the body from it.
RecvHead ==
  LET n == Smaller(head_.size - Len(head_.data), Len(inbuf))
      got == head_.data \o SubSeq(inbuf, 1, n)
  IN
  /\ reader = "head"
  /\ inbuf' = Drop(inbuf, n)
  /\ head_' = [head_ EXCEPT !.data = got]
  /\ \/ /\ Recved(head_)                       \* resumed: the header is there
        /\ reader' = "body"
        /\ UNCHANGED <<msg_, pb_head_>>
     \/ /\ Len(got) < head_.size               \* RecvMsg returns true
        /\ reader' = "get"
        /\ UNCHANGED <<msg_, pb_head_>>
     \/ /\ ~Recved(head_) /\ Len(got) = head_.size
        /\ LET m == got[1].msg IN
             /\ pb_head_' = m
             /\ msg_' = [size |-> BodyLen[m], data |-> <<>>]
             /\ reader' = IF got # Bytes(m, "head") THEN "lost"
                          ELSE IF BodyLen[m] = 0 THEN "get" ELSE "body"
  /\ UNCHANGED <<linkVars, sendVars, torn, wire, done, handled>>

\* Mutant: everything that has arrived is taken for the body.
RecvBodyAll ==
  /\ reader = "body"
  /\ inbuf' = <<>>
  /\ msg_' = [msg_ EXCEPT !.data = @ \o inbuf]
  /\ reader' = "get"
  /\ UNCHANGED <<linkVars, sendVars, torn, wire, head_, pb_head_, done, handled>>

\* Lines 178 to 189: the body, or as much of it as has arrived.
RecvBody ==
  LET n == Smaller(msg_.size - Len(msg_.data), Len(inbuf)) IN
  /\ reader = "body"
  /\ inbuf' = Drop(inbuf, n)
  /\ msg_' = [msg_ EXCEPT !.data = @ \o SubSeq(inbuf, 1, n)]
  /\ reader' = "get"
  /\ UNCHANGED <<linkVars, sendVars, torn, wire, head_, pb_head_, done, handled>>

\* What ReadCB calls the callback of the type in pb_head_ with.
Dispatched ==
  IF pb_head_ \in Registered
  THEN Append(handled, [head |-> pb_head_, body |-> msg_.data, torn |-> torn])
  ELSE handled

\* Mutants: the buffers are not cleared after the callback; the loop ends
\* after one message.
DispatchNoClear ==
  /\ reader = "get"
  /\ pb_head_ # NoMsg /\ Recved(msg_)
  /\ handled' = Dispatched
  /\ done' = done + 1
  /\ reader' = "size"
  /\ UNCHANGED <<linkVars, sendVars, torn, wire, inbuf, head_, msg_, pb_head_>>

DispatchOnce ==
  /\ reader = "get"
  /\ pb_head_ # NoMsg /\ Recved(msg_)
  /\ handled' = Dispatched
  /\ done' = done + 1
  /\ Clear
  /\ reader' = "idle"
  /\ UNCHANGED <<linkVars, sendVars, torn, wire, inbuf, pb_head_>>

\* GetMsg returns msg_: the callback is called, the buffers are cleared and
\* the loop goes round.  That pb_head_ is the header of this frame is not
\* tested: it is never reset.
Dispatch ==
  /\ reader = "get"
  /\ pb_head_ # NoMsg /\ Recved(msg_)
  /\ handled' = Dispatched
  /\ done' = done + 1
  /\ Clear
  /\ reader' = "size"
  /\ UNCHANGED <<linkVars, sendVars, torn, wire, inbuf, pb_head_>>

\* No header yet, or GetMsg returns NULL: ReadCB waits for the next arrival.
WaitForMore ==
  /\ reader = "get"
  /\ pb_head_ = NoMsg \/ ~Recved(msg_)
  /\ reader' = "idle"
  /\ UNCHANGED <<linkVars, sendVars, torn, wire, inbuf, head_, msg_, pb_head_, done,
                 handled>>
-----------------------------------------------------------------------------
\* The connection fails or ends: EventCB calls XMsgEvent::Close on the thread
\* of the event loop.  pb_head_ outlives it, and may be anything if the reader
\* was lost.  A SendMsg that is under way does not notice.
Break ==
  /\ conn /\ reader \in {"idle", "lost"}
  /\ breaks < MaxBreaks
  /\ conn' = FALSE
  /\ breaks' = breaks + 1
  /\ wire' = <<>> /\ inbuf' = <<>>
  /\ Clear
  /\ sent' = <<>> /\ done' = 0
  /\ owner' = NoSender /\ torn' = FALSE
  /\ reader' = "idle"
  /\ IF reader = "lost" THEN pb_head_' \in Msgs \cup {pb_head_} ELSE UNCHANGED pb_head_
  /\ UNCHANGED <<sender, handled>>

\* The auto-connect timer finds both flags cleared and connects again, at any
\* time: a SendMsg that was under way goes on on the new connection.
Reconnect ==
  /\ ~conn
  /\ conn' = TRUE
  /\ UNCHANGED <<breaks, sendVars, torn, wire, recvVars>>

Write(s) == WriteHead(s) \/ WriteBody(s) \/ WriteFails(s)
Read == RecvSize \/ RecvHead \/ RecvBody \/ Dispatch \/ WaitForMore

Next ==
  \/ \E s \in Senders, m \in Msgs : WriteSize(s, m)
  \/ \E s \in Senders : Write(s)
  \/ \E n \in 1 .. Len(wire) : Arrive(n)
  \/ Read
  \/ Break
  \/ Reconnect

\* A SendMsg that began runs on, what was written arrives and ReadCB runs.
Fairness ==
  /\ \A s \in Senders : WF_vars(Write(s))
  /\ WF_vars(\E n \in 1 .. Len(wire) : Arrive(n))
  /\ WF_vars(Read)

Spec == Init /\ [][Next]_vars
FairSpec == Spec /\ Fairness
-----------------------------------------------------------------------------
Byte == [msg : Msgs, part : {"size", "head", "body"}, pos : Nat \ {0}]
Buffer == [size : Nat, data : Seq(Byte)]
Call == [head : Registered, body : Seq(Byte), torn : BOOLEAN]

TypeOK ==
  /\ conn \in BOOLEAN
  /\ breaks \in 0 .. MaxBreaks
  /\ sender \in [Senders -> [msg : Msgs \cup {NoMsg},
                             part : {"none", "head", "body"}]]
  /\ \A s \in Senders : sender[s] # NotSending =>
       sender[s].msg \in Msgs /\ sender[s].part # "none"
  /\ wire \in Seq(Byte) /\ inbuf \in Seq(Byte)
  /\ reader \in {"idle", "size", "head", "body", "get", "lost"}
  /\ head_ \in Buffer /\ Len(head_.data) <= head_.size
  /\ msg_ \in Buffer /\ Len(msg_.data) <= msg_.size
  /\ pb_head_ \in Msgs \cup {NoMsg}
  /\ sent \in Seq(Msgs)
  /\ done \in Nat
  /\ handled \in Seq(Call)
  /\ owner \in Senders \cup {NoSender}
  /\ torn \in BOOLEAN

\* The reader never takes bytes for a size or a header that are not one, on a
\* connection on which no header was cut and no Write crossed a frame: there is
\* no fourth way to lose alignment, whatever breaks and bodies come in pieces.
Aligned == reader = "lost" => torn

\* "GetMsg returns NULL when there is no complete packet": a callback only
\* ever gets a header together with the whole body that was sent with it, on
\* every connection up to the moment it is torn and again after it.
HandledWhole ==
  \A i \in 1 .. Len(handled) :
    ~handled[i].torn => handled[i].body = Bytes(handled[i].head, "body")

\* The same without the exception, as the comment of GetMsg has it.
CompleteOrNull ==
  \A i \in 1 .. Len(handled) : handled[i].body = Bytes(handled[i].head, "body")

\* When everything written on this connection has arrived, ReadCB has
\* returned and no frame is under way, every message was dispatched: no
\* complete frame waits in a buffer for an arrival that may never come.
QuietMeansHandled ==
  (~torn /\ reader = "idle" /\ wire = <<>> /\ owner = NoSender) => done = Len(sent)

\* The channel of whole messages this implements.
Channel == INSTANCE MsgChannel WITH
  pending <- Drop(sent, done),
  delivered <- [i \in 1 .. Len(handled) |-> handled[i].head]
ImplementsChannel == Channel!Spec

\* Every message begun is dispatched, unless the connection breaks or is torn.
SentIsConsumed ==
  \A k \in 1 .. Cardinality(Msgs) :
    (Len(sent) >= k) ~> (done >= k \/ sent = <<>> \/ torn)
=============================================================================
