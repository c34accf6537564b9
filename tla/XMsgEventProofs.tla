--------------------------- MODULE XMsgEventProofs ---------------------------
(***************************************************************************)
(* What the framing of XMsgEvent promises, for any messages, any number of *)
(* threads that send on the task, any lengths of the parts of a frame and  *)
(* any number of breaks: the types in any case, and whole messages in      *)
(* order on every connection that is not torn.                             *)
(***************************************************************************)
EXTENDS XMsgEvent, SequenceTheorems, TLAPS

LEMMA Lengths ==
  /\ NoMsg \notin Msgs /\ NoSender \notin Senders
  /\ Registered \subseteq Msgs /\ MaxBreaks \in Nat
  /\ SizeLen \in Nat \ {0} /\ HeadLen \in Nat \ {0}
  /\ \A m \in Msgs : BodyLen[m] \in Nat
BY ConstantsAssumption DEF ConstantsAssumption

\* Pieces of sequences.
LEMMA Dropped ==
  ASSUME NEW S, NEW s \in Seq(S), NEW n \in 0 .. Len(s)
  PROVE  /\ Drop(s, n) \in Seq(S) /\ Len(Drop(s, n)) = Len(s) - n
         /\ \A i \in 1 .. Len(s) - n : Drop(s, n)[i] = s[i + n]
BY DEF Drop

LEMMA Taken ==
  ASSUME NEW S, NEW s \in Seq(S), NEW n \in 0 .. Len(s)
  PROVE  /\ SubSeq(s, 1, n) \in Seq(S) /\ Len(SubSeq(s, 1, n)) = n
         /\ \A i \in 1 .. n : SubSeq(s, 1, n)[i] = s[i]
OBVIOUS

LEMMA TheSmaller ==
  ASSUME NEW a \in Nat, NEW b \in Nat
  PROVE  Smaller(a, b) \in 0 .. a /\ Smaller(a, b) \in 0 .. b
         /\ (Smaller(a, b) = a \/ Smaller(a, b) = b)
BY DEF Smaller

Parts == {"size", "head", "body"}

LEMMA BytesOf ==
  ASSUME NEW m \in Msgs, NEW part \in Parts
  PROVE  /\ Length(m, part) \in Nat
         /\ Bytes(m, part) \in Seq(Byte) /\ Len(Bytes(m, part)) = Length(m, part)
         /\ \A i \in 1 .. Length(m, part) :
              Bytes(m, part)[i] = [msg |-> m, part |-> part, pos |-> i]
<1>1. Length(m, part) \in Nat
  BY Lengths DEF Length, Parts
<1>2. \A i \in 1 .. Length(m, part) : [msg |-> m, part |-> part, pos |-> i] \in Byte
  BY <1>1 DEF Byte, Parts
<1> QED
  BY <1>1, <1>2 DEF Bytes

\* A part of the input buffer is taken over into head_ or msg_.
LEMMA TakenOver ==
  ASSUME TypeOK, NEW x \in Buffer, Len(x.data) <= x.size
  PROVE  LET n == Smaller(x.size - Len(x.data), Len(inbuf))
             got == x.data \o SubSeq(inbuf, 1, n)
         IN  /\ n \in 0 .. Len(inbuf) /\ Drop(inbuf, n) \in Seq(Byte)
             /\ got \in Seq(Byte) /\ Len(got) = Len(x.data) + n /\ Len(got) <= x.size
             /\ [x EXCEPT !.data = got] \in Buffer
<1> DEFINE n == Smaller(x.size - Len(x.data), Len(inbuf))
           got == x.data \o SubSeq(inbuf, 1, n)
<1>1. x.size \in Nat /\ x.data \in Seq(Byte) /\ inbuf \in Seq(Byte)
  BY DEF Buffer, TypeOK
<1>2. Len(x.data) \in Nat /\ Len(inbuf) \in Nat /\ x.size - Len(x.data) \in Nat
  BY <1>1
<1>3. n \in 0 .. Len(inbuf) /\ n <= x.size - Len(x.data)
  BY <1>2, TheSmaller
<1> HIDE DEF n
<1>4. SubSeq(inbuf, 1, n) \in Seq(Byte) /\ Len(SubSeq(inbuf, 1, n)) = n
  BY <1>1, <1>3, Taken
<1>5. got \in Seq(Byte) /\ Len(got) = Len(x.data) + n
  BY <1>1, <1>4
<1>6. Drop(inbuf, n) \in Seq(Byte)
  BY <1>1, <1>3, Dropped
<1> HIDE DEF got
<1>7. Len(got) <= x.size
  BY <1>1, <1>2, <1>3, <1>5
<1>8. [x EXCEPT !.data = got] \in Buffer
  BY <1>5 DEF Buffer
<1> QED
  BY <1>3, <1>5, <1>6, <1>7, <1>8 DEF n, got

LEMMA EmptyIsBuffer == Empty \in Buffer /\ Len(Empty.data) <= Empty.size /\ Recved(Empty)
<1>1. <<>> \in Seq(Byte) /\ Len(<<>>) = 0
  OBVIOUS
<1> QED
  BY <1>1 DEF Empty, Buffer, Recved

\* Every variable keeps the type TypeOK gives it, whatever the chunks and the
\* senders do: the buffers never hold more than their size, and a callback is
\* only called for a type it is registered for.
THEOREM TypeCorrect == Spec => []TypeOK
<1>1. Init => TypeOK
  <2> SUFFICES ASSUME Init PROVE TypeOK
    OBVIOUS
  <2>1. 0 \in 0 .. MaxBreaks
    BY Lengths
  <2>2. NotSending \in [msg : Msgs \cup {NoMsg}, part : {"none", "head", "body"}]
    BY DEF NotSending
  <2>3. <<>> \in Seq(Byte) /\ <<>> \in Seq(Msgs) /\ <<>> \in Seq(Call)
    OBVIOUS
  <2> QED
    <3>1. /\ conn = TRUE /\ breaks = 0 /\ wire = <<>> /\ inbuf = <<>> /\ reader = "idle"
          /\ head_ = Empty /\ msg_ = Empty /\ pb_head_ = NoMsg
          /\ sent = <<>> /\ done = 0 /\ handled = <<>> /\ owner = NoSender /\ torn = FALSE
      BY DEF Init
    <3>2. sender = [s \in Senders |-> NotSending]
      BY DEF Init
    <3>3. sender \in [Senders -> [msg : Msgs \cup {NoMsg}, part : {"none", "head", "body"}]]
      BY <2>2, <3>2
    <3>4. \A s \in Senders : sender[s] = NotSending
      BY <3>2
    <3>5. /\ owner \in Senders \cup {NoSender} /\ torn \in BOOLEAN /\ conn \in BOOLEAN
          /\ reader \in {"idle", "size", "head", "body", "get", "lost"}
          /\ pb_head_ \in Msgs \cup {NoMsg} /\ done \in Nat
      BY <3>1
    <3>6. /\ wire \in Seq(Byte) /\ inbuf \in Seq(Byte) /\ sent \in Seq(Msgs) /\ handled \in Seq(Call)
      BY <2>3, <3>1
    <3> QED
      BY <2>1, <3>1, <3>3, <3>4, <3>5, <3>6, EmptyIsBuffer DEF TypeOK
<1>2. TypeOK /\ [Next]_vars => TypeOK'
  <2> SUFFICES ASSUME TypeOK, [Next]_vars PROVE TypeOK'
    OBVIOUS
  <2> USE DEF linkVars, sendVars, recvVars, Writes
  <2>1. /\ wire \in Seq(Byte) /\ inbuf \in Seq(Byte)
        /\ head_ \in Buffer /\ Len(head_.data) <= head_.size
        /\ msg_ \in Buffer /\ Len(msg_.data) <= msg_.size
    BY DEF TypeOK
  <2>2. ASSUME NEW s \in Senders, NEW v \in [msg : Msgs \cup {NoMsg}, part : {"none", "head", "body"}],
               v # NotSending => v.msg \in Msgs /\ v.part # "none",
               sender' = [sender EXCEPT ![s] = v]
        PROVE  /\ sender' \in [Senders -> [msg : Msgs \cup {NoMsg}, part : {"none", "head", "body"}]]
               /\ \A t \in Senders : sender'[t] # NotSending =>
                    sender'[t].msg \in Msgs /\ sender'[t].part # "none"
    BY <2>2 DEF TypeOK
  <2>3. NotSending \in [msg : Msgs \cup {NoMsg}, part : {"none", "head", "body"}]
    BY DEF NotSending
  <2>4. \A m \in Msgs, part \in Parts : wire \o Bytes(m, part) \in Seq(Byte)
    BY <2>1, BytesOf
  <2>5. ASSUME NEW s \in Senders, NEW m \in Msgs, WriteSize(s, m)
        PROVE  TypeOK'
    <3>1. [msg |-> m, part |-> "head"] \in [msg : Msgs \cup {NoMsg}, part : {"none", "head", "body"}]
      OBVIOUS
    <3>2. wire' \in Seq(Byte) /\ sent' \in Seq(Msgs)
      BY <2>4, <2>5 DEF WriteSize, TypeOK, Parts
    <3> QED
      BY <2>2, <2>5, <3>1, <3>2 DEF WriteSize, TypeOK
  <2>6. ASSUME NEW s \in Senders, sender[s].part \in {"head", "body"}
        PROVE  sender[s].msg \in Msgs /\ sender[s] # NotSending
    BY <2>6 DEF TypeOK, NotSending
  <2>7. ASSUME NEW s \in Senders, WriteHead(s)
        PROVE  TypeOK'
    <3>1. sender[s].msg \in Msgs
      BY <2>6, <2>7 DEF WriteHead
    <3>2. wire' \in Seq(Byte)
      BY <2>4, <2>7, <3>1 DEF WriteHead, Parts
    <3> DEFINE v == IF BodyLen[sender[s].msg] > 0 THEN [sender[s] EXCEPT !.part = "body"] ELSE NotSending
    <3>3. /\ v \in [msg : Msgs \cup {NoMsg}, part : {"none", "head", "body"}]
          /\ v # NotSending => v.msg \in Msgs /\ v.part # "none"
      BY <2>3, <3>1 DEF TypeOK
    <3>4. sender' = [sender EXCEPT ![s] = v]
      BY <2>7 DEF WriteHead
    <3> HIDE DEF v
    <3> QED
      BY <2>2, <2>7, <3>2, <3>3, <3>4 DEF WriteHead, TypeOK
  <2>8. ASSUME NEW s \in Senders, WriteBody(s)
        PROVE  TypeOK'
    <3>1. wire' \in Seq(Byte)
      BY <2>4, <2>6, <2>8 DEF WriteBody, Parts
    <3> QED
      BY <2>2, <2>3, <2>8, <3>1 DEF WriteBody, TypeOK
  <2>9. ASSUME NEW s \in Senders, WriteFails(s)
        PROVE  TypeOK'
    BY <2>2, <2>3, <2>9 DEF WriteFails, TypeOK
  <2>10. ASSUME NEW n \in 1 .. Len(wire), Arrive(n)
         PROVE  TypeOK'
    <3>1. n \in 0 .. Len(wire)
      BY <2>1
    <3>2. Drop(wire, n) \in Seq(Byte) /\ inbuf \o SubSeq(wire, 1, n) \in Seq(Byte)
      BY <2>1, <3>1, Dropped, Taken
    <3> QED
      BY <2>10, <3>2 DEF Arrive, TypeOK
  <2>11. CASE RecvSize
    <3>1. inbuf' \in Seq(Byte)
      <4> DEFINE n == Smaller(SizeLen, Len(inbuf))
      <4>1. Len(inbuf) \in Nat /\ SizeLen \in Nat
        BY <2>1, Lengths
      <4>2. n \in 0 .. Len(inbuf)
        BY <4>1, TheSmaller
      <4>3. inbuf' = inbuf \/ inbuf' = Drop(inbuf, n)
        BY <2>11 DEF RecvSize
      <4> HIDE DEF n
      <4> QED
        BY <2>1, <4>2, <4>3, Dropped
    <3>2. head_' \in Buffer /\ Len(head_'.data) <= head_'.size
      <4>1. [size |-> HeadLen, data |-> <<>>] \in Buffer /\ Len(<<>>) <= HeadLen
        BY Lengths DEF Buffer
      <4>2. head_' \in {head_, Empty, [size |-> HeadLen, data |-> <<>>]}
        BY <2>11 DEF RecvSize, Clear
      <4> QED
        BY <2>1, <4>1, <4>2, EmptyIsBuffer
    <3>3. msg_' \in {msg_, Empty}
      BY <2>11 DEF RecvSize, Clear
    <3>4. reader' \in {"idle", "size", "head", "body", "get", "lost"}
      BY <2>11 DEF RecvSize
    <3> QED
      BY <2>1, <2>11, <3>1, <3>2, <3>3, <3>4, EmptyIsBuffer DEF RecvSize, TypeOK
  <2>12. CASE RecvHead
    <3> DEFINE n == Smaller(head_.size - Len(head_.data), Len(inbuf))
               got == head_.data \o SubSeq(inbuf, 1, n)
    <3>1. /\ Drop(inbuf, n) \in Seq(Byte) /\ got \in Seq(Byte) /\ Len(got) <= head_.size
          /\ [head_ EXCEPT !.data = got] \in Buffer
      BY <2>1, TakenOver
    <3>2. inbuf' = Drop(inbuf, n) /\ head_' = [head_ EXCEPT !.data = got]
      BY <2>12 DEF RecvHead
    <3>3. \/ UNCHANGED <<msg_, pb_head_>>
          \/ /\ Len(head_.data) # head_.size /\ Len(got) = head_.size
             /\ pb_head_' = got[1].msg
             /\ msg_' = [size |-> BodyLen[got[1].msg], data |-> <<>>]
      BY <2>12 DEF RecvHead, Recved
    <3>4. reader' \in {"idle", "size", "head", "body", "get", "lost"}
      BY <2>12 DEF RecvHead
    <3> HIDE DEF n, got
    <3>5. /\ pb_head_' \in Msgs \cup {NoMsg}
          /\ msg_' \in Buffer /\ Len(msg_'.data) <= msg_'.size
      <4>1. CASE UNCHANGED <<msg_, pb_head_>>
        BY <4>1, <2>1 DEF TypeOK
      <4>2. CASE /\ Len(head_.data) # head_.size /\ Len(got) = head_.size
                 /\ pb_head_' = got[1].msg
                 /\ msg_' = [size |-> BodyLen[got[1].msg], data |-> <<>>]
        <5>1. Len(head_.data) \in Nat /\ head_.size \in Nat
          BY <2>1 DEF Buffer
        <5>2. head_.size > 0
          BY <2>1, <4>2, <5>1
        <5>3. got[1] \in Byte
          BY <3>1, <4>2, <5>2
        <5>4. got[1].msg \in Msgs
          BY <5>3 DEF Byte
        <5>5. BodyLen[got[1].msg] \in Nat
          BY <5>4, Lengths
        <5> QED
          BY <4>2, <5>4, <5>5 DEF Buffer
      <4> QED
        BY <3>3, <4>1, <4>2
    <3>6. head_' \in Buffer /\ Len(head_'.data) <= head_'.size
      BY <2>1, <3>1, <3>2 DEF Buffer
    <3> QED
      BY <2>12, <3>1, <3>2, <3>4, <3>5, <3>6 DEF RecvHead, TypeOK
  <2>13. CASE RecvBody
    <3> DEFINE n == Smaller(msg_.size - Len(msg_.data), Len(inbuf))
               got == msg_.data \o SubSeq(inbuf, 1, n)
    <3>1. /\ Drop(inbuf, n) \in Seq(Byte) /\ got \in Seq(Byte) /\ Len(got) <= msg_.size
          /\ [msg_ EXCEPT !.data = got] \in Buffer
      BY <2>1, TakenOver
    <3>2. inbuf' = Drop(inbuf, n) /\ msg_' = [msg_ EXCEPT !.data = got]
      BY <2>13 DEF RecvBody
    <3> HIDE DEF n, got
    <3>3. msg_' \in Buffer /\ Len(msg_'.data) <= msg_'.size
      BY <2>1, <3>1, <3>2 DEF Buffer
    <3> QED
      BY <2>13, <3>1, <3>2, <3>3 DEF RecvBody, TypeOK
  <2>14. CASE Dispatch
    <3>1. handled' \in Seq(Call)
      <4>1. CASE pb_head_ \in Registered
        <5>1. [head |-> pb_head_, body |-> msg_.data, torn |-> torn] \in Call
          BY <2>1, <4>1 DEF Buffer, Call, TypeOK
        <5>2. handled' = Append(handled, [head |-> pb_head_, body |-> msg_.data, torn |-> torn])
          BY <2>14, <4>1 DEF Dispatch, Dispatched
        <5> QED
          BY <5>1, <5>2 DEF TypeOK
      <4>2. CASE pb_head_ \notin Registered
        BY <2>14, <4>2 DEF Dispatch, Dispatched, TypeOK
      <4> QED
        BY <4>1, <4>2
    <3>2. done' \in Nat
      BY <2>14 DEF Dispatch, TypeOK
    <3> QED
      BY <2>14, <3>1, <3>2, EmptyIsBuffer DEF Dispatch, Clear, TypeOK
  <2>15. CASE WaitForMore
    BY <2>15 DEF WaitForMore, TypeOK
  <2>16. CASE Break
    <3>1. breaks' \in 0 .. MaxBreaks
      BY <2>16, Lengths DEF Break, TypeOK
    <3>2. /\ wire' = <<>> /\ inbuf' = <<>> /\ sent' = <<>> /\ done' = 0 /\ conn' = FALSE
      BY <2>16 DEF Break
    <3>4. <<>> \in Seq(Byte) /\ <<>> \in Seq(Msgs)
      OBVIOUS
    <3>3. /\ head_' = Empty /\ msg_' = Empty
          /\ pb_head_' \in Msgs \cup {NoMsg} /\ reader' = "idle"
          /\ owner' = NoSender /\ torn' = FALSE /\ UNCHANGED <<sender, handled>>
      BY <2>16 DEF Break, Clear, TypeOK
    <3> QED
      BY <3>1, <3>2, <3>3, <3>4, EmptyIsBuffer DEF TypeOK
  <2>17. CASE Reconnect
    BY <2>17 DEF Reconnect, TypeOK
  <2>18. CASE UNCHANGED vars
    BY <2>18 DEF vars, TypeOK
  <2> QED
    BY <2>5, <2>7, <2>8, <2>9, <2>10, <2>11, <2>12, <2>13, <2>14, <2>15, <2>16, <2>17, <2>18
      DEF Next, Write, Read
<1> QED
  BY <1>1, <1>2, PTL DEF Spec
-----------------------------------------------------------------------------
(* The bytes on their way.                                                  *)

\* What comes after the last byte of a part: the next part of the frame, or the
\* first byte of the next frame in S, or nothing yet.
End == [msg |-> NoMsg, part |-> "none", pos |-> 0]
First(S, k) == IF k \in 1 .. Len(S) THEN [msg |-> S[k], part |-> "size", pos |-> 1] ELSE End
Leads(S, b, c) ==
  IF b.part = "size" THEN c = [msg |-> b.msg, part |-> "head", pos |-> 1]
  ELSE IF b.part = "head" /\ BodyLen[b.msg] > 0
       THEN c = [msg |-> b.msg, part |-> "body", pos |-> 1]
       ELSE \E k \in 1 .. Len(S) : S[k] = b.msg /\ c = First(S, k + 1)

\* Byte x is read next, and byte w is the first that is written next: between
\* them the bytes q lead from x to w, and are the frames of the messages S.
\* A part that begins in q ends in q, since a part is written at once; and no
\* byte is there twice.
Runs(q) ==
  \A i \in 1 .. Len(q) : \A p \in q[i].pos .. Length(q[i].msg, q[i].part) :
    /\ i + (p - q[i].pos) <= Len(q)
    /\ q[i + (p - q[i].pos)] = [msg |-> q[i].msg, part |-> q[i].part, pos |-> p]
Last(b) == b.pos = Length(b.msg, b.part)
Stream(S, q, x, w) ==
  /\ \A i \in 1 .. Len(q) : /\ q[i].pos <= Length(q[i].msg, q[i].part)
                            /\ \E k \in 1 .. Len(S) : S[k] = q[i].msg
  /\ Runs(q)
  /\ \A i, j \in 1 .. Len(q) : q[i] = q[j] => i = j
  /\ \A i \in 1 .. Len(q) - 1 : Last(q[i]) => Leads(S, q[i], q[i + 1])
  /\ q # <<>> => q[1] = x /\ Last(q[Len(q)]) /\ Leads(S, q[Len(q)], w)
  /\ q = <<>> => x = w

\* The frame that the reader is in; what it reads next, when it has dispatched d
\* of the messages S; the frame under way; and what its thread writes next.
Frame == sent[done + 1]
CursorOf(S, d, h, b) ==
  IF h.size = 0 THEN First(S, d + 1)
  ELSE IF Len(h.data) < h.size
       THEN [msg |-> S[d + 1], part |-> "head", pos |-> Len(h.data) + 1]
  ELSE IF Len(b.data) < b.size
       THEN [msg |-> S[d + 1], part |-> "body", pos |-> Len(b.data) + 1]
  ELSE First(S, d + 2)
Cursor == CursorOf(sent, done, head_, msg_)
Under == IF owner = NoSender THEN NotSending ELSE sender[owner]
WriterOf(u) ==
  IF u = NotSending THEN End ELSE [msg |-> u.msg, part |-> u.part, pos |-> 1]
Writer == WriterOf(Under)
OnWay == inbuf \o wire

\* head_ and msg_ hold the first bytes of the header and the body of the frame.
HeaderFull == Len(head_.data) = head_.size
ReaderInv ==
  /\ reader # "lost" /\ done <= Len(sent)
  /\ pb_head_ = NoMsg => done = 0
  /\ head_.size = 0 => head_ = Empty /\ msg_ = Empty /\ reader \in {"idle", "size"}
  /\ head_.size > 0 =>
       /\ head_.size = HeadLen /\ done < Len(sent)
       /\ head_.data = SubSeq(Bytes(Frame, "head"), 1, Len(head_.data))
       /\ ~HeaderFull => /\ msg_ = Empty /\ reader # "body"
                         /\ reader # "head" => pb_head_ = NoMsg
       /\ HeaderFull => /\ pb_head_ = Frame /\ msg_.size = BodyLen[Frame]
                        /\ msg_.data = SubSeq(Bytes(Frame, "body"), 1, Len(msg_.data))
                        /\ Recved(msg_) => reader = "get"
  /\ reader = "get" /\ (~HeaderFull \/ ~Recved(msg_)) => inbuf = <<>>
  /\ reader = "idle" => inbuf = <<>>

\* A message is begun once, and of the frame under way the parts that are still
\* to be written are not on their way.
SendInv ==
  /\ \A i, j \in 1 .. Len(sent) : sent[i] = sent[j] => i = j
  /\ owner # NoSender => Under # NotSending
  /\ Under # NotSending =>
       /\ sent # <<>> /\ Under.msg = sent[Len(sent)]
       /\ Under.part = "body" => BodyLen[Under.msg] > 0
       /\ \A i \in 1 .. Len(OnWay) : OnWay[i].msg = Under.msg =>
            /\ OnWay[i].part # "body"
            /\ Under.part = "head" => OnWay[i].part # "head"
  /\ ~conn => /\ wire = <<>> /\ inbuf = <<>> /\ sent = <<>> /\ done = 0
              /\ head_ = Empty /\ msg_ = Empty /\ reader = "idle" /\ owner = NoSender

\* What the reader has got does not end in a size or a header, except in the
\* header of the first message it ever gets.
CutInv ==
  /\ wire # <<>> => /\ wire[1].part = "size" => wire[1].pos = 1
                    /\ wire[1].part = "head" => FirstFrame(wire[1].msg)
  /\ wire = <<>> /\ Under.part = "head" => FirstFrame(Under.msg)

FrameInv == conn => Stream(sent, OnWay, Cursor, Writer)

Distinct(S) == \A i, j \in 1 .. Len(S) : S[i] = S[j] => i = j

LEMMA ByteFields ==
  ASSUME NEW q \in Seq(Byte), NEW i \in 1 .. Len(q)
  PROVE  /\ q[i] \in Byte /\ q[i].msg \in Msgs /\ q[i].part \in Parts
         /\ q[i].pos \in Nat /\ q[i].pos > 0
         /\ Length(q[i].msg, q[i].part) \in Nat
         /\ q[i] = [msg |-> q[i].msg, part |-> q[i].part, pos |-> q[i].pos]
<1>1. q[i] \in Byte
  OBVIOUS
<1>2. /\ q[i].msg \in Msgs /\ q[i].part \in Parts /\ q[i].pos \in Nat /\ q[i].pos > 0
      /\ q[i] = [msg |-> q[i].msg, part |-> q[i].part, pos |-> q[i].pos]
  BY <1>1 DEF Byte, Parts
<1> QED
  BY <1>1, <1>2, BytesOf

\* There is one thing that comes next.
LEMMA LeadsToOne ==
  ASSUME NEW S \in Seq(Msgs), Distinct(S), NEW b, NEW y, NEW z, Leads(S, b, y), Leads(S, b, z)
  PROVE  y = z
BY DEF Leads, Distinct

\* The reader takes bytes of one part.
LEMMA Advance ==
  ASSUME NEW S \in Seq(Msgs), Distinct(S), NEW q \in Seq(Byte), NEW x, NEW w,
         Stream(S, q, x, w), NEW n \in 1 .. Len(q), x.pos + n - 1 <= Length(x.msg, x.part)
  PROVE  /\ \A i \in 1 .. n : q[i] = [msg |-> x.msg, part |-> x.part, pos |-> x.pos + i - 1]
         /\ \A y : (IF x.pos + n - 1 < Length(x.msg, x.part)
                    THEN y = [msg |-> x.msg, part |-> x.part, pos |-> x.pos + n]
                    ELSE Leads(S, [msg |-> x.msg, part |-> x.part, pos |-> x.pos + n - 1], y))
                   => Stream(S, Drop(q, n), y, w)
<1> DEFINE len == Length(x.msg, x.part)
           r == Drop(q, n)
<1>1. /\ Len(q) \in Nat /\ n \in Nat /\ n >= 1 /\ n <= Len(q) /\ 1 \in 1 .. Len(q) /\ q # <<>>
      /\ n \in 1 .. Len(q) /\ Len(q) \in 1 .. Len(q)
  OBVIOUS
<1>2. /\ q[1] = x /\ Last(q[Len(q)]) /\ Leads(S, q[Len(q)], w)
      /\ x.pos \in Nat /\ x.pos > 0 /\ len \in Nat
  BY <1>1, ByteFields DEF Stream
<1>3. /\ r \in Seq(Byte) /\ Len(r) = Len(q) - n
      /\ \A i \in 1 .. Len(q) - n : r[i] = q[i + n] /\ i + n \in 1 .. Len(q)
  <2>1. n \in 0 .. Len(q)
    BY <1>1
  <2>2. \A i \in 1 .. Len(q) - n : i + n \in 1 .. Len(q)
    BY <1>1
  <2> QED
    BY <2>1, <2>2, Dropped
<1> HIDE DEF r
<1>4. \A k \in 0 .. len - x.pos :
        1 + k <= Len(q) /\ q[1 + k] = [msg |-> x.msg, part |-> x.part, pos |-> x.pos + k]
  <2> TAKE k \in 0 .. len - x.pos
  <2>1. x.pos + k \in x.pos .. len /\ (x.pos + k) - x.pos = k
    BY <1>2
  <2>2. \A p \in x.pos .. len :
          /\ 1 + (p - x.pos) <= Len(q)
          /\ q[1 + (p - x.pos)] = [msg |-> x.msg, part |-> x.part, pos |-> p]
    BY <1>1, <1>2 DEF Stream, Runs
  <2> HIDE DEF len
  <2> QED
    BY <2>1, <2>2
<1> HIDE DEF len
<1>5. \A i \in 1 .. n : q[i] = [msg |-> x.msg, part |-> x.part, pos |-> x.pos + i - 1]
  <2> TAKE i \in 1 .. n
  <2>1. i - 1 \in 0 .. len - x.pos /\ 1 + (i - 1) = i /\ x.pos + (i - 1) = x.pos + i - 1
    BY <1>1, <1>2 DEF len
  <2> QED
    BY <1>4, <2>1
<1>6. ASSUME NEW y, IF x.pos + n - 1 < len
                    THEN y = [msg |-> x.msg, part |-> x.part, pos |-> x.pos + n]
                    ELSE Leads(S, [msg |-> x.msg, part |-> x.part, pos |-> x.pos + n - 1], y)
      PROVE  Stream(S, r, y, w)
  <2>1. \A i \in 1 .. Len(r) : /\ r[i].pos <= Length(r[i].msg, r[i].part)
                               /\ \E k \in 1 .. Len(S) : S[k] = r[i].msg
    <3>1. \A i \in 1 .. Len(q) : /\ q[i].pos <= Length(q[i].msg, q[i].part)
                                 /\ \E k \in 1 .. Len(S) : S[k] = q[i].msg
      BY DEF Stream
    <3> TAKE i \in 1 .. Len(r)
    <3>2. i \in 1 .. Len(q) - n
      BY <1>3
    <3>3. i + n \in 1 .. Len(q) /\ r[i] = q[i + n]
      BY <1>3, <3>2
    <3> QED
      BY <3>1, <3>3
  <2>2. Runs(r)
    <3> SUFFICES ASSUME NEW i \in 1 .. Len(r), NEW p \in r[i].pos .. Length(r[i].msg, r[i].part)
                 PROVE  /\ i + (p - r[i].pos) <= Len(r)
                        /\ r[i + (p - r[i].pos)] = [msg |-> r[i].msg, part |-> r[i].part, pos |-> p]
      BY DEF Runs
    <3>1. /\ i \in 1 .. Len(q) - n /\ i + n \in 1 .. Len(q) /\ r[i] = q[i + n]
          /\ r[i].pos \in Nat /\ Length(r[i].msg, r[i].part) \in Nat
      BY <1>3, ByteFields
    <3> DEFINE d == p - r[i].pos
    <3>2. d \in Nat
      BY <3>1
    <3>3. (i + n) + d <= Len(q) /\ q[(i + n) + d] = [msg |-> r[i].msg, part |-> r[i].part, pos |-> p]
      <4>1. \A j \in 1 .. Len(q) : \A t \in q[j].pos .. Length(q[j].msg, q[j].part) :
              /\ j + (t - q[j].pos) <= Len(q)
              /\ q[j + (t - q[j].pos)] = [msg |-> q[j].msg, part |-> q[j].part, pos |-> t]
        BY DEF Stream, Runs
      <4>2. p \in q[i + n].pos .. Length(q[i + n].msg, q[i + n].part)
        BY <3>1
      <4>3. /\ (i + n) + (p - q[i + n].pos) <= Len(q)
            /\ q[(i + n) + (p - q[i + n].pos)]
                 = [msg |-> q[i + n].msg, part |-> q[i + n].part, pos |-> p]
        BY <3>1, <4>1, <4>2
      <4> QED
        BY <3>1, <4>3
    <3> HIDE DEF d
    <3>4. i + d \in 1 .. Len(q) - n /\ (i + d) + n = (i + n) + d
      <4>1. i \in Nat /\ i >= 1 /\ d \in Nat /\ Len(q) \in Nat /\ n \in Nat
        BY <1>1, <3>1, <3>2
      <4>2. (i + n) + d <= Len(q)
        BY <3>3
      <4> QED
        BY <4>1, <4>2
    <3>5. i + d <= Len(r) /\ r[i + d] = q[(i + n) + d]
      <4>1. i + d <= Len(q) - n
        BY <3>4
      <4>2. r[i + d] = q[(i + d) + n]
        BY <1>3, <3>4
      <4> QED
        BY <1>3, <3>4, <4>1, <4>2
    <3> QED
      BY <3>3, <3>5 DEF d
  <2>3. \A i, j \in 1 .. Len(r) : r[i] = r[j] => i = j
    <3>1. \A i, j \in 1 .. Len(q) : q[i] = q[j] => i = j
      BY DEF Stream
    <3> TAKE i, j \in 1 .. Len(r)
    <3>2. /\ i + n \in 1 .. Len(q) /\ j + n \in 1 .. Len(q) /\ (i + n = j + n => i = j)
          /\ i \in 1 .. Len(q) - n /\ j \in 1 .. Len(q) - n
      BY <1>1, <1>3
    <3>3. r[i] = q[i + n] /\ r[j] = q[j + n]
      BY <1>3, <3>2
    <3> QED
      BY <3>1, <3>2, <3>3
  <2>4. \A i \in 1 .. Len(r) - 1 : Last(r[i]) => Leads(S, r[i], r[i + 1])
    <3> TAKE i \in 1 .. Len(r) - 1
    <3>1. /\ i \in 1 .. Len(q) - n /\ i + 1 \in 1 .. Len(q) - n
          /\ i + n \in 1 .. Len(q) - 1 /\ (i + n) + 1 = (i + 1) + n
      BY <1>1, <1>3
    <3>2. r[i] = q[i + n] /\ r[i + 1] = q[(i + n) + 1]
      BY <1>3, <3>1
    <3>3. \A k \in 1 .. Len(q) - 1 : Last(q[k]) => Leads(S, q[k], q[k + 1])
      BY DEF Stream
    <3> QED
      BY <3>1, <3>2, <3>3
  <2>5. n \in 1 .. n /\ q[n] = [msg |-> x.msg, part |-> x.part, pos |-> x.pos + n - 1]
    BY <1>1, <1>5
  <2>6. CASE x.pos + n - 1 < len
    <3>1. n \in 0 .. len - x.pos
      BY <1>1, <1>2, <2>6
    <3>2. n + 1 <= Len(q) /\ q[n + 1] = y
      BY <1>1, <1>4, <1>6, <2>6, <3>1
    <3>3. 1 \in 1 .. Len(q) - n /\ Len(q) - n \in 1 .. Len(q) - n /\ (Len(q) - n) + n = Len(q)
      BY <1>1, <3>2
    <3>4. r[1] = y /\ r[Len(r)] = q[Len(q)] /\ r # <<>>
      <4>1. r[1] = q[1 + n] /\ r[Len(q) - n] = q[(Len(q) - n) + n] /\ Len(r) = Len(q) - n
        BY <1>3, <3>3
      <4>2. 1 + n = n + 1 /\ Len(r) > 0
        BY <1>1, <3>3, <4>1
      <4> QED
        BY <3>2, <3>3, <4>1, <4>2
    <3> QED
      BY <1>2, <2>1, <2>2, <2>3, <2>4, <3>4 DEF Stream
  <2>7. CASE ~(x.pos + n - 1 < len)
    <3>1. x.pos + n - 1 = len
      BY <1>1, <1>2, <2>7 DEF len
    <3>2. Last(q[n]) /\ Leads(S, q[n], y)
      BY <1>6, <2>5, <2>7, <3>1 DEF Last, len
    <3>3. CASE n = Len(q)
      <4>1. r = <<>>
        BY <1>1, <1>3, <3>3
      <4>2. y = w
        BY <1>2, <3>2, <3>3, LeadsToOne
      <4> QED
        BY <2>1, <2>2, <2>3, <2>4, <4>1, <4>2 DEF Stream
    <3>4. CASE n # Len(q)
      <4>1. n \in 1 .. Len(q) - 1
        BY <1>1, <3>4
      <4>2. Leads(S, q[n], q[n + 1])
        BY <3>2, <4>1 DEF Stream
      <4>3. q[n + 1] = y
        BY <3>2, <4>2, LeadsToOne
      <4>4. 1 \in 1 .. Len(q) - n /\ Len(q) - n \in 1 .. Len(q) - n /\ (Len(q) - n) + n = Len(q)
        BY <1>1, <4>1
      <4>5. r[1] = y /\ r[Len(r)] = q[Len(q)] /\ r # <<>>
        <5>1. r[1] = q[1 + n] /\ r[Len(q) - n] = q[(Len(q) - n) + n] /\ Len(r) = Len(q) - n
          BY <1>3, <4>4
        <5>2. 1 + n = n + 1 /\ Len(r) > 0
          BY <1>1, <4>4, <5>1
        <5> QED
          BY <4>3, <4>4, <5>1, <5>2
      <4> QED
        BY <1>2, <2>1, <2>2, <2>3, <2>4, <4>5 DEF Stream
    <3> QED
      BY <3>3, <3>4
  <2> QED
    BY <2>6, <2>7
<1> QED
  BY <1>5, <1>6 DEF r, len

\* A part of a frame is written at once.
LEMMA Extend ==
  ASSUME NEW S \in Seq(Msgs), NEW q \in Seq(Byte), NEW x, NEW w,
         NEW m \in Msgs, NEW part \in Parts, Length(m, part) > 0,
         Stream(S, q, x, [msg |-> m, part |-> part, pos |-> 1]),
         \A i \in 1 .. Len(q) : q[i].msg = m => q[i].part # part,
         \E k \in 1 .. Len(S) : S[k] = m,
         Leads(S, [msg |-> m, part |-> part, pos |-> Length(m, part)], w)
  PROVE  Stream(S, q \o Bytes(m, part), x, w)
<1> DEFINE len == Length(m, part)
           b == Bytes(m, part)
           byte(i) == [msg |-> m, part |-> part, pos |-> i]
           c == q \o b
<1>1. /\ len \in Nat /\ len > 0 /\ b \in Seq(Byte) /\ Len(b) = len
      /\ \A i \in 1 .. len : b[i] = byte(i)
  BY BytesOf
<1> HIDE DEF b, len
<1>2. c \in Seq(Byte) /\ Len(q) \in Nat /\ Len(c) = Len(q) + len
  <2>1. b \in Seq(Byte) /\ Len(b) = len /\ len \in Nat
    BY <1>1
  <2>2. c \in Seq(Byte) /\ Len(c) = Len(q) + Len(b)
    BY <2>1, ConcatProperties
  <2> QED
    BY <2>1, <2>2
<1>3. \A i \in 1 .. Len(q) : i \in 1 .. Len(c) /\ c[i] = q[i]
  BY <1>1
<1>4. \A j \in 1 .. len : Len(q) + j \in 1 .. Len(c) /\ c[Len(q) + j] = byte(j)
  <2> TAKE j \in 1 .. len
  <2>1. Len(q) + j \in 1 .. Len(c) /\ (Len(q) + j) - Len(q) = j /\ ~(Len(q) + j <= Len(q))
    BY <1>1, <1>2
  <2>2. c[Len(q) + j] = b[j]
    BY <1>1, <2>1
  <2> QED
    BY <1>1, <2>1, <2>2
<1> HIDE DEF c
<1>5. \A i \in 1 .. Len(c) :
        \/ i \in 1 .. Len(q)
        \/ \E j \in 1 .. len : i = Len(q) + j
  <2> TAKE i \in 1 .. Len(c)
  <2>1. i \in 1 .. Len(q) \/ (i - Len(q) \in 1 .. len /\ i = Len(q) + (i - Len(q)))
    BY <1>1, <1>2
  <2> QED
    BY <2>1
<1>6. \A j \in 1 .. len : /\ byte(j).msg = m /\ byte(j).part = part /\ byte(j).pos = j
                          /\ Length(byte(j).msg, byte(j).part) = len
  BY DEF len
<1>7. \A i \in 1 .. Len(c) : /\ c[i].pos <= Length(c[i].msg, c[i].part)
                             /\ \E k \in 1 .. Len(S) : S[k] = c[i].msg
  <2> TAKE i \in 1 .. Len(c)
  <2>1. CASE i \in 1 .. Len(q)
    BY <1>3, <2>1 DEF Stream
  <2>2. CASE \E j \in 1 .. len : i = Len(q) + j
    <3> PICK j \in 1 .. len : i = Len(q) + j
      BY <2>2
    <3>1. c[i] = byte(j) /\ j <= len
      BY <1>1, <1>4
    <3>2. c[i].pos = j /\ c[i].msg = m /\ Length(c[i].msg, c[i].part) = len
      BY <1>6, <3>1
    <3> QED
      BY <3>1, <3>2
  <2> QED
    BY <1>5, <2>1, <2>2
<1>8. Runs(c)
  <2> SUFFICES ASSUME NEW i \in 1 .. Len(c), NEW p \in c[i].pos .. Length(c[i].msg, c[i].part)
               PROVE  /\ i + (p - c[i].pos) <= Len(c)
                      /\ c[i + (p - c[i].pos)] = [msg |-> c[i].msg, part |-> c[i].part, pos |-> p]
    BY DEF Runs
  <2>1. CASE i \in 1 .. Len(q)
    <3>1. \A j \in 1 .. Len(q) : \A t \in q[j].pos .. Length(q[j].msg, q[j].part) :
              /\ j + (t - q[j].pos) <= Len(q)
              /\ q[j + (t - q[j].pos)] = [msg |-> q[j].msg, part |-> q[j].part, pos |-> t]
      BY DEF Stream, Runs
    <3>2. c[i] = q[i] /\ q[i].pos \in Nat /\ Length(q[i].msg, q[i].part) \in Nat
      BY <1>3, <2>1, ByteFields
    <3>3. p \in q[i].pos .. Length(q[i].msg, q[i].part)
      BY <3>2
    <3>4. /\ i + (p - q[i].pos) <= Len(q)
          /\ q[i + (p - q[i].pos)] = [msg |-> q[i].msg, part |-> q[i].part, pos |-> p]
      BY <2>1, <3>1, <3>3
    <3>5. i + (p - q[i].pos) \in 1 .. Len(q)
      BY <2>1, <3>2, <3>3, <3>4
    <3>6. c[i + (p - q[i].pos)] = q[i + (p - q[i].pos)] /\ i + (p - q[i].pos) <= Len(c)
      BY <1>3, <3>5
    <3> QED
      BY <3>2, <3>4, <3>6
  <2>2. CASE \E j \in 1 .. len : i = Len(q) + j
    <3> PICK j \in 1 .. len : i = Len(q) + j
      BY <2>2
    <3>1. c[i] = byte(j)
      BY <1>4
    <3>2. c[i].pos = j /\ c[i].msg = m /\ c[i].part = part /\ Length(c[i].msg, c[i].part) = len
      BY <1>6, <3>1
    <3>3. p \in 1 .. len /\ i + (p - c[i].pos) = Len(q) + p
      BY <1>1, <1>2, <3>2
    <3>4. c[Len(q) + p] = byte(p) /\ Len(q) + p <= Len(c)
      BY <1>2, <1>4, <3>3
    <3> QED
      BY <3>2, <3>3, <3>4
  <2> QED
    BY <1>5, <2>1, <2>2
<1>9. \A i, j \in 1 .. Len(c) : c[i] = c[j] => i = j
  <2> SUFFICES ASSUME NEW i \in 1 .. Len(c), NEW j \in 1 .. Len(c), c[i] = c[j]
               PROVE  i = j
    OBVIOUS
  <2>1. CASE i \in 1 .. Len(q) /\ j \in 1 .. Len(q)
    BY <1>3, <2>1 DEF Stream
  <2>2. \A h \in 1 .. Len(q) : ~(c[h].msg = m /\ c[h].part = part)
    BY <1>3
  <2> HIDE DEF byte
  <2>3. \A t \in 1 .. len : c[Len(q) + t].msg = m /\ c[Len(q) + t].part = part
                            /\ c[Len(q) + t].pos = t
    <3> TAKE t \in 1 .. len
    <3>1. c[Len(q) + t] = byte(t)
      BY <1>4
    <3>2. byte(t).msg = m /\ byte(t).part = part /\ byte(t).pos = t
      BY <1>6
    <3> QED
      BY <3>1, <3>2
  <2>4. CASE \E t, u \in 1 .. len : i = Len(q) + t /\ j = Len(q) + u
    <3> PICK t \in 1 .. len, u \in 1 .. len : i = Len(q) + t /\ j = Len(q) + u
      BY <2>4
    <3>1. c[i].pos = t /\ c[j].pos = u
      BY <2>3
    <3> QED
      BY <3>1
  <2>5. CASE i \in 1 .. Len(q) /\ (\E t \in 1 .. len : j = Len(q) + t)
    <3> PICK t \in 1 .. len : j = Len(q) + t
      BY <2>5
    <3>1. c[j].msg = m /\ c[j].part = part
      BY <2>3
    <3> QED
      BY <2>2, <2>5, <3>1
  <2>6. CASE j \in 1 .. Len(q) /\ (\E t \in 1 .. len : i = Len(q) + t)
    <3> PICK t \in 1 .. len : i = Len(q) + t
      BY <2>6
    <3>1. c[i].msg = m /\ c[i].part = part
      BY <2>3
    <3> QED
      BY <2>2, <2>6, <3>1
  <2>7. \/ i \in 1 .. Len(q)
        \/ \E t \in 1 .. len : i = Len(q) + t
    BY <1>5
  <2>8. \/ j \in 1 .. Len(q)
        \/ \E t \in 1 .. len : j = Len(q) + t
    BY <1>5
  <2> QED
    BY <2>1, <2>4, <2>5, <2>6, <2>7, <2>8
<1>10. \A i \in 1 .. Len(c) - 1 : Last(c[i]) => Leads(S, c[i], c[i + 1])
  <2> TAKE i \in 1 .. Len(c) - 1
  <2>0. i \in 1 .. Len(c) /\ i + 1 \in 1 .. Len(c)
    BY <1>2
  <2>1. CASE i \in 1 .. Len(q) - 1
    <3>1. i \in 1 .. Len(q) /\ i + 1 \in 1 .. Len(q)
      BY <1>2, <2>1
    <3>2. c[i] = q[i] /\ c[i + 1] = q[i + 1]
      BY <1>3, <3>1
    <3> QED
      BY <2>1, <3>2 DEF Stream
  <2>2. CASE i = Len(q)
    <3>1. q # <<>> /\ i \in 1 .. Len(q) /\ 1 \in 1 .. len
      BY <1>1, <1>2, <2>2
    <3>2. c[i] = q[Len(q)] /\ c[i + 1] = byte(1)
      BY <1>3, <1>4, <2>2, <3>1
    <3>3. Leads(S, q[Len(q)], byte(1))
      BY <3>1 DEF Stream
    <3> QED
      BY <3>2, <3>3
  <2>3. CASE \E j \in 1 .. len : i = Len(q) + j
    <3> PICK j \in 1 .. len : i = Len(q) + j
      BY <2>3
    <3>1. j < len
      BY <1>1, <1>2
    <3>2. c[i] = byte(j)
      BY <1>4
    <3>3. c[i].pos = j /\ Length(c[i].msg, c[i].part) = len
      BY <1>6, <3>2
    <3> QED
      BY <3>1, <3>3 DEF Last
  <2>4. i \in 1 .. Len(q) => (i \in 1 .. Len(q) - 1 \/ i = Len(q))
    BY <1>2
  <2> QED
    BY <1>5, <2>0, <2>1, <2>2, <2>3, <2>4
<1>11. c # <<>> /\ c[1] = x
  <2>1. c # <<>>
    BY <1>1, <1>2
  <2>2. CASE q = <<>>
    <3>1. Len(q) + 1 = 1 /\ 1 \in 1 .. len
      BY <1>1, <2>2
    <3>2. c[1] = byte(1)
      BY <1>4, <3>1
    <3> QED
      BY <2>1, <2>2, <3>2 DEF Stream
  <2>3. CASE q # <<>>
    <3>1. 1 \in 1 .. Len(q)
      BY <1>2, <2>3
    <3> QED
      BY <1>3, <2>1, <2>3, <3>1 DEF Stream
  <2> QED
    BY <2>2, <2>3
<1>12. Last(c[Len(c)]) /\ Leads(S, c[Len(c)], w)
  <2>1. len \in 1 .. len /\ Len(c) = Len(q) + len
    BY <1>1, <1>2
  <2>2. c[Len(c)] = byte(len)
    BY <1>4, <2>1
  <2>3. Last(byte(len))
    BY <1>6, <2>1 DEF Last
  <2> QED
    BY <2>2, <2>3 DEF len
<1>13. Stream(S, c, x, w)
  BY <1>7, <1>8, <1>9, <1>10, <1>11, <1>12 DEF Stream
<1> QED
  BY <1>13 DEF c, b

\* A message is begun when nothing is being written.
LEMMA NewFrame ==
  ASSUME NEW S \in Seq(Msgs), NEW q \in Seq(Byte), NEW x, NEW m \in Msgs,
         Stream(S, q, x, End), \A k \in 1 .. Len(S) : S[k] # m
  PROVE  LET f == [msg |-> m, part |-> "size", pos |-> 1]
         IN  Stream(Append(S, m), q, IF q = <<>> THEN f ELSE x, f)
<1> DEFINE f == [msg |-> m, part |-> "size", pos |-> 1]
           T == Append(S, m)
<1>1. /\ T \in Seq(Msgs) /\ Len(S) \in Nat /\ Len(T) = Len(S) + 1 /\ T[Len(S) + 1] = m
      /\ \A k \in 1 .. Len(S) : T[k] = S[k]
  OBVIOUS
<1> HIDE DEF T
<1>2. First(T, Len(S) + 1) = f
  BY <1>1 DEF First
<1>3. \A k \in 1 .. Len(S) : k + 1 \in 1 .. Len(S) => First(T, k + 1) = First(S, k + 1)
  BY <1>1 DEF First
<1>4. \A k \in 1 .. Len(S) : k + 1 \notin 1 .. Len(S) => k = Len(S) /\ First(S, k + 1) = End
  BY <1>1 DEF First
<1>5. \A k \in 1 .. Len(S) : First(S, k + 1) = End => k = Len(S)
  BY <1>1 DEF First, End
<1>6. ASSUME NEW b, NEW c, Leads(S, b, c), c # End
      PROVE  Leads(T, b, c)
  <2>1. CASE b.part = "size" \/ (b.part = "head" /\ BodyLen[b.msg] > 0)
    BY <1>6, <2>1 DEF Leads
  <2>2. CASE ~(b.part = "size" \/ (b.part = "head" /\ BodyLen[b.msg] > 0))
    <3>1. PICK k \in 1 .. Len(S) : S[k] = b.msg /\ c = First(S, k + 1)
      BY <1>6, <2>2 DEF Leads
    <3>2. k \in 1 .. Len(T) /\ T[k] = b.msg /\ c = First(T, k + 1)
      <4>1. k \in 1 .. Len(T) /\ T[k] = b.msg
        BY <1>1, <3>1
      <4>2. k + 1 \in 1 .. Len(S)
        BY <1>4, <1>6, <3>1
      <4> QED
        BY <1>3, <3>1, <4>1, <4>2
    <3> QED
      BY <2>2, <3>2 DEF Leads
  <2> QED
    BY <2>1, <2>2
<1>7. ASSUME NEW b, Leads(S, b, End)
      PROVE  Leads(T, b, f)
  <2>1. ~(b.part = "size" \/ (b.part = "head" /\ BodyLen[b.msg] > 0))
    BY <1>7 DEF Leads, End
  <2>2. PICK k \in 1 .. Len(S) : S[k] = b.msg /\ End = First(S, k + 1)
    BY <1>7, <2>1 DEF Leads
  <2>3. k = Len(S) /\ k \in 1 .. Len(T) /\ T[k] = b.msg /\ f = First(T, k + 1)
    BY <1>1, <1>2, <1>5, <2>2
  <2> QED
    BY <2>1, <2>3 DEF Leads
<1>8. \A i \in 1 .. Len(q) : /\ q[i].pos <= Length(q[i].msg, q[i].part)
                             /\ \E k \in 1 .. Len(T) : T[k] = q[i].msg
  <2> TAKE i \in 1 .. Len(q)
  <2>1. /\ q[i].pos <= Length(q[i].msg, q[i].part)
        /\ \E k \in 1 .. Len(S) : S[k] = q[i].msg
    BY DEF Stream
  <2> QED
    BY <1>1, <2>1
<1>9. \A i \in 1 .. Len(q) - 1 : Last(q[i]) => Leads(T, q[i], q[i + 1])
  <2> TAKE i \in 1 .. Len(q) - 1
  <2>1. Last(q[i]) => Leads(S, q[i], q[i + 1])
    BY DEF Stream
  <2>2. i + 1 \in 1 .. Len(q) /\ q[i + 1] \in Byte
    OBVIOUS
  <2>3. q[i + 1] # End
    BY <2>2 DEF Byte, End
  <2> QED
    BY <1>6, <2>1, <2>3
<1>10. q # <<>> => q[1] = x /\ Last(q[Len(q)]) /\ Leads(T, q[Len(q)], f)
  BY <1>7 DEF Stream
<1>11. Runs(q) /\ \A i, j \in 1 .. Len(q) : q[i] = q[j] => i = j
  BY DEF Stream
<1> HIDE DEF f
<1>12. Stream(T, q, IF q = <<>> THEN f ELSE x, f)
  BY <1>8, <1>9, <1>10, <1>11 DEF Stream
<1> QED
  BY <1>12 DEF T, f

\* The bytes on their way are those in the input buffer and then those on the wire.
LEMMA Way ==
  ASSUME NEW s \in Seq(Byte), NEW t \in Seq(Byte)
  PROVE  /\ s \o t \in Seq(Byte) /\ Len(s \o t) = Len(s) + Len(t)
         /\ \A i \in 1 .. Len(s) : i \in 1 .. Len(s \o t) /\ (s \o t)[i] = s[i]
         /\ \A i \in 1 .. Len(t) : /\ Len(s) + i \in 1 .. Len(s \o t)
                                   /\ (s \o t)[Len(s) + i] = t[i]
         /\ \A n \in 0 .. Len(s) : Drop(s, n) \o t = Drop(s \o t, n)
         /\ \A n \in 0 .. Len(t) : (s \o SubSeq(t, 1, n)) \o Drop(t, n) = s \o t
<1>1. /\ s \o t \in Seq(Byte) /\ Len(s \o t) = Len(s) + Len(t)
      /\ Len(s) \in Nat /\ Len(t) \in Nat
      /\ \A i \in 1 .. Len(s) + Len(t) :
           (s \o t)[i] = IF i <= Len(s) THEN s[i] ELSE t[i - Len(s)]
  BY ConcatProperties
<1>2. \A i \in 1 .. Len(s) : i \in 1 .. Len(s \o t) /\ (s \o t)[i] = s[i]
  BY <1>1
<1>3. \A i \in 1 .. Len(t) : /\ Len(s) + i \in 1 .. Len(s \o t)
                             /\ (s \o t)[Len(s) + i] = t[i]
  <2> TAKE i \in 1 .. Len(t)
  <2>1. /\ Len(s) + i \in 1 .. Len(s) + Len(t)
        /\ ~(Len(s) + i <= Len(s)) /\ (Len(s) + i) - Len(s) = i
    BY <1>1
  <2> QED
    BY <1>1, <2>1
<1>4. ASSUME NEW n \in 0 .. Len(s)
      PROVE  Drop(s, n) \o t = Drop(s \o t, n)
  <2> DEFINE c == s \o t
             l == Drop(s, n)
             r == Drop(c, n)
  <2>1. /\ l \in Seq(Byte) /\ Len(l) = Len(s) - n
        /\ \A i \in 1 .. Len(s) - n : l[i] = s[i + n]
    BY Dropped
  <2>2. n \in 0 .. Len(c) /\ c \in Seq(Byte)
    BY <1>1
  <2>3. /\ r \in Seq(Byte) /\ Len(r) = Len(c) - n
        /\ \A i \in 1 .. Len(c) - n : r[i] = c[i + n]
    BY <2>2, Dropped
  <2>4. Len(c) = Len(s) + Len(t)
    BY <1>1
  <2>5. \A i \in 1 .. Len(s) + Len(t) : c[i] = IF i <= Len(s) THEN s[i] ELSE t[i - Len(s)]
    BY <1>1
  <2> HIDE DEF c, l, r
  <2>6. /\ l \o t \in Seq(Byte) /\ Len(l \o t) = Len(l) + Len(t)
        /\ \A i \in 1 .. Len(l) + Len(t) :
             (l \o t)[i] = IF i <= Len(l) THEN l[i] ELSE t[i - Len(l)]
    BY <2>1, ConcatProperties
  <2>7. Len(l \o t) = Len(r)
    BY <1>1, <2>1, <2>3, <2>4, <2>6
  <2>8. \A i \in 1 .. Len(r) : (l \o t)[i] = r[i]
    <3> TAKE i \in 1 .. Len(r)
    <3>1. /\ i \in 1 .. Len(l) + Len(t) /\ i \in 1 .. Len(c) - n
          /\ i + n \in 1 .. Len(s) + Len(t)
      BY <1>1, <2>1, <2>3, <2>4
    <3>2. CASE i <= Len(l)
      <4>1. i \in 1 .. Len(s) - n /\ i + n <= Len(s)
        BY <1>1, <2>1, <3>1, <3>2
      <4> QED
        BY <2>1, <2>3, <2>5, <2>6, <3>1, <3>2, <4>1
    <3>3. CASE ~(i <= Len(l))
      <4>1. ~(i + n <= Len(s)) /\ (i + n) - Len(s) = i - Len(l)
        BY <1>1, <2>1, <3>1, <3>3
      <4> QED
        BY <2>3, <2>5, <2>6, <3>1, <3>3, <4>1
    <3> QED
      BY <3>2, <3>3
  <2>9. l \o t = r
    BY <2>3, <2>6, <2>7, <2>8, SeqEqual
  <2> QED
    BY <2>9 DEF c, l, r
<1>5. ASSUME NEW n \in 0 .. Len(t)
      PROVE  (s \o SubSeq(t, 1, n)) \o Drop(t, n) = s \o t
  <2>1. SubSeq(t, 1, n) \in Seq(Byte) /\ Drop(t, n) \in Seq(Byte)
    BY Taken, Dropped
  <2>2. 1 \in 1 .. Len(t) + 1 /\ n \in 1 - 1 .. Len(t) /\ Len(t) \in n .. Len(t)
    BY <1>1
  <2>3. SubSeq(t, 1, n) \o SubSeq(t, n + 1, Len(t)) = SubSeq(t, 1, Len(t))
    BY <2>2, ConcatAdjacentSubSeq
  <2>4. SubSeq(t, 1, Len(t)) = t
    OBVIOUS
  <2>5. SubSeq(t, 1, n) \o Drop(t, n) = t
    BY <2>3, <2>4 DEF Drop
  <2> DEFINE u == SubSeq(t, 1, n)
             v == Drop(t, n)
  <2>6. u \in Seq(Byte) /\ v \in Seq(Byte) /\ u \o v = t
    BY <2>1, <2>5
  <2> HIDE DEF u, v
  <2>7. \A x, y, z \in Seq(Byte) : (x \o y) \o z = x \o (y \o z)
    BY ConcatAssociative, SMTT(30)
  <2>8. (s \o u) \o v = s \o (u \o v)
    BY <2>6, <2>7, ZenonT(30)
  <2> QED
    BY <2>6, <2>8 DEF u, v
<1> QED
  BY <1>1, <1>2, <1>3, <1>4, <1>5

\* What was received of a part, and what is received now.
LEMMA Piece ==
  ASSUME NEW m \in Msgs, NEW part \in Parts, NEW data \in Seq(Byte), NEW s \in Seq(Byte),
         NEW n \in 0 .. Len(s), Len(data) + n <= Length(m, part),
         data = SubSeq(Bytes(m, part), 1, Len(data)),
         \A i \in 1 .. n : s[i] = [msg |-> m, part |-> part, pos |-> Len(data) + i]
  PROVE  data \o SubSeq(s, 1, n) = SubSeq(Bytes(m, part), 1, Len(data) + n)
<1> DEFINE b == Bytes(m, part)
           l == Len(data)
           t == SubSeq(s, 1, n)
           r == SubSeq(b, 1, l + n)
<1>1. /\ Length(m, part) \in Nat /\ b \in Seq(Byte) /\ Len(b) = Length(m, part)
      /\ \A i \in 1 .. Length(m, part) : b[i] = [msg |-> m, part |-> part, pos |-> i]
  BY BytesOf
<1>2. t \in Seq(Byte) /\ Len(t) = n /\ \A i \in 1 .. n : t[i] = s[i]
  BY Taken
<1>3. l \in Nat /\ n \in Nat /\ l \in 0 .. Len(b) /\ l + n \in 0 .. Len(b)
  BY <1>1
<1>4. r \in Seq(Byte) /\ Len(r) = l + n /\ \A i \in 1 .. l + n : r[i] = b[i]
  BY <1>1, <1>3, Taken
<1>5. \A i \in 1 .. l : data[i] = b[i]
  <2>1. \A i \in 1 .. l : SubSeq(b, 1, l)[i] = b[i]
    BY <1>1, <1>3, Taken
  <2> QED
    BY <2>1
<1> HIDE DEF t, r, b
<1>6. /\ data \o t \in Seq(Byte) /\ Len(data \o t) = l + n
      /\ \A i \in 1 .. l + n : (data \o t)[i] = IF i <= l THEN data[i] ELSE t[i - l]
  BY <1>2, ConcatProperties
<1>7. \A i \in 1 .. l + n : (data \o t)[i] = r[i]
  <2> TAKE i \in 1 .. l + n
  <2> HIDE DEF l
  <2>1. CASE i <= l
    <3>1. i \in 1 .. l
      BY <1>3, <2>1
    <3> QED
      BY <1>4, <1>5, <1>6, <2>1, <3>1
  <2>2. CASE ~(i <= l)
    <3>1. i - l \in 1 .. n /\ l + (i - l) = i /\ i \in 1 .. Length(m, part)
      BY <1>1, <1>3, <2>2
    <3>2. t[i - l] = [msg |-> m, part |-> part, pos |-> l + (i - l)]
      BY <1>2, <3>1 DEF l
    <3>3. b[i] = [msg |-> m, part |-> part, pos |-> i]
      BY <1>1, <3>1
    <3> QED
      BY <1>4, <1>6, <2>2, <3>1, <3>2, <3>3
  <2> QED
    BY <2>1, <2>2
<1>8. data \o t = r
  BY <1>4, <1>6, <1>7, SeqEqual
<1> QED
  BY <1>8 DEF t, r, b
-----------------------------------------------------------------------------
(* A connection that is not torn.                                           *)

StreamInv == ReaderInv /\ SendInv /\ CutInv /\ FrameInv

\* The thread whose frame is under way, or that begins one, writes.
LEMMA SenderNow ==
  ASSUME TypeOK, StreamInv, ~torn', NEW s \in Senders, NEW v, NEW o \in {NoSender, s},
         sender' = [sender EXCEPT ![s] = v], sender[s] = NotSending <=> o = NoSender,
         Writes(s, o, IF v = NotSending THEN NoSender ELSE s)
  PROVE  /\ Under = sender[s] /\ Under' = v
         /\ owner' # NoSender => Under' # NotSending
         /\ Writer = WriterOf(sender[s]) /\ Writer' = WriterOf(v)
<1>1. s # NoSender /\ sender'[s] = v
  BY Lengths DEF TypeOK
<1>2. owner = o /\ owner' = IF v = NotSending THEN NoSender ELSE s
  BY DEF Writes
<1>3. Under = sender[s]
  BY <1>1, <1>2 DEF Under
<1>4. Under' = v
  BY <1>1, <1>2 DEF Under
<1> QED
  BY <1>1, <1>2, <1>3, <1>4 DEF Writer

\* What is written is added to what is on its way.
LEMMA Written ==
  ASSUME TypeOK, NEW b \in Seq(Byte), wire' = wire \o b, inbuf' = inbuf
  PROVE  /\ OnWay \in Seq(Byte) /\ OnWay' = OnWay \o b
         /\ \A i \in 1 .. Len(OnWay') : \/ i \in 1 .. Len(OnWay) /\ OnWay'[i] = OnWay[i]
                                        \/ \E j \in 1 .. Len(b) : OnWay'[i] = b[j]
         /\ Len(wire) > 0 => wire # <<>> /\ wire' # <<>> /\ wire'[1] = wire[1]
         /\ Len(b) > 0 /\ wire = <<>> => wire' # <<>> /\ wire'[1] = b[1]
<1>1. inbuf \in Seq(Byte) /\ wire \in Seq(Byte)
  BY DEF TypeOK
<1>2. OnWay' = inbuf \o (wire \o b)
  BY DEF OnWay
<1>3. inbuf \o (wire \o b) = (inbuf \o wire) \o b
  BY <1>1, ConcatAssociative
<1>4. OnWay \in Seq(Byte) /\ OnWay' = OnWay \o b
  BY <1>1, <1>2, <1>3, ConcatProperties DEF OnWay
<1>5. /\ Len(OnWay') = Len(OnWay) + Len(b)
      /\ \A i \in 1 .. Len(OnWay) + Len(b) :
           OnWay'[i] = IF i <= Len(OnWay) THEN OnWay[i] ELSE b[i - Len(OnWay)]
  BY <1>4, ConcatProperties
<1>6. \A i \in 1 .. Len(OnWay') : \/ i \in 1 .. Len(OnWay) /\ OnWay'[i] = OnWay[i]
                                  \/ \E j \in 1 .. Len(b) : OnWay'[i] = b[j]
  <2> TAKE i \in 1 .. Len(OnWay')
  <2>1. i \in 1 .. Len(OnWay) \/ i - Len(OnWay) \in 1 .. Len(b)
    BY <1>4, <1>5
  <2> HIDE DEF OnWay
  <2>2. CASE i \in 1 .. Len(OnWay)
    BY <1>4, <1>5, <2>2
  <2>3. CASE i - Len(OnWay) \in 1 .. Len(b)
    <3>1. ~(i <= Len(OnWay)) /\ i \in 1 .. Len(OnWay) + Len(b)
      BY <1>4, <1>5, <2>3
    <3> QED
      BY <1>5, <2>3, <3>1
  <2> QED
    BY <2>1, <2>2, <2>3
<1>7. Len(wire) > 0 => wire # <<>> /\ wire' # <<>> /\ wire'[1] = wire[1]
  BY <1>1
<1>8. Len(b) > 0 /\ wire = <<>> => wire' # <<>> /\ wire'[1] = b[1]
  BY <1>1
<1> QED
  BY <1>4, <1>6, <1>7, <1>8

\* What the reader reads next does not move when a message is begun, unless it
\* has read all there is.
LEMMA CursorStays ==
  ASSUME TypeOK, ReaderInv, NEW m \in Msgs
  PROVE  LET T == Append(sent, m)
             f == [msg |-> m, part |-> "size", pos |-> 1]
         IN  CursorOf(T, done, head_, msg_) = IF Cursor = End THEN f ELSE Cursor
<1> DEFINE T == Append(sent, m)
           f == [msg |-> m, part |-> "size", pos |-> 1]
<1> SUFFICES CursorOf(T, done, head_, msg_) = IF Cursor = End THEN f ELSE Cursor
  OBVIOUS
<1>1. /\ sent \in Seq(Msgs) /\ Len(sent) \in Nat /\ done \in Nat /\ done <= Len(sent)
      /\ Len(T) = Len(sent) + 1 /\ T[Len(sent) + 1] = m
      /\ \A k \in 1 .. Len(sent) : T[k] = sent[k]
  BY DEF TypeOK, ReaderInv
<1> HIDE DEF T
<1>2. \A k \in 1 .. Len(sent) : First(sent, k) # End /\ First(T, k) = First(sent, k)
  <2> TAKE k \in 1 .. Len(sent)
  <2>1. k \in 1 .. Len(T) /\ T[k] = sent[k] /\ sent[k] \in Msgs
    BY <1>1
  <2> QED
    BY <2>1, Lengths DEF First, End
<1>3. First(sent, Len(sent) + 1) = End /\ First(T, Len(sent) + 1) = f
  BY <1>1 DEF First
<1> HIDE DEF f
<1>4. CASE head_.size = 0
  <2>1. Cursor = First(sent, done + 1) /\ CursorOf(T, done, head_, msg_) = First(T, done + 1)
    BY <1>4 DEF Cursor, CursorOf
  <2>2. done + 1 \in 1 .. Len(sent) \/ done = Len(sent)
    BY <1>1
  <2>3. CASE done + 1 \in 1 .. Len(sent)
    BY <1>2, <2>1, <2>3
  <2>4. CASE done = Len(sent)
    BY <1>3, <2>1, <2>4
  <2> QED
    BY <2>2, <2>3, <2>4
<1>5. CASE head_.size # 0
  <2>1. done < Len(sent) /\ done + 1 \in 1 .. Len(sent)
    BY <1>1, <1>5 DEF ReaderInv, TypeOK, Buffer
  <2>2. T[done + 1] = sent[done + 1]
    BY <1>1, <2>1
  <2>3. CASE Len(head_.data) < head_.size
    <3>1. /\ Cursor = [msg |-> sent[done + 1], part |-> "head", pos |-> Len(head_.data) + 1]
          /\ CursorOf(T, done, head_, msg_)
               = [msg |-> T[done + 1], part |-> "head", pos |-> Len(head_.data) + 1]
      BY <1>5, <2>3 DEF Cursor, CursorOf
    <3>2. Cursor.part = "head"
      BY <3>1
    <3>3. Cursor # End
      BY <3>2 DEF End
    <3> QED
      BY <2>2, <3>1, <3>3
  <2>4. CASE ~(Len(head_.data) < head_.size) /\ Len(msg_.data) < msg_.size
    <3>1. /\ Cursor = [msg |-> sent[done + 1], part |-> "body", pos |-> Len(msg_.data) + 1]
          /\ CursorOf(T, done, head_, msg_)
               = [msg |-> T[done + 1], part |-> "body", pos |-> Len(msg_.data) + 1]
      BY <1>5, <2>4 DEF Cursor, CursorOf
    <3>2. Cursor.part = "body"
      BY <3>1
    <3>3. Cursor # End
      BY <3>2 DEF End
    <3> QED
      BY <2>2, <3>1, <3>3
  <2>5. CASE ~(Len(head_.data) < head_.size) /\ ~(Len(msg_.data) < msg_.size)
    <3>1. Cursor = First(sent, done + 2) /\ CursorOf(T, done, head_, msg_) = First(T, done + 2)
      BY <1>5, <2>5 DEF Cursor, CursorOf
    <3>2. done + 2 \in 1 .. Len(sent) \/ done + 2 = Len(sent) + 1
      BY <1>1, <2>1
    <3>3. CASE done + 2 \in 1 .. Len(sent)
      BY <1>2, <3>1, <3>3
    <3>4. CASE done + 2 = Len(sent) + 1
      <4>1. First(sent, done + 2) = End /\ First(T, done + 2) = f
        BY <1>3, <3>4
      <4> QED
        BY <3>1, <4>1
    <3> QED
      BY <3>2, <3>3, <3>4
  <2> QED
    BY <2>3, <2>4, <2>5
<1> QED
  BY <1>4, <1>5

\* A byte that is on its way is not the end.
LEMMA CursorAtEnd ==
  ASSUME NEW S \in Seq(Msgs), NEW q \in Seq(Byte), NEW x, Stream(S, q, x, End)
  PROVE  x = End <=> q = <<>>
<1>1. CASE q # <<>>
  <2>1. q[1] = x /\ q[1] \in Byte
    BY <1>1 DEF Stream
  <2> QED
    BY <1>1, <2>1 DEF Byte, End
<1> QED
  BY <1>1 DEF Stream

LEMMA WriteSizeKeeps ==
  ASSUME TypeOK, StreamInv, ~torn', NEW s \in Senders, NEW m \in Msgs, WriteSize(s, m)
  PROVE  StreamInv'
<1> DEFINE b == Bytes(m, "size")
           q == OnWay
           T == Append(sent, m)
           f == [msg |-> m, part |-> "size", pos |-> 1]
           g == [msg |-> m, part |-> "head", pos |-> 1]
<1> USE DEF StreamInv
<1>1. /\ sent \in Seq(Msgs) /\ Len(sent) \in Nat /\ done \in Nat /\ wire \in Seq(Byte)
      /\ T \in Seq(Msgs) /\ Len(T) = Len(sent) + 1 /\ T[Len(sent) + 1] = m
      /\ \A k \in 1 .. Len(sent) : T[k] = sent[k] /\ sent[k] # m
  <2>1. sent \in Seq(Msgs) /\ Len(sent) \in Nat /\ done \in Nat /\ wire \in Seq(Byte)
    BY DEF TypeOK
  <2>2. \A k \in 1 .. Len(sent) : sent[k] # m
    BY DEF WriteSize, NeverSent
  <2> QED
    BY <2>1, <2>2
<1>2. /\ b \in Seq(Byte) /\ Len(b) = SizeLen /\ SizeLen \in Nat /\ SizeLen > 0
      /\ Length(m, "size") = SizeLen /\ "size" \in Parts
      /\ \A i \in 1 .. Len(b) : b[i] = [msg |-> m, part |-> "size", pos |-> i]
  <2>1. "size" \in Parts /\ Length(m, "size") = SizeLen /\ SizeLen \in Nat /\ SizeLen > 0
    BY Lengths DEF Parts, Length
  <2> QED
    BY <2>1, BytesOf
<1>3. /\ conn /\ wire' = wire \o b /\ sent' = T /\ sender[s] = NotSending
      /\ sender' = [sender EXCEPT ![s] = [msg |-> m, part |-> "head"]]
      /\ UNCHANGED <<conn, inbuf, reader, head_, msg_, pb_head_, done>>
  BY DEF WriteSize, linkVars, recvVars
<1> HIDE DEF b, T
<1>4. /\ Under = NotSending /\ Under' = [msg |-> m, part |-> "head"]
      /\ Writer = End /\ Writer' = g
  <2> DEFINE v == [msg |-> m, part |-> "head"]
  <2>1. v # NotSending
    BY DEF NotSending
  <2>2. v.msg = m /\ v.part = "head"
    OBVIOUS
  <2>3. /\ sender' = [sender EXCEPT ![s] = v] /\ sender[s] = NotSending
        /\ owner = NoSender /\ owner' = s /\ s # NoSender
    BY <1>3, <2>1, Lengths DEF WriteSize, Writes
  <2> HIDE DEF v
  <2>4. /\ Under = sender[s] /\ Under' = v
        /\ Writer = WriterOf(sender[s]) /\ Writer' = WriterOf(v)
    <3>1. sender'[s] = v
      BY <2>3 DEF TypeOK
    <3>2. Under = sender[s] /\ Under' = v
      BY <2>3, <3>1 DEF Under
    <3> QED
      BY <3>2 DEF Writer
  <2>5. WriterOf(v) = g
    BY <2>1, <2>2 DEF WriterOf
  <2> QED
    BY <2>3, <2>4, <2>5 DEF v, WriterOf
<1>5. /\ q \in Seq(Byte) /\ q' = q \o b
      /\ \A i \in 1 .. Len(q') : \/ i \in 1 .. Len(q) /\ q'[i] = q[i]
                                 \/ \E j \in 1 .. Len(b) : q'[i] = b[j]
      /\ Len(wire) > 0 => wire # <<>> /\ wire' # <<>> /\ wire'[1] = wire[1]
      /\ Len(b) > 0 /\ wire = <<>> => wire' # <<>> /\ wire'[1] = b[1]
  BY <1>2, <1>3, Written
<1>6. Stream(sent, q, Cursor, End)
  BY <1>3, <1>4 DEF FrameInv
<1>7. \A i \in 1 .. Len(q) : q[i].msg # m /\ \E k \in 1 .. Len(sent) : sent[k] = q[i].msg
  <2> TAKE i \in 1 .. Len(q)
  <2> HIDE DEF q
  <2>1. \E k \in 1 .. Len(sent) : sent[k] = q[i].msg
    BY <1>6 DEF Stream
  <2> QED
    BY <1>1, <2>1
<1>8. Cursor' = IF q = <<>> THEN f ELSE Cursor
  <2>1. Cursor' = CursorOf(T, done, head_, msg_)
    BY <1>3 DEF Cursor
  <2>2. Cursor = End <=> q = <<>>
    BY <1>1, <1>5, <1>6, CursorAtEnd
  <2> QED
    BY <2>1, <2>2, CursorStays DEF T
<1>9. Stream(T, q, Cursor', f)
  <2>1. \A k \in 1 .. Len(sent) : sent[k] # m
    BY <1>1
  <2> QED
    BY <1>1, <1>5, <1>6, <1>8, <2>1, NewFrame DEF T
<1>10. Stream(T, q', Cursor', g)
  <2>1. Leads(T, [msg |-> m, part |-> "size", pos |-> Length(m, "size")], g)
    BY DEF Leads
  <2>2. \E k \in 1 .. Len(T) : T[k] = m
    BY <1>1
  <2>3. \A i \in 1 .. Len(q) : q[i].msg = m => q[i].part # "size"
    BY <1>7
  <2> HIDE DEF q
  <2>4. Stream(T, q \o b, Cursor', g)
    BY <1>1, <1>2, <1>5, <1>9, <2>1, <2>2, <2>3, Extend DEF b
  <2> QED
    BY <1>5, <2>4
<1>11. FrameInv'
  BY <1>3, <1>4, <1>10 DEF FrameInv
<1>12. ReaderInv'
  <2>1. done <= Len(sent) => done <= Len(T)
    BY <1>1
  <2>2. done < Len(sent) => done < Len(T) /\ Frame' = Frame
    BY <1>1, <1>3 DEF Frame
  <2> QED
    BY <1>3, <2>1, <2>2 DEF ReaderInv, HeaderFull, Recved
<1>13. SendInv'
  <2>1. \A i, j \in 1 .. Len(T) : T[i] = T[j] => i = j
    <3>1. \A i, j \in 1 .. Len(sent) : sent[i] = sent[j] => i = j
      BY DEF SendInv
    <3>2. \A i \in 1 .. Len(T) : i \in 1 .. Len(sent) \/ i = Len(sent) + 1
      BY <1>1
    <3> QED
      BY <1>1, <3>1, <3>2
  <2>2. \A i \in 1 .. Len(q') : q'[i].msg = m => q'[i].part = "size"
    <3> TAKE i \in 1 .. Len(q')
    <3>1. CASE i \in 1 .. Len(q) /\ q'[i] = q[i]
      BY <1>7, <3>1
    <3>2. CASE \E j \in 1 .. Len(b) : q'[i] = b[j]
      BY <1>2, <3>2
    <3> QED
      BY <1>5, <3>1, <3>2
  <2>3. T # <<>> /\ T[Len(T)] = m
    BY <1>1
  <2>4. /\ T # <<>> /\ Under'.msg = T[Len(T)] /\ Under'.part = "head"
        /\ Under'.msg = m /\ Under' # NotSending
    BY <1>4, <2>3 DEF NotSending
  <2> HIDE DEF q
  <2> QED
    BY <1>3, <2>1, <2>2, <2>4 DEF SendInv, q
<1>14. CutInv'
  <2>1. CASE wire = <<>>
    <3>0. 1 \in 1 .. Len(b)
      BY <1>2
    <3>1. wire' # <<>> /\ wire'[1] = f
      BY <1>2, <1>5, <2>1, <3>0
    <3> QED
      BY <3>1 DEF CutInv
  <2>2. CASE wire # <<>>
    <3>1. wire' # <<>> /\ wire'[1] = wire[1]
      BY <1>1, <1>5, <2>2
    <3>2. sent # <<>> /\ Head(T) = Head(sent)
      <4>1. Len(q) > 0
        <5>1. Len(q) = Len(inbuf) + Len(wire) /\ Len(inbuf) \in Nat /\ Len(wire) > 0
          BY <1>1, <2>2, ConcatProperties DEF TypeOK, OnWay
        <5> QED
          BY <1>1, <5>1
      <4>2. 1 \in 1 .. Len(q)
        BY <1>5, <4>1
      <4>3. Len(sent) > 0
        BY <1>1, <1>7, <4>2
      <4> QED
        BY <1>1, <4>3 DEF T
    <3>3. wire[1].part = "size" => wire[1].pos = 1
      BY <2>2 DEF CutInv
    <3>4. wire[1].part = "head" => pb_head_ = NoMsg /\ wire[1].msg = Head(sent)
      BY <2>2 DEF CutInv, FirstFrame
    <3> QED
      <4>1. T # <<>>
        BY <1>1
      <4> QED
        BY <1>3, <3>1, <3>2, <3>3, <3>4, <4>1 DEF CutInv, FirstFrame
  <2> QED
    BY <2>1, <2>2
<1> QED
  BY <1>11, <1>12, <1>13, <1>14

\* The header and the body of the message under way.
LEMMA PartKeeps ==
  ASSUME TypeOK, StreamInv, ~torn', NEW s \in Senders, NEW part \in {"head", "body"},
         conn, sender[s] # NotSending, sender[s].part = part,
         wire' = wire \o Bytes(sender[s].msg, part),
         sender' = [sender EXCEPT ![s] =
           IF part = "head" /\ BodyLen[sender[s].msg] > 0
           THEN [msg |-> sender[s].msg, part |-> "body"] ELSE NotSending],
         Writes(s, s, IF part = "head" /\ BodyLen[sender[s].msg] > 0 THEN s ELSE NoSender),
         UNCHANGED <<conn, inbuf, reader, head_, msg_, pb_head_, done, sent>>
  PROVE  StreamInv'
<1> DEFINE m == sender[s].msg
           b == Bytes(m, part)
           q == OnWay
           more == part = "head" /\ BodyLen[m] > 0
           v == IF more THEN [msg |-> m, part |-> "body"] ELSE NotSending
           f == [msg |-> m, part |-> part, pos |-> 1]
           g == IF more THEN [msg |-> m, part |-> "body", pos |-> 1] ELSE End
<1> USE DEF StreamInv
<1>1. /\ sent \in Seq(Msgs) /\ wire \in Seq(Byte) /\ m \in Msgs /\ part \in Parts
      /\ Len(sent) \in Nat
  BY DEF TypeOK, Parts
<1>0. /\ sender[s] = Under /\ Under' = v /\ (owner' # NoSender => Under' # NotSending)
      /\ Writer = WriterOf(sender[s]) /\ Writer' = WriterOf(v)
  <2>1. v = NotSending <=> ~more
    BY DEF NotSending
  <2>2. s # NoSender /\ sender' = [sender EXCEPT ![s] = v]
    BY Lengths
  <2>3. Writes(s, s, IF v = NotSending THEN NoSender ELSE s)
    BY <2>1
  <2> HIDE DEF v
  <2> QED
    BY <2>2, <2>3, SenderNow
<1>2. /\ sent # <<>> /\ Len(sent) \in 1 .. Len(sent) /\ sent[Len(sent)] = m
      /\ part = "body" => BodyLen[m] > 0
      /\ \A i \in 1 .. Len(q) : q[i].msg = m => /\ q[i].part # "body"
                                                /\ part = "head" => q[i].part # "head"
  BY <1>0, <1>1 DEF SendInv
<1>3. /\ b \in Seq(Byte) /\ Len(b) = Length(m, part) /\ Length(m, part) \in Nat
      /\ \A i \in 1 .. Len(b) : b[i] = [msg |-> m, part |-> part, pos |-> i]
  BY <1>1, BytesOf
<1>4. Length(m, part) > 0 /\ 1 \in 1 .. Len(b)
  <2>1. Length(m, part) > 0
    BY <1>1, <1>2, Lengths DEF Length, Parts
  <2> QED
    BY <1>3, <2>1
<1> HIDE DEF b, m
<1>5. Writer = f /\ Writer' = g
  <2>3. Writer = f
    BY <1>0 DEF m, WriterOf
  <2>4. Writer' = g
    <3>1. CASE more
      <4>1. v = [msg |-> m, part |-> "body"]
        BY <3>1
      <4>2. v # NotSending
        BY <4>1 DEF NotSending
      <4> QED
        BY <1>0, <3>1, <4>1, <4>2 DEF WriterOf
    <3>2. CASE ~more
      BY <1>0, <3>2 DEF WriterOf
    <3> QED
      BY <3>1, <3>2
  <2> QED
    BY <2>3, <2>4
<1>6. /\ q \in Seq(Byte) /\ q' = q \o b
      /\ \A i \in 1 .. Len(q') : \/ i \in 1 .. Len(q) /\ q'[i] = q[i]
                                 \/ \E j \in 1 .. Len(b) : q'[i] = b[j]
      /\ Len(wire) > 0 => wire # <<>> /\ wire' # <<>> /\ wire'[1] = wire[1]
      /\ Len(b) > 0 /\ wire = <<>> => wire' # <<>> /\ wire'[1] = b[1]
  <2>1. wire' = wire \o b /\ inbuf' = inbuf
    BY DEF b, m
  <2> QED
    BY <1>3, <2>1, Written
<1>7. Stream(sent, q, Cursor, f)
  BY <1>5 DEF FrameInv
<1>8. Leads(sent, [msg |-> m, part |-> part, pos |-> Length(m, part)], g)
  <2> DEFINE c == [msg |-> m, part |-> part, pos |-> Length(m, part)]
  <2>0. c.part = part /\ c.msg = m /\ part # "size"
    OBVIOUS
  <2> HIDE DEF c
  <2>1. CASE more
    BY <2>0, <2>1 DEF Leads
  <2>2. CASE ~more
    <3>1. First(sent, Len(sent) + 1) = End
      BY <1>1 DEF First
    <3>2. g = End
      BY <2>2
    <3> QED
      BY <1>2, <2>0, <2>2, <3>1, <3>2 DEF Leads
  <2> QED
    BY <2>1, <2>2
<1>9. Stream(sent, q', Cursor, g)
  <2>1. \A i \in 1 .. Len(q) : q[i].msg = m => q[i].part # part
    BY <1>2
  <2>2. \E k \in 1 .. Len(sent) : sent[k] = m
    BY <1>2
  <2> HIDE DEF q, g
  <2>3. Stream(sent, q \o b, Cursor, g)
    BY <1>1, <1>4, <1>6, <1>7, <1>8, <2>1, <2>2, Extend DEF b
  <2> QED
    BY <1>6, <2>3
<1>10. FrameInv'
  <2>1. Cursor' = Cursor
    BY DEF Cursor
  <2> QED
    BY <1>5, <1>9, <2>1 DEF FrameInv
<1>11. ReaderInv'
  BY DEF ReaderInv, HeaderFull, Recved, Frame
<1>12. SendInv'
  <2>1. \A i \in 1 .. Len(q') : q'[i].msg = m /\ more => q'[i].part # "body"
    <3> TAKE i \in 1 .. Len(q')
    <3>1. CASE i \in 1 .. Len(q) /\ q'[i] = q[i]
      BY <1>2, <3>1
    <3>2. CASE \E j \in 1 .. Len(b) : q'[i] = b[j]
      BY <1>3, <3>2
    <3> QED
      BY <1>6, <3>1, <3>2
  <2>2. Under' # NotSending => Under'.msg = m /\ Under'.part = "body" /\ more
    BY <1>0
  <2>3. \A i, j \in 1 .. Len(sent) : sent[i] = sent[j] => i = j
    BY DEF SendInv
  <2> HIDE DEF q
  <2> QED
    BY <1>0, <1>2, <2>1, <2>2, <2>3 DEF SendInv, q
<1>13. CutInv'
  <2>1. CASE wire = <<>>
    <3>1. wire' # <<>> /\ wire'[1] = f
      BY <1>3, <1>4, <1>6, <2>1
    <3>2. part = "head" => FirstFrame(m)
      BY <1>0, <2>1 DEF CutInv, m
    <3>3. part = "head" => pb_head_' = NoMsg /\ m = Head(sent')
      BY <3>2 DEF FirstFrame
    <3>4. wire'[1].part # "size"
      BY <3>1
    <3> QED
      BY <1>2, <3>1, <3>3, <3>4 DEF CutInv, FirstFrame
  <2>2. CASE wire # <<>>
    <3>1. wire' # <<>> /\ wire'[1] = wire[1]
      BY <1>1, <1>6, <2>2
    <3> QED
      BY <2>2, <3>1 DEF CutInv, FirstFrame
  <2> QED
    BY <2>1, <2>2
<1> QED
  BY <1>10, <1>11, <1>12, <1>13

LEMMA WritesKeep ==
  ASSUME TypeOK, StreamInv, ~torn', NEW s \in Senders, Write(s)
  PROVE  StreamInv'
<1>0. /\ sender[s] \in [msg : Msgs \cup {NoMsg}, part : {"none", "head", "body"}]
      /\ sender[s] # NotSending => sender[s].msg \in Msgs
      /\ NotSending.part = "none"
  BY DEF TypeOK, NotSending
<1>1. CASE WriteHead(s)
  <2>1. sender[s].part = "head" /\ sender[s] # NotSending
    BY <1>0, <1>1 DEF WriteHead
  <2>2. [sender[s] EXCEPT !.part = "body"] = [msg |-> sender[s].msg, part |-> "body"]
    BY <1>0
  <2>3. sender' = [sender EXCEPT ![s] =
           IF "head" = "head" /\ BodyLen[sender[s].msg] > 0
           THEN [msg |-> sender[s].msg, part |-> "body"] ELSE NotSending]
    BY <1>1, <2>2 DEF WriteHead
  <2>4. Writes(s, s, IF "head" = "head" /\ BodyLen[sender[s].msg] > 0 THEN s ELSE NoSender)
    BY <1>1 DEF WriteHead
  <2>5. /\ conn /\ wire' = wire \o Bytes(sender[s].msg, "head")
        /\ UNCHANGED <<conn, inbuf, reader, head_, msg_, pb_head_, done, sent>>
    BY <1>1 DEF WriteHead, linkVars, recvVars
  <2> QED
    BY <2>1, <2>3, <2>4, <2>5, PartKeeps
<1>2. CASE WriteBody(s)
  <2>1. sender[s].part = "body" /\ sender[s] # NotSending
    BY <1>0, <1>2 DEF WriteBody
  <2>3. sender' = [sender EXCEPT ![s] =
           IF "body" = "head" /\ BodyLen[sender[s].msg] > 0
           THEN [msg |-> sender[s].msg, part |-> "body"] ELSE NotSending]
    BY <1>2 DEF WriteBody
  <2>4. Writes(s, s, IF "body" = "head" /\ BodyLen[sender[s].msg] > 0 THEN s ELSE NoSender)
    BY <1>2 DEF WriteBody
  <2>5. /\ conn /\ wire' = wire \o Bytes(sender[s].msg, "body")
        /\ UNCHANGED <<conn, inbuf, reader, head_, msg_, pb_head_, done, sent>>
    BY <1>2 DEF WriteBody, linkVars, recvVars
  <2> QED
    BY <2>1, <2>3, <2>4, <2>5, PartKeeps
<1>3. CASE WriteFails(s)
  <2>1. /\ ~conn
        /\ UNCHANGED <<conn, breaks, sent, owner, wire, inbuf, reader, head_, msg_, pb_head_, done>>
    BY <1>3 DEF WriteFails, linkVars, recvVars
  <2>2. Under = NotSending /\ Under' = NotSending
    BY <2>1 DEF StreamInv, SendInv, Under
  <2> QED
    BY <2>1, <2>2 DEF StreamInv, ReaderInv, SendInv, CutInv, FrameInv, HeaderFull, Recved, Frame,
                FirstFrame
<1> QED
  BY <1>1, <1>2, <1>3 DEF Write

LEMMA ArriveKeeps ==
  ASSUME TypeOK, StreamInv, ~torn', NEW n \in 1 .. Len(wire), Arrive(n)
  PROVE  StreamInv'
<1> USE DEF StreamInv
<1>1. inbuf \in Seq(Byte) /\ wire \in Seq(Byte) /\ Len(wire) \in Nat /\ n \in 0 .. Len(wire)
  BY DEF TypeOK
<1>2. /\ reader = "idle" /\ WholeHeader(n) /\ reader' = "size"
      /\ inbuf' = inbuf \o SubSeq(wire, 1, n) /\ wire' = Drop(wire, n)
      /\ UNCHANGED <<conn, breaks, sender, owner, sent, head_, msg_, pb_head_, done>>
  BY DEF Arrive, linkVars, sendVars
<1>3. conn
  <2>1. wire # <<>>
    BY <1>1
  <2> QED
    BY <2>1 DEF SendInv, TypeOK
<1>4. OnWay' = OnWay
  <2>1. (inbuf \o SubSeq(wire, 1, n)) \o Drop(wire, n) = inbuf \o wire
    BY <1>1, Way
  <2> QED
    BY <1>2, <2>1 DEF OnWay
<1>5. FrameInv'
  <2>1. Cursor' = Cursor /\ Writer' = Writer
    BY <1>2 DEF Cursor, Writer, Under
  <2> QED
    BY <1>2, <1>4, <2>1 DEF FrameInv
<1>6. ReaderInv'
  BY <1>2 DEF ReaderInv, HeaderFull, Recved, Frame
<1>7. SendInv'
  BY <1>2, <1>3, <1>4 DEF SendInv, Under
<1>8. CutInv'
  <2>1. CASE n < Len(wire)
    <3>1. 1 \in 1 .. Len(wire) - n /\ 1 + n = n + 1 /\ n + 1 \in 1 .. Len(wire)
      BY <1>1, <2>1
    <3>2. wire' # <<>> /\ wire'[1] = wire[n + 1]
      <4>1. /\ Len(Drop(wire, n)) = Len(wire) - n /\ Drop(wire, n) \in Seq(Byte)
            /\ \A i \in 1 .. Len(wire) - n : Drop(wire, n)[i] = wire[i + n]
        BY <1>1, Dropped
      <4>2. Drop(wire, n)[1] = wire[1 + n]
        BY <3>1, <4>1
      <4> QED
        BY <1>2, <3>1, <4>1, <4>2
    <3>3. LET b == wire[n + 1] IN
            \/ b.part = "body"
            \/ b.part = "size" /\ b.pos = 1
            \/ b.part = "head" /\ FirstFrame(b.msg)
      BY <1>2, <2>1 DEF WholeHeader
    <3> QED
      BY <1>2, <3>2, <3>3 DEF CutInv, FirstFrame
  <2>2. CASE ~(n < Len(wire))
    <3>1. wire' = <<>>
      <4>1. Len(Drop(wire, n)) = 0 /\ Drop(wire, n) \in Seq(Byte)
        BY <1>1, <2>2, Dropped
      <4> QED
        BY <1>2, <4>1
    <3>2. Under.part = "head" => FirstFrame(Under.msg)
      BY <1>2, <2>2 DEF WholeHeader, Under, NotSending
    <3>3. Under' = Under
      BY <1>2 DEF Under
    <3> QED
      BY <1>2, <3>1, <3>2, <3>3 DEF CutInv, FirstFrame
  <2> QED
    BY <2>1, <2>2
<1> QED
  BY <1>5, <1>6, <1>7, <1>8

\* A thread of the event loop that reads does so on a connection.
LEMMA Reading ==
  ASSUME TypeOK, StreamInv
  PROVE  /\ inbuf \in Seq(Byte) /\ wire \in Seq(Byte) /\ sent \in Seq(Msgs)
         /\ Len(sent) \in Nat /\ done \in Nat /\ Distinct(sent)
         /\ head_ \in Buffer /\ msg_ \in Buffer
         /\ Len(head_.data) \in Nat /\ Len(head_.data) <= head_.size /\ head_.size \in Nat
         /\ Len(msg_.data) \in Nat /\ Len(msg_.data) <= msg_.size /\ msg_.size \in Nat
         /\ head_.data \in Seq(Byte) /\ msg_.data \in Seq(Byte)
         /\ reader # "idle" => conn
         /\ reader # "idle" => Stream(sent, OnWay, Cursor, Writer)
         /\ reader \notin {"idle", "size"} => head_.size > 0
         /\ head_.size > 0 => /\ done < Len(sent) /\ Frame \in Msgs /\ done + 1 \in 1 .. Len(sent)
                              /\ head_.size = HeadLen
<1>1. /\ inbuf \in Seq(Byte) /\ wire \in Seq(Byte) /\ sent \in Seq(Msgs)
      /\ Len(sent) \in Nat /\ done \in Nat /\ Distinct(sent)
  BY DEF TypeOK, StreamInv, SendInv, Distinct, Under
<1>2. /\ head_ \in Buffer /\ msg_ \in Buffer
      /\ Len(head_.data) \in Nat /\ Len(head_.data) <= head_.size /\ head_.size \in Nat
      /\ Len(msg_.data) \in Nat /\ Len(msg_.data) <= msg_.size /\ msg_.size \in Nat
      /\ head_.data \in Seq(Byte) /\ msg_.data \in Seq(Byte)
  BY DEF TypeOK, Buffer
<1>3. reader # "idle" => conn /\ Stream(sent, OnWay, Cursor, Writer)
  BY DEF StreamInv, SendInv, FrameInv, TypeOK, Under
<1>4. reader \notin {"idle", "size"} => head_.size > 0
  BY <1>2 DEF StreamInv, ReaderInv
<1>5. head_.size > 0 => done < Len(sent) /\ head_.size = HeadLen
  BY DEF StreamInv, ReaderInv
<1>6. done < Len(sent) => done + 1 \in 1 .. Len(sent) /\ Frame \in Msgs
  BY <1>1 DEF Frame
<1> QED
  BY <1>1, <1>2, <1>3, <1>4, <1>5, <1>6

\* The part that the reader is in goes on on the wire.
LEMMA PartGoesOn ==
  ASSUME TypeOK, StreamInv, reader # "idle", OnWay # <<>>,
         Cursor.pos + Len(inbuf) <= Length(Cursor.msg, Cursor.part)
  PROVE  /\ wire # <<>>
         /\ wire[1] = [msg |-> Cursor.msg, part |-> Cursor.part, pos |-> Cursor.pos + Len(inbuf)]
<1> DEFINE q == OnWay
           x == Cursor
           l == Len(inbuf)
<1>1. inbuf \in Seq(Byte) /\ wire \in Seq(Byte) /\ Stream(sent, q, x, Writer) /\ l \in Nat
  BY Reading
<1>2. /\ q \in Seq(Byte) /\ Len(q) = l + Len(wire)
      /\ \A i \in 1 .. Len(wire) : l + i \in 1 .. Len(q) /\ q[l + i] = wire[i]
  BY <1>1, Way DEF OnWay
<1>3. 1 \in 1 .. Len(q) /\ q[1] = x
  BY <1>1, <1>2 DEF Stream
<1>4. x.pos \in Nat /\ Length(x.msg, x.part) \in Nat
  BY <1>2, <1>3, ByteFields
<1>5. \A p \in x.pos .. Length(x.msg, x.part) :
        /\ 1 + (p - x.pos) <= Len(q)
        /\ q[1 + (p - x.pos)] = [msg |-> x.msg, part |-> x.part, pos |-> p]
  <2>1. \A i \in 1 .. Len(q) : \A p \in q[i].pos .. Length(q[i].msg, q[i].part) :
          /\ i + (p - q[i].pos) <= Len(q)
          /\ q[i + (p - q[i].pos)] = [msg |-> q[i].msg, part |-> q[i].part, pos |-> p]
    BY <1>1 DEF Stream, Runs
  <2> QED
    BY <1>3, <2>1
<1> HIDE DEF q, x, l
<1>6. x.pos + l \in x.pos .. Length(x.msg, x.part) /\ 1 + ((x.pos + l) - x.pos) = l + 1
  BY <1>1, <1>4 DEF x, l
<1>7. l + 1 <= Len(q) /\ q[l + 1] = [msg |-> x.msg, part |-> x.part, pos |-> x.pos + l]
  BY <1>5, <1>6
<1>8. 1 \in 1 .. Len(wire) /\ wire # <<>>
  BY <1>1, <1>2, <1>7
<1> QED
  BY <1>2, <1>7, <1>8 DEF x, l

\* Bytes of one part are taken from the input buffer.
LEMMA TakeBytes ==
  ASSUME TypeOK, StreamInv, reader # "idle", NEW n \in 1 .. Len(inbuf),
         Cursor.pos + n - 1 <= Length(Cursor.msg, Cursor.part)
  PROVE  /\ Cursor \in Byte
         /\ \A i \in 1 .. n :
              inbuf[i] = [msg |-> Cursor.msg, part |-> Cursor.part, pos |-> Cursor.pos + i - 1]
         /\ \A y : (IF Cursor.pos + n - 1 < Length(Cursor.msg, Cursor.part)
                    THEN y = [msg |-> Cursor.msg, part |-> Cursor.part, pos |-> Cursor.pos + n]
                    ELSE Leads(sent, [msg |-> Cursor.msg, part |-> Cursor.part,
                                      pos |-> Cursor.pos + n - 1], y))
                   => Stream(sent, Drop(inbuf, n) \o wire, y, Writer)
<1> DEFINE q == OnWay
           x == Cursor
<1>1. /\ inbuf \in Seq(Byte) /\ wire \in Seq(Byte) /\ Stream(sent, q, x, Writer)
      /\ sent \in Seq(Msgs) /\ Distinct(sent) /\ n \in 0 .. Len(inbuf)
  BY Reading
<1>2. /\ q \in Seq(Byte) /\ Len(q) = Len(inbuf) + Len(wire)
      /\ \A i \in 1 .. Len(inbuf) : i \in 1 .. Len(q) /\ q[i] = inbuf[i]
      /\ Drop(inbuf, n) \o wire = Drop(q, n)
  BY <1>1, Way DEF OnWay
<1>3. n \in 1 .. Len(q) /\ 1 \in 1 .. Len(q) /\ q # <<>>
  BY <1>1, <1>2
<1>4. x \in Byte
  BY <1>1, <1>2, <1>3 DEF Stream
<1> HIDE DEF q, x
<1>5. x.pos + n - 1 <= Length(x.msg, x.part)
  BY DEF x
<1>6. /\ \A i \in 1 .. n : q[i] = [msg |-> x.msg, part |-> x.part, pos |-> x.pos + i - 1]
      /\ \A y : (IF x.pos + n - 1 < Length(x.msg, x.part)
                    THEN y = [msg |-> x.msg, part |-> x.part, pos |-> x.pos + n]
                    ELSE Leads(sent, [msg |-> x.msg, part |-> x.part, pos |-> x.pos + n - 1], y))
                   => Stream(sent, Drop(q, n), y, Writer)
  BY <1>1, <1>2, <1>3, <1>5, Advance
<1>7. \A i \in 1 .. n : inbuf[i] = [msg |-> x.msg, part |-> x.part, pos |-> x.pos + i - 1]
  <2>1. \A i \in 1 .. n : i \in 1 .. Len(inbuf)
    BY <1>1
  <2> QED
    BY <1>2, <1>6, <2>1
<1> QED
  BY <1>2, <1>4, <1>6, <1>7 DEF x

LEMMA TakeKeepsSend ==
  ASSUME TypeOK, StreamInv, reader # "idle", NEW n \in 0 .. Len(inbuf),
         inbuf' = Drop(inbuf, n), UNCHANGED <<conn, sender, owner, sent, wire>>
  PROVE  SendInv'
<1> DEFINE q == OnWay
<1>1. inbuf \in Seq(Byte) /\ wire \in Seq(Byte) /\ conn
  BY Reading
<1>2. q \in Seq(Byte) /\ Len(q) = Len(inbuf) + Len(wire) /\ q' = Drop(q, n)
  BY <1>1, Way DEF OnWay
<1>3. n \in 0 .. Len(q)
  BY <1>1, <1>2
<1>4. \A i \in 1 .. Len(q') : \E j \in 1 .. Len(q) : q'[i] = q[j]
  <2> HIDE DEF q
  <2>1. Len(q') = Len(q) - n /\ \A i \in 1 .. Len(q) - n : q'[i] = q[i + n]
    BY <1>2, <1>3, Dropped
  <2> TAKE i \in 1 .. Len(q')
  <2>2. i \in 1 .. Len(q) - n /\ i + n \in 1 .. Len(q)
    BY <1>2, <1>3, <2>1
  <2> QED
    BY <2>1, <2>2
<1>5. \A i, j \in 1 .. Len(sent) : sent[i] = sent[j] => i = j
  BY DEF StreamInv, SendInv, Under
<1>6. Under' = Under
  BY DEF Under
<1>7. Under # NotSending => \A i \in 1 .. Len(q') : q'[i].msg = Under.msg =>
                              /\ q'[i].part # "body"
                              /\ Under.part = "head" => q'[i].part # "head"
  <2>1. Under # NotSending => \A i \in 1 .. Len(q) : q[i].msg = Under.msg =>
                                /\ q[i].part # "body"
                                /\ Under.part = "head" => q[i].part # "head"
    BY DEF StreamInv, SendInv, Under
  <2> HIDE DEF q
  <2> QED
    BY <1>4, <2>1
<1>8. /\ owner # NoSender => Under # NotSending
      /\ Under # NotSending => /\ sent # <<>> /\ Under.msg = sent[Len(sent)]
                               /\ Under.part = "body" => BodyLen[Under.msg] > 0
  BY DEF StreamInv, SendInv, Under
<1> QED
  BY <1>1, <1>5, <1>6, <1>7, <1>8 DEF SendInv, Under

LEMMA DropNone ==
  ASSUME NEW S, NEW s \in Seq(S)
  PROVE  Drop(s, 0) = s /\ SubSeq(s, 1, 0) = <<>> /\ s \o SubSeq(s, 1, 0) = s
<1>1. Drop(s, 0) = s
  BY DEF Drop
<1>2. SubSeq(s, 1, 0) = <<>>
  OBVIOUS
<1> QED
  BY <1>1, <1>2, ConcatEmptySeq

LEMMA NothingOf ==
  ASSUME NEW m \in Msgs, NEW part \in Parts
  PROVE  SubSeq(Bytes(m, part), 1, 0) = <<>>
<1>1. Bytes(m, part) \in Seq(Byte)
  BY BytesOf
<1> QED
  BY <1>1, DropNone

LEMMA RecvSizeKeeps ==
  ASSUME TypeOK, StreamInv, RecvSize
  PROVE  StreamInv'
<1> DEFINE n == Smaller(SizeLen, Len(inbuf))
           got == SubSeq(inbuf, 1, n)
           x == [msg |-> Frame, part |-> "size", pos |-> 1]
<1>1. reader = "size" /\ UNCHANGED <<conn, breaks, sender, owner, sent, wire, pb_head_, done>>
  BY DEF RecvSize, linkVars, sendVars
<1>2. /\ inbuf \in Seq(Byte) /\ wire \in Seq(Byte) /\ sent \in Seq(Msgs)
      /\ Len(inbuf) \in Nat /\ done \in Nat /\ Len(sent) \in Nat /\ done <= Len(sent)
      /\ head_.size \in Nat /\ conn
      /\ Stream(sent, OnWay, Cursor, Writer)
  BY <1>1, Reading DEF StreamInv, ReaderInv
<1>3. CASE head_.size > 0
  <2>1. reader' = "head" /\ UNCHANGED <<inbuf, head_, msg_>>
    BY <1>2, <1>3 DEF RecvSize
  <2>2. OnWay' = OnWay /\ Cursor' = Cursor /\ Writer' = Writer
    BY <1>1, <2>1 DEF OnWay, Cursor, Writer, Under
  <2> QED
    BY <1>1, <1>2, <1>3, <2>1, <2>2
      DEF StreamInv, ReaderInv, SendInv, CutInv, FrameInv, HeaderFull, Recved, Frame, FirstFrame, Under
<1>4. CASE head_.size = 0 /\ inbuf = <<>>
  <2>1. head_ = Empty /\ msg_ = Empty
    BY <1>4 DEF StreamInv, ReaderInv
  <2>2. reader' = "idle" /\ UNCHANGED <<inbuf, head_, msg_>>
    BY <1>4, <2>1 DEF RecvSize, Clear
  <2>3. OnWay' = OnWay /\ Cursor' = Cursor /\ Writer' = Writer
    BY <1>1, <2>2 DEF OnWay, Cursor, Writer, Under
  <2> QED
    BY <1>1, <1>2, <1>4, <2>1, <2>2, <2>3
      DEF StreamInv, ReaderInv, SendInv, CutInv, FrameInv, HeaderFull, Recved, Frame, FirstFrame, Under
<1>5. CASE head_.size = 0 /\ inbuf # <<>>
  <2>1. /\ inbuf' = Drop(inbuf, n) /\ head_' = [size |-> HeadLen, data |-> <<>>]
        /\ reader' = IF got = SubSeq(Bytes(got[1].msg, "size"), 1, n) THEN "head" ELSE "lost"
        /\ msg_' = msg_ /\ msg_ = Empty
    <3>1. msg_ = Empty
      BY <1>5 DEF StreamInv, ReaderInv
    <3>2. ~(head_.size > 0)
      BY <1>5
    <3> QED
      BY <1>5, <3>1, <3>2 DEF RecvSize
  <2>2. /\ 1 \in 1 .. Len(inbuf) /\ Len(OnWay) = Len(inbuf) + Len(wire) /\ OnWay # <<>>
        /\ OnWay[1] = inbuf[1] /\ inbuf[1] \in Byte
    <3>1. 1 \in 1 .. Len(inbuf)
      BY <1>2, <1>5
    <3>2. /\ OnWay \in Seq(Byte) /\ Len(OnWay) = Len(inbuf) + Len(wire)
          /\ OnWay[1] = inbuf[1] /\ 1 \in 1 .. Len(OnWay)
      BY <1>2, <3>1, Way DEF OnWay
    <3> HIDE DEF OnWay
    <3> QED
      BY <1>2, <3>1, <3>2
  <2>3. Cursor = First(sent, done + 1) /\ Cursor = inbuf[1]
    BY <1>2, <1>5, <2>2 DEF Cursor, CursorOf, Stream
  <2>4. done + 1 \in 1 .. Len(sent)
    <3>1. End \notin Byte
      BY DEF End, Byte
    <3> QED
      BY <2>2, <2>3, <3>1 DEF First
  <2>5. Cursor = x /\ Frame \in Msgs
    BY <1>2, <2>3, <2>4 DEF First, Frame
  <2>6. /\ SizeLen \in Nat /\ SizeLen > 0 /\ HeadLen \in Nat /\ HeadLen > 0
        /\ Length(Frame, "size") = SizeLen /\ "size" \in Parts /\ "head" \in Parts
        /\ Cursor.msg = Frame /\ Cursor.part = "size" /\ Cursor.pos = 1
    BY <2>5, Lengths DEF Length, Parts
  <2>7. SizeLen <= Len(inbuf)
    <3> SUFFICES ASSUME Len(inbuf) < SizeLen
                 PROVE  FALSE
      BY <1>2, <2>6
    <3>1. Cursor.pos + Len(inbuf) <= Length(Cursor.msg, Cursor.part)
      BY <1>2, <2>6
    <3>2. wire # <<>> /\ wire[1].part = "size" /\ wire[1].pos = 1 + Len(inbuf)
      BY <1>1, <2>2, <2>6, <3>1, PartGoesOn
    <3>3. wire[1].pos = 1
      BY <3>2 DEF StreamInv, CutInv, Under
    <3> QED
      BY <1>2, <2>2, <3>2, <3>3
  <2>8. n = SizeLen /\ n \in 1 .. Len(inbuf) /\ n \in 0 .. Len(inbuf)
    BY <1>2, <2>6, <2>7 DEF Smaller
  <2>9. Cursor.pos + n - 1 <= Length(Cursor.msg, Cursor.part)
        /\ ~(Cursor.pos + n - 1 < Length(Cursor.msg, Cursor.part))
        /\ Cursor.pos + n - 1 = SizeLen
    BY <2>6, <2>8
  <2> HIDE DEF n
  <2>10. /\ \A i \in 1 .. n :
              inbuf[i] = [msg |-> Cursor.msg, part |-> Cursor.part, pos |-> Cursor.pos + i - 1]
         /\ \A y : Leads(sent, [msg |-> Cursor.msg, part |-> Cursor.part,
                                pos |-> Cursor.pos + n - 1], y)
                   => Stream(sent, Drop(inbuf, n) \o wire, y, Writer)
    BY <1>1, <2>8, <2>9, TakeBytes
  <2>11. got = SubSeq(Bytes(got[1].msg, "size"), 1, n)
    <3>1. \A i \in 1 .. n : inbuf[i] = [msg |-> Frame, part |-> "size", pos |-> i]
      BY <2>6, <2>8, <2>10
    <3>2. /\ Bytes(Frame, "size") \in Seq(Byte) /\ Len(Bytes(Frame, "size")) = SizeLen
          /\ \A i \in 1 .. SizeLen :
               Bytes(Frame, "size")[i] = [msg |-> Frame, part |-> "size", pos |-> i]
      BY <2>5, <2>6, BytesOf
    <3>3. got \in Seq(Byte) /\ Len(got) = n /\ \A i \in 1 .. n : got[i] = inbuf[i]
      BY <1>2, <2>8, Taken
    <3>4. got[1].msg = Frame
      <4>1. 1 \in 1 .. n
        BY <2>6, <2>8
      <4> HIDE DEF got
      <4>2. got[1] = inbuf[1] /\ inbuf[1] = [msg |-> Frame, part |-> "size", pos |-> 1]
        BY <3>1, <3>3, <4>1
      <4> QED
        BY <4>2
    <3> DEFINE b == Bytes(Frame, "size")
               r == SubSeq(b, 1, n)
    <3>5. r \in Seq(Byte) /\ Len(r) = n /\ \A i \in 1 .. n : r[i] = b[i]
      <4> n \in 0 .. Len(b)
        BY <2>6, <2>8, <3>2
      <4> HIDE DEF b
      <4> QED
        BY <3>2, Taken DEF b
    <3> HIDE DEF got, b, r
    <3>6. got = r
      <4>1. \A i \in 1 .. n : i \in 1 .. SizeLen
        BY <2>6, <2>8
      <4>2. \A i \in 1 .. n : got[i] = r[i]
        BY <3>1, <3>2, <3>3, <3>5, <4>1 DEF b
      <4>3. Len(got) = n /\ Len(r) = n /\ got \in Seq(Byte) /\ r \in Seq(Byte)
        BY <3>3, <3>5
      <4> QED
        BY <4>2, <4>3, SeqEqual
    <3> QED
      BY <3>4, <3>6 DEF r, b, got
  <2>12. reader' = "head"
    BY <2>1, <2>11
  <2>13. Cursor' = [msg |-> Frame, part |-> "head", pos |-> 1]
    <3>1. head_'.size = HeadLen /\ Len(head_'.data) = 0
      BY <2>1
    <3> QED
      BY <1>1, <2>6, <3>1 DEF Cursor, CursorOf, Frame
  <2>14. FrameInv'
    <3>1. Leads(sent, [msg |-> Cursor.msg, part |-> Cursor.part, pos |-> Cursor.pos + n - 1],
                Cursor')
      BY <2>6, <2>13 DEF Leads
    <3>2. Stream(sent, Drop(inbuf, n) \o wire, Cursor', Writer)
      BY <2>10, <3>1
    <3>3. OnWay' = Drop(inbuf, n) \o wire /\ Writer' = Writer
      BY <1>1, <2>1 DEF OnWay, Writer, n, Under
    <3> QED
      BY <1>1, <3>2, <3>3 DEF FrameInv
  <2>15. SendInv'
    BY <1>1, <2>1, <2>8, TakeKeepsSend DEF n
  <2>16. CutInv'
    BY <1>1 DEF StreamInv, CutInv, FirstFrame, Under
  <2>17. ReaderInv'
    <3>1. head_'.size = HeadLen /\ Len(head_'.data) = 0 /\ head_'.data = <<>>
      BY <2>1
    <3>2. head_'.data = SubSeq(Bytes(Frame', "head"), 1, Len(head_'.data))
      <4>1. Frame' = Frame
        BY <1>1 DEF Frame
      <4> QED
        BY <2>5, <2>6, <3>1, <4>1, NothingOf
    <3>3. ~HeaderFull'
      BY <2>6, <3>1 DEF HeaderFull
    <3>4. done < Len(sent)
      BY <1>2, <2>4
    <3>5. (pb_head_ = NoMsg => done = 0) /\ reader' # "lost" /\ done <= Len(sent)
      BY <2>12 DEF StreamInv, ReaderInv
    <3>6. /\ (pb_head_' = NoMsg => done' = 0) /\ reader' # "lost" /\ done' <= Len(sent')
          /\ done' < Len(sent') /\ ~(head_'.size = 0) /\ head_'.size = HeadLen
          /\ msg_' = Empty /\ reader' = "head"
      <4>1. msg_' = Empty /\ reader' = "head"
        BY <2>1, <2>12
      <4>2. head_'.size = HeadLen /\ ~(head_'.size = 0)
        BY <2>6, <3>1
      <4>3. done' = done /\ sent' = sent /\ pb_head_' = pb_head_
        BY <1>1
      <4>4. reader' # "lost"
        BY <4>1
      <4> QED
        BY <3>4, <3>5, <4>1, <4>2, <4>3, <4>4
    <3> QED
      BY <3>2, <3>3, <3>6 DEF ReaderInv
  <2> QED
    BY <2>14, <2>15, <2>16, <2>17 DEF StreamInv
<1> QED
  BY <1>2, <1>3, <1>4, <1>5

\* The cursor in a header or a body, and the bytes that come from there.
LEMMA InHeader ==
  ASSUME TypeOK, StreamInv, head_.size > 0, ~HeaderFull
  PROVE  /\ Cursor = [msg |-> Frame, part |-> "head", pos |-> Len(head_.data) + 1]
         /\ Len(head_.data) < HeadLen /\ msg_ = Empty
         /\ head_.data = SubSeq(Bytes(Frame, "head"), 1, Len(head_.data))
         /\ Length(Frame, "head") = HeadLen /\ "head" \in Parts /\ HeadLen \in Nat
<1>1. Len(head_.data) < HeadLen /\ head_.size = HeadLen /\ ~(head_.size = 0)
  BY Reading DEF HeaderFull
<1>2. msg_ = Empty /\ head_.data = SubSeq(Bytes(Frame, "head"), 1, Len(head_.data))
  BY DEF StreamInv, ReaderInv
<1> QED
  BY <1>1, <1>2, Lengths DEF Cursor, CursorOf, Frame, Length, Parts

LEMMA InBody ==
  ASSUME TypeOK, StreamInv, head_.size > 0, HeaderFull, ~Recved(msg_)
  PROVE  /\ Cursor = [msg |-> Frame, part |-> "body", pos |-> Len(msg_.data) + 1]
         /\ Len(msg_.data) < BodyLen[Frame] /\ msg_.size = BodyLen[Frame] /\ pb_head_ = Frame
         /\ msg_.data = SubSeq(Bytes(Frame, "body"), 1, Len(msg_.data))
         /\ Length(Frame, "body") = BodyLen[Frame] /\ "body" \in Parts /\ BodyLen[Frame] \in Nat
<1>1. /\ msg_.size = BodyLen[Frame] /\ pb_head_ = Frame
      /\ msg_.data = SubSeq(Bytes(Frame, "body"), 1, Len(msg_.data))
  BY DEF StreamInv, ReaderInv
<1>2. Len(msg_.data) < BodyLen[Frame] /\ BodyLen[Frame] \in Nat
  BY <1>1, Reading, Lengths DEF Recved
<1>3. ~(head_.size = 0) /\ ~(Len(head_.data) < head_.size)
  BY Reading DEF HeaderFull
<1> QED
  BY <1>1, <1>2, <1>3 DEF Cursor, CursorOf, Frame, Length, Parts

\* Bytes of the header or the body are taken over.
LEMMA TakePart ==
  ASSUME TypeOK, StreamInv, reader # "idle", NEW n \in 0 .. Len(inbuf),
         NEW part \in {"head", "body"}, NEW data \in Seq(Byte), Frame \in Msgs,
         data = SubSeq(Bytes(Frame, part), 1, Len(data)),
         Cursor = [msg |-> Frame, part |-> part, pos |-> Len(data) + 1],
         Len(data) + n <= Length(Frame, part), Len(data) < Length(Frame, part)
  PROVE  /\ data \o SubSeq(inbuf, 1, n) = SubSeq(Bytes(Frame, part), 1, Len(data) + n)
         /\ Len(data \o SubSeq(inbuf, 1, n)) = Len(data) + n
         /\ \A i \in 1 .. n :
              inbuf[i] = [msg |-> Frame, part |-> part, pos |-> Len(data) + i]
         /\ \A y : (IF Len(data) + n < Length(Frame, part)
                    THEN y = [msg |-> Frame, part |-> part, pos |-> Len(data) + n + 1]
                    ELSE Leads(sent, [msg |-> Frame, part |-> part, pos |-> Len(data) + n], y))
                   => Stream(sent, Drop(inbuf, n) \o wire, y, Writer)
<1> DEFINE k == Len(data)
           len == Length(Frame, part)
<1>1. /\ inbuf \in Seq(Byte) /\ wire \in Seq(Byte) /\ part \in Parts /\ k \in Nat /\ len \in Nat
      /\ n \in Nat /\ k + n <= len /\ k < len /\ Stream(sent, OnWay, Cursor, Writer)
      /\ Len(inbuf) \in Nat
  <2>1. inbuf \in Seq(Byte) /\ wire \in Seq(Byte) /\ Stream(sent, OnWay, Cursor, Writer)
    BY Reading
  <2>2. part \in Parts
    BY DEF Parts
  <2>3. len \in Nat
    BY <2>2, BytesOf
  <2> QED
    BY <2>1, <2>2, <2>3
<1>2. Cursor.msg = Frame /\ Cursor.part = part /\ Cursor.pos = k + 1
  OBVIOUS
<1>3. CASE n = 0
  <2>1. \A i \in 1 .. n : inbuf[i] = [msg |-> Frame, part |-> part, pos |-> k + i]
    BY <1>3
  <2>2. Drop(inbuf, n) = inbuf /\ data \o SubSeq(inbuf, 1, n) = data /\ k + n = k
    BY <1>1, <1>3, ConcatEmptySeq, DropNone
  <2>3. \A y : (IF k + n < len
                THEN y = [msg |-> Frame, part |-> part, pos |-> k + n + 1]
                ELSE Leads(sent, [msg |-> Frame, part |-> part, pos |-> k + n], y))
               => Stream(sent, Drop(inbuf, n) \o wire, y, Writer)
    <3>1. k + n < len /\ [msg |-> Frame, part |-> part, pos |-> k + n + 1] = Cursor
      BY <1>1, <1>3
    <3>2. Stream(sent, Drop(inbuf, n) \o wire, Cursor, Writer)
      BY <1>1, <2>2 DEF OnWay
    <3> QED
      BY <3>1, <3>2
  <2> QED
    BY <2>1, <2>2, <2>3
<1>4. CASE n # 0
  <2>1. n \in 1 .. Len(inbuf) /\ Cursor.pos + n - 1 = k + n
    BY <1>1, <1>2, <1>4
  <2>2. Cursor.pos + n - 1 <= Length(Cursor.msg, Cursor.part)
    BY <1>1, <1>2, <2>1
  <2> HIDE DEF k, len
  <2>3. /\ \A i \in 1 .. n :
             inbuf[i] = [msg |-> Cursor.msg, part |-> Cursor.part, pos |-> Cursor.pos + i - 1]
        /\ \A y : (IF Cursor.pos + n - 1 < Length(Cursor.msg, Cursor.part)
                    THEN y = [msg |-> Cursor.msg, part |-> Cursor.part, pos |-> Cursor.pos + n]
                    ELSE Leads(sent, [msg |-> Cursor.msg, part |-> Cursor.part,
                                      pos |-> Cursor.pos + n - 1], y))
                   => Stream(sent, Drop(inbuf, n) \o wire, y, Writer)
    BY <2>1, <2>2, TakeBytes
  <2>4. \A i \in 1 .. n : inbuf[i] = [msg |-> Frame, part |-> part, pos |-> k + i]
    <3> TAKE i \in 1 .. n
    <3>1. Cursor.pos + i - 1 = k + i
      <4>1. Cursor.pos = k + 1
        BY <1>2
      <4>2. (k + 1) + i - 1 = k + i
        BY <1>1
      <4> QED
        BY <4>1, <4>2, Zenon
    <3>2. inbuf[i] = [msg |-> Cursor.msg, part |-> Cursor.part, pos |-> Cursor.pos + i - 1]
      BY <2>3
    <3> QED
      BY <1>2, <3>1, <3>2
  <2>5. \A y : (IF k + n < len
                THEN y = [msg |-> Frame, part |-> part, pos |-> k + n + 1]
                ELSE Leads(sent, [msg |-> Frame, part |-> part, pos |-> k + n], y))
               => Stream(sent, Drop(inbuf, n) \o wire, y, Writer)
    <3>1. Cursor.pos + n = k + n + 1
      <4>1. Cursor.pos = k + 1
        BY <1>2
      <4>2. (k + 1) + n = k + n + 1
        BY <1>1
      <4> QED
        BY <4>1, <4>2, Zenon
    <3> QED
      BY <1>2, <2>1, <2>3, <3>1 DEF len
  <2>6. data \o SubSeq(inbuf, 1, n) = SubSeq(Bytes(Frame, part), 1, k + n)
    BY <1>1, <2>1, <2>4, Piece DEF k, len
  <2>7. Len(data \o SubSeq(inbuf, 1, n)) = k + n
    <3>1. SubSeq(inbuf, 1, n) \in Seq(Byte) /\ Len(SubSeq(inbuf, 1, n)) = n
      BY <1>1, Taken
    <3> QED
      BY <3>1, ConcatProperties DEF k
  <2> QED
    BY <2>4, <2>5, <2>6, <2>7 DEF k, len
<1> QED
  BY <1>3, <1>4

LEMMA RecvBodyKeeps ==
  ASSUME TypeOK, StreamInv, RecvBody
  PROVE  StreamInv'
<1> DEFINE n == Smaller(msg_.size - Len(msg_.data), Len(inbuf))
           k == Len(msg_.data)
           got == msg_.data \o SubSeq(inbuf, 1, n)
           len == BodyLen[Frame]
<1>1. /\ reader = "body" /\ reader' = "get" /\ inbuf' = Drop(inbuf, n)
      /\ msg_' = [msg_ EXCEPT !.data = got]
      /\ UNCHANGED <<conn, breaks, sender, owner, sent, wire, head_, pb_head_, done>>
  BY DEF RecvBody, linkVars, sendVars
<1>2. /\ inbuf \in Seq(Byte) /\ sent \in Seq(Msgs) /\ Len(inbuf) \in Nat /\ k \in Nat
      /\ head_.size > 0 /\ Frame \in Msgs /\ msg_ \in Buffer /\ msg_.data \in Seq(Byte)
      /\ done \in Nat /\ Len(sent) \in Nat /\ done + 1 \in 1 .. Len(sent) /\ conn
  BY <1>1, Reading
<1>3. HeaderFull /\ ~Recved(msg_)
  BY <1>1, <1>2 DEF StreamInv, ReaderInv
<1>4. /\ Cursor = [msg |-> Frame, part |-> "body", pos |-> k + 1]
      /\ k < len /\ msg_.size = len /\ pb_head_ = Frame
      /\ msg_.data = SubSeq(Bytes(Frame, "body"), 1, k)
      /\ Length(Frame, "body") = len /\ "body" \in Parts /\ len \in Nat
  BY <1>2, <1>3, InBody
<1>5. n \in 0 .. Len(inbuf) /\ n <= len - k /\ (n = len - k \/ n = Len(inbuf))
  <2>1. n = Smaller(len - k, Len(inbuf)) /\ len - k \in Nat
    BY <1>2, <1>4
  <2> DEFINE d == len - k
             l == Len(inbuf)
  <2>2. d \in Nat /\ l \in Nat /\ n = Smaller(d, l)
    BY <1>2, <2>1
  <2> HIDE DEF n, d, l
  <2>3. n \in 0 .. d /\ n \in 0 .. l /\ (n = d \/ n = l)
    BY <2>2, TheSmaller
  <2> QED
    BY <2>2, <2>3 DEF d, l
<1> HIDE DEF n, len
<1>6. /\ got = SubSeq(Bytes(Frame, "body"), 1, k + n) /\ Len(got) = k + n
      /\ \A y : (IF k + n < len
                 THEN y = [msg |-> Frame, part |-> "body", pos |-> k + n + 1]
                 ELSE Leads(sent, [msg |-> Frame, part |-> "body", pos |-> k + n], y))
                => Stream(sent, Drop(inbuf, n) \o wire, y, Writer)
  <2>1. k + n <= Length(Frame, "body") /\ k < Length(Frame, "body")
    BY <1>2, <1>4, <1>5
  <2> QED
    BY <1>1, <1>2, <1>4, <1>5, <2>1, TakePart
<1> HIDE DEF got
<1>7. msg_'.size = len /\ msg_'.data = got
  BY <1>1, <1>2, <1>4 DEF Buffer
<1>8. ~(head_.size = 0) /\ ~(Len(head_.data) < head_.size)
  <2>1. head_.size \in Nat /\ Len(head_.data) = head_.size
    BY <1>3, Reading DEF HeaderFull
  <2> QED
    BY <1>2, <2>1
<1>9. Cursor' = IF k + n < len
                THEN [msg |-> Frame, part |-> "body", pos |-> k + n + 1]
                ELSE First(sent, done + 2)
  BY <1>1, <1>6, <1>7, <1>8 DEF Cursor, CursorOf, Frame
<1>10. Leads(sent, [msg |-> Frame, part |-> "body", pos |-> k + n], First(sent, done + 2))
  <2>1. (done + 1) + 1 = done + 2
    BY <1>2
  <2> QED
    BY <1>2, <2>1 DEF Leads, Frame
<1>11. FrameInv'
  <2>1. Stream(sent, Drop(inbuf, n) \o wire, Cursor', Writer)
    BY <1>6, <1>9, <1>10
  <2> QED
    BY <1>1, <2>1 DEF FrameInv, OnWay, Writer, Under
<1>12. SendInv'
  BY <1>1, <1>5, TakeKeepsSend
<1>13. CutInv'
  BY <1>1 DEF StreamInv, CutInv, FirstFrame, Under
<1>14. ReaderInv'
  <2>1. HeaderFull' /\ Frame' = Frame
    BY <1>1, <1>3 DEF HeaderFull, Frame
  <2>2. msg_'.data = SubSeq(Bytes(Frame', "body"), 1, Len(msg_'.data))
    BY <1>6, <1>7, <2>1
  <2>3. ~Recved(msg_') => inbuf' = <<>>
    <3>1. Recved(msg_') <=> k + n = len
      BY <1>6, <1>7 DEF Recved
    <3>2. k + n # len => n = Len(inbuf)
      BY <1>2, <1>4, <1>5
    <3>3. n = Len(inbuf) => Len(Drop(inbuf, n)) = 0 /\ Drop(inbuf, n) \in Seq(Byte)
      BY <1>2, <1>5, Dropped
    <3> QED
      BY <1>1, <3>1, <3>2, <3>3
  <2>4. /\ done <= Len(sent) /\ (pb_head_ = NoMsg => done = 0) /\ done < Len(sent)
        /\ head_.size = HeadLen
        /\ head_.data = SubSeq(Bytes(Frame, "head"), 1, Len(head_.data))
    BY <1>2 DEF StreamInv, ReaderInv
  <2>5. /\ done' = done /\ sent' = sent /\ head_' = head_ /\ pb_head_' = pb_head_
        /\ reader' = "get" /\ ~(head_'.size = 0) /\ msg_'.size = BodyLen[Frame']
    BY <1>1, <1>7, <1>8, <2>1 DEF len
  <2> QED
    BY <1>4, <2>1, <2>2, <2>3, <2>4, <2>5 DEF ReaderInv
<1> QED
  BY <1>11, <1>12, <1>13, <1>14 DEF StreamInv

LEMMA RecvHeadKeeps ==
  ASSUME TypeOK, StreamInv, RecvHead
  PROVE  StreamInv'
<1> DEFINE n == Smaller(head_.size - Len(head_.data), Len(inbuf))
           k == Len(head_.data)
           got == head_.data \o SubSeq(inbuf, 1, n)
<1>1. /\ reader = "head" /\ inbuf' = Drop(inbuf, n)
      /\ head_' = [head_ EXCEPT !.data = got]
      /\ UNCHANGED <<conn, breaks, sender, owner, sent, wire, done>>
  BY DEF RecvHead, linkVars, sendVars
<1>2. /\ inbuf \in Seq(Byte) /\ wire \in Seq(Byte) /\ sent \in Seq(Msgs)
      /\ Len(inbuf) \in Nat /\ k \in Nat
      /\ head_.size > 0 /\ head_.size \in Nat /\ k <= head_.size /\ head_.size = HeadLen
      /\ Frame \in Msgs /\ head_ \in Buffer /\ head_.data \in Seq(Byte)
      /\ done \in Nat /\ Len(sent) \in Nat /\ done < Len(sent) /\ done + 1 \in 1 .. Len(sent) /\ conn
      /\ Stream(sent, OnWay, Cursor, Writer)
  BY <1>1, Reading
<1>3. n \in 0 .. Len(inbuf) /\ n <= head_.size - k /\ (n = head_.size - k \/ n = Len(inbuf))
  <2> DEFINE d == head_.size - k
             l == Len(inbuf)
  <2>1. d \in Nat /\ l \in Nat /\ n = Smaller(d, l)
    BY <1>2
  <2> HIDE DEF n, d, l
  <2>2. n \in 0 .. d /\ n \in 0 .. l /\ (n = d \/ n = l)
    BY <2>1, TheSmaller
  <2> QED
    BY <2>1, <2>2 DEF d, l
<1>4. Frame' = Frame
  BY <1>1 DEF Frame
<1>5. CASE HeaderFull
  <2>1. n = 0 /\ k = head_.size
    <3>1. k = head_.size
      BY <1>5 DEF HeaderFull
    <3> HIDE DEF n, k
    <3> QED
      BY <1>2, <1>3, <3>1
  <2>2. got = head_.data /\ inbuf' = inbuf
    BY <1>1, <1>2, <2>1, DropNone, ConcatEmptySeq
  <2>3. head_' = head_
    BY <1>1, <1>2, <2>2 DEF Buffer
  <2>4. reader' = "body" /\ msg_' = msg_ /\ pb_head_' = pb_head_
    <3>1. ~(Len(got) < head_.size)
      BY <1>2, <2>1, <2>2
    <3>2. Recved(head_)
      BY <1>5 DEF HeaderFull, Recved
    <3> HIDE DEF got
    <3> QED
      BY <3>1, <3>2 DEF RecvHead, got
  <2>5. OnWay' = OnWay /\ Cursor' = Cursor /\ Writer' = Writer
    BY <1>1, <2>2, <2>3, <2>4 DEF OnWay, Cursor, Writer, Under
  <2>6. ReaderInv'
    <3>1. ~Recved(msg_)
      BY <1>1, <1>2, <1>5 DEF StreamInv, ReaderInv
    <3>2. HeaderFull'
      BY <1>5, <2>3 DEF HeaderFull
    <3>3. ~(head_.size = 0)
      BY <1>2
    <3> HIDE DEF k, n, got
    <3> QED
      BY <1>1, <1>4, <1>5, <2>3, <2>4, <3>1, <3>2, <3>3 DEF StreamInv, ReaderInv, Recved
  <2>7. SendInv' /\ CutInv' /\ FrameInv'
    BY <1>1, <1>2, <2>2, <2>4, <2>5 DEF StreamInv, SendInv, CutInv, FrameInv, FirstFrame, Under
  <2> QED
    BY <2>6, <2>7 DEF StreamInv
<1>6. CASE ~HeaderFull
  <2>1. /\ Cursor = [msg |-> Frame, part |-> "head", pos |-> k + 1]
        /\ k < HeadLen /\ msg_ = Empty
        /\ head_.data = SubSeq(Bytes(Frame, "head"), 1, k)
        /\ Length(Frame, "head") = HeadLen /\ "head" \in Parts /\ HeadLen \in Nat
    BY <1>2, <1>6, InHeader
  <2> HIDE DEF n
  <2>2. /\ got = SubSeq(Bytes(Frame, "head"), 1, k + n) /\ Len(got) = k + n
        /\ \A i \in 1 .. n : inbuf[i] = [msg |-> Frame, part |-> "head", pos |-> k + i]
        /\ \A y : (IF k + n < HeadLen
                   THEN y = [msg |-> Frame, part |-> "head", pos |-> k + n + 1]
                   ELSE Leads(sent, [msg |-> Frame, part |-> "head", pos |-> k + n], y))
                  => Stream(sent, Drop(inbuf, n) \o wire, y, Writer)
    <3>1. k + n <= Length(Frame, "head") /\ k < Length(Frame, "head")
      BY <1>2, <1>3, <2>1
    <3>2. /\ reader # "idle" /\ n \in 0 .. Len(inbuf) /\ head_.data \in Seq(Byte)
          /\ "head" \in {"head", "body"} /\ Frame \in Msgs
      BY <1>1, <1>2, <1>3, <2>1
    <3>3. /\ head_.data = SubSeq(Bytes(Frame, "head"), 1, Len(head_.data))
          /\ Cursor = [msg |-> Frame, part |-> "head", pos |-> Len(head_.data) + 1]
          /\ Len(head_.data) + n <= Length(Frame, "head")
          /\ Len(head_.data) < Length(Frame, "head")
      BY <2>1, <3>1
    <3>4. /\ got = SubSeq(Bytes(Frame, "head"), 1, k + n) /\ Len(got) = k + n
          /\ \A i \in 1 .. n : inbuf[i] = [msg |-> Frame, part |-> "head", pos |-> k + i]
          /\ \A y : (IF k + n < Length(Frame, "head")
                     THEN y = [msg |-> Frame, part |-> "head", pos |-> k + n + 1]
                     ELSE Leads(sent, [msg |-> Frame, part |-> "head", pos |-> k + n], y))
                    => Stream(sent, Drop(inbuf, n) \o wire, y, Writer)
      BY <3>2, <3>3, TakePart
    <3> QED
      BY <2>1, <3>4
  <2> HIDE DEF got, k
  <2>3. head_'.size = HeadLen /\ head_'.data = got /\ ~(head_'.size = 0)
    BY <1>1, <1>2 DEF Buffer
  <2>4. ~Recved(head_) /\ k # head_.size
    BY <1>6 DEF HeaderFull, Recved, k
  <2>5. SendInv'
    BY <1>1, <1>3, TakeKeepsSend
  <2>6. head_'.data = SubSeq(Bytes(Frame', "head"), 1, Len(head_'.data))
    BY <1>4, <2>2, <2>3
  <2>7. OnWay' = Drop(inbuf, n) \o wire /\ Writer' = Writer
    BY <1>1 DEF OnWay, Writer, Under
  <2>8. CASE k + n < HeadLen
    <3>1. reader' = "get" /\ msg_' = msg_ /\ pb_head_' = pb_head_
      <4>1. Len(got) < head_.size /\ Len(got) # head_.size
        BY <1>2, <1>3, <2>2, <2>8
      <4> QED
        BY <2>4, <4>1 DEF RecvHead, got, n
    <3>2. Len(inbuf) = n /\ inbuf' = <<>>
      <4>1. n = Len(inbuf)
        BY <1>2, <1>3, <2>1, <2>8
      <4>2. Len(Drop(inbuf, n)) = 0 /\ Drop(inbuf, n) \in Seq(Byte)
        BY <1>2, <1>3, <4>1, Dropped
      <4> QED
        BY <1>1, <4>1, <4>2
    <3>3. pb_head_ = NoMsg
      <4>1. CASE OnWay # <<>>
        <5>1. Cursor.pos + Len(inbuf) <= Length(Cursor.msg, Cursor.part)
          <6>1. Cursor.msg = Frame /\ Cursor.part = "head" /\ Cursor.pos = k + 1
            BY <2>1
          <6>2. (k + 1) + n <= HeadLen
            BY <1>2, <1>3, <2>1, <2>8
          <6> QED
            BY <2>1, <3>2, <6>1, <6>2
        <5>2. wire # <<>> /\ wire[1].part = "head"
          BY <1>1, <2>1, <4>1, <5>1, PartGoesOn
        <5> QED
          BY <5>2 DEF StreamInv, CutInv, FirstFrame, Under
      <4>2. CASE OnWay = <<>>
        <5>1. Cursor = Writer
          BY <1>2, <4>2 DEF Stream
        <5>2. Writer.part = "head"
          BY <2>1, <5>1
        <5>4. Under.part = "head"
          BY <5>2 DEF Writer, WriterOf, End
        <5>5. wire = <<>>
          <6>1. Len(OnWay) = Len(inbuf) + Len(wire) /\ Len(wire) \in Nat
            BY <1>2, ConcatProperties DEF OnWay
          <6> HIDE DEF OnWay
          <6> QED
            BY <1>2, <4>2, <6>1
        <5> QED
          BY <5>4, <5>5 DEF StreamInv, CutInv, FirstFrame
      <4> QED
        BY <4>1, <4>2
    <3>4. Cursor' = [msg |-> Frame, part |-> "head", pos |-> k + n + 1]
      <4>1. Len(head_'.data) = k + n /\ Len(head_'.data) < head_'.size
        BY <2>2, <2>3, <2>8
      <4> QED
        BY <1>4, <2>3, <4>1 DEF Cursor, CursorOf, Frame
    <3>5. FrameInv'
      <4>1. Stream(sent, Drop(inbuf, n) \o wire, Cursor', Writer)
        BY <2>2, <2>8, <3>4
      <4> QED
        BY <1>1, <2>7, <4>1 DEF FrameInv
    <3>6. CutInv'
      BY <1>1, <3>1 DEF StreamInv, CutInv, FirstFrame, Under
    <3>7. ReaderInv'
      <4>1. ~HeaderFull'
        <5>1. Len(head_'.data) # head_'.size
          BY <1>2, <1>3, <2>1, <2>2, <2>3, <2>8
        <5> QED
          BY <5>1 DEF HeaderFull
      <4>2. /\ done' = done /\ sent' = sent /\ done <= Len(sent) /\ done < Len(sent)
            /\ pb_head_ = NoMsg => done = 0
        BY <1>1, <1>2 DEF StreamInv, ReaderInv
      <4>3. msg_' = Empty
        BY <2>1, <3>1
      <4>4. reader' = "get" /\ reader' # "lost" /\ reader' # "body" /\ reader' # "idle"
            /\ reader' # "head" /\ pb_head_' = NoMsg
        BY <3>1, <3>3
      <4> QED
        BY <2>3, <2>6, <3>1, <3>2, <4>1, <4>2, <4>3, <4>4 DEF ReaderInv
    <3> QED
      BY <2>5, <3>5, <3>6, <3>7 DEF StreamInv
  <2>9. CASE ~(k + n < HeadLen)
    <3>1. k + n = HeadLen /\ n >= 1 /\ n \in 1 .. Len(inbuf) /\ n \in 1 .. n
      BY <1>2, <1>3, <2>1, <2>9 DEF k
    <3>2. got = Bytes(Frame, "head") /\ got[1].msg = Frame
      <4>1. /\ Bytes(Frame, "head") \in Seq(Byte) /\ Len(Bytes(Frame, "head")) = HeadLen
            /\ \A i \in 1 .. HeadLen :
                 Bytes(Frame, "head")[i] = [msg |-> Frame, part |-> "head", pos |-> i]
        BY <1>2, <2>1, BytesOf
      <4>2. got = Bytes(Frame, "head")
        BY <2>2, <3>1, <4>1
      <4>3. 1 \in 1 .. HeadLen
        BY <1>2
      <4>4. got[1] = [msg |-> Frame, part |-> "head", pos |-> 1]
        BY <4>1, <4>2, <4>3
      <4> QED
        BY <4>2, <4>4
    <3>3. /\ pb_head_' = Frame
          /\ msg_' = [size |-> BodyLen[Frame], data |-> <<>>]
          /\ reader' = IF BodyLen[Frame] = 0 THEN "get" ELSE "body"
      <4>1. ~(Len(got) < head_.size) /\ Len(got) = head_.size
        BY <1>2, <2>2, <3>1
      <4> QED
        BY <2>4, <3>2, <4>1 DEF RecvHead, got, n
    <3>4. BodyLen[Frame] \in Nat /\ pb_head_' # NoMsg
      BY <1>2, <3>3, Lengths
    <3>5. msg_'.size = BodyLen[Frame] /\ msg_'.data = <<>> /\ Len(msg_'.data) = 0
      BY <3>3
    <3>6. Len(head_'.data) = HeadLen /\ ~(Len(head_'.data) < head_'.size) /\ HeaderFull'
      BY <2>1, <2>2, <2>3, <3>1 DEF HeaderFull
    <3>7. Cursor' = IF BodyLen[Frame] > 0 THEN [msg |-> Frame, part |-> "body", pos |-> 1]
                                          ELSE First(sent, done + 2)
      <4>1. Cursor' = IF Len(msg_'.data) < msg_'.size
                      THEN [msg |-> Frame, part |-> "body", pos |-> Len(msg_'.data) + 1]
                      ELSE First(sent, done + 2)
        BY <1>1, <1>4, <2>3, <3>6 DEF Cursor, CursorOf, Frame
      <4> QED
        BY <3>4, <3>5, <4>1
    <3>8. Leads(sent, [msg |-> Frame, part |-> "head", pos |-> k + n], Cursor')
      <4>1. (done + 1) + 1 = done + 2 /\ sent[done + 1] = Frame
        BY <1>2 DEF Frame
      <4>2. CASE BodyLen[Frame] > 0
        BY <3>7, <4>2 DEF Leads
      <4>3. CASE ~(BodyLen[Frame] > 0)
        BY <1>2, <3>7, <4>1, <4>3 DEF Leads
      <4> QED
        BY <4>2, <4>3
    <3>9. FrameInv'
      <4>1. Stream(sent, Drop(inbuf, n) \o wire, Cursor', Writer)
        BY <2>2, <2>9, <3>8
      <4> QED
        BY <1>1, <2>7, <4>1 DEF FrameInv
    <3>10. CutInv'
      <4>1. inbuf[n] = [msg |-> Frame, part |-> "head", pos |-> HeadLen]
        BY <2>2, <3>1
      <4>2. /\ OnWay \in Seq(Byte) /\ Len(OnWay) = Len(inbuf) + Len(wire)
            /\ n \in 1 .. Len(OnWay) /\ OnWay[n] = inbuf[n]
            /\ \A i \in 1 .. Len(wire) : /\ Len(inbuf) + i \in 1 .. Len(OnWay)
                                         /\ OnWay[Len(inbuf) + i] = wire[i]
        BY <1>2, <3>1, Way DEF OnWay
      <4> HIDE DEF OnWay
      <4>3. pb_head_ = NoMsg => Frame = Head(sent)
        <5>1. pb_head_ = NoMsg => done = 0
          BY DEF StreamInv, ReaderInv
        <5> QED
          BY <1>2, <5>1 DEF Frame
      <4>4. ASSUME wire # <<>>
            PROVE  wire[1].part # "head"
        <5>1. SUFFICES ASSUME wire[1].part = "head"
                       PROVE  FALSE
          OBVIOUS
        <5>2. pb_head_ = NoMsg /\ wire[1].msg = Frame
          BY <4>3, <4>4, <5>1 DEF StreamInv, CutInv, FirstFrame, Under
        <5> DEFINE i == Len(inbuf) + 1
        <5>3. 1 \in 1 .. Len(wire) /\ i \in 1 .. Len(OnWay) /\ OnWay[i] = wire[1] /\ i \in Nat
          BY <1>2, <4>2, <4>4
        <5> HIDE DEF i
        <5>4. OnWay[i].pos \in Nat /\ OnWay[i].msg = Frame /\ OnWay[i].part = "head"
          BY <4>2, <5>1, <5>2, <5>3, ByteFields
        <5>5. /\ OnWay[i].pos <= Length(OnWay[i].msg, OnWay[i].part)
              /\ \A p \in OnWay[i].pos .. Length(OnWay[i].msg, OnWay[i].part) :
                   /\ i + (p - OnWay[i].pos) <= Len(OnWay)
                   /\ OnWay[i + (p - OnWay[i].pos)]
                        = [msg |-> OnWay[i].msg, part |-> OnWay[i].part, pos |-> p]
          BY <1>2, <5>3 DEF Stream, Runs
        <5> DEFINE d == HeadLen - OnWay[i].pos
        <5>6. d \in Nat /\ HeadLen \in OnWay[i].pos .. Length(OnWay[i].msg, OnWay[i].part)
          BY <2>1, <5>4, <5>5
        <5>7. i + d <= Len(OnWay) /\ OnWay[i + d] = [msg |-> Frame, part |-> "head", pos |-> HeadLen]
          BY <5>4, <5>5, <5>6
        <5> HIDE DEF d
        <5>8. i + d \in 1 .. Len(OnWay) /\ i + d # n
          BY <1>2, <1>3, <4>2, <5>3, <5>6, <5>7 DEF i
        <5>9. \A a, b \in 1 .. Len(OnWay) : OnWay[a] = OnWay[b] => a = b
          BY <1>2 DEF Stream
        <5> QED
          BY <4>1, <4>2, <5>7, <5>8, <5>9
      <4>5. ASSUME wire = <<>>, Under.part = "head"
            PROVE  FALSE
        <5>1. pb_head_ = NoMsg /\ Under.msg = Frame
          BY <4>3, <4>5 DEF StreamInv, CutInv, FirstFrame
        <5>2. Under # NotSending
          BY <4>5 DEF NotSending
        <5>3. \A j \in 1 .. Len(OnWay) : OnWay[j].msg = Frame => OnWay[j].part # "head"
          BY <4>5, <5>1, <5>2 DEF StreamInv, SendInv
        <5> QED
          BY <4>1, <4>2, <5>3
      <4>6. wire # <<>> /\ wire[1].part = "size" => wire[1].pos = 1
        BY DEF StreamInv, CutInv, Under
      <4> QED
        <5>1. Under' = Under
          BY <1>1 DEF Under
        <5> QED
          BY <1>1, <4>4, <4>5, <4>6, <5>1 DEF CutInv
    <3>11. ReaderInv'
      <4>1. /\ done' = done /\ sent' = sent /\ done <= Len(sent) /\ done < Len(sent)
        BY <1>1, <1>2
      <4>2. msg_'.data = SubSeq(Bytes(Frame', "body"), 1, Len(msg_'.data))
        <5>1. "body" \in Parts
          BY DEF Parts
        <5> QED
          BY <1>2, <1>4, <3>5, <5>1, NothingOf
      <4>3. Recved(msg_') <=> BodyLen[Frame] = 0
        BY <3>4, <3>5 DEF Recved
      <4>4. reader' # "lost" /\ reader' # "idle" /\ (Recved(msg_') <=> reader' = "get")
        BY <3>3, <4>3
      <4> QED
        BY <1>4, <2>3, <2>6, <3>3, <3>4, <3>5, <3>6, <4>1, <4>2, <4>4 DEF ReaderInv
    <3> QED
      BY <2>5, <3>9, <3>10, <3>11 DEF StreamInv
  <2> QED
    BY <2>8, <2>9
<1> QED
  BY <1>5, <1>6

\* What is dispatched is the frame that the reader is in, with its whole body.
LEMMA Whole ==
  ASSUME TypeOK, StreamInv, Dispatch
  PROVE  /\ head_.size > 0 /\ HeaderFull /\ pb_head_ = Frame
         /\ msg_.data = Bytes(Frame, "body")
<1>1. reader = "get" /\ pb_head_ # NoMsg /\ Recved(msg_)
  BY DEF Dispatch
<1>2. head_.size > 0 /\ Frame \in Msgs
  BY <1>1, Reading
<1>3. HeaderFull
  BY <1>1, <1>2 DEF StreamInv, ReaderInv
<1>4. /\ pb_head_ = Frame /\ msg_.size = BodyLen[Frame]
      /\ msg_.data = SubSeq(Bytes(Frame, "body"), 1, Len(msg_.data))
  BY <1>2, <1>3 DEF StreamInv, ReaderInv
<1>5. /\ Bytes(Frame, "body") \in Seq(Byte) /\ Len(Bytes(Frame, "body")) = Len(msg_.data)
  <2>1. "body" \in Parts /\ Length(Frame, "body") = BodyLen[Frame]
    BY DEF Parts, Length
  <2> QED
    BY <1>1, <1>2, <1>4, <2>1, BytesOf DEF Recved
<1>6. SubSeq(Bytes(Frame, "body"), 1, Len(Bytes(Frame, "body"))) = Bytes(Frame, "body")
  BY <1>5
<1> QED
  BY <1>2, <1>3, <1>4, <1>5, <1>6

LEMMA DispatchKeeps ==
  ASSUME TypeOK, StreamInv, Dispatch
  PROVE  StreamInv'
<1>1. /\ reader = "get" /\ Recved(msg_) /\ pb_head_ # NoMsg
      /\ done' = done + 1 /\ reader' = "size" /\ head_' = Empty /\ msg_' = Empty
      /\ UNCHANGED <<conn, breaks, sender, owner, sent, wire, inbuf, pb_head_>>
  BY DEF Dispatch, Clear, linkVars, sendVars
<1>2. head_.size > 0 /\ HeaderFull
  BY Whole
<1>3. /\ done \in Nat /\ Len(sent) \in Nat /\ done < Len(sent) /\ conn
      /\ Stream(sent, OnWay, Cursor, Writer)
      /\ Len(head_.data) = head_.size /\ Len(msg_.data) = msg_.size
      /\ head_.size \in Nat /\ msg_.size \in Nat
  BY <1>1, <1>2, Reading DEF HeaderFull, Recved
<1>4. ReaderInv'
  <2>1. done' <= Len(sent') /\ head_'.size = 0
    BY <1>1, <1>3 DEF Empty
  <2> QED
    BY <1>1, <2>1 DEF ReaderInv
<1>5. FrameInv'
  <2>1. Cursor = First(sent, done + 2)
    <3>1. /\ ~(head_.size = 0) /\ ~(Len(head_.data) < head_.size)
          /\ ~(Len(msg_.data) < msg_.size)
      BY <1>2, <1>3
    <3> QED
      BY <3>1 DEF Cursor, CursorOf
  <2>2. Cursor' = First(sent, (done + 1) + 1)
    <3>1. head_'.size = 0
      BY <1>1 DEF Empty
    <3> QED
      BY <1>1, <3>1 DEF Cursor, CursorOf
  <2>3. (done + 1) + 1 = done + 2
    BY <1>3
  <2> QED
    BY <1>1, <1>3, <2>1, <2>2, <2>3 DEF FrameInv, OnWay, Writer, Under
<1>6. SendInv' /\ CutInv'
  BY <1>1, <1>3 DEF StreamInv, SendInv, CutInv, FirstFrame, OnWay, Under
<1> QED
  BY <1>4, <1>5, <1>6 DEF StreamInv

LEMMA WaitKeeps ==
  ASSUME TypeOK, StreamInv, WaitForMore
  PROVE  StreamInv'
<1>1. /\ reader = "get" /\ reader' = "idle" /\ (pb_head_ = NoMsg \/ ~Recved(msg_))
      /\ UNCHANGED <<conn, breaks, sender, owner, sent, wire, inbuf, head_, msg_, pb_head_, done>>
  BY DEF WaitForMore, linkVars, sendVars
<1>2. head_.size > 0 /\ Frame \in Msgs /\ conn
  BY <1>1, Reading
<1>3. HeaderFull => ~Recved(msg_)
  BY <1>1, <1>2, Lengths DEF StreamInv, ReaderInv
<1>4. inbuf = <<>>
  BY <1>1, <1>3 DEF StreamInv, ReaderInv
<1>5. ~HeaderFull => pb_head_ = NoMsg
  BY <1>1, <1>2 DEF StreamInv, ReaderInv
<1>6. ReaderInv'
  BY <1>1, <1>2, <1>3, <1>4, <1>5 DEF StreamInv, ReaderInv, HeaderFull, Recved, Frame
<1>7. SendInv' /\ CutInv' /\ FrameInv'
  BY <1>1, <1>2 DEF StreamInv, SendInv, CutInv, FrameInv, FirstFrame, OnWay, Cursor, Writer, Under
<1> QED
  BY <1>6, <1>7 DEF StreamInv

LEMMA BreakMends ==
  ASSUME Break
  PROVE  StreamInv' /\ ~torn'
<1>1. /\ reader' = "idle" /\ conn' = FALSE /\ wire' = <<>> /\ inbuf' = <<>> /\ sent' = <<>>
      /\ done' = 0 /\ head_' = Empty /\ msg_' = Empty /\ owner' = NoSender /\ torn' = FALSE
  BY DEF Break, Clear
<1>2. head_'.size = 0 /\ Len(sent') = 0 /\ Under' = NotSending /\ NotSending.part = "none"
  BY <1>1 DEF Empty, Under, NotSending
<1>3. ReaderInv'
  BY <1>1, <1>2 DEF ReaderInv
<1>4. SendInv' /\ CutInv'
  BY <1>1, <1>2 DEF SendInv, CutInv
<1> QED
  BY <1>1, <1>3, <1>4 DEF StreamInv, FrameInv

LEMMA ReconnectKeeps ==
  ASSUME TypeOK, StreamInv, Reconnect
  PROVE  StreamInv'
<1>1. /\ ~conn /\ conn' = TRUE
      /\ UNCHANGED <<sender, owner, sent, wire, inbuf, reader, head_, msg_, pb_head_, done>>
  BY DEF Reconnect, sendVars, recvVars
<1>2. /\ wire = <<>> /\ inbuf = <<>> /\ sent = <<>> /\ done = 0
      /\ head_ = Empty /\ msg_ = Empty /\ reader = "idle" /\ owner = NoSender
  BY <1>1 DEF StreamInv, SendInv
<1>3. ReaderInv'
  BY <1>1 DEF StreamInv, ReaderInv, HeaderFull, Recved, Frame
<1>4. Under' = NotSending /\ NotSending.part = "none"
  BY <1>1, <1>2 DEF Under, NotSending
<1>5. SendInv' /\ CutInv'
  BY <1>1, <1>2, <1>4 DEF SendInv, CutInv
<1>6. Cursor' = End /\ Writer' = End /\ OnWay' = <<>>
  <2>1. head_'.size = 0 /\ Len(sent') = 0 /\ 0 + 1 \notin 1 .. 0
    BY <1>1, <1>2 DEF Empty
  <2>2. Cursor' = First(sent', done' + 1)
    BY <2>1 DEF Cursor, CursorOf
  <2> QED
    BY <1>1, <1>2, <1>4, <2>1, <2>2 DEF First, Writer, WriterOf, OnWay
<1>7. Stream(<<>>, <<>>, End, End)
  BY DEF Stream, Runs
<1> QED
  BY <1>1, <1>2, <1>3, <1>5, <1>6, <1>7 DEF StreamInv, FrameInv

\* What is promised until the connection is torn.
UntilTorn == ~torn => StreamInv

LEMMA TornStays ==
  ASSUME [Next]_vars, ~Break, ~torn'
  PROVE  ~torn
BY DEF Next, vars, WriteSize, Write, WriteHead, WriteBody, WriteFails, Writes, Arrive, Read,
       RecvSize, RecvHead, RecvBody, Dispatch, WaitForMore, Reconnect

LEMMA StreamStep ==
  ASSUME TypeOK, UntilTorn, [Next]_vars
  PROVE  UntilTorn'
<1>1. CASE Break
  BY <1>1, BreakMends DEF UntilTorn
<1>2. CASE ~Break
  <2> SUFFICES ASSUME ~torn' PROVE StreamInv'
    BY DEF UntilTorn
  <2>0. StreamInv
    BY <1>2, TornStays DEF UntilTorn
  <2>1. CASE \E s \in Senders, m \in Msgs : WriteSize(s, m)
    BY <2>0, <2>1, WriteSizeKeeps
  <2>2. CASE \E s \in Senders : Write(s)
    BY <2>0, <2>2, WritesKeep
  <2>3. CASE \E n \in 1 .. Len(wire) : Arrive(n)
    BY <2>0, <2>3, ArriveKeeps
  <2>4. CASE Read
    BY <2>0, <2>4, RecvSizeKeeps, RecvHeadKeeps, RecvBodyKeeps, DispatchKeeps, WaitKeeps DEF Read
  <2>5. CASE Reconnect
    BY <2>0, <2>5, ReconnectKeeps
  <2>6. CASE UNCHANGED vars
    BY <2>0, <2>6 DEF vars, StreamInv, ReaderInv, SendInv, CutInv, FrameInv, HeaderFull, Recved,
                      Frame, FirstFrame, OnWay, Cursor, Writer, Under
  <2> QED
    BY <1>2, <2>1, <2>2, <2>3, <2>4, <2>5, <2>6 DEF Next
<1> QED
  BY <1>1, <1>2

LEMMA StreamInit ==
  ASSUME Init
  PROVE  StreamInv
<1>1. /\ conn = TRUE /\ wire = <<>> /\ inbuf = <<>> /\ sent = <<>> /\ done = 0 /\ reader = "idle"
      /\ head_ = Empty /\ msg_ = Empty /\ owner = NoSender
  BY DEF Init
<1>2. NotSending.part = "none" /\ head_.size = 0 /\ Len(sent) = 0 /\ Under = NotSending
  BY <1>1 DEF NotSending, Empty, Under
<1>3. Cursor = End /\ Writer = End /\ OnWay = <<>>
  <2>1. 0 + 1 \notin 1 .. 0
    OBVIOUS
  <2> QED
    BY <1>1, <1>2, <2>1 DEF First, Cursor, CursorOf, Writer, WriterOf, OnWay
<1>4. Stream(<<>>, <<>>, End, End)
  BY DEF Stream, Runs
<1>5. ReaderInv
  BY <1>1, <1>2 DEF ReaderInv
<1>6. SendInv /\ CutInv
  BY <1>1, <1>2 DEF SendInv, CutInv
<1> QED
  BY <1>1, <1>3, <1>4, <1>5, <1>6 DEF StreamInv, FrameInv

\* On a connection that is not torn the frames on their way follow one another
\* from the byte that the reader reads next to the byte that the thread of the
\* frame under way writes next, whatever bodies are cut, in every state.
THEOREM StreamInvHolds == Spec => []UntilTorn
<1>1. Init => UntilTorn
  BY StreamInit DEF UntilTorn
<1>2. TypeOK /\ UntilTorn /\ [Next]_vars => UntilTorn'
  BY StreamStep
<1> QED
  BY <1>1, <1>2, TypeCorrect, PTL DEF Spec

\* RecvMsg never takes the bytes of one part of a frame for another part,
\* unless a header was cut or a Write crossed a frame on this connection.
THEOREM AlignedHolds == Spec => []Aligned
<1>1. UntilTorn => Aligned
  BY DEF UntilTorn, StreamInv, ReaderInv, Aligned
<1> QED
  BY <1>1, StreamInvHolds, PTL

\* What ReadCB gives to a callback is the body that SendMsg wrote after that
\* header, the whole of it, on every connection that is not torn: also on the
\* one that follows a torn one.
THEOREM HandledWholeHolds == Spec => []HandledWhole
<1>1. Init => HandledWhole
  BY DEF Init, HandledWhole
<1>2. TypeOK /\ UntilTorn /\ HandledWhole /\ [Next]_vars => HandledWhole'
  <2> SUFFICES ASSUME TypeOK, UntilTorn, HandledWhole, [Next]_vars
               PROVE  HandledWhole'
    OBVIOUS
  <2>1. CASE Dispatch
    <3>1. handled' = IF pb_head_ \in Registered
                     THEN Append(handled, [head |-> pb_head_, body |-> msg_.data, torn |-> torn])
                     ELSE handled
      BY <2>1 DEF Dispatch, Dispatched
    <3> DEFINE e == [head |-> pb_head_, body |-> msg_.data, torn |-> torn]
    <3>2. ~e.torn => e.body = Bytes(e.head, "body")
      BY <2>1, Whole DEF UntilTorn
    <3>3. handled \in Seq(Call)
      BY DEF TypeOK
    <3> HIDE DEF e
    <3>4. CASE handled' = Append(handled, e)
      <4>1. \A i \in 1 .. Len(handled') : i \in 1 .. Len(handled) \/ i = Len(handled) + 1
        BY <3>3, <3>4
      <4>2. \A i \in 1 .. Len(handled) : handled'[i] = handled[i]
        BY <3>3, <3>4
      <4>3. handled'[Len(handled) + 1] = e
        BY <3>3, <3>4
      <4> QED
        BY <3>2, <4>1, <4>2, <4>3 DEF HandledWhole
    <3>5. CASE handled' = handled
      BY <3>5 DEF HandledWhole
    <3> QED
      BY <3>1, <3>4, <3>5 DEF e
  <2>2. CASE ~Dispatch
    <3>1. handled' = handled
      BY <2>2 DEF Next, WriteSize, Write, WriteHead, WriteBody, WriteFails, Arrive, Read, RecvSize,
                  RecvHead, RecvBody, WaitForMore, Break, Reconnect, recvVars, vars
    <3> QED
      BY <3>1 DEF HandledWhole
  <2> QED
    BY <2>1, <2>2
<1> QED
  BY <1>1, <1>2, StreamInvHolds, TypeCorrect, PTL DEF Spec

\* A frame that has arrived whole is dispatched before ReadCB waits for more,
\* on a connection that is not torn.
THEOREM QuietMeansHandledHolds == Spec => []QuietMeansHandled
<1>1. TypeOK /\ UntilTorn => QuietMeansHandled
  <2> SUFFICES ASSUME TypeOK, StreamInv, reader = "idle", wire = <<>>, owner = NoSender
               PROVE  done = Len(sent)
    BY DEF QuietMeansHandled, UntilTorn
  <2>1. /\ sent \in Seq(Msgs) /\ Len(sent) \in Nat /\ done \in Nat /\ done <= Len(sent)
        /\ head_.size \in Nat
    BY Reading DEF StreamInv, ReaderInv
  <2>2. CASE ~conn
    <3>1. sent = <<>> /\ done = 0
      BY <2>2 DEF StreamInv, SendInv, Under
    <3> QED
      BY <3>1
  <2>3. CASE conn
    <3>1. inbuf = <<>> /\ OnWay = <<>>
      <4>1. inbuf = <<>>
        BY DEF StreamInv, ReaderInv
      <4> QED
        BY <4>1 DEF OnWay
    <3>2. Cursor = End
      <4>1. Cursor = Writer
        BY <2>3, <3>1 DEF StreamInv, FrameInv, Stream
      <4> QED
        BY <4>1 DEF Writer, WriterOf, Under
    <3>3. Cursor.part = "none"
      BY <3>2 DEF End
    <3>4. CASE head_.size = 0
      <4>1. First(sent, done + 1) = End
        BY <3>2, <3>4 DEF Cursor, CursorOf
      <4>2. done + 1 \notin 1 .. Len(sent)
        BY <4>1 DEF First, End
      <4> QED
        BY <2>1, <4>2
    <3>5. CASE head_.size # 0
      <4>1. head_.size > 0
        BY <2>1, <3>5
      <4>2. HeaderFull
        BY <3>3, <4>1, InHeader
      <4>3. ~Recved(msg_)
        BY <4>1, <4>2 DEF StreamInv, ReaderInv
      <4> QED
        BY <3>3, <4>1, <4>2, <4>3, InBody
    <3> QED
      BY <3>4, <3>5
  <2> QED
    BY <2>2, <2>3 DEF TypeOK
<1> QED
  BY <1>1, StreamInvHolds, TypeCorrect, PTL
-----------------------------------------------------------------------------
(* The channel of whole messages.                                           *)

Pending == Drop(sent, done)
Heads(h) == [i \in 1 .. Len(h) |-> h[i].head]

LEMMA NoHeads ==
  Heads(<<>>) = <<>> /\ Drop(<<>>, 0) = <<>>
<1>1. Drop(<<>>, 0) = <<>>
  BY DEF Drop
<1>2. Heads(<<>>) = <<>>
  BY DEF Heads
<1> QED
  BY <1>1, <1>2

LEMMA PendingSeq ==
  ASSUME NEW S \in Seq(Msgs), NEW n \in Nat
  PROVE  Drop(S, n) \in Seq(Msgs)
BY DEF Drop

LEMMA PendingGrows ==
  ASSUME TypeOK, done <= Len(sent), NEW m \in Msgs
  PROVE  Drop(Append(sent, m), done) = Append(Drop(sent, done), m)
<1> DEFINE T == Append(sent, m)
           d == Drop(sent, done)
<1>1. /\ sent \in Seq(Msgs) /\ Len(sent) \in Nat /\ done \in 0 .. Len(sent)
      /\ T \in Seq(Msgs) /\ Len(T) = Len(sent) + 1 /\ T[Len(sent) + 1] = m
      /\ \A k \in 1 .. Len(sent) : T[k] = sent[k]
  BY DEF TypeOK
<1>2. /\ d \in Seq(Msgs) /\ Len(d) = Len(sent) - done
      /\ \A i \in 1 .. Len(sent) - done : d[i] = sent[i + done]
  BY <1>1, Dropped
<1> HIDE DEF T, d
<1>3. done \in 0 .. Len(T)
  BY <1>1
<1>4. /\ Drop(T, done) \in Seq(Msgs) /\ Len(Drop(T, done)) = Len(T) - done
      /\ \A i \in 1 .. Len(T) - done : Drop(T, done)[i] = T[i + done]
  BY <1>1, <1>3, Dropped
<1>5. /\ Append(d, m) \in Seq(Msgs) /\ Len(Append(d, m)) = Len(d) + 1
      /\ Append(d, m)[Len(d) + 1] = m
      /\ \A i \in 1 .. Len(d) : Append(d, m)[i] = d[i]
  BY <1>2
<1>6. Len(Drop(T, done)) = Len(Append(d, m))
  BY <1>1, <1>2, <1>4, <1>5
<1>7. \A i \in 1 .. Len(Drop(T, done)) : Drop(T, done)[i] = Append(d, m)[i]
  <2> TAKE i \in 1 .. Len(Drop(T, done))
  <2>1. i \in 1 .. Len(T) - done
    BY <1>4
  <2>2. CASE i \in 1 .. Len(d)
    <3>1. i \in 1 .. Len(sent) - done /\ i + done \in 1 .. Len(sent)
      BY <1>1, <1>2, <2>2
    <3> QED
      BY <1>1, <1>2, <1>4, <1>5, <2>1, <2>2, <3>1
  <2>3. CASE i = Len(d) + 1
    <3>1. i + done = Len(sent) + 1
      BY <1>1, <1>2, <2>3
    <3> QED
      BY <1>1, <1>4, <1>5, <2>1, <2>3, <3>1
  <2>4. Len(d) \in Nat /\ i \in 1 .. Len(d) + 1
    BY <1>1, <1>2, <2>1
  <2>5. i \in 1 .. Len(d) \/ i = Len(d) + 1
    BY <2>4
  <2> QED
    BY <2>2, <2>3, <2>5
<1>8. Drop(T, done) = Append(d, m)
  BY <1>4, <1>5, <1>6, <1>7, SeqEqual
<1> QED
  BY <1>8 DEF T, d

LEMMA PendingTail ==
  ASSUME TypeOK, done < Len(sent)
  PROVE  /\ Pending # <<>> /\ Head(Pending) = Frame /\ Tail(Pending) = Drop(sent, done + 1)
<1>1. /\ sent \in Seq(Msgs) /\ Len(sent) \in Nat /\ done \in 0 .. Len(sent) /\ done \in Nat
      /\ done + 1 \in 0 .. Len(sent) /\ 1 \in 1 .. Len(sent) - done
  BY DEF TypeOK
<1> DEFINE d == Drop(sent, done)
           e == Drop(sent, done + 1)
<1>2. /\ d \in Seq(Msgs) /\ Len(d) = Len(sent) - done
      /\ \A i \in 1 .. Len(sent) - done : d[i] = sent[i + done]
  BY <1>1, Dropped
<1>3. /\ e \in Seq(Msgs) /\ Len(e) = Len(sent) - (done + 1)
      /\ \A i \in 1 .. Len(sent) - (done + 1) : e[i] = sent[i + (done + 1)]
  BY <1>1, Dropped
<1> HIDE DEF d, e
<1>4. d # <<>> /\ Head(d) = d[1] /\ d[1] = sent[1 + done] /\ 1 + done = done + 1
  BY <1>1, <1>2
<1>5. /\ Tail(d) \in Seq(Msgs) /\ Len(Tail(d)) = Len(d) - 1
      /\ \A i \in 1 .. Len(d) - 1 : Tail(d)[i] = d[i + 1]
  BY <1>2, <1>4
<1>6. Len(Tail(d)) = Len(e)
  BY <1>1, <1>2, <1>3, <1>5
<1>7. \A i \in 1 .. Len(Tail(d)) : Tail(d)[i] = e[i]
  <2> TAKE i \in 1 .. Len(Tail(d))
  <2>1. /\ i \in 1 .. Len(d) - 1 /\ i + 1 \in 1 .. Len(sent) - done
        /\ i \in 1 .. Len(sent) - (done + 1) /\ (i + 1) + done = i + (done + 1)
    BY <1>1, <1>2, <1>5
  <2> QED
    BY <1>2, <1>3, <1>5, <2>1
<1>8. Tail(d) = e
  BY <1>3, <1>5, <1>6, <1>7, SeqEqual
<1> QED
  BY <1>4, <1>8 DEF d, e, Pending, Frame

LEMMA HeadsOf ==
  ASSUME NEW h \in Seq(Call)
  PROVE  /\ Heads(h) \in Seq(Registered) /\ Len(Heads(h)) = Len(h)
         /\ \A i \in 1 .. Len(h) : Heads(h)[i] = h[i].head
<1>1. \A i \in 1 .. Len(h) : h[i].head \in Registered
  <2> TAKE i \in 1 .. Len(h)
  <2>1. h[i] \in Call
    BY ElementOfSeq
  <2> QED
    BY <2>1 DEF Call
<1> DEFINE a == [i \in 1 .. Len(h) |-> h[i].head]
<1>2. Len(h) \in Nat /\ a \in [1 .. Len(h) -> Registered]
  BY <1>1
<1>3. \A i \in 1 .. Len(h) : a[i] = h[i].head
  OBVIOUS
<1> HIDE DEF a
<1> DEFINE k == Len(h)
<1> HIDE DEF k
<1>4. a \in Seq(Registered) /\ Len(a) = k
  <2> k \in Nat /\ a \in [1 .. k -> Registered]
    BY <1>2 DEF k
  <2> QED
    OBVIOUS
<1> QED
  BY <1>3, <1>4 DEF a, k, Heads

LEMMA HeadsGrow ==
  ASSUME NEW h \in Seq(Call),
         NEW e \in Call
  PROVE  Heads(Append(h, e)) = Append(Heads(h), e.head)
<1>1. /\ Heads(h) \in Seq(Registered) /\ Len(Heads(h)) = Len(h)
      /\ \A i \in 1 .. Len(h) : Heads(h)[i] = h[i].head
  BY HeadsOf
<1> DEFINE g == Append(h, e)
<1>2. /\ g \in Seq(Call) /\ Len(g) = Len(h) + 1 /\ g[Len(h) + 1] = e
      /\ \A i \in 1 .. Len(h) : g[i] = h[i]
  OBVIOUS
<1> HIDE DEF g
<1>3. /\ Heads(g) \in Seq(Registered) /\ Len(Heads(g)) = Len(g)
      /\ \A i \in 1 .. Len(g) : Heads(g)[i] = g[i].head
  BY <1>2, HeadsOf
<1> DEFINE a == Heads(h)
           b == Heads(g)
           c == Append(a, e.head)
<1>4. e.head \in Registered
  BY DEF Call
<1> HIDE DEF a, b
<1>5. /\ c \in Seq(Registered) /\ Len(c) = Len(a) + 1 /\ c[Len(a) + 1] = e.head
      /\ \A i \in 1 .. Len(a) : c[i] = a[i]
  BY <1>1, <1>4 DEF a
<1> HIDE DEF c
<1>6. Len(b) = Len(c)
  BY <1>1, <1>2, <1>3, <1>5 DEF a, b
<1>7. \A i \in 1 .. Len(b) : b[i] = c[i]
  <2> TAKE i \in 1 .. Len(b)
  <2>1. Len(h) \in Nat /\ i \in 1 .. Len(g)
    BY <1>3 DEF b
  <2>2. CASE i \in 1 .. Len(h)
    <3>1. b[i] = h[i].head
      BY <1>2, <1>3, <2>1, <2>2 DEF b
    <3>2. c[i] = h[i].head
      BY <1>1, <1>5, <2>2 DEF a
    <3> QED
      BY <3>1, <3>2
  <2>3. CASE i = Len(h) + 1
    BY <1>1, <1>2, <1>3, <1>5, <2>1, <2>3 DEF a, b
  <2> QED
    BY <1>2, <2>1, <2>2, <2>3
<1>8. b = c
  BY <1>3, <1>5, <1>6, <1>7, SeqEqual DEF b
<1> QED
  BY <1>8 DEF a, b, c, g

\* What a dispatch adds to the calls, torn or not.
LEMMA Delivered ==
  ASSUME TypeOK, Dispatch
  PROVE  Heads(handled)' = IF pb_head_ \in Registered THEN Append(Heads(handled), pb_head_)
                                                       ELSE Heads(handled)
<1> DEFINE e == [head |-> pb_head_, body |-> msg_.data, torn |-> torn]
<1>1. handled' = IF pb_head_ \in Registered THEN Append(handled, e) ELSE handled
  BY DEF Dispatch, Dispatched
<1>2. CASE pb_head_ \in Registered
  <2>1. e \in Call /\ e.head = pb_head_
    BY <1>2 DEF TypeOK, Buffer, Call
  <2>2. handled' = Append(handled, e) /\ Heads(handled)' = Heads(handled')
    BY <1>1, <1>2 DEF Heads
  <2> HIDE DEF e
  <2>3. Heads(Append(handled, e)) = Append(Heads(handled), e.head)
    BY <2>1, HeadsGrow DEF TypeOK
  <2> QED
    BY <1>2, <2>1, <2>2, <2>3
<1>3. CASE pb_head_ \notin Registered
  BY <1>1, <1>3 DEF Heads
<1> QED
  BY <1>2, <1>3

\* The framing implements the channel of whole messages: until the connection
\* is torn a message begun is sent and a message dispatched is delivered; and
\* once it is torn what was delivered stays, and a break mends it.
THEOREM ImplementsChannelHolds == Spec => ImplementsChannel
<1>1. Init => Channel!Init
  BY NoHeads DEF Init, Channel!Init, Heads
<1>2. TypeOK /\ TypeOK' /\ UntilTorn /\ [Next]_vars => [Channel!Next]_(Channel!vars)
  <2> SUFFICES ASSUME TypeOK, TypeOK', UntilTorn, [Next]_vars
               PROVE  Channel!Next \/ (UNCHANGED <<Pending, Heads(handled), torn>>)
    BY DEF Channel!vars, Pending, Heads
  <2>1. CASE Break
    <3>1. sent' = <<>> /\ done' = 0 /\ handled' = handled /\ torn' = FALSE
      BY <2>1 DEF Break
    <3>2. Pending' = <<>> /\ Heads(handled)' = Heads(handled)
      BY <3>1, NoHeads DEF Pending, Heads
    <3>3. Channel!Break
      BY <3>1, <3>2 DEF Channel!Break, Pending, Heads
    <3> QED
      BY <3>3 DEF Channel!Next
  <2>2. CASE torn' /\ ~Break
    <3>1. Pending' \in Seq(Msgs)
      BY PendingSeq DEF Pending, TypeOK
    <3>2. \/ Heads(handled)' = Heads(handled)
          \/ \E m \in Registered : Heads(handled)' = Append(Heads(handled), m)
      <4>1. CASE Dispatch
        BY <4>1, Delivered
      <4>2. CASE ~Dispatch
        <5>1. handled' = handled
          BY <2>2, <4>2 DEF Next, WriteSize, Write, WriteHead, WriteBody, WriteFails, Arrive, Read,
                    RecvSize, RecvHead, RecvBody, WaitForMore, Reconnect, recvVars, vars
        <5> QED
          BY <5>1 DEF Heads
      <4> QED
        BY <4>1, <4>2
    <3>3. Channel!Astray
      BY <2>2, <3>1, <3>2 DEF Channel!Astray, Pending, Heads
    <3> QED
      BY <3>3 DEF Channel!Next
  <2>3. CASE ~torn' /\ ~Break
    <3>0. ~torn /\ StreamInv /\ torn' = torn
      BY <2>3, TornStays DEF UntilTorn, TypeOK
    <3>1. CASE \E s \in Senders, m \in Msgs : WriteSize(s, m)
      <4> PICK s \in Senders, m \in Msgs : WriteSize(s, m)
        BY <3>1
      <4>1. sent' = Append(sent, m) /\ done' = done /\ handled' = handled
        BY DEF WriteSize, recvVars
      <4>2. done <= Len(sent)
        BY <3>0 DEF StreamInv, ReaderInv
      <4>3. Pending' = Append(Pending, m)
        BY <4>1, <4>2, PendingGrows DEF Pending
      <4>4. Heads(handled)' = Heads(handled)
        BY <4>1 DEF Heads
      <4>5. Channel!Send(m)
        BY <3>0, <4>3, <4>4 DEF Channel!Send, Pending, Heads
      <4> QED
        BY <4>5 DEF Channel!Next
    <3>2. CASE Dispatch
      <4>1. done < Len(sent) /\ pb_head_ = Frame
        <5>1. reader # "idle" /\ reader = "get"
          BY <3>2 DEF Dispatch
        <5> QED
          BY <3>0, <3>2, <5>1, Reading, Whole
      <4>2. sent' = sent /\ done' = done + 1
        BY <3>2 DEF Dispatch, sendVars
      <4>3. Pending # <<>> /\ Head(Pending) = Frame /\ Pending' = Tail(Pending)
        BY <4>1, <4>2, PendingTail DEF Pending
      <4>4. Heads(handled)' = IF Frame \in Registered THEN Append(Heads(handled), Frame)
                                                      ELSE Heads(handled)
        BY <3>2, <4>1, Delivered
      <4>5. Channel!Deliver
        BY <3>0, <4>3, <4>4 DEF Channel!Deliver, Pending, Heads
      <4> QED
        BY <4>5 DEF Channel!Next
    <3>3. CASE ~((\E s \in Senders, m \in Msgs : WriteSize(s, m)) \/ Dispatch)
      <4>1. UNCHANGED <<sent, done, handled>>
        BY <2>3, <3>3 DEF Next, Write, WriteHead, WriteBody, WriteFails, Arrive, Read, RecvSize,
                    RecvHead, RecvBody, WaitForMore, Reconnect, recvVars, sendVars, vars
      <4> QED
        BY <3>0, <4>1 DEF Pending, Heads
    <3> QED
      BY <3>1, <3>2, <3>3
  <2> QED
    BY <2>1, <2>2, <2>3 DEF TypeOK
<1> QED
  BY <1>1, <1>2, StreamInvHolds, TypeCorrect, PTL DEF Spec, ImplementsChannel, Channel!Spec
=============================================================================
