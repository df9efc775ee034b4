------------------------- MODULE DebugClientProofs -------------------------
(***************************************************************************)
(* What is proved of DebugClient for every number of requests, whatever    *)
(* the client does and whichever system calls fail: type correctness, and  *)
(* that the streams of requests and of answers keep their boundaries.      *)
(***************************************************************************)
EXTENDS DebugClient, SequenceTheorems, FiniteSetTheorems, TLAPS

\* The loop of main is running.
InLoop == pc \in {"poll", "reading", "handling", "sending"}

\* The bytes of the answers that the client has read or that are on their way.
Bytes == answers \o stream

Byte(i) == <<((i - 1) \div AnswerSize) + 1, ((i - 1) % AnswerSize) + 1>>

\* The frame holds the first n bytes of the next request.
FrameHolds(n) == \A i \in 1 .. n : frame[i] = RequestSize * handled + i

\* Between requests the server has read whole ones; within one, the bytes that
\* n_recd counts are in the frame, and no others have been read.
RequestInv ==
  /\ pc \in {"poll", "sending"} => taken = RequestSize * handled
  /\ pc = "reading" => /\ n_recd < RequestSize
                       /\ taken = RequestSize * handled + n_recd
                       /\ FrameHolds(n_recd)
  /\ pc = "handling" => /\ taken = RequestSize * (handled + 1)
                        /\ FrameHolds(RequestSize)

\* Nothing has been read or written before the connection, and an answer is
\* being written in one place of the loop only.
QuietInv ==
  /\ pc = "connecting" => /\ taken = 0 /\ handled = 0 /\ rsp_data = 0 /\ n_sent = 0
                          /\ answers = <<>> /\ stream = <<>>
  /\ pc \in {"poll", "reading", "handling"} => n_sent = 0

BytesInv == \A i \in 1 .. Len(Bytes) : Bytes[i] = Byte(i)

CountInv == InLoop => rsp_data = ReadsHandled - (IF pc = "sending" THEN 1 ELSE 0)

LengthInv == (client = "open" /\ InLoop) => Len(Bytes) = AnswerSize * rsp_data + n_sent

StreamInv == TypeOK /\ RequestInv /\ QuietInv /\ BytesInv /\ CountInv /\ LengthInv
-----------------------------------------------------------------------------
\* The byte at offset r of an answer belongs to that answer.
LEMMA ByteOfAnswer ==
  ASSUME NEW q \in Nat, NEW r \in 1 .. AnswerSize
  PROVE  Byte(AnswerSize * q + r) = <<q + 1, r>>
<1>1. (4 * q + r - 1) \div 4 = q /\ (4 * q + r - 1) % 4 = r - 1
  BY DEF AnswerSize
<1> QED
  BY <1>1 DEF Byte, AnswerSize

\* The reads among the requests handled are finitely many, at most all.
LEMMA ReadsBounded ==
  ASSUME TypeOK
  PROVE  /\ IsFiniteSet({k \in 1 .. handled : reqs[k] = DMI_OP_READ})
         /\ ReadsHandled \in Nat
         /\ ReadsHandled <= handled
<1>1. handled \in Nat
  BY DEF TypeOK
<1>2. IsFiniteSet(1 .. handled) /\ Cardinality(1 .. handled) = handled
  BY <1>1, FS_Interval
<1> QED
  BY <1>1, <1>2, FS_Subset, FS_CardinalityType DEF ReadsHandled

\* One read more is handled if the next request is one.
LEMMA NextReadCounted ==
  ASSUME TypeOK, handled' = handled + 1, UNCHANGED reqs
  PROVE  ReadsHandled' = ReadsHandled + (IF reqs[handled + 1] = DMI_OP_READ THEN 1 ELSE 0)
<1> DEFINE R(n) == {k \in 1 .. n : reqs[k] = DMI_OP_READ}
<1>1. handled \in Nat
  BY DEF TypeOK
<1>2. IsFiniteSet(R(handled)) /\ ReadsHandled = Cardinality(R(handled))
      /\ ReadsHandled' = Cardinality(R(handled + 1)) /\ ReadsHandled \in Nat
  BY ReadsBounded DEF ReadsHandled
<1>3. CASE reqs[handled + 1] = DMI_OP_READ
  <2>1. R(handled + 1) = R(handled) \cup {handled + 1} /\ handled + 1 \notin R(handled)
    BY <1>1, <1>3
  <2> HIDE DEF R
  <2> QED
    BY <1>2, <1>3, <2>1, FS_AddElement
<1>4. CASE reqs[handled + 1] # DMI_OP_READ
  <2>1. R(handled + 1) = R(handled)
    BY <1>1, <1>4
  <2> QED
    BY <1>2, <1>4, <2>1
<1> QED
  BY <1>3, <1>4

\* The counts change with the requests handled only, for those are in the past
\* of the client's.
LEMMA ReadsKept ==
  ASSUME TypeOK, UNCHANGED handled,
         \/ UNCHANGED reqs
         \/ \E op \in Ops : reqs' = Append(reqs, op)
  PROVE  ReadsHandled' = ReadsHandled
<1>0. reqs \in Seq(Ops) /\ handled \in 0 .. Len(reqs)
  BY DEF TypeOK
<1>1. \A k \in 1 .. handled : reqs'[k] = reqs[k]
  <2>1. ASSUME NEW op \in Ops, NEW k \in 1 .. handled, reqs' = Append(reqs, op)
        PROVE  reqs'[k] = reqs[k]
    BY <1>0, <2>1, AppendProperties
  <2> QED
    BY <2>1
<1>2. {k \in 1 .. handled' : reqs'[k] = DMI_OP_READ} = {k \in 1 .. handled : reqs[k] = DMI_OP_READ}
  BY <1>1
<1> QED
  BY <1>2 DEF ReadsHandled

\* The whole frame of the next request gives its operation.
LEMMA OperationOfFrame ==
  ASSUME TypeOK, FrameHolds(RequestSize)
  PROVE  OpOf(frame) = reqs[handled + 1]
<1>1. handled \in Nat /\ frame[1] = 7 * handled + 1
  BY DEF TypeOK, FrameHolds, RequestSize
<1>2. ((7 * handled + 1) - 1) \div 7 = handled
  BY <1>1
<1>3. OpOf(frame) = reqs[(((7 * handled + 1) - 1) \div 7) + 1]
  BY <1>1 DEF OpOf, RequestSize
<1> QED
  BY <1>2, <1>3

\* The invariant holds at the start.
LEMMA InitStreamInv == Init => StreamInv
<1> SUFFICES ASSUME Init PROVE StreamInv
  OBVIOUS
<1>1. TypeOK
  BY DebugClientAssumption DEF Init, TypeOK, ServerSteps, RequestSize, AnswerSize, Ops,
     DMI_STATUS_UNAVAIL
<1>2. RequestInv /\ QuietInv /\ CountInv /\ LengthInv
  BY DEF Init, RequestInv, QuietInv, CountInv, LengthInv, InLoop
<1>3. BytesInv
  <2>1. Len(Bytes) = 0
    BY DEF Init, Bytes
  <2> QED
    BY <2>1 DEF BytesInv
<1> QED
  BY <1>1, <1>2, <1>3 DEF StreamInv
-----------------------------------------------------------------------------
\* Type correctness, in three parts.
AnswerBytes == Nat \X (1 .. AnswerSize)

StreamsOK == stream \in Seq(AnswerBytes) /\ answers \in Seq(AnswerBytes)
RequestsOK == reqs \in Seq(Ops) /\ Len(reqs) <= MaxRequests
NumbersOK ==
  /\ pc \in ServerSteps
  /\ status \in {DMI_STATUS_ERR, DMI_STATUS_OK, DMI_STATUS_UNAVAIL}
  /\ frame \in [1 .. RequestSize -> Nat]
  /\ n_recd \in 0 .. RequestSize
  /\ taken \in 0 .. sent
  /\ handled \in 0 .. Len(reqs)
  /\ rsp_data \in 0 .. handled
  /\ n_sent \in 0 .. (AnswerSize - 1)
  /\ sent \in 0 .. (RequestSize * Len(reqs))
  /\ client \in {"away", "open", "closed", "reset"}

\* The three parts are the whole.
LEMMA TypeOKParts == TypeOK <=> StreamsOK /\ RequestsOK /\ NumbersOK
  BY DEF TypeOK, StreamsOK, RequestsOK, NumbersOK, AnswerBytes

\* A piece of an answer consists of its bytes.
LEMMA PieceType ==
  ASSUME TypeOK, NEW n \in 1 .. (AnswerSize - n_sent)
  PROVE  /\ NextPiece(n) \in Seq(AnswerBytes)
         /\ Len(NextPiece(n)) = n
         /\ \A i \in 1 .. n : NextPiece(n)[i] = <<rsp_data + 1, n_sent + i>>
<1>1. rsp_data + 1 \in Nat /\ n_sent \in 0 .. 3
  <2>1. handled \in Nat /\ rsp_data \in 0 .. handled
    BY DEF TypeOK
  <2> QED
    BY <2>1 DEF TypeOK, AnswerSize
<1>2. \A i \in 1 .. n : <<rsp_data + 1, n_sent + i>> \in AnswerBytes
  BY <1>1 DEF AnswerBytes, AnswerSize
<1>3. n \in Nat
  BY <1>1 DEF AnswerSize
<1> QED
  BY <1>2, <1>3 DEF NextPiece

\* Every step keeps the streams of answers.
LEMMA StreamsStep == TypeOK /\ [Next]_vars => StreamsOK'
<1> SUFFICES ASSUME TypeOK, [Next]_vars PROVE StreamsOK'
  OBVIOUS
<1>0. stream \in Seq(AnswerBytes) /\ answers \in Seq(AnswerBytes)
  BY TypeOKParts DEF StreamsOK
<1>1. CASE WriteSome
  <2>1. PICK n \in 1 .. (AnswerSize - n_sent) :
          stream' = IF client = "open" THEN stream \o NextPiece(n) ELSE stream
    BY <1>1 DEF WriteSome
  <2>2. stream' \in Seq(AnswerBytes)
    BY <1>0, <2>1, PieceType
  <2> QED
    BY <1>0, <1>1, <2>2 DEF WriteSome, StreamsOK, clientVars
<1>2. CASE Close \/ Return
  <2>1. PICK n \in 0 .. Len(stream) : stream' = SubSeq(stream, 1, n)
    BY <1>2 DEF Close, Return, CloseSocket
  <2>2. stream' \in Seq(AnswerBytes)
    BY <1>0, <2>1
  <2> QED
    BY <1>0, <1>2, <2>2 DEF Close, Return, StreamsOK, clientVars
<1>3. CASE ReadsAnswer
  BY <1>0, <1>3 DEF ReadsAnswer, StreamsOK
<1>4. CASE GoesAway
  BY <1>0, <1>4 DEF GoesAway, StreamsOK
<1>5. CASE UNCHANGED <<stream, answers>>
  BY <1>0, <1>5 DEF StreamsOK
<1>6. CASE Accept \/ PollUnavail \/ PollReady \/ ReadSome \/ ReadEnd \/ Handle \/ Drain
           \/ Fault \/ Disconnect
  BY <1>5, <1>6 DEF Accept, PollUnavail, PollReady, ReadSome, ReadEnd, Handle, Drain,
     Disconnect, Fault, ConnectFails, PollFails, ReadFails, WriteFails, DrainFails, clientVars, vars
<1>7. CASE Connects \/ Asks \/ SendsSome \/ Closes \/ UNCHANGED vars
  BY <1>5, <1>7 DEF Connects, Asks, SendsSome, Closes, vars, clientVars
<1> QED
  BY <1>1, <1>2, <1>3, <1>4, <1>6, <1>7 DEF Next, Server, Ends, Client

\* Every step keeps the requests; only the client makes one.
LEMMA RequestsStep ==
  ASSUME TypeOK, [Next]_vars
  PROVE  /\ RequestsOK'
         /\ Len(reqs) \in Nat /\ Len(reqs') \in Nat /\ Len(reqs) <= Len(reqs')
         /\ UNCHANGED reqs \/ Asks
<1>0. reqs \in Seq(Ops) /\ Len(reqs) <= MaxRequests /\ Len(reqs) \in Nat
  BY TypeOKParts DEF RequestsOK
<1>1. CASE Asks
  <2>1. PICK op \in Ops : reqs' = Append(reqs, op)
    BY <1>1 DEF Asks
  <2>2. reqs' \in Seq(Ops) /\ Len(reqs') = Len(reqs) + 1
    BY <1>0, <2>1
  <2> QED
    BY <1>0, <1>1, <2>2, DebugClientAssumption DEF RequestsOK, Asks
<1>2. CASE UNCHANGED reqs
  BY <1>0, <1>2 DEF RequestsOK
<1>3. Asks \/ UNCHANGED reqs
  <2>1. CASE Server \/ Fault \/ Ends
    BY <2>1 DEF Server, Fault, Ends, Accept, PollUnavail, PollReady, ReadSome, ReadEnd,
       Handle, WriteSome, Drain, Close, ConnectFails, PollFails, ReadFails, WriteFails, DrainFails,
       Return, Disconnect, clientVars, vars
  <2>2. CASE Client \/ UNCHANGED vars
    BY <2>2 DEF Client, Connects, SendsSome, ReadsAnswer, Closes, GoesAway, vars,
       clientVars
  <2> QED
    BY <2>1, <2>2 DEF Next
<1> QED
  BY <1>1, <1>2, <1>3

\* What the invariant says of the numbers, with the constants in place.
Numbers ==
  /\ taken \in Nat /\ sent \in Nat /\ handled \in Nat /\ rsp_data \in Nat
  /\ taken <= sent /\ handled <= Len(reqs) /\ rsp_data <= handled
  /\ sent <= 7 * Len(reqs) /\ Len(reqs) \in Nat
  /\ n_recd \in 0 .. 7 /\ n_sent \in 0 .. 3
  /\ frame \in [1 .. 7 -> Nat]
  /\ pc = "handling" => taken = 7 * (handled + 1)
  /\ pc = "sending" => rsp_data + 1 <= handled

\* They follow from the types and the counts.
LEMMA NumbersFacts == StreamInv => Numbers
<1> SUFFICES ASSUME StreamInv PROVE Numbers
  OBVIOUS
<1>1. TypeOK /\ RequestInv /\ CountInv /\ StreamsOK /\ RequestsOK /\ NumbersOK
  BY TypeOKParts DEF StreamInv
<1>2. Len(reqs) \in Nat
  BY <1>1 DEF RequestsOK
<1>3. pc = "sending" => rsp_data + 1 <= handled
  BY <1>1, ReadsBounded DEF CountInv, InLoop, NumbersOK
<1>4. sent \in Nat /\ handled \in Nat
  BY <1>1, <1>2 DEF NumbersOK, RequestSize
<1> QED
  BY <1>1, <1>2, <1>3, <1>4 DEF Numbers, NumbersOK, RequestSize, AnswerSize, RequestInv

\* Every step of the server keeps the numbers within their bounds.
LEMMA ServerNumbersStep == StreamInv /\ Server => NumbersOK'
<1> SUFFICES ASSUME StreamInv, Server PROVE NumbersOK'
  OBVIOUS
<1> USE DEF ServerSteps, RequestSize, AnswerSize
<1>0. NumbersOK
  BY TypeOKParts DEF StreamInv
<1>n. Numbers
  BY NumbersFacts
<1>1. CASE Accept
  BY <1>0, <1>n, <1>1 DEF Numbers, Accept, NumbersOK, clientVars
<1>2. CASE PollUnavail \/ PollReady
  <2>1. CASE PollUnavail
    BY <1>0, <2>1 DEF PollUnavail, NumbersOK, clientVars
  <2>2. CASE PollReady
    <3>1. frame' \in [1 .. 7 -> Nat] /\ n_recd' \in 0 .. 7 /\ pc' \in ServerSteps
      BY <2>2 DEF PollReady
    <3> QED
      BY <1>0, <2>2, <3>1 DEF PollReady, NumbersOK, clientVars
  <2> QED
    BY <1>2, <2>1, <2>2
<1>3. CASE ReadSome
  <2>1. PICK n \in 1 .. Wanted : n <= available /\ frame' = Placed(n)
                                 /\ n_recd' = n_recd + n /\ taken' = taken + n
    BY <1>3 DEF ReadSome
  <2>2. n \in Nat /\ n_recd + n <= 7 /\ taken + n <= sent
    BY <1>n, <2>1 DEF Numbers, Wanted, available
  <2>3. Placed(n) \in [1 .. 7 -> Nat]
    <3>1. \A i \in 1 .. 7 : i \in (n_recd + 1) .. (n_recd + n) => taken + (i - n_recd) \in Nat
      BY <1>n, <2>2 DEF Numbers
    <3> QED
      BY <1>n, <2>2, <3>1 DEF Numbers, Placed
  <2>4. pc' \in ServerSteps /\ status' \in {DMI_STATUS_ERR, DMI_STATUS_OK, DMI_STATUS_UNAVAIL}
    BY <1>0, <1>n, <1>3 DEF Numbers, ReadSome, NumbersOK
  <2>5. UNCHANGED <<handled, rsp_data, n_sent, reqs, sent, client>>
    BY <1>3 DEF ReadSome, clientVars
  <2> QED
    <3>1. n_recd' \in 0 .. 7 /\ taken' \in 0 .. sent'
      BY <1>n, <2>1, <2>2, <2>5, SMTT(20) DEF Numbers
    <3> QED
      BY <1>0, <2>1, <2>3, <2>4, <2>5, <3>1 DEF NumbersOK
<1>4. CASE ReadEnd
  BY <1>0, <1>n, <1>4 DEF Numbers, ReadEnd, NumbersOK, vars, serverVars, clientVars
<1>5. CASE Handle
  <2>1. handled + 1 \in 0 .. Len(reqs)
    <3>1. pc = "handling"
      BY <1>5 DEF Handle
    <3>2. 7 * (handled + 1) <= 7 * Len(reqs)
      BY <1>n, <3>1 DEF Numbers
    <3> QED
      BY <1>n, <3>2 DEF Numbers
  <2>2. pc' \in {"left", "sending", "poll"}
    BY <1>5 DEF Handle
  <2> QED
    BY <1>0, <1>n, <1>5, <2>1, <2>2, SMTT(20) DEF Numbers, Handle, NumbersOK, clientVars
<1>6. CASE WriteSome
  <2>1. PICK n \in 1 .. (4 - n_sent) :
          IF n_sent + n < 4
          THEN n_sent' = n_sent + n /\ UNCHANGED <<pc, rsp_data>>
          ELSE n_sent' = 0 /\ rsp_data' = rsp_data + 1 /\ pc' = "poll"
    BY <1>6 DEF WriteSome
  <2>2. rsp_data' \in 0 .. handled /\ n_sent' \in 0 .. 3 /\ pc' \in ServerSteps
    <3>1. pc = "sending"
      BY <1>6 DEF WriteSome
    <3>2. CASE n_sent + n < 4
      BY <1>n, <2>1, <3>1, <3>2, SMTT(20) DEF Numbers
    <3>3. CASE ~(n_sent + n < 4)
      BY <1>n, <2>1, <3>1, <3>3 DEF Numbers
    <3> QED
      BY <3>2, <3>3
  <2> QED
    BY <1>0, <1>n, <1>6, <2>2 DEF Numbers, WriteSome, NumbersOK, clientVars
<1>7. CASE Drain \/ Close
  <2>1. taken' \in 0 .. sent
    <3>1. taken' = taken \/ taken' = sent
      BY <1>7 DEF Drain, Close
    <3> QED
      BY <1>n, <3>1, SMTT(20) DEF Numbers
  <2>2. UNCHANGED <<status, frame, n_recd, handled, rsp_data, n_sent, clientVars>>
    BY <1>7 DEF Drain, Close
  <2>3. pc' \in ServerSteps
    BY <1>0, <1>7 DEF Drain, Close, NumbersOK
  <2> QED
    BY <1>0, <2>1, <2>2, <2>3 DEF NumbersOK, clientVars
<1> QED
  BY <1>1, <1>2, <1>3, <1>4, <1>5, <1>6, <1>7 DEF Server

\* Every step keeps the numbers within their bounds.
LEMMA NumbersStep == StreamInv /\ [Next]_vars => NumbersOK'
<1> SUFFICES ASSUME StreamInv, [Next]_vars PROVE NumbersOK'
  OBVIOUS
<1> USE DEF ServerSteps, RequestSize, AnswerSize
<1>0. NumbersOK /\ TypeOK
  BY TypeOKParts DEF StreamInv
<1>n. Numbers
  BY NumbersFacts
<1>1. CASE Fault
  BY <1>0, <1>n, <1>1 DEF Numbers, Fault, ConnectFails, PollFails, ReadFails, WriteFails,
     DrainFails, NumbersOK, clientVars
<1>2. CASE Ends
  BY <1>0, <1>n, <1>2 DEF Numbers, Ends, Return, Disconnect, AfterShutdown, NumbersOK, clientVars
<1>3. CASE Client
  <2>1. Len(reqs) <= Len(reqs') /\ Len(reqs') \in Nat
    BY <1>0, RequestsStep
  <2>2. UNCHANGED serverVars
    BY <1>3 DEF Client, Connects, Asks, SendsSome, ReadsAnswer, Closes, GoesAway
  <2>3. sent' \in Nat /\ sent <= sent' /\ sent' <= 7 * Len(reqs')
    <3>1. CASE UNCHANGED sent
      BY <1>n, <2>1, <3>1 DEF Numbers
    <3>2. CASE SendsSome
      BY <1>n, <3>2, SMTT(20) DEF Numbers, SendsSome
    <3> QED
      BY <1>3, <3>1, <3>2 DEF Client, Connects, Asks, SendsSome, ReadsAnswer, Closes, GoesAway
  <2>4. client' \in {"away", "open", "closed", "reset"}
    BY <1>0, <1>n, <1>3 DEF Numbers, Client, Connects, Asks, SendsSome, ReadsAnswer, Closes, GoesAway,
       NumbersOK
  <2>5. sent' \in 0 .. RequestSize * Len(reqs')
    BY <2>3
  <2>6. taken' \in 0 .. sent' /\ handled' \in 0 .. Len(reqs') /\ rsp_data' \in 0 .. handled'
    BY <1>n, <2>1, <2>2, <2>3, SMTT(20) DEF Numbers, serverVars
  <2> QED
    BY <1>0, <2>2, <2>4, <2>5, <2>6 DEF NumbersOK, serverVars
<1>4. CASE UNCHANGED vars
  BY <1>0, <1>n, <1>4 DEF Numbers, vars, serverVars, clientVars, NumbersOK
<1> QED
  BY <1>1, <1>2, <1>3, <1>4, ServerNumbersStep DEF Next

\* Every step keeps the types.
LEMMA TypeOKStep == StreamInv /\ [Next]_vars => TypeOK'
<1> SUFFICES ASSUME StreamInv, [Next]_vars PROVE TypeOK'
  OBVIOUS
<1>1. StreamsOK' /\ RequestsOK' /\ NumbersOK'
  BY StreamsStep, RequestsStep, NumbersStep DEF StreamInv
<1> QED
  BY <1>1 DEF TypeOK, StreamsOK, RequestsOK, NumbersOK, AnswerBytes
-----------------------------------------------------------------------------
\* Every step keeps what is known of the request being received.
LEMMA RequestStep == StreamInv /\ [Next]_vars => RequestInv'
<1> SUFFICES ASSUME StreamInv, [Next]_vars PROVE RequestInv'
  OBVIOUS
<1>0. RequestInv /\ QuietInv /\ TypeOK
  BY DEF StreamInv
<1>n. Numbers
  BY NumbersFacts
<1>1. CASE Accept
  BY <1>0, <1>1 DEF Accept, QuietInv, RequestInv, RequestSize
<1>2. CASE PollReady
  BY <1>0, <1>n, <1>2 DEF PollReady, RequestInv, FrameHolds, RequestSize, Numbers
<1>3. CASE ReadSome
  <2>1. PICK n \in 1 .. Wanted : frame' = Placed(n) /\ n_recd' = n_recd + n
                                 /\ taken' = taken + n
    BY <1>3 DEF ReadSome
  <2>2. n \in Nat /\ n >= 1 /\ n_recd + n <= 7
    BY <1>n, <2>1 DEF Numbers, Wanted, RequestSize
  <2>3. taken = 7 * handled + n_recd /\ FrameHolds(n_recd) /\ UNCHANGED handled
    BY <1>0, <1>3 DEF ReadSome, RequestInv, RequestSize
  <2>4. ASSUME NEW i \in 1 .. (n_recd + n) PROVE frame'[i] = 7 * handled + i
    <3>1. i \in 1 .. 7
      BY <1>n, <2>2 DEF Numbers
    <3>2. frame'[i] = IF i \in (n_recd + 1) .. (n_recd + n) THEN taken + (i - n_recd) ELSE frame[i]
      BY <2>1, <3>1 DEF Placed, RequestSize
    <3>3. CASE i \in (n_recd + 1) .. (n_recd + n)
      BY <1>n, <2>2, <2>3, <3>2, <3>3 DEF Numbers
    <3>4. CASE i \in 1 .. n_recd
      <4>1. frame[i] = 7 * handled + i
        BY <2>3, <3>4 DEF FrameHolds, RequestSize
      <4>2. i \notin (n_recd + 1) .. (n_recd + n)
        BY <1>n, <2>2, <3>4 DEF Numbers
      <4> QED
        BY <3>2, <4>1, <4>2
    <3> QED
      BY <1>n, <2>2, <3>3, <3>4 DEF Numbers
  <2>5. taken' = 7 * handled' + n_recd'
    BY <1>n, <2>1, <2>2, <2>3 DEF Numbers
  <2>6. CASE n_recd' < 7
    <3>1. pc' = "reading"
      BY <1>3, <2>6 DEF ReadSome, RequestSize
    <3> QED
      BY <2>1, <2>3, <2>4, <2>5, <2>6, <3>1 DEF RequestInv, FrameHolds, RequestSize
  <2>7. CASE n_recd' = 7
    <3>1. pc' = "handling"
      BY <1>3, <2>7 DEF ReadSome, RequestSize
    <3>2. taken' = 7 * (handled' + 1)
      BY <1>n, <2>3, <2>5, <2>7 DEF Numbers
    <3> QED
      BY <2>1, <2>3, <2>4, <2>7, <3>1, <3>2 DEF RequestInv, FrameHolds, RequestSize
  <2> QED
    BY <1>n, <2>1, <2>2, <2>6, <2>7 DEF Numbers
<1>4. CASE Handle
  <2>1. taken' = 7 * handled' /\ pc' \in {"left", "sending", "poll"}
    BY <1>n, <1>4 DEF Handle, Numbers
  <2> QED
    BY <2>1 DEF RequestInv, RequestSize
<1>5. CASE WriteSome
  <2>1. pc = "sending" /\ pc' \in {"sending", "poll"} /\ UNCHANGED <<taken, handled>>
    BY <1>5 DEF WriteSome
  <2> QED
    BY <1>0, <2>1 DEF RequestInv, RequestSize
<1>6. CASE pc' \notin {"poll", "reading", "handling", "sending"}
  BY <1>6 DEF RequestInv
<1>7. CASE UNCHANGED <<pc, taken, handled, n_recd, frame>>
  BY <1>0, <1>7 DEF RequestInv, FrameHolds
<1>8. CASE Fault \/ Ends \/ Drain \/ Close
  BY <1>6, <1>7, <1>8 DEF Fault, Ends, Drain, Close, ConnectFails, PollFails, ReadFails,
     WriteFails, DrainFails, Return, Disconnect, AfterShutdown
<1>9. CASE Client \/ PollUnavail \/ ReadEnd \/ UNCHANGED vars
  BY <1>7, <1>9 DEF Client, Connects, Asks, SendsSome, ReadsAnswer, Closes, GoesAway,
     PollUnavail, ReadEnd, serverVars, vars
<1> QED
  BY <1>1, <1>2, <1>3, <1>4, <1>5, <1>8, <1>9 DEF Next, Server

\* Every step keeps what is known of the steps at which nothing is written.
LEMMA QuietStep == StreamInv /\ [Next]_vars => QuietInv'
<1> SUFFICES ASSUME StreamInv, [Next]_vars PROVE QuietInv'
  OBVIOUS
<1>0. QuietInv /\ TypeOK
  BY DEF StreamInv
<1>1. CASE Server
  <2>1. CASE WriteSome
    <3>1. pc' \in {"poll", "sending"} /\ (pc' = "poll" => n_sent' = 0)
      BY <2>1 DEF WriteSome
    <3> QED
      BY <3>1 DEF QuietInv
  <2>2. CASE Accept \/ PollUnavail \/ PollReady \/ Handle \/ Drain \/ Close
    BY <1>0, <2>2 DEF Accept, PollUnavail, PollReady, Handle, Drain, Close, QuietInv,
       clientVars
  <2>3. CASE ReadSome
    <3>1. pc = "reading" /\ pc' \in {"reading", "handling"} /\ UNCHANGED n_sent
      BY <2>3 DEF ReadSome
    <3> QED
      BY <1>0, <3>1 DEF QuietInv
  <2>4. CASE ReadEnd
    BY <1>0, <2>4 DEF ReadEnd, vars, serverVars, clientVars, QuietInv
  <2> QED
    BY <1>1, <2>1, <2>2, <2>3, <2>4 DEF Server
<1>2. CASE Fault \/ Ends
  BY <1>2 DEF Fault, Ends, ConnectFails, PollFails, ReadFails, WriteFails, DrainFails, Return,
     Disconnect, AfterShutdown, QuietInv
<1>3. CASE Client
  <2>1. CASE ReadsAnswer
    BY <1>0, <2>1 DEF ReadsAnswer, QuietInv, serverVars
  <2>2. CASE Connects \/ Asks \/ SendsSome \/ Closes \/ GoesAway
    BY <1>0, <2>2 DEF Connects, Asks, SendsSome, Closes, GoesAway, QuietInv, serverVars
  <2> QED
    BY <1>3, <2>1, <2>2 DEF Client
<1>4. CASE UNCHANGED vars
  BY <1>0, <1>4 DEF vars, serverVars, clientVars, QuietInv
<1> QED
  BY <1>1, <1>2, <1>3, <1>4 DEF Next

\* Every step keeps the count of the answers: one for each read handled.
LEMMA CountStep == StreamInv /\ [Next]_vars => CountInv'
<1> SUFFICES ASSUME StreamInv, [Next]_vars PROVE CountInv'
  OBVIOUS
<1>0. CountInv /\ QuietInv /\ RequestInv /\ TypeOK
  BY DEF StreamInv
<1>n. Numbers /\ ReadsHandled \in Nat /\ ReadsHandled <= handled
  BY <1>0, NumbersFacts, ReadsBounded
<1>1. CASE Handle
  <2>1. ReadsHandled' = ReadsHandled + (IF reqs[handled + 1] = DMI_OP_READ THEN 1 ELSE 0)
    BY <1>0, <1>1, NextReadCounted DEF Handle, clientVars
  <2>2. OpOf(frame) = reqs[handled + 1]
    BY <1>0, <1>1, OperationOfFrame DEF Handle, RequestInv
  <2>3. rsp_data' = ReadsHandled
    BY <1>0, <1>n, <1>1 DEF Handle, CountInv, InLoop
  <2>4. CASE reqs[handled + 1] = DMI_OP_READ
    <3>1. pc' = "sending"
      BY <1>1, <2>2, <2>4 DEF Handle, DMI_OP_READ, DMI_OP_SHUTDOWN
    <3> QED
      BY <1>n, <2>1, <2>3, <2>4, <3>1 DEF CountInv
  <2>5. CASE reqs[handled + 1] # DMI_OP_READ
    <3>1. pc' \in {"left", "poll"}
      BY <1>1, <2>2, <2>5 DEF Handle
    <3> QED
      BY <1>n, <2>1, <2>3, <2>5, <3>1 DEF CountInv
  <2> QED
    BY <2>4, <2>5
<1>2. ASSUME UNCHANGED handled PROVE ReadsHandled' = ReadsHandled
  BY <1>0, <1>2, RequestsStep, ReadsKept DEF Asks
<1>3. CASE WriteSome
  <2>1. PICK n \in 1 .. (AnswerSize - n_sent) :
          IF n_sent + n < AnswerSize
          THEN n_sent' = n_sent + n /\ UNCHANGED <<pc, rsp_data>>
          ELSE n_sent' = 0 /\ rsp_data' = rsp_data + 1 /\ pc' = "poll"
    BY <1>3 DEF WriteSome
  <2>2. pc = "sending" /\ rsp_data = ReadsHandled - 1 /\ ReadsHandled' = ReadsHandled
    BY <1>0, <1>2, <1>3 DEF WriteSome, CountInv, InLoop
  <2> QED
    BY <1>n, <2>1, <2>2, SMTT(20) DEF CountInv, Numbers
<1>4. CASE Accept
  <2>1. handled = 0 /\ rsp_data = 0 /\ pc' = "poll" /\ UNCHANGED <<handled, rsp_data>>
    BY <1>0, <1>4 DEF Accept, QuietInv
  <2> QED
    BY <1>n, <1>2, <2>1 DEF CountInv
<1>5. CASE /\ UNCHANGED <<handled, rsp_data>>
           /\ \/ UNCHANGED pc
              \/ InLoop /\ pc # "sending" /\ pc' # "sending"
              \/ ~InLoop'
  BY <1>0, <1>2, <1>5 DEF CountInv, InLoop
<1>6. CASE PollUnavail \/ PollReady \/ ReadSome \/ ReadEnd \/ Drain \/ Close
  BY <1>5, <1>6 DEF PollUnavail, PollReady, ReadSome, ReadEnd, Drain, Close, vars,
     serverVars, InLoop
<1>7. CASE Fault \/ Ends
  BY <1>5, <1>7 DEF Fault, Ends, ConnectFails, PollFails, ReadFails, WriteFails, DrainFails, Return,
     Disconnect, AfterShutdown, InLoop
<1>8. CASE Client \/ UNCHANGED vars
  BY <1>5, <1>8 DEF Client, Connects, Asks, SendsSome, ReadsAnswer, Closes, GoesAway,
     serverVars, vars
<1> QED
  BY <1>1, <1>3, <1>4, <1>6, <1>7, <1>8 DEF Next, Server
-----------------------------------------------------------------------------
\* A step that takes bytes from the end, or none, leaves them what they were.
LEMMA ShorterBytes ==
  ASSUME BytesInv, TypeOK, StreamsOK', UNCHANGED answers,
         NEW n \in 0 .. Len(stream), Len(stream') = n,
         \A i \in 1 .. n : stream'[i] = stream[i]
  PROVE  BytesInv'
<1>1. /\ answers \in Seq(AnswerBytes) /\ stream \in Seq(AnswerBytes)
      /\ stream' \in Seq(AnswerBytes)
  BY TypeOKParts DEF StreamsOK
<1>2. Len(Bytes) = Len(answers) + Len(stream) /\ Len(Bytes') = Len(answers) + n
  BY <1>1 DEF Bytes
<1>3. ASSUME NEW i \in 1 .. Len(Bytes') PROVE Bytes'[i] = Bytes[i] /\ i \in 1 .. Len(Bytes)
  <2>1. CASE i <= Len(answers)
    BY <1>1, <1>2, <2>1 DEF Bytes
  <2>2. CASE i > Len(answers)
    <3>1. i - Len(answers) \in 1 .. n
      BY <1>1, <1>2, <2>2
    <3> QED
      BY <1>1, <1>2, <2>2, <3>1 DEF Bytes
  <2> QED
    BY <1>1, <1>2, <2>1, <2>2
<1> QED
  BY <1>3 DEF BytesInv, Byte

\* Moving the first byte on its way to those that have arrived changes nothing.
LEMMA ReadBytes ==
  ASSUME TypeOK, ReadsAnswer
  PROVE  Bytes' = Bytes
<1>1. /\ answers \in Seq(AnswerBytes) /\ stream \in Seq(AnswerBytes) /\ stream # <<>>
      /\ answers' = Append(answers, Head(stream)) /\ stream' = Tail(stream)
  BY TypeOKParts DEF StreamsOK, ReadsAnswer
<1>2. Head(stream) = stream[1] /\ Len(stream) >= 1
  BY <1>1
<1>3. Head(stream) \in AnswerBytes
  BY <1>1
<1>4. answers' \in Seq(AnswerBytes) /\ stream' \in Seq(AnswerBytes)
  BY <1>1, <1>3
<1>5. Bytes \in Seq(AnswerBytes) /\ Bytes' \in Seq(AnswerBytes) /\ Len(Bytes') = Len(Bytes)
  BY <1>1, <1>4 DEF Bytes
<1>6. ASSUME NEW i \in 1 .. Len(Bytes) PROVE Bytes'[i] = Bytes[i]
  <2>1. Len(Bytes) = Len(answers) + Len(stream) /\ Len(answers') = Len(answers) + 1
    BY <1>1, <1>3 DEF Bytes
  <2>2. CASE i <= Len(answers)
    BY <1>1, <1>3, <1>4, <2>1, <2>2 DEF Bytes
  <2>3. CASE i = Len(answers) + 1
    BY <1>1, <1>2, <1>3, <1>4, <2>1, <2>3 DEF Bytes
  <2>4. CASE i > Len(answers) + 1
    <3>1. i - Len(answers') \in 1 .. Len(stream')
      BY <1>1, <2>1, <2>4
    <3>2. Bytes'[i] = stream'[i - Len(answers')]
      BY <1>4, <2>1, <2>4, <3>1 DEF Bytes
    <3>3. stream'[i - Len(answers')] = stream[i - Len(answers)]
      BY <1>1, <2>1, <3>1
    <3>4. Bytes[i] = stream[i - Len(answers)]
      BY <1>1, <2>1, <2>4 DEF Bytes
    <3> QED
      BY <3>2, <3>3, <3>4
  <2> QED
    BY <1>1, <2>1, <2>2, <2>3, <2>4
<1> QED
  BY <1>5, <1>6, SeqEqual

\* A piece that is written goes behind the bytes before it, and continues them.
LEMMA WrittenBytes ==
  ASSUME StreamInv, UNCHANGED answers, pc = "sending", client = "open",
         NEW n \in 1 .. (AnswerSize - n_sent), stream' = stream \o NextPiece(n)
  PROVE  BytesInv' /\ Len(Bytes') = AnswerSize * rsp_data + n_sent + n
<1>1. /\ answers \in Seq(AnswerBytes) /\ stream \in Seq(AnswerBytes)
      /\ NextPiece(n) \in Seq(AnswerBytes) /\ Len(NextPiece(n)) = n
      /\ \A i \in 1 .. n : NextPiece(n)[i] = <<rsp_data + 1, n_sent + i>>
  BY TypeOKParts, PieceType DEF StreamsOK, StreamInv
<1>2. BytesInv /\ Len(Bytes) = AnswerSize * rsp_data + n_sent
  BY DEF StreamInv, LengthInv, InLoop
<1>3. rsp_data \in Nat /\ n_sent \in 0 .. 3 /\ n \in 1 .. (4 - n_sent)
  BY NumbersFacts DEF Numbers, AnswerSize
<1>4. Bytes \in Seq(AnswerBytes) /\ Bytes' = Bytes \o NextPiece(n)
  <2>1. Bytes' = answers \o (stream \o NextPiece(n))
    BY DEF Bytes
  <2> QED
    BY <1>1, <2>1, ConcatAssociative, SMTT(20) DEF Bytes
<1>5. Len(Bytes') = Len(Bytes) + n
  BY <1>1, <1>4, ConcatProperties
<1>6. ASSUME NEW i \in 1 .. Len(Bytes') PROVE Bytes'[i] = Byte(i)
  <2>1. CASE i <= Len(Bytes)
    <3>1. Bytes'[i] = Bytes[i] /\ i \in 1 .. Len(Bytes)
      BY <1>1, <1>4, <1>5, <2>1
    <3> QED
      BY <1>2, <3>1 DEF BytesInv
  <2>2. CASE i > Len(Bytes)
    <3> DEFINE j == i - Len(Bytes)
    <3>1. j \in 1 .. n
      BY <1>3, <1>4, <1>5, <2>2
    <3>2. Bytes'[i] = NextPiece(n)[j]
      BY <1>1, <1>4, <1>5, <2>2, <3>1
    <3>3. i = AnswerSize * rsp_data + (n_sent + j)
      BY <1>2, <1>3, <3>1 DEF AnswerSize
    <3>4. n_sent + j \in 1 .. AnswerSize
      BY <1>3, <3>1 DEF AnswerSize
    <3>5. Byte(i) = <<rsp_data + 1, n_sent + j>>
      BY <1>3, <3>3, <3>4, ByteOfAnswer
    <3> QED
      BY <1>1, <3>1, <3>2, <3>5
  <2> QED
    BY <1>3, <1>4, <1>5, <2>1, <2>2
<1>7. BytesInv'
  BY <1>6 DEF BytesInv, Byte
<1>8. Len(Bytes') = AnswerSize * rsp_data + n_sent + n
  BY <1>2, <1>3, <1>5 DEF AnswerSize
<1> QED
  BY <1>7, <1>8

\* Every step keeps the bytes of the answers, and their number while the client
\* is there to read them.
LEMMA BytesStep == StreamInv /\ [Next]_vars => BytesInv' /\ LengthInv'
<1> SUFFICES ASSUME StreamInv, [Next]_vars PROVE BytesInv' /\ LengthInv'
  OBVIOUS
<1>0. BytesInv /\ LengthInv /\ QuietInv /\ TypeOK /\ StreamsOK /\ StreamsOK'
  BY StreamsStep, TypeOKParts DEF StreamInv
<1>n. Numbers
  BY NumbersFacts
<1>1. CASE WriteSome
  <2>1. PICK n \in 1 .. (AnswerSize - n_sent) :
          /\ stream' = IF client = "open" THEN stream \o NextPiece(n) ELSE stream
          /\ IF n_sent + n < AnswerSize
             THEN n_sent' = n_sent + n /\ UNCHANGED <<pc, rsp_data>>
             ELSE n_sent' = 0 /\ rsp_data' = rsp_data + 1 /\ pc' = "poll"
    BY <1>1 DEF WriteSome
  <2>2. pc = "sending" /\ UNCHANGED <<answers, client>>
    BY <1>1 DEF WriteSome, clientVars
  <2>3. CASE client = "open"
    <3>1. BytesInv' /\ Len(Bytes') = AnswerSize * rsp_data + n_sent + n
      BY <2>1, <2>2, <2>3, WrittenBytes
    <3>2. AnswerSize * rsp_data' + n_sent' = AnswerSize * rsp_data + n_sent + n
      <4>1. CASE n_sent + n < 4
        BY <1>n, <2>1, <4>1 DEF Numbers, AnswerSize
      <4>2. CASE ~(n_sent + n < 4)
        <5>1. n_sent + n = 4 /\ n_sent' = 0 /\ rsp_data' = rsp_data + 1
          BY <1>n, <2>1, <4>2 DEF Numbers, AnswerSize
        <5> QED
          BY <1>n, <5>1 DEF Numbers, AnswerSize
      <4> QED
        BY <4>1, <4>2
    <3> QED
      BY <2>2, <3>1, <3>2 DEF LengthInv
  <2>4. CASE client # "open"
    <3>1. UNCHANGED <<answers, stream>>
      BY <2>1, <2>2, <2>4
    <3> QED
      BY <1>0, <2>2, <2>4, <3>1 DEF BytesInv, LengthInv, Bytes, Byte
  <2> QED
    BY <2>3, <2>4
<1>2. CASE Close \/ Return
  <2>1. PICK n \in 0 .. Len(stream) : stream' = SubSeq(stream, 1, n)
    BY <1>2 DEF Close, Return, CloseSocket
  <2>2. Len(stream') = n /\ \A i \in 1 .. n : stream'[i] = stream[i]
    BY <1>0, <2>1 DEF StreamsOK
  <2>3. UNCHANGED answers /\ pc' \in {"gone", "returned"}
    BY <1>2 DEF Close, Return, clientVars
  <2> QED
    BY <1>0, <2>2, <2>3, ShorterBytes DEF LengthInv, InLoop
<1>3. CASE GoesAway
  <2>1. UNCHANGED answers /\ stream' = <<>> /\ client' # "open"
    BY <1>3 DEF GoesAway
  <2>2. Len(stream') = 0 /\ 0 \in 0 .. Len(stream) /\ \A i \in 1 .. 0 : stream'[i] = stream[i]
    BY <1>0, <2>1 DEF StreamsOK
  <2>3. BytesInv'
    BY <1>0, <2>1, <2>2, ShorterBytes
  <2> QED
    BY <2>1, <2>3 DEF LengthInv
<1>4. CASE ReadsAnswer
  <2>1. Bytes' = Bytes /\ UNCHANGED <<pc, client, rsp_data, n_sent>>
    BY <1>0, <1>4, ReadBytes DEF ReadsAnswer, serverVars
  <2> QED
    BY <1>0, <2>1 DEF BytesInv, LengthInv, InLoop
<1>5. CASE Accept \/ Connects
  <2>1. pc = "connecting" /\ UNCHANGED <<answers, stream, rsp_data, n_sent>>
    BY <1>5 DEF Accept, Connects, serverVars, clientVars
  <2>2. Len(Bytes) = 0 /\ rsp_data = 0 /\ n_sent = 0
    BY <1>0, <2>1 DEF QuietInv, Bytes
  <2>3. Bytes' = Bytes
    BY <2>1 DEF Bytes
  <2> QED
    BY <1>0, <2>1, <2>2, <2>3 DEF BytesInv, LengthInv, AnswerSize
<1>6. CASE /\ UNCHANGED <<answers, stream, rsp_data, n_sent>>
           /\ InLoop' => InLoop
           /\ client' = "open" => client = "open"
  <2>1. Bytes' = Bytes
    BY <1>6 DEF Bytes
  <2> QED
    BY <1>0, <1>6, <2>1 DEF BytesInv, LengthInv
<1>7. CASE PollUnavail \/ PollReady \/ ReadSome \/ ReadEnd \/ Handle \/ Drain
  BY <1>6, <1>7 DEF PollUnavail, PollReady, ReadSome, ReadEnd, Handle, Drain, InLoop,
     vars, serverVars, clientVars
<1>8. CASE Fault \/ Disconnect
  BY <1>6, <1>8 DEF Fault, ConnectFails, PollFails, ReadFails, WriteFails, DrainFails, Disconnect,
     AfterShutdown, InLoop, clientVars
<1>9. CASE Asks \/ SendsSome \/ Closes \/ UNCHANGED vars
  BY <1>6, <1>9 DEF Asks, SendsSome, Closes, InLoop, vars, serverVars, clientVars
<1> QED
  BY <1>1, <1>2, <1>3, <1>4, <1>5, <1>7, <1>8, <1>9 DEF Next, Server, Ends, Client

\* The invariant is inductive.
LEMMA StreamInvStep == StreamInv /\ [Next]_vars => StreamInv'
  BY TypeOKStep, RequestStep, QuietStep, CountStep, BytesStep DEF StreamInv

\* It holds in every state.
LEMMA StreamInvHolds == Spec => []StreamInv
  BY InitStreamInv, StreamInvStep, PTL DEF Spec
-----------------------------------------------------------------------------
\* The variables have their types, for every number of requests: however the
\* bytes arrive, a request is never longer than its seven bytes, and the server
\* never reads beyond what was sent nor answers more than it has handled
\* (C_Imported_Functions.c:629-659, 702-741).
THEOREM TypeCorrect == Spec => []TypeOK
<1>1. StreamInv => TypeOK
  BY DEF StreamInv
<1> QED
  BY <1>1, StreamInvHolds, PTL

\* The invariant says that both streams keep their boundaries.
LEMMA StreamInvSuffices == StreamInv => StreamsIntact
<1> SUFFICES ASSUME StreamInv PROVE StreamsIntact
  OBVIOUS
<1>0. TypeOK /\ RequestInv /\ BytesInv /\ CountInv /\ LengthInv
  BY DEF StreamInv
<1>1. RequestsIntact
  <2>1. ASSUME pc = "handling"
        PROVE  frame = [i \in 1 .. RequestSize |-> RequestSize * handled + i]
    <3>1. FrameHolds(RequestSize) /\ frame \in [1 .. RequestSize -> Nat]
      BY <1>0, <2>1 DEF RequestInv, TypeOK
    <3> QED
      BY <3>1 DEF FrameHolds
  <2> QED
    BY <2>1 DEF RequestsIntact
<1>2. AnswersIntact
  BY <1>0 DEF AnswersIntact, BytesInv, Byte, Bytes, CountInv, LengthInv, InLoop
<1> QED
  BY <1>1, <1>2 DEF StreamsIntact

\* What is handled is the next request of the client, whole; and what the client
\* reads are the answers to its reads, each once, in order and without a gap:
\* for every number of requests, whatever pieces the socket makes of them,
\* whichever calls fail and whenever the client goes away
\* (C_Imported_Functions.c:633-659, 710-741, 768-817).
THEOREM StreamsAreIntact == Spec => []StreamsIntact
  BY StreamInvHolds, StreamInvSuffices, PTL
-----------------------------------------------------------------------------
\* Draining ends at the end of the client's stream or at a reset, and a client
\* that is gone has nothing left to read.
DrainedInv ==
  /\ pc = "closing" => client \in {"closed", "reset"}
  /\ client \in {"closed", "reset"} => stream = <<>>

\* What a socket drops of nothing is nothing.
LEMMA CloseOfEmpty == stream = <<>> /\ CloseSocket => stream' = <<>>
<1> SUFFICES ASSUME stream = <<>>, CloseSocket PROVE stream' = <<>>
  OBVIOUS
<1>1. PICK n \in 0 .. Len(stream) : stream' = SubSeq(stream, 1, n)
  BY DEF CloseSocket
<1>2. n = 0
  BY <1>1
<1> QED
  BY <1>1, <1>2

\* Every step keeps it: once the client is gone, nothing more is put on its way
\* to it, and it does not come back.
LEMMA DrainedStep == DrainedInv /\ [Next]_vars => DrainedInv'
<1> SUFFICES ASSUME DrainedInv, [Next]_vars PROVE DrainedInv'
  OBVIOUS
<1> USE DEF DrainedInv
<1>1. CASE Server
  <2>1. CASE WriteSome
    <3>1. pc' # "closing" /\ UNCHANGED client
      BY <2>1 DEF WriteSome, clientVars
    <3>2. client # "open" => stream' = stream
      BY <2>1 DEF WriteSome
    <3> QED
      BY <3>1, <3>2
  <2>2. CASE Handle
    <3>1. pc' # "closing" /\ UNCHANGED <<client, stream>>
      BY <2>2 DEF Handle, clientVars
    <3> QED
      BY <3>1
  <2>3. CASE Drain
    BY <2>3 DEF Drain, DrainOver, clientVars
  <2>4. CASE Close
    BY <2>4, CloseOfEmpty DEF Close, clientVars
  <2>5. CASE Accept \/ PollUnavail \/ PollReady
    BY <2>5 DEF Accept, PollUnavail, PollReady, clientVars
  <2>6. CASE ReadSome \/ ReadEnd
    <3>1. pc' # "closing" /\ UNCHANGED <<client, stream>>
      BY <2>6 DEF ReadSome, ReadEnd, vars, serverVars, clientVars
    <3> QED
      BY <3>1
  <2> QED
    BY <1>1, <2>1, <2>2, <2>3, <2>4, <2>5, <2>6 DEF Server
<1>2. CASE Fault
  BY <1>2 DEF Fault, ConnectFails, PollFails, ReadFails, WriteFails, DrainFails, clientVars
<1>3. CASE Ends
  BY <1>3, CloseOfEmpty DEF Ends, Return, Disconnect, AfterShutdown, clientVars
<1>4. CASE Client
  BY <1>4 DEF Client, Connects, Asks, SendsSome, ReadsAnswer, Closes, GoesAway, serverVars
<1>5. CASE UNCHANGED vars
  BY <1>5 DEF vars, serverVars, clientVars
<1> QED
  BY <1>1, <1>2, <1>3, <1>4, <1>5 DEF Next

\* No answer is lost in a disconnect: when the server closes the socket, with no
\* linger time, the client has ended the connection and nothing is on its way to
\* it, for every number of requests and whichever calls fail but those that drain
\* the connection (C_Imported_Functions.c:486-489, 566-577).
THEOREM NothingIsLost == Spec => DisconnectLosesNothing
<1>1. Init => DrainedInv
  BY DEF Init, DrainedInv
<1>2. DrainedInv => (Close /\ pc # "failed" => (client \in {"closed", "reset"} /\ stream = <<>>))
  BY DEF DrainedInv, Close
<1> QED
  BY <1>1, <1>2, DrainedStep, PTL DEF Spec, DisconnectLosesNothing
=============================================================================
