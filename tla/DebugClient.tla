---------------------------- MODULE DebugClient ----------------------------
(***************************************************************************)
(* The connection of a remote debug client to a simulation: the functions  *)
(* c_debug_client_* of C_Imported_Functions.c, called in the order of that *)
(* file's own main, which a simulated debug module follows too.            *)
(*                                                                         *)
(* A request is seven bytes and an answer four, and TCP may deliver either *)
(* in any pieces.  The byte at position i of the client's stream belongs   *)
(* to request (i - 1) \div 7 + 1; the bytes of the k-th answer are <<k, 1>> *)
(* to <<k, 4>>.                                                            *)
(***************************************************************************)
EXTENDS Integers, Sequences, FiniteSets

CONSTANTS
  MaxRequests,  \* bound on the requests of the client
  MayLeave,     \* whether the client may go away when it likes
  MayFail       \* whether a system call may fail, as when it is interrupted

ASSUME DebugClientAssumption ==
  /\ MaxRequests \in Nat
  /\ MayLeave \in BOOLEAN
  /\ MayFail \in BOOLEAN

VARIABLES
  pc,        \* where the server is
  status,    \* what request_recv returned last
  frame,     \* the seven bytes of its result that hold a request
  n_recd,    \* how many of them it has received
  taken,     \* bytes the server has read from the client's stream
  handled,   \* requests handled
  rsp_data,  \* the next answer
  n_sent,    \* bytes written of that answer
  reqs,      \* the requests of the client, by operation
  sent,      \* bytes the client has sent
  client,    \* the client's end of the connection
  stream,    \* bytes of answers on their way
  answers    \* bytes of answers the client has read

serverVars == <<pc, status, frame, n_recd, taken, handled, rsp_data, n_sent>>
clientVars == <<reqs, sent, client, answers>>
vars == <<serverVars, clientVars, stream>>

-----------------------------------------------------------------------------
DMI_OP_READ == 1
DMI_OP_WRITE == 2
DMI_OP_SHUTDOWN == 3
DMI_OP_START_COMMAND == 4
Ops == {DMI_OP_READ, DMI_OP_WRITE, DMI_OP_SHUTDOWN, DMI_OP_START_COMMAND}

DMI_STATUS_ERR == 0
DMI_STATUS_OK == 1
DMI_STATUS_UNAVAIL == 2

RequestSize == 7
AnswerSize == 4

available == sent - taken

\* The operation is the first byte of a request, and other bytes are data.
OpOf(f) == reqs[((f[1] - 1) \div RequestSize) + 1]

Init ==
  /\ pc = "connecting"
  /\ status = DMI_STATUS_UNAVAIL
  /\ frame = [i \in 1 .. RequestSize |-> 0]
  /\ n_recd = 0
  /\ taken = 0
  /\ handled = 0
  /\ rsp_data = 0
  /\ n_sent = 0
  /\ reqs = <<>>
  /\ sent = 0
  /\ client = "away"
  /\ stream = <<>>
  /\ answers = <<>>

-----------------------------------------------------------------------------
\* c_debug_client_connect.

Accept ==
  /\ pc = "connecting"
  /\ client # "away"
  /\ pc' = "poll"
  /\ UNCHANGED <<status, frame, n_recd, taken, handled, rsp_data, n_sent, clientVars,
                 stream>>

\* Some call before or at accept fails, and main gives up.
ConnectFails ==
  /\ MayFail
  /\ pc = "connecting"
  /\ pc' = "gone"
  /\ UNCHANGED <<status, frame, n_recd, taken, handled, rsp_data, n_sent, clientVars,
                 stream>>

-----------------------------------------------------------------------------
\* c_debug_client_request_recv.  The end of the client's stream counts as
\* something to read.


\* Mutant of Readable: the end of the stream hides what came before.
ReadableWhileOpen == available > 0 /\ client = "open"

Readable == available > 0 \/ client # "open"

PollUnavail ==
  /\ pc = "poll"
  /\ ~Readable
  /\ status' = DMI_STATUS_UNAVAIL
  /\ UNCHANGED <<pc, frame, n_recd, taken, handled, rsp_data, n_sent, clientVars,
                 stream>>

PollFails ==
  /\ MayFail
  /\ pc = "poll"
  /\ status' = DMI_STATUS_ERR
  /\ pc' = "left"
  /\ UNCHANGED <<frame, n_recd, taken, handled, rsp_data, n_sent, clientVars,
                 stream>>

PollReady ==
  /\ pc = "poll"
  /\ Readable
  /\ frame' = [i \in 1 .. RequestSize |-> 0]
  /\ n_recd' = 0
  /\ pc' = "reading"
  /\ UNCHANGED <<status, taken, handled, rsp_data, n_sent, clientVars,
                 stream>>

\* Mutant of Placed: each piece is stored at the start of the result.
PlacedAtStart(n) ==
  [i \in 1 .. RequestSize |-> IF i <= n THEN taken + i ELSE frame[i]]

\* read (fd, p_result + n_recd, data_size - n_recd) returns n.
Placed(n) ==
  [i \in 1 .. RequestSize |->
     IF i \in (n_recd + 1) .. (n_recd + n) THEN taken + (i - n_recd) ELSE frame[i]]

\* Mutant of Wanted: every read asks for a whole request.
WantedWhole == RequestSize

Wanted == RequestSize - n_recd

ReadSome ==
  /\ pc = "reading"
  /\ \E n \in 1 .. Wanted :
       /\ n <= available
       /\ frame' = Placed(n)
       /\ n_recd' = n_recd + n
       /\ taken' = taken + n
  /\ IF n_recd' < RequestSize
     THEN UNCHANGED <<pc, status>>
     ELSE pc' = "handling" /\ status' = DMI_STATUS_OK
  /\ UNCHANGED <<handled, rsp_data, n_sent, clientVars, stream>>

\* At the end of the stream, read returns 0, and the loop goes on.
ReadEnd ==
  /\ pc = "reading"
  /\ available = 0 /\ client = "closed"
  /\ UNCHANGED vars

ReadFails ==
  /\ pc = "reading"
  /\ MayFail \/ client = "reset"
  /\ status' = DMI_STATUS_ERR
  /\ pc' = "left"
  /\ UNCHANGED <<frame, n_recd, taken, handled, rsp_data, n_sent, clientVars,
                 stream>>

-----------------------------------------------------------------------------
\* The loop of main handles a request.

Handle ==
  /\ pc = "handling"
  /\ handled' = handled + 1
  /\ pc' = CASE OpOf(frame) = DMI_OP_SHUTDOWN -> "left"
             [] OpOf(frame) = DMI_OP_READ -> "sending"
             [] OTHER -> "poll"
  /\ UNCHANGED <<status, frame, n_recd, taken, rsp_data, n_sent, clientVars, stream>>

\* Mutant of NextPiece: each write begins with the first byte of the answer.
NextPieceAtStart(n) == [i \in 1 .. n |-> <<rsp_data + 1, i>>]

\* write (fd, p_data + n_sent, n)
NextPiece(n) == [i \in 1 .. n |-> <<rsp_data + 1, n_sent + i>>]

\* c_debug_client_response_send.  What is written after the client has closed
\* its end goes nowhere.
WriteSome ==
  /\ pc = "sending"
  /\ client # "reset"
  /\ \E n \in 1 .. (AnswerSize - n_sent) :
       /\ stream' = IF client = "open" THEN stream \o NextPiece(n) ELSE stream
       /\ IF n_sent + n < AnswerSize
          THEN n_sent' = n_sent + n /\ UNCHANGED <<pc, rsp_data>>
          ELSE n_sent' = 0 /\ rsp_data' = rsp_data + 1 /\ pc' = "poll"
  /\ UNCHANGED <<status, frame, n_recd, taken, handled, clientVars>>

\* A write that fails, after which main leaves its loop, or that kills the
\* simulation with SIGPIPE, for a client that is no longer there.
WriteFails ==
  /\ pc = "sending"
  /\ \/ (MayFail \/ client = "reset") /\ pc' = "left"
     \/ client # "open" /\ pc' = "killed"
  /\ UNCHANGED <<status, frame, n_recd, taken, handled, rsp_data, n_sent, clientVars,
                 stream>>

-----------------------------------------------------------------------------
\* The end.  A socket closed with a linger time of 0 drops what it has not
\* delivered, from some byte on.
CloseSocket == \E n \in 0 .. Len(stream) : stream' = SubSeq(stream, 1, n)

\* main just returns.
Return ==
  /\ pc = "left"
  /\ pc' = "returned"
  /\ CloseSocket
  /\ UNCHANGED <<status, frame, n_recd, taken, handled, rsp_data, n_sent, clientVars>>

\* Mutant of AfterShutdown: the remaining bytes are not drained.
AfterShutdownAtOnce == "closing"

AfterShutdown == "draining"

\* c_debug_client_disconnect: no more is written, then everything is read up to
\* the end of the client's stream or an error.
Disconnect ==
  /\ pc = "left"
  /\ pc' = AfterShutdown
  /\ UNCHANGED <<status, frame, n_recd, taken, handled, rsp_data, n_sent, clientVars,
                 stream>>


\* Mutant of DrainOver: the end of the stream is not an end.
DrainOverOnError == client = "reset"

DrainOver == client = "reset" \/ (available = 0 /\ client = "closed")

Drain ==
  /\ pc = "draining"
  /\ IF DrainOver THEN pc' = "closing" /\ UNCHANGED taken
                  ELSE available > 0 /\ taken' = sent /\ UNCHANGED pc
  /\ UNCHANGED <<status, frame, n_recd, handled, rsp_data, n_sent, clientVars, stream>>

\* An error of recv, other than an interruption, ends the draining too, with the
\* client perhaps still there.
DrainFails ==
  /\ MayFail
  /\ pc = "draining"
  /\ pc' = "failed"
  /\ UNCHANGED <<status, frame, n_recd, taken, handled, rsp_data, n_sent, clientVars,
                 stream>>

Close ==
  /\ pc \in {"closing", "failed"}
  /\ pc' = "gone"
  /\ CloseSocket
  /\ UNCHANGED <<status, frame, n_recd, taken, handled, rsp_data, n_sent, clientVars>>

-----------------------------------------------------------------------------
\* The client.

Connects ==
  /\ client = "away"
  /\ pc = "connecting"
  /\ client' = "open"
  /\ UNCHANGED <<serverVars, reqs, sent, answers, stream>>

Asks ==
  /\ client = "open"
  /\ Len(reqs) < MaxRequests /\ sent = RequestSize * Len(reqs)
  /\ \E op \in Ops : reqs' = Append(reqs, op)
  /\ UNCHANGED <<serverVars, sent, client, answers, stream>>

SendsSome ==
  /\ client = "open"
  /\ \E n \in 1 .. RequestSize :
       /\ sent + n <= RequestSize * Len(reqs)
       /\ sent' = sent + n
  /\ UNCHANGED <<serverVars, reqs, client, answers, stream>>

ReadsAnswer ==
  /\ client = "open"
  /\ stream # <<>>
  /\ answers' = Append(answers, Head(stream))
  /\ stream' = Tail(stream)
  /\ UNCHANGED <<serverVars, reqs, sent, client>>

\* The client closes its end when it has read everything up to the end of the
\* server's stream.
Closes ==
  /\ client = "open"
  /\ pc \in {"draining", "closing", "failed", "returned", "gone", "killed"}
  /\ stream = <<>>
  /\ client' = "closed"
  /\ UNCHANGED <<serverVars, reqs, sent, answers, stream>>

\* It goes away before, in order or with a reset.
GoesAway ==
  /\ MayLeave
  /\ client = "open"
  /\ client' \in {"closed", "reset"}
  /\ stream' = <<>>
  /\ UNCHANGED <<serverVars, reqs, sent, answers>>

Server ==
  \/ Accept \/ PollUnavail \/ PollReady \/ ReadSome \/ ReadEnd \/ Handle
  \/ WriteSome \/ Drain \/ Close
Fault == ConnectFails \/ PollFails \/ ReadFails \/ WriteFails \/ DrainFails
Ends == Return \/ Disconnect
Client == Connects \/ Asks \/ SendsSome \/ ReadsAnswer \/ Closes \/ GoesAway

Next == Server \/ Fault \/ Ends \/ Client

Spec == Init /\ [][Next]_vars

\* The server runs, and its calls fail once the client has reset the
\* connection.  Nothing is assumed of a client, except that it reads what
\* has been sent to it and closes its end after the server.
Fairness ==
  /\ WF_vars(Server \/ (client = "reset" /\ (ReadFails \/ WriteFails)))
  /\ WF_vars(Ends)
  /\ WF_vars(ReadsAnswer)
  /\ WF_vars(Closes)

FairSpec == Spec /\ Fairness

-----------------------------------------------------------------------------
ServerSteps == {"connecting", "poll", "reading", "handling", "sending", "left",
                "returned", "draining", "closing", "failed", "gone", "killed"}

\* The variables have the values the source gives them; a request in the
\* making has no more than its seven bytes, which is the room there is in front of
\* the status byte (C_Imported_Functions.c:629-659).
TypeOK ==
  /\ pc \in ServerSteps
  /\ status \in {DMI_STATUS_ERR, DMI_STATUS_OK, DMI_STATUS_UNAVAIL}
  /\ frame \in [1 .. RequestSize -> Nat]
  /\ n_recd \in 0 .. RequestSize
  /\ taken \in 0 .. sent
  /\ handled \in 0 .. Len(reqs)
  /\ rsp_data \in 0 .. handled
  /\ n_sent \in 0 .. (AnswerSize - 1)
  /\ reqs \in Seq(Ops) /\ Len(reqs) <= MaxRequests
  /\ sent \in 0 .. (RequestSize * Len(reqs))
  /\ client \in {"away", "open", "closed", "reset"}
  /\ stream \in Seq(Nat \X (1 .. AnswerSize))
  /\ answers \in Seq(Nat \X (1 .. AnswerSize))

\* What is handled is a request of the client, whole, and the next one in the
\* order in which they were made, however the bytes arrive
\* (C_Imported_Functions.c:633-659, 769-798).
RequestsIntact ==
  pc = "handling" => frame = [i \in 1 .. RequestSize |-> RequestSize * handled + i]

\* The bytes the client reads are those of the answers, one answer for each
\* read handled and none for another request, in order and without a gap,
\* however they are written (C_Imported_Functions.c:710-741, 798-807).
ReadsHandled == Cardinality({k \in 1 .. handled : reqs[k] = DMI_OP_READ})
AnswersIntact ==
  LET bytes == answers \o stream
  IN  /\ \A i \in 1 .. Len(bytes) :
           bytes[i] = <<((i - 1) \div AnswerSize) + 1, ((i - 1) % AnswerSize) + 1>>
      /\ rsp_data = ReadsHandled - (IF pc = "sending" THEN 1 ELSE 0)
           \/ pc \notin {"poll", "reading", "handling", "sending"}
      /\ (client = "open" /\ pc \in {"poll", "reading", "handling", "sending"})
           => Len(bytes) = AnswerSize * rsp_data + n_sent

\* Both directions of the connection keep their boundaries: a request is handled
\* whole and once, and each read handled gets its own answer, whatever pieces the
\* socket makes of them.
StreamsIntact == RequestsIntact /\ AnswersIntact

\* An answer is not lost when the simulation disconnects after a shutdown: the
\* socket is closed only when the client has read everything, although it
\* lingers for no time at all, unless the draining has been cut short by an error
\* of recv (C_Imported_Functions.c:486-489, 566-577).
DisconnectLosesNothing ==
  [][Close /\ pc # "failed" => (client \in {"closed", "reset"} /\ stream = <<>>)]_vars

\* A request that has arrived is handled, unless the server stops before
\* (C_Imported_Functions.c:768-817).
EveryRequestIsHandled ==
  \A k \in 1 .. MaxRequests :
    sent >= RequestSize * k
      ~> (handled >= k \/ pc \notin {"poll", "reading", "handling", "sending"})

\* A disconnect ends, for a client that closes its end when the server has
\* (C_Imported_Functions.c:569-575).
DisconnectEnds == pc = "draining" ~> pc = "gone"

\* A call of request_recv returns once the client is gone, with a status
\* ("Result is: { status, ... }", C_Imported_Functions.c:593).
RecvReturns == (pc = "reading" /\ client = "closed") ~> pc # "reading"
=============================================================================
