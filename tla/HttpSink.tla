------------------------------ MODULE HttpSink ------------------------------
(***************************************************************************)
(* What the http sink's worker does with the batches it takes off its      *)
(* queue (SinkQueue's Handle): post over a kept-alive connection, retry    *)
(* once on a fresh one, count what is lost (sinks/http/sink.cpp).  The     *)
(* server, the network and the kernel's socket are external: a request may *)
(* be ingested or refused, answered in several framings, late or never,    *)
(* and the server may close the connection at any time.                    *)
(*                                                                         *)
(* The socket is "open", "fin" (the peer closed it; what is sent now is    *)
(* answered with a reset) or "broken" (the reset has arrived: a send fails *)
(* with EPIPE).  What is waiting to be received is a sequence of response  *)
(* heads and of body bytes nobody announced, which read like a head.       *)
(*                                                                         *)
(* The worker cannot tell the responses of a connection apart once one of  *)
(* them has a part it does not delimit: an interim (1xx) head, or a body   *)
(* without a Content-Length.  The history variables tainted and misled     *)
(* record that; the properties are exact about what follows from it.       *)
(***************************************************************************)
EXTENDS Integers, Sequences, FiniteSets

CONSTANTS Framings,     \* how the server may delimit a response
          Sends,        \* send() calls one request takes
          MaxParts,     \* bound on the recv() calls a head, or a body, takes
          MaxBatches    \* bound on the batches one behaviour posts

ASSUME HttpAssumption ==
    /\ Framings \subseteq {"length", "close", "chunked", "bare", "body", "interim"}
    /\ Framings # {}
    /\ Sends \in Nat \ {0}
    /\ MaxParts \in Nat
    /\ MaxBatches \in Nat

VARIABLES batch,      \* the batch being posted
          attempt,    \* 1, or 2 for the retry
          pc,         \* where the worker is in post()
          sent,       \* send() calls made for this request
          parts,      \* recv() calls made in the loop it is in
          head,       \* the response head in hand while its body is drained
          conn,       \* the socket behind fd_, "none" when fd_ is -1
          inbox,      \* what recv() will return on it
          unanswered, \* requests the server has on this connection
          tainted,    \* this connection carried what the worker does not delimit
          ingested,   \* how often the server took each batch
          acked,      \* batches post() returned true for
          dropped,    \* batches counted in dropped_
          misled      \* batches acked by another's response, on such a connection

clientVars == <<batch, attempt, pc, sent, parts, head>>
netVars    == <<conn, inbox, unanswered, tainted>>
outcomes   == <<acked, dropped, misled>>
vars == <<batch, attempt, pc, sent, parts, head, conn, inbox, unanswered, tainted,
          ingested, acked, dropped, misled>>

Batches == 1..MaxBatches

\* A response head as the worker reads it, and the batch it answers.
Answer(b, ok, framing) == [of |-> b, ok |-> ok, framing |-> framing]
NoHead == Answer(0, FALSE, "none")

Init ==
    /\ batch = 1
    /\ attempt = 1
    /\ pc = "connect"
    /\ sent = 0
    /\ parts = 0
    /\ head = NoHead
    /\ conn = "none"
    /\ inbox = << >>
    /\ unanswered = << >>
    /\ tainted = FALSE
    /\ ingested = [b \in Batches |-> 0]
    /\ acked = {}
    /\ dropped = {}
    /\ misled = {}

Working == batch <= MaxBatches /\ pc # "killed"

-----------------------------------------------------------------------------
(* The server and the network.                                             *)

\* A body nobody announced is text with what may pass for a status: the token
\* after its first space is all that parse_status_code() looks at.
Text(ok) == Answer(0, ok, "text")

\* What arrives for a response: a 1xx head may come before the real one, and a
\* body that only the end of the connection delimits follows its head.
Wire(b, ok, framing, textOk) ==
    CASE framing = "interim" -> <<Answer(b, FALSE, "interim"), Answer(b, ok, "length")>>
      [] framing = "body"    -> <<Answer(b, ok, "body"), Text(textOk)>>
      [] OTHER               -> <<Answer(b, ok, framing)>>

\* The server takes a request or refuses it, and answers.
Respond ==
    /\ conn = "open"
    /\ unanswered # << >>
    /\ LET b == Head(unanswered)
       IN  \E ok, textOk \in BOOLEAN, framing \in Framings :
              /\ inbox' = inbox \o Wire(b, ok, framing, textOk)
              /\ ingested' = IF ok THEN [ingested EXCEPT ![b] = @ + 1] ELSE ingested
              /\ conn' = IF framing = "body" THEN "fin" ELSE conn
              /\ unanswered' = IF framing = "body" THEN << >> ELSE Tail(unanswered)
              /\ tainted' = (tainted \/ framing \in {"interim", "body"})
    /\ UNCHANGED <<clientVars, outcomes>>

\* It takes the request, and its answer never comes or comes after the worker
\* has given up.
IngestOnly ==
    /\ conn = "open"
    /\ unanswered # << >>
    /\ ingested' = [ingested EXCEPT ![Head(unanswered)] = @ + 1]
    /\ unanswered' = Tail(unanswered)
    /\ UNCHANGED <<clientVars, conn, inbox, tainted, outcomes>>

\* It closes the connection: idle, after an answer, or with a request unread.
PeerCloses ==
    /\ conn = "open"
    /\ conn' = "fin"
    /\ unanswered' = << >>
    /\ UNCHANGED <<clientVars, inbox, tainted, ingested, outcomes>>

\* The reset provoked by what was sent into a closed connection arrives; what
\* had not been received is gone.
Reset ==
    /\ conn = "fin"
    /\ sent > 0
    /\ conn' = "broken"
    /\ inbox' = << >>
    /\ UNCHANGED <<clientVars, unanswered, tainted, ingested, outcomes>>

-----------------------------------------------------------------------------
(* The worker.                                                             *)

\* close_connection()
Closed == conn' = "none" /\ inbox' = << >> /\ unanswered' = << >> /\ tainted' = FALSE

\* post() is called anew.
PostAgain == pc' = "connect" /\ sent' = 0 /\ parts' = 0 /\ head' = NoHead

NextBatch == batch' = batch + 1 /\ attempt' = 1 /\ PostAgain

\* run() after a post() that returned true.
PostSucceeds ==
    /\ acked' = acked \cup {batch}
    /\ misled' = IF tainted /\ head.of # batch THEN misled \cup {batch} ELSE misled
    /\ NextBatch
    /\ UNCHANGED dropped

\* Slip: the batch is retried until it is acknowledged.
RetryForever ==
    /\ PostAgain
    /\ UNCHANGED <<batch, attempt, dropped>>

\* run() after a post() that returned false: once more on a fresh connection,
\* then the batch is lost.  close_connection() is called before the retry and
\* not after it.
RetryOrDrop ==
    \/ /\ attempt = 1
       /\ attempt' = 2
       /\ PostAgain
       /\ UNCHANGED <<batch, dropped>>
    \/ /\ attempt = 2
       /\ dropped' = dropped \cup {batch}
       /\ NextBatch

\* post() returned false with the connection closed already ...
PostFailsClosed ==
    /\ Closed
    /\ RetryOrDrop
    /\ UNCHANGED <<acked, misled>>

\* ... or kept, and then the retry closes it.
PostFailsKept ==
    /\ IF attempt = 1 THEN Closed ELSE UNCHANGED netVars
    /\ RetryOrDrop
    /\ UNCHANGED <<acked, misled>>

\* ensure_connected(): the socket there is, a new one, or none to be had.
Connect ==
    /\ Working
    /\ pc = "connect"
    /\ \/ /\ pc' = "send"
          /\ conn' = IF conn = "none" THEN "open" ELSE conn
          /\ UNCHANGED <<batch, attempt, sent, parts, head, inbox, unanswered, tainted, outcomes>>
       \/ /\ conn = "none"
          /\ PostFailsClosed
    /\ UNCHANGED ingested

\* One send() of write_all().  The kernel takes it, also when the peer has
\* closed.  On a broken socket it is EPIPE and, without MSG_NOSIGNAL and with
\* SIGPIPE at its default, the end of the process.
Send ==
    /\ Working
    /\ pc = "send"
    /\ IF conn = "broken"
       THEN /\ pc' = "killed"
            /\ UNCHANGED <<sent, unanswered>>
       ELSE /\ sent' = sent + 1
            /\ pc' = IF sent + 1 = Sends THEN "recv" ELSE "send"
            /\ unanswered' = IF sent + 1 = Sends /\ conn = "open"
                             THEN Append(unanswered, batch) ELSE unanswered
    /\ UNCHANGED <<batch, attempt, parts, head, conn, inbox, tainted, ingested, outcomes>>

\* send() times out.
SendFails ==
    /\ Working
    /\ pc = "send"
    /\ PostFailsClosed
    /\ UNCHANGED ingested

\* A recv() brings something and no blank line yet.
RecvPart ==
    /\ Working
    /\ pc = "recv"
    /\ conn = "open" \/ inbox # << >>
    /\ parts < MaxParts
    /\ parts' = parts + 1
    /\ UNCHANGED <<batch, attempt, pc, sent, head, netVars, ingested, outcomes>>

\* Slip: a receive timeout does not close the connection.
RecvFailsKept ==
    /\ Working
    /\ pc = "recv"
    /\ PostFailsKept
    /\ UNCHANGED ingested

\* Slip: no SO_RCVTIMEO, so that only the end of the connection ends a recv().
RecvFailsAtEnd ==
    /\ Working
    /\ pc = "recv"
    /\ conn # "open"
    /\ PostFailsClosed
    /\ UNCHANGED ingested

\* recv() times out, is interrupted, reports the end of the connection, or has
\* brought 64 KiB without a blank line.
RecvFails ==
    /\ Working
    /\ pc = "recv"
    /\ PostFailsClosed
    /\ UNCHANGED ingested

\* A recv() completes a head.  What else came with that call is in the same
\* buffer and is never looked at.
RecvHead ==
    /\ Working
    /\ pc = "recv"
    /\ inbox # << >>
    /\ head' = Head(inbox)
    /\ \E n \in 1..Len(inbox) : inbox' = SubSeq(inbox, n + 1, Len(inbox))
    /\ pc' = "drain"
    /\ parts' = 0
    /\ UNCHANGED <<batch, attempt, sent, conn, unanswered, tainted, ingested, outcomes>>

\* Another recv() of the body a Content-Length announced.
DrainPart ==
    /\ Working
    /\ pc = "drain"
    /\ head.framing \in {"length", "text"}
    /\ parts < MaxParts
    /\ parts' = parts + 1
    /\ UNCHANGED <<batch, attempt, pc, sent, head, netVars, ingested, outcomes>>

\* Whether post() keeps the connection after a response so framed: a recv() of
\* the body may fail, and text may read like any header.
Keeps(framing) ==
    CASE framing \in {"close", "chunked"} -> {FALSE}
      [] framing \in {"length", "text"} -> {TRUE, FALSE}
      [] OTHER -> {TRUE}

\* post() returns what the status said.
Answered ==
    /\ Working
    /\ pc = "drain"
    /\ \E kept \in Keeps(head.framing) :
          IF head.ok
          THEN PostSucceeds /\ IF kept THEN UNCHANGED netVars ELSE Closed
          ELSE IF kept THEN PostFailsKept ELSE PostFailsClosed
    /\ UNCHANGED ingested

\* The worker leaves run() and closes the connection.
Finish ==
    /\ batch > MaxBatches
    /\ pc = "connect"
    /\ pc' = "done"
    /\ Closed
    /\ UNCHANGED <<batch, attempt, sent, parts, head, ingested, outcomes>>

Ended == pc \in {"done", "killed"} /\ UNCHANGED vars

Worker == Connect \/ Send \/ SendFails \/ RecvPart \/ RecvFails \/ RecvHead \/ DrainPart
          \/ Answered \/ Finish

Next == Respond \/ IngestOnly \/ PeerCloses \/ Reset \/ Worker \/ Ended

\* Each of the worker's calls returns, bounded by the socket's timeouts, which
\* every call starts anew (a timeout_ms of 0, no timeout, is left out).  The
\* server owes nothing.
Spec == Init /\ [][Next]_vars /\ WF_vars(Worker)

-----------------------------------------------------------------------------
(* Properties.                                                             *)

Answers == [of : 0..MaxBatches, ok : BOOLEAN,
            framing : Framings \cup {"none", "text", "interim", "length"}]

TypeOK ==
    /\ batch \in 1..(MaxBatches + 1)
    /\ attempt \in {1, 2}
    /\ pc \in {"connect", "send", "recv", "drain", "done", "killed"}
    /\ sent \in 0..Sends
    /\ conn \in {"none", "open", "fin", "broken"}
    /\ parts \in 0..MaxParts
    /\ head \in Answers
    /\ inbox \in Seq(Answers)
    /\ unanswered \in Seq(Batches)
    /\ tainted \in BOOLEAN
    /\ ingested \in [Batches -> Nat]
    /\ acked \subseteq Batches
    /\ dropped \subseteq Batches
    /\ misled \subseteq Batches

\* "Counts the drops so they are visible rather than silent" (sink.h): a batch
\* the server never took is in dropped(), whatever was retried, timed out or
\* answered late.  The one exception is a batch that was acked by another's
\* response on a connection with an interim head or an unannounced body.
NoSilentLoss ==
    /\ TypeOK
    /\ \A b \in Batches : b < batch => ingested[b] > 0 \/ b \in dropped \/ b \in misled

\* A response is only ever taken for the answer to the request it answers, on a
\* connection shared by all batches: none is left over from a batch that timed
\* out or was refused, as long as the worker delimits all that the connection
\* carries.
OwnResponse ==
    [][\A b \in Batches : b \in acked' \ acked => head.of = b \/ tainted]_vars

\* The retry makes delivery at-least-once, but bounded: however answers are lost
\* or late, no batch is ingested more than twice, what the server still has to
\* look at included.
AtMostTwice ==
    \A b \in Batches :
        ingested[b] + Cardinality({k \in DOMAIN unanswered : unanswered[k] = b}) <= 2

\* A server that answers slowly, badly or not at all does not stall the worker:
\* every batch is finished with, which flush() and the destructor wait for.
WorkerFinishes == <>(pc \in {"done", "killed"})

\* http/sink.cpp on the retry: "a keep-alive connection the peer quietly closed
\* fails its first write for free".
PeerCloseIsFree == pc # "killed"
=============================================================================
