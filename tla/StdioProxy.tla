----------------------------- MODULE StdioProxy -----------------------------
(***************************************************************************)
(* The two proxies between the stdin and stdout of an MCP client and the   *)
(* socket of the mux: run_proxy of mux-agent/src/runtime/proxy.rs, which   *)
(* reads messages and counts requests, and that of bin/rust-mux-proxy.rs,  *)
(* which copies bytes both ways.  A message is a pair: its kind and the    *)
(* number of the request it is or answers, 0 when it has a null id.        *)
(***************************************************************************)
EXTENDS Naturals, Sequences

CONSTANTS
    MaxRequests,  \* bound: requests of the client
    MaxNotes      \* bound: other messages, each way

ASSUME ProxyAssumption == MaxRequests \in Nat /\ MaxNotes \in Nat

VARIABLES
    flavour,       \* frames or bytes
    input,         \* what the client wrote and the proxy has not read
    asked, noted,  \* how much the client wrote
    eof,           \* the client closed stdin
    up, down,      \* the two directions of the socket
    shut,          \* the proxy has shut its direction down
    mux,           \* the mux's end of the socket; when deaf it is open and not read
    owed,          \* the requests the mux has yet to answer
    spoke,         \* messages the mux sent unasked
    output,        \* what the proxy wrote to stdout
    pending_requests, stdin_closed,
    ended          \* how the proxy ended

proxyVars == <<flavour, input, asked, noted, eof, up, down, shut, mux, owed, spoke,
               output, pending_requests, stdin_closed, ended>>
clientSide == <<input, asked, noted, eof>>
muxSide    == <<mux, owed, spoke>>

ProxyInit ==
    /\ flavour \in {"frames", "bytes"}
    /\ input = <<>> /\ asked = 0 /\ noted = 0 /\ eof = FALSE
    /\ up = <<>> /\ down = <<>> /\ shut = FALSE /\ mux = "open" /\ owed = {} /\ spoke = 0
    /\ output = <<>> /\ pending_requests = 0 /\ stdin_closed = FALSE /\ ended = "no"

Running == ended = "no"

(***************************************************************************)
(* The client and the mux.                                                 *)
(***************************************************************************)

ClientWrites ==
    /\ ~eof
    /\ \/ asked < MaxRequests /\ asked' = asked + 1 /\ input' = Append(input, <<"request", asked + 1>>)
          /\ UNCHANGED noted
       \/ noted < MaxNotes /\ noted' = noted + 1 /\ UNCHANGED asked
          /\ \E k \in {"note", "big note", "garbled"} : input' = Append(input, <<k, 0>>)
    /\ UNCHANGED <<flavour, eof, up, down, shut, muxSide, output, pending_requests, stdin_closed, ended>>

ClientCloses ==
    /\ ~eof /\ eof' = TRUE
    /\ UNCHANGED <<flavour, input, asked, noted, up, down, shut, muxSide, output,
                   pending_requests, stdin_closed, ended>>

environment == UNCHANGED <<flavour, clientSide, shut, output, pending_requests, stdin_closed, ended>>

\* handle_client: what is too large is answered, with a null id if it has none.
MuxReads ==
    /\ mux = "open" /\ up # <<>> /\ Head(up)[1] # "garbled" /\ up' = Tail(up)
    /\ owed' = IF Head(up)[1] = "request" THEN owed \cup {Head(up)[2]} ELSE owed
    /\ down' = IF Head(up)[1] = "big note" THEN Append(down, <<"response", 0>>) ELSE down
    /\ UNCHANGED <<mux, spoke>> /\ environment

\* What cannot be decoded ends the reading, not the writer task: it keeps the
\* client's direction open, and the client registered.
MuxDecodeError ==
    /\ mux = "open" /\ up # <<>> /\ Head(up)[1] = "garbled"
    /\ up' = Tail(up) /\ mux' = "deaf"
    /\ UNCHANGED <<down, owed, spoke>> /\ environment

MuxAnswers(i) ==
    /\ mux # "closed" /\ i \in owed
    /\ owed' = owed \ {i} /\ down' = Append(down, <<"response", i>>)
    /\ UNCHANGED <<up, mux, spoke>> /\ environment

\* A notification of the server, its response with a null id, which is broadcast
\* like one, or the refusal of a handshake that took too long.
MuxNotifies ==
    /\ mux # "closed" /\ spoke < MaxNotes /\ spoke' = spoke + 1
    /\ \E k \in {"note", "response"} : down' = Append(down, <<k, 0>>)
    /\ UNCHANGED <<up, mux, owed>> /\ environment

\* handle_client: at the end of the client's direction the client is dropped,
\* with what it is still owed.
MuxSeesEof ==
    /\ mux = "open" /\ shut /\ up = <<>>
    /\ mux' = "closed" /\ owed' = {}
    /\ UNCHANGED <<up, down, spoke>> /\ environment

\* The mux stops, or drops the client.
MuxCloses ==
    /\ mux # "closed" /\ mux' = "closed" /\ owed' = {}
    /\ UNCHANGED <<up, down, spoke>> /\ environment

(***************************************************************************)
(* run_proxy of runtime/proxy.rs.                                          *)
(***************************************************************************)

proxying == UNCHANGED <<flavour, asked, noted, eof, muxSide>>

\* Faulty variant: every message counts.
ReadStdinCountsAll ==
    /\ Running /\ ~stdin_closed /\ input # <<>> /\ Head(input)[1] # "garbled"
    /\ input' = Tail(input) /\ pending_requests' = pending_requests + 1
    /\ \/ mux # "closed" /\ up' = Append(up, Head(input)) /\ UNCHANGED ended
       \/ mux = "closed" /\ ended' = "error" /\ UNCHANGED up
    /\ UNCHANGED <<down, shut, output, stdin_closed>> /\ proxying

\* A request counts, and goes to the socket.  A socket the mux has closed
\* refuses it.
ReadStdin ==
    /\ Running /\ ~stdin_closed /\ input # <<>> /\ Head(input)[1] # "garbled"
    /\ input' = Tail(input)
    /\ pending_requests' = pending_requests + (IF Head(input)[1] = "request" THEN 1 ELSE 0)
    /\ \/ mux # "closed" /\ up' = Append(up, Head(input)) /\ UNCHANGED ended
       \/ mux = "closed" /\ ended' = "error" /\ UNCHANGED up
    /\ UNCHANGED <<down, shut, output, stdin_closed>> /\ proxying

\* The end of stdin, or what cannot be decoded: no more is read of it.
StdinEnds ==
    /\ Running /\ ~stdin_closed
    /\ \/ eof /\ input = <<>> /\ UNCHANGED input
       \/ input # <<>> /\ Head(input)[1] = "garbled" /\ input' = Tail(input)
    /\ stdin_closed' = TRUE
    /\ UNCHANGED <<up, down, shut, output, pending_requests, ended>> /\ proxying

\* Faulty variant: at the end of stdin the first message is the last.
ReadSocketHasty ==
    /\ Running /\ down # <<>>
    /\ down' = Tail(down) /\ output' = Append(output, Head(down))
    /\ pending_requests' =
         IF Head(down)[1] = "response" /\ pending_requests > 0 THEN pending_requests - 1 ELSE pending_requests
    /\ ended' = IF stdin_closed THEN "complete" ELSE ended
    /\ UNCHANGED <<input, up, shut, stdin_closed>> /\ proxying

\* Faulty variant: the end is left to the socket.
ReadSocketOnly ==
    /\ Running /\ down # <<>>
    /\ down' = Tail(down) /\ output' = Append(output, Head(down))
    /\ pending_requests' =
         IF Head(down)[1] = "response" /\ pending_requests > 0 THEN pending_requests - 1 ELSE pending_requests
    /\ UNCHANGED <<input, up, shut, stdin_closed, ended>> /\ proxying

\* A message of the socket goes to stdout.  A response counts down; with stdin
\* closed and nothing pending it was the last.
ReadSocket ==
    /\ Running /\ down # <<>>
    /\ down' = Tail(down) /\ output' = Append(output, Head(down))
    /\ pending_requests' =
         IF Head(down)[1] = "response" /\ pending_requests > 0 THEN pending_requests - 1 ELSE pending_requests
    /\ ended' = IF stdin_closed /\ pending_requests' = 0 THEN "complete" ELSE ended
    /\ UNCHANGED <<input, up, shut, stdin_closed>> /\ proxying

SocketEnds ==
    /\ Running /\ down = <<>> /\ mux = "closed"
    /\ ended' = "closed"
    /\ UNCHANGED <<input, up, down, shut, output, pending_requests, stdin_closed>> /\ proxying

Frames == ReadStdin \/ StdinEnds \/ ReadSocket \/ SocketEnds

(***************************************************************************)
(* run_proxy of bin/rust-mux-proxy.rs.                                     *)
(***************************************************************************)

\* One copy: stdin to the socket, which is shut down at the end.
CopyIn ==
    /\ Running /\ ~shut
    /\ \/ /\ input # <<>> /\ input' = Tail(input) /\ UNCHANGED shut
          /\ \/ mux # "closed" /\ up' = Append(up, Head(input)) /\ UNCHANGED ended
             \/ mux = "closed" /\ ended' = "error" /\ UNCHANGED up
       \/ input = <<>> /\ eof /\ shut' = TRUE /\ UNCHANGED <<input, up, ended>>
    /\ UNCHANGED <<down, output, pending_requests, stdin_closed>> /\ proxying

\* The other copy, and the end of both.
CopyOut ==
    /\ Running
    /\ \/ /\ down # <<>> /\ down' = Tail(down) /\ output' = Append(output, Head(down))
          /\ UNCHANGED ended
       \/ down = <<>> /\ mux = "closed" /\ shut /\ ended' = "closed" /\ UNCHANGED <<down, output>>
    /\ UNCHANGED <<input, up, shut, pending_requests, stdin_closed>> /\ proxying

Bytes == CopyIn \/ CopyOut

Proxy == (flavour = "frames" /\ Frames) \/ (flavour = "bytes" /\ Bytes)

Mux == MuxReads \/ (\E i \in 1..MaxRequests : MuxAnswers(i)) \/ MuxSeesEof \/ MuxDecodeError

ProxyNext == ClientWrites \/ ClientCloses \/ Mux \/ MuxNotifies \/ MuxCloses \/ Proxy

ProxySpec == ProxyInit /\ [][ProxyNext]_proxyVars

ProxyTypeOK ==
    /\ flavour \in {"frames", "bytes"} /\ mux \in {"open", "deaf", "closed"}
    /\ asked \in 0..MaxRequests /\ noted \in 0..MaxNotes /\ spoke \in 0..MaxNotes
    /\ owed \subseteq 1..MaxRequests /\ pending_requests \in 0..MaxRequests
    /\ eof \in BOOLEAN /\ shut \in BOOLEAN /\ stdin_closed \in BOOLEAN
    /\ ended \in {"no", "complete", "closed", "error"}

Has(q, x) == \E k \in 1..Len(q) : q[k] = x

\* When the counting proxy ends by itself, every request the client wrote has its
\* response on stdout, or was written after the end of what the proxy reads: it
\* neither loses a response by ending early nor takes one message for another.  The
\* exception the code leaves: a response with a null id is broadcast to every client
\* (server.rs:46), and counts as the answer to one of its requests (proxy.rs:72).
RepliesBeforeExit ==
    ended = "complete" /\ ~Has(output, <<"response", 0>>)
        => \A n \in 1..asked : Has(input, <<"request", n>>) \/ Has(output, <<"response", n>>)

\* The proxy ends once stdin has.  The one that counts ends when what it waits for
\* has come, or the mux has closed; with nothing pending when stdin ends it waits for
\* one more message, as it does not shut its direction down, although proxy.rs:20-23
\* says so.  The one that copies ends since the mux closes a client that has closed;
\* but a mux that could not decode a message reads no more of the client (client.rs:100).
ProxyEnds ==
    /\ (flavour = "frames" /\ stdin_closed /\ pending_requests > 0) ~> (ended # "no")
    /\ (flavour = "frames" /\ mux = "closed") ~> (ended # "no")
    /\ (flavour = "bytes" /\ eof) ~> (ended # "no" \/ mux = "deaf")

=============================================================================
