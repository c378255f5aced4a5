------------------------------ MODULE Framing ------------------------------
(***************************************************************************)
(* The request framing of TCPserver/server.go (Connection.listen): each    *)
(* connection's goroutine wraps the socket in a bufio.Reader, reads the   *)
(* length line with ReadString('\n'), converts it with strconv.Atoi,       *)
(* allocates make([]byte, len_msg) and fills it with ONE reader.Read.      *)
(*                                                                         *)
(* Bytes are abstracted to counts.  A client's stream is its header (one   *)
(* byte here, whatever its text), the newline, then the body; TCP hands   *)
(* the stream to the socket in segments of any size.  A read of the socket *)
(* returns at once whatever has arrived and not been read, up to the space *)
(* offered, and blocks while nothing has.  bufio's buffer holds BufSize    *)
(* bytes (4096 in the code).                                              *)
(***************************************************************************)
EXTENDS Integers, FiniteSetsExt, TLC

CONSTANTS
    Conns,      \* the accepted connections
    BufSize,    \* size of the bufio.Reader buffer
    Headers,    \* Headers[c]: the text of c's length line, without "\n"
    BodyLen     \* BodyLen[c]: the number of body bytes c's client sends

ASSUME BufSize \in Nat \ {0, 1} /\ \A c \in Conns : BodyLen[c] \in Nat

VARIABLES
    arrived,    \* arrived[c]: bytes of c's stream TCP has delivered
    taken,      \* taken[c]: bytes the bufio.Reader has read from the socket
    buffered,   \* buffered[c]: bytes in the bufio buffer not yet returned
    fstate,     \* "line", "body", "accepted", or "rejected" with a diagnostic
    up          \* the server process is running

fvars == <<arrived, taken, buffered, fstate, up>>

\* strconv.Atoi over the header texts the model uses; any other text fails.
Atoi == ("0" :> 0) @@ ("1" :> 1) @@ ("2" :> 2) @@ ("3" :> 3) @@ ("-1" :> -1)

NewlineAt == 2
StreamLen(c) == NewlineAt + BodyLen[c]

\* What one read of c's socket returns when it offers room bytes of space.
SocketRead(c, room) == Min({arrived[c] - taken[c], room})

FInit ==
    /\ arrived = [c \in Conns |-> 0]
    /\ taken = [c \in Conns |-> 0]
    /\ buffered = [c \in Conns |-> 0]
    /\ fstate = [c \in Conns |-> "line"]
    /\ up = TRUE

\* TCP delivers the next segment of c's stream.
Deliver(c) ==
    /\ up /\ arrived[c] < StreamLen(c)
    /\ \E n \in arrived[c] + 1 .. StreamLen(c) : arrived' = [arrived EXCEPT ![c] = n]
    /\ UNCHANGED <<taken, buffered, fstate, up>>

\* One fill of ReadString('\n'), then, once the newline is in, Atoi and
\* make([]byte, len_msg): a text that is no number is answered "xml wrong
\* format in first line"; a negative length makes make panic, and an
\* unrecovered panic in any goroutine ends the whole process.
ReadLine(c) ==
    /\ up /\ fstate[c] = "line" /\ arrived[c] > taken[c]
    /\ LET t == taken[c] + SocketRead(c, BufSize - buffered[c])
       IN /\ taken' = [taken EXCEPT ![c] = t]
          /\ IF t < NewlineAt
             THEN /\ buffered' = [buffered EXCEPT ![c] = t]
                  /\ UNCHANGED <<fstate, up>>
             ELSE /\ buffered' = [buffered EXCEPT ![c] = t - NewlineAt]
                  /\ CASE Headers[c] \notin DOMAIN Atoi ->
                            fstate' = [fstate EXCEPT ![c] = "rejected"] /\ UNCHANGED up
                       [] Atoi[Headers[c]] < 0 ->
                            up' = FALSE /\ UNCHANGED fstate
                       [] OTHER ->
                            fstate' = [fstate EXCEPT ![c] = "body"] /\ UNCHANGED up
    /\ UNCHANGED arrived

\* reader.Read(request) with len(request) = want: what is buffered if any;
\* otherwise one read of the socket, straight into request when it is at
\* least as large as the buffer, else into the buffer.  The request is
\* accepted only if that one call returned want bytes.
ReadBody(c) ==
    LET want == Atoi[Headers[c]]
        readsSocket == want > 0 /\ buffered[c] = 0
        fromSocket == IF ~readsSocket THEN 0
                      ELSE SocketRead(c, IF want >= BufSize THEN want ELSE BufSize)
        got == Min({buffered[c] + fromSocket, want})
    IN /\ up /\ fstate[c] = "body"
       /\ readsSocket => arrived[c] > taken[c]
       /\ taken' = [taken EXCEPT ![c] = @ + fromSocket]
       /\ buffered' = [buffered EXCEPT ![c] = @ + fromSocket - got]
       /\ fstate' = [fstate EXCEPT ![c] = IF got = want THEN "accepted" ELSE "rejected"]
       /\ UNCHANGED <<arrived, up>>

FNext == \E c \in Conns : Deliver(c) \/ ReadLine(c) \/ ReadBody(c)

-----------------------------------------------------------------------------
(* Properties.                                                              *)

\* c's client sent exactly the length line announces.
WellFramed(c) == Headers[c] \in DOMAIN Atoi /\ Atoi[Headers[c]] = BodyLen[c]

\* Spec 6: the server reads exactly the announced number of bytes; only a
\* bad header, a short read or a missing newline is rejected.  So a client
\* that sends its length line and then exactly that many bytes, in however
\* many TCP segments, is never answered "xml byte indicator and xml size
\* mismatch" by the single reader.Read of Connection.listen.
WellFramedAccepted == \A c \in Conns : fstate[c] = "rejected" => ~WellFramed(c)
=============================================================================
