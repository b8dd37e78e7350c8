-------------------------- MODULE MarketDataSession --------------------------
(***************************************************************************)
(* The WebSocket class of Data-Fetcher-Core/Websocket.cpp: one session of  *)
(* the bots with the market-data server.  It is a chain of completion      *)
(* handlers run by the one thread of the io_context: each starts the next  *)
(* asynchronous operation or reports an error and returns, which ends the  *)
(* session, as nothing connects again.  Once open, the session keeps one   *)
(* read outstanding except inside on_read.                                 *)
(*                                                                         *)
(* The server is external: it may send any frame once the WebSocket is     *)
(* open, and any operation may fail.  What arrives is chosen when the read *)
(* completes, so the socket's own buffer is not a variable.                *)
(***************************************************************************)
EXTENDS Naturals, Sequences, FiniteSets, SequencesExt

CONSTANTS
    Frames,     \* the frames the server may send
    MaxFrames   \* frames in a run: a bound, the stream has no end

\* A frame's text is an array of JSON values, another JSON value, or no JSON.
\* The type of a message is its "T"; a value that is no object has type "text".
ASSUME FramesAssumption ==
    /\ MaxFrames \in Nat
    /\ \A f \in Frames : f.form \in {"array", "value", "garbage"} /\ f.messages \in Seq(Range(f.messages))

VARIABLES
    phase,          \* the handler the chain waits for
    connected,      \* connected_
    authenticated,  \* authenticated_
    reading,        \* reading_
    stopReading,    \* stop_reading_
    reads, writes,  \* operations outstanding on ws_
    buffer,         \* buffer_: the frames whose text is in it
    handling,       \* on_read is between its two halves: "on_read", else "none"
    trouble,        \* what the session has printed or thrown
    taken,          \* history: the frames read
    handed          \* history: the messages given to processMessage

chainVars == <<phase, connected, stopReading, trouble>>
streamVars == <<reading, reads, writes, buffer, authenticated, handling>>
historyVars == <<taken, handed>>
sessionVars == <<chainVars, streamVars, historyVars>>

\* What each phase of the chain is followed by.
Following ==
    [resolving |-> "connecting", connecting |-> "securing", securing |-> "upgrading"]

SessionInit ==
    /\ phase = "new"
    /\ connected = FALSE /\ authenticated = FALSE
    /\ reading = FALSE /\ stopReading = FALSE
    /\ reads = 0 /\ writes = 0
    /\ buffer = <<>>
    /\ handling = "none"
    /\ trouble = "none"
    /\ taken = <<>> /\ handed = <<>>

Idle == handling = "none" /\ trouble # "thrown"

\* Every error path of the chain: a line on cerr and a return.
Report ==
    /\ trouble' = "reported"
    /\ phase' = "ended"

\* run: resolve the host.
Start ==
    /\ phase = "new"
    /\ phase' = "resolving"
    /\ UNCHANGED <<connected, stopReading, trouble, streamVars, historyVars>>

\* on_resolve, on_connect and on_ssl_handshake; on_connect also reports a host
\* name that SSL refuses.
OnStep ==
    /\ phase \in DOMAIN Following
    /\ phase' = Following[phase]
    /\ UNCHANGED <<connected, stopReading, trouble, streamVars, historyVars>>

OnStepError ==
    /\ phase \in DOMAIN Following \cup {"upgrading"}
    /\ Report
    /\ UNCHANGED <<connected, stopReading, streamVars, historyVars>>

\* doRead: nothing if the session stops or a read is out already.
DoRead ==
    IF stopReading \/ reading
    THEN UNCHANGED <<reading, reads>>
    ELSE reading' = TRUE /\ reads' = reads + 1

\* Faulty: the first read does not wait for the credentials to be written.
ReadAtOnce == DoRead
NoReadYet == UNCHANGED <<reading, reads>>

\* on_handshake with sendAuthMessage.
OnHandshake ==
    /\ phase = "upgrading"
    /\ connected' = TRUE
    /\ phase' = "authenticating"
    /\ writes' = writes + 1
    /\ NoReadYet
    /\ UNCHANGED <<stopReading, trouble, buffer, authenticated, handling, historyVars>>

\* The environment lacks a credential: nothing is written, and the chain ends.
NoCredentials ==
    /\ phase = "upgrading"
    /\ connected' = TRUE
    /\ Report
    /\ UNCHANGED <<stopReading, streamVars, historyVars>>

OnAuthWrite ==
    /\ phase = "authenticating"
    /\ Idle
    /\ writes' = writes - 1
    /\ phase' = "open"
    /\ DoRead
    /\ UNCHANGED <<connected, stopReading, trouble, buffer, authenticated, handling, historyVars>>

OnAuthWriteError ==
    /\ phase = "authenticating"
    /\ Idle
    /\ writes' = writes - 1
    /\ Report
    /\ UNCHANGED <<connected, stopReading, reading, reads, buffer, authenticated, handling, historyVars>>

\* on_write: the subscription is out, or was refused, which is only printed.
OnWrite ==
    /\ phase \in {"open", "ended"}
    /\ Idle
    /\ writes > 0
    /\ writes' = writes - 1
    /\ trouble' \in {trouble, "reported"}
    /\ UNCHANGED <<phase, connected, stopReading, reading, reads, buffer, authenticated, handling,
                   historyVars>>

-----------------------------------------------------------------------------
(* on_read *)

\* buffers_to_string and consume: the message is parsed from all of buffer_,
\* and the parser takes the first value of it.
NotConsumed(text) == text
Consumed(text) == <<>>

IsArray(f) == f.form = "array" /\ f.messages # <<>>
First(f) == Head(f.messages)
SaysAuthenticated(m) == m.type = "success" /\ m.msg = "authenticated"

\* The first half, up to the return of processMessage.  The flag is cleared at
\* once; a frame whose first value is no object is asked for a member and throws
\* as long as the session is not authenticated.
Authenticates(f) == IsArray(f) /\ ~authenticated /\ SaysAuthenticated(First(f))
Throws(f) == IsArray(f) /\ ~authenticated /\ First(f).type = "text"
HandsOver(f) == IsArray(f) /\ authenticated

\* Faulty: the flag stays up, and no read is asked for again.
LeavesFlag == reading' = reading
ClearsFlag == reading' = FALSE

ReadCompletes ==
    /\ reads > 0 /\ Idle
    /\ reads' = reads - 1
    /\ ClearsFlag

Receive(f) ==
    /\ Len(taken) < MaxFrames
    /\ ReadCompletes
    /\ taken' = Append(taken, f)
    /\ UNCHANGED <<connected, stopReading>>

OnRead(f) ==
    LET text == Append(buffer, f)
        first == Head(text)
    IN  /\ Receive(f)
        /\ ~Throws(first)
        /\ buffer' = Consumed(text)
        /\ handling' = "on_read"
        /\ authenticated' = (authenticated \/ Authenticates(first))
        /\ writes' = IF Authenticates(first) THEN writes + 1 ELSE writes
        /\ handed' = IF HandsOver(first) THEN Append(handed, First(first)) ELSE handed
        /\ UNCHANGED <<phase, trouble>>

\* The exception leaves ioc.run, and the thread of the io_context ends.
OnReadThrows(f) ==
    /\ Receive(f)
    /\ Throws(Head(Append(buffer, f)))
    /\ buffer' = Consumed(Append(buffer, f))
    /\ phase' = "ended"
    /\ trouble' = "thrown"
    /\ UNCHANGED <<handling, authenticated, writes, handed>>

\* A read that fails is reported and not repeated.
OnReadError ==
    /\ ReadCompletes
    /\ Report
    /\ UNCHANGED <<connected, stopReading, buffer, writes, authenticated, handling, historyVars>>

\* Faulty: the next read waits for the session to be authenticated.
ReadsIfAuthenticated == IF authenticated THEN DoRead ELSE UNCHANGED <<reading, reads>>
ReadsNext == DoRead

\* The second half: the next read is asked for, whatever became of the frame.
HandlerReturns ==
    /\ handling = "on_read"
    /\ handling' = "none"
    /\ ReadsNext
    /\ UNCHANGED <<chainVars, writes, buffer, authenticated, historyVars>>

\* The destructor: io_context::run has returned, or has thrown, and main lets
\* the bot go.  It closes the WebSocket if it was ever open.
Destroy ==
    /\ phase = "ended"
    /\ handling = "none"
    /\ writes = 0
    /\ stopReading' = TRUE
    /\ phase' = "destroyed"
    /\ connected' = FALSE
    /\ UNCHANGED <<trouble, streamVars, historyVars>>

\* The actions in which processMessage is not called.
Chain ==
    \/ Start
    \/ OnStep \/ OnStepError
    \/ OnHandshake \/ NoCredentials
    \/ OnAuthWrite \/ OnAuthWriteError
    \/ OnWrite
    \/ \E f \in Frames : OnReadThrows(f)
    \/ OnReadError
    \/ Destroy

SessionNext ==
    \/ Chain
    \/ \E f \in Frames : OnRead(f)
    \/ HandlerReturns

SessionSpec == SessionInit /\ [][SessionNext]_sessionVars

-----------------------------------------------------------------------------
(* Properties. *)

(* Beast allows one read and one write at a time.  The chain and the flag        *)
(* reading_ respect that: the subscription never meets the write of the          *)
(* credentials, and reading_ says whether a read is out, in every interleaving   *)
(* of replies, write completions and failures (Websocket.cpp:175-188).           *)
OneOperationEach ==
    /\ reads \in {0, 1} /\ writes \in {0, 1}
    /\ reading <=> reads = 1
    /\ writes = 1 => phase = "authenticating" \/ authenticated

(* The session is never deaf in silence: once open it has a read outstanding or  *)
(* is inside on_read, whatever it was sent, and it only ends with an error that  *)
(* was printed or thrown (Websocket.cpp:197-241).                                *)
DeafOnlyAfterTrouble ==
    /\ phase = "open" => reads = 1 \/ handling = "on_read"
    /\ phase \in {"ended", "destroyed"} => reads = 0 /\ trouble # "none"

\* The arrays that came after an array that begins with "authenticated".
SaysSo(f) == IsArray(f) /\ SaysAuthenticated(First(f))
Due == {i \in DOMAIN taken : IsArray(taken[i]) /\ \E j \in 1 .. i - 1 : SaysSo(taken[j])}

\* How many arrays were due up to the i-th frame.
DueUpTo(i) == Cardinality({j \in Due : j <= i})

(* processMessage gets the first message of every array that came after the     *)
(* server said "authenticated", once, in order, and nothing that came before     *)
(* (Websocket.cpp:206-226).  What stands behind the first message is dropped.    *)
HandedInOrder ==
    /\ Len(handed) = Cardinality(Due)
    /\ \A i \in Due : handed[DueUpTo(i)] = First(taken[i])
=============================================================================
