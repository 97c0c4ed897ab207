-------------------------- MODULE JsonRpcTransport --------------------------
(***************************************************************************)
(* _StdioJsonRpcTransport of controller_client.py: requests go to a child  *)
(* process over its stdin, answers are cut out of the bytes it writes to   *)
(* its stdout.  The caller goes on with its clean-up after a request that  *)
(* failed, so the answers of earlier requests may still be on their way.   *)
(*                                                                         *)
(* A frame is written in two pieces, the second of which has the newline:  *)
(* enough for a read, a deadline and an exit in the middle of a frame.     *)
(* The child, the pipes and the clock are external.                        *)
(***************************************************************************)
EXTENDS Naturals, Sequences

CONSTANTS
    MaxRequests,  \* bound: requests of one transport
    MaxUnread     \* bound: pieces the pipe holds

ASSUME TransportAssumption == MaxRequests \in Nat /\ MaxUnread \in Nat

VARIABLES
    pc,        \* idle, read (in the loop of _read_response), empty (the loop
               \*   found nothing to read) or closed
    nextId,    \* _next_id
    buffer,    \* _stdout_buffer
    outcome,   \* how each request ended
    late,      \* the deadline of the open request has passed
    inbox,     \* stdin of the child; 0 is a notification
    taken,     \* requests the child took up
    replied,   \* requests it answered
    half,      \* the frame it is in the middle of writing, or NoFrame
    pipe,      \* stdout of the child
    isOpen,    \* its stdout is open
    running,   \* poll() is None
    inTime     \* observation: requests whose answer was written to the end
               \*   before their deadline

client == <<pc, nextId, buffer, outcome, late>>
child  == <<inbox, taken, replied, half, pipe, isOpen, running>>
vars   == <<client, child, inTime>>

Requests == 1..MaxRequests

\* "odd" is an answer without a result object; "note" a frame without an id, a
\* blank line, or an id that is none of ours; "junk" a line that is no JSON
\* object.
Frame(kind, n) == [kind |-> kind, id |-> n]

Frames == [kind : {"result", "error", "odd"}, id : Requests]
             \cup [kind : {"note", "junk"}, id : {0}]

NoFrame == Frame("none", 0)

Piece(frame, end) == [frame |-> frame, end |-> end]

Pieces == [frame : Frames, end : BOOLEAN]

Ended == {"returned", "error", "malformed", "timed_out", "exited", "unwritten"}

Init ==
    /\ pc = "idle"
    /\ nextId = 0
    /\ buffer = <<>>
    /\ outcome = [n \in Requests |-> "unsent"]
    /\ late = FALSE
    /\ inbox = <<>>
    /\ taken = {}
    /\ replied = {}
    /\ half = NoFrame
    /\ pipe = <<>>
    /\ isOpen = TRUE
    /\ running = TRUE
    /\ inTime = {}

-----------------------------------------------------------------------------
(* request.                                                                *)

Ends(how) ==
    /\ pc' = "idle"
    /\ outcome' = [outcome EXCEPT ![nextId] = how]
    /\ late' = FALSE

\* Mutant: every request begins with an empty buffer.
RequestMutant ==
    /\ pc = "idle" /\ nextId < MaxRequests
    /\ nextId' = nextId + 1
    /\ outcome' = [outcome EXCEPT ![nextId + 1] = "open"]
    /\ inbox' = Append(inbox, nextId + 1)
    /\ pc' = "read"
    /\ buffer' = <<>>
    /\ UNCHANGED <<late, taken, replied, half, pipe, isOpen, running, inTime>>

\* The request is written and the deadline set.
Request ==
    /\ pc = "idle" /\ nextId < MaxRequests
    /\ nextId' = nextId + 1
    /\ outcome' = [outcome EXCEPT ![nextId + 1] = "open"]
    /\ inbox' = Append(inbox, nextId + 1)
    /\ pc' = "read"
    /\ UNCHANGED <<buffer, late, taken, replied, half, pipe, isOpen, running, inTime>>

\* The write raises: the pipe is broken, or the message cannot be encoded.
RequestFails ==
    /\ pc = "idle" /\ nextId < MaxRequests
    /\ nextId' = nextId + 1
    /\ outcome' = [outcome EXCEPT ![nextId + 1] = "unwritten"]
    /\ UNCHANGED <<pc, buffer, late, child, inTime>>

\* notifications/initialized, after the answer to the first request.
Notify ==
    /\ pc = "idle" /\ nextId = 1 /\ outcome[1] = "returned"
    /\ \A i \in 1..Len(inbox) : inbox[i] # 0
    /\ inbox' = Append(inbox, 0)
    /\ UNCHANGED <<client, taken, replied, half, pipe, isOpen, running, inTime>>

Close ==
    /\ pc = "idle"
    /\ pc' = "closed"
    /\ running' = FALSE
    /\ isOpen' = FALSE
    /\ UNCHANGED <<nextId, buffer, outcome, late, inbox, taken, replied, half, pipe, inTime>>

-----------------------------------------------------------------------------
(* _read_response.                                                         *)

\* Where the first newline is.
LineEnds == {i \in 1..Len(buffer) : buffer[i].end}

\* _next_stdout_line: the pieces up to the first newline, and what remains.
HasLine == LineEnds # {}

LineLength == CHOOSE i \in LineEnds : \A j \in LineEnds : i <= j

\* The line parses to a JSON object when it is one whole frame.
IsWhole == LineLength = 2 /\ buffer[1].frame = buffer[2].frame

Parses == IsWhole /\ buffer[1].frame.kind # "junk"

TakeLine ==
    /\ pc = "read" /\ HasLine
    /\ buffer' = SubSeq(buffer, LineLength + 1, Len(buffer))
    /\ UNCHANGED <<nextId, child, inTime>>

\* Mutant: the id is not compared.
IsMineMutant == Parses /\ buffer[1].frame.kind # "note"

IsMine == Parses /\ buffer[1].frame.id = nextId

\* A notification, or the answer of an earlier request.
SkipLine ==
    /\ TakeLine
    /\ Parses /\ ~IsMine
    /\ UNCHANGED <<pc, outcome, late>>

ReturnResult == TakeLine /\ IsMine /\ buffer[1].frame.kind = "result" /\ Ends("returned")

\* The server's own error, as an exception.
RaiseError == TakeLine /\ IsMine /\ buffer[1].frame.kind = "error" /\ Ends("error")

RaiseMalformed ==
    /\ TakeLine
    /\ Parses => (IsMine /\ buffer[1].frame.kind = "odd")
    /\ Ends("malformed")

\* os.read: some of the bytes that are there.
ReadChunk ==
    /\ pc = "read" /\ ~HasLine
    /\ \E n \in 1..Len(pipe) :
          /\ buffer' = buffer \o SubSeq(pipe, 1, n)
          /\ pipe' = SubSeq(pipe, n + 1, Len(pipe))
    /\ UNCHANGED <<pc, nextId, outcome, late, inbox, taken, replied, half,
                   isOpen, running, inTime>>

\* Mutant: the deadline is looked at before the pipe.
NothingToReadMutant ==
    /\ pc = "read" /\ ~HasLine
    /\ late \/ (pipe = <<>> /\ ~isOpen)
    /\ pc' = "empty"
    /\ UNCHANGED <<nextId, buffer, outcome, late, child, inTime>>

\* select waits until the deadline in vain, or os.read meets the end of file.
NothingToRead ==
    /\ pc = "read" /\ ~HasLine
    /\ pipe = <<>>
    /\ late \/ ~isOpen
    /\ pc' = "empty"
    /\ UNCHANGED <<nextId, buffer, outcome, late, child, inTime>>

\* The child may have written, closed its stdout or exited in between.
RaiseExited ==
    /\ pc = "empty" /\ ~running
    /\ Ends("exited")
    /\ UNCHANGED <<nextId, buffer, child, inTime>>

\* Mutant: in the middle of a frame the rest of it is waited for.
RaiseTimedOutMutant ==
    /\ pc = "empty" /\ running
    /\ late /\ buffer = <<>>
    /\ Ends("timed_out")
    /\ UNCHANGED <<nextId, buffer, child, inTime>>

RaiseTimedOut ==
    /\ pc = "empty" /\ running
    /\ late
    /\ Ends("timed_out")
    /\ UNCHANGED <<nextId, buffer, child, inTime>>

\* End of file, but neither exited nor late.
ReadAgain ==
    /\ pc = "empty" /\ running
    /\ ~late
    /\ pc' = "read"
    /\ UNCHANGED <<nextId, buffer, outcome, late, child, inTime>>

ReadResponse ==
    \/ SkipLine \/ ReturnResult \/ RaiseError \/ RaiseMalformed
    \/ ReadChunk \/ NothingToRead \/ RaiseExited \/ RaiseTimedOut \/ ReadAgain

DeadlinePasses ==
    /\ pc \in {"read", "empty"} /\ ~late
    /\ late' = TRUE
    /\ UNCHANGED <<pc, nextId, buffer, outcome, child, inTime>>

-----------------------------------------------------------------------------
(* The child process.                                                      *)

TakeUp ==
    /\ running /\ inbox # <<>>
    /\ inbox' = Tail(inbox)
    /\ taken' = IF Head(inbox) = 0 THEN taken ELSE taken \cup {Head(inbox)}
    /\ UNCHANGED <<client, replied, half, pipe, isOpen, running, inTime>>

\* The first piece of a frame.
Write(frame) ==
    /\ running /\ isOpen /\ half = NoFrame
    /\ Len(pipe) < MaxUnread
    /\ pipe' = Append(pipe, Piece(frame, FALSE))
    /\ half' = frame
    /\ UNCHANGED <<client, inbox, taken, isOpen, running, inTime>>

\* Requests are answered in any order.
Reply ==
    \E n \in taken \ replied, kind \in {"result", "error", "odd"} :
        Write(Frame(kind, n)) /\ replied' = replied \cup {n}

Chatter ==
    \E kind \in {"note", "junk"} : Write(Frame(kind, 0)) /\ UNCHANGED replied

\* The rest of the frame.
Finish ==
    /\ running /\ isOpen /\ half # NoFrame
    /\ pipe' = Append(pipe, Piece(half, TRUE))
    /\ half' = NoFrame
    /\ inTime' = IF half.id = nextId /\ ~late /\ pc \in {"read", "empty"}
                 THEN inTime \cup {nextId} ELSE inTime
    /\ UNCHANGED <<client, inbox, taken, replied, isOpen, running>>

CloseStdout ==
    /\ isOpen
    /\ isOpen' = FALSE
    /\ UNCHANGED <<client, inbox, taken, replied, half, pipe, running, inTime>>

\* A process it started may keep its stdout open.
Exit ==
    /\ running
    /\ running' = FALSE
    /\ UNCHANGED <<client, inbox, taken, replied, half, pipe, isOpen, inTime>>

Child == TakeUp \/ Reply \/ Chatter \/ Finish \/ CloseStdout \/ Exit

-----------------------------------------------------------------------------

Next ==
    \/ Request \/ RequestFails \/ Notify \/ Close
    \/ ReadResponse
    \/ DeadlinePasses
    \/ Child

Spec == Init /\ [][Next]_vars

\* The process is scheduled and the clock goes on; nothing is asked of the child.
FairSpec == Spec /\ WF_vars(ReadResponse) /\ WF_vars(DeadlinePasses)

-----------------------------------------------------------------------------
(* Properties.                                                             *)

\* Every variable stays in its set, and exactly the open request has a reader.
TypeOK ==
    /\ pc \in {"idle", "read", "empty", "closed"}
    /\ pc \in {"read", "empty"} => nextId # 0
    /\ nextId \in 0..MaxRequests
    /\ buffer \in Seq(Pieces)
    /\ outcome \in [Requests -> {"unsent", "open"} \cup Ended]
    /\ late \in BOOLEAN
    /\ inbox \in Seq(0..nextId)
    /\ taken \subseteq 1..nextId
    /\ replied \subseteq taken
    /\ half \in Frames \cup {NoFrame}
    /\ pipe \in Seq(Pieces)
    /\ isOpen \in BOOLEAN
    /\ running \in BOOLEAN
    /\ inTime \subseteq 1..nextId
    /\ \A n \in Requests :
          /\ outcome[n] = "unsent" <=> n > nextId
          /\ outcome[n] = "open" <=> pc \in {"read", "empty"} /\ n = nextId

\* All that was written and not taken yet.
Stream == buffer \o pipe

\* What is buffered and what is still in the pipe are whole frames, one after
\* another, but for the last one that is being written: neither a deadline in
\* the middle of a frame nor an exception ever tears the stream, so a request is
\* failed as malformed only for what the child wrote.
Framed ==
    /\ \A i \in 1..Len(Stream) :
          /\ Stream[i].end <=> i % 2 = 0
          /\ Stream[i].end => Stream[i - 1].frame = Stream[i].frame
    /\ IF half = NoFrame THEN Len(Stream) % 2 = 0
       ELSE Len(Stream) % 2 = 1 /\ Stream[Len(Stream)].frame = half

\* A request whose answer was written in time is never given up, although its
\* deadline passes, stdout ends or the child exits before the answer is read.
InTimeIsAnswered ==
    \A n \in inTime : outcome[n] \notin {"timed_out", "exited", "unwritten"}

\* Only requests that the child took up are answered.
AnswersWereAsked ==
    /\ half.id \in taken \cup {0}
    /\ \A i \in 1..Len(Stream) : Stream[i].frame.id \in taken \cup {0}

\* An answer that was written in time waits in the stream while its request is
\* open, and the loop does not find the stream empty.
AnswerIsThere ==
    /\ pc = "empty" => nextId \notin inTime /\ (late \/ ~isOpen)
    /\ pc = "read" /\ nextId \in inTime =>
          \E i \in 1..Len(Stream) : Stream[i].end /\ Stream[i].frame.id = nextId

\* What waits in the stdin of the child is younger than what it took up, one
\* request after another.
WaitsInOrder ==
    \A i \in 1..Len(inbox) : inbox[i] # 0 =>
        /\ \A n \in taken : n < inbox[i]
        /\ \A j \in 1..(i - 1) : inbox[j] < inbox[i]

\* The inductive invariant.
IInv ==
    /\ TypeOK /\ Framed /\ AnswersWereAsked /\ AnswerIsThere
    /\ InTimeIsAnswered /\ WaitsInOrder

\* The caller sees the ledger: answers of earlier requests, which arrive after
\* their deadline, are told apart by their id, and a request that was given up
\* is taken up before the next one, or not at all.
Fate ==
    [n \in Requests |->
        CASE outcome[n] \in {"returned", "error"} -> "answered"
          [] outcome[n] \in {"unsent", "open"} -> outcome[n]
          [] OTHER -> "raised"]

Ledger == INSTANCE RequestLedger WITH fate <- Fate, up <- running

\* Every step of the transport and of the child is a step of the ledger.
ImplementsRequests == Ledger!Spec

\* When the child stops writing on its own account, every request ends: the
\* deadline is looked at only when there is nothing to read, so a child that
\* chatters without pause keeps the request waiting.
RequestEnds ==
    <>[][~Chatter]_vars => (pc \in {"read", "empty"} ~> pc = "idle")

=============================================================================
