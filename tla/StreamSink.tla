------------------------------ MODULE StreamSink ------------------------------
(***************************************************************************)
(* Live output of one file's commands (cmd/mutant/stream.go: streamSink).  *)
(* The copy goroutine of a command calls Write, which cuts lines out of    *)
(* the chunks it is given and queues them; a drainer goroutine prints the  *)
(* queue on a console that may stall; the worker calls Flush after each    *)
(* command and Close after the last (scheduler.go: flushStream,            *)
(* closeStream).  One iteration of Write's loop is one step, so that the   *)
(* drainer runs between the lines of a chunk.                              *)
(***************************************************************************)
EXTENDS Integers, Sequences, FiniteSets, SequencesExt

CONSTANTS
    QueueCap,       \* queueCap (1024 in the program)
    NCmds,          \* number of commands of the file
    MaxBytes        \* bound on the output of a command

ASSUME StreamAssumption == {QueueCap, NCmds} \subseteq Nat \ {0} /\ MaxBytes \in Nat

Bytes == {"x", "CR", "LF"}      \* any other byte, '\r', '\n'
Chunks(n) == UNION {[1 .. k -> Bytes] : k \in 1 .. n}

VARIABLES
    part, crHeld, closed, dropped, queue,   \* the fields of streamSink
    drainer,    \* the item the drainer works on, Idle, or Gone
    screen,     \* what has been printed
    at,         \* where the command, Flush or Close is
    cmd,        \* the command whose output this is
    chunk,      \* what Write has still to scan
    sent,       \* history: the bytes the command has written
    offered     \* history: the lines of the command given to emitLocked

sinkVars == <<part, crHeld, closed, dropped, queue>>
outVars == <<drainer, screen>>
vars == <<sinkVars, outVars, at, cmd, chunk, sent, offered>>

Line(text) == [kind |-> "line", cmd |-> cmd, text |-> text]
Note(n) == [kind |-> "note", cmd |-> cmd, drops |-> n]
Barrier == [kind |-> "barrier"]
Idle == [kind |-> "idle"]
Gone == [kind |-> "gone"]

Init ==
    /\ part = <<>> /\ crHeld = FALSE /\ closed = FALSE /\ dropped = 0 /\ queue = <<>>
    /\ drainer = Idle /\ screen = <<>>
    /\ at = "copy" /\ cmd = 1
    /\ chunk = <<>> /\ sent = <<>> /\ offered = <<>>

Room == Len(queue) < QueueCap
Send(item) == Room /\ queue' = Append(queue, item)      \* a blocking send

\* emitLocked: a full queue drops the line and counts it.
Emit_Blocks(text) ==                                                     \* mutant
    Send(Line(text)) /\ UNCHANGED dropped /\ offered' = Append(offered, text)
Emit_Uncounted(text) ==                                                  \* mutant
    /\ offered' = Append(offered, text) /\ UNCHANGED dropped
    /\ queue' = IF Room THEN Append(queue, Line(text)) ELSE queue
Emit(text) ==
    /\ offered' = Append(offered, text)
    /\ IF Room THEN Send(Line(text)) /\ UNCHANGED dropped
               ELSE dropped' = dropped + 1 /\ UNCHANGED queue
NoEmit == UNCHANGED <<offered, queue, dropped>>

-----------------------------------------------------------------------------
(* Write *)

WriteChunk ==           \* the command writes; the copy goroutine calls Write
    /\ at = "copy" /\ chunk = <<>>
    /\ \E c \in Chunks(MaxBytes - Len(sent)) : chunk' = c /\ sent' = sent \o c
    /\ UNCHANGED <<sinkVars, outVars, at, cmd, offered>>

\* The last chunk ended with '\r': a '\n' now completes "\r\n", anything else
\* makes it an overwrite.
Held ==
    /\ chunk # <<>> /\ crHeld
    /\ crHeld' = FALSE /\ part' = <<>>
    /\ IF Head(chunk) = "LF" THEN Emit(Front(part)) /\ chunk' = Tail(chunk)
                             ELSE NoEmit /\ UNCHANGED chunk

\* The first terminator of the chunk (IndexAny).
Terminator(c, i) == c[i] \in {"CR", "LF"} /\ \A j \in 1 .. i - 1 : c[j] = "x"
Rest(c, i) == SubSeq(c, i + 1, Len(c))

TrailingCR_Overwrites(i) ==                                              \* mutant
    chunk[i] = "CR" /\ i = Len(chunk) /\ part' = <<>> /\ crHeld' = FALSE /\ NoEmit /\ chunk' = <<>>
TrailingCR_NotBuffered(i) ==                                             \* mutant
    /\ chunk[i] = "CR" /\ i = Len(chunk)
    /\ part' = part \o SubSeq(chunk, 1, i - 1) /\ crHeld' = TRUE /\ NoEmit
    /\ chunk' = <<>>
TrailingCR(i) ==        \* undecided until the next chunk, or Flush
    /\ chunk[i] = "CR" /\ i = Len(chunk)
    /\ part' = part \o chunk /\ crHeld' = TRUE /\ NoEmit
    /\ chunk' = <<>>

EndOfLine(i, width) ==  \* "\n", or "\r\n" counted once
    /\ Emit(part \o SubSeq(chunk, 1, i - 1))
    /\ part' = <<>> /\ UNCHANGED crHeld
    /\ chunk' = Rest(chunk, i + width - 1)

Overwrite(i) == part' = <<>> /\ UNCHANGED crHeld /\ NoEmit /\ chunk' = Rest(chunk, i)

Scan ==
    /\ chunk # <<>> /\ ~crHeld
    /\ \/ /\ \A i \in DOMAIN chunk : chunk[i] = "x"
          /\ part' = part \o chunk /\ chunk' = <<>> /\ UNCHANGED crHeld /\ NoEmit
       \/ \E i \in DOMAIN chunk :
            /\ Terminator(chunk, i)
            /\ \/ chunk[i] = "LF" /\ EndOfLine(i, 1)
               \/ TrailingCR(i)
               \/ chunk[i] = "CR" /\ i < Len(chunk) /\ chunk[i + 1] = "LF" /\ EndOfLine(i, 2)
               \/ chunk[i] = "CR" /\ i < Len(chunk) /\ chunk[i + 1] # "LF" /\ Overwrite(i)

Write == (Held \/ Scan) /\ UNCHANGED <<closed, outVars, at, cmd, sent>>

CommandEnds ==          \* cmd.Wait has returned: the copies are done
    /\ at = "copy" /\ chunk = <<>>
    /\ at' = "flush"
    /\ UNCHANGED <<sinkVars, outVars, cmd, chunk, sent, offered>>

-----------------------------------------------------------------------------
(* Flush and Close, called by the worker *)

EmitPartial ==          \* the unfinished line, without a held '\r'
    /\ at = "flush" /\ at' = "barrier"
    /\ LET line == IF crHeld THEN Front(part) ELSE part
       IN  IF line # <<>> THEN Emit(line) ELSE NoEmit
    /\ part' = <<>> /\ crHeld' = FALSE
    /\ UNCHANGED <<closed, outVars, cmd, chunk, sent>>

SendBarrier_NoWait ==                                                    \* mutant
    /\ at = "barrier" /\ at' = "note" /\ Send(Barrier)
    /\ UNCHANGED <<part, crHeld, closed, dropped, outVars, cmd, chunk, sent, offered>>
SendBarrier ==          \* then <-done, which the drainer closes
    /\ at = "barrier" /\ at' = "wait" /\ Send(Barrier)
    /\ UNCHANGED <<part, crHeld, closed, dropped, outVars, cmd, chunk, sent, offered>>

ReportDrops ==
    /\ at = "note" /\ at' = "flushed"
    /\ dropped' = 0
    /\ IF dropped > 0 THEN Send(Note(dropped)) ELSE UNCHANGED queue
    /\ UNCHANGED <<part, crHeld, closed, outVars, cmd, chunk, sent, offered>>

NextCommand ==
    /\ at = "flushed" /\ cmd < NCmds
    /\ at' = "copy" /\ cmd' = cmd + 1
    /\ sent' = <<>> /\ offered' = <<>>
    /\ UNCHANGED <<sinkVars, outVars, chunk>>

\* The chain is over, or stopped at this command.
BeginClose ==
    /\ at = "flushed"
    /\ at' = "closebarrier" /\ closed' = TRUE
    /\ UNCHANGED <<part, crHeld, dropped, queue, outVars, cmd, chunk, sent, offered>>

CloseBarrier ==
    /\ at = "closebarrier" /\ at' = "closewait" /\ Send(Barrier)
    /\ UNCHANGED <<part, crHeld, closed, dropped, outVars, cmd, chunk, sent, offered>>

Caller == WriteChunk \/ CommandEnds \/ EmitPartial \/ SendBarrier \/ ReportDrops \/ NextCommand
          \/ BeginClose \/ CloseBarrier

-----------------------------------------------------------------------------
(* The drainer *)

Take ==
    /\ drainer = Idle /\ queue # <<>>
    /\ drainer' = Head(queue) /\ queue' = Tail(queue)
    /\ UNCHANGED <<part, crHeld, closed, dropped, screen, at, cmd, chunk, sent, offered>>

PrintItem ==
    /\ drainer.kind \in {"line", "note"}
    /\ screen' = Append(screen, drainer) /\ drainer' = Idle
    /\ UNCHANGED <<sinkVars, at, cmd, chunk, sent, offered>>

RunBarrier ==           \* close(done): Flush or Close goes on
    /\ drainer = Barrier /\ drainer' = Idle
    /\ at' = CASE at = "wait" -> "note" [] at = "closewait" -> "closed" [] OTHER -> at
    /\ UNCHANGED <<sinkVars, screen, cmd, chunk, sent, offered>>

StopDrainer_Leaks == FALSE                                               \* mutant
StopDrainer ==          \* close(queue) ends the range loop
    /\ at = "closed" /\ queue = <<>> /\ drainer = Idle
    /\ drainer' = Gone
    /\ UNCHANGED <<sinkVars, screen, at, cmd, chunk, sent, offered>>

Drainer == Take \/ PrintItem \/ RunBarrier \/ StopDrainer

Over == drainer = Gone /\ UNCHANGED vars

Next == Caller \/ Write \/ Drainer \/ Over

Spec == Init /\ [][Next]_vars

\* A stalled console: the drainer may stop for good.
StalledSpec == Spec /\ WF_vars(Write) /\ WF_vars(Caller)

-----------------------------------------------------------------------------
(* Properties *)

Items == IF drainer = Idle THEN queue ELSE <<drainer>> \o queue
\* Everything that was handed to the drainer, in order; and where in it the current
\* command's lines or notes are.
Out == screen \o Items
Mine(kind) == {i \in DOMAIN Out : Out[i].kind = kind /\ Out[i].cmd = cmd}

TypeOK ==
    /\ part \in Seq(Bytes) /\ crHeld \in BOOLEAN /\ closed \in BOOLEAN
    /\ dropped \in Nat /\ Len(queue) <= QueueCap
    /\ drainer.kind \in {"line", "note", "barrier", "idle", "gone"}
    /\ at \in {"copy", "flush", "barrier", "wait", "note", "flushed", "closebarrier", "closewait",
               "closed"}
    /\ cmd \in 1 .. NCmds
    /\ chunk \in Seq(Bytes) /\ sent \in Seq(Bytes) /\ Len(sent) <= MaxBytes
    /\ crHeld => part # <<>> /\ Last(part) = "CR"

\* The last byte b of bytes[1 .. n], or 0; the number of line ends there; the bytes
\* since the last of them.
LastOf(b, bytes, n) ==
    CHOOSE k \in 0 .. n : (k = 0 \/ bytes[k] = b) /\ \A j \in k + 1 .. n : bytes[j] # b
Ends(bytes, n) == {k \in 1 .. n : bytes[k] = "LF"}
Segment(bytes, n) == SubSeq(bytes, LastOf("LF", bytes, n) + 1, n)

\* What a terminal shows of a complete line: a "\r" before the "\n" belongs to
\* the terminator, what an earlier "\r" was put before is overwritten.
Shown(segment) ==
    LET body == IF segment # <<>> /\ Last(segment) = "CR" THEN Front(segment) ELSE segment
    IN  SubSeq(body, LastOf("CR", body, Len(body)) + 1, Len(body))

\* The lines of a command do not depend on how its output was cut into chunks, not
\* even within "\r\n": line by line they are what a terminal shows, and so is the
\* unfinished line at the end, if there is anything to see of it (Write, crHeld,
\* Flush).
ChunkingInvisible ==
    at \in {"barrier", "wait", "note", "flushed"} =>
        LET n == Len(sent)
            tail == Shown(Segment(sent, n))
        IN  /\ \A i \in Ends(sent, n) :
                  offered[Cardinality(Ends(sent, i))] = Shown(Segment(sent, i - 1))
            /\ IF tail = <<>> THEN Len(offered) = Cardinality(Ends(sent, n))
               ELSE /\ Len(offered) = Cardinality(Ends(sent, n)) + 1
                    /\ offered[Len(offered)] = tail

\* Every line of the command is on the screen, on its way there, or among the
\* drops that will be reported or are in the one note of the command: none is lost
\* in silence, none is counted for another command.
NothingUnaccounted ==
    \/ Mine("note") = {} /\ Len(offered) = Cardinality(Mine("line")) + dropped
    \/ \E i \in DOMAIN Out :
          /\ Mine("note") = {i} /\ dropped = 0
          /\ Len(offered) = Cardinality(Mine("line")) + Out[i].drops

\* While a command's output is copied, nothing of an earlier command but its
\* note about drops is still to be printed.
FlushSeparates ==
    at = "copy" => \A i \in DOMAIN Items : Items[i].kind = "line" => Items[i].cmd = cmd

\* The note is sent by a blocking send with the lock held, right after the
\* barrier: the queue has room for it whatever the console does.
NoteHasRoom == at = "note" => Room

\* Write never waits for the console: it ends although the drainer may not run.
WriteNeverStalls == chunk # <<>> ~> chunk = <<>>

\* Once the commands end, Close returns and the drainer goroutine is gone, if the
\* console takes what it is given.
SinkCloses == WF_vars(Drainer) => <>(at = "closed" /\ drainer = Gone)
==============================================================================
