---------------------------- MODULE StreamSinkProofs ----------------------------
(***************************************************************************)
(* Proofs about module StreamSink, for a queue of any length and any       *)
(* number of commands with outputs of any length, cut into chunks in any   *)
(* way.  IInv follows the barrier of Flush through the queue: nothing is   *)
(* queued behind it, so that the queue is empty when it has been run.      *)
(* CutInv says what Write knows when it has scanned a part of the output:  *)
(* where the unfinished line starts, and that a '\r' it has decided about  *)
(* was an overwrite.  AcctInv balances the lines a command has offered     *)
(* with those queued, printed and dropped.                                 *)
(***************************************************************************)
EXTENDS StreamSink, SequenceTheorems, FiniteSetTheorems, WellFoundedInduction, TLAPS

Texts == Seq(Bytes)
Item == [kind : {"line"}, cmd : Nat, text : Texts] \cup [kind : {"note"}, cmd : Nat, drops : Nat]
        \cup {Barrier}
Places == {"copy", "flush", "barrier", "wait", "note", "flushed", "closebarrier", "closewait", "closed"}
Waiting == {"wait", "closewait"}

\* Each variable's type.
Typed ==
    /\ part \in Texts /\ crHeld \in BOOLEAN /\ closed \in BOOLEAN /\ dropped \in Nat
    /\ chunk \in Texts /\ sent \in Texts /\ Len(sent) <= MaxBytes
    /\ at \in Places /\ cmd \in 1 .. NCmds
QueueTyped ==
    /\ queue \in Seq(Item) /\ Len(queue) <= QueueCap
    /\ drainer \in Item \cup {Idle, Gone}

\* A held '\r' ends the unfinished line.
HeldOK == crHeld => part # <<>> /\ Last(part) = "CR"

\* What is queued or being printed while the caller is at a place: lines of this
\* command only, none once it has been flushed, and a barrier only while it is
\* waited for, and then last.
LinesOK ==
    /\ drainer.kind = "line" => drainer.cmd = cmd
    /\ \A i \in 1 .. Len(queue) : queue[i].kind = "line" => queue[i].cmd = cmd
    /\ at \in {"note", "flushed"} =>
          drainer.kind # "line" /\ \A i \in 1 .. Len(queue) : queue[i].kind # "line"
BarrierOK ==
    IF at \in Waiting
    THEN \/ drainer.kind = "barrier" /\ Len(queue) = 0
         \/ /\ drainer.kind # "barrier" /\ Len(queue) > 0
            /\ \A i \in 1 .. Len(queue) : queue[i].kind = "barrier" <=> i = Len(queue)
    ELSE /\ drainer.kind # "barrier"
         /\ \A i \in 1 .. Len(queue) : queue[i].kind # "barrier"
NoteOK == at = "note" => Len(queue) = 0

IInv == Typed /\ QueueTyped /\ HeldOK /\ LinesOK /\ BarrierOK /\ NoteOK

\* The constants, one at a time.
LEMMA Constants == QueueCap \in Nat \ {0} /\ NCmds \in Nat \ {0} /\ MaxBytes \in Nat
  BY StreamAssumption

\* What is cut out of a text is a text.
LEMMA CutTyped ==
    ASSUME NEW c \in Texts, NEW i \in Int, NEW j \in Int, i >= 1, j <= Len(c)
    PROVE  SubSeq(c, i, j) \in Texts
<1>1. \A k \in i .. j : c[k] \in Bytes
  BY ElementOfSeq DEF Texts
<1> QED
  BY <1>1, SubSeqProperties DEF Texts

\* The line before a held '\r'.
LEMMA FrontTyped == ASSUME NEW s \in Texts PROVE Front(s) \in Texts
<1>1. Len(s) \in Nat
  BY LenProperties DEF Texts
<1> QED
  BY <1>1, CutTyped DEF Front

\* A queued item is one more, the last.
LEMMA SendProps ==
    ASSUME QueueTyped, NEW x \in Item, Send(x)
    PROVE  /\ queue' \in Seq(Item) /\ Len(queue') = Len(queue) + 1 /\ Len(queue') <= QueueCap
           /\ Len(queue) \in Nat
           /\ \A i \in 1 .. Len(queue) : queue'[i] = queue[i]
           /\ queue'[Len(queue) + 1] = x
<1>1. Len(queue) \in Nat /\ queue' = Append(queue, x) /\ Len(queue) < QueueCap
  BY LenProperties DEF QueueTyped, Send, Room
<1>2. /\ Append(queue, x) \in Seq(Item) /\ Len(Append(queue, x)) = Len(queue) + 1
      /\ \A i \in 1 .. Len(queue) : Append(queue, x)[i] = queue[i]
      /\ Append(queue, x)[Len(queue) + 1] = x
  BY AppendProperties DEF QueueTyped
<1> QED
  BY <1>1, <1>2, Constants DEF QueueTyped

\* emitLocked (stream.go): a line of this command is queued, or counted.
LEMMA EmitProps ==
    ASSUME IInv, NEW t \in Texts, Emit(t), at \in {"copy", "flush"}, at' \in {at, "barrier"},
           UNCHANGED <<drainer, cmd>>
    PROVE  QueueTyped' /\ dropped' \in Nat /\ LinesOK' /\ BarrierOK'
<1> USE DEF IInv
<1>1. CASE Room
  <2>1. Send(Line(t)) /\ dropped' = dropped
    BY <1>1 DEF Emit
  <2>2. Line(t) \in Item /\ Line(t).kind = "line" /\ Line(t).cmd = cmd
    BY Constants DEF Line, Item, Typed
  <2>3. /\ queue' \in Seq(Item) /\ Len(queue') = Len(queue) + 1 /\ Len(queue') <= QueueCap
        /\ Len(queue) \in Nat
        /\ \A i \in 1 .. Len(queue) : queue'[i] = queue[i]
        /\ queue'[Len(queue) + 1] = Line(t)
    BY <2>1, <2>2, SendProps
  <2>4. QueueTyped' /\ dropped' \in Nat
    BY <2>1, <2>3 DEF QueueTyped, Typed
  <2>5. \A i \in 1 .. Len(queue') : queue'[i] = Line(t) \/ (i \in 1 .. Len(queue) /\ queue'[i] = queue[i])
    BY <2>3
  <2>6. LinesOK'
    BY <2>2, <2>5 DEF LinesOK
  <2>7. BarrierOK'
    BY <2>2, <2>5 DEF BarrierOK, Waiting
  <2> QED
    BY <2>4, <2>6, <2>7
<1>2. CASE ~Room
  <2>1. queue' = queue /\ dropped' = dropped + 1
    BY <1>2 DEF Emit
  <2> QED
    BY <2>1 DEF QueueTyped, Typed, LinesOK, BarrierOK, Waiting
<1> QED
  BY <1>1, <1>2

\* The caller leaves the queue alone and goes on with the same command, neither to
\* nor from a wait, and not to the note: what is queued stays as good.
LEMMA QueueKept ==
    ASSUME IInv, UNCHANGED <<queue, drainer, cmd>>,
           at' = at \/ (at \notin Waiting /\ at' \notin Waiting \cup {"note", "flushed"})
    PROVE  QueueTyped' /\ LinesOK' /\ BarrierOK' /\ NoteOK'
  BY DEF IInv, QueueTyped, LinesOK, BarrierOK, NoteOK, Waiting

\* A barrier is sent, and waited for.
LEMMA BarrierSent ==
    ASSUME IInv, Send(Barrier), at \notin Waiting, at' \in Waiting, UNCHANGED <<drainer, cmd>>
    PROVE  QueueTyped' /\ LinesOK' /\ BarrierOK' /\ NoteOK'
<1> USE DEF IInv
<1>1. Barrier \in Item /\ Barrier.kind = "barrier"
  BY DEF Item, Barrier
<1>2. /\ queue' \in Seq(Item) /\ Len(queue') = Len(queue) + 1 /\ Len(queue') <= QueueCap
      /\ Len(queue) \in Nat
      /\ \A i \in 1 .. Len(queue) : queue'[i] = queue[i]
      /\ queue'[Len(queue) + 1] = Barrier
  BY <1>1, SendProps
<1>3. \A i \in 1 .. Len(queue') : \/ i = Len(queue') /\ queue'[i] = Barrier
                                  \/ i # Len(queue') /\ i \in 1 .. Len(queue) /\ queue'[i] = queue[i]
  <2> SUFFICES ASSUME NEW i \in 1 .. Len(queue')
               PROVE  \/ i = Len(queue') /\ queue'[i] = Barrier
                      \/ i # Len(queue') /\ i \in 1 .. Len(queue) /\ queue'[i] = queue[i]
    OBVIOUS
  <2>1. CASE i = Len(queue) + 1
    BY <1>2, <2>1
  <2>2. CASE i # Len(queue) + 1
    <3>1. i \in 1 .. Len(queue) /\ i # Len(queue')
      BY <1>2, <2>2
    <3> QED
      BY <1>2, <3>1
  <2> QED
    BY <2>1, <2>2
<1>4. QueueTyped'
  BY <1>2 DEF QueueTyped
<1>5. LinesOK'
  BY <1>1, <1>3 DEF LinesOK, Waiting
<1>6. BarrierOK'
  BY <1>1, <1>2, <1>3 DEF BarrierOK
<1> QED
  BY <1>4, <1>5, <1>6 DEF NoteOK, Waiting

\* One iteration of Write's loop over a held '\r'.
LEMMA HeldStep == ASSUME IInv, Held, UNCHANGED <<closed, outVars, at, cmd, sent>>, at = "copy" PROVE IInv'
<1> USE DEF IInv, outVars
<1>1. crHeld' = FALSE /\ part' = <<>> /\ chunk # <<>>
  BY DEF Held
<1>2. HeldOK' /\ part' \in Texts
  BY <1>1 DEF HeldOK, Texts
<1>3. Tail(chunk) \in Texts
  BY <1>1, HeadTailProperties DEF Typed, Texts
<1>4. CASE Emit(Front(part)) /\ chunk' = Tail(chunk)
  <2>1. Front(part) \in Texts
    BY FrontTyped DEF Typed
  <2>2. QueueTyped' /\ dropped' \in Nat /\ LinesOK' /\ BarrierOK'
    BY <1>4, <2>1, EmitProps
  <2> QED
    BY <1>1, <1>2, <1>3, <1>4, <2>2 DEF Typed, NoteOK
<1>5. CASE NoEmit /\ UNCHANGED chunk
  <2>1. QueueTyped' /\ LinesOK' /\ BarrierOK' /\ NoteOK'
    BY <1>5, QueueKept DEF NoEmit
  <2> QED
    BY <1>1, <1>2, <1>5, <2>1 DEF Typed, NoEmit
<1> QED
  BY <1>4, <1>5 DEF Held

\* One iteration of Write's loop over the chunk, up to its first terminator.
LEMMA ScanStep == ASSUME IInv, Scan, UNCHANGED <<closed, outVars, at, cmd, sent>>, at = "copy" PROVE IInv'
<1> USE DEF IInv, outVars
<1>1. ~crHeld /\ part \in Texts /\ chunk \in Texts /\ Len(chunk) \in Nat /\ DOMAIN chunk = 1 .. Len(chunk)
      /\ <<>> \in Texts
  BY LenProperties DEF Scan, Typed, Texts
<1>2. part \o chunk \in Texts
  BY <1>1, ConcatProperties DEF Texts
<1>3. ASSUME part' \in Texts, chunk' \in Texts, crHeld' \in BOOLEAN, HeldOK', NoEmit PROVE IInv'
  <2>1. UNCHANGED <<queue, dropped, drainer, at, cmd, closed, sent>>
    BY <1>3 DEF NoEmit
  <2>2. QueueTyped' /\ LinesOK' /\ BarrierOK' /\ NoteOK'
    BY <2>1, QueueKept
  <2>3. Typed'
    BY <1>3, <2>1 DEF Typed
  <2> QED
    BY <1>3, <2>2, <2>3
<1>4. CASE part' = part \o chunk /\ chunk' = <<>> /\ UNCHANGED crHeld /\ NoEmit
  <2>1. part' \in Texts /\ chunk' \in Texts /\ crHeld' \in BOOLEAN /\ NoEmit
    <3>1. part' \in Texts /\ chunk' \in Texts
      BY <1>1, <1>2, <1>4
    <3>2. crHeld' \in BOOLEAN /\ NoEmit
      BY <1>4 DEF Typed
    <3> QED
      BY <3>1, <3>2
  <2>2. HeldOK'
    BY <1>1, <1>4 DEF HeldOK
  <2> QED
    BY <1>3, <2>1, <2>2
<1>5. ASSUME NEW i \in DOMAIN chunk, NEW w \in {1, 2}, i + w - 1 <= Len(chunk), EndOfLine(i, w) PROVE IInv'
  <2>1. SubSeq(chunk, 1, i - 1) \in Texts
    BY <1>1, CutTyped
  <2>2. part \o SubSeq(chunk, 1, i - 1) \in Texts
    BY <1>1, <2>1, ConcatProperties DEF Texts
  <2>3. Rest(chunk, i + w - 1) \in Texts
    BY <1>1, CutTyped DEF Rest
  <2>4. QueueTyped' /\ dropped' \in Nat /\ LinesOK' /\ BarrierOK'
    BY <1>5, <2>2, EmitProps DEF EndOfLine
  <2> QED
    BY <1>1, <1>5, <2>3, <2>4 DEF EndOfLine, Typed, HeldOK, NoteOK
<1>6. ASSUME NEW i \in DOMAIN chunk, TrailingCR(i) PROVE IInv'
  <2>1. /\ Len(part \o chunk) = Len(part) + Len(chunk) /\ Len(part) \in Nat
        /\ (part \o chunk)[Len(part) + Len(chunk)] = chunk[Len(chunk)]
    BY <1>1, <1>6, ConcatProperties, LenProperties DEF Texts
  <2>2. Last(part \o chunk) = "CR" /\ Len(part \o chunk) > 0
    BY <1>1, <1>6, <2>1 DEF TrailingCR, Last
  <2>3. part \o chunk # <<>>
    BY <2>2, EmptySeq
  <2>4. part' = part \o chunk /\ crHeld' = TRUE /\ chunk' = <<>> /\ NoEmit
    BY <1>6 DEF TrailingCR
  <2>5. part' \in Texts /\ chunk' \in Texts /\ crHeld' \in BOOLEAN /\ NoEmit
    BY <1>1, <1>2, <2>4
  <2>6. HeldOK'
    BY <2>2, <2>3, <2>4 DEF HeldOK
  <2> QED
    BY <1>3, <2>5, <2>6
<1>7. ASSUME NEW i \in DOMAIN chunk, Overwrite(i) PROVE IInv'
  <2>1. Rest(chunk, i) \in Texts
    BY <1>1, CutTyped DEF Rest
  <2>2. part' \in Texts /\ chunk' \in Texts /\ crHeld' \in BOOLEAN /\ NoEmit
    <3>1. part' \in Texts /\ chunk' \in Texts
      BY <1>1, <1>7, <2>1 DEF Overwrite
    <3>2. crHeld' \in BOOLEAN /\ NoEmit
      BY <1>7 DEF Overwrite, Typed
    <3> QED
      BY <3>1, <3>2
  <2>3. HeldOK'
    BY <1>1, <1>7 DEF Overwrite, HeldOK
  <2> QED
    BY <1>3, <2>2, <2>3
<1> QED
  BY <1>1, <1>4, <1>5, <1>6, <1>7 DEF Scan

\* The command writes a chunk.
LEMMA WriteChunkStep == ASSUME IInv, WriteChunk PROVE IInv'
<1> USE DEF IInv, WriteChunk, sinkVars, outVars
<1>1. PICK c \in Chunks(MaxBytes - Len(sent)) : chunk' = c /\ sent' = sent \o c
  OBVIOUS
<1>2. Len(sent) \in Nat /\ sent \in Seq(Bytes)
  BY LenProperties DEF Typed, Texts
<1>3. PICK k \in 1 .. (MaxBytes - Len(sent)) : c \in [1 .. k -> Bytes]
  BY DEF Chunks
<1>4. c \in Seq(Bytes) /\ Len(c) = k
  BY <1>2, <1>3, Constants, SeqDef
<1>5. sent \o c \in Seq(Bytes) /\ Len(sent \o c) = Len(sent) + k
  BY <1>2, <1>4, ConcatProperties
<1>6. Len(sent') <= MaxBytes
  BY <1>1, <1>2, <1>3, <1>5, Constants
<1>7. QueueTyped' /\ LinesOK' /\ BarrierOK' /\ NoteOK'
  BY QueueKept
<1> QED
  BY <1>1, <1>4, <1>5, <1>6, <1>7 DEF Typed, Texts, HeldOK

\* Flush emits the unfinished line, without a held '\r'.
LEMMA EmitPartialStep == ASSUME IInv, EmitPartial PROVE IInv'
<1> USE DEF IInv, EmitPartial, outVars
<1> DEFINE line == IF crHeld THEN Front(part) ELSE part
<1>1. line \in Texts
  BY FrontTyped DEF Typed
<1>2. /\ at = "flush" /\ at' = "barrier" /\ (Emit(line) \/ NoEmit)
      /\ part' = <<>> /\ crHeld' = FALSE /\ UNCHANGED <<closed, drainer, cmd, chunk, sent>>
  OBVIOUS
<1> HIDE DEF line
<1>3. QueueTyped' /\ dropped' \in Nat /\ LinesOK' /\ BarrierOK'
  <2>1. CASE Emit(line)
    BY <1>1, <1>2, <2>1, EmitProps
  <2>2. CASE NoEmit
    BY <1>2, <2>2, QueueKept DEF NoEmit, Waiting, Typed
  <2> QED
    BY <1>2, <2>1, <2>2
<1>4. part' \in Texts
  BY <1>2, EmptySeq DEF Texts
<1>5. Typed'
  BY <1>2, <1>3, <1>4 DEF Typed, Places
<1>6. HeldOK' /\ NoteOK'
  BY <1>2 DEF HeldOK, NoteOK
<1> QED
  BY <1>3, <1>5, <1>6

\* The note about drops goes into the queue the barrier has left empty.
LEMMA ReportDropsStep == ASSUME IInv, ReportDrops PROVE IInv'
<1> USE DEF IInv, ReportDrops, outVars
<1>1. Len(queue) = 0 /\ drainer.kind # "line" /\ drainer.kind # "barrier" /\ at' = "flushed"
      /\ UNCHANGED <<drainer, cmd>>
  BY DEF NoteOK, LinesOK, BarrierOK, Waiting
<1>2. Note(dropped) \in Item /\ Note(dropped).kind = "note"
  BY Constants DEF Note, Item, Typed
<1>3. QueueTyped' /\ \A i \in 1 .. Len(queue') : queue'[i].kind = "note"
  <2>1. CASE Send(Note(dropped))
    <3>1. queue' \in Seq(Item) /\ Len(queue') = 1 /\ Len(queue') <= QueueCap /\ queue'[1] = Note(dropped)
      BY <1>1, <1>2, <2>1, SendProps
    <3> QED
      BY <1>1, <1>2, <3>1 DEF QueueTyped
  <2>2. CASE UNCHANGED queue
    BY <1>1, <2>2 DEF QueueTyped
  <2> QED
    BY <2>1, <2>2
<1>4. LinesOK' /\ BarrierOK' /\ NoteOK'
  BY <1>1, <1>3 DEF LinesOK, BarrierOK, NoteOK, Waiting
<1>5. Typed' /\ HeldOK'
  BY DEF Typed, HeldOK, Places
<1> QED
  BY <1>3, <1>4, <1>5

\* The next command starts when nothing but a note of the last one is left.
LEMMA NextCommandStep == ASSUME IInv, NextCommand PROVE IInv'
<1> USE DEF IInv, NextCommand, sinkVars, outVars
<1>1. cmd' \in 1 .. NCmds
  BY Constants DEF Typed
<1>2. Typed' /\ HeldOK'
  <2>1. sent' \in Texts /\ Len(sent') <= MaxBytes
    BY Constants, EmptySeq DEF Texts
  <2> QED
    BY <1>1, <2>1 DEF Typed, HeldOK, Places
<1>3. QueueTyped' /\ LinesOK' /\ BarrierOK' /\ NoteOK'
  BY DEF QueueTyped, LinesOK, BarrierOK, NoteOK, Waiting
<1> QED
  BY <1>2, <1>3

\* The other steps of the caller, which only move on.
LEMMA MoveStep ==
    ASSUME IInv, CommandEnds \/ BeginClose
    PROVE  IInv'
<1>1. /\ at' \in Places /\ at \notin Waiting /\ at' \notin Waiting \cup {"note", "flushed"} /\ closed' \in BOOLEAN
      /\ UNCHANGED <<part, crHeld, dropped, queue, outVars, cmd, chunk, sent>>
  BY DEF IInv, Typed, CommandEnds, BeginClose, sinkVars, Places, Waiting
<1>2. QueueTyped' /\ LinesOK' /\ BarrierOK' /\ NoteOK'
  BY <1>1, QueueKept DEF outVars
<1> QED
  BY <1>1, <1>2 DEF IInv, Typed, HeldOK

\* The barriers of Flush and of Close.
LEMMA BarrierStep == ASSUME IInv, SendBarrier \/ CloseBarrier PROVE IInv'
<1>1. /\ at' \in Waiting /\ at \notin Waiting /\ Send(Barrier)
      /\ UNCHANGED <<part, crHeld, closed, dropped, outVars, cmd, chunk, sent>>
  BY DEF SendBarrier, CloseBarrier, Waiting
<1>2. QueueTyped' /\ LinesOK' /\ BarrierOK' /\ NoteOK'
  BY <1>1, BarrierSent DEF outVars
<1> QED
  BY <1>1, <1>2 DEF IInv, Typed, HeldOK, Waiting, Places

\* The drainer takes the first item of the queue.
LEMMA TakeStep == ASSUME IInv, Take PROVE IInv'
<1> USE DEF IInv, Take
<1>1. /\ queue \in Seq(Item) /\ queue # <<>> /\ Len(queue) \in Nat \ {0}
      /\ UNCHANGED <<part, crHeld, closed, dropped, at, cmd, chunk, sent>>
  BY EmptySeq DEF QueueTyped
<1>2. /\ drainer' = queue[1] /\ queue' \in Seq(Item) /\ Len(queue') = Len(queue) - 1
      /\ drainer' \in Item
      /\ \A i \in 1 .. Len(queue') : queue'[i] = queue[i + 1]
  BY <1>1, HeadTailProperties
<1>3. drainer.kind = "idle"
  BY DEF Idle
<1>4. 1 \in 1 .. Len(queue) /\ \A i \in 1 .. Len(queue') : i + 1 \in 1 .. Len(queue)
  BY <1>1, <1>2
<1>5. QueueTyped'
  BY <1>1, <1>2, Constants DEF QueueTyped
<1>6. LinesOK'
  BY <1>1, <1>2, <1>4 DEF LinesOK
<1>7. BarrierOK'
  <2>1. CASE at \in Waiting
    <3>1. \A i \in 1 .. Len(queue) : queue[i].kind = "barrier" <=> i = Len(queue)
      BY <1>3, <2>1 DEF BarrierOK
    <3>2. \A i \in 1 .. Len(queue') : queue'[i].kind = "barrier" <=> i = Len(queue')
      <4> SUFFICES ASSUME NEW i \in 1 .. Len(queue')
                   PROVE  queue'[i].kind = "barrier" <=> i = Len(queue')
        OBVIOUS
      <4>1. queue'[i] = queue[i + 1] /\ i + 1 \in 1 .. Len(queue)
        BY <1>2, <1>4
      <4>2. i + 1 = Len(queue) <=> i = Len(queue')
        BY <1>1, <1>2
      <4>3. queue[i + 1].kind = "barrier" <=> i + 1 = Len(queue)
        BY <3>1, <4>1
      <4> QED
        BY <4>1, <4>2, <4>3
    <3>3. drainer'.kind = "barrier" <=> Len(queue') = 0
      <4>1. queue[1].kind = "barrier" <=> 1 = Len(queue)
        BY <1>4, <3>1
      <4>2. 1 = Len(queue) <=> Len(queue') = 0
        BY <1>1, <1>2
      <4> QED
        BY <1>2, <4>1, <4>2
    <3>4. Len(queue') \in Nat /\ at' \in Waiting
      BY <1>1, <1>2, <2>1
    <3> QED
      BY <3>2, <3>3, <3>4 DEF BarrierOK
  <2>2. CASE at \notin Waiting
    BY <1>1, <1>2, <1>4, <2>2 DEF BarrierOK
  <2> QED
    BY <2>1, <2>2
<1>8. NoteOK'
  BY <1>1 DEF NoteOK
<1> QED
  BY <1>1, <1>5, <1>6, <1>7, <1>8 DEF Typed, HeldOK

\* The drainer has printed an item, or run the barrier, or stops.
LEMMA DrainerStep == ASSUME IInv, PrintItem \/ RunBarrier \/ StopDrainer PROVE IInv'
<1> USE DEF IInv
<1>1. CASE PrintItem \/ StopDrainer
  <2>1. /\ drainer' \in {Idle, Gone} /\ drainer.kind # "barrier"
        /\ UNCHANGED <<part, crHeld, closed, dropped, queue, at, cmd, chunk, sent>>
    BY <1>1 DEF PrintItem, StopDrainer, sinkVars, Idle
  <2>2. drainer'.kind \in {"idle", "gone"}
    BY <2>1 DEF Idle, Gone
  <2> QED
    BY <2>1, <2>2 DEF Typed, QueueTyped, HeldOK, LinesOK, BarrierOK, NoteOK
<1>2. CASE RunBarrier
  <2>1. drainer.kind = "barrier" /\ drainer' = Idle
        /\ UNCHANGED <<part, crHeld, closed, dropped, queue, cmd, chunk, sent>>
    BY <1>2 DEF RunBarrier, Barrier, sinkVars
  <2>2. at \in Waiting /\ Len(queue) = 0
    BY <2>1 DEF BarrierOK
  <2>3. at' \in {"note", "closed"}
    BY <1>2, <2>2 DEF RunBarrier, Waiting
  <2>4. drainer'.kind = "idle"
    BY <2>1 DEF Idle
  <2>5. QueueTyped' /\ LinesOK' /\ BarrierOK' /\ NoteOK'
    BY <2>1, <2>2, <2>3, <2>4 DEF QueueTyped, LinesOK, BarrierOK, NoteOK, Waiting
  <2> QED
    BY <2>1, <2>3, <2>5 DEF Typed, HeldOK, Places
<1> QED
  BY <1>1, <1>2

\* Nothing has been written.
LEMMA InitStep == Init => IInv
<1> SUFFICES ASSUME Init PROVE IInv
  OBVIOUS
<1>1. <<>> \in Seq(Bytes) /\ <<>> \in Seq(Item) /\ Len(<<>>) = 0
  BY EmptySeq
<1>2. Typed /\ HeldOK
  <2>1. part \in Texts /\ chunk \in Texts /\ sent \in Texts
    BY <1>1 DEF Init, Texts
  <2>2. Len(sent) <= MaxBytes /\ cmd \in 1 .. NCmds /\ dropped \in Nat
    <3>1. Len(sent) = 0 /\ cmd = 1 /\ dropped = 0
      BY <1>1 DEF Init
    <3> QED
      BY <3>1, Constants
  <2>3. crHeld = FALSE /\ closed = FALSE /\ at \in Places
    BY DEF Init, Places
  <2> QED
    BY <2>1, <2>2, <2>3 DEF Typed, HeldOK
<1>3. QueueTyped /\ LinesOK /\ BarrierOK /\ NoteOK
  BY <1>1, Constants DEF Init, QueueTyped, LinesOK, BarrierOK, NoteOK, Waiting, Idle
<1> QED
  BY <1>2, <1>3 DEF IInv

\* While Write has a chunk to scan the command is being copied.
CopyOK == chunk # <<>> => at = "copy"

\* Every step keeps the inductive invariant.
LEMMA InvStep == IInv /\ CopyOK /\ [Next]_vars => IInv' /\ CopyOK'
<1> SUFFICES ASSUME IInv, CopyOK, [Next]_vars PROVE IInv' /\ CopyOK'
  OBVIOUS
<1>1. CopyOK'
  BY DEF CopyOK, Next, Caller, Write, Held, Scan, Drainer, Over, WriteChunk, CommandEnds, EmitPartial, SendBarrier,
     ReportDrops, NextCommand, BeginClose, CloseBarrier, Take, PrintItem, RunBarrier, StopDrainer, vars,
     IInv, Typed, Texts
<1>2. ASSUME Write PROVE IInv'
  <2>1. at = "copy"
    BY <1>2 DEF Write, Held, Scan, CopyOK
  <2> QED
    BY <1>2, <2>1, HeldStep, ScanStep DEF Write
<1>3. ASSUME Caller PROVE IInv'
  BY <1>3, WriteChunkStep, EmitPartialStep, ReportDropsStep, NextCommandStep, MoveStep, BarrierStep DEF Caller
<1>4. ASSUME Drainer PROVE IInv'
  BY <1>4, TakeStep, DrainerStep DEF Drainer
<1>5. ASSUME UNCHANGED vars PROVE IInv'
  <2>1. UNCHANGED <<part, crHeld, closed, dropped, queue, drainer, at, cmd, chunk, sent>>
    BY <1>5 DEF vars, sinkVars, outVars
  <2> QED
    BY <2>1 DEF IInv, Typed, QueueTyped, HeldOK, LinesOK, BarrierOK, NoteOK
<1> QED
  BY <1>1, <1>2, <1>3, <1>4, <1>5 DEF Next, Over

\* The inductive invariant holds of every reachable state.
LEMMA Invariance == Spec => [](IInv /\ CopyOK)
<1>1. Init => CopyOK
  BY DEF Init, CopyOK
<1> QED
  BY InitStep, InvStep, <1>1, PTL DEF Spec

\* The buffers of streamSink keep their types: in particular a held '\r' is the last
\* byte of the unfinished line, so that cutting it off (stream.go) is never out of
\* range.
THEOREM SinkTyped == Spec => []TypeOK
<1>1. IInv => TypeOK
  <2>1. IInv => drainer.kind \in {"line", "note", "barrier", "idle", "gone"}
    BY DEF IInv, QueueTyped, Item, Barrier, Idle, Gone
  <2> QED
    BY <2>1 DEF IInv, Typed, QueueTyped, HeldOK, TypeOK, Texts, Places
<1> QED
  BY Invariance, <1>1, PTL

\* reportDrops sends with the lock held, into a queue that is empty.
THEOREM NoteNeverBlocks == Spec => []NoteHasRoom
<1>1. IInv => NoteHasRoom
  BY Constants DEF IInv, NoteOK, NoteHasRoom, Room
<1> QED
  BY Invariance, <1>1, PTL

\* Flush separates the outputs of the commands: what is still to be printed while a
\* command is copied is that command's, but for a note.
THEOREM CommandsSeparate == Spec => []FlushSeparates
<1>1. IInv => FlushSeparates
  <2> SUFFICES ASSUME IInv, NEW i \in DOMAIN Items, Items[i].kind = "line"
               PROVE  Items[i].cmd = cmd
    BY DEF FlushSeparates
  <2>1. queue \in Seq(Item) /\ Len(queue) \in Nat /\ DOMAIN queue = 1 .. Len(queue)
    BY LenProperties DEF IInv, QueueTyped
  <2>2. CASE drainer = Idle
    BY <2>1, <2>2 DEF Items, IInv, LinesOK
  <2>3. CASE drainer # Idle
    <3>1. drainer \in Item \cup {Gone} /\ <<drainer>> \in Seq(Item \cup {Gone}) /\ queue \in Seq(Item \cup {Gone})
      BY <2>1, <2>3, SeqMonotonic DEF IInv, QueueTyped
    <3>2. /\ DOMAIN Items = 1 .. Len(queue) + 1
          /\ \A j \in 1 .. Len(queue) + 1 : Items[j] = IF j <= 1 THEN drainer ELSE queue[j - 1]
      BY <2>1, <2>3, <3>1, ConcatProperties, LenProperties DEF Items
    <3> QED
      BY <2>1, <3>2 DEF IInv, LinesOK
  <2> QED
    BY <2>2, <2>3
<1> QED
  BY Invariance, <1>1, PTL

-----------------------------------------------------------------------------
(* Bytes: cuts, the last terminator, what a terminal shows *)

\* Induction over a set of numbers.
LEMMA Induction ==
    ASSUME NEW T \in SUBSET Nat, 0 \in T, \A n \in T : n + 1 \in T
    PROVE  T = Nat
<1> SUFFICES ASSUME T # Nat PROVE FALSE
  OBVIOUS
<1> DEFINE R == OpToRel(<, Nat)
           Larger == Nat \ T
<1>1. IsWellFoundedOn(R, Nat)
  BY NatLessThanWellFounded
<1>2. Larger \subseteq Nat /\ Larger # {}
  OBVIOUS
<1>3. \A x, y \in Nat : y < x => <<y, x>> \in R
  BY DEF OpToRel
<1> HIDE DEF R, Larger
<1>4. PICK n \in Larger : \A m \in Larger : <<m, n>> \notin R
  BY <1>1, <1>2, WFMin
<1>5. n \in Nat /\ n # 0 /\ n \notin T
  BY <1>4 DEF Larger
<1>6. n - 1 \in Nat /\ n - 1 < n
  BY <1>5
<1>7. n - 1 \notin Larger
  BY <1>3, <1>4, <1>5, <1>6
<1>8. n - 1 \in T /\ (n - 1) + 1 = n
  BY <1>5, <1>6, <1>7 DEF Larger
<1> QED
  BY <1>5, <1>8

\* Position k is the last of 1 .. n with byte b, or 0.
LastAt(b, bytes, n, k) == (k = 0 \/ bytes[k] = b) /\ \A j \in k + 1 .. n : bytes[j] # b

\* Some position is the last one with byte b, or 0.
LEMMA LastExists ==
    ASSUME NEW b, NEW bytes, NEW n \in Nat
    PROVE  \E k \in 0 .. n : LastAt(b, bytes, n, k)
<1> DEFINE T == {m \in Nat : \E k \in 0 .. m : LastAt(b, bytes, m, k)}
<1>1. 0 \in T
  BY DEF LastAt
<1>2. ASSUME NEW m \in T PROVE m + 1 \in T
  <2>1. PICK k \in 0 .. m : LastAt(b, bytes, m, k)
    OBVIOUS
  <2>2. m \in Nat
    OBVIOUS
  <2>3. CASE bytes[m + 1] = b
    <3>1. LastAt(b, bytes, m + 1, m + 1) /\ m + 1 \in 0 .. m + 1
      BY <2>2, <2>3 DEF LastAt
    <3> QED
      BY <2>2, <3>1
  <2>4. CASE bytes[m + 1] # b
    <3>1. LastAt(b, bytes, m + 1, k) /\ k \in 0 .. m + 1
      BY <2>1, <2>2, <2>4 DEF LastAt
    <3> QED
      BY <2>2, <3>1
  <2> QED
    BY <2>3, <2>4
<1>3. T \in SUBSET Nat
  OBVIOUS
<1> HIDE DEF T
<1>4. n \in T
  BY <1>1, <1>2, <1>3, Induction
<1> QED
  BY <1>4 DEF T

\* LastOf is such a position.
LEMMA LastProps ==
    ASSUME NEW b, NEW bytes, NEW n \in Nat
    PROVE  LastOf(b, bytes, n) \in 0 .. n /\ LastAt(b, bytes, n, LastOf(b, bytes, n))
  BY LastExists DEF LastOf, LastAt

\* A position that is the last is LastOf.
LEMMA LastIs ==
    ASSUME NEW b, NEW bytes, NEW n \in Nat, NEW k \in 0 .. n, LastAt(b, bytes, n, k)
    PROVE  LastOf(b, bytes, n) = k
<1> DEFINE l == LastOf(b, bytes, n)
<1>1. l \in 0 .. n /\ LastAt(b, bytes, n, l)
  BY LastProps
<1> HIDE DEF l
<1>2. ~ (l < k)
  <2> SUFFICES ASSUME l < k PROVE FALSE
    OBVIOUS
  <2>1. k \in l + 1 .. n /\ k # 0
    BY <1>1
  <2> QED
    BY <1>1, <2>1 DEF LastAt
<1>3. ~ (k < l)
  <2> SUFFICES ASSUME k < l PROVE FALSE
    OBVIOUS
  <2>1. l \in k + 1 .. n /\ l # 0
    BY <1>1
  <2> QED
    BY <1>1, <2>1 DEF LastAt
<1> QED
  BY <1>1, <1>2, <1>3 DEF l

\* The bytes from one position to another.
LEMMA CutProps ==
    ASSUME NEW c \in Texts, NEW i \in Nat, NEW j \in Nat, i <= j, j <= Len(c)
    PROVE  /\ SubSeq(c, i + 1, j) \in Texts /\ Len(SubSeq(c, i + 1, j)) = j - i
           /\ \A k \in 1 .. j - i : SubSeq(c, i + 1, j)[k] = c[i + k]
<1>1. \A k \in i + 1 .. j : c[k] \in Bytes
  BY ElementOfSeq DEF Texts
<1> QED
  BY <1>1, SubSeqProperties DEF Texts

\* A cut of a cut is a cut.
LEMMA CutOfCut ==
    ASSUME NEW c \in Texts, NEW i \in Nat, NEW j \in Nat, i <= j, j <= Len(c),
           NEW k \in Nat, NEW l \in Nat, k <= l, l <= j - i,
           NEW p \in Nat, NEW q \in Nat, p = i + k, q = i + l
    PROVE  SubSeq(SubSeq(c, i + 1, j), k + 1, l) = SubSeq(c, p + 1, q)
<1> DEFINE s == SubSeq(c, i + 1, j)
           t == SubSeq(s, k + 1, l)
           u == SubSeq(c, p + 1, q)
<1>1. s \in Texts /\ Len(s) = j - i /\ \A m \in 1 .. j - i : s[m] = c[i + m]
  BY CutProps
<1> HIDE DEF s
<1>2. t \in Texts /\ Len(t) = l - k /\ \A m \in 1 .. l - k : t[m] = s[k + m]
  BY <1>1, CutProps
<1>3. p <= q /\ q <= Len(c) /\ Len(c) \in Nat
  BY LenProperties DEF Texts
<1>4. u \in Texts /\ Len(u) = q - p /\ \A m \in 1 .. q - p : u[m] = c[p + m]
  <2>1. c \in Texts /\ p \in Nat /\ q \in Nat /\ p <= q /\ q <= Len(c)
    BY <1>3
  <2> QED
    BY ONLY <2>1, CutProps
<1> HIDE DEF t, u
<1>5. q - p = l - k
  OBVIOUS
<1>6. ASSUME NEW m \in 1 .. l - k PROVE t[m] = u[m]
  <2>1. k + m \in 1 .. j - i /\ i + (k + m) = p + m
    OBVIOUS
  <2> QED
    BY <1>1, <1>2, <1>4, <1>5, <2>1
<1>7. t = u
  BY <1>2, <1>4, <1>5, <1>6, SeqEqual DEF Texts
<1> QED
  BY <1>7 DEF s, t, u

\* bytes[c + 1 .. n] is an unfinished line: it starts after a terminator or an
\* overwrite and holds neither.
Unbroken(bytes, c, n) ==
    /\ c = 0 \/ bytes[c] \in {"CR", "LF"}
    /\ \A j \in c + 1 .. n : bytes[j] = "x"

\* What a terminal shows of the bytes since the last line end is what comes
\* after the last overwrite.
LEMMA ShownBody ==
    ASSUME NEW bytes \in Texts, NEW n \in 0 .. Len(bytes), NEW c \in 0 .. n, Unbroken(bytes, c, n)
    PROVE  LET b == LastOf("LF", bytes, n)
               body == SubSeq(bytes, b + 1, n)
           IN  /\ b \in 0 .. c /\ (b = c \/ bytes[c] = "CR")
               /\ Len(body) = n - b
               /\ SubSeq(body, LastOf("CR", body, Len(body)) + 1, Len(body)) = SubSeq(bytes, c + 1, n)
<1> DEFINE b == LastOf("LF", bytes, n)
           body == SubSeq(bytes, b + 1, n)
<1>1. n \in Nat /\ c \in Nat /\ Len(bytes) \in Nat /\ c <= n /\ n <= Len(bytes)
  BY LenProperties DEF Texts
<1>2. b \in 0 .. n /\ LastAt("LF", bytes, n, b)
  BY <1>1, LastProps
<1> HIDE DEF b
<1>3. ~ (b > c)
  <2> SUFFICES ASSUME b > c PROVE FALSE
    OBVIOUS
  <2>1. b \in c + 1 .. n /\ b # 0
    BY <1>1, <1>2
  <2> QED
    BY <1>2, <2>1 DEF LastAt, Unbroken
<1>4. b \in 0 .. c
  BY <1>1, <1>2, <1>3
<1>5. b = c \/ bytes[c] = "CR"
  <2> SUFFICES ASSUME b # c PROVE bytes[c] = "CR"
    OBVIOUS
  <2>1. c \in b + 1 .. n /\ c # 0
    BY <1>1, <1>4
  <2>2. bytes[c] # "LF"
    BY <1>2, <2>1 DEF LastAt
  <2> QED
    BY <2>1, <2>2 DEF Unbroken
<1>6. /\ body \in Texts /\ Len(body) = n - b
      /\ \A k \in 1 .. n - b : body[k] = bytes[b + k]
  BY <1>1, <1>2, CutProps
<1>7. SubSeq(body, (c - b) + 1, n - b) = SubSeq(bytes, c + 1, n)
  <2>1. /\ b \in Nat /\ b <= n /\ c - b \in Nat /\ n - b \in Nat /\ c - b <= n - b
        /\ c = b + (c - b) /\ n = b + (n - b)
    BY <1>1, <1>4
  <2> QED
    BY <1>1, <2>1, CutOfCut
<1> HIDE DEF body
<1>8. LastOf("CR", body, n - b) = c - b
  <2>1. n - b \in Nat /\ c - b \in 0 .. n - b
    BY <1>1, <1>4
  <2>2. c - b = 0 \/ body[c - b] = "CR"
    <3>1. CASE b # c
      <4>1. c - b \in 1 .. n - b /\ b + (c - b) = c
        BY <1>1, <1>4, <3>1
      <4> QED
        BY <1>5, <1>6, <3>1, <4>1
    <3> QED
      BY <1>4, <3>1
  <2>3. ASSUME NEW j \in (c - b) + 1 .. n - b PROVE body[j] # "CR"
    <3>1. j \in 1 .. n - b /\ b + j \in c + 1 .. n
      BY <1>1, <1>4
    <3> QED
      BY <1>6, <3>1 DEF Unbroken
  <2>4. LastAt("CR", body, n - b, c - b)
    BY <2>2, <2>3 DEF LastAt
  <2> QED
    BY <2>1, <2>4, LastIs
<1> QED
  BY <1>4, <1>5, <1>6, <1>7, <1>8 DEF b, body

\* The same, of a line that does not end with '\r'.
LEMMA ShownPlain ==
    ASSUME NEW bytes \in Texts, NEW n \in 0 .. Len(bytes), NEW c \in 0 .. n, Unbroken(bytes, c, n),
           n > 0 => bytes[n] # "CR"
    PROVE  Shown(Segment(bytes, n)) = SubSeq(bytes, c + 1, n)
<1> DEFINE b == LastOf("LF", bytes, n)
           body == SubSeq(bytes, b + 1, n)
<1>1. /\ b \in 0 .. c /\ Len(body) = n - b
      /\ SubSeq(body, LastOf("CR", body, Len(body)) + 1, Len(body)) = SubSeq(bytes, c + 1, n)
  BY ShownBody
<1>2. n \in Nat /\ c \in Nat /\ Len(bytes) \in Nat /\ c <= n /\ n <= Len(bytes) /\ b \in Nat /\ b <= n
  BY <1>1, LenProperties DEF Texts
<1>3. \A k \in 1 .. n - b : body[k] = bytes[b + k]
  BY <1>2, CutProps
<1>4. Segment(bytes, n) = body
  BY DEF Segment
<1> HIDE DEF b, body
<1>5. ~ (body # <<>> /\ Last(body) = "CR")
  <2> SUFFICES ASSUME body # <<>>, body[Len(body)] = "CR" PROVE FALSE
    BY DEF Last
  <2>1. CASE n = b
    <3>1. body = <<>>
      BY <1>2, <2>1, SubSeqEmpty DEF body
    <3> QED
      BY <3>1
  <2>2. CASE n # b
    <3>1. n - b \in 1 .. n - b /\ b + (n - b) = n /\ n > 0
      BY <1>2, <2>2
    <3> QED
      BY <1>1, <1>3, <3>1
  <2> QED
    BY <2>1, <2>2
<1> QED
  BY <1>1, <1>4, <1>5 DEF Shown

\* The same, of a line whose terminator is "\r\n" or that ends with a held '\r'.
LEMMA ShownBeforeCR ==
    ASSUME NEW bytes \in Texts, NEW n \in Nat, n + 1 <= Len(bytes), NEW c \in 0 .. n, Unbroken(bytes, c, n),
           bytes[n + 1] = "CR"
    PROVE  Shown(Segment(bytes, n + 1)) = SubSeq(bytes, c + 1, n)
<1> DEFINE b == LastOf("LF", bytes, n)
           body == SubSeq(bytes, b + 1, n)
           whole == SubSeq(bytes, b + 1, n + 1)
<1>1. n \in 0 .. Len(bytes) /\ n + 1 \in Nat /\ Len(bytes) \in Nat /\ c \in Nat
  BY LenProperties DEF Texts
<1>2. /\ b \in 0 .. c /\ Len(body) = n - b
      /\ SubSeq(body, LastOf("CR", body, Len(body)) + 1, Len(body)) = SubSeq(bytes, c + 1, n)
  BY <1>1, ShownBody
<1>3. LastAt("LF", bytes, n, b)
  BY LastProps
<1>4. b \in Nat /\ b <= n /\ b <= n + 1 /\ b \in 0 .. n + 1
  BY <1>1, <1>2
<1>5. /\ whole \in Texts /\ Len(whole) = n + 1 - b
      /\ \A k \in 1 .. n + 1 - b : whole[k] = bytes[b + k]
  BY <1>1, <1>4, CutProps
<1>6. Front(whole) = body
  <2> DEFINE none == 0
             end == n + 1
             l == n - b
  <2>1. none \in Nat /\ none <= l /\ b = b + none /\ none + 1 = 1
    BY <1>1, <1>4
  <2>2. l \in Nat /\ l <= end - b /\ n = b + l /\ (n + 1 - b) - 1 = l /\ end \in Nat /\ b <= end
        /\ end <= Len(bytes) /\ whole = SubSeq(bytes, b + 1, end)
    BY <1>1, <1>4
  <2>4. b \in Nat /\ n \in Nat
    BY <1>1, <1>4
  <2> HIDE DEF none, end, l, b, body, whole
  <2>3. SubSeq(SubSeq(bytes, b + 1, end), none + 1, l) = SubSeq(bytes, b + 1, n)
    BY <2>1, <2>2, <2>4, CutOfCut
  <2> QED
    BY <1>5, <2>1, <2>2, <2>3 DEF Front, l, body
<1> HIDE DEF b, body, whole
<1>7. Segment(bytes, n + 1) = whole
  <2>1. LastAt("LF", bytes, n + 1, b)
    <3> SUFFICES ASSUME NEW j \in b + 1 .. n + 1 PROVE bytes[j] # "LF"
      BY <1>3 DEF LastAt
    <3>1. j = n + 1 \/ j \in b + 1 .. n
      BY <1>1, <1>4
    <3> QED
      BY <1>3, <3>1 DEF LastAt
  <2> QED
    BY <1>1, <1>4, <2>1, LastIs DEF Segment, whole
<1>8. whole # <<>> /\ Last(whole) = "CR"
  <2>1. n + 1 - b \in 1 .. n + 1 - b /\ b + (n + 1 - b) = n + 1
    BY <1>1, <1>4
  <2>2. whole[n + 1 - b] = "CR" /\ Len(whole) # 0
    BY <1>5, <2>1
  <2> QED
    BY <1>5, <2>2, EmptySeq DEF Last
<1> QED
  BY <1>2, <1>6, <1>7, <1>8 DEF Shown
-----------------------------------------------------------------------------
(* Line ends *)

\* Line ends are finitely many.
LEMMA EndsProps ==
    ASSUME NEW bytes, NEW n \in Nat
    PROVE  /\ IsFiniteSet(Ends(bytes, n)) /\ Cardinality(Ends(bytes, n)) \in Nat
           /\ Ends(bytes, n) \subseteq 1 .. n
<1>1. Ends(bytes, n) \subseteq 1 .. n
  BY DEF Ends
<1>2. IsFiniteSet(1 .. n)
  BY FS_Interval
<1> QED
  BY <1>1, <1>2, FS_Subset, FS_CardinalityType

\* The next line end is one more.
LEMMA OneMoreEnd ==
    ASSUME NEW bytes, NEW m \in Nat, NEW n \in Nat, m < n, bytes[n] = "LF",
           \A j \in m + 1 .. n - 1 : bytes[j] # "LF"
    PROVE  /\ Ends(bytes, n) = Ends(bytes, m) \cup {n}
           /\ Cardinality(Ends(bytes, n)) = Cardinality(Ends(bytes, m)) + 1
<1>1. ASSUME NEW j PROVE j \in Ends(bytes, n) <=> j \in Ends(bytes, m) \cup {n}
  <2>1. j \in 1 .. n <=> j \in 1 .. m \/ j \in m + 1 .. n - 1 \/ j = n
    OBVIOUS
  <2> QED
    BY <2>1 DEF Ends
<1>2. Ends(bytes, n) = Ends(bytes, m) \cup {n}
  BY <1>1
<1>3. n \notin Ends(bytes, m)
  BY DEF Ends
<1> QED
  BY <1>2, <1>3, EndsProps, FS_AddElement

\* Without a '\n' there is no other.
LEMMA NoMoreEnds ==
    ASSUME NEW bytes, NEW m \in Nat, NEW n \in Nat, m <= n,
           \A j \in m + 1 .. n : bytes[j] # "LF"
    PROVE  Ends(bytes, n) = Ends(bytes, m)
<1>1. ASSUME NEW j PROVE j \in Ends(bytes, n) <=> j \in Ends(bytes, m)
  <2>1. j \in 1 .. n <=> j \in 1 .. m \/ j \in m + 1 .. n
    OBVIOUS
  <2> QED
    BY <2>1 DEF Ends
<1> QED
  BY <1>1

\* A line end has a number among the line ends.
LEMMA EndNumber ==
    ASSUME NEW bytes, NEW n \in Nat, NEW i \in Ends(bytes, n)
    PROVE  Cardinality(Ends(bytes, i)) \in 1 .. Cardinality(Ends(bytes, n))
<1>1. i \in 1 .. n /\ i \in Nat /\ i \in Ends(bytes, i)
  BY DEF Ends
<1>2. Ends(bytes, i) \subseteq Ends(bytes, n)
  BY <1>1 DEF Ends
<1>3. /\ IsFiniteSet(Ends(bytes, i)) /\ Cardinality(Ends(bytes, i)) \in Nat
      /\ IsFiniteSet(Ends(bytes, n)) /\ Cardinality(Ends(bytes, n)) \in Nat
  BY <1>1, EndsProps
<1>4. Cardinality(Ends(bytes, i)) <= Cardinality(Ends(bytes, n))
  BY <1>2, <1>3, FS_Subset
<1>5. Cardinality(Ends(bytes, i)) # 0
  BY <1>1, <1>3, FS_EmptySet
<1> QED
  BY <1>3, <1>4, <1>5

\* Text that is only longer has the same lines up to where it was.
LEMMA SameBefore ==
    ASSUME NEW old \in Texts, NEW new, NEW n \in 0 .. Len(old), \A j \in 1 .. n : new[j] = old[j]
    PROVE  /\ Ends(new, n) = Ends(old, n)
           /\ Segment(new, n) = Segment(old, n)
<1>1. n \in Nat /\ Len(old) \in Nat /\ n <= Len(old)
  BY LenProperties DEF Texts
<1>2. Ends(new, n) = Ends(old, n)
  BY <1>1 DEF Ends
<1> DEFINE b == LastOf("LF", old, n)
<1>3. b \in 0 .. n /\ LastAt("LF", old, n, b)
  BY <1>1, LastProps
<1> HIDE DEF b
<1>4. LastAt("LF", new, n, b)
  BY <1>1, <1>3 DEF LastAt
<1>5. LastOf("LF", new, n) = b
  BY <1>1, <1>3, <1>4, LastIs
<1>6. /\ SubSeq(old, b + 1, n) \in Texts /\ Len(SubSeq(old, b + 1, n)) = n - b
      /\ \A k \in 1 .. n - b : SubSeq(old, b + 1, n)[k] = old[b + k]
  BY <1>1, <1>3, CutProps
<1>7. /\ SubSeq(new, b + 1, n) \in Seq(Bytes) /\ Len(SubSeq(new, b + 1, n)) = n - b
      /\ \A k \in 1 .. n - b : SubSeq(new, b + 1, n)[k] = old[b + k]
  <2>1. \A j \in b + 1 .. n : new[j] \in Bytes
    BY <1>1, <1>3, ElementOfSeq DEF Texts
  <2>2. /\ SubSeq(new, b + 1, n) \in Seq(Bytes)
        /\ Len(SubSeq(new, b + 1, n)) = IF b + 1 <= n THEN n - (b + 1) + 1 ELSE 0
        /\ \A k \in 1 .. n - (b + 1) + 1 : SubSeq(new, b + 1, n)[k] = new[b + 1 + k - 1]
    BY <1>1, <1>3, <2>1, SubSeqProperties
  <2>3. ASSUME NEW k \in 1 .. n - b PROVE SubSeq(new, b + 1, n)[k] = old[b + k]
    <3>1. k \in 1 .. n - (b + 1) + 1 /\ b + 1 + k - 1 = b + k /\ b + k \in 1 .. n
      BY <1>1, <1>3
    <3> QED
      BY <2>2, <3>1
  <2> QED
    BY <1>1, <1>3, <2>2, <2>3
<1>8. SubSeq(new, b + 1, n) = SubSeq(old, b + 1, n)
  BY <1>1, <1>3, <1>6, <1>7, SeqEqual DEF Texts
<1> QED
  BY <1>2, <1>5, <1>8 DEF Segment, b
-----------------------------------------------------------------------------
(* The lines do not depend on the chunks *)

\* How far the command's output has been scanned: the rest is the chunk.
Scanned == Len(sent) - Len(chunk)
ChunkOK == Len(chunk) <= Len(sent) /\ \A j \in 1 .. Len(chunk) : chunk[j] = sent[Scanned + j]

\* The complete lines of what has been scanned have been emitted.
EmittedOK ==
    /\ Len(offered) = Cardinality(Ends(sent, Scanned))
    /\ \A i \in Ends(sent, Scanned) :
          offered[Cardinality(Ends(sent, i))] = Shown(Segment(sent, i - 1))

\* The unfinished line starts after the last terminator or overwrite, at c, and
\* holds no other '\r' than one that is held.
StartsAt(c) ==
    /\ part = SubSeq(sent, c + 1, Scanned)
    /\ c = 0 \/ sent[c] \in {"CR", "LF"}
    /\ \A j \in c + 1 .. Scanned : sent[j] = "x" \/ (j = Scanned /\ crHeld)
    /\ crHeld => c < Scanned /\ sent[Scanned] = "CR"
PartOK == \E c \in 0 .. Scanned : StartsAt(c)
\* A '\r' that is not held was an overwrite: no '\n' comes after it.
OverwriteOK ==
    ~crHeld /\ Scanned > 0 /\ sent[Scanned] = "CR" => chunk # <<>> /\ sent[Scanned + 1] # "LF"

Copying == at \in {"copy", "flush"}
Ended == at \in {"barrier", "wait", "note", "flushed"}
CutInv ==
    /\ offered \in Seq(Texts) /\ ChunkOK
    /\ Copying => EmittedOK /\ PartOK /\ OverwriteOK
    /\ ~Copying => part = <<>> /\ crHeld = FALSE
    /\ ChunkingInvisible

\* Chunk, unfinished line and output have their types.
BytesTyped == part \in Texts /\ chunk \in Texts /\ sent \in Texts /\ crHeld \in BOOLEAN /\ offered \in Seq(Texts)

\* The chunk is what is left of the output.
LEMMA Lengths ==
    ASSUME BytesTyped, ChunkOK
    PROVE  /\ Len(chunk) \in Nat /\ Len(sent) \in Nat /\ Scanned \in Nat /\ Len(offered) \in Nat
           /\ Scanned + Len(chunk) = Len(sent) /\ DOMAIN chunk = 1 .. Len(chunk)
           /\ chunk # <<>> <=> Len(chunk) > 0
           /\ chunk = <<>> <=> Scanned = Len(sent)
<1>1. Len(chunk) \in Nat /\ Len(sent) \in Nat /\ Len(offered) \in Nat /\ DOMAIN chunk = 1 .. Len(chunk)
  BY LenProperties DEF BytesTyped, Texts
<1>2. Len(chunk) = 0 <=> chunk = <<>>
  BY EmptySeq DEF BytesTyped, Texts
<1> QED
  BY <1>1, <1>2 DEF ChunkOK, Scanned

\* The unfinished line grows by what the chunk begins with.
LEMMA Joined ==
    ASSUME BytesTyped, ChunkOK, NEW c \in 0 .. Scanned, part = SubSeq(sent, c + 1, Scanned),
           NEW k \in 0 .. Len(chunk), NEW n \in Nat, n = Scanned + k
    PROVE  part \o SubSeq(chunk, 1, k) = SubSeq(sent, c + 1, n) /\ SubSeq(sent, c + 1, n) \in Texts
<1>1. /\ Len(chunk) \in Nat /\ Len(sent) \in Nat /\ Scanned \in Nat /\ Scanned + Len(chunk) = Len(sent)
      /\ sent \in Texts /\ chunk \in Texts
  BY Lengths DEF BytesTyped
<1>2. c \in Nat /\ k \in Nat /\ c <= Scanned /\ Scanned <= n /\ n <= Len(sent) /\ c <= n /\ Scanned <= Len(sent)
  BY <1>1
<1> DEFINE t == SubSeq(chunk, 1, k)
           none == 0
<1>3. none \in Nat /\ none <= k /\ k <= Len(chunk) /\ t = SubSeq(chunk, none + 1, k)
  BY <1>1, <1>2
<1>4. t \in Texts /\ Len(t) = k /\ \A m \in 1 .. k : t[m] = chunk[m]
  <2> HIDE DEF none, t
  <2>1. t \in Texts /\ Len(t) = k - none /\ \A m \in 1 .. k - none : t[m] = chunk[none + m]
    BY <1>1, <1>2, <1>3, CutProps
  <2> QED
    BY <1>2, <2>1 DEF none
<1>5. /\ part \in Texts /\ Len(part) = Scanned - c
      /\ \A m \in 1 .. Scanned - c : part[m] = sent[c + m]
  BY <1>1, <1>2, CutProps
<1> DEFINE u == SubSeq(sent, c + 1, n)
<1>6. u \in Texts /\ Len(u) = n - c /\ \A m \in 1 .. n - c : u[m] = sent[c + m]
  BY <1>1, <1>2, CutProps
<1> HIDE DEF t, u
<1>7. /\ part \o t \in Texts /\ Len(part \o t) = (Scanned - c) + k
      /\ \A m \in 1 .. (Scanned - c) + k :
            (part \o t)[m] = IF m <= Scanned - c THEN part[m] ELSE t[m - (Scanned - c)]
  <2>1. part \in Seq(Bytes) /\ t \in Seq(Bytes)
    BY <1>4, <1>5 DEF Texts
  <2>2. /\ part \o t \in Seq(Bytes) /\ Len(part \o t) = Len(part) + Len(t)
        /\ \A m \in 1 .. Len(part) + Len(t) :
              (part \o t)[m] = IF m <= Len(part) THEN part[m] ELSE t[m - Len(part)]
    BY <2>1, ConcatProperties
  <2>3. Len(part) = Scanned - c /\ Len(t) = k
    BY <1>4, <1>5
  <2> QED
    BY <2>2, <2>3 DEF Texts
<1>8. ASSUME NEW m \in 1 .. n - c PROVE (part \o t)[m] = u[m]
  <2>1. m \in 1 .. (Scanned - c) + k
    BY <1>1, <1>2
  <2>2. CASE m <= Scanned - c
    <3>1. m \in 1 .. Scanned - c
      BY <1>1, <1>2, <2>2
    <3> QED
      BY <1>5, <1>6, <1>7, <2>1, <2>2, <3>1
  <2>3. CASE ~ (m <= Scanned - c)
    <3>1. m - (Scanned - c) \in 1 .. k /\ m - (Scanned - c) \in 1 .. Len(chunk)
          /\ Scanned + (m - (Scanned - c)) = c + m
      BY <1>1, <1>2, <2>3
    <3>2. (part \o t)[m] = chunk[m - (Scanned - c)]
      BY <1>4, <1>7, <2>1, <2>3, <3>1
    <3>3. chunk[m - (Scanned - c)] = sent[c + m]
      BY <3>1 DEF ChunkOK
    <3> QED
      BY <1>6, <3>2, <3>3
  <2> QED
    BY <2>2, <2>3
<1>9. (Scanned - c) + k = n - c
  BY <1>1, <1>2
<1>10. part \o t = u
  BY <1>6, <1>7, <1>8, <1>9, SeqEqual DEF Texts
<1> QED
  BY <1>6, <1>10 DEF t, u

\* The rest of the chunk is the rest of the output.
LEMMA RestOK ==
    ASSUME BytesTyped, ChunkOK, NEW k \in 1 .. Len(chunk), chunk' = SubSeq(chunk, k + 1, Len(chunk)), sent' = sent
    PROVE  chunk' \in Texts /\ ChunkOK' /\ Scanned' = Scanned + k /\ Len(chunk') = Len(chunk) - k
<1>1. /\ Len(chunk) \in Nat /\ Len(sent) \in Nat /\ Scanned \in Nat /\ Scanned + Len(chunk) = Len(sent)
      /\ chunk \in Texts
  BY Lengths DEF BytesTyped
<1>2. k \in Nat /\ k <= Len(chunk)
  BY <1>1
<1>3. /\ chunk' \in Texts /\ Len(chunk') = Len(chunk) - k
      /\ \A m \in 1 .. Len(chunk) - k : chunk'[m] = chunk[k + m]
  BY <1>1, <1>2, CutProps
<1>4. Scanned' = Scanned + k
  <2>1. Scanned' = Len(sent) - Len(chunk') /\ Scanned = Len(sent) - Len(chunk)
    BY DEF Scanned
  <2>2. Len(chunk') = Len(chunk) - k
    BY <1>3
  <2>3. Len(sent) - (Len(chunk) - k) = (Len(sent) - Len(chunk)) + k
    BY <1>1, <1>2
  <2> QED
    BY <2>1, <2>2, <2>3
<1>5. ASSUME NEW m \in 1 .. Len(chunk') PROVE chunk'[m] = sent'[Scanned' + m]
  <2>1. m \in 1 .. Len(chunk) - k /\ k + m \in 1 .. Len(chunk) /\ Scanned' + m = Scanned + (k + m)
    BY <1>1, <1>2, <1>3, <1>4
  <2> QED
    BY <1>3, <2>1 DEF ChunkOK
<1>6. Len(chunk') <= Len(sent')
  BY <1>1, <1>2, <1>3
<1> QED
  BY <1>3, <1>4, <1>5, <1>6 DEF ChunkOK

\* A complete line is emitted, or none.
LEMMA LineEmitted ==
    ASSUME BytesTyped, EmittedOK, Scanned \in Nat, Len(offered) \in Nat, sent' = sent,
           NEW n \in Nat, Scanned < n, Scanned' = n, sent[n] = "LF",
           \A j \in Scanned + 1 .. n - 1 : sent[j] # "LF",
           NEW text \in Texts, text = Shown(Segment(sent, n - 1)), Emit(text)
    PROVE  EmittedOK' /\ offered' \in Seq(Texts)
<1>1. offered' = Append(offered, text)
  BY DEF Emit
<1>2. /\ offered' \in Seq(Texts) /\ Len(offered') = Len(offered) + 1
      /\ \A i \in 1 .. Len(offered) : offered'[i] = offered[i]
      /\ offered'[Len(offered) + 1] = text
  BY <1>1, AppendProperties DEF BytesTyped
<1>3. /\ Ends(sent, n) = Ends(sent, Scanned) \cup {n}
      /\ Cardinality(Ends(sent, n)) = Cardinality(Ends(sent, Scanned)) + 1
  BY OneMoreEnd
<1>4. Len(offered') = Cardinality(Ends(sent', Scanned'))
  BY <1>2, <1>3 DEF EmittedOK
<1>5. ASSUME NEW i \in Ends(sent', Scanned')
      PROVE  offered'[Cardinality(Ends(sent', i))] = Shown(Segment(sent', i - 1))
  <2>1. CASE i = n
    BY <1>2, <1>3, <2>1 DEF EmittedOK
  <2>2. CASE i \in Ends(sent, Scanned)
    <3>1. Cardinality(Ends(sent, i)) \in 1 .. Len(offered)
      BY <2>2, EndNumber DEF EmittedOK
    <3> QED
      BY <1>2, <2>2, <3>1 DEF EmittedOK
  <2> QED
    BY <1>3, <2>1, <2>2
<1> QED
  BY <1>2, <1>4, <1>5 DEF EmittedOK

\* What holds no '\n' completes no line.
LEMMA NoLineEmitted ==
    ASSUME EmittedOK, Scanned \in Nat, sent' = sent, NEW n \in Nat, Scanned <= n, Scanned' = n,
           \A j \in Scanned + 1 .. n : sent[j] # "LF", offered' = offered
    PROVE  EmittedOK'
<1>1. Ends(sent, n) = Ends(sent, Scanned)
  BY NoMoreEnds
<1> QED
  BY <1>1 DEF EmittedOK

\* The facts about the bytes while a command is copied.
CopyInv == BytesTyped /\ ChunkOK /\ EmittedOK /\ PartOK /\ OverwriteOK

\* After a terminator or an overwrite the unfinished line is empty.
LEMMA FreshPart ==
    ASSUME NEW n \in Nat, Scanned' = n, sent'[n] \in {"CR", "LF"}, part' = <<>>, crHeld' = FALSE
    PROVE  PartOK'
<1>1. SubSeq(sent', n + 1, n) = <<>>
  BY SubSeqEmpty
<1>2. \A j \in n + 1 .. n : FALSE
  OBVIOUS
<1>3. StartsAt(n)'
  BY <1>1, <1>2 DEF StartsAt
<1>4. n \in 0 .. Scanned'
  OBVIOUS
<1> QED
  BY <1>3, <1>4 DEF PartOK

\* One iteration of Write's loop over a held '\r'.
LEMMA HeldCuts == ASSUME CopyInv, Held, sent' = sent PROVE CopyInv'
<1> USE DEF CopyInv
<1>1. chunk # <<>> /\ crHeld /\ crHeld' = FALSE /\ part' = <<>> /\ <<>> \in Texts
  BY EmptySeq DEF Held, Texts
<1>2. /\ Len(chunk) \in Nat /\ Len(sent) \in Nat /\ Scanned \in Nat /\ Len(offered) \in Nat
      /\ Scanned + Len(chunk) = Len(sent) /\ Len(chunk) > 0
  BY <1>1, Lengths
<1>3. PICK c \in 0 .. Scanned : StartsAt(c)
  BY DEF PartOK
<1>4. c < Scanned /\ sent[Scanned] = "CR" /\ Scanned > 0 /\ c \in Nat
  BY <1>1, <1>2, <1>3 DEF StartsAt
<1>5. chunk[1] = sent[Scanned + 1] /\ Head(chunk) = chunk[1]
  <2>1. 1 \in 1 .. Len(chunk)
    BY <1>2
  <2> QED
    BY <1>1, <2>1 DEF ChunkOK, BytesTyped, Texts
<1>6. CASE Head(chunk) = "LF" /\ Emit(Front(part)) /\ chunk' = Tail(chunk)
  <2>1. chunk' = SubSeq(chunk, 1 + 1, Len(chunk)) /\ 1 \in 1 .. Len(chunk)
    BY <1>1, <1>2, <1>6, TailIsSubSeq DEF BytesTyped, Texts
  <2>2. chunk' \in Texts /\ ChunkOK' /\ Scanned' = Scanned + 1
    BY <2>1, RestOK
  <2> DEFINE m == Scanned - 1
             n == Scanned + 1
  <2>3. m \in Nat /\ c <= m /\ m + 1 = Scanned /\ m + 1 <= Len(sent) /\ c \in 0 .. m /\ n \in Nat /\ Scanned < n
        /\ n - 1 = Scanned /\ n <= Len(sent)
    BY <1>2, <1>4
  <2>4. part = SubSeq(sent, c + 1, m + 1)
    BY <1>3, <2>3 DEF StartsAt
  <2>5. Unbroken(sent, c, m)
    <3>1. \A j \in c + 1 .. m : j \in c + 1 .. Scanned /\ j # Scanned
      BY <1>2, <1>4
    <3> QED
      BY <1>3, <3>1 DEF StartsAt, Unbroken
  <2>6. Shown(Segment(sent, Scanned)) = SubSeq(sent, c + 1, m)
    <3> HIDE DEF m
    <3>1. sent[m + 1] = "CR"
      BY <1>4, <2>3
    <3>2. Shown(Segment(sent, m + 1)) = SubSeq(sent, c + 1, m)
      BY <2>3, <2>5, <3>1, ShownBeforeCR DEF BytesTyped
    <3> QED
      BY <2>3, <3>2
  <2>7. Front(part) = SubSeq(sent, c + 1, m) /\ SubSeq(sent, c + 1, m) \in Texts
    <3> HIDE DEF m
    <3> DEFINE none == 0
               l == m - c
               end == m + 1
    <3>1. /\ none \in Nat /\ none <= l /\ c = c + none /\ none + 1 = 1
          /\ l \in Nat /\ l <= end - c /\ m = c + l /\ end - c = l + 1 /\ end \in Nat /\ c <= end
          /\ end <= Len(sent) /\ part = SubSeq(sent, c + 1, end) /\ c <= m /\ m <= Len(sent) /\ (l + 1) - 1 = l
      BY <1>2, <1>4, <2>3, <2>4
    <3> HIDE DEF none, l, end
    <3>2. Len(part) = l + 1
      BY <1>4, <3>1, CutProps DEF BytesTyped
    <3>3. SubSeq(SubSeq(sent, c + 1, end), none + 1, l) = SubSeq(sent, c + 1, m)
      BY <1>4, <2>3, <3>1, CutOfCut DEF BytesTyped
    <3>4. SubSeq(sent, c + 1, m) \in Texts
      BY <1>4, <2>3, <3>1, CutProps DEF BytesTyped
    <3> QED
      BY <3>1, <3>2, <3>3, <3>4 DEF Front
  <2>8. EmittedOK' /\ offered' \in Seq(Texts)
    <3>1. sent[n] = "LF" /\ \A j \in Scanned + 1 .. n - 1 : sent[j] # "LF"
      BY <1>2, <1>5, <1>6
    <3>2. Front(part) = Shown(Segment(sent, n - 1)) /\ Front(part) \in Texts /\ Scanned' = n
      BY <2>2, <2>3, <2>6, <2>7
    <3> HIDE DEF n
    <3> QED
      BY <1>2, <1>6, <2>3, <3>1, <3>2, LineEmitted
  <2>9. PartOK'
    <3>1. Scanned' = n /\ sent'[n] = "LF"
      BY <1>2, <1>5, <1>6, <2>2
    <3> HIDE DEF n
    <3> QED
      BY <1>1, <2>3, <3>1, FreshPart
  <2>10. OverwriteOK'
    BY <1>2, <1>5, <1>6, <2>2 DEF OverwriteOK
  <2>11. BytesTyped'
    BY <1>1, <2>2, <2>8 DEF BytesTyped
  <2> QED
    BY <2>2, <2>8, <2>9, <2>10, <2>11
<1>7. CASE Head(chunk) # "LF" /\ NoEmit /\ UNCHANGED chunk
  <2>1. UNCHANGED <<chunk, sent, offered>> /\ Scanned' = Scanned
    BY <1>7 DEF NoEmit, Scanned
  <2>2. EmittedOK' /\ ChunkOK'
    BY <2>1 DEF EmittedOK, ChunkOK
  <2>3. PartOK'
    <3> DEFINE n == Scanned
    <3>1. n \in Nat /\ Scanned' = n /\ sent'[n] = "CR"
      BY <1>2, <1>4, <2>1
    <3> HIDE DEF n
    <3> QED
      BY <1>1, <3>1, FreshPart
  <2>4. OverwriteOK'
    BY <1>1, <1>5, <1>7, <2>1 DEF OverwriteOK
  <2> QED
    BY <1>1, <2>1, <2>2, <2>3, <2>4 DEF BytesTyped
<1> QED
  BY <1>6, <1>7 DEF Held

\* The chunk is cut at its first terminator, at n; the unfinished line and what is
\* before the terminator are unbroken.
LEMMA UpTo ==
    ASSUME CopyInv, ~crHeld, NEW i \in 1 .. Len(chunk), \A j \in 1 .. i - 1 : chunk[j] = "x",
           NEW c \in 0 .. Scanned, StartsAt(c), NEW n \in Nat, n = Scanned + i - 1
    PROVE  /\ Unbroken(sent, c, n) /\ c \in 0 .. n /\ Scanned <= n /\ n + 1 <= Len(sent)
           /\ \A j \in Scanned + 1 .. n : sent[j] = "x"
           /\ sent[n + 1] = chunk[i]
           /\ part \o SubSeq(chunk, 1, i - 1) = SubSeq(sent, c + 1, n)
           /\ SubSeq(sent, c + 1, n) \in Texts
<1> USE DEF CopyInv
<1>1. /\ Len(chunk) \in Nat /\ Len(sent) \in Nat /\ Scanned \in Nat /\ Scanned + Len(chunk) = Len(sent)
  BY Lengths
<1>2. c \in Nat /\ c <= Scanned /\ i \in Nat /\ i - 1 \in 0 .. Len(chunk) /\ n = Scanned + (i - 1) /\ n + 1 = Scanned + i
  BY <1>1
<1>3. ASSUME NEW j \in Scanned + 1 .. n PROVE sent[j] = "x"
  <2>1. j - Scanned \in 1 .. i - 1 /\ j - Scanned \in 1 .. Len(chunk) /\ Scanned + (j - Scanned) = j
    BY <1>1, <1>2
  <2> QED
    BY <2>1 DEF ChunkOK
<1>4. ASSUME NEW j \in c + 1 .. n PROVE sent[j] = "x"
  <2>1. j \in c + 1 .. Scanned \/ j \in Scanned + 1 .. n
    BY <1>1, <1>2
  <2> QED
    BY <1>3, <2>1 DEF StartsAt
<1>5. sent[n + 1] = chunk[i]
  BY <1>2 DEF ChunkOK
<1>6. part = SubSeq(sent, c + 1, Scanned)
  BY DEF StartsAt
<1>7. part \o SubSeq(chunk, 1, i - 1) = SubSeq(sent, c + 1, n) /\ SubSeq(sent, c + 1, n) \in Texts
  BY <1>2, <1>6, Joined
<1>8. c \in 0 .. n /\ Scanned <= n /\ n + 1 <= Len(sent)
  BY <1>1, <1>2
<1> QED
  BY <1>3, <1>4, <1>5, <1>7, <1>8 DEF Unbroken, StartsAt

\* One iteration of Write's loop over the chunk.
LEMMA ScanCuts == ASSUME CopyInv, Scan, sent' = sent PROVE CopyInv'
<1> USE DEF CopyInv
<1>1. chunk # <<>> /\ ~crHeld /\ <<>> \in Texts /\ crHeld = FALSE
  BY EmptySeq DEF Scan, Texts, BytesTyped
<1>2. /\ Len(chunk) \in Nat /\ Len(sent) \in Nat /\ Scanned \in Nat /\ Len(offered) \in Nat
      /\ Scanned + Len(chunk) = Len(sent) /\ Len(chunk) > 0 /\ DOMAIN chunk = 1 .. Len(chunk)
  BY <1>1, Lengths
<1>3. PICK c \in 0 .. Scanned : StartsAt(c)
  BY DEF PartOK
\* The whole chunk goes to the unfinished line, maybe with a '\r' at its end.
<1>4. ASSUME part' = part \o chunk, chunk' = <<>>, NoEmit,
             NEW last \in {"x", "CR"}, chunk[Len(chunk)] = last, crHeld' = (last = "CR"),
             \A j \in 1 .. Len(chunk) - 1 : chunk[j] = "x"
      PROVE  CopyInv'
  <2> DEFINE n == Len(sent)
             m == Len(sent) - 1
             i == Len(chunk)
  <2>1. m \in Nat /\ m = Scanned + i - 1 /\ m + 1 = n /\ i \in 1 .. Len(chunk) /\ \A j \in 1 .. i - 1 : chunk[j] = "x"
    BY <1>2, <1>4
  <2>2. /\ Unbroken(sent, c, m) /\ c \in 0 .. m /\ Scanned <= m
        /\ \A j \in Scanned + 1 .. m : sent[j] = "x"
        /\ sent[m + 1] = last
    <3> HIDE DEF m, i
    <3>1. /\ Unbroken(sent, c, m) /\ c \in 0 .. m /\ Scanned <= m
          /\ \A j \in Scanned + 1 .. m : sent[j] = "x"
          /\ sent[m + 1] = chunk[i]
      BY <1>1, <1>3, <2>1, UpTo
    <3> QED
      BY <1>4, <3>1 DEF i
  <2>3. part' = SubSeq(sent, c + 1, n) /\ part' \in Texts
    <3>1. SubSeq(chunk, 1, i) = chunk
      BY SubSeqFull DEF BytesTyped, Texts
    <3>2. i \in 0 .. Len(chunk) /\ n \in Nat /\ n = Scanned + i /\ part = SubSeq(sent, c + 1, Scanned)
      BY <1>2, <1>3 DEF StartsAt
    <3> HIDE DEF n, i
    <3> QED
      BY <1>3, <1>4, <3>1, <3>2, Joined
  <2>4. Scanned' = n /\ ChunkOK' /\ Len(chunk') = 0
    <3>1. Len(chunk') = 0
      BY <1>4, EmptySeq
    <3> QED
      BY <1>2, <3>1 DEF Scanned, ChunkOK
  <2>5. EmittedOK'
    <3>1. \A j \in Scanned + 1 .. n : sent[j] # "LF"
      <4> SUFFICES ASSUME NEW j \in Scanned + 1 .. n PROVE sent[j] # "LF"
        OBVIOUS
      <4>1. j \in Scanned + 1 .. m \/ j = m + 1
        BY <1>2, <2>1
      <4> QED
        BY <2>2, <4>1
    <3>2. n \in Nat /\ Scanned <= n
      BY <1>2
    <3> HIDE DEF n
    <3> QED
      BY <1>2, <1>4, <2>4, <3>1, <3>2, NoLineEmitted DEF NoEmit
  <2>6. PartOK'
    <3>1. c \in 0 .. n /\ c < n
      BY <1>2, <2>1, <2>2
    <3>2. \A j \in c + 1 .. n : sent[j] = "x" \/ (j = n /\ crHeld')
      <4> SUFFICES ASSUME NEW j \in c + 1 .. n PROVE sent[j] = "x" \/ (j = n /\ crHeld')
        OBVIOUS
      <4>1. j \in c + 1 .. m \/ j = m + 1
        BY <1>2, <2>1, <2>2
      <4> QED
        BY <1>4, <2>1, <2>2, <4>1 DEF Unbroken
    <3>3. crHeld' => sent[n] = "CR"
      BY <1>4, <2>1, <2>2
    <3>4. c = 0 \/ sent[c] \in {"CR", "LF"}
      BY <1>3 DEF StartsAt
    <3> HIDE DEF n
    <3>5. StartsAt(c)' /\ c \in 0 .. Scanned'
      BY <2>3, <2>4, <3>1, <3>2, <3>3, <3>4 DEF StartsAt
    <3> QED
      BY <3>5 DEF PartOK
  <2>7. OverwriteOK'
    BY <1>4, <2>1, <2>2, <2>4 DEF OverwriteOK
  <2>8. BytesTyped'
    <3>1. offered' \in Seq(Texts) /\ crHeld' \in BOOLEAN
      BY <1>4 DEF NoEmit, BytesTyped
    <3> QED
      BY <1>1, <1>4, <2>3, <3>1 DEF BytesTyped
  <2> QED
    BY <2>4, <2>5, <2>6, <2>7, <2>8
\* A line ends.
<1>5. ASSUME NEW i \in 1 .. Len(chunk), Terminator(chunk, i), NEW w \in {1, 2}, EndOfLine(i, w),
             w = 1 => chunk[i] = "LF",
             w = 2 => chunk[i] = "CR" /\ i < Len(chunk) /\ chunk[i + 1] = "LF"
      PROVE  CopyInv'
  <2> DEFINE m == Scanned + i - 1
             n == Scanned + (i + w - 1)
             text == part \o SubSeq(chunk, 1, i - 1)
  <2>1. m \in Nat /\ m = Scanned + i - 1 /\ n \in Nat /\ n = m + w /\ \A j \in 1 .. i - 1 : chunk[j] = "x"
    BY <1>2, <1>5 DEF Terminator
  <2>2. /\ Unbroken(sent, c, m) /\ c \in 0 .. m /\ Scanned <= m /\ m + 1 <= Len(sent)
        /\ \A j \in Scanned + 1 .. m : sent[j] = "x"
        /\ sent[m + 1] = chunk[i]
        /\ text = SubSeq(sent, c + 1, m) /\ SubSeq(sent, c + 1, m) \in Texts
    <3> HIDE DEF m
    <3> QED
      BY <1>1, <1>3, <2>1, UpTo
  <2>3. i + w - 1 \in 1 .. Len(chunk) /\ chunk' = SubSeq(chunk, (i + w - 1) + 1, Len(chunk))
    BY <1>2, <1>5 DEF EndOfLine, Rest
  <2>4. chunk' \in Texts /\ ChunkOK' /\ Scanned' = n
    BY <2>3, RestOK
  <2>5. sent[n] = "LF" /\ Scanned < n /\ \A j \in Scanned + 1 .. n - 1 : sent[j] # "LF"
    <3>1. CASE w = 1
      <4>1. n = m + 1
        BY <2>1, <3>1
      <4>2. n - 1 = m /\ Scanned < n
        BY <1>2, <2>1, <2>2, <4>1
      <4> QED
        BY <1>5, <2>2, <3>1, <4>1, <4>2
    <3>2. CASE w = 2
      <4>1. n = m + 2 /\ n - 1 = m + 1 /\ Scanned < n /\ n = Scanned + (i + 1) /\ i + 1 \in 1 .. Len(chunk)
        BY <1>2, <1>5, <2>1, <2>2, <3>2
      <4>2. sent[n] = "LF" /\ sent[m + 1] = "CR"
        BY <1>5, <2>2, <3>2, <4>1 DEF ChunkOK
      <4>3. ASSUME NEW j \in Scanned + 1 .. n - 1 PROVE sent[j] # "LF"
        <5>1. j \in Scanned + 1 .. m \/ j = m + 1
          BY <1>2, <2>1, <4>1
        <5> QED
          BY <2>2, <4>2, <5>1
      <4> QED
        BY <4>1, <4>2, <4>3
    <3> QED
      BY <3>1, <3>2
  <2>6. text = Shown(Segment(sent, n - 1))
    <3> HIDE DEF text
    <3>1. CASE w = 1
      <4>1. n - 1 = m /\ m \in 0 .. Len(sent)
        BY <1>2, <2>1, <2>2, <3>1
      <4>2. m > 0 => sent[m] # "CR"
        <5> SUFFICES ASSUME m > 0, sent[m] = "CR" PROVE FALSE
          OBVIOUS
        <5>1. CASE m = Scanned
          <6>1. sent[Scanned + 1] = "LF"
            BY <1>5, <2>2, <3>1, <5>1
          <6> QED
            BY <1>1, <5>1, <6>1 DEF OverwriteOK
        <5>2. CASE m # Scanned
          <6>1. m \in Scanned + 1 .. m
            BY <1>2, <2>1, <2>2, <5>2
          <6> QED
            BY <2>2, <6>1
        <5> QED
          BY <5>1, <5>2
      <4> HIDE DEF m
      <4>3. Shown(Segment(sent, m)) = SubSeq(sent, c + 1, m)
        BY <2>2, <4>1, <4>2, ShownPlain DEF BytesTyped
      <4>4. Shown(Segment(sent, n - 1)) = Shown(Segment(sent, m))
        BY <4>1
      <4> QED
        BY <2>2, <4>3, <4>4
    <3>2. CASE w = 2
      <4>1. n - 1 = m + 1
        BY <2>1, <3>2
      <4> HIDE DEF m
      <4>3. sent \in Texts /\ m \in Nat /\ m + 1 <= Len(sent) /\ c \in 0 .. m /\ Unbroken(sent, c, m)
            /\ sent[m + 1] = "CR"
        BY <1>5, <2>1, <2>2, <3>2 DEF BytesTyped
      <4>2. Shown(Segment(sent, m + 1)) = SubSeq(sent, c + 1, m)
        BY <4>3, ShownBeforeCR
      <4> QED
        BY <2>2, <4>1, <4>2
    <3> QED
      BY <3>1, <3>2
  <2>7. EmittedOK' /\ offered' \in Seq(Texts)
    <3>1. Emit(text) /\ text \in Texts
      BY <1>5, <2>2 DEF EndOfLine
    <3> HIDE DEF n, text
    <3> QED
      BY <1>2, <2>1, <2>4, <2>5, <2>6, <3>1, LineEmitted
  <2>8. part' = <<>> /\ crHeld' = FALSE
    BY <1>1, <1>5 DEF EndOfLine
  <2>9. PartOK'
    <3>1. Scanned' = n /\ n \in Nat /\ sent'[n] = "LF"
      BY <1>5, <2>1, <2>4, <2>5 DEF EndOfLine
    <3> HIDE DEF n
    <3> QED
      BY <2>8, <3>1, FreshPart
  <2>10. OverwriteOK'
    BY <2>4, <2>5 DEF OverwriteOK
  <2> QED
    BY <1>1, <2>4, <2>7, <2>8, <2>9, <2>10 DEF BytesTyped
\* A '\r' in the chunk starts the line over.
<1>6. ASSUME NEW i \in 1 .. Len(chunk), Terminator(chunk, i), Overwrite(i),
             chunk[i] = "CR", i < Len(chunk), chunk[i + 1] # "LF"
      PROVE  CopyInv'
  <2>1. chunk' \in Texts /\ ChunkOK' /\ Scanned' = Scanned + i /\ Len(chunk') = Len(chunk) - i
    BY <1>6, RestOK DEF Overwrite, Rest
  <2>2. sent[Scanned + i] = "CR" /\ sent[Scanned + (i + 1)] # "LF"
    <3>1. i + 1 \in 1 .. Len(chunk)
      BY <1>2, <1>6
    <3> QED
      BY <1>6, <3>1 DEF ChunkOK
  <2>3. EmittedOK'
    <3>1. ASSUME NEW j \in Scanned + 1 .. Scanned + i PROVE sent[j] # "LF"
      <4>1. j - Scanned \in 1 .. i - 1 \/ j - Scanned = i
        BY <1>2
      <4>2. j - Scanned \in 1 .. Len(chunk) /\ Scanned + (j - Scanned) = j
        BY <1>2
      <4>3. chunk[j - Scanned] # "LF"
        BY <1>6, <4>1 DEF Terminator
      <4> QED
        BY <4>2, <4>3 DEF ChunkOK
    <3>2. Scanned + i \in Nat /\ Scanned <= Scanned + i
      BY <1>2
    <3> QED
      BY <1>2, <1>6, <2>1, <3>1, <3>2, NoLineEmitted DEF Overwrite, NoEmit
  <2>4. part' = <<>> /\ crHeld' = FALSE /\ offered' = offered
    BY <1>1, <1>6 DEF Overwrite, NoEmit
  <2>5. PartOK'
    <3> DEFINE n == Scanned + i
    <3>1. n \in Nat /\ Scanned' = n /\ sent'[n] = "CR"
      BY <1>2, <2>1, <2>2
    <3> HIDE DEF n
    <3> QED
      BY <2>4, <3>1, FreshPart
  <2>6. OverwriteOK'
    <3>1. chunk' # <<>>
      BY <1>2, <1>6, <2>1, EmptySeq DEF Texts
    <3>2. Scanned' + 1 = Scanned + (i + 1)
      BY <1>2, <2>1
    <3> QED
      BY <2>2, <3>1, <3>2 DEF OverwriteOK
  <2> QED
    BY <1>1, <2>1, <2>3, <2>4, <2>5, <2>6 DEF BytesTyped
<1>7. CASE /\ \A i \in DOMAIN chunk : chunk[i] = "x"
           /\ part' = part \o chunk /\ chunk' = <<>> /\ UNCHANGED crHeld /\ NoEmit
  <2>1. chunk[Len(chunk)] = "x" /\ \A j \in 1 .. Len(chunk) - 1 : chunk[j] = "x"
    BY <1>2, <1>7
  <2>2. crHeld' = ("x" = "CR")
    BY <1>1, <1>7
  <2> QED
    BY <1>4, <1>7, <2>1, <2>2
<1>8. ASSUME NEW i \in DOMAIN chunk, Terminator(chunk, i), TrailingCR(i) PROVE CopyInv'
  <2>1. i = Len(chunk) /\ chunk[Len(chunk)] = "CR" /\ \A j \in 1 .. Len(chunk) - 1 : chunk[j] = "x"
    BY <1>8 DEF TrailingCR, Terminator
  <2>2. crHeld' = ("CR" = "CR") /\ part' = part \o chunk /\ chunk' = <<>> /\ NoEmit
    BY <1>8 DEF TrailingCR
  <2> QED
    BY <1>4, <2>1, <2>2
<1>9. ASSUME NEW i \in DOMAIN chunk, Terminator(chunk, i),
             \/ chunk[i] = "LF" /\ EndOfLine(i, 1)
             \/ chunk[i] = "CR" /\ i < Len(chunk) /\ chunk[i + 1] = "LF" /\ EndOfLine(i, 2)
             \/ chunk[i] = "CR" /\ i < Len(chunk) /\ chunk[i + 1] # "LF" /\ Overwrite(i)
      PROVE  CopyInv'
  BY <1>2, <1>5, <1>6, <1>9
<1> QED
  BY <1>7, <1>8, <1>9 DEF Scan

\* The command writes a chunk: it is scanned from its first byte on.
LEMMA WriteChunkCuts == ASSUME IInv, CopyInv, WriteChunk PROVE CopyInv'
<1> USE DEF CopyInv
<1>1. /\ chunk = <<>> /\ UNCHANGED <<part, crHeld, offered>>
      /\ \E c \in Chunks(MaxBytes - Len(sent)) : chunk' = c /\ sent' = sent \o c
  BY DEF WriteChunk, sinkVars
<1>2. PICK c \in Chunks(MaxBytes - Len(sent)) : chunk' = c /\ sent' = sent \o c
  BY <1>1
<1>3. PICK k \in 1 .. (MaxBytes - Len(sent)) : c \in [1 .. k -> Bytes]
  BY DEF Chunks
<1> DEFINE n == Len(sent)
<1>4. n \in Nat /\ Scanned = n /\ Len(chunk) = 0
  BY <1>1, Lengths, EmptySeq
<1>5. c \in Texts /\ Len(c) = k /\ k \in Nat /\ k > 0
  <2>1. k \in Nat /\ k > 0
    BY <1>4, Constants
  <2> QED
    BY <1>3, <2>1, SeqDef DEF Texts
<1>6. /\ sent' \in Texts /\ Len(sent') = n + k
      /\ \A j \in 1 .. n + k : sent'[j] = IF j <= n THEN sent[j] ELSE c[j - n]
  BY <1>2, <1>5, ConcatProperties DEF BytesTyped, Texts
<1> HIDE DEF n
<1>7. Scanned' = n
  <2>1. Scanned' = Len(sent') - Len(chunk')
    BY DEF Scanned
  <2>2. Len(sent') = n + k /\ Len(chunk') = k
    BY <1>2, <1>5, <1>6
  <2>3. (n + k) - k = n
    BY <1>4, <1>5
  <2> QED
    BY <2>1, <2>2, <2>3
<1>8. \A j \in 1 .. n : sent'[j] = sent[j]
  BY <1>4, <1>5, <1>6
<1>9. ChunkOK'
  <2>1. ASSUME NEW j \in 1 .. k PROVE c[j] = sent'[n + j]
    <3>1. n + j \in 1 .. n + k /\ ~ (n + j <= n) /\ (n + j) - n = j
      BY <1>4, <1>5
    <3> QED
      BY <1>6, <3>1
  <2>2. k <= n + k
    BY <1>4, <1>5
  <2> QED
    BY <1>2, <1>5, <1>6, <1>7, <2>1, <2>2 DEF ChunkOK
<1>10. EmittedOK'
  <2>1. Ends(sent', n) = Ends(sent, n)
    BY <1>4, <1>8, SameBefore DEF BytesTyped, n
  <2>2. ASSUME NEW i \in Ends(sent, n)
        PROVE  Ends(sent', i) = Ends(sent, i) /\ Segment(sent', i - 1) = Segment(sent, i - 1)
    <3> DEFINE m == i - 1
    <3>1. i \in 0 .. Len(sent) /\ m \in 0 .. Len(sent) /\ (\A j \in 1 .. i : sent'[j] = sent[j])
          /\ (\A j \in 1 .. m : sent'[j] = sent[j])
      BY <1>4, <1>8 DEF Ends, n
    <3> HIDE DEF m
    <3>2. Ends(sent', i) = Ends(sent, i)
      BY <3>1, SameBefore DEF BytesTyped
    <3>3. Segment(sent', m) = Segment(sent, m)
      BY <3>1, SameBefore DEF BytesTyped
    <3> QED
      BY <3>2, <3>3 DEF m
  <2> QED
    BY <1>1, <1>4, <1>7, <2>1, <2>2 DEF EmittedOK
<1>11. PartOK'
  <2>1. PICK b \in 0 .. n : StartsAt(b)
    BY <1>4 DEF PartOK
  <2>2. b \in Nat /\ b <= n /\ n <= Len(sent) /\ n <= Len(sent')
    BY <1>4, <1>5, <1>6 DEF n
  <2>3. part = SubSeq(sent, b + 1, n)
    BY <1>4, <2>1 DEF StartsAt
  <2>4. SubSeq(sent', b + 1, n) = SubSeq(sent, b + 1, n)
    <3> DEFINE s == SubSeq(sent, b + 1, n)
               t == SubSeq(sent', b + 1, n)
    <3>1. s \in Texts /\ Len(s) = n - b /\ \A m \in 1 .. n - b : s[m] = sent[b + m]
      BY <1>4, <2>2, CutProps DEF BytesTyped
    <3>2. t \in Texts /\ Len(t) = n - b /\ \A m \in 1 .. n - b : t[m] = sent'[b + m]
      BY <1>4, <1>6, <2>2, CutProps
    <3> HIDE DEF s, t
    <3>3. \A m \in 1 .. n - b : b + m \in 1 .. n
      BY <1>4, <2>2
    <3>4. s = t
      BY <1>8, <3>1, <3>2, <3>3, SeqEqual DEF Texts
    <3> QED
      BY <3>4 DEF s, t
  <2>5. \A j \in b .. n : j = 0 \/ sent'[j] = sent[j]
    BY <1>4, <1>8, <2>2
  <2>6. StartsAt(b)'
    <3>1. b = 0 \/ sent'[b] \in {"CR", "LF"}
      BY <1>4, <2>1, <2>2, <2>5 DEF StartsAt
    <3>2. \A j \in b + 1 .. n : sent'[j] = "x" \/ (j = n /\ crHeld)
      <4> SUFFICES ASSUME NEW j \in b + 1 .. n PROVE sent'[j] = "x" \/ (j = n /\ crHeld)
        OBVIOUS
      <4>1. sent'[j] = sent[j]
        BY <1>4, <1>8, <2>2
      <4> QED
        BY <1>4, <2>1, <4>1 DEF StartsAt
    <3>3. crHeld => b < n /\ sent'[n] = "CR"
      BY <1>4, <2>1, <2>2, <2>5 DEF StartsAt
    <3> QED
      BY <1>1, <1>7, <2>3, <2>4, <3>1, <3>2, <3>3 DEF StartsAt
  <2> QED
    BY <1>7, <2>1, <2>6 DEF PartOK
<1>12. OverwriteOK'
  <2>1. ~ (~crHeld /\ n > 0 /\ sent[n] = "CR")
    BY <1>1, <1>4 DEF OverwriteOK
  <2>2. n > 0 => sent'[n] = sent[n]
    BY <1>4, <1>8
  <2> QED
    BY <1>1, <1>7, <2>1, <2>2 DEF OverwriteOK
<1>13. BytesTyped'
  BY <1>1, <1>2, <1>5, <1>6 DEF BytesTyped
<1> QED
  BY <1>9, <1>10, <1>11, <1>12, <1>13

\* Flush: what is left of the output is the unfinished line, emitted if there is any.
LEMMA EmitPartialCuts ==
    ASSUME CopyInv, chunk = <<>>, EmitPartial
    PROVE  ChunkingInvisible' /\ offered' \in Seq(Texts)
<1> USE DEF CopyInv
<1> DEFINE n == Len(sent)
           line == IF crHeld THEN Front(part) ELSE part
<1>1. n \in Nat /\ Scanned = n /\ Len(offered) \in Nat /\ sent' = sent
  BY Lengths DEF EmitPartial
<1>2. PICK c \in 0 .. n : StartsAt(c)
  BY <1>1 DEF PartOK
<1>3. c \in Nat /\ c <= n /\ part = SubSeq(sent, c + 1, n)
  BY <1>1, <1>2 DEF StartsAt
<1>4. line = Shown(Segment(sent, n)) /\ line \in Texts
  <2>1. CASE crHeld
    <3> DEFINE m == n - 1
               none == 0
               l == m - c
               end == m + 1
    <3>1. c < n /\ sent[n] = "CR"
      BY <1>1, <1>2, <2>1 DEF StartsAt
    <3>2. /\ m \in Nat /\ c \in 0 .. m /\ m + 1 <= Len(sent) /\ m + 1 = n
      BY <1>1, <1>3, <3>1
    <3>3. Unbroken(sent, c, m)
      <4>1. \A j \in c + 1 .. m : j \in c + 1 .. n /\ j # n
        BY <1>1, <1>3
      <4> QED
        BY <1>1, <1>2, <4>1 DEF StartsAt, Unbroken
    <3>4. /\ c \in Nat /\ none \in Nat /\ none <= l /\ c = c + none /\ none + 1 = 1
          /\ l \in Nat /\ l <= end - c /\ m = c + l /\ end - c = l + 1 /\ end \in Nat /\ c <= end
          /\ end <= Len(sent) /\ part = SubSeq(sent, c + 1, end) /\ c <= m /\ m <= Len(sent) /\ (l + 1) - 1 = l
      BY <1>1, <1>3, <3>1
    <3>5. end = n
      BY <1>1
    <3> HIDE DEF m, none, l, end, n, line
    <3>6. Shown(Segment(sent, m + 1)) = SubSeq(sent, c + 1, m)
      BY <3>1, <3>2, <3>3, ShownBeforeCR DEF BytesTyped
    <3>7. Len(part) = l + 1
      <4>1. Len(SubSeq(sent, c + 1, end)) = end - c
        BY <3>4, CutProps DEF BytesTyped
      <4> QED
        BY <3>4, <4>1
    <3>8. SubSeq(SubSeq(sent, c + 1, end), none + 1, l) = SubSeq(sent, c + 1, m)
      BY <1>3, <3>2, <3>4, CutOfCut DEF BytesTyped
    <3>9. SubSeq(sent, c + 1, m) \in Texts
      BY <1>3, <3>2, <3>4, CutProps DEF BytesTyped
    <3>10. Front(part) = SubSeq(sent, c + 1, m)
      BY <3>4, <3>7, <3>8 DEF Front
    <3> QED
      BY <2>1, <3>2, <3>6, <3>9, <3>10 DEF line
  <2>2. CASE ~crHeld
    <3>1. n > 0 => sent[n] # "CR"
      BY <1>1, <2>2 DEF OverwriteOK
    <3>2. Unbroken(sent, c, n) /\ n \in 0 .. Len(sent)
      BY <1>1, <1>2, <2>2 DEF StartsAt, Unbroken
    <3> HIDE DEF n
    <3>3. Shown(Segment(sent, n)) = SubSeq(sent, c + 1, n)
      BY <3>1, <3>2, ShownPlain DEF BytesTyped
    <3> QED
      BY <1>3, <2>2, <3>3 DEF BytesTyped
  <2> QED
    BY <2>1, <2>2
<1>5. IF line # <<>> THEN Emit(line) ELSE NoEmit
  BY DEF EmitPartial
<1> HIDE DEF n, line
<1>6. /\ Len(offered) = Cardinality(Ends(sent, n))
      /\ \A i \in Ends(sent, n) : offered[Cardinality(Ends(sent, i))] = Shown(Segment(sent, i - 1))
  BY <1>1 DEF EmittedOK
<1>7. \A i \in Ends(sent, n) : Cardinality(Ends(sent, i)) \in 1 .. Len(offered)
  BY <1>1, <1>6, EndNumber
<1>8. CASE line # <<>>
  <2>1. offered' = Append(offered, line)
    BY <1>5, <1>8 DEF Emit
  <2>2. /\ offered' \in Seq(Texts) /\ Len(offered') = Len(offered) + 1
        /\ \A i \in 1 .. Len(offered) : offered'[i] = offered[i]
        /\ offered'[Len(offered) + 1] = line
    BY <1>4, <2>1, AppendProperties DEF BytesTyped
  <2> QED
    BY <1>1, <1>4, <1>6, <1>7, <1>8, <2>2 DEF ChunkingInvisible, n
<1>9. CASE line = <<>>
  <2>1. offered' = offered
    BY <1>5, <1>9 DEF NoEmit
  <2> QED
    BY <1>1, <1>4, <1>6, <1>9, <2>1 DEF ChunkingInvisible, n, BytesTyped
<1> QED
  BY <1>8, <1>9

\* The invariant holds when no command has written anything.
LEMMA NothingWritten ==
    ASSUME sent = <<>>, offered = <<>>, chunk = <<>>, part = <<>>, crHeld = FALSE, Copying
    PROVE  CutInv
<1>1. Len(<<>>) = 0 /\ <<>> \in Seq(Texts)
  BY EmptySeq
<1>2. Scanned = 0 /\ Ends(sent, 0) = {}
  BY <1>1 DEF Scanned, Ends
<1>3. ChunkOK
  BY <1>1 DEF ChunkOK
<1>4. EmittedOK
  BY <1>1, <1>2, FS_EmptySet DEF EmittedOK
<1>5. PartOK
  <2> DEFINE n == Scanned
  <2>1. n \in Nat /\ n = 0
    BY <1>2
  <2>2. \A j \in n + 1 .. n : FALSE
    BY <2>1
  <2>3. SubSeq(sent, n + 1, n) = <<>>
    <3> HIDE DEF n
    <3> QED
      BY <2>1, SubSeqEmpty
  <2>4. StartsAt(n)
    BY <2>1, <2>2, <2>3 DEF StartsAt
  <2>5. n \in 0 .. Scanned
    BY <1>2
  <2> QED
    BY <2>4, <2>5 DEF PartOK
<1>6. OverwriteOK
  BY <1>2 DEF OverwriteOK
<1>7. ChunkingInvisible
  BY DEF ChunkingInvisible, Copying
<1> QED
  BY <1>1, <1>3, <1>4, <1>5, <1>6, <1>7 DEF CutInv

\* A step that does not touch the bytes.
LEMMA BytesKept ==
    ASSUME CutInv, UNCHANGED <<part, crHeld, chunk, sent, offered>>, Copying' = Copying, Ended' => Ended
    PROVE  CutInv'
<1>1. (Scanned = Scanned)' /\ Scanned' = Scanned
  BY DEF Scanned
<1>2. ChunkOK'
  BY <1>1 DEF CutInv, ChunkOK
<1>3. Copying => EmittedOK' /\ OverwriteOK'
  BY <1>1 DEF CutInv, EmittedOK, OverwriteOK
<1>4. Copying => PartOK'
  BY <1>1 DEF CutInv, PartOK, StartsAt
<1>5. ChunkingInvisible'
  BY DEF CutInv, ChunkingInvisible, Ended
<1> QED
  BY <1>2, <1>3, <1>4, <1>5 DEF CutInv

\* Every step keeps what is known about the bytes.
LEMMA CutStep == IInv /\ CopyOK /\ CutInv /\ [Next]_vars => CutInv'
<1> SUFFICES ASSUME IInv, CopyOK, CutInv, [Next]_vars PROVE CutInv'
  OBVIOUS
<1>1. at \in Places /\ BytesTyped
  BY DEF IInv, Typed, BytesTyped, CutInv
<1>2. Copying => CopyInv
  BY <1>1 DEF CopyInv, CutInv
<1>3. ASSUME CopyInv', at' = "copy" PROVE CutInv'
  BY <1>3 DEF CutInv, CopyInv, BytesTyped, Copying, ChunkingInvisible
<1>4. CASE Write
  <2>1. Copying /\ at' = "copy" /\ sent' = sent
    BY <1>4 DEF Write, Held, Scan, CopyOK, Copying
  <2> QED
    BY <1>2, <1>3, <1>4, <2>1, HeldCuts, ScanCuts DEF Write
<1>5. CASE WriteChunk
  <2>1. Copying /\ at' = "copy"
    BY <1>5 DEF WriteChunk, Copying
  <2> QED
    BY <1>2, <1>3, <1>5, <2>1, WriteChunkCuts
<1>6. CASE EmitPartial
  <2>1. Copying /\ chunk = <<>> /\ part' = <<>> /\ crHeld' = FALSE /\ UNCHANGED <<chunk, sent>> /\ ~Copying'
    BY <1>6 DEF EmitPartial, Copying, CopyOK
  <2>2. ChunkingInvisible' /\ offered' \in Seq(Texts)
    BY <1>2, <1>6, <2>1, EmitPartialCuts
  <2>3. ChunkOK'
    BY <2>1 DEF CutInv, ChunkOK, Scanned
  <2> QED
    BY <2>1, <2>2, <2>3 DEF CutInv
<1>7. CASE NextCommand
  <2>1. /\ (sent = <<>>)' /\ (offered = <<>>)' /\ (chunk = <<>>)' /\ (part = <<>>)' /\ (crHeld = FALSE)' /\ Copying'
    BY <1>7 DEF NextCommand, sinkVars, Copying, CopyOK, CutInv
  <2> QED
    BY <2>1, NothingWritten, PTL
<1>8. CASE CommandEnds \/ SendBarrier \/ ReportDrops \/ BeginClose \/ CloseBarrier \/ Drainer \/ UNCHANGED vars
  <2>1. UNCHANGED <<part, crHeld, chunk, sent, offered>> /\ Copying' = Copying /\ (Ended' => Ended)
    <3>1. CASE CommandEnds \/ SendBarrier \/ ReportDrops \/ BeginClose \/ CloseBarrier
      BY <3>1 DEF CommandEnds, SendBarrier, ReportDrops, BeginClose, CloseBarrier, sinkVars, Copying, Ended
    <3>2. CASE Take \/ PrintItem \/ StopDrainer \/ UNCHANGED vars
      BY <3>2 DEF Take, PrintItem, StopDrainer, vars, sinkVars, Copying, Ended
    <3>3. CASE RunBarrier
      BY <3>3, <1>1 DEF RunBarrier, sinkVars, Copying, Ended, Places
    <3> QED
      BY <1>8, <3>1, <3>2, <3>3 DEF Drainer
  <2> QED
    BY <2>1, BytesKept
<1> QED
  BY <1>4, <1>5, <1>6, <1>7, <1>8 DEF Next, Caller, Over

-----------------------------------------------------------------------------
(* Every line is accounted for *)

Things == Item \cup {Gone}
MineIn(out, kind, c) == {i \in DOMAIN out : out[i].kind = kind /\ out[i].cmd = c}

\* The flush has not yet come to the note about drops.
Placed == at \in {"copy", "flush", "barrier", "wait", "note"}
\* Command c has no note yet, and each of its n lines is queued or among the d drops;
\* after the note nothing is counted any more.
Uncounted(out, n, d, c) == MineIn(out, "note", c) = {} /\ n = Cardinality(MineIn(out, "line", c)) + d
Reported(out, n, d, c) ==
    /\ d = 0
    /\ \/ Uncounted(out, n, d, c)
       \/ \E i \in DOMAIN out : /\ MineIn(out, "note", c) = {i}
                                /\ n = Cardinality(MineIn(out, "line", c)) + out[i].drops
NoneLater(out, c) == \A i \in DOMAIN out : out[i].kind \in {"line", "note"} => out[i].cmd \in 0 .. c
AcctInv ==
    /\ screen \in Seq(Item) /\ NoneLater(Out, cmd)
    /\ Placed => Uncounted(Out, Len(offered), dropped, cmd)
    /\ ~Placed => Reported(Out, Len(offered), dropped, cmd)

\* A command's lines or notes are finitely many.
LEMMA MineProps ==
    ASSUME NEW s \in Seq(Things), NEW k, NEW c
    PROVE  /\ IsFiniteSet(MineIn(s, k, c)) /\ Cardinality(MineIn(s, k, c)) \in Nat
           /\ Len(s) + 1 \notin MineIn(s, k, c)
<1>1. Len(s) \in Nat /\ DOMAIN s = 1 .. Len(s)
  BY LenProperties
<1>2. MineIn(s, k, c) \subseteq 1 .. Len(s)
  BY <1>1 DEF MineIn
<1>3. IsFiniteSet(1 .. Len(s)) /\ Len(s) + 1 \notin 1 .. Len(s)
  BY <1>1, FS_Interval
<1>4. IsFiniteSet(MineIn(s, k, c))
  BY <1>2, <1>3, FS_Subset
<1> QED
  BY <1>2, <1>3, <1>4, FS_CardinalityType

\* One more item.
LEMMA AppendOne ==
    ASSUME NEW s \in Seq(Things), NEW x \in Things, NEW t, t = Append(s, x)
    PROVE  /\ DOMAIN t = DOMAIN s \cup {Len(s) + 1} /\ Len(s) + 1 \notin DOMAIN s
           /\ \A i \in DOMAIN s : t[i] = s[i]
           /\ t[Len(s) + 1] = x
<1>1. Len(s) \in Nat /\ DOMAIN s = 1 .. Len(s)
  BY LenProperties
<1>2. /\ t \in Seq(Things) /\ Len(t) = Len(s) + 1
      /\ \A i \in 1 .. Len(s) : t[i] = s[i]
      /\ t[Len(s) + 1] = x
  BY AppendProperties
<1>3. DOMAIN t = 1 .. Len(s) + 1
  BY <1>2, LenProperties
<1>4. 1 .. Len(s) + 1 = (1 .. Len(s)) \cup {Len(s) + 1} /\ Len(s) + 1 \notin 1 .. Len(s)
  BY <1>1
<1> QED
  BY <1>1, <1>2, <1>3, <1>4

\* One more line of the command is one more line accounted for.
LEMMA LineCounted ==
    ASSUME NEW s \in Seq(Things), NEW x \in Things, NEW t, t = Append(s, x), NEW c \in Nat, NEW n \in Nat, NEW d \in Nat,
           x.kind = "line", x.cmd = c, Uncounted(s, n, d, c), NoneLater(s, c)
    PROVE  Uncounted(t, n + 1, d, c) /\ NoneLater(t, c)
<1> DEFINE m == Len(s) + 1
<1>1. /\ DOMAIN t = DOMAIN s \cup {m} /\ m \notin DOMAIN s
      /\ \A i \in DOMAIN s : t[i] = s[i]
      /\ t[m] = x
  BY AppendOne
<1>2. /\ IsFiniteSet(MineIn(s, "line", c)) /\ m \notin MineIn(s, "line", c)
      /\ Cardinality(MineIn(s, "line", c)) \in Nat
  BY MineProps
<1> HIDE DEF m
<1>3. MineIn(t, "line", c) = MineIn(s, "line", c) \cup {m}
  <2>1. ASSUME NEW i PROVE i \in MineIn(t, "line", c) <=> i \in MineIn(s, "line", c) \/ i = m
    BY <1>1 DEF MineIn
  <2> QED
    BY <2>1
<1>4. MineIn(t, "note", c) = MineIn(s, "note", c)
  <2>1. ASSUME NEW i PROVE i \in MineIn(t, "note", c) <=> i \in MineIn(s, "note", c)
    BY <1>1 DEF MineIn
  <2> QED
    BY <2>1
<1>5. Cardinality(MineIn(t, "line", c)) = Cardinality(MineIn(s, "line", c)) + 1
  BY <1>2, <1>3, FS_AddElement
<1>6. NoneLater(t, c)
  BY <1>1 DEF NoneLater
<1>7. n + 1 = (Cardinality(MineIn(s, "line", c)) + 1) + d
  BY <1>2 DEF Uncounted
<1>8. MineIn(t, "note", c) = {}
  BY <1>4 DEF Uncounted
<1> QED
  BY <1>5, <1>6, <1>7, <1>8 DEF Uncounted

\* The command's note tells of the lines that were only counted.
LEMMA NoteTells ==
    ASSUME NEW s \in Seq(Things), NEW x \in Things, NEW t, t = Append(s, x), NEW c \in Nat, NEW n \in Nat, NEW d \in Nat,
           x.kind = "note", x.cmd = c, x.drops = d, Uncounted(s, n, d, c), NoneLater(s, c)
    PROVE  Reported(t, n, 0, c) /\ NoneLater(t, c)
<1> DEFINE m == Len(s) + 1
<1>1. /\ DOMAIN t = DOMAIN s \cup {m} /\ m \notin DOMAIN s
      /\ \A i \in DOMAIN s : t[i] = s[i]
      /\ t[m] = x
  BY AppendOne
<1> HIDE DEF m
<1>2. MineIn(t, "note", c) = {m}
  <2>1. ASSUME NEW i PROVE i \in MineIn(t, "note", c) <=> i = m
    BY <1>1 DEF MineIn, Uncounted
  <2> QED
    BY <2>1
<1>3. MineIn(t, "line", c) = MineIn(s, "line", c)
  <2>1. ASSUME NEW i PROVE i \in MineIn(t, "line", c) <=> i \in MineIn(s, "line", c)
    BY <1>1 DEF MineIn
  <2> QED
    BY <2>1
<1>4. NoneLater(t, c)
  BY <1>1 DEF NoneLater
<1>5. m \in DOMAIN t /\ t[m].drops = d
  BY <1>1
<1> QED
  BY <1>2, <1>3, <1>4, <1>5 DEF Uncounted, Reported

\* What is neither a line nor a note changes nothing, whether it comes or goes.
LEMMA OtherItem ==
    ASSUME NEW s \in Seq(Things), NEW x \in {Barrier, Gone}, NEW n, NEW d, NEW c
    PROVE  /\ NoneLater(Append(s, x), c) <=> NoneLater(s, c)
           /\ Uncounted(Append(s, x), n, d, c) <=> Uncounted(s, n, d, c)
           /\ Reported(Append(s, x), n, d, c) <=> Reported(s, n, d, c)
<1> DEFINE t == Append(s, x)
<1>1. x \in Things /\ x.kind # "line" /\ x.kind # "note" /\ t = Append(s, x)
  BY DEF Things, Item, Barrier, Gone
<1> HIDE DEF t
<1>2. /\ DOMAIN t = DOMAIN s \cup {Len(s) + 1}
      /\ \A i \in DOMAIN s : t[i] = s[i]
      /\ t[Len(s) + 1] = x
  BY <1>1, AppendOne
<1>3. MineIn(t, "line", c) = MineIn(s, "line", c) /\ MineIn(t, "note", c) = MineIn(s, "note", c)
  <2>1. ASSUME NEW i PROVE i \in MineIn(t, "line", c) <=> i \in MineIn(s, "line", c)
    BY <1>1, <1>2 DEF MineIn
  <2>2. ASSUME NEW i PROVE i \in MineIn(t, "note", c) <=> i \in MineIn(s, "note", c)
    BY <1>1, <1>2 DEF MineIn
  <2> QED
    BY <2>1, <2>2
<1>4. NoneLater(t, c) <=> NoneLater(s, c)
  BY <1>1, <1>2 DEF NoneLater
<1>5. Uncounted(t, n, d, c) <=> Uncounted(s, n, d, c)
  BY <1>3 DEF Uncounted
<1>6. Reported(t, n, d, c) <=> Reported(s, n, d, c)
  <2>1. ASSUME NEW i, MineIn(s, "note", c) = {i} PROVE i \in DOMAIN s /\ i \in DOMAIN t /\ t[i] = s[i]
    <3>1. i \in DOMAIN s
      BY <2>1 DEF MineIn
    <3> QED
      BY <1>2, <3>1
  <2> QED
    BY <1>2, <1>3, <1>5, <2>1 DEF Reported
<1> QED
  BY <1>4, <1>5, <1>6 DEF t

\* A sequence is its first element and the rest.
LEMMA HeadOnTail == ASSUME NEW S, NEW s \in Seq(S), s # <<>> PROVE <<Head(s)>> \o Tail(s) = s
<1> DEFINE h == <<Head(s)>>
           t == Tail(s)
<1>1. Len(s) \in Nat \ {0} /\ Head(s) = s[1]
  BY EmptySeq
<1>2. Head(s) \in S /\ t \in Seq(S) /\ Len(t) = Len(s) - 1 /\ \A i \in 1 .. Len(t) : t[i] = s[i + 1]
  BY HeadTailProperties
<1>3. h \in Seq(S) /\ Len(h) = 1 /\ h[1] = s[1]
  BY <1>1, <1>2
<1> HIDE DEF h, t
<1>4. /\ h \o t \in Seq(S) /\ Len(h \o t) = Len(h) + Len(t)
      /\ \A i \in 1 .. Len(h) + Len(t) : (h \o t)[i] = IF i <= Len(h) THEN h[i] ELSE t[i - Len(h)]
  <2>1. h \in Seq(S) /\ t \in Seq(S)
    BY <1>2, <1>3
  <2> QED
    BY <2>1, ConcatProperties
<1>5. Len(h) + Len(t) = Len(s)
  BY <1>1, <1>2, <1>3
<1>6. ASSUME NEW i \in 1 .. Len(s) PROVE (h \o t)[i] = s[i]
  <2>1. CASE i = 1
    BY <1>3, <1>4, <1>5, <2>1
  <2>2. CASE i # 1
    <3>1. ~ (i <= 1) /\ i - 1 \in 1 .. Len(t) /\ (i - 1) + 1 = i
      BY <1>1, <1>2, <2>2
    <3> QED
      BY <1>2, <1>3, <1>4, <1>5, <3>1
  <2> QED
    BY <2>1, <2>2
<1>7. h \o t = s
  BY <1>1, <1>4, <1>5, <1>6, SeqEqual
<1> QED
  BY <1>7 DEF h, t

\* The pieces of Out.
LEMMA OutTyped ==
    ASSUME IInv, screen \in Seq(Item)
    PROVE  /\ screen \in Seq(Things) /\ queue \in Seq(Things) /\ Out \in Seq(Things) /\ Len(Out) \in Nat
           /\ Items \in Seq(Things)
           /\ drainer # Idle => drainer \in Things /\ <<drainer>> \in Seq(Things)
<1>1. screen \in Seq(Things) /\ queue \in Seq(Things)
  <2>1. Item \subseteq Things
    BY DEF Things
  <2> QED
    BY <2>1, SeqMonotonic DEF IInv, QueueTyped
<1>2. drainer # Idle => drainer \in Things /\ <<drainer>> \in Seq(Things)
  BY DEF IInv, QueueTyped, Things
<1>3. Items \in Seq(Things)
  BY <1>1, <1>2, ConcatProperties DEF Items
<1> QED
  BY <1>1, <1>2, <1>3, ConcatProperties, LenProperties DEF Out

\* What the queue gets, Out gets.
LEMMA SendOut ==
    ASSUME IInv, screen \in Seq(Item), NEW x \in Item, Send(x), UNCHANGED outVars
    PROVE  Out' = Append(Out, x)
<1>1. queue' = Append(queue, x) /\ drainer' = drainer /\ screen' = screen
  BY DEF Send, outVars
<1>2. /\ screen \in Seq(Things) /\ queue \in Seq(Things) /\ Items \in Seq(Things)
      /\ drainer # Idle => drainer \in Things /\ <<drainer>> \in Seq(Things)
      /\ x \in Things /\ <<x>> \in Seq(Things)
  BY OutTyped DEF Things
<1>3. queue' = queue \o <<x>>
  BY <1>1, <1>2, AppendIsConcat
<1>4. Items' = Items \o <<x>>
  <2>1. CASE drainer = Idle
    BY <1>1, <1>3, <2>1 DEF Items
  <2>2. CASE drainer # Idle
    <3>1. (<<drainer>> \o queue) \o <<x>> = <<drainer>> \o (queue \o <<x>>)
      BY <1>2, <2>2, ConcatAssociative
    <3>2. Items' = <<drainer>> \o queue' /\ Items = <<drainer>> \o queue
      BY <1>1, <2>2 DEF Items
    <3> QED
      BY <1>3, <3>1, <3>2
  <2> QED
    BY <2>1, <2>2
<1>5. screen \o (Items \o <<x>>) = (screen \o Items) \o <<x>>
  BY <1>2, ConcatAssociative
<1>6. Out' = Out \o <<x>>
  <2>1. Out' = screen' \o Items' /\ Out = screen \o Items
    BY DEF Out
  <2> QED
    BY <1>1, <1>4, <1>5, <2>1
<1> QED
  BY <1>2, <1>6, OutTyped, AppendIsConcat

\* Taking and printing an item moves it.
LEMMA DrainOut ==
    ASSUME IInv, screen \in Seq(Item), Take \/ PrintItem
    PROVE  Out' = Out /\ screen' \in Seq(Item)
<1>1. /\ screen \in Seq(Things) /\ queue \in Seq(Things) /\ Items \in Seq(Things)
      /\ drainer # Idle => drainer \in Things /\ <<drainer>> \in Seq(Things)
  BY OutTyped
<1>2. CASE Take
  <2>1. drainer = Idle /\ queue # <<>> /\ drainer' = Head(queue) /\ queue' = Tail(queue) /\ screen' = screen
    BY <1>2 DEF Take
  <2>2. queue \in Seq(Item) /\ Len(queue) \in Nat \ {0}
    BY <2>1, EmptySeq DEF IInv, QueueTyped
  <2>3. Head(queue) \in Item /\ <<Head(queue)>> \o Tail(queue) = queue
    BY <2>1, <2>2, HeadTailProperties, HeadOnTail
  <2>5. drainer' # Idle
    <3>1. \A x \in Item : x.kind # "idle"
      BY DEF Item, Barrier
    <3> QED
      BY <2>1, <2>3, <3>1 DEF Idle
  <2>6. Items' = Items
    BY <2>1, <2>3, <2>5 DEF Items
  <2> QED
    BY <2>1, <2>6 DEF Out
<1>3. CASE PrintItem
  <2>1. drainer.kind \in {"line", "note"} /\ screen' = Append(screen, drainer) /\ drainer' = Idle /\ queue' = queue
    BY <1>3 DEF PrintItem, sinkVars
  <2>2. drainer \in Item /\ drainer # Idle
    BY <2>1 DEF Idle, Gone, IInv, QueueTyped
  <2>3. screen' \in Seq(Item) /\ screen' = screen \o <<drainer>>
    BY <2>1, <2>2, AppendProperties, AppendIsConcat
  <2>4. (screen \o <<drainer>>) \o queue = screen \o (<<drainer>> \o queue)
    BY <1>1, <2>2, ConcatAssociative
  <2>5. Items' = queue /\ Items = <<drainer>> \o queue
    BY <2>1, <2>2 DEF Items
  <2>6. Out' = screen' \o Items' /\ Out = screen \o Items
    BY DEF Out
  <2> QED
    BY <2>3, <2>4, <2>5, <2>6
<1> QED
  BY <1>2, <1>3

\* The drainer runs a barrier or stops: only that item comes or goes.
LEMMA StopOut ==
    ASSUME IInv, screen \in Seq(Item), RunBarrier \/ StopDrainer
    PROVE  /\ screen' = screen /\ Out \in Seq(Things) /\ Out' \in Seq(Things)
           /\ \E x \in {Barrier, Gone} : Out = Append(Out', x) \/ Out' = Append(Out, x)
<1>1. screen \in Seq(Things) /\ queue \in Seq(Things) /\ Out \in Seq(Things) /\ Barrier \in Things /\ Gone \in Things
  BY OutTyped DEF Things, Item
<1>2. queue = <<>>
  <2>1. CASE RunBarrier
    <3>1. drainer.kind = "barrier"
      BY <2>1 DEF RunBarrier, Barrier
    <3>2. Len(queue) = 0
      BY <3>1 DEF IInv, BarrierOK
    <3> QED
      BY <1>1, <3>2, EmptySeq
  <2>2. CASE StopDrainer
    BY <2>2 DEF StopDrainer
  <2> QED
    BY <2>1, <2>2
<1>3. screen \o <<>> = screen
  BY <1>1, ConcatEmptySeq
<1>4. ASSUME NEW x \in {Barrier, Gone} PROVE screen \o (<<x>> \o <<>>) = Append(screen, x)
  <2>1. x \in Things /\ <<x>> \in Seq(Things)
    BY <1>1
  <2> QED
    BY <1>1, <2>1, ConcatEmptySeq, AppendIsConcat
<1>5. CASE RunBarrier
  <2>1. drainer = Barrier /\ drainer' = Idle /\ queue' = queue /\ screen' = screen
    BY <1>5 DEF RunBarrier, sinkVars
  <2>2. Items = <<Barrier>> \o <<>> /\ Items' = <<>>
    BY <1>2, <2>1 DEF Items, Barrier, Idle
  <2>3. Out = Append(screen, Barrier) /\ Out' = screen
    BY <1>3, <1>4, <2>1, <2>2 DEF Out
  <2> QED
    BY <1>1, <2>1, <2>3
<1>6. CASE StopDrainer
  <2>1. drainer = Idle /\ drainer' = Gone /\ queue' = queue /\ screen' = screen
    BY <1>6 DEF StopDrainer, sinkVars
  <2>2. Items = <<>> /\ Items' = <<Gone>> \o <<>>
    BY <1>2, <2>1 DEF Items, Gone, Idle
  <2>3. Out' = Append(screen, Gone) /\ Out = screen
    BY <1>3, <1>4, <2>1, <2>2 DEF Out
  <2> QED
    BY <1>1, <2>1, <2>3, AppendProperties
<1> QED
  BY <1>5, <1>6

\* A line is queued, or counted.
LEMMA EmitAcct ==
    ASSUME IInv, AcctInv, offered \in Seq(Texts), NEW text \in Texts, Emit(text), Placed, Placed',
           UNCHANGED <<outVars, cmd>>
    PROVE  AcctInv'
<1> DEFINE out == Out
           new == Out'
           n == Len(offered)
<1>1. /\ out \in Seq(Things) /\ screen' \in Seq(Item) /\ cmd \in Nat /\ cmd' = cmd /\ dropped \in Nat
      /\ NoneLater(out, cmd) /\ Uncounted(out, n, dropped, cmd)
  BY OutTyped, Constants DEF AcctInv, outVars, IInv, Typed
<1>2. Len(offered') = n + 1 /\ n \in Nat
  BY AppendProperties, LenProperties DEF Emit
<1>3. NoneLater(new, cmd) /\ Uncounted(new, n + 1, dropped', cmd)
  <2>1. CASE Room
    <3>1. Send(Line(text)) /\ dropped' = dropped
      BY <2>1 DEF Emit
    <3>2. Line(text) \in Item /\ Line(text).kind = "line" /\ Line(text).cmd = cmd /\ Line(text) \in Things
      BY <1>1 DEF Line, Item, Things
    <3>3. new = Append(out, Line(text))
      BY <3>1, <3>2, SendOut DEF AcctInv
    <3> HIDE DEF out, new, n
    <3> QED
      BY <1>1, <1>2, <3>1, <3>2, <3>3, LineCounted
  <2>2. CASE ~Room
    <3>1. dropped' = dropped + 1 /\ new = out
      BY <2>2 DEF Emit, outVars, Out, Items
    <3>2. Cardinality(MineIn(out, "line", cmd)) \in Nat
      <4> HIDE DEF out
      <4> QED
        BY <1>1, MineProps
    <3> HIDE DEF out, new, n
    <3> QED
      BY <1>1, <1>2, <3>1, <3>2 DEF Uncounted
  <2> QED
    BY <2>1, <2>2
<1> QED
  BY <1>1, <1>2, <1>3 DEF AcctInv

\* The note about drops goes behind the command's lines.
LEMMA ReportDropsAcct == ASSUME IInv, AcctInv, offered \in Seq(Texts), ReportDrops PROVE AcctInv'
<1> DEFINE out == Out
           new == Out'
           n == Len(offered)
<1>1. /\ at = "note" /\ at' = "flushed" /\ dropped' = 0 /\ UNCHANGED <<outVars, cmd, offered>>
      /\ IF dropped > 0 THEN Send(Note(dropped)) ELSE UNCHANGED queue
  BY DEF ReportDrops
<1>2. /\ out \in Seq(Things) /\ screen' \in Seq(Item) /\ cmd \in Nat /\ dropped \in Nat /\ n \in Nat
      /\ NoneLater(out, cmd) /\ Uncounted(out, n, dropped, cmd)
  BY <1>1, OutTyped, Constants, LenProperties DEF AcctInv, outVars, IInv, Typed, Placed
<1>3. NoneLater(new, cmd) /\ Reported(new, n, 0, cmd)
  <2>1. CASE dropped > 0
    <3>1. Note(dropped) \in Item /\ Note(dropped) \in Things /\ Note(dropped).kind = "note"
          /\ Note(dropped).cmd = cmd /\ Note(dropped).drops = dropped
      BY <1>2 DEF Note, Item, Things
    <3>2. new = Append(out, Note(dropped))
      BY <1>1, <2>1, <3>1, SendOut DEF AcctInv
    <3> HIDE DEF out, new, n
    <3> QED
      BY <1>2, <3>1, <3>2, NoteTells
  <2>2. CASE dropped = 0
    <3>1. new = out
      BY <1>1, <2>2 DEF outVars, Out, Items
    <3> HIDE DEF out, new, n
    <3> QED
      BY <1>2, <2>2, <3>1 DEF Reported
  <2> QED
    BY <1>2, <2>1, <2>2
<1> QED
  BY <1>1, <1>2, <1>3 DEF AcctInv, Placed

\* A command that starts has no line and no note yet.
LEMMA NextCommandAcct == ASSUME IInv, AcctInv, NextCommand PROVE AcctInv'
<1> DEFINE out == Out
<1>1. /\ at = "flushed" /\ at' = "copy" /\ cmd' = cmd + 1 /\ offered' = <<>> /\ dropped' = dropped
      /\ Out' = out /\ screen' = screen
  BY DEF NextCommand, sinkVars, outVars, Out, Items
<1>2. cmd \in Nat /\ dropped = 0 /\ NoneLater(out, cmd) /\ out \in Seq(Things) /\ Len(<<>>) = 0
  BY <1>1, OutTyped, Constants, EmptySeq DEF AcctInv, IInv, Typed, Placed, Reported
<1> HIDE DEF out
<1>3. ASSUME NEW i \in DOMAIN out, out[i].kind \in {"line", "note"} PROVE out[i].cmd # cmd + 1
  BY <1>2, <1>3 DEF NoneLater
<1>4. MineIn(out, "line", cmd + 1) = {} /\ MineIn(out, "note", cmd + 1) = {}
  BY <1>3 DEF MineIn
<1>5. Uncounted(out, 0, 0, cmd + 1)
  BY <1>4, FS_EmptySet DEF Uncounted
<1>6. NoneLater(out, cmd + 1)
  <2> SUFFICES ASSUME NEW i \in DOMAIN out, out[i].kind \in {"line", "note"} PROVE out[i].cmd \in 0 .. cmd + 1
    BY DEF NoneLater
  <2> QED
    BY <1>2 DEF NoneLater
<1> QED
  BY <1>1, <1>2, <1>5, <1>6 DEF AcctInv, Placed

\* A barrier comes or goes, or the drainer's end.
LEMMA OtherAcct ==
    ASSUME AcctInv, Out \in Seq(Things), Out' \in Seq(Things), NEW x \in {Barrier, Gone},
           Out = Append(Out', x) \/ Out' = Append(Out, x),
           UNCHANGED <<screen, cmd, offered, dropped>>, Placed' = Placed
    PROVE  AcctInv'
<1> DEFINE out == Out
           new == Out'
           n == Len(offered)
<1>1. /\ NoneLater(out, cmd) <=> NoneLater(new, cmd)
      /\ Uncounted(out, n, dropped, cmd) <=> Uncounted(new, n, dropped, cmd)
      /\ Reported(out, n, dropped, cmd) <=> Reported(new, n, dropped, cmd)
  <2> HIDE DEF n
  <2>1. CASE out = Append(new, x)
    BY <2>1, OtherItem
  <2>2. CASE new = Append(out, x)
    BY <2>2, OtherItem
  <2> QED
    BY <2>1, <2>2
<1> QED
  BY <1>1 DEF AcctInv

\* Every step keeps the accounts.
LEMMA AcctStep == IInv /\ CopyOK /\ CutInv /\ AcctInv /\ [Next]_vars => AcctInv'
<1> SUFFICES ASSUME IInv, CopyOK, CutInv, AcctInv, [Next]_vars PROVE AcctInv'
  OBVIOUS
<1>1. at \in Places /\ offered \in Seq(Texts) /\ screen \in Seq(Item) /\ Out \in Seq(Things)
      /\ part \in Texts /\ chunk \in Texts /\ Len(chunk) \in Nat /\ DOMAIN chunk = 1 .. Len(chunk)
  BY OutTyped, LenProperties DEF IInv, Typed, CutInv, AcctInv, Texts
<1>2. ASSUME Out' = Out, screen' \in Seq(Item), UNCHANGED <<cmd, offered, dropped>>, Placed' = Placed PROVE AcctInv'
  BY <1>2 DEF AcctInv
<1>3. ASSUME UNCHANGED <<queue, drainer, screen, cmd, offered, dropped>>, Placed' = Placed PROVE AcctInv'
  <2>1. Out' = Out
    BY <1>3 DEF Out, Items
  <2> QED
    BY <1>1, <1>2, <1>3, <2>1
<1>4. CASE Write
  <2>1. at = "copy" /\ Placed /\ Placed' /\ UNCHANGED <<outVars, cmd, at>>
    BY <1>4 DEF Write, Held, Scan, CopyOK, Placed
  <2>2. CASE NoEmit
    BY <1>3, <2>1, <2>2 DEF NoEmit, outVars
  <2>3. ASSUME NEW text \in Texts, Emit(text) PROVE AcctInv'
    BY <1>1, <2>1, <2>3, EmitAcct
  <2>4. CASE Held
    <3>1. Front(part) \in Texts
      BY <1>1, FrontTyped
    <3> QED
      BY <2>2, <2>3, <2>4, <3>1 DEF Held
  <2>5. CASE Scan
    <3>1. ASSUME NEW i \in DOMAIN chunk, NEW w, EndOfLine(i, w) PROVE AcctInv'
      <4>1. SubSeq(chunk, 1, i - 1) \in Texts
        BY <1>1, CutTyped
      <4>2. part \o SubSeq(chunk, 1, i - 1) \in Texts
        BY <1>1, <4>1, ConcatProperties DEF Texts
      <4> QED
        BY <2>3, <3>1, <4>2 DEF EndOfLine
    <3> QED
      BY <2>2, <2>5, <3>1 DEF Scan, TrailingCR, Overwrite
  <2> QED
    BY <1>4, <2>4, <2>5 DEF Write
<1>5. CASE EmitPartial
  <2> DEFINE line == IF crHeld THEN Front(part) ELSE part
  <2>1. /\ Placed /\ Placed' /\ UNCHANGED <<outVars, cmd>> /\ Placed' = Placed
        /\ IF line # <<>> THEN Emit(line) ELSE NoEmit
    BY <1>5 DEF EmitPartial, Placed
  <2>2. line \in Texts
    BY <1>1, FrontTyped
  <2> HIDE DEF line
  <2>3. CASE NoEmit
    BY <1>3, <2>1, <2>3 DEF NoEmit, outVars
  <2>4. CASE Emit(line)
    BY <1>1, <2>1, <2>2, <2>4, EmitAcct
  <2> QED
    BY <2>1, <2>3, <2>4
<1>6. CASE SendBarrier \/ CloseBarrier
  <2>1. Send(Barrier) /\ UNCHANGED <<outVars, cmd, offered, dropped>> /\ Placed' = Placed
    BY <1>6 DEF SendBarrier, CloseBarrier, Placed
  <2>2. Barrier \in Item /\ Barrier \in Things
    BY DEF Item, Things
  <2>3. Out' = Append(Out, Barrier)
    BY <1>1, <2>1, <2>2, SendOut
  <2>4. Append(Out, Barrier) \in Seq(Things)
    BY <1>1, <2>2, AppendProperties
  <2> QED
    BY <1>1, <2>1, <2>3, <2>4, OtherAcct DEF outVars
<1>7. CASE RunBarrier \/ StopDrainer
  <2>1. UNCHANGED <<cmd, offered, dropped>> /\ Placed' = Placed
    <3>1. CASE RunBarrier
      BY <1>1, <3>1 DEF RunBarrier, Placed, sinkVars, Places
    <3>2. CASE StopDrainer
      BY <3>2 DEF StopDrainer, Placed, sinkVars
    <3> QED
      BY <1>7, <3>1, <3>2
  <2>2. /\ screen' = screen /\ Out' \in Seq(Things)
        /\ \E x \in {Barrier, Gone} : Out = Append(Out', x) \/ Out' = Append(Out, x)
    BY <1>1, <1>7, StopOut
  <2> QED
    BY <1>1, <2>1, <2>2, OtherAcct
<1>8. CASE Take \/ PrintItem
  <2>1. Out' = Out /\ screen' \in Seq(Item)
    BY <1>1, <1>8, DrainOut
  <2>2. UNCHANGED <<cmd, offered, dropped>> /\ Placed' = Placed
    BY <1>8 DEF Take, PrintItem, sinkVars, Placed
  <2> QED
    BY <1>2, <2>1, <2>2
<1>9. CASE WriteChunk \/ CommandEnds \/ BeginClose \/ UNCHANGED vars
  <2>1. UNCHANGED <<queue, drainer, screen, cmd, offered, dropped>> /\ Placed' = Placed
    BY <1>9 DEF WriteChunk, CommandEnds, BeginClose, vars, sinkVars, outVars, Placed
  <2> QED
    BY <1>3, <2>1
<1> QED
  BY <1>1, <1>4, <1>5, <1>6, <1>7, <1>8, <1>9, ReportDropsAcct, NextCommandAcct DEF Next, Caller, Drainer, Over

-----------------------------------------------------------------------------

\* At first no command has written anything.
LEMMA CutInit == Init => CutInv
  BY NothingWritten DEF Init, Copying

\* At first nothing is queued.
LEMMA AcctInit == Init => AcctInv
<1> SUFFICES ASSUME Init PROVE AcctInv
  OBVIOUS
<1>1. <<>> \in Seq(Item) /\ Len(<<>>) = 0 /\ <<>> \o <<>> = <<>>
  BY EmptySeq, ConcatEmptySeq
<1>2. Out = <<>> /\ screen = <<>> /\ offered = <<>> /\ dropped = 0 /\ at = "copy"
  BY <1>1 DEF Init, Out, Items
<1>3. DOMAIN <<>> = {}
  OBVIOUS
<1>4. MineIn(<<>>, "line", cmd) = {} /\ MineIn(<<>>, "note", cmd) = {}
  BY <1>3 DEF MineIn
<1> QED
  BY <1>1, <1>2, <1>3, <1>4, FS_EmptySet DEF AcctInv, NoneLater, Uncounted, Placed

\* The bytes and the accounts of every reachable state.
LEMMA ContentInvariance == Spec => [](CutInv /\ AcctInv)
  BY Invariance, InvStep, InitStep, CutInit, AcctInit, CutStep, AcctStep, PTL DEF Spec

\* What a command's output looks like does not depend on how it was cut into chunks,
\* for outputs of any length and chunks of any size (Write, Flush).
THEOREM ChunksInvisible == Spec => []ChunkingInvisible
<1>1. CutInv => ChunkingInvisible
  BY DEF CutInv
<1> QED
  BY ContentInvariance, <1>1, PTL

\* No line is lost in silence and none is counted for another command, however long
\* the queue is and wherever the console stalls (emitLocked, reportDrops).
THEOREM NothingLost == Spec => []NothingUnaccounted
<1>1. AcctInv => NothingUnaccounted
  BY DEF AcctInv, NothingUnaccounted, Uncounted, Reported, MineIn, Mine
<1> QED
  BY ContentInvariance, <1>1, PTL
================================================================================
