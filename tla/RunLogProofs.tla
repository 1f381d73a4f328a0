------------------------------ MODULE RunLogProofs ------------------------------
(***************************************************************************)
(* For any number of readers, any output, any length limit of a record and *)
(* any limit of the log, with or without failures of storing: type         *)
(* correctness, RecordsAreTheOutput, FinishedIsComplete, TailNeverFails,   *)
(* ShownIsComplete and StatusIsTruthful.                                   *)
(*                                                                         *)
(* Two arguments that meet only where a reader takes the recorder for      *)
(* gone.  The output: what is in the log, what waits to be stored and what *)
(* is buffered of a stream follow one another without a gap up to its end  *)
(* (Waiting, Buffering, Linked).  The readers: each knows by the lock or   *)
(* the metadata that the recorder will store nothing more (Readings).      *)
(***************************************************************************)
EXTENDS RunLog, SequenceTheorems, TLAPS

\* What a reader may conclude from what it has read: everyone who found the
\* lock free, or is told so, comes after the recorder.
Truthful(r) ==
    /\ r.pc \in {"unprobe", "unpoll", "reread"} \/ ~r.live \/ r.final => ~Alive
    /\ r.pc = "probe" /\ Alive => r.alive
    /\ r.status = "interrupted" => ~Alive /\ meta.status = "running"
    /\ r.status = "finished" => meta.status = "finished"
    /\ r.status = "running" => r.alive \/ r.contested
    /\ r.status # "error"

\* ... and what it has shown by then.
Complete(r) ==
    /\ r.final => r.pos = Len(log) /\ r.pc \in {"meta", "probe", "unprobe", "reread", "done"}
    /\ r.status \in {"finished", "interrupted"} =>
         r.pc \in {"open", "tail", "done"} /\ (r.pc = "done" => r.pos = Len(log))

Readings == \A x \in Readers : Truthful(reader[x]) /\ Complete(reader[x])

\* The outcome is stored after the last record, and only a recorder that is gone
\* is pruned.
Closing ==
    /\ pruner # "idle" \/ ~stored => ~Alive
    /\ pc \notin {"writing", "flush"} => queue = <<>>
    /\ meta.status = "finished" => pc \notin {"writing", "flush"} /\ meta.truncated = truncated

\* A stretch of what was written.
Stretch(q) == q.line \in 1..Open(q.stream) /\ q.from <= q.to /\ q.to <= lines[q.stream][q.line]

\* What is in the log.
Logged ==
    /\ \A i \in DOMAIN log : Length(log[i]) <= MaxPartialLine
    /\ \A i \in DOMAIN log : log[i].stream \in Streams => Stretch(log[i])
    /\ \A i \in DOMAIN log : log[i] = Notice => i = Len(log) /\ truncated
    /\ truncated /\ ~failed => \E i \in DOMAIN log : log[i] = Notice
    /\ MaxOutput > 0 => written <= MaxOutput

\* The lines that wait: each to its end, and of each stream one after the other.
Follows(i) == i > 1 /\ queue[i - 1].stream = queue[i].stream
Waiting ==
    /\ \A i \in DOMAIN queue :
         /\ Stretch(queue[i]) /\ queue[i].to = lines[queue[i].stream][queue[i].line]
         /\ Follows(i) => queue[i].line = queue[i - 1].line + 1 /\ queue[i].from = 0
    /\ \A i, j \in DOMAIN queue :
         i < j /\ queue[i].stream # queue[j].stream => queue[i].stream = "out" /\ pc = "flush"

\* What is buffered comes next.
Buffer(s) == [stream |-> s, line |-> Open(s), from |-> Column(s) - buf[s], to |-> Column(s)]
Precedes(q, s) ==
    \/ q.line = Open(s) /\ buf[s] = 0 /\ (pc = "writing" => Column(s) >= MaxPartialLine)
    \/ q.line + 1 = Open(s) /\ buf[s] = Column(s)
Buffering ==
    /\ pc = "flush" => buf = [s \in Streams |-> 0]
    /\ \A i \in DOMAIN queue :
         i = Len(queue) \/ ~Follows(i + 1) => Precedes(queue[i], queue[i].stream)

\* The log of a stream goes on with q, or ends where the stream does.
GoesOn(s, q) ==
    IF Records(s) = {} THEN q.line = 1 /\ q.from = 0
    ELSE \E i \in Records(s) : Latest(Records(s), i) /\ Continues(log[i], q)
AllOf(s) ==
    IF Records(s) = {} THEN Open(s) = 1 /\ Column(s) = 0
    ELSE \E i \in Records(s) : Latest(Records(s), i) /\ Ends(log[i], s)

Linked ==
    ~Silenced /\ (pc # "dead" \/ meta.status = "finished") =>
        /\ \A i \in DOMAIN queue : ~Follows(i) => GoesOn(queue[i].stream, queue[i])
        /\ \A s \in Streams :
             (\A i \in DOMAIN queue : queue[i].stream # s) =>
                 IF pc = "writing" THEN GoesOn(s, Buffer(s)) ELSE AllOf(s)

\* The inductive invariant.
IInv ==
    /\ TypeOK /\ Closing /\ Readings /\ Logged /\ Waiting /\ Buffering /\ Linked
    /\ RecordsAreTheOutput

-----------------------------------------------------------------------------
(* Types *)

\* A text is a sequence of lengths, at least one.
LEMMA TextType ==
    ASSUME NEW text \in Texts
    PROVE  text \in Seq(Nat) /\ Len(text) \in Nat \ {0}
           /\ \A i \in 1..Len(text) : text[i] \in Nat
<1>1. PICK n \in 1..(MaxBytes + 1) : text \in [1..n -> 0..MaxBytes]
  BY DEF Texts
<1>2. n \in Nat \ {0} /\ MaxBytes \in Nat
  BY <1>1, SizeAssumption
<1>3. text \in [1..n -> Nat] /\ 0..MaxBytes \subseteq Nat
  BY <1>1, <1>2
<1>4. text \in Seq(Nat) /\ Len(text) = n
  BY <1>2, <1>3
<1>5. QED BY <1>2, <1>3, <1>4

\* The open line is the last of its stream.
LEMMA OpenLine ==
    ASSUME TypeOK, NEW s \in Streams
    PROVE  /\ lines[s] \in Seq(Nat) /\ Open(s) \in Nat \ {0} /\ Column(s) \in Nat
           /\ buf[s] \in Nat /\ buf[s] <= Column(s)
           /\ \A k \in 1..Open(s) : lines[s][k] \in Nat
<1>1. lines[s] \in Seq(Nat) /\ lines[s] # <<>> /\ Len(lines[s]) \in Nat
  BY DEF TypeOK
<1>2. Len(lines[s]) # 0
  BY <1>1
<1>3. QED BY <1>1, <1>2 DEF TypeOK, Open, Column

\* What a write makes of the lines of its stream.
LEMMA Written ==
    ASSUME TypeOK, NEW s \in Streams, NEW text \in Texts, Write(s, text)
    PROVE  /\ lines' \in [Streams -> Seq(Nat) \ {<<>>}]
           /\ Open(s)' = Open(s) + Len(text) - 1
           /\ \A k \in 1..(Open(s) - 1) : lines'[s][k] = lines[s][k]
           /\ lines'[s][Open(s)] = Column(s) + text[1]
           /\ \A i \in 2..Len(text) : lines'[s][Open(s) + i - 1] = text[i]
           /\ \A t \in Streams : t # s => lines'[t] = lines[t] /\ buf'[t] = buf[t]
<1> DEFINE n == Len(text)
           o == Open(s)
           l == [k \in 1..(o + n - 1) |->
                   IF k < o THEN lines[s][k]
                   ELSE IF k = o THEN lines[s][k] + text[1] ELSE text[k - o + 1]]
<1>1. n \in Nat \ {0} /\ text \in Seq(Nat) /\ \A i \in 1..n : text[i] \in Nat
  BY TextType
<1>2. o \in Nat \ {0} /\ Column(s) = lines[s][o] /\ \A k \in 1..o : lines[s][k] \in Nat
  BY OpenLine DEF Column
<1>3. lines' = [lines EXCEPT ![s] = l]
  BY DEF Write
<1>4. \A k \in 1..(o + n - 1) : l[k] \in Nat
  <2> SUFFICES ASSUME NEW k \in 1..(o + n - 1) PROVE l[k] \in Nat
    OBVIOUS
  <2>1. k > o => k - o + 1 \in 1..n
    BY <1>1, <1>2
  <2>2. 1 \in 1..n
    BY <1>1
  <2>3. k < o \/ k = o \/ k > o
    BY <1>1, <1>2
  <2>4. l[k] = IF k < o THEN lines[s][k]
               ELSE IF k = o THEN lines[s][k] + text[1] ELSE text[k - o + 1]
    OBVIOUS
  <2>5. CASE k < o
    BY <2>4, <2>5, <1>2
  <2>6. CASE k = o
    BY <2>4, <2>6, <1>1, <1>2, <2>2
  <2>7. CASE k > o
    <3>1. ~(k < o) /\ k # o
      BY <2>7, <1>2
    <3>2. l[k] = text[k - o + 1]
      BY <2>4, <3>1
    <3>3. QED BY <3>2, <2>1, <2>7, <1>1
  <2>8. QED BY <2>3, <2>5, <2>6, <2>7
<1>5. o + n - 1 \in Nat \ {0} /\ DOMAIN l = 1..(o + n - 1)
  BY <1>1, <1>2
<1> HIDE DEF l
<1>6. l \in Seq(Nat) /\ Len(l) = o + n - 1
  <2>1. l \in [1..(o + n - 1) -> Nat]
    BY <1>4, <1>5 DEF l
  <2>2. QED BY <2>1, <1>5
<1>7. l # <<>>
  BY <1>5, <1>6
<1>8. lines'[s] = l /\ \A t \in Streams : t # s => lines'[t] = lines[t]
  BY <1>3 DEF TypeOK
<1>9. lines' \in [Streams -> Seq(Nat) \ {<<>>}]
  BY <1>3, <1>6, <1>7 DEF TypeOK
<1>10. Open(s)' = o + n - 1
  BY <1>6, <1>8 DEF Open
<1>11. ASSUME NEW k \in 1..(o - 1) PROVE l[k] = lines[s][k]
  BY <1>1, <1>2 DEF l
<1>12. l[o] = Column(s) + text[1]
  BY <1>1, <1>2 DEF l
<1>13. ASSUME NEW i \in 2..n PROVE l[o + i - 1] = text[i]
  <2>1. PICK k \in Nat : k = o + i - 1
    BY <1>1, <1>2
  <2>2. k \in 1..(o + n - 1) /\ ~(k < o) /\ k # o /\ k - o + 1 = i
    BY <2>1, <1>1, <1>2
  <2>3. l[k] = text[i]
    BY <2>2 DEF l
  <2>4. QED BY <2>1, <2>3
<1>14. \A t \in Streams : t # s => buf'[t] = buf[t]
  BY DEF Write, TypeOK
<1>15. QED BY <1>8, <1>9, <1>10, <1>11, <1>12, <1>13, <1>14

\* What a write leaves to be stored, and in the buffer.
LEMMA WrittenQueue ==
    ASSUME TypeOK, NEW s \in Streams, NEW text \in Texts, Write(s, text)
    PROVE  /\ queue' \in Seq(Stretches)
           /\ \A i \in 1..Len(queue') :
                /\ queue'[i].stream = s /\ queue'[i].line = Open(s) + i - 1
                /\ i = 1 => /\ queue'[i].from = Column(s) - buf[s]
                            /\ queue'[i].to = Column(s) + text[1]
                /\ i # 1 => queue'[i].from = 0 /\ queue'[i].to = text[i]
           /\ \/ /\ Len(queue') = Len(text) /\ buf'[s] = 0
                 /\ Length(Buffered(s, text, Len(text))) >= MaxPartialLine
              \/ /\ Len(queue') = Len(text) - 1
                 /\ buf'[s] = Length(Buffered(s, text, Len(text)))
           /\ buf' \in [Streams -> Nat]
<1> DEFINE n == Len(text)
           rest == Buffered(s, text, n)
           k == IF Flushes(rest) THEN n ELSE n - 1
<1>1. n \in Nat \ {0} /\ \A i \in 1..n : text[i] \in Nat
  BY TextType
<1>2. Open(s) \in Nat \ {0} /\ Column(s) \in Nat /\ buf[s] \in Nat /\ buf[s] <= Column(s)
  BY OpenLine
<1>3. ASSUME NEW i \in 1..n
      PROVE  /\ Buffered(s, text, i) \in Stretches
             /\ Buffered(s, text, i).stream = s /\ Buffered(s, text, i).line = Open(s) + i - 1
             /\ i = 1 => /\ Buffered(s, text, i).from = Column(s) - buf[s]
                         /\ Buffered(s, text, i).to = Column(s) + text[1]
             /\ i # 1 => Buffered(s, text, i).from = 0 /\ Buffered(s, text, i).to = text[i]
             /\ Length(Buffered(s, text, i)) \in Nat
  <2>1. CASE i = 1
    <3>1. text[1] \in Nat
      BY <1>1
    <3>2. QED BY <1>1, <1>2, <2>1, <3>1 DEF Buffered, Stretches, Length
  <2>2. CASE i # 1
    <3>1. text[i] \in Nat
      BY <1>1
    <3>2. QED BY <1>1, <1>2, <2>2, <3>1 DEF Buffered, Stretches, Length
  <2>3. QED BY <2>1, <2>2
<1>4. k \in Nat /\ k <= n
  BY <1>1
<1>5. queue' = [i \in 1..k |-> Buffered(s, text, i)]
  BY DEF Write
<1>6. buf' = [buf EXCEPT ![s] = IF Flushes(rest) THEN 0 ELSE Length(rest)]
  BY DEF Write
<1>7. Flushes(rest) => Length(rest) >= MaxPartialLine
  BY DEF Flushes
<1>8. k = IF Flushes(rest) THEN n ELSE n - 1
  OBVIOUS
<1>9. n \in 1..n
  BY <1>1
<1>10. Length(rest) \in Nat
  BY <1>3, <1>9
<1> HIDE DEF k, rest
<1>11. \A i \in 1..k : Buffered(s, text, i) \in Stretches
  BY <1>1, <1>3, <1>4
<1>12. queue' \in Seq(Stretches) /\ Len(queue') = k /\ \A i \in 1..k : queue'[i] = Buffered(s, text, i)
  <2>1. queue' \in [1..k -> Stretches]
    BY <1>5, <1>11
  <2>2. QED BY <1>4, <1>5, <2>1
<1>13. ASSUME NEW i \in 1..k
       PROVE /\ queue'[i].stream = s /\ queue'[i].line = Open(s) + i - 1
             /\ i = 1 => /\ queue'[i].from = Column(s) - buf[s]
                         /\ queue'[i].to = Column(s) + text[1]
             /\ i # 1 => queue'[i].from = 0 /\ queue'[i].to = text[i]
  <2>1. i \in 1..n
    BY <1>1, <1>4
  <2>2. QED BY <1>3, <1>12, <2>1
<1>14. buf' \in [Streams -> Nat] /\ buf'[s] = IF Flushes(rest) THEN 0 ELSE Length(rest)
  BY <1>6, <1>10 DEF TypeOK
<1>15. QED BY <1>7, <1>8, <1>12, <1>13, <1>14 DEF rest

\* The open line of a stream after a write.
LEMMA WrittenOpen ==
    ASSUME TypeOK, NEW s \in Streams, NEW text \in Texts, Write(s, text)
    PROVE  /\ Open(s)' \in Nat \ {0} /\ Column(s)' \in Nat
           /\ Len(text) = 1 => Column(s)' = Column(s) + text[1]
           /\ Len(text) # 1 => Column(s)' = text[Len(text)]
           /\ \A t \in Streams : t # s => Open(t)' = Open(t) /\ Column(t)' = Column(t)
<1>1. Len(text) \in Nat \ {0} /\ \A i \in 1..Len(text) : text[i] \in Nat
  BY TextType
<1>2. Open(s) \in Nat \ {0} /\ Column(s) \in Nat
  BY OpenLine
<1>3. Open(s)' = Open(s) + Len(text) - 1
  BY Written
<1>4. Column(s)' = lines'[s][Open(s)']
  BY DEF Column
<1>5. ASSUME Len(text) = 1 PROVE Column(s)' = Column(s) + text[1]
  <2>1. Open(s)' = Open(s)
    BY <1>2, <1>3, <1>5
  <2>2. QED BY <1>4, <2>1, Written
<1>6. ASSUME Len(text) # 1 PROVE Column(s)' = text[Len(text)]
  <2>1. Len(text) \in 2..Len(text)
    BY <1>1, <1>6
  <2>2. QED BY <1>3, <1>4, <2>1, Written
<1>7. 1 \in 1..Len(text) /\ Len(text) \in 1..Len(text)
  BY <1>1
<1>8. \A t \in Streams : t # s => Open(t)' = Open(t) /\ Column(t)' = Column(t)
  BY Written DEF Open, Column
<1>9. Open(s)' \in Nat \ {0}
  BY <1>1, <1>2, <1>3
<1>10. Column(s)' \in Nat
  BY <1>1, <1>2, <1>5, <1>6, <1>7
<1>11. QED BY <1>5, <1>6, <1>8, <1>9, <1>10

\* A record of a line, and what it leaves of it.
LEMMA Chunked ==
    ASSUME NEW q \in Stretches, q.from <= q.to
    PROVE  /\ Chunk(q) \in Stretches /\ Chunk(q).stream = q.stream /\ Chunk(q).line = q.line
           /\ Chunk(q).from = q.from /\ q.from <= Chunk(q).to /\ Chunk(q).to <= q.to
           /\ Length(Chunk(q)) \in Nat /\ Length(Chunk(q)) <= MaxPartialLine
           /\ \/ Chunk(q) = q /\ Unstored(q) = <<>>
              \/ /\ Unstored(q) = <<[q EXCEPT !.from = Chunk(q).to]>>
                 /\ q.from + MaxPartialLine = Chunk(q).to /\ Chunk(q).to < q.to
<1> USE SizeAssumption DEF Stretches
<1>1. q = [stream |-> q.stream, line |-> q.line, from |-> q.from, to |-> q.to]
      /\ q.from \in Nat /\ q.to \in Nat
  OBVIOUS
<1>2. CASE Length(q) > MaxPartialLine
  <2>1. Chunk(q) = [q EXCEPT !.to = q.from + MaxPartialLine]
    BY <1>2 DEF Chunk
  <2>2. Chunk(q).to < q.to
    BY <1>1, <1>2, <2>1 DEF Length
  <2>3. Chunk(q) # q
    BY <2>2, <1>1
  <2>4. Unstored(q) = <<[q EXCEPT !.from = Chunk(q).to]>>
    BY <2>3 DEF Unstored
  <2>5. QED BY <1>1, <2>1, <2>2, <2>4 DEF Length
<1>3. CASE ~(Length(q) > MaxPartialLine)
  <2>1. Chunk(q) = q
    BY <1>1, <1>3 DEF Chunk
  <2>2. Unstored(q) = <<>>
    BY <2>1 DEF Unstored
  <2>3. QED BY <1>1, <1>3, <2>1, <2>2 DEF Length
<1>4. QED BY <1>2, <1>3

\* A sequence with one more element in front.
LEMMA Cons ==
    ASSUME NEW S, NEW r \in S, NEW t \in Seq(S)
    PROVE  /\ <<r>> \o t \in Seq(S) /\ Len(<<r>> \o t) = 1 + Len(t) /\ (<<r>> \o t)[1] = r
           /\ \A i \in 2..Len(<<r>> \o t) : (<<r>> \o t)[i] = t[i - 1]
           /\ <<>> \o t = t
<1>1. <<r>> \in Seq(S) /\ Len(<<r>>) = 1 /\ <<r>>[1] = r
  OBVIOUS
<1>2. <<r>> \o t \in Seq(S) /\ Len(<<r>> \o t) = 1 + Len(t) /\ Len(t) \in Nat
  BY <1>1
<1>3. 1 \in 1..(1 + Len(t)) /\ (<<r>> \o t)[1] = r
  BY <1>1, <1>2
<1>4. ASSUME NEW i \in 2..(1 + Len(t)) PROVE (<<r>> \o t)[i] = t[i - 1]
  BY <1>1, <1>2
<1>5. <<>> \o t = t
  OBVIOUS
<1>6. QED BY <1>2, <1>3, <1>4, <1>5

\* The queue after a record of its head.
LEMMA Dequeued ==
    ASSUME queue \in Seq(Stretches), queue # <<>>, \A i \in DOMAIN queue : queue[i].from <= queue[i].to,
           queue' = Unstored(Head(queue)) \o Tail(queue)
    PROVE  /\ queue' \in Seq(Stretches)
           /\ \/ /\ Chunk(queue[1]) = queue[1] /\ Len(queue') = Len(queue) - 1
                 /\ \A i \in 1..Len(queue') : queue'[i] = queue[i + 1]
              \/ /\ Len(queue') = Len(queue) /\ queue'[1] = [queue[1] EXCEPT !.from = Chunk(queue[1]).to]
                 /\ queue[1].from + MaxPartialLine = Chunk(queue[1]).to
                 /\ Chunk(queue[1]).to < queue[1].to
                 /\ \A i \in 2..Len(queue') : queue'[i] = queue[i]
<1> DEFINE h == queue[1]
           t == Tail(queue)
<1>1. Head(queue) = h /\ h \in Stretches /\ h.from <= h.to /\ Len(queue) \in Nat \ {0}
  BY ElementOfSeq
<1>2. t \in Seq(Stretches) /\ Len(t) = Len(queue) - 1 /\ \A i \in 1..Len(t) : t[i] = queue[i + 1]
  OBVIOUS
<1>3. Chunk(h) \in Stretches
  BY <1>1, Chunked
<1>4. CASE Chunk(h) = h /\ Unstored(h) = <<>>
  <2>1. <<>> \o t = t
    BY <1>1, <1>2, Cons
  <2>2. queue' = t
    BY <1>1, <1>4, <2>1
  <2>3. QED BY <1>2, <1>4, <2>2
<1>5. CASE /\ Unstored(h) = <<[h EXCEPT !.from = Chunk(h).to]>>
           /\ h.from + MaxPartialLine = Chunk(h).to /\ Chunk(h).to < h.to
  <2> DEFINE r == [h EXCEPT !.from = Chunk(h).to]
  <2>1. r \in Stretches
    BY <1>1, <1>3 DEF Stretches
  <2>2. queue' = <<r>> \o t
    BY <1>1, <1>5
  <2> HIDE DEF r, t, h
  <2>0. t \in Seq(Stretches)
    BY <1>2
  <2> DEFINE u == <<r>> \o t
  <2>7. /\ u \in Seq(Stretches) /\ Len(u) = 1 + Len(t) /\ u[1] = r
        /\ \A i \in 2..Len(u) : u[i] = t[i - 1]
    BY <2>0, <2>1, Cons
  <2> HIDE DEF u
  <2>3. queue' \in Seq(Stretches) /\ Len(queue') = 1 + Len(t) /\ queue'[1] = r
        /\ \A i \in 2..Len(queue') : queue'[i] = t[i - 1]
    BY <2>2, <2>7 DEF u
  <2>4. Len(queue') = Len(queue)
    BY <1>1, <1>2, <2>3
  <2>5. ASSUME NEW i \in 2..Len(queue') PROVE queue'[i] = queue[i]
    <3>1. i - 1 \in 1..Len(t) /\ (i - 1) + 1 = i
      BY <1>1, <1>2, <2>4
    <3>2. t[i - 1] = queue[(i - 1) + 1]
      BY <1>2, <3>1
    <3>3. QED BY <2>3, <3>1, <3>2
  <2>6. QED BY <1>5, <2>3, <2>4, <2>5 DEF r, h
<1>6. QED BY <1>1, <1>4, <1>5, Chunked

\* The record to be stored next.
NextRecord == Chunk(queue[1])

\* What may become of the log when the head of the queue is stored.
LEMMA StoreCases ==
    ASSUME TypeOK, Waiting, StoreRecord \/ StoreFails
    PROVE  /\ queue # <<>> /\ pc \in {"writing", "flush"}
           /\ queue[1] \in Stretches /\ Stretch(queue[1]) /\ NextRecord \in Stretches
           /\ \/ Silenced /\ UNCHANGED <<log, written, truncated, failed>>
              \/ /\ ~Silenced /\ Exceeds(NextRecord) /\ log' = Append(log, Notice)
                 /\ truncated' = TRUE /\ UNCHANGED <<written, failed>>
              \/ /\ ~Silenced /\ ~Exceeds(NextRecord) /\ log' = Append(log, NextRecord)
                 /\ written' = written + Size(NextRecord) /\ UNCHANGED <<truncated, failed>>
              \/ /\ ~Silenced /\ failed' = TRUE /\ truncated' \in BOOLEAN
                 /\ log' = log \/ log' = Append(log, Torn(NextRecord))
                 /\ UNCHANGED written
           /\ queue' \in Seq(Stretches)
           /\ \/ /\ NextRecord = queue[1] /\ Len(queue') = Len(queue) - 1
                 /\ \A i \in 1..Len(queue') : queue'[i] = queue[i + 1]
              \/ /\ Len(queue') = Len(queue) /\ queue'[1] = [queue[1] EXCEPT !.from = NextRecord.to]
                 /\ queue[1].from + MaxPartialLine = NextRecord.to /\ NextRecord.to < queue[1].to
                 /\ \A i \in 2..Len(queue') : queue'[i] = queue[i]
           /\ UNCHANGED <<lines, buf, pc, files, pruner, reader>>
<1>1. queue # <<>> /\ pc \in {"writing", "flush"} /\ UNCHANGED <<lines, buf, pc, files, pruner, reader>>
      /\ queue' = Unstored(Head(queue)) \o Tail(queue)
  BY DEF StoreRecord, StoreFails
<1>2. queue \in Seq(Stretches) /\ Len(queue) \in Nat \ {0} /\ 1 \in DOMAIN queue /\ Head(queue) = queue[1]
  BY <1>1 DEF TypeOK
<1>3. queue[1] \in Stretches /\ Stretch(queue[1]) /\ queue[1].from <= queue[1].to
  BY <1>2, ElementOfSeq DEF Waiting, Stretch
<1>4. NextRecord \in Stretches
  BY <1>3, Chunked DEF NextRecord
<1>5. \A i \in DOMAIN queue : queue[i].from <= queue[i].to
  BY DEF Waiting, Stretch
<1>6. CASE StoreRecord
  <2>1. Stores(NextRecord) /\ UNCHANGED failed
    BY <1>2, <1>6 DEF StoreRecord, NextRecord
  <2>2. QED BY <1>1, <1>2, <1>3, <1>4, <1>5, <2>1, Dequeued DEF Stores, NextRecord
<1>7. CASE StoreFails
  <2>1. truncated' \in BOOLEAN
    BY <1>7, <1>2 DEF StoreFails, Exceeds
  <2>2. /\ ~Silenced /\ failed' = TRUE /\ UNCHANGED written
        /\ log' = log \/ log' = Append(log, Torn(NextRecord))
    BY <1>7, <1>2 DEF StoreFails, NextRecord
  <2>3. QED BY <1>1, <1>2, <1>3, <1>4, <1>5, <2>1, <2>2, Dequeued DEF NextRecord
<1>8. QED BY <1>6, <1>7

\* The buffer is flushed in at most one stretch for each stream.
LEMMA FlushedIs ==
    ASSUME TypeOK, NEW s \in Streams
    PROVE  \/ buf[s] = 0 /\ Flushed(s) = <<>>
           \/ buf[s] > 0 /\ Flushed(s) = <<Buffer(s)>> /\ Buffer(s) \in Stretches /\ Stretch(Buffer(s))
<1>1. Open(s) \in Nat \ {0} /\ Column(s) \in Nat /\ buf[s] \in Nat /\ buf[s] <= Column(s)
  BY OpenLine
<1>2. Buffer(s) \in Stretches
  BY <1>1 DEF Buffer, Stretches
<1>3. Stretch(Buffer(s))
  BY <1>1 DEF Buffer, Stretch, Column
<1>4. QED BY <1>1, <1>2, <1>3 DEF Flushed, Buffer

\* Short sequences, joined.
LEMMA Joined ==
    ASSUME NEW S, NEW a \in S, NEW b \in S
    PROVE  <<a>> \o <<>> = <<a>> /\ <<>> \o <<b>> = <<b>> /\ <<a>> \o <<b>> = <<a, b>>
<1>1. <<a>> \o <<>> = <<a>>
  OBVIOUS
<1>2. <<>> \o <<b>> = <<b>>
  OBVIOUS
<1> DEFINE c == <<a>> \o <<b>>
<1>3. c \in Seq(S) /\ Len(c) = 2 /\ c[1] = a /\ c[2] = b
  BY Cons
<1> DEFINE d == <<a, b>>
<1>6. d \in Seq(S) /\ Len(d) = 2 /\ d[1] = a /\ d[2] = b
  OBVIOUS
<1> HIDE DEF c, d
<1>4. c = d
  <2>1. Len(c) = Len(d) /\ \A i \in 1..Len(c) : c[i] = d[i]
    BY <1>3, <1>6
  <2>2. QED BY <1>3, <1>6, <2>1, SeqEqual
<1>5. QED BY <1>1, <1>2, <1>4 DEF c, d

\* What Flush leaves to be stored.
LEMMA FlushQueue ==
    ASSUME TypeOK, Flush
    PROVE  /\ queue' \in Seq(Stretches)
           /\ \/ buf["out"] = 0 /\ buf["err"] = 0 /\ queue' = <<>>
              \/ buf["out"] > 0 /\ buf["err"] = 0 /\ queue' = <<Buffer("out")>>
              \/ buf["out"] = 0 /\ buf["err"] > 0 /\ queue' = <<Buffer("err")>>
              \/ buf["out"] > 0 /\ buf["err"] > 0 /\ queue' = <<Buffer("out"), Buffer("err")>>
           /\ \A s \in Streams : buf[s] > 0 => Buffer(s) \in Stretches /\ Stretch(Buffer(s))
<1>1. "out" \in Streams /\ "err" \in Streams
  BY DEF Streams
<1>2. queue' = Flushed("out") \o Flushed("err")
  BY DEF Flush
<1>3. buf["out"] \in Nat /\ buf["err"] \in Nat
  BY <1>1 DEF TypeOK
<1>4. \A s \in Streams : buf[s] > 0 => Buffer(s) \in Stretches /\ Stretch(Buffer(s))
  BY <1>3, FlushedIs DEF Streams
<1>5. CASE buf["out"] = 0 /\ buf["err"] = 0
  BY <1>1, <1>2, <1>4, <1>5, FlushedIs
<1>6. CASE buf["out"] > 0 /\ buf["err"] = 0
  <2>1. Flushed("out") = <<Buffer("out")>> /\ Flushed("err") = <<>>
    BY <1>1, <1>6, FlushedIs
  <2>2. Buffer("out") \in Stretches /\ Buffer("out") \in Stretches
    BY <1>1, <1>4, <1>6
  <2>3. queue' = <<Buffer("out")>>
    BY <1>2, <2>1, <2>2, Joined
  <2>4. QED BY <1>1, <1>4, <1>6, <2>2, <2>3
<1>7. CASE buf["out"] = 0 /\ buf["err"] > 0
  <2>1. Flushed("err") = <<Buffer("err")>> /\ Flushed("out") = <<>>
    BY <1>1, <1>7, FlushedIs
  <2>2. Buffer("err") \in Stretches /\ Buffer("err") \in Stretches
    BY <1>1, <1>4, <1>7
  <2>3. queue' = <<Buffer("err")>>
    BY <1>2, <2>1, <2>2, Joined
  <2>4. QED BY <1>1, <1>4, <1>7, <2>2, <2>3
<1>8. CASE buf["out"] > 0 /\ buf["err"] > 0
  <2>1. Flushed("out") = <<Buffer("out")>> /\ Flushed("err") = <<Buffer("err")>>
    BY <1>1, <1>8, FlushedIs
  <2>2. Buffer("out") \in Stretches /\ Buffer("err") \in Stretches
    BY <1>1, <1>4, <1>8
  <2>3. queue' = <<Buffer("out"), Buffer("err")>>
    BY <1>2, <2>1, <2>2, Joined
  <2>4. QED BY <1>1, <1>4, <1>8, <2>2, <2>3
<1>9. QED BY <1>3, <1>4, <1>5, <1>6, <1>7, <1>8

\* The state of a reader after one of its steps is one of its states.
LEMMA ReaderType ==
    ASSUME TypeOK, NEW x \in Readers, Get(x) \/ Read(x)
    PROVE  reader' \in [Readers -> ReaderStates]
<1> DEFINE R == reader[x]
<1>0. R \in ReaderStates /\ reader \in [Readers -> ReaderStates] /\ Alive \in BOOLEAN /\ Len(log) \in Nat
  BY DEF TypeOK, Alive
<1>1. \A r \in ReaderStates : Set(x, r) => reader' \in [Readers -> ReaderStates]
  BY <1>0 DEF Set
<1> HIDE DEF R
<1>2. \A r \in ReaderStates :
        /\ \A s \in {"running", "finished", "interrupted"} : Answered(r, s) \in ReaderStates
        /\ \A s \in {"gone", "error", "cancelled"} : Failed(r, s) \in ReaderStates
  BY SMT, ZenonT(40) DEF Answered, Failed, ReaderStates
<1>3. CASE Get(x)
  <2>1. [R EXCEPT !.pc = "meta"] \in ReaderStates
    BY <1>0 DEF ReaderStates
  <2>2. QED BY <1>1, <1>3, <2>1 DEF Get, R
<1>4. CASE ReadMeta(x)
  <2> DEFINE r == [R EXCEPT !.alive = Alive, !.status = "none"]
  <2>1. r \in ReaderStates /\ [r EXCEPT !.pc = "probe"] \in ReaderStates
    BY <1>0 DEF ReaderStates
  <2>2. Failed(r, "gone") \in ReaderStates /\ Answered(r, "finished") \in ReaderStates
    BY <1>2, <2>1
  <2>3. \/ Set(x, Failed(r, "gone")) \/ Set(x, Answered(r, "finished"))
        \/ Set(x, [r EXCEPT !.pc = "probe"])
    BY <1>4 DEF ReadMeta, R
  <2> HIDE DEF r
  <2>4. QED BY <1>1, <2>1, <2>2, <2>3
<1>5. CASE ProbeMissing(x) \/ Unprobe(x)
  <2>1. [R EXCEPT !.pc = "reread"] \in ReaderStates /\ [R EXCEPT !.pc = "copy", !.live = FALSE] \in ReaderStates
    BY <1>0 DEF ReaderStates
  <2>2. Set(x, [R EXCEPT !.pc = "reread"]) \/ Set(x, [R EXCEPT !.pc = "copy", !.live = FALSE])
    BY <1>5 DEF ProbeMissing, Unprobe, R
  <2>3. QED BY <1>1, <2>1, <2>2
<1>6. CASE ProbeLocked(x)
  <2> DEFINE r == Answered(R, "running")
  <2>1. r \in ReaderStates
    BY <1>0, <1>2
  <2>2. [r EXCEPT !.contested = (owner # Recorder)] \in ReaderStates
    BY <2>1 DEF ReaderStates
  <2>3. [R EXCEPT !.pc = "copy", !.live = TRUE] \in ReaderStates
    BY <1>0 DEF ReaderStates
  <2>4. \/ Set(x, [r EXCEPT !.contested = (owner # Recorder)])
        \/ Set(x, [R EXCEPT !.pc = "copy", !.live = TRUE])
    BY <1>6 DEF ProbeLocked, R
  <2>5. QED BY <1>1, <2>2, <2>3, <2>4
<1>7. CASE ProbeFree(x)
  <2>1. [R EXCEPT !.pc = "unprobe"] \in ReaderStates /\ [R EXCEPT !.pc = "unpoll"] \in ReaderStates
    BY <1>0 DEF ReaderStates
  <2>2. Set(x, [R EXCEPT !.pc = "unprobe"]) \/ Set(x, [R EXCEPT !.pc = "unpoll"])
    BY <1>7 DEF ProbeFree, R
  <2>3. QED BY <1>1, <2>1, <2>2
<1>8. CASE ReadMetaAgain(x)
  <2>1. Verdict \in {"finished", "interrupted"}
    BY DEF Verdict
  <2>2. Answered(R, Verdict) \in ReaderStates /\ Failed(R, "gone") \in ReaderStates
    BY <1>0, <1>2, <2>1
  <2>3. Set(x, Answered(R, Verdict)) \/ Set(x, Failed(R, "gone"))
    BY <1>8 DEF ReadMetaAgain, R
  <2>4. QED BY <1>1, <2>2, <2>3
<1>9. CASE OpenOutput(x)
  <2>1. [R EXCEPT !.pc = "tail"] \in ReaderStates /\ Failed(R, "gone") \in ReaderStates
    BY <1>0, <1>2 DEF ReaderStates
  <2>2. Set(x, [R EXCEPT !.pc = "tail"]) \/ Set(x, Failed(R, "gone"))
    BY <1>9 DEF OpenOutput, R
  <2>3. QED BY <1>1, <2>1, <2>2
<1>10. CASE WriteTail(x)
  <2>1. /\ Failed(R, "error") \in ReaderStates
        /\ [Fresh EXCEPT !.pc = "poll", !.pos = Len(log)] \in ReaderStates
        /\ [R EXCEPT !.pc = "done", !.pos = Len(log)] \in ReaderStates
    BY SMT, ZenonT(40), <1>0, <1>2 DEF ReaderStates, Fresh
  <2>2. \/ Set(x, Failed(R, "error"))
        \/ Set(x, [Fresh EXCEPT !.pc = "poll", !.pos = Len(log)])
        \/ Set(x, [R EXCEPT !.pc = "done", !.pos = Len(log)])
    BY <1>10 DEF WriteTail, R
  <2>3. QED BY <1>1, <2>1, <2>2
<1>11. CASE Copy(x)
  <2> DEFINE r == [R EXCEPT !.pos = Copied(x)]
  <2>1. r \in ReaderStates
    BY <1>0 DEF ReaderStates, Copied
  <2>2. /\ [r EXCEPT !.pc = "poll"] \in ReaderStates
        /\ [r EXCEPT !.pc = "meta", !.final = TRUE] \in ReaderStates
        /\ Failed(r, "cancelled") \in ReaderStates
    BY <1>2, <2>1 DEF ReaderStates
  <2>3. \/ Set(x, [r EXCEPT !.pc = "poll"]) \/ Set(x, Failed(r, "cancelled"))
        \/ Set(x, [r EXCEPT !.pc = "meta", !.final = TRUE])
    BY <1>11 DEF Copy, R
  <2> HIDE DEF r
  <2>4. QED BY <1>1, <2>2, <2>3
<1>12. QED BY <1>3, <1>4, <1>5, <1>6, <1>7, <1>8, <1>9, <1>10, <1>11 DEF Read, Probe

\* What a step of a reader changes besides.
LEMMA ReaderFrame ==
    ASSUME NEW x \in Readers, Get(x) \/ Read(x)
    PROVE  /\ UNCHANGED <<capture, failed, pc, meta, stored, pruner>>
           /\ \/ owner' = owner
              \/ owner = NoOwner /\ owner' = x
              \/ owner = x /\ owner' = NoOwner
BY DEF Get, Read, ReadMeta, Probe, ProbeMissing, ProbeLocked, ProbeFree, Unprobe, Unlocked, ReadMetaAgain,
       OpenOutput, WriteTail, Copy, files

\* Every step keeps the types, and the recorder its lock.
LEMMA TypeStep ==
    ASSUME IInv, Next
    PROVE  TypeOK'
<1> USE NamesAssumption, SizeAssumption
<1>0. TypeOK /\ Waiting
  BY DEF IInv
<1>1. ASSUME NEW s \in Streams, NEW text \in Texts, Write(s, text) PROVE TypeOK'
  <2>1. UNCHANGED <<log, written, truncated, failed, pc, files, pruner, reader>>
    BY <1>1 DEF Write
  <2>2. lines' \in [Streams -> Seq(Nat) \ {<<>>}] /\ queue' \in Seq(Stretches) /\ buf' \in [Streams -> Nat]
    BY <1>0, <1>1, Written, WrittenQueue
  <2>3. ASSUME NEW t \in Streams PROVE buf'[t] <= Column(t)'
    <3>1. CASE t # s
      BY <1>0, <1>1, <3>1, Written, WrittenOpen, OpenLine
    <3>2. CASE t = s
      <4>1. Len(text) \in Nat \ {0} /\ \A i \in 1..Len(text) : text[i] \in Nat
        BY TextType
      <4>2. Column(s)' \in Nat /\ Column(s) \in Nat /\ buf[s] \in Nat /\ buf[s] <= Column(s)
        BY <1>0, <1>1, WrittenOpen, OpenLine
      <4>3. CASE buf'[s] = 0
        BY <3>2, <4>2, <4>3
      <4>4. CASE buf'[s] = Length(Buffered(s, text, Len(text)))
        <5>1. CASE Len(text) = 1
          <6>1. Column(s)' = Column(s) + text[1] /\ text[1] \in Nat
            BY <1>0, <1>1, <4>1, <5>1, WrittenOpen
          <6>0. /\ Buffered(s, text, 1).from = Column(s) - buf[s]
                /\ Buffered(s, text, 1).to = Column(s) + text[1]
            BY DEF Buffered
          <6>2. buf'[s] = Column(s) + text[1] - (Column(s) - buf[s])
            <7>1. buf'[s] = Length(Buffered(s, text, 1))
              BY <4>4, <5>1
            <7>2. QED BY <4>2, <6>0, <6>1, <7>1 DEF Length
          <6>3. QED BY <3>2, <4>2, <6>1, <6>2
        <5>2. CASE Len(text) # 1
          <6>1. Column(s)' = text[Len(text)]
            BY <1>0, <1>1, <5>2, WrittenOpen
          <6>2. buf'[s] = text[Len(text)] - 0
            BY <4>4, <5>2 DEF Buffered, Length
          <6>3. QED BY <3>2, <4>2, <6>1, <6>2
        <5>3. QED BY <5>1, <5>2
      <4>5. QED BY <1>0, <1>1, <4>3, <4>4, WrittenQueue
    <3>3. QED BY <3>1, <3>2
  <2>4. QED BY <1>0, <2>1, <2>2, <2>3 DEF TypeOK, files, Alive
<1>2. CASE StoreRecord \/ StoreFails
  <2>1. Notice \in Entries /\ NextRecord \in Entries /\ Torn(NextRecord) \in Entries
    BY <1>0, <1>2, StoreCases DEF Notice, Torn, Entries, Stretches
  <2>2. log' \in Seq(Entries)
    <3>1. \/ log' = log \/ log' = Append(log, Notice)
          \/ log' = Append(log, NextRecord) \/ log' = Append(log, Torn(NextRecord))
      BY <1>0, <1>2, StoreCases
    <3>2. log \in Seq(Entries)
      BY <1>0 DEF TypeOK
    <3>3. QED BY <2>1, <3>1, <3>2
  <2>3. Size(NextRecord) \in Nat
    <3>1. queue[1] \in Stretches /\ queue[1].from <= queue[1].to
      BY <1>0, <1>2, StoreCases DEF Stretch
    <3>2. Length(NextRecord) \in Nat
      BY <3>1, Chunked DEF NextRecord
    <3>3. QED BY <3>2 DEF Size
  <2>4. written' \in Nat /\ truncated' \in BOOLEAN /\ failed' \in BOOLEAN
    <3>1. written' = written \/ written' = written + Size(NextRecord)
      BY <1>0, <1>2, StoreCases
    <3>2. written \in Nat /\ truncated \in BOOLEAN /\ failed \in BOOLEAN
      BY <1>0 DEF TypeOK
    <3>3. written' \in Nat
      BY <2>3, <3>1, <3>2
    <3>4. truncated' \in BOOLEAN /\ failed' \in BOOLEAN
      BY <1>0, <1>2, <3>2, StoreCases
    <3>5. QED BY <3>3, <3>4
  <2>5. queue' \in Seq(Stretches) /\ UNCHANGED <<lines, buf, pc, files, pruner, reader>>
    BY <1>0, <1>2, StoreCases
  <2>6. QED BY <1>0, <2>2, <2>4, <2>5 DEF TypeOK, files, Alive, Column, Open
<1>3. CASE Flush
  <2>1. queue' \in Seq(Stretches) /\ buf' = [s \in Streams |-> 0] /\ pc' = "flush" /\ pc = "writing"
        /\ UNCHANGED <<lines, log, written, truncated, failed, files, pruner, reader>>
    BY <1>0, <1>3, FlushQueue DEF Flush
  <2>2. \A s \in Streams : buf'[s] <= Column(s)'
    BY <1>0, <2>1, OpenLine DEF Column, Open
  <2>3. QED BY <1>0, <2>1, <2>2 DEF TypeOK, files, Alive
<1>4. CASE StoreOutcome
  <2>1. truncated \in BOOLEAN /\ failed' \in BOOLEAN
    BY <1>0, <1>4 DEF TypeOK, StoreOutcome
  <2>2. meta' \in [status : {"running", "finished"}, truncated : BOOLEAN]
    BY <1>0, <1>4, <2>1 DEF TypeOK, StoreOutcome, Outcome
  <2>3. QED BY <1>0, <1>4, <2>1, <2>2 DEF TypeOK, StoreOutcome, capture, Alive, Column, Open
<1>5. CASE Release
  BY <1>0, <1>5 DEF TypeOK, Release, capture, Alive, Column, Open
<1>6. CASE Crash
  <2>1. <<>> \in Seq(Stretches)
    OBVIOUS
  <2>2. QED BY <1>0, <1>6, <2>1 DEF TypeOK, Crash, Alive, Column, Open
<1>7. CASE Prune
  BY <1>0, <1>7 DEF TypeOK, Prune, PrunerProbes, PrunerUnprobes, PrunerDeletes, capture, Alive, Column, Open, IInv, Closing
<1>8. ASSUME NEW x \in Readers, Get(x) \/ Read(x) PROVE TypeOK'
  <2>1. reader' \in [Readers -> ReaderStates]
    BY <1>0, <1>8, ReaderType
  <2>2. QED BY <1>0, <1>8, <2>1, ReaderFrame DEF TypeOK, capture, Alive, Column, Open
<1>9. QED BY <1>1, <1>2, <1>3, <1>4, <1>5, <1>6, <1>7, <1>8 DEF Next, Capture, Close

-----------------------------------------------------------------------------
(* The end of the recording, and the readers *)

\* Outcome and pruning come when the recorder has nothing more to store.
LEMMA ClosingStep ==
    ASSUME IInv, Next
    PROVE  Closing'
<1> USE NamesAssumption
<1>0. TypeOK /\ Closing /\ Waiting
  BY DEF IInv
<1>1. ASSUME NEW s \in Streams, NEW text \in Texts, Write(s, text) PROVE Closing'
  BY <1>0, <1>1 DEF Write, Closing, files, Alive
<1>2. CASE StoreRecord \/ StoreFails
  BY <1>0, <1>2, StoreCases DEF Closing, files, Alive, TypeOK
<1>3. CASE Flush
  BY <1>0, <1>3 DEF Flush, Closing, files, Alive
<1>4. CASE StoreOutcome
  BY <1>0, <1>4 DEF StoreOutcome, Outcome, Closing, capture, Alive
<1>5. CASE Release \/ Crash
  BY <1>0, <1>5 DEF Release, Crash, Closing, capture, Alive
<1>6. CASE Prune
  BY <1>0, <1>6 DEF Prune, PrunerProbes, PrunerUnprobes, PrunerDeletes, Closing, capture, Alive, TypeOK
<1>7. ASSUME NEW x \in Readers, Get(x) \/ Read(x) PROVE Closing'
  BY <1>0, <1>7, ReaderFrame DEF Closing, capture, Alive
<1>8. QED BY <1>1, <1>2, <1>3, <1>4, <1>5, <1>6, <1>7 DEF Next, Capture, Close

\* A step of the recorder or the pruner proves no reader wrong.
LEMMA Undisturbed ==
    ASSUME TypeOK, Readings, reader' = reader, Alive' => Alive,
           ~Alive => log' = log /\ meta' = meta,
           meta.status = "finished" => log' = log /\ meta'.status = "finished"
    PROVE  Readings'
<1> SUFFICES ASSUME NEW x \in Readers PROVE Truthful(reader[x])' /\ Complete(reader[x])'
  BY DEF Readings
<1>1. Truthful(reader[x]) /\ Complete(reader[x])
  BY DEF Readings
<1>2. Truthful(reader[x])'
  BY <1>1 DEF Truthful
<1>3. Complete(reader[x])'
  BY <1>1 DEF Complete, Truthful
<1>4. QED BY <1>2, <1>3

\* No step of a reader makes it say what is not so.
LEMMA ReaderTruthful ==
    ASSUME IInv, NEW x \in Readers, Get(x) \/ Read(x)
    PROVE  Readings'
<1> USE NamesAssumption, SizeAssumption
<1>0. TypeOK /\ Closing /\ Readings /\ Logged
  BY DEF IInv
<1>1. log' = log /\ meta' = meta /\ Alive' = Alive /\ stored' = stored
  BY ReaderFrame DEF capture, Alive
<1>2. ASSUME NEW y \in Readers, y # x PROVE reader'[y] = reader[y]
  BY <1>0, <1>2 DEF Get, Read, ReadMeta, Probe, ProbeMissing, ProbeLocked, ProbeFree, Unprobe,
                    ReadMetaAgain, OpenOutput, WriteTail, Copy, Set, TypeOK
<1>3. ASSUME NEW y \in Readers, y # x PROVE Truthful(reader[y])' /\ Complete(reader[y])'
  BY <1>0, <1>1, <1>2, <1>3 DEF Readings, Truthful, Complete
<1> DEFINE R == reader[x]
<1>4. R \in ReaderStates /\ Truthful(R) /\ Complete(R) /\ reader \in [Readers -> ReaderStates]
  BY <1>0 DEF TypeOK, Readings
<1>5. \A r : Set(x, r) => reader'[x] = r
  BY <1>4 DEF Set
<1>6. ASSUME NEW r, Set(x, r), Truthful(r), Complete(r) PROVE Readings'
  <2>1. reader'[x] = r
    BY <1>5, <1>6
  <2>2. Truthful(reader[x])' /\ Complete(reader[x])'
    BY <1>1, <1>6, <2>1 DEF Truthful, Complete
  <2>3. QED BY <1>3, <2>2 DEF Readings
<1> HIDE DEF R
<1>7. CASE Get(x)
  <2> DEFINE r == [R EXCEPT !.pc = "meta"]
  <2>1. R.pc = "idle" /\ Set(x, r)
    BY <1>7 DEF Get, R
  <2>2. Truthful(r) /\ Complete(r)
    BY <1>4, <2>1 DEF Truthful, Complete, ReaderStates
  <2>3. QED BY <1>6, <2>1, <2>2
<1>8. CASE ReadMeta(x)
  <2> DEFINE r == [R EXCEPT !.alive = Alive, !.status = "none"]
  <2>1. R.pc = "meta"
    BY <1>8 DEF ReadMeta, R
  <2>2. CASE Set(x, Failed(r, "gone"))
    <3>1. Truthful(Failed(r, "gone")) /\ Complete(Failed(r, "gone"))
      BY <1>4, <2>1 DEF Failed, Truthful, Complete, ReaderStates
    <3>2. QED BY <1>6, <2>2, <3>1
  <2>3. CASE Set(x, Answered(r, "finished")) /\ meta.status = "finished"
    <3>1. Truthful(Answered(r, "finished")) /\ Complete(Answered(r, "finished"))
      BY <1>4, <2>1, <2>3 DEF Answered, Truthful, Complete, ReaderStates
    <3>2. QED BY <1>6, <2>3, <3>1
  <2>4. CASE Set(x, [r EXCEPT !.pc = "probe"])
    <3>1. Truthful([r EXCEPT !.pc = "probe"]) /\ Complete([r EXCEPT !.pc = "probe"])
      BY <1>4, <2>1 DEF Alive, Truthful, Complete, ReaderStates
    <3>2. QED BY <1>6, <2>4, <3>1
  <2>5. QED BY <1>8, <2>2, <2>3, <2>4 DEF ReadMeta, R
<1>9. CASE (ProbeMissing(x) \/ Unprobe(x)) /\ ~Alive
  <2>1. R.pc \in {"probe", "poll", "unprobe", "unpoll"}
    BY <1>9 DEF ProbeMissing, Unprobe, R
  <2>2. CASE Set(x, [R EXCEPT !.pc = "reread"]) /\ R.pc \in {"probe", "unprobe"}
    <3>1. Truthful([R EXCEPT !.pc = "reread"]) /\ Complete([R EXCEPT !.pc = "reread"])
      BY <1>4, <1>9, <2>2 DEF Truthful, Complete, ReaderStates
    <3>2. QED BY <1>6, <2>2, <3>1
  <2>3. CASE Set(x, [R EXCEPT !.pc = "copy", !.live = FALSE]) /\ R.pc \in {"poll", "unpoll"}
    <3>1. Truthful([R EXCEPT !.pc = "copy", !.live = FALSE]) /\ Complete([R EXCEPT !.pc = "copy", !.live = FALSE])
      BY <1>4, <1>9, <2>3 DEF Truthful, Complete, ReaderStates
    <3>2. QED BY <1>6, <2>3, <3>1
  <2>4. QED BY <1>9, <2>1, <2>2, <2>3 DEF ProbeMissing, Unprobe, R
<1>10. CASE ProbeLocked(x)
  <2>1. CASE R.pc = "probe" /\ Set(x, [Answered(R, "running") EXCEPT !.contested = (owner # Recorder)])
    <3> DEFINE r == [Answered(R, "running") EXCEPT !.contested = (owner # Recorder)]
    <3>1. owner = Recorder => R.alive
      BY <1>0, <1>4, <2>1 DEF TypeOK, Truthful, Complete, ReaderStates
    <3>2. /\ r.pc = (IF R.final THEN "done" ELSE "open") /\ r.final = R.final /\ r.status = "running"
          /\ r.alive = R.alive /\ r.contested = (owner # Recorder) /\ r.live = R.live /\ r.pos = R.pos
      BY <1>4 DEF Answered, Truthful, Complete, ReaderStates
    <3>6. r.alive \/ r.contested
      <4>1. CASE owner = Recorder
        BY <3>1, <3>2, <4>1
      <4>2. CASE owner # Recorder
        BY <3>2, <4>2
      <4>3. QED BY <4>1, <4>2
    <3> HIDE DEF r
    <3>3. Truthful(r)
      BY <1>4, <2>1, <3>2, <3>6 DEF Truthful
    <3>4. Complete(r)
      BY <1>4, <2>1, <3>2 DEF Complete
    <3>5. QED BY <1>6, <2>1, <3>3, <3>4 DEF r
  <2>2. CASE R.pc = "poll" /\ Set(x, [R EXCEPT !.pc = "copy", !.live = TRUE])
    <3>1. Truthful([R EXCEPT !.pc = "copy", !.live = TRUE]) /\ Complete([R EXCEPT !.pc = "copy", !.live = TRUE])
      BY <1>4, <2>2 DEF Truthful, Complete, ReaderStates
    <3>2. QED BY <1>6, <2>2, <3>1
  <2>3. QED BY <1>10, <2>1, <2>2 DEF ProbeLocked, R
<1>11. CASE ProbeFree(x)
  <2>0. ~Alive
    BY <1>0, <1>11 DEF ProbeFree, TypeOK
  <2>1. CASE R.pc = "probe" /\ Set(x, [R EXCEPT !.pc = "unprobe"])
    <3>1. Truthful([R EXCEPT !.pc = "unprobe"]) /\ Complete([R EXCEPT !.pc = "unprobe"])
      BY <1>4, <2>0, <2>1 DEF Truthful, Complete, ReaderStates
    <3>2. QED BY <1>6, <2>1, <3>1
  <2>2. CASE R.pc = "poll" /\ Set(x, [R EXCEPT !.pc = "unpoll"])
    <3>1. Truthful([R EXCEPT !.pc = "unpoll"]) /\ Complete([R EXCEPT !.pc = "unpoll"])
      BY <1>4, <2>0, <2>2 DEF Truthful, Complete, ReaderStates
    <3>2. QED BY <1>6, <2>2, <3>1
  <2>3. QED BY <1>11, <2>1, <2>2 DEF ProbeFree, R
<1>12. CASE ReadMetaAgain(x)
  <2>1. R.pc = "reread" /\ ~Alive
    BY <1>4, <1>12 DEF ReadMetaAgain, R, Truthful
  <2>2. CASE Set(x, Answered(R, Verdict))
    <3>1. \/ Verdict = "finished" /\ meta.status = "finished"
          \/ Verdict = "interrupted" /\ meta.status = "running"
      BY <1>0 DEF Verdict, TypeOK
    <3> DEFINE r == Answered(R, Verdict)
    <3>2. /\ r.pc = (IF R.final THEN "done" ELSE "open") /\ r.final = R.final /\ r.status = Verdict
          /\ r.alive = R.alive /\ r.contested = R.contested /\ r.live = R.live /\ r.pos = R.pos
      BY <1>4 DEF Answered, Truthful, Complete, ReaderStates
    <3>3. Truthful(r) /\ Complete(r)
      BY <1>4, <2>1, <3>1, <3>2 DEF Truthful, Complete, ReaderStates
    <3>4. QED BY <1>6, <2>2, <3>3
  <2>3. CASE Set(x, Failed(R, "gone"))
    <3>1. Truthful(Failed(R, "gone")) /\ Complete(Failed(R, "gone"))
      BY <1>4, <2>1 DEF Failed, Truthful, Complete, ReaderStates
    <3>2. QED BY <1>6, <2>3, <3>1
  <2>4. QED BY <1>12, <2>2, <2>3 DEF ReadMetaAgain, R
<1>13. CASE OpenOutput(x)
  <2>1. R.pc = "open"
    BY <1>13 DEF OpenOutput, R
  <2>2. CASE Set(x, [R EXCEPT !.pc = "tail"])
    <3>1. Truthful([R EXCEPT !.pc = "tail"]) /\ Complete([R EXCEPT !.pc = "tail"])
      BY <1>4, <2>1 DEF Truthful, Complete, ReaderStates
    <3>2. QED BY <1>6, <2>2, <3>1
  <2>3. CASE Set(x, Failed(R, "gone"))
    <3>1. Truthful(Failed(R, "gone")) /\ Complete(Failed(R, "gone"))
      BY <1>4, <2>1 DEF Failed, Truthful, Complete, ReaderStates
    <3>2. QED BY <1>6, <2>3, <3>1
  <2>4. QED BY <1>13, <2>2, <2>3 DEF OpenOutput, R
<1>14. CASE WriteTail(x)
  <2>1. R.pc = "tail"
    BY <1>14 DEF WriteTail, R
  <2>2. ASSUME NEW i \in DOMAIN log PROVE ~(Size(log[i]) > ScanBuffer)
    <3>1. log[i] \in Entries /\ Length(log[i]) <= MaxPartialLine
      BY <1>0, ElementOfSeq DEF TypeOK, Logged
    <3>2. Length(log[i]) \in Int
      BY <3>1 DEF Length, Entries
    <3>3. QED BY <3>1, <3>2 DEF Size, ScanBuffer
  <2>3. CASE Set(x, [Fresh EXCEPT !.pc = "poll", !.pos = Len(log)])
    <3>1. Truthful([Fresh EXCEPT !.pc = "poll", !.pos = Len(log)])
          /\ Complete([Fresh EXCEPT !.pc = "poll", !.pos = Len(log)])
      BY <1>0 DEF Fresh, Truthful, Complete, ReaderStates
    <3>2. QED BY <1>6, <2>3, <3>1
  <2>4. CASE Set(x, [R EXCEPT !.pc = "done", !.pos = Len(log)])
    <3>1. Truthful([R EXCEPT !.pc = "done", !.pos = Len(log)])
          /\ Complete([R EXCEPT !.pc = "done", !.pos = Len(log)])
      BY <1>4, <2>1 DEF Truthful, Complete, ReaderStates
    <3>2. QED BY <1>6, <2>4, <3>1
  <2>5. QED BY <1>14, <2>2, <2>3, <2>4 DEF WriteTail, R
<1>15. CASE Copy(x)
  <2> DEFINE r == [R EXCEPT !.pos = Copied(x)]
  <2>1. R.pc = "copy" /\ r.pos = Len(log)
    BY <1>4, <1>15 DEF Copy, R, Copied
  <2>2. CASE r.live /\ Set(x, [r EXCEPT !.pc = "poll"])
    <3>1. Truthful([r EXCEPT !.pc = "poll"]) /\ Complete([r EXCEPT !.pc = "poll"])
      BY <1>4, <2>1, <2>2 DEF Truthful, Complete, ReaderStates
    <3>2. QED BY <1>6, <2>2, <3>1
  <2>3. CASE r.live /\ Set(x, Failed(r, "cancelled"))
    <3>1. Truthful(Failed(r, "cancelled")) /\ Complete(Failed(r, "cancelled"))
      BY <1>4, <2>1, <2>3 DEF Failed, Truthful, Complete, ReaderStates
    <3>2. QED BY <1>6, <2>3, <3>1
  <2>4. CASE ~r.live /\ Set(x, [r EXCEPT !.pc = "meta", !.final = TRUE])
    <3>1. Truthful([r EXCEPT !.pc = "meta", !.final = TRUE]) /\ Complete([r EXCEPT !.pc = "meta", !.final = TRUE])
      BY <1>4, <2>1, <2>4 DEF Truthful, Complete, ReaderStates
    <3>2. QED BY <1>6, <2>4, <3>1
  <2>5. QED BY <1>15, <2>2, <2>3, <2>4 DEF Copy, R
<1>16. CASE (ProbeMissing(x) \/ Unprobe(x)) /\ Alive
  BY <1>0, <1>4, <1>16 DEF ProbeMissing, Unprobe, R, Closing, Truthful
<1>17. QED
  BY <1>7, <1>8, <1>9, <1>10, <1>11, <1>12, <1>13, <1>14, <1>15, <1>16 DEF Read, Probe

\* Every step leaves each reader with what is true.
LEMMA ReadingsStep ==
    ASSUME IInv, Next
    PROVE  Readings'
<1> USE NamesAssumption
<1>0. TypeOK /\ Closing /\ Readings /\ Waiting
  BY DEF IInv
<1>1. ASSUME NEW s \in Streams, NEW text \in Texts, Write(s, text) PROVE Readings'
  BY <1>0, <1>1, Undisturbed DEF Write, files, Alive, Closing
<1>2. CASE StoreRecord \/ StoreFails
  BY <1>0, <1>2, StoreCases, Undisturbed DEF files, Alive, Closing
<1>3. CASE Flush
  BY <1>0, <1>3, Undisturbed DEF Flush, files, Alive
<1>4. CASE StoreOutcome
  BY <1>0, <1>4, Undisturbed DEF StoreOutcome, Outcome, capture, Alive, Closing
<1>5. CASE Release \/ Crash
  BY <1>0, <1>5, Undisturbed DEF Release, Crash, capture, Alive
<1>6. CASE Prune
  BY <1>0, <1>6, Undisturbed DEF Prune, PrunerProbes, PrunerUnprobes, PrunerDeletes, capture, Alive
<1>7. ASSUME NEW x \in Readers, Get(x) \/ Read(x) PROVE Readings'
  BY <1>7, ReaderTruthful
<1>8. QED BY <1>1, <1>2, <1>3, <1>4, <1>5, <1>6, <1>7 DEF Next, Capture, Close

-----------------------------------------------------------------------------
(* The log *)

\* A line that has ended stays as it is, and the open line only grows.
LEMMA LinesGrow ==
    ASSUME TypeOK, NEW s \in Streams, NEW text \in Texts, Write(s, text),
           NEW t \in Streams, NEW k \in 1..Open(t)
    PROVE  /\ lines'[t][k] \in Nat /\ lines[t][k] \in Nat /\ lines'[t][k] >= lines[t][k]
           /\ k < Open(t) => lines'[t][k] = lines[t][k]
           /\ Open(t)' >= Open(t) /\ Open(t)' \in Nat /\ Open(t) \in Nat
<1>1. Open(t) \in Nat \ {0} /\ Column(t) \in Nat /\ \A i \in 1..Open(t) : lines[t][i] \in Nat
  BY OpenLine
<1>2. CASE t # s
  <2>1. lines'[t] = lines[t]
    BY <1>2, Written
  <2>2. Open(t)' = Open(t)
    BY <2>1 DEF Open
  <2>3. QED BY <1>1, <2>1, <2>2
<1>3. CASE t = s
  <2>1. Len(text) \in Nat \ {0} /\ \A i \in 1..Len(text) : text[i] \in Nat
    BY TextType
  <2>2. text[1] \in Nat
    BY <2>1
  <2>3. Open(s)' = Open(s) + Len(text) - 1
    BY Written
  <2>4. CASE k = Open(t)
    <3>1. lines'[s][Open(s)] = Column(s) + text[1]
      BY Written
    <3>2. lines[s][Open(s)] = Column(s)
      BY DEF Column
    <3>3. QED BY <1>1, <1>3, <2>1, <2>2, <2>3, <2>4, <3>1, <3>2
  <2>5. CASE k # Open(t)
    <3>1. k \in 1..(Open(s) - 1)
      BY <1>1, <1>3, <2>5
    <3>2. lines'[s][k] = lines[s][k]
      BY <3>1, Written
    <3>3. QED BY <1>1, <1>3, <2>1, <2>3, <3>1, <3>2
  <2>6. QED BY <2>4, <2>5
<1>4. QED BY <1>2, <1>3

\* What was a stretch of the output stays one.
LEMMA StretchOn ==
    ASSUME TypeOK, NEW s \in Streams, NEW text \in Texts, Write(s, text),
           NEW q \in Entries, q.stream \in Streams, Stretch(q)
    PROVE  Stretch(q)'
<1>1. q.line \in 1..Open(q.stream) /\ q.from <= q.to /\ q.to <= lines[q.stream][q.line]
      /\ q.line \in Nat /\ q.from \in Nat /\ q.to \in Nat
  BY DEF Stretch, Entries
<1>2. /\ lines'[q.stream][q.line] \in Nat /\ lines[q.stream][q.line] \in Nat
      /\ lines'[q.stream][q.line] >= lines[q.stream][q.line]
      /\ Open(q.stream)' >= Open(q.stream) /\ Open(q.stream)' \in Nat /\ Open(q.stream) \in Nat
  BY <1>1, LinesGrow
<1>3. q.line \in 1..Open(q.stream)' /\ q.to <= lines'[q.stream][q.line]
  BY <1>1, <1>2
<1>4. QED BY <1>1, <1>3 DEF Stretch

\* An entry more, and none changed.
LEMMA Appended ==
    ASSUME log \in Seq(Entries), NEW e \in Entries, log' = Append(log, e)
    PROVE  /\ Len(log) \in Nat /\ Len(log') = Len(log) + 1 /\ DOMAIN log' = DOMAIN log \union {Len(log) + 1}
           /\ DOMAIN log = 1..Len(log)
           /\ log'[Len(log) + 1] = e /\ \A i \in DOMAIN log : log'[i] = log[i]
OBVIOUS

\* The record of the queue's head.
LEMMA HeadRecord ==
    ASSUME TypeOK, Waiting, StoreRecord \/ StoreFails
    PROVE  /\ NextRecord \in Stretches /\ Stretch(NextRecord) /\ NextRecord.stream = queue[1].stream
           /\ NextRecord.line = queue[1].line /\ NextRecord.from = queue[1].from
           /\ Length(NextRecord) \in Nat /\ Length(NextRecord) <= MaxPartialLine /\ Size(NextRecord) \in Nat
<1> DEFINE h == queue[1]
<1>1. h \in Stretches /\ Stretch(h) /\ h.from <= h.to
  BY StoreCases DEF Stretch
<1>2. /\ Chunk(h) \in Stretches /\ Chunk(h).stream = h.stream /\ Chunk(h).line = h.line
      /\ Chunk(h).from = h.from /\ h.from <= Chunk(h).to /\ Chunk(h).to <= h.to
      /\ Length(Chunk(h)) \in Nat /\ Length(Chunk(h)) <= MaxPartialLine
  BY <1>1, Chunked
<1>3. h.stream \in Streams /\ h.line \in 1..Open(h.stream) /\ h.to <= lines[h.stream][h.line]
  BY <1>1 DEF Stretch, Stretches
<1>4. lines[h.stream][h.line] \in Nat
  BY <1>3, OpenLine
<1>5. Stretch(Chunk(h))
  BY <1>1, <1>2, <1>3, <1>4 DEF Stretch, Stretches
<1>6. Size(Chunk(h)) \in Nat
  BY <1>2, SizeAssumption DEF Size
<1>7. QED BY <1>1, <1>2, <1>5, <1>6 DEF NextRecord

\* Every step keeps what is in the log within its limits.
LEMMA LoggedStep ==
    ASSUME IInv, Next
    PROVE  Logged'
<1> USE SizeAssumption
<1>0. TypeOK /\ Waiting /\ Logged /\ log \in Seq(Entries)
  BY DEF IInv, TypeOK
<1>1. ASSUME NEW s \in Streams, NEW text \in Texts, Write(s, text) PROVE Logged'
  <2>1. UNCHANGED <<log, written, truncated, failed>>
    BY <1>1 DEF Write
  <2>2. ASSUME NEW i \in DOMAIN log, log[i].stream \in Streams PROVE Stretch(log[i])'
    <3>1. log[i] \in Entries /\ Stretch(log[i])
      BY <1>0, <2>2, ElementOfSeq DEF Logged
    <3>2. \A q \in Entries : q.stream \in Streams /\ Stretch(q) => Stretch(q)'
      BY <1>0, <1>1, StretchOn
    <3>3. QED BY <2>1, <2>2, <3>1, <3>2 DEF Stretch
  <2>3. QED BY <1>0, <2>1, <2>2 DEF Logged
<1>2. CASE StoreRecord \/ StoreFails
  <2>1. UNCHANGED lines /\ (log' = log \/ ~Silenced)
    BY <1>0, <1>2, StoreCases
  <2>2. \A q : Stretch(q)' <=> Stretch(q)
    BY <2>1 DEF Stretch, Open
  <2>3. /\ Notice \in Entries /\ NextRecord \in Entries /\ Torn(NextRecord) \in Entries
        /\ Torn(NextRecord).stream = "torn" /\ Notice.stream = "notice" /\ NextRecord.stream \in Streams
        /\ Length(Notice) <= MaxPartialLine /\ Length(Torn(NextRecord)) <= MaxPartialLine
        /\ Notice # NextRecord /\ Notice # Torn(NextRecord)
    BY SMTT(30), <1>0, <1>2, HeadRecord DEF Notice, Torn, Entries, Stretches, Length, Streams
  <2>4. CASE UNCHANGED <<log, written, truncated, failed>>
    BY <1>0, <2>2, <2>4 DEF Logged
  <2>5. ASSUME ~Silenced PROVE \A i \in DOMAIN log : log[i] # Notice
    BY <1>0, <2>5 DEF Logged, Silenced
  <2>10. CASE ~Silenced /\ failed' = TRUE /\ log' = log /\ UNCHANGED written
    BY <1>0, <2>2, <2>5, <2>10 DEF Logged
  <2>6. CASE ~Silenced /\ Exceeds(NextRecord) /\ log' = Append(log, Notice) /\ truncated' = TRUE /\ UNCHANGED <<written, failed>>
    <3>1. \E i \in DOMAIN log' : log'[i] = Notice
      BY <1>0, <2>3, <2>6, Appended
    <3>2. /\ \A i \in DOMAIN log' : Length(log'[i]) <= MaxPartialLine
          /\ \A i \in DOMAIN log' : log'[i].stream \in Streams => Stretch(log'[i])
      BY <1>0, <2>3, <2>6, Appended DEF Logged, Streams
    <3>3. \A i \in DOMAIN log' : log'[i] = Notice => i = Len(log')
      BY <1>0, <2>3, <2>5, <2>6, Appended
    <3>4. QED BY <1>0, <2>2, <2>6, <3>1, <3>2, <3>3 DEF Logged
  <2>7. CASE /\ ~Silenced /\ ~Exceeds(NextRecord) /\ log' = Append(log, NextRecord)
             /\ written' = written + Size(NextRecord) /\ UNCHANGED <<truncated, failed>>
    <3>1. MaxOutput > 0 => written' <= MaxOutput
      <4>1. written \in Nat /\ Size(NextRecord) \in Nat
        BY <1>0, <1>2, HeadRecord DEF TypeOK
      <4>2. QED BY <2>7, <4>1 DEF Exceeds
    <3>2. Length(NextRecord) <= MaxPartialLine /\ Stretch(NextRecord)
      BY <1>0, <1>2, HeadRecord
    <3>3. ~truncated' /\ ~failed'
      BY <2>7 DEF Silenced
    <3>4. QED BY <1>0, <2>2, <2>3, <2>5, <2>7, <3>1, <3>2, <3>3, Appended DEF Logged
  <2>8. CASE /\ ~Silenced /\ failed' = TRUE /\ log' = Append(log, Torn(NextRecord)) /\ UNCHANGED written
    BY <1>0, <2>2, <2>3, <2>5, <2>8, Appended DEF Logged, Streams
  <2>9. QED BY <1>0, <1>2, <2>4, <2>6, <2>7, <2>8, <2>10, StoreCases
<1>3. CASE UNCHANGED <<lines, log, written, truncated>> /\ (failed' = failed \/ failed' = TRUE)
  BY <1>0, <1>3 DEF Logged, Stretch, Open
<1>4. CASE Close \/ Crash \/ Prune \/ \E x \in Readers : Get(x) \/ Read(x)
  <2>1. UNCHANGED <<lines, log, written, truncated>> /\ (failed' = failed \/ failed' = TRUE)
    BY <1>4, ReaderFrame DEF Close, Flush, StoreOutcome, Release, Crash, Prune, PrunerProbes,
       PrunerUnprobes, PrunerDeletes, capture
  <2>2. QED BY <1>3, <2>1
<1>5. QED BY <1>1, <1>2, <1>4 DEF Next, Capture

-----------------------------------------------------------------------------
(* What waits to be stored *)

\* The steps that leave the output alone.
LEMMA OtherSteps ==
    ASSUME TypeOK, Closing,
           StoreOutcome \/ Release \/ Crash \/ Prune \/ \E x \in Readers : Get(x) \/ Read(x)
    PROVE  /\ UNCHANGED <<lines, buf, log, written, truncated>>
           /\ \/ queue' = queue /\ pc' = pc /\ UNCHANGED <<failed, meta>>
              \/ /\ queue' = <<>> /\ pc' \notin {"writing", "flush"}
                 /\ \/ pc # "dead" /\ pc' = "dead" /\ UNCHANGED <<failed, meta>>
                    \/ queue = <<>> /\ pc \in {"flush", "release"} /\ pc' \notin {"dead"}
                       /\ (failed' = failed \/ failed' = TRUE)
<1>1. CASE StoreOutcome
  BY <1>1 DEF StoreOutcome, capture
<1>2. CASE Release
  BY <1>2 DEF Release, Closing, capture
<1>3. CASE Crash
  BY <1>3 DEF Crash
<1>4. CASE Prune
  BY <1>4 DEF Prune, PrunerProbes, PrunerUnprobes, PrunerDeletes, capture
<1>5. CASE \E x \in Readers : Get(x) \/ Read(x)
  BY <1>5, ReaderFrame DEF capture
<1>6. QED BY <1>1, <1>2, <1>3, <1>4, <1>5

\* What a write leaves to be stored are stretches of the output, one line after
\* the other.
LEMMA WriteWaiting ==
    ASSUME TypeOK, NEW s \in Streams, NEW text \in Texts, Write(s, text)
    PROVE  Waiting'
<1> DEFINE n == Len(text)
<1>1. n \in Nat \ {0} /\ \A i \in 1..n : text[i] \in Nat
  BY TextType
<1>2. Open(s) \in Nat \ {0} /\ Column(s) \in Nat /\ buf[s] \in Nat /\ buf[s] <= Column(s)
  BY OpenLine
<1>3. queue' \in Seq(Stretches) /\ Len(queue') \in Nat /\ Len(queue') <= n /\ DOMAIN queue' = 1..Len(queue')
  BY <1>1, WrittenQueue
<1>4. ASSUME NEW i \in DOMAIN queue'
      PROVE  /\ queue'[i].stream = s /\ queue'[i].line = Open(s) + i - 1
             /\ queue'[i].line \in 1..Open(s)'
             /\ queue'[i].from <= queue'[i].to /\ queue'[i].to = lines'[s][queue'[i].line]
             /\ queue'[i].to \in Nat /\ (i # 1 => queue'[i].from = 0)
  <2>1. i \in Nat \ {0} /\ i <= n /\ i \in 1..Len(queue')
    BY <1>3, <1>1
  <2>2. queue'[i].stream = s /\ queue'[i].line = Open(s) + i - 1
    BY <2>1, WrittenQueue
  <2>3. Open(s)' = Open(s) + n - 1
    BY Written
  <2>4. queue'[i].line \in 1..Open(s)'
    BY <1>1, <1>2, <2>1, <2>2, <2>3
  <2>5. CASE i = 1
    <3>1. queue'[i].from = Column(s) - buf[s] /\ queue'[i].to = Column(s) + text[1] /\ text[1] \in Nat
      BY <1>1, <2>1, <2>5, WrittenQueue
    <3>2. queue'[i].line = Open(s)
      BY <1>2, <2>2, <2>5
    <3>3. lines'[s][Open(s)] = Column(s) + text[1]
      BY Written
    <3>4. QED BY <1>2, <2>2, <2>4, <2>5, <3>1, <3>2, <3>3
  <2>6. CASE i # 1
    <3>1. queue'[i].from = 0 /\ queue'[i].to = text[i] /\ text[i] \in Nat
      BY <1>1, <2>1, <2>6, WrittenQueue
    <3>2. i \in 2..n
      BY <1>1, <2>1, <2>6
    <3>3. lines'[s][Open(s) + i - 1] = text[i]
      BY <3>2, Written
    <3>4. QED BY <2>2, <2>4, <2>6, <3>1, <3>3
  <2>7. QED BY <2>5, <2>6
<1>5. ASSUME NEW i \in DOMAIN queue'
      PROVE  Stretch(queue[i])' /\ queue'[i].to = lines'[queue'[i].stream][queue'[i].line]
  <2>0. queue'[i] \in Stretches
    BY <1>3, ElementOfSeq
  <2>1. queue'[i].from \in Nat
    BY <2>0 DEF Stretches
  <2>2. QED BY <1>4, <2>1 DEF Stretch
<1>6. ASSUME NEW i \in DOMAIN queue', Follows(i)'
      PROVE  queue'[i].line = queue'[i - 1].line + 1 /\ queue'[i].from = 0
  <2>1. i - 1 \in DOMAIN queue' /\ i # 1 /\ i \in Nat
    BY <1>3, <1>6 DEF Follows
  <2>2. queue'[i].line = Open(s) + i - 1 /\ queue'[i - 1].line = Open(s) + (i - 1) - 1 /\ queue'[i].from = 0
    BY <1>4, <2>1
  <2>3. QED BY <1>2, <2>1, <2>2
<1>7. \A i, j \in DOMAIN queue' : queue'[i].stream = queue'[j].stream
  BY <1>4
<1>8. QED BY <1>5, <1>6, <1>7 DEF Waiting

\* So is what is left of the queue when its head is stored, ...
LEMMA StoreWaiting ==
    ASSUME TypeOK, Waiting, StoreRecord \/ StoreFails
    PROVE  Waiting'
<1>1. /\ queue # <<>> /\ queue \in Seq(Stretches) /\ queue' \in Seq(Stretches)
      /\ UNCHANGED <<lines, pc>> /\ queue[1] \in Stretches /\ Stretch(queue[1])
  BY StoreCases DEF TypeOK
<1>2. \A q : Stretch(q)' <=> Stretch(q)
  BY <1>1 DEF Stretch, Open
<1>3. Len(queue) \in Nat \ {0} /\ DOMAIN queue = 1..Len(queue) /\ DOMAIN queue' = 1..Len(queue') /\ Len(queue') \in Nat
  BY <1>1
<1>4. CASE /\ Len(queue') = Len(queue) - 1
           /\ \A i \in 1..Len(queue') : queue'[i] = queue[i + 1]
  <2>1. ASSUME NEW i \in DOMAIN queue' PROVE i + 1 \in DOMAIN queue /\ queue'[i] = queue[i + 1]
    BY <1>3, <1>4
  <2>2. ASSUME NEW i \in DOMAIN queue'
        PROVE  Stretch(queue[i])' /\ queue'[i].to = lines'[queue'[i].stream][queue'[i].line]
    <3>1. Stretch(queue[i + 1]) /\ queue[i + 1].to = lines[queue[i + 1].stream][queue[i + 1].line]
      BY <2>1 DEF Waiting
    <3>2. Stretch(queue'[i])
      BY <2>1, <3>1
    <3>3. QED BY <1>1, <2>1, <3>1, <3>2 DEF Stretch, Open
  <2>3. ASSUME NEW i \in DOMAIN queue', Follows(i)'
        PROVE  queue'[i].line = queue'[i - 1].line + 1 /\ queue'[i].from = 0
    <3>1. i - 1 \in DOMAIN queue' /\ (i - 1) + 1 = i /\ (i + 1) - 1 = i /\ i + 1 > 1
      BY <1>3, <2>3 DEF Follows
    <3>2. queue'[i - 1] = queue[i] /\ queue'[i] = queue[i + 1]
      BY <2>1, <3>1
    <3>3. Follows(i + 1)
      BY <2>3, <3>1, <3>2 DEF Follows
    <3>4. queue[i + 1].line = queue[(i + 1) - 1].line + 1 /\ queue[i + 1].from = 0
      BY <2>1, <3>3 DEF Waiting
    <3>5. QED BY <3>1, <3>2, <3>4
  <2>4. ASSUME NEW i \in DOMAIN queue', NEW j \in DOMAIN queue', i < j, queue'[i].stream # queue'[j].stream
        PROVE  queue'[i].stream = "out" /\ pc' = "flush"
    <3>1. i + 1 \in DOMAIN queue /\ j + 1 \in DOMAIN queue /\ i + 1 < j + 1
      BY <1>3, <2>1, <2>4
    <3>2. QED BY <1>1, <2>1, <2>4, <3>1 DEF Waiting
  <2>5. QED BY <2>2, <2>3, <2>4 DEF Waiting
<1>5. CASE /\ Len(queue') = Len(queue) /\ queue'[1] = [queue[1] EXCEPT !.from = NextRecord.to]
           /\ queue[1].from + MaxPartialLine = NextRecord.to /\ NextRecord.to < queue[1].to
           /\ \A i \in 2..Len(queue') : queue'[i] = queue[i]
  <2>1. ASSUME NEW i \in DOMAIN queue'
        PROVE  /\ i \in DOMAIN queue /\ queue'[i].stream = queue[i].stream /\ queue'[i].line = queue[i].line
               /\ queue'[i].to = queue[i].to /\ (i # 1 => queue'[i] = queue[i])
    <3>1. i \in DOMAIN queue /\ (i # 1 => i \in 2..Len(queue'))
      BY <1>3, <1>5
    <3>2. QED BY <1>1, <1>5, <3>1 DEF Stretches
  <2>2. ASSUME NEW i \in DOMAIN queue'
        PROVE  Stretch(queue[i])' /\ queue'[i].to = lines'[queue'[i].stream][queue'[i].line]
    <3>1. Stretch(queue[i]) /\ queue[i].to = lines[queue[i].stream][queue[i].line]
      BY <2>1 DEF Waiting
    <3>2. queue'[i].from <= queue'[i].to
      <4>1. CASE i = 1
        <5>1. NextRecord.to \in Nat /\ queue[1].to \in Nat
          BY HeadRecord, <1>1 DEF Stretches
        <5>2. queue'[1].from = NextRecord.to /\ queue'[1].to = queue[1].to
          BY <1>1, <1>5 DEF Stretches
        <5>3. NextRecord.to <= queue[1].to
          BY <1>5, <5>1
        <5>4. QED BY <4>1, <5>2, <5>3
      <4>2. QED BY <2>1, <3>1, <4>1 DEF Stretch
    <3>3. QED BY <1>1, <2>1, <3>1, <3>2 DEF Stretch, Open
  <2>3. ASSUME NEW i \in DOMAIN queue', Follows(i)'
        PROVE  queue'[i].line = queue'[i - 1].line + 1 /\ queue'[i].from = 0
    <3>1. i - 1 \in DOMAIN queue' /\ i # 1
      BY <1>3, <2>3 DEF Follows
    <3>2. Follows(i)
      BY <2>1, <2>3, <3>1 DEF Follows
    <3>3. QED BY <2>1, <3>1, <3>2 DEF Waiting
  <2>4. QED BY <1>1, <2>1, <2>2, <2>3 DEF Waiting
<1>6. QED BY <1>4, <1>5, StoreCases

\* ... and what a flush takes from the buffers.
LEMMA FlushWaiting ==
    ASSUME TypeOK, Flush
    PROVE  /\ Waiting'
           /\ \A i \in DOMAIN queue' : queue'[i].line = Open(queue'[i].stream)
           /\ \A i \in DOMAIN queue' : queue'[i] = Buffer(queue'[i].stream) /\ queue'[i].stream \in Streams
           /\ \A i \in DOMAIN queue' : buf[queue'[i].stream] > 0 /\ ~Follows(i)'
<1>1. pc' = "flush" /\ UNCHANGED <<lines, log>>
  BY DEF Flush
<1>2. \A s \in Streams : Buffer(s).stream = s /\ Buffer(s).line = Open(s) /\ Buffer(s).to = Column(s)
  BY DEF Buffer
<1>3. \A i \in DOMAIN queue' :
        /\ queue'[i].stream \in Streams /\ queue'[i] = Buffer(queue'[i].stream) /\ buf[queue'[i].stream] > 0
        /\ i \in {1, 2} /\ (i = 2 => queue'[1].stream = "out" /\ queue'[2].stream = "err")
  BY <1>2, FlushQueue DEF Streams
<1>4. \A i \in DOMAIN queue' : ~Follows(i)'
  BY <1>3 DEF Follows
<1>5. ASSUME NEW i \in DOMAIN queue'
      PROVE  Stretch(queue[i])' /\ queue'[i].to = lines'[queue'[i].stream][queue'[i].line]
  <2>1. Stretch(queue'[i])
    BY <1>3, FlushQueue
  <2>2. QED BY <1>1, <1>2, <1>3, <2>1 DEF Stretch, Open, Column
<1>6. \A i, j \in DOMAIN queue' : i < j /\ queue'[i].stream # queue'[j].stream => queue'[i].stream = "out"
  BY <1>3
<1>7. QED BY <1>1, <1>2, <1>3, <1>4, <1>5, <1>6 DEF Waiting

\* Every step keeps the queue in the order of the output.
LEMMA WaitingStep ==
    ASSUME IInv, Next
    PROVE  Waiting'
<1>0. TypeOK /\ Waiting /\ Closing
  BY DEF IInv
<1>1. ASSUME NEW s \in Streams, NEW text \in Texts, Write(s, text) PROVE Waiting'
  BY <1>0, <1>1, WriteWaiting
<1>2. CASE StoreRecord \/ StoreFails
  BY <1>0, <1>2, StoreWaiting
<1>3. CASE Flush
  BY <1>0, <1>3, FlushWaiting
<1>4. CASE StoreOutcome \/ Release \/ Crash \/ Prune \/ \E x \in Readers : Get(x) \/ Read(x)
  <2>1. CASE queue' = queue /\ pc' = pc /\ UNCHANGED lines
    BY <1>0, <2>1 DEF Waiting, Stretch, Open, Follows
  <2>2. CASE queue' = <<>>
    BY <2>2 DEF Waiting
  <2>3. QED BY <1>0, <1>4, <2>1, <2>2, OtherSteps
<1>5. QED BY <1>1, <1>2, <1>3, <1>4 DEF Next, Capture, Close

\* After a write the last line that waits is followed by what is buffered.
LEMMA WriteBuffering ==
    ASSUME TypeOK, NEW s \in Streams, NEW text \in Texts, Write(s, text)
    PROVE  Buffering'
<1> USE SizeAssumption
<1> DEFINE n == Len(text)
<1>0. PICK k : k = Len(queue')
  OBVIOUS
<1>1. n \in Nat \ {0} /\ (\A i \in 1..n : text[i] \in Nat) /\ pc' = "writing"
  BY TextType DEF Write
<1>2. Open(s) \in Nat \ {0} /\ Column(s) \in Nat /\ buf[s] \in Nat /\ buf[s] <= Column(s)
  BY OpenLine
<1>3. Open(s)' = Open(s) + n - 1 /\ Column(s)' \in Nat
      /\ (n = 1 => Column(s)' = Column(s) + text[1]) /\ (n # 1 => Column(s)' = text[n])
  BY Written, WrittenOpen
<1>4. k \in Nat /\ DOMAIN queue' = 1..k
  BY <1>0, WrittenQueue
<1>5. \A i \in DOMAIN queue' : queue'[i].stream = s /\ queue'[i].line = Open(s) + i - 1
  BY <1>0, <1>4, WrittenQueue
<1>6. ASSUME NEW i \in DOMAIN queue', i # k PROVE Follows(i + 1)'
  <2>1. i + 1 \in DOMAIN queue' /\ i + 1 > 1 /\ (i + 1) - 1 = i
    BY <1>4, <1>6
  <2>2. QED BY <1>5, <2>1 DEF Follows
<1>7. k # 0 => Precedes(queue[k], s)'
  <2> SUFFICES ASSUME k # 0 PROVE Precedes(queue[k], s)'
    OBVIOUS
  <2>1. k \in DOMAIN queue' /\ queue'[k].line = Open(s) + k - 1
    BY <1>4, <1>5
  <2> DEFINE B == Buffered(s, text, n)
  <2>2. /\ n = 1 => B.from = Column(s) - buf[s] /\ B.to = Column(s) + text[1]
        /\ n # 1 => B.from = 0 /\ B.to = text[n]
    BY DEF Buffered
  <2>3. B.to = Column(s)' /\ B.from \in Nat
    BY <1>1, <1>2, <1>3, <2>2
  <2>4. CASE k = n /\ buf'[s] = 0 /\ Length(B) >= MaxPartialLine
    <3>1. queue'[k].line = Open(s)'
      BY <1>2, <1>3, <2>1, <2>4
    <3>2. Column(s)' >= MaxPartialLine
      BY <1>3, <2>3, <2>4 DEF Length
    <3>3. QED BY <1>1, <2>4, <3>1, <3>2 DEF Precedes
  <2>5. CASE k = n - 1 /\ buf'[s] = Length(B)
    <3>1. n # 1 /\ queue'[k].line + 1 = Open(s)'
      BY <1>1, <1>2, <1>3, <1>4, <2>1, <2>5
    <3>2. buf'[s] = Column(s)'
      BY <1>3, <2>2, <2>3, <2>5, <3>1 DEF Length
    <3>3. QED BY <3>1, <3>2 DEF Precedes
  <2>6. QED BY <1>0, <2>4, <2>5, WrittenQueue
<1>8. ASSUME NEW i \in DOMAIN queue', i = k \/ ~Follows(i + 1)'
      PROVE  Precedes(queue[i], queue[i].stream)'
  <2>1. i = k /\ k # 0
    BY <1>4, <1>6, <1>8
  <2>2. queue'[i].stream = s
    BY <1>5
  <2>3. QED BY <1>7, <2>1, <2>2
<1>9. QED BY <1>0, <1>1, <1>8 DEF Buffering

\* So it is after any step.
LEMMA BufferingStep ==
    ASSUME IInv, Next
    PROVE  Buffering'
<1>0. TypeOK /\ Waiting /\ Buffering /\ Closing
  BY DEF IInv
<1>1. ASSUME NEW s \in Streams, NEW text \in Texts, Write(s, text) PROVE Buffering'
  BY <1>0, <1>1, WriteBuffering
<1>2. CASE StoreRecord \/ StoreFails
  <2>1. /\ queue # <<>> /\ queue \in Seq(Stretches) /\ queue' \in Seq(Stretches)
        /\ UNCHANGED <<lines, buf, pc>> /\ queue[1] \in Stretches
    BY <1>0, <1>2, StoreCases DEF TypeOK
  <2>2. Len(queue) \in Nat \ {0} /\ DOMAIN queue = 1..Len(queue) /\ DOMAIN queue' = 1..Len(queue') /\ Len(queue') \in Nat
    BY <2>1
  <2>3. \A q, t : Precedes(q, t)' <=> Precedes(q, t)
    BY <2>1 DEF Precedes, Open, Column
  <2>4. CASE /\ Len(queue') = Len(queue) - 1
             /\ \A i \in 1..Len(queue') : queue'[i] = queue[i + 1]
    <3>1. ASSUME NEW i \in DOMAIN queue', i = Len(queue') \/ ~Follows(i + 1)'
          PROVE  Precedes(queue[i], queue[i].stream)'
      <4>1. i + 1 \in DOMAIN queue /\ queue'[i] = queue[i + 1]
        BY <2>2, <2>4
      <4>2. i + 1 = Len(queue) \/ ~Follows((i + 1) + 1)
        <5> SUFFICES ASSUME i + 1 # Len(queue), Follows((i + 1) + 1) PROVE Follows(i + 1)' /\ i # Len(queue')
          BY <3>1
        <5>1. i # Len(queue') /\ i + 1 \in 1..Len(queue') /\ (i + 1) - 1 = i /\ ((i + 1) + 1) - 1 = i + 1
              /\ i + 1 > 1
          BY <2>2, <2>4
        <5>2. queue'[i + 1] = queue[(i + 1) + 1]
          BY <2>4, <5>1
        <5>3. QED BY <4>1, <5>1, <5>2 DEF Follows
      <4>3. Precedes(queue[i + 1], queue[i + 1].stream)
        BY <1>0, <4>1, <4>2 DEF Buffering
      <4>4. QED BY <2>1, <4>1, <4>3 DEF Precedes, Open, Column
    <3>2. QED BY <1>0, <2>1, <3>1 DEF Buffering
  <2>5. CASE /\ Len(queue') = Len(queue) /\ queue'[1] = [queue[1] EXCEPT !.from = NextRecord.to]
             /\ \A i \in 2..Len(queue') : queue'[i] = queue[i]
    <3>1. ASSUME NEW i \in DOMAIN queue'
          PROVE  i \in DOMAIN queue /\ queue'[i].stream = queue[i].stream /\ queue'[i].line = queue[i].line
      <4>1. i \in DOMAIN queue /\ (i # 1 => i \in 2..Len(queue'))
        BY <2>2, <2>5
      <4>2. QED BY <2>1, <2>5, <4>1 DEF Stretches
    <3>2. ASSUME NEW i \in DOMAIN queue', i = Len(queue') \/ ~Follows(i + 1)'
          PROVE  Precedes(queue[i], queue[i].stream)'
      <4>1. i = Len(queue) \/ ~Follows(i + 1)
        <5> SUFFICES ASSUME i # Len(queue), Follows(i + 1) PROVE Follows(i + 1)' /\ i # Len(queue')
          BY <3>2
        <5>1. i # Len(queue') /\ i + 1 \in DOMAIN queue' /\ (i + 1) - 1 = i
          BY <2>2, <2>5
        <5>2. QED BY <3>1, <5>1 DEF Follows
      <4>2. Precedes(queue[i], queue[i].stream)
        BY <1>0, <3>1, <4>1 DEF Buffering
      <4>3. QED BY <2>1, <3>1, <4>2 DEF Precedes, Open, Column
    <3>3. QED BY <1>0, <2>1, <3>2 DEF Buffering
  <2>6. QED BY <1>0, <1>2, <2>4, <2>5, StoreCases
<1>3. CASE Flush
  <2>1. buf' = [s \in Streams |-> 0] /\ pc' = "flush" /\ UNCHANGED lines
    BY <1>3 DEF Flush
  <2>2. ASSUME NEW i \in DOMAIN queue' PROVE Precedes(queue[i], queue[i].stream)'
    <3>1. queue'[i].stream \in Streams /\ queue'[i].line = Open(queue'[i].stream)
      BY <1>0, <1>3, FlushWaiting
    <3>2. QED BY <2>1, <3>1 DEF Precedes, Open
  <2>3. QED BY <2>1, <2>2 DEF Buffering
<1>4. CASE StoreOutcome \/ Release \/ Crash \/ Prune \/ \E x \in Readers : Get(x) \/ Read(x)
  <2>1. CASE queue' = queue /\ pc' = pc /\ UNCHANGED <<lines, buf>>
    BY <1>0, <2>1 DEF Buffering, Precedes, Open, Column, Follows
  <2>2. CASE queue' = <<>> /\ pc' \notin {"writing", "flush"}
    BY <2>2 DEF Buffering
  <2>3. QED BY <1>0, <1>4, <2>1, <2>2, OtherSteps
<1>5. QED BY <1>1, <1>2, <1>3, <1>4 DEF Next, Capture, Close

-----------------------------------------------------------------------------
(* The log follows the output *)

\* Records are numbered by their places in the log.
LEMMA RecordsType ==
    ASSUME TypeOK, NEW s \in Streams, NEW i \in Records(s)
    PROVE  i \in Nat /\ i \in 1..Len(log) /\ i \in DOMAIN log /\ log[i] \in Entries /\ log[i].stream = s
           /\ Len(log) \in Nat
<1>1. log \in Seq(Entries) /\ i \in DOMAIN log /\ log[i].stream = s
  BY DEF TypeOK, Records
<1>2. i \in 1..Len(log)
  BY <1>1
<1>3. log[i] \in Entries
  BY <1>1, <1>2, ElementOfSeq
<1>4. QED BY <1>1, <1>2, <1>3

\* What continues a record still does when more is written.
LEMMA ContinuesWrite ==
    ASSUME TypeOK, NEW s \in Streams, NEW text \in Texts, Write(s, text),
           NEW r \in Entries, r.stream \in Streams, Stretch(r),
           NEW q, q.line <= Open(r.stream), Continues(r, q)
    PROVE  Continues(r, q)'
<1> USE SizeAssumption
<1> DEFINE t == r.stream
<1>1. r.line \in 1..Open(t) /\ r.line \in Nat
  BY DEF Stretch, Entries
<1>2. /\ lines'[t][r.line] \in Nat /\ lines[t][r.line] \in Nat /\ lines'[t][r.line] >= lines[t][r.line]
      /\ r.line < Open(t) => lines'[t][r.line] = lines[t][r.line]
      /\ Open(t) \in Nat
  BY <1>1, LinesGrow
<1>3. CASE q.line = r.line /\ q.from = r.to /\ lines[t][r.line] >= MaxPartialLine
  <2>1. lines'[t][r.line] >= MaxPartialLine
    BY <1>2, <1>3
  <2>2. QED BY <1>3, <2>1 DEF Continues
<1>4. CASE q.line = r.line + 1 /\ q.from = 0 /\ r.to = lines[t][r.line]
  <2>1. r.line < Open(t)
    BY <1>1, <1>2, <1>4
  <2>2. QED BY <1>2, <1>4, <2>1 DEF Continues
<1>5. QED BY <1>3, <1>4 DEF Continues

\* So what the log goes on with is the same after a write.
LEMMA GoesOnWrite ==
    ASSUME TypeOK, Logged, NEW s \in Streams, NEW text \in Texts, Write(s, text),
           NEW t \in Streams, NEW p, GoesOn(t, p), p.line <= Open(t),
           NEW q, q.line = p.line, q.from = p.from
    PROVE  GoesOn(t, q)'
<1>1. log' = log /\ Records(t)' = Records(t)
  BY DEF Write, Records
<1>2. CASE Records(t) = {}
  BY <1>1, <1>2 DEF GoesOn
<1>3. CASE Records(t) # {}
  <2>1. PICK i \in Records(t) : Latest(Records(t), i) /\ Continues(log[i], p)
    BY <1>3 DEF GoesOn
  <2>2. log[i] \in Entries /\ log[i].stream = t /\ Stretch(log[i])
    BY <2>1, RecordsType DEF Logged
  <2>3. Continues(log[i], q)
    BY <2>1 DEF Continues
  <2>4. \A r \in Entries : r.stream = t /\ Stretch(r) /\ Continues(r, q) => Continues(r, q)'
    BY ContinuesWrite
  <2>5. Continues(log[i], q)'
    BY <1>1, <2>2, <2>3, <2>4 DEF Continues
  <2>6. Latest(Records(t), i)'
    BY <1>1, <2>1 DEF Latest
  <2>7. QED BY <1>1, <1>3, <2>5, <2>6 DEF GoesOn
<1>4. QED BY <1>2, <1>3

\* And it is the same when nothing of the stream is written or stored.
LEMMA GoesOnSame ==
    ASSUME lines' = lines, NEW s, Records(s)' = Records(s), \A i \in Records(s) : log'[i] = log[i]
    PROVE  /\ \A q : GoesOn(s, q)' <=> GoesOn(s, q)
           /\ AllOf(s)' <=> AllOf(s)
<1>1. \A i \in Records(s) : Latest(Records(s), i)' <=> Latest(Records(s), i)
  BY DEF Latest
<1>2. \A i \in Records(s) : \A q : Continues(log[i], q)' <=> Continues(log[i], q)
  BY DEF Continues
<1>3. \A i \in Records(s) : Ends(log[i], s)' <=> Ends(log[i], s)
  BY DEF Ends, Open, Column
<1>4. \A q : GoesOn(s, q)' <=> GoesOn(s, q)
  BY <1>1, <1>2 DEF GoesOn
<1>5. AllOf(s)' <=> AllOf(s)
  BY <1>1, <1>3 DEF AllOf, Open, Column
<1>6. QED BY <1>4, <1>5

\* The records after one more entry.
LEMMA RecordsAppend ==
    ASSUME TypeOK, NEW e \in Entries, log' = Append(log, e), NEW s \in Streams
    PROVE  /\ e.stream # s => Records(s)' = Records(s)
           /\ e.stream = s => /\ Records(s)' = Records(s) \union {Len(log) + 1}
                              /\ \A k \in Records(s)' : k <= Len(log) + 1
           /\ \A i \in Records(s) : log'[i] = log[i]
<1>1. /\ Len(log) \in Nat /\ DOMAIN log = 1..Len(log)
      /\ DOMAIN log' = DOMAIN log \union {Len(log) + 1}
      /\ log'[Len(log) + 1] = e /\ \A i \in DOMAIN log : log'[i] = log[i]
  BY Appended DEF TypeOK
<1>2. Records(s)' = {i \in DOMAIN log' : log'[i].stream = s}
  BY DEF Records
<1>3. \A i \in Records(s) : log'[i] = log[i] /\ i \in 1..Len(log)
  BY <1>1 DEF Records
<1>4. e.stream # s => Records(s)' = Records(s)
  BY <1>1, <1>2 DEF Records
<1>5. ASSUME e.stream = s PROVE Records(s)' = Records(s) \union {Len(log) + 1}
  BY <1>1, <1>2, <1>5 DEF Records
<1>6. PICK n : n = Len(log) + 1
  OBVIOUS
<1>7. ASSUME e.stream = s PROVE \A k \in Records(s)' : k <= n
  BY <1>1, <1>3, <1>5, <1>6, <1>7
<1>8. QED BY <1>3, <1>4, <1>5, <1>6, <1>7

\* A record that goes on from the log of its stream is the next of its records.
LEMMA StoreHead ==
    ASSUME TypeOK, Waiting, StoreRecord \/ StoreFails, log' = Append(log, NextRecord),
           NEW s \in Streams, s = queue[1].stream, NEW n \in Nat, n = Len(log) + 1
    PROVE  /\ n \in Records(s)' /\ (\A k \in Records(s)' : k <= n) /\ log'[n] = NextRecord
           /\ Records(s)' = Records(s) \union {n}
           /\ \A t \in Streams : t # s => Records(t)' = Records(t)
           /\ \A t \in Streams : \A i \in Records(t) : log'[i] = log[i]
<1>1. NextRecord \in Entries /\ NextRecord.stream = s
  BY HeadRecord DEF Entries, Stretches
<1>2. log'[n] = NextRecord
  BY <1>1, Appended DEF TypeOK
<1>3. Records(s)' = Records(s) \union {n} /\ \A k \in Records(s)' : k <= n
  BY <1>1, RecordsAppend
<1>4. \A t \in Streams : t # s => Records(t)' = Records(t)
  BY <1>1, RecordsAppend
<1>5. \A t \in Streams : \A i \in Records(t) : log'[i] = log[i]
  BY <1>1, RecordsAppend
<1>6. QED BY <1>1, <1>2, <1>3, <1>4, <1>5

\* When the head of the queue is stored, the rest follows it.
LEMMA StoreLinked ==
    ASSUME IInv, StoreRecord \/ StoreFails
    PROVE  Linked'
<1> USE SizeAssumption
<1>0. TypeOK /\ Closing /\ Waiting /\ Buffering /\ Linked
  BY DEF IInv
<1>1. CASE Silenced \/ log' # Append(log, NextRecord) \/ truncated' \/ failed'
  BY <1>0, <1>1, StoreCases DEF Linked, Silenced
<1>2. CASE ~Silenced /\ log' = Append(log, NextRecord) /\ ~truncated' /\ ~failed'
  <2>0. PICK h, s, n, r : h = queue[1] /\ s = queue[1].stream /\ n = Len(log) + 1 /\ r = NextRecord
    OBVIOUS
  <2>1. /\ queue # <<>> /\ queue \in Seq(Stretches) /\ queue' \in Seq(Stretches)
        /\ UNCHANGED <<lines, buf, pc, meta>> /\ h \in Stretches /\ pc \in {"writing", "flush"}
    BY <1>0, <2>0, StoreCases DEF TypeOK, files
  <2>2. /\ Len(queue) \in Nat \ {0} /\ DOMAIN queue = 1..Len(queue)
        /\ DOMAIN queue' = 1..Len(queue') /\ Len(queue') \in Nat /\ 1 \in DOMAIN queue
    BY <2>1
  <2>3. /\ s \in Streams /\ n \in Records(s)' /\ (\A k \in Records(s)' : k <= n) /\ log'[n] = r
        /\ \A t \in Streams : t # s => Records(t)' = Records(t)
        /\ \A t \in Streams : \A i \in Records(t) : log'[i] = log[i]
    <3>1. s \in Streams /\ n \in Nat
      BY SMTT(30), <1>0, <2>0, <2>1 DEF TypeOK, Stretches
    <3>2. QED BY <1>0, <1>2, <2>0, <3>1, StoreHead
  <2>4. \A t \in Streams : t # s => (\A q : GoesOn(t, q)' <=> GoesOn(t, q)) /\ (AllOf(t)' <=> AllOf(t))
    BY <2>1, <2>3, GoesOnSame
  <2>5. /\ r \in Stretches /\ r.stream = s /\ r.line = h.line /\ r.from = h.from
        /\ h.to = lines[s][h.line]
    BY <1>0, <2>0, <2>2, HeadRecord DEF Waiting
  <2>6. ASSUME NEW q, Continues(r, q) PROVE GoesOn(s, q)'
    <3>1. Continues(r, q)'
      BY <2>1, <2>6 DEF Continues
    <3>2. Latest(Records(s), n)'
      BY <2>3 DEF Latest
    <3>3. Continues(log[n], q)'
      BY <2>3, <3>1 DEF Continues
    <3>4. QED BY <2>3, <3>2, <3>3 DEF GoesOn
  <2>7. /\ \A i \in DOMAIN queue : ~Follows(i) => GoesOn(queue[i].stream, queue[i])
        /\ \A t \in Streams :
             (\A i \in DOMAIN queue : queue[i].stream # t) =>
                 IF pc = "writing" THEN GoesOn(t, Buffer(t)) ELSE AllOf(t)
    BY <1>0, <1>2, <2>1 DEF Linked
  <2>8. ASSUME NEW i \in DOMAIN queue, i # 1, ~Follows(i), NEW q, q = queue[i]
        PROVE  GoesOn(q.stream, q)'
    <3>1. i - 1 \in DOMAIN queue /\ queue[i - 1].stream # queue[i].stream /\ i - 1 < i /\ 1 < i
      BY <2>2, <2>8 DEF Follows
    <3>2. queue[i] \in Stretches /\ queue[i - 1] \in Stretches /\ h \in Stretches
      BY <2>1, <2>2, <3>1, ElementOfSeq
    <3>3. queue[i - 1].stream = "out"
      BY <1>0, <3>1 DEF Waiting
    <3>4. queue[i].stream = "err"
      BY <3>1, <3>2, <3>3 DEF Stretches, Streams
    <3>5. s # "err"
      <4>1. CASE i - 1 = 1
        BY <2>0, <3>3, <4>1
      <4>2. CASE i - 1 # 1
        <5>1. 1 < i - 1 /\ 1 \in DOMAIN queue
          BY <2>2, <3>1, <4>2
        <5>2. s # "out" => s = "out"
          BY <1>0, <2>0, <3>1, <3>3, <5>1 DEF Waiting
        <5>3. QED BY <5>2
      <4>3. QED BY <4>1, <4>2
    <3>6. GoesOn(q.stream, q)
      BY <2>7, <2>8
    <3>7. q.stream \in Streams /\ q.stream # s
      BY <2>8, <3>2, <3>4, <3>5 DEF Streams
    <3>8. QED BY <2>4, <3>6, <3>7
  <2>9. CASE /\ NextRecord = h /\ Len(queue') = Len(queue) - 1
             /\ \A i \in 1..Len(queue') : queue'[i] = queue[i + 1]
    <3>1. ASSUME NEW i \in DOMAIN queue', ~Follows(i)' PROVE GoesOn(queue[i].stream, queue[i])'
      <4>1. i + 1 \in DOMAIN queue /\ i + 1 # 1 /\ queue'[i] = queue[i + 1]
        BY <2>2, <2>9
      <4>2. CASE ~Follows(i + 1)
        <5>1. PICK q : q = queue[i + 1]
          OBVIOUS
        <5>2. GoesOn(q.stream, q)'
          BY <2>8, <4>1, <4>2, <5>1
        <5>3. QED BY <4>1, <5>1, <5>2
      <4>3. CASE Follows(i + 1)
        <5>1. i = 1
          <6> SUFFICES ASSUME i # 1 PROVE FALSE
            OBVIOUS
          <6>1. i > 1 /\ i - 1 \in 1..Len(queue') /\ (i - 1) + 1 = i /\ (i + 1) - 1 = i
            BY <2>2
          <6>2. queue'[i - 1] = queue[i]
            BY <2>9, <6>1
          <6>3. QED BY <3>1, <4>1, <4>3, <6>1, <6>2 DEF Follows
        <5>2. PICK q : q = queue[2]
          OBVIOUS
        <5>3. q.line = h.line + 1 /\ q.from = 0 /\ q.stream = s
          BY <1>0, <2>0, <4>1, <4>3, <5>1, <5>2 DEF Waiting, Follows
        <5>4. Continues(r, q)
          BY <2>0, <2>5, <2>9, <5>3 DEF Continues
        <5>5. GoesOn(s, q)'
          BY <2>6, <5>4
        <5>6. QED BY <4>1, <5>1, <5>2, <5>3, <5>5
      <4>4. QED BY <4>2, <4>3
    <3>2. ASSUME NEW t \in Streams, \A i \in DOMAIN queue' : queue'[i].stream # t
          PROVE  IF pc = "writing" THEN GoesOn(t, Buffer(t))' ELSE AllOf(t)'
      <4>1. ASSUME NEW i \in DOMAIN queue, i # 1 PROVE queue[i].stream # t
        <5>1. i - 1 \in 1..Len(queue') /\ (i - 1) + 1 = i
          BY <2>2, <2>9, <4>1
        <5>2. queue'[i - 1] = queue[i]
          BY <2>9, <5>1
        <5>3. QED BY <2>2, <3>2, <5>1, <5>2
      <4>2. Buffer(t)' = Buffer(t)
        BY <2>1 DEF Buffer, Open, Column
      <4>3. CASE t # s
        <5>1. \A i \in DOMAIN queue : queue[i].stream # t
          BY <2>0, <4>1, <4>3
        <5>2. QED BY <2>4, <2>7, <4>2, <4>3, <5>1
      <4>4. CASE t = s
        <5>1. 1 = Len(queue) \/ ~Follows(1 + 1)
          <6> SUFFICES ASSUME 1 # Len(queue) PROVE ~Follows(2)
            OBVIOUS
          <6>1. 2 \in DOMAIN queue /\ 2 # 1
            BY <2>2
          <6>2. queue[2].stream # queue[2 - 1].stream
            BY <2>0, <4>1, <4>4, <6>1
          <6>3. QED BY <6>2 DEF Follows
        <5>2. Precedes(h, s)
          BY <1>0, <2>0, <2>2, <5>1 DEF Buffering
        <5>3. Open(s) \in Nat \ {0} /\ Column(s) \in Nat /\ buf[s] \in Nat
          BY <1>0, <2>3, OpenLine
        <5>4. CASE pc = "writing"
          <6>1. Continues(r, Buffer(s))
            <7>1. CASE h.line = Open(s) /\ buf[s] = 0 /\ Column(s) >= MaxPartialLine
              BY <2>0, <2>5, <2>9, <5>3, <7>1 DEF Continues, Buffer, Column
            <7>2. CASE h.line + 1 = Open(s) /\ buf[s] = Column(s)
              BY <2>0, <2>5, <2>9, <5>3, <7>2 DEF Continues, Buffer
            <7>3. QED BY <5>2, <5>4, <7>1, <7>2 DEF Precedes
          <6>2. PICK q : q = Buffer(s)
            OBVIOUS
          <6>3. GoesOn(s, q)'
            BY <2>6, <6>1, <6>2
          <6>4. QED BY <4>2, <4>4, <5>4, <6>2, <6>3
        <5>5. CASE pc = "flush"
          <6>1. buf[s] = 0
            BY <1>0, <2>3, <5>5 DEF Buffering
          <6>2. Ends(r, s)
            BY <2>0, <2>5, <2>9, <5>2, <6>1 DEF Ends, Precedes, Column
          <6>3. Ends(r, s)'
            BY <2>1, <6>2 DEF Ends, Open, Column
          <6>4. Latest(Records(s), n)'
            BY <2>3 DEF Latest
          <6>5. Ends(log[n], s)'
            BY <2>3, <6>3 DEF Ends
          <6>6. AllOf(s)'
            BY <2>3, <6>4, <6>5 DEF AllOf
          <6>7. QED BY <4>4, <5>5, <6>6
        <5>6. QED BY <2>1, <5>4, <5>5
      <4>5. QED BY <4>3, <4>4
    <3>3. QED BY <2>1, <3>1, <3>2 DEF Linked
  <2>10. CASE /\ Len(queue') = Len(queue) /\ queue'[1] = [h EXCEPT !.from = r.to]
              /\ h.from + MaxPartialLine = r.to /\ r.to < h.to
              /\ \A i \in 2..Len(queue') : queue'[i] = queue[i]
    <3>1. queue'[1].stream = s /\ queue'[1].line = h.line /\ queue'[1].from = r.to
      BY <2>0, <2>1, <2>10 DEF Stretches
    <3>2. ASSUME NEW i \in DOMAIN queue'
          PROVE  /\ i \in DOMAIN queue /\ queue'[i].stream = queue[i].stream /\ (i # 1 => queue'[i] = queue[i])
      <4>1. i \in DOMAIN queue /\ (i # 1 => i \in 2..Len(queue'))
        BY <2>2, <2>10
      <4>2. QED BY <2>0, <2>10, <3>1, <4>1
    <3>3. ASSUME NEW i \in DOMAIN queue', ~Follows(i)' PROVE GoesOn(queue[i].stream, queue[i])'
      <4>1. CASE i = 1
        <5>1. h.from \in Nat /\ h.to \in Nat /\ r.to \in Nat
          BY <2>1, <2>5 DEF Stretches
        <5>2. h.to >= MaxPartialLine
          BY <2>10, <5>1
        <5>3. PICK q : q = queue'[1]
          OBVIOUS
        <5>4. Continues(r, q)
          BY <2>5, <3>1, <5>2, <5>3 DEF Continues
        <5>5. GoesOn(s, q)'
          BY <2>6, <5>4
        <5>6. QED BY <3>1, <4>1, <5>3, <5>5
      <4>2. CASE i # 1
        <5>1. i - 1 \in DOMAIN queue'
          BY <2>2, <4>2
        <5>2. i \in DOMAIN queue /\ ~Follows(i) /\ queue'[i] = queue[i]
          BY <3>2, <3>3, <4>2, <5>1 DEF Follows
        <5>3. PICK q : q = queue[i]
          OBVIOUS
        <5>4. GoesOn(q.stream, q)'
          BY <2>8, <4>2, <5>2, <5>3
        <5>5. QED BY <5>2, <5>3, <5>4
      <4>3. QED BY <4>1, <4>2
    <3>4. ASSUME NEW t \in Streams, \A i \in DOMAIN queue' : queue'[i].stream # t
          PROVE  IF pc = "writing" THEN GoesOn(t, Buffer(t))' ELSE AllOf(t)'
      <4>1. \A i \in DOMAIN queue : queue[i].stream # t
        BY <2>2, <2>10, <3>2, <3>4
      <4>2. t # s
        BY <2>0, <2>2, <4>1
      <4>3. Buffer(t)' = Buffer(t)
        BY <2>1 DEF Buffer, Open, Column
      <4>4. QED BY <2>4, <2>7, <4>1, <4>2, <4>3
    <3>5. QED BY <2>1, <3>3, <3>4 DEF Linked
  <2>11. QED BY <1>0, <2>0, <2>9, <2>10, StoreCases
<1>3. QED BY <1>1, <1>2

\* What is written goes on from what is in the log or waits for it.
LEMMA WriteLinked ==
    ASSUME IInv, NEW s \in Streams, NEW text \in Texts, Write(s, text)
    PROVE  Linked'
<1> DEFINE n == Len(text)
<1>0. TypeOK /\ Logged /\ Linked
  BY DEF IInv
<1>1. /\ pc = "writing" /\ queue = <<>>
      /\ UNCHANGED <<log, truncated, failed, pc, meta>>
  BY DEF Write, files
<1> SUFFICES ASSUME ~Silenced PROVE Linked'
  BY <1>1 DEF Linked, Silenced
<1>2. \A t \in Streams : GoesOn(t, Buffer(t))
  BY <1>1 DEF IInv, Linked
<1>3. \A t \in Streams : /\ Open(t) \in Nat \ {0} /\ Column(t) \in Nat /\ buf[t] \in Nat /\ buf[t] <= Column(t)
                         /\ Buffer(t).line = Open(t) /\ Buffer(t).from = Column(t) - buf[t]
  BY <1>0, OpenLine DEF Buffer
<1>4. n \in Nat \ {0} /\ \A i \in 1..n : text[i] \in Nat
  BY TextType
<1>5. ASSUME NEW t \in Streams, NEW q, q.line = Open(t), q.from = Column(t) - buf[t]
      PROVE  GoesOn(t, q)'
  <2>1. PICK p : p = Buffer(t)
    OBVIOUS
  <2>2. GoesOn(t, p) /\ p.line <= Open(t) /\ q.line = p.line /\ q.from = p.from
    BY <1>2, <1>3, <1>5, <2>1
  <2>3. QED BY <1>0, <2>2, GoesOnWrite
<1>6. DOMAIN queue' = 1..Len(queue') /\ Len(queue') \in Nat
  BY <1>0, WrittenQueue
<1>7. \A i \in DOMAIN queue' : queue'[i].stream = s /\ queue'[i].line = Open(s) + i - 1
  BY <1>0, <1>6, WrittenQueue
<1>8. ASSUME NEW i \in DOMAIN queue', ~Follows(i)' PROVE GoesOn(queue[i].stream, queue[i])'
  <2>1. i = 1
    <3> SUFFICES ASSUME i # 1 PROVE FALSE
      OBVIOUS
    <3>1. i > 1 /\ i - 1 \in DOMAIN queue'
      BY <1>6
    <3>2. QED BY <1>7, <1>8, <3>1 DEF Follows
  <2>2. PICK q : q = queue'[1]
    OBVIOUS
  <2>3. q.stream = s /\ q.line = Open(s) /\ q.from = Column(s) - buf[s]
    <3>1. queue'[1].line = Open(s) + 1 - 1 /\ queue'[1].from = Column(s) - buf[s]
      BY <1>0, <1>6, <2>1, WrittenQueue
    <3>2. QED BY <1>3, <1>7, <2>1, <2>2, <3>1
  <2>4. GoesOn(s, q)'
    BY <1>5, <2>3
  <2>5. QED BY <2>1, <2>2, <2>3, <2>4
<1>9. ASSUME NEW t \in Streams, \A i \in DOMAIN queue' : queue'[i].stream # t PROVE GoesOn(t, Buffer(t))'
  <2>1. PICK q : q = Buffer(t)'
    OBVIOUS
  <2>2. q.line = Open(t)' /\ q.from = Column(t)' - buf'[t]
    BY <2>1 DEF Buffer
  <2>3. q.line = Open(t) /\ q.from = Column(t) - buf[t]
    <3>1. CASE t # s
      BY <1>0, <2>2, <3>1, Written, WrittenOpen
    <3>2. CASE t = s
      <4>1. Len(queue') = 0
        <5> SUFFICES ASSUME Len(queue') # 0 PROVE FALSE
          OBVIOUS
        <5>1. 1 \in DOMAIN queue'
          BY <1>6
        <5>2. QED BY <1>7, <1>9, <3>2, <5>1
      <4>2. n = 1 /\ buf'[s] = Length(Buffered(s, text, n))
        BY <1>0, <1>4, <4>1, WrittenQueue
      <4>3. Open(s)' = Open(s) /\ Column(s)' = Column(s) + text[1] /\ text[1] \in Nat
        <5>1. Open(s)' = Open(s) + 1 - 1
          BY <1>0, <4>2, Written
        <5>2. Column(s)' = Column(s) + text[1]
          BY <1>0, <4>2, WrittenOpen
        <5>3. text[1] \in Nat
          BY <1>4, <4>2
        <5>4. QED BY <1>3, <5>1, <5>2, <5>3
      <4>4. buf'[s] = Length(Buffered(s, text, 1))
        BY <4>2
      <4>5. Buffered(s, text, 1).from = Column(s) - buf[s] /\ Buffered(s, text, 1).to = Column(s) + text[1]
        BY DEF Buffered
      <4>6. buf'[s] = buf[s] + text[1]
        BY <1>3, <4>3, <4>4, <4>5 DEF Length
      <4>7. QED BY <1>3, <2>2, <3>2, <4>3, <4>6
    <3>3. QED BY <3>1, <3>2
  <2>4. GoesOn(t, q)'
    BY <1>5, <2>3
  <2>5. QED BY <2>1, <2>4
<1>10. QED BY <1>1, <1>8, <1>9 DEF Linked

\* A flush leaves nothing in a buffer that does not wait to be stored.
LEMMA FlushLinked ==
    ASSUME IInv, Flush
    PROVE  Linked'
<1>0. TypeOK /\ Linked
  BY DEF IInv
<1>1. /\ pc = "writing" /\ queue = <<>> /\ pc' = "flush"
      /\ UNCHANGED <<lines, log, truncated, failed, meta>>
  BY DEF Flush, files
<1> SUFFICES ASSUME ~Silenced PROVE Linked'
  BY <1>1 DEF Linked, Silenced
<1>2. \A t \in Streams : GoesOn(t, Buffer(t))
  BY <1>0, <1>1 DEF Linked
<1>3. ASSUME NEW t \in Streams
      PROVE  (\A q : GoesOn(t, q)' <=> GoesOn(t, q)) /\ (AllOf(t)' <=> AllOf(t))
  <2>1. Records(t)' = Records(t)
    BY <1>1 DEF Records
  <2>2. QED BY <1>1, <2>1, GoesOnSame
<1>4. ASSUME NEW i \in DOMAIN queue' PROVE GoesOn(queue[i].stream, queue[i])'
  <2>1. PICK q : q = queue'[i]
    OBVIOUS
  <2>2. q.stream \in Streams /\ q = Buffer(q.stream)
    BY <1>0, <2>1, FlushWaiting
  <2>3. GoesOn(q.stream, q)'
    BY <1>2, <1>3, <2>2
  <2>4. QED BY <2>1, <2>3
<1>5. ASSUME NEW t \in Streams, \A i \in DOMAIN queue' : queue'[i].stream # t PROVE AllOf(t)'
  <2>1. Open(t) \in Nat \ {0} /\ Column(t) \in Nat /\ buf[t] \in Nat
    BY <1>0, OpenLine
  <2>2. buf[t] = 0
    <3> SUFFICES ASSUME buf[t] > 0 PROVE FALSE
      BY <2>1
    <3>1. Buffer("out").stream = "out" /\ Buffer("err").stream = "err"
      BY DEF Buffer
    <3>2. CASE t = "out"
      <4>1. 1 \in DOMAIN queue' /\ queue'[1] = Buffer("out")
        BY <1>0, <3>2, FlushQueue
      <4>2. QED BY <1>5, <3>1, <3>2, <4>1
    <3>3. CASE t = "err"
      <4>1. \/ 1 \in DOMAIN queue' /\ queue'[1] = Buffer("err")
            \/ 2 \in DOMAIN queue' /\ queue'[2] = Buffer("err")
        BY <1>0, <3>3, FlushQueue
      <4>2. QED BY <1>5, <3>1, <3>3, <4>1
    <3>4. QED BY <3>2, <3>3 DEF Streams
  <2>3. Buffer(t).line = Open(t) /\ Buffer(t).from = Column(t)
    BY <2>1, <2>2 DEF Buffer
  <2>4. CASE Records(t) = {}
    <3>1. Open(t) = 1 /\ Column(t) = 0
      BY <1>2, <2>3, <2>4 DEF GoesOn
    <3>2. QED BY <1>3, <2>4, <3>1 DEF AllOf
  <2>5. CASE Records(t) # {}
    <3>1. PICK i \in Records(t) : Latest(Records(t), i) /\ Continues(log[i], Buffer(t))
      BY <1>2, <2>5 DEF GoesOn
    <3>2. log[i].stream = t /\ log[i] \in Entries
      BY <1>0, <3>1, RecordsType
    <3>3. Ends(log[i], t)
      BY <2>1, <2>3, <3>1, <3>2 DEF Continues, Ends, Entries
    <3>4. QED BY <1>3, <2>5, <3>1, <3>3 DEF AllOf
  <2>6. QED BY <2>4, <2>5
<1>6. QED BY <1>1, <1>4, <1>5 DEF Linked

\* Every step keeps log, queue and buffers linked.
LEMMA LinkedStep ==
    ASSUME IInv, Next
    PROVE  Linked'
<1>0. TypeOK /\ Closing /\ Linked
  BY DEF IInv
<1>1. ASSUME NEW s \in Streams, NEW text \in Texts, Write(s, text) PROVE Linked'
  BY <1>1, WriteLinked
<1>2. CASE StoreRecord \/ StoreFails
  BY <1>2, StoreLinked
<1>3. CASE Flush
  BY <1>3, FlushLinked
<1>4. CASE StoreOutcome \/ Release \/ Crash \/ Prune \/ \E x \in Readers : Get(x) \/ Read(x)
  <2>1. UNCHANGED <<lines, buf, log, truncated>>
    BY <1>0, <1>4, OtherSteps
  <2>2. ASSUME NEW t \in Streams
        PROVE  (\A q : GoesOn(t, q)' <=> GoesOn(t, q)) /\ (AllOf(t)' <=> AllOf(t))
    <3>1. Records(t)' = Records(t)
      BY <2>1 DEF Records
    <3>2. QED BY <2>1, <3>1, GoesOnSame
  <2>3. CASE queue' = queue /\ pc' = pc /\ UNCHANGED <<failed, meta>>
    <3>1. \A t \in Streams : Buffer(t)' = Buffer(t)
      BY <2>1 DEF Buffer, Open, Column
    <3>2. \A i \in DOMAIN queue : queue[i].stream \in Streams
      <4> SUFFICES ASSUME NEW i \in DOMAIN queue PROVE queue[i].stream \in Streams
        OBVIOUS
      <4>1. queue[i] \in Stretches
        BY <1>0, ElementOfSeq DEF TypeOK
      <4>2. QED BY <4>1 DEF Stretches
    <3>3. ASSUME NEW i \in DOMAIN queue, GoesOn(queue[i].stream, queue[i])
          PROVE  GoesOn(queue[i].stream, queue[i])'
      <4>1. PICK q : q = queue[i]
        OBVIOUS
      <4>2. GoesOn(q.stream, q)'
        BY <2>2, <3>2, <3>3, <4>1
      <4>3. QED BY <2>3, <4>1, <4>2
    <3>4. ASSUME NEW t \in Streams, GoesOn(t, Buffer(t)) PROVE GoesOn(t, Buffer(t))'
      <4>1. PICK q : q = Buffer(t)
        OBVIOUS
      <4>2. GoesOn(t, q)'
        BY <2>2, <3>4, <4>1
      <4>3. QED BY <3>1, <4>1, <4>2
    <3>5. Silenced' = Silenced /\ \A i : Follows(i)' <=> Follows(i)
      BY <2>1, <2>3 DEF Silenced, Follows
    <3>6. QED BY <1>0, <2>2, <2>3, <3>3, <3>4, <3>5 DEF Linked
  <2>4. CASE /\ queue' = <<>> /\ pc' \notin {"writing", "flush"}
             /\ pc # "dead" /\ pc' = "dead" /\ UNCHANGED <<failed, meta>>
    <3> SUFFICES ASSUME ~Silenced, meta.status = "finished" PROVE Linked'
      BY <2>1, <2>4 DEF Linked, Silenced
    <3>1. pc \notin {"writing", "flush"} /\ queue = <<>>
      BY <1>0 DEF Closing
    <3>2. \A t \in Streams : AllOf(t)
      BY <1>0, <2>4, <3>1 DEF Linked
    <3>3. QED BY <2>2, <2>4, <3>2 DEF Linked
  <2>5. CASE /\ queue' = <<>> /\ pc' \notin {"writing", "flush"}
             /\ queue = <<>> /\ pc \in {"flush", "release"} /\ (failed' = failed \/ failed' = TRUE)
    <3> SUFFICES ASSUME ~Silenced PROVE Linked'
      BY <2>1, <2>5 DEF Linked, Silenced
    <3>1. \A t \in Streams : AllOf(t)
      BY <1>0, <2>5 DEF Linked
    <3>2. QED BY <2>2, <2>5, <3>1 DEF Linked
  <2>6. QED BY <1>0, <1>4, <2>3, <2>4, <2>5, OtherSteps
<1>5. QED BY <1>1, <1>2, <1>3, <1>4 DEF Next, Capture, Close

\* The records of a stream follow one another after every step.
LEMMA RecordsStep ==
    ASSUME IInv, Next
    PROVE  RecordsAreTheOutput'
<1>0. TypeOK /\ Closing /\ Waiting /\ Logged /\ Linked /\ RecordsAreTheOutput
  BY DEF IInv
<1>1. Logged'
  BY LoggedStep
<1> DEFINE Earlier(s, j) == {i \in Records(s) : i < j}
           Chain(s, j) == IF Earlier(s, j) = {} THEN log[j].line = 1 /\ log[j].from = 0
                          ELSE \E i \in Earlier(s, j) : Latest(Earlier(s, j), i) /\ Continues(log[i], log[j])
<1>2. ASSUME NEW s \in Streams, NEW j \in Records(s) PROVE Chain(s, j)
  BY <1>0 DEF RecordsAreTheOutput
<1>3. SUFFICES ASSUME NEW s \in Streams, NEW j \in Records(s)' PROVE Chain(s, j)'
  BY <1>1 DEF RecordsAreTheOutput, Logged
<1>4. ASSUME NEW u \in Streams, NEW text \in Texts, Write(u, text) PROVE Chain(s, j)'
  <2>1. log' = log /\ Records(s)' = Records(s) /\ Earlier(s, j)' = Earlier(s, j)
    BY <1>4 DEF Write, Records
  <2>2. CASE Earlier(s, j) = {}
    BY <1>2, <2>1, <2>2
  <2>3. CASE Earlier(s, j) # {}
    <3>1. PICK i \in Earlier(s, j) : Latest(Earlier(s, j), i) /\ Continues(log[i], log[j])
      BY <1>2, <2>1, <2>3
    <3>2. PICK r, q : r = log[i] /\ q = log[j]
      OBVIOUS
    <3>3. /\ r \in Entries /\ r.stream = s /\ Stretch(r)
          /\ q \in Entries /\ q.stream = s /\ Stretch(q)
      BY <1>0, <2>1, <3>2, RecordsType DEF Logged
    <3>4. q.line <= Open(s)
      BY <3>3 DEF Stretch
    <3>5. Continues(r, q)'
      BY <1>0, <1>4, <3>1, <3>2, <3>3, <3>4, ContinuesWrite
    <3>6. Continues(log[i], log[j])'
      BY <2>1, <3>2, <3>5
    <3>7. Latest(Earlier(s, j), i)'
      BY <2>1, <3>1 DEF Latest
    <3>8. QED BY <2>1, <2>3, <3>6, <3>7
  <2>4. QED BY <2>2, <2>3
<1>5. ASSUME lines' = lines, j \in Records(s), Earlier(s, j)' = Earlier(s, j),
             \A i \in Records(s) : log'[i] = log[i]
      PROVE  Chain(s, j)'
  <2>1. Chain(s, j)
    BY <1>2, <1>5
  <2>2. log'[j] = log[j]
    BY <1>5
  <2>3. CASE Earlier(s, j) = {}
    BY <1>5, <2>1, <2>2, <2>3
  <2>4. CASE Earlier(s, j) # {}
    <3>1. PICK i \in Earlier(s, j) : Latest(Earlier(s, j), i) /\ Continues(log[i], log[j])
      BY <2>1, <2>4
    <3>2. log'[i] = log[i]
      BY <1>5, <3>1
    <3>3. Continues(log[i], log[j])'
      BY <1>5, <2>2, <3>1, <3>2 DEF Continues
    <3>4. Latest(Earlier(s, j), i)'
      BY <1>5, <3>1 DEF Latest
    <3>5. QED BY <1>5, <2>4, <3>3, <3>4
  <2>5. QED BY <2>3, <2>4
<1>6. ASSUME UNCHANGED <<lines, log>> PROVE Chain(s, j)'
  BY <1>5, <1>6 DEF Records
<1>7. ASSUME UNCHANGED lines, NEW e \in Entries, log' = Append(log, e), e.stream # s PROVE Chain(s, j)'
  <2>1. Records(s)' = Records(s) /\ \A i \in Records(s) : log'[i] = log[i]
    BY <1>0, <1>7, RecordsAppend
  <2>2. Earlier(s, j)' = Earlier(s, j)
    BY <2>1
  <2>3. QED BY <1>5, <1>7, <2>1, <2>2
<1>8. CASE StoreRecord \/ StoreFails
  <2>0. UNCHANGED lines /\ queue[1] \in Stretches /\ queue # <<>> /\ pc \in {"writing", "flush"}
    BY <1>0, <1>8, StoreCases
  <2>1. UNCHANGED lines /\ queue[1] \in Stretches /\ 1 \in DOMAIN queue /\ pc # "dead"
    BY <1>0, <2>0 DEF TypeOK
  <2>2. Notice \in Entries /\ Torn(NextRecord) \in Entries /\ Notice.stream # s /\ Torn(NextRecord).stream # s
    BY <1>0, <1>8, HeadRecord DEF Notice, Torn, Entries, Stretches, Streams
  <2>3. NextRecord \in Entries /\ NextRecord.stream = queue[1].stream /\ queue[1].stream \in Streams
    BY <1>0, <1>8, HeadRecord DEF Entries, Stretches
  <2>4. CASE log' = log
    BY <1>6, <2>1, <2>4
  <2>5. CASE log' = Append(log, Notice) \/ log' = Append(log, Torn(NextRecord))
    BY <1>7, <2>1, <2>2, <2>5
  <2>6. CASE ~Silenced /\ log' = Append(log, NextRecord)
    <3>1. CASE queue[1].stream # s
      BY <1>7, <2>1, <2>3, <2>6, <3>1
    <3>2. CASE queue[1].stream = s
      <4>1. PICK n \in Nat : n = Len(log) + 1
        BY <1>0 DEF TypeOK
      <4>2. /\ n \in Records(s)' /\ (\A k \in Records(s)' : k <= n) /\ log'[n] = NextRecord
            /\ Records(s)' = Records(s) \union {n}
            /\ \A i \in Records(s) : log'[i] = log[i]
        BY <1>0, <1>8, <2>6, <3>2, <4>1, StoreHead
      <4>3. \A i \in Records(s) : i \in Nat /\ i < n
        BY <1>0, <4>1, RecordsType
      <4>4. CASE j # n
        <5>1. j \in Records(s) /\ Earlier(s, j)' = Earlier(s, j)
          BY <4>2, <4>3, <4>4
        <5>2. QED BY <1>5, <2>1, <4>2, <5>1
      <4>5. CASE j = n
        <5>1. Earlier(s, j)' = Records(s)
          BY <4>2, <4>3, <4>5
        <5>2. GoesOn(s, queue[1])
          <6>1. 1 \in DOMAIN queue /\ ~Follows(1) /\ pc # "dead"
            BY <2>1 DEF Follows
          <6>2. QED BY <1>0, <2>6, <3>2, <6>1 DEF Linked
        <5>3. NextRecord.line = queue[1].line /\ NextRecord.from = queue[1].from
          BY <1>0, <1>8, HeadRecord
        <5>4. CASE Records(s) = {}
          <6>1. log'[j].line = 1 /\ log'[j].from = 0
            BY <4>2, <4>5, <5>2, <5>3, <5>4 DEF GoesOn
          <6>2. QED BY <5>1, <5>4, <6>1
        <5>5. CASE Records(s) # {}
          <6>1. PICK i \in Records(s) : Latest(Records(s), i) /\ Continues(log[i], queue[1])
            BY <5>2, <5>5 DEF GoesOn
          <6>2. log'[i] = log[i] /\ log'[j] = NextRecord
            BY <4>2, <4>5, <6>1
          <6>3. Continues(log[i], log[j])'
            BY <2>1, <5>3, <6>1, <6>2 DEF Continues
          <6>4. Latest(Earlier(s, j), i)'
            BY <5>1, <6>1 DEF Latest
          <6>5. QED BY <5>1, <5>5, <6>1, <6>3, <6>4
        <5>6. QED BY <5>4, <5>5
      <4>6. QED BY <4>4, <4>5
    <3>3. QED BY <3>1, <3>2
  <2>7. QED BY <1>0, <1>8, <2>4, <2>5, <2>6, StoreCases
<1>9. CASE Flush \/ StoreOutcome \/ Release \/ Crash \/ Prune \/ \E x \in Readers : Get(x) \/ Read(x)
  <2>1. UNCHANGED <<lines, log>>
    BY <1>0, <1>9, OtherSteps DEF Flush
  <2>2. QED BY <1>6, <2>1
<1>10. QED BY <1>4, <1>8, <1>9 DEF Next, Capture, Close

-----------------------------------------------------------------------------
(* Theorems *)

\* The invariant holds at the start ...
LEMMA InitInvariant == Init => IInv
<1> SUFFICES ASSUME Init PROVE IInv
  OBVIOUS
<1> USE NamesAssumption, SizeAssumption DEF Init
<1>1. /\ <<0>> \in Seq(Nat) \ {<<>>} /\ Len(<<0>>) = 1 /\ <<0>>[1] = 0
      /\ <<>> \in Seq(Stretches) /\ <<>> \in Seq(Entries) /\ Fresh \in ReaderStates
  BY DEF Fresh, ReaderStates
<1>2. \A s \in Streams : Open(s) = 1 /\ Column(s) = 0 /\ buf[s] = 0
  BY <1>1 DEF Open, Column
<1>3. Alive /\ queue = <<>> /\ log = <<>> /\ pc = "writing" /\ meta.status = "running"
  BY DEF Alive
<1>4. TypeOK
  <2>1. lines \in [Streams -> Seq(Nat) \ {<<>>}] /\ buf \in [Streams -> Nat]
    BY <1>1
  <2>2. meta \in [status : {"running", "finished"}, truncated : BOOLEAN]
    OBVIOUS
  <2>3. reader \in [Readers -> ReaderStates]
    BY <1>1
  <2>4. \A s \in Streams : buf[s] <= Column(s)
    BY <1>2
  <2>5. queue \in Seq(Stretches) /\ log \in Seq(Entries)
    BY <1>1
  <2>6. stored \in BOOLEAN /\ owner \in Readers \union {Recorder, Pruner, NoOwner} /\ (Alive <=> owner = Recorder)
    BY <1>3
  <2>7. QED BY <2>1, <2>2, <2>3, <2>4, <2>5, <2>6 DEF TypeOK
<1>5. Closing
  BY <1>3 DEF Closing
<1>6. Readings
  BY DEF Readings, Truthful, Complete, Fresh
<1>7. \A s \in Streams : Records(s) = {}
  BY <1>3 DEF Records
<1>8. Logged /\ Waiting /\ RecordsAreTheOutput
  BY <1>3, <1>7 DEF Logged, Waiting, RecordsAreTheOutput
<1>9. Buffering
  BY <1>3 DEF Buffering
<1>10. Linked
  <2>1. \A s \in Streams : GoesOn(s, Buffer(s))
    BY <1>2, <1>7 DEF GoesOn, Buffer
  <2>2. QED BY <1>3, <2>1 DEF Linked
<1>11. QED BY <1>4, <1>5, <1>6, <1>8, <1>9, <1>10 DEF IInv

\* ... and after every step.
LEMMA NextInvariant == IInv /\ [Next]_vars => IInv'
<1> SUFFICES ASSUME IInv, [Next]_vars PROVE IInv'
  OBVIOUS
<1>1. CASE Next
  BY <1>1, TypeStep, ClosingStep, ReadingsStep, LoggedStep, WaitingStep, BufferingStep, LinkedStep,
     RecordsStep DEF IInv
<1>2. CASE UNCHANGED vars
  <2> USE <1>2 DEF vars, capture, files
  <2>1. Alive' = Alive /\ \A s : Open(s)' = Open(s) /\ Column(s)' = Column(s) /\ Records(s)' = Records(s)
    BY DEF Alive, Open, Column, Records
  <2>2. TypeOK' /\ Closing'
    BY <2>1 DEF IInv, TypeOK, Closing
  <2>3. Readings'
    BY <2>1, Undisturbed DEF IInv
  <2>4. Logged' /\ Waiting' /\ Buffering'
    BY DEF IInv, Logged, Waiting, Buffering, Stretch, Follows, Precedes, Open, Column
  <2>5. Linked'
    BY DEF IInv, Linked, Silenced, Follows, GoesOn, AllOf, Buffer, Continues, Ends, Latest, Records, Open, Column
  <2>6. RecordsAreTheOutput'
    BY DEF IInv, RecordsAreTheOutput, Continues, Latest, Records
  <2>7. QED BY <2>2, <2>3, <2>4, <2>5, <2>6 DEF IInv
<1>3. QED BY <1>1, <1>2

\* The log, the queue, the buffers and the outcome of a run, and what every
\* reader knows of them, hang together at all times.
THEOREM Invariance == Spec => []IInv
BY InitInvariant, NextInvariant, PTL DEF Spec

\* Every variable keeps its type, and run.lock is the recorder's as long as it
\* lives.
THEOREM TypeCorrect == Spec => []TypeOK
<1>1. IInv => TypeOK
  BY DEF IInv
<1>2. QED BY <1>1, Invariance, PTL

\* At any moment the records of a stream are its output from the beginning,
\* whatever was truncated, failed or crashed.
THEOREM RecordsExact == Spec => []RecordsAreTheOutput
<1>1. IInv => RecordsAreTheOutput
  BY DEF IInv
<1>2. QED BY <1>1, Invariance, PTL

\* A run recorded as finished has all of its output in the log, or says that it
\* was truncated, or an error was reported.
THEOREM FinishedComplete == Spec => []FinishedIsComplete
<1>1. ASSUME IInv PROVE FinishedIsComplete
  <2> SUFFICES ASSUME meta.status = "finished", ~failed
               PROVE  /\ meta.truncated <=> \E i \in DOMAIN log : log[i] = Notice
                      /\ meta.truncated \/ \A s \in Streams : AllOf(s)
    BY DEF FinishedIsComplete, AllOf
  <2>1. TypeOK /\ Closing /\ Logged /\ Linked
    BY <1>1 DEF IInv
  <2>2. meta.truncated = truncated /\ pc \notin {"writing", "flush"} /\ queue = <<>>
    BY <2>1 DEF Closing
  <2>3. truncated <=> \E i \in DOMAIN log : log[i] = Notice
    BY <2>1 DEF Logged
  <2>4. ~truncated => \A s \in Streams : AllOf(s)
    BY <2>1, <2>2 DEF Linked, Silenced
  <2>5. QED BY <2>2, <2>3, <2>4
<1>2. QED BY <1>1, Invariance, PTL

\* `task log --tail` has room for every record.
THEOREM TailSucceeds == Spec => []TailNeverFails
<1>1. IInv => TailNeverFails
  BY DEF IInv, Readings, Truthful, TailNeverFails
<1>2. QED BY <1>1, Invariance, PTL

\* What is shown of a run that has ended is all of it.
THEOREM ShownComplete == Spec => []ShownIsComplete
<1>1. IInv => ShownIsComplete
  BY DEF IInv, Readings, Complete, ShownIsComplete
<1>2. QED BY <1>1, Invariance, PTL

\* A reader's "interrupted" and "running" are true of the run.
THEOREM StatusTruthful == Spec => []StatusIsTruthful
<1>1. IInv => StatusIsTruthful
  BY DEF IInv, Readings, Truthful, StatusIsTruthful
<1>2. QED BY <1>1, Invariance, PTL
=============================================================================
