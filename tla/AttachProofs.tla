------------------------------- MODULE AttachProofs -------------------------------
(***************************************************************************)
(* For any number of typed lines and signals and any size of the queue and *)
(* the pipe: type correctness, InputInOrder and IDFileRemoved.             *)
(*                                                                         *)
(* What the task has read, what is in its pipe and what is queued for it   *)
(* is one increasing sequence of typed lines, all behind the line the loop *)
(* holds (Ordered); together they are every line it took that was not an   *)
(* answer (Complete); its input is closed only at the end of that (Ends).  *)
(***************************************************************************)
EXTENDS Attach, FiniteSetTheorems, SequenceTheorems, TLAPS

Increasing(s) == \A i, j \in 1..Len(s) : i < j => s[i] < s[j]
Before(s, t)  == \A i \in 1..Len(s), j \in 1..Len(t) : s[i] < t[j]
Below(s, n)   == \A i \in 1..Len(s) : s[i] < n

\* What the loop received and did not take for an answer goes through queue and
\* pipe in its order, and nothing is behind the line the loop is sending.
Ordered ==
    /\ Increasing(got) /\ Increasing(pipe) /\ Increasing(queue)
    /\ Before(got, pipe) /\ Before(got, queue) /\ Before(pipe, queue)
    /\ Below(got, taken + 1) /\ Below(pipe, taken + 1) /\ Below(queue, taken + 1)
    /\ loop = "send" => Below(got, taken) /\ Below(pipe, taken) /\ Below(queue, taken)

Sending  == IF loop = "send" THEN {taken} ELSE {}
Complete ==
    Attached /\ child # "exited" =>
        ToSet(got) \union ToSet(pipe) \union ToSet(queue) \union Sending = TaskLines

\* The task's input is closed by an end of input that was no answer, or when
\* there is nothing left to read.
EndTaken == \E j \in 1..taken : j \notin answers /\ typed[j] = "eof"
Ends ==
    /\ answers \subseteq 1..taken
    /\ loop = "send" => stdin = "open" /\ taken # 0
    /\ Attached => /\ stdin = "open" => ~EndTaken
                   /\ stdin # "open" => EndTaken \/ LinesEnded
                   /\ stdin = "closed" => queue = <<>>

IInv == TypeOK /\ Ordered /\ Complete /\ Ends /\ IDFileRemoved

-----------------------------------------------------------------------------
(* Sequences *)

\* BoundedSeq is told as functions; this is what it says of sequences.
LEMMA BoundedSeqIs ==
    ASSUME NEW S, NEW n \in Nat
    PROVE  BoundedSeq(S, n) = {s \in Seq(S) : Len(s) <= n}
<1>1. ASSUME NEW s \in BoundedSeq(S, n) PROVE s \in Seq(S) /\ Len(s) <= n
  <2>1. PICK m \in 0..n : s \in [1..m -> S]
    BY DEF BoundedSeq, SeqOf
  <2>2. QED BY <2>1
<1>2. ASSUME NEW s \in Seq(S), Len(s) <= n PROVE s \in BoundedSeq(S, n)
  <2>1. Len(s) \in 0..n /\ s \in [1..Len(s) -> S]
    BY <1>2
  <2>2. QED BY <2>1 DEF BoundedSeq, SeqOf
<1>3. QED BY <1>1, <1>2

\* A strictly increasing sequence is no longer than its range allows.
LEMMA IncreasingBound ==
    ASSUME NEW n \in Nat, NEW s \in Seq(1..n), Increasing(s)
    PROVE  Len(s) <= n
<1>1. s \in [1..Len(s) -> 1..n] /\ Len(s) \in Nat
  OBVIOUS
<1>2. \A i, j \in 1..Len(s) : s[i] = s[j] => i = j
  <2> SUFFICES ASSUME NEW i \in 1..Len(s), NEW j \in 1..Len(s), s[i] = s[j], i # j PROVE FALSE
    OBVIOUS
  <2>1. (i < j \/ j < i) /\ s[i] \in Nat /\ s[j] \in Nat
    BY <1>1
  <2>2. QED BY <2>1 DEF Increasing
<1>3. s \in Injection(1..Len(s), 1..n)
  BY <1>1, <1>2 DEF Injection, IsInjective
<1>4. \A k \in Nat : IsFiniteSet(1..k) /\ Cardinality(1..k) = k
  <2> SUFFICES ASSUME NEW k \in Nat PROVE IsFiniteSet(1..k) /\ Cardinality(1..k) = k
    OBVIOUS
  <2>1. IsFiniteSet(1..k) /\ Cardinality(1..k) = IF 1 > k THEN 0 ELSE k - 1 + 1
    BY FS_Interval
  <2>2. QED BY <2>1
<1>5. Cardinality(1..Len(s)) <= Cardinality(1..n)
  BY <1>3, <1>4, FS_Injection
<1>6. QED BY <1>1, <1>4, <1>5

\* The first of one sequence goes to the end of another.
LEMMA Moved ==
    ASSUME NEW S, NEW s \in Seq(S), NEW t \in Seq(S), s # <<>>
    PROVE  /\ Tail(s) \in Seq(S) /\ Len(Tail(s)) = Len(s) - 1
           /\ Append(t, Head(s)) \in Seq(S) /\ Len(Append(t, Head(s))) = Len(t) + 1
           /\ \A i \in 1..Len(Tail(s)) : i + 1 \in 1..Len(s) /\ Tail(s)[i] = s[i + 1]
           /\ \A i \in 1..Len(t) : Append(t, Head(s))[i] = t[i]
           /\ Append(t, Head(s))[Len(t) + 1] = s[1] /\ 1 \in 1..Len(s)
           /\ ToSet(s) = {s[1]} \union ToSet(Tail(s))
           /\ ToSet(Append(t, Head(s))) = ToSet(t) \union {s[1]}
<1>1. /\ Tail(s) \in Seq(S) /\ Len(Tail(s)) = Len(s) - 1 /\ Head(s) = s[1]
      /\ 1 \in 1..Len(s) /\ Len(s) \in Nat /\ Len(t) \in Nat
      /\ \A i \in 1..(Len(s) - 1) : Tail(s)[i] = s[i + 1]
  OBVIOUS
<1>2. /\ Append(t, Head(s)) \in Seq(S) /\ Len(Append(t, Head(s))) = Len(t) + 1
      /\ \A i \in 1..Len(t) : Append(t, Head(s))[i] = t[i]
      /\ Append(t, Head(s))[Len(t) + 1] = Head(s)
  OBVIOUS
<1>3. ToSet(s) = {s[1]} \union ToSet(Tail(s))
  <2>1. ASSUME NEW i \in 1..Len(s) PROVE s[i] \in {s[1]} \union ToSet(Tail(s))
    <3>1. CASE i = 1
      BY <3>1
    <3>2. CASE i # 1
      <4>1. i - 1 \in 1..(Len(s) - 1) /\ (i - 1) + 1 = i
        BY <1>1, <3>2
      <4>2. Tail(s)[i - 1] = s[i] /\ i - 1 \in DOMAIN Tail(s)
        BY <1>1, <4>1
      <4>3. QED BY <4>2 DEF ToSet
    <3>3. QED BY <3>1, <3>2
  <2>2. ASSUME NEW i \in 1..(Len(s) - 1) PROVE Tail(s)[i] \in ToSet(s)
    <3>1. i + 1 \in DOMAIN s
      BY <1>1
    <3>2. QED BY <1>1, <3>1 DEF ToSet
  <2>3. s[1] \in ToSet(s)
    BY <1>1 DEF ToSet
  <2>4. DOMAIN s = 1..Len(s) /\ DOMAIN Tail(s) = 1..(Len(s) - 1)
    BY <1>1
  <2>5. QED BY <2>1, <2>2, <2>3, <2>4 DEF ToSet
<1>4. ToSet(Append(t, Head(s))) = ToSet(t) \union {s[1]}
  <2> DEFINE a == Append(t, Head(s))
  <2>1. DOMAIN a = 1..(Len(t) + 1) /\ DOMAIN t = 1..Len(t) /\ a[Len(t) + 1] = s[1]
        /\ \A i \in 1..Len(t) : a[i] = t[i]
    BY <1>1, <1>2
  <2> HIDE DEF a
  <2>2. \A i \in 1..(Len(t) + 1) : i \in 1..Len(t) \/ i = Len(t) + 1
    BY <1>1
  <2>3. \A i \in 1..Len(t) : i \in 1..(Len(t) + 1)
    BY <1>1
  <2>4. Len(t) + 1 \in 1..(Len(t) + 1)
    BY <1>1
  <2>5. ToSet(a) = ToSet(t) \union {s[1]}
    BY <2>1, <2>2, <2>3, <2>4 DEF ToSet
  <2>6. QED BY <2>5 DEF a
<1>5. \A i \in 1..Len(Tail(s)) : i + 1 \in 1..Len(s) /\ Tail(s)[i] = s[i + 1]
  BY <1>1
<1>6. QED BY <1>1, <1>2, <1>3, <1>4, <1>5

\* Then both stay in order, and in order with whatever is before or behind.
LEMMA OrderMoved ==
    ASSUME NEW S \in SUBSET Nat, NEW s \in Seq(S), NEW t \in Seq(S), s # <<>>,
           Increasing(s), Increasing(t), Before(t, s)
    PROVE  /\ Increasing(Tail(s)) /\ Increasing(Append(t, Head(s)))
           /\ Before(Append(t, Head(s)), Tail(s)) /\ Before(t, Tail(s))
           /\ \A u \in Seq(S) : /\ Before(u, s) => Before(u, Tail(s))
                                /\ Before(u, s) /\ Before(u, t) => Before(u, Append(t, Head(s)))
                                /\ Before(s, u) => Before(Tail(s), u)
                                /\ Before(s, u) /\ Before(t, u) => Before(Append(t, Head(s)), u)
           /\ \A n \in Nat : /\ Below(s, n) => Below(Tail(s), n)
                             /\ Below(s, n) /\ Below(t, n) => Below(Append(t, Head(s)), n)
<1> DEFINE a == Append(t, Head(s))
           r == Tail(s)
<1>1. /\ \A i \in 1..Len(r) : i + 1 \in 1..Len(s) /\ r[i] = s[i + 1]
      /\ \A i \in 1..Len(t) : a[i] = t[i]
      /\ a[Len(t) + 1] = s[1] /\ 1 \in 1..Len(s) /\ Len(a) = Len(t) + 1
      /\ Len(t) \in Nat /\ Len(r) \in Nat
  BY Moved
<1>2. \A i \in 1..Len(a) : i \in 1..Len(t) \/ i = Len(t) + 1
  BY <1>1
<1>3. \A i \in 1..Len(a) : a[i] = IF i \in 1..Len(t) THEN t[i] ELSE s[1]
  BY <1>1, <1>2
<1>4. \A i \in 1..Len(r) : 1 < i + 1
  OBVIOUS
<1> HIDE DEF a, r
<1>5. Increasing(r)
  BY <1>1 DEF Increasing
<1>6. Increasing(a)
  <2> SUFFICES ASSUME NEW i \in 1..Len(a), NEW j \in 1..Len(a), i < j PROVE a[i] < a[j]
    BY DEF Increasing
  <2>1. i \in 1..Len(t)
    BY <1>1, <1>2
  <2>2. QED BY <1>1, <1>3, <2>1 DEF Increasing, Before
<1>7. Before(a, r)
  BY <1>1, <1>3, <1>4 DEF Before, Increasing
<1>8. Before(t, r)
  BY <1>1 DEF Before
<1>9. ASSUME NEW u \in Seq(S)
      PROVE  /\ Before(u, s) => Before(u, r)
             /\ Before(u, s) /\ Before(u, t) => Before(u, a)
             /\ Before(s, u) => Before(r, u)
             /\ Before(s, u) /\ Before(t, u) => Before(a, u)
  BY <1>1, <1>3 DEF Before
<1>10. ASSUME NEW n \in Nat
       PROVE  /\ Below(s, n) => Below(r, n)
              /\ Below(s, n) /\ Below(t, n) => Below(a, n)
  BY <1>1, <1>3 DEF Below
<1>11. QED BY <1>5, <1>6, <1>7, <1>8, <1>9, <1>10 DEF a, r

-----------------------------------------------------------------------------
(* The order of the lines *)

\* Ordered is about the three sequences, and about the loop only as it takes a line.
LEMMA OrderedSame ==
    ASSUME IInv, UNCHANGED <<got, pipe, queue>>,
           \/ taken' = taken /\ (loop' = "send" => loop = "send")
           \/ taken' = taken + 1
    PROVE  Ordered'
<1>1. /\ \A i \in 1..Len(got) : got[i] \in Nat
      /\ \A i \in 1..Len(pipe) : pipe[i] \in Nat
      /\ \A i \in 1..Len(queue) : queue[i] \in Nat
      /\ taken \in Nat
  <2>1. 1..MaxTyped \subseteq Nat
    OBVIOUS
  <2>2. got \in Seq(1..MaxTyped) /\ pipe \in Seq(1..MaxTyped) /\ queue \in Seq(1..MaxTyped)
    BY DEF IInv, TypeOK
  <2>3. \A s \in Seq(1..MaxTyped) : \A i \in 1..Len(s) : s[i] \in 1..MaxTyped
    BY ElementOfSeq
  <2>4. taken \in Nat
    BY BoundAssumption DEF IInv, TypeOK
  <2>5. QED BY <2>1, <2>2, <2>3, <2>4
<1>2. CASE taken' = taken /\ (loop' = "send" => loop = "send")
  BY <1>2 DEF IInv, Ordered
<1>3. CASE taken' = taken + 1
  <2>1. Below(got, taken') /\ Below(pipe, taken') /\ Below(queue, taken')
    BY <1>3 DEF IInv, Ordered
  <2>2. Below(got, taken' + 1) /\ Below(pipe, taken' + 1) /\ Below(queue, taken' + 1)
    BY <1>1, <1>3, <2>1 DEF Below
  <2>3. QED BY <2>1, <2>2 DEF IInv, Ordered
<1>4. QED BY <1>2, <1>3

\* A line moves along reader, loop, queue, pipe and task without overtaking another.
LEMMA OrderedStep ==
    ASSUME IInv, Next
    PROVE  Ordered'
<1> DEFINE S == 1..MaxTyped
<1>1. /\ S \in SUBSET Nat /\ got \in Seq(S) /\ pipe \in Seq(S) /\ queue \in Seq(S)
      /\ taken \in Nat
  BY BoundAssumption DEF IInv, TypeOK
<1> USE DEF keyboard, control, forwarder, recorder, ghost
<1>2. CASE Type \/ Signal \/ Reader
  BY <1>2, OrderedSame DEF Type, Signal, Reader, ReadItem, StopReading
<1>3. CASE RecorderExited \/ Detach \/ Prompt \/ Terminate \/ AnswerYes \/ InputEnds
  BY <1>3, OrderedSame DEF RecorderExited, Return, Detach, Answered, Next1, Prompt, Terminate,
                           AnswerYes, InputEnds
<1>4. CASE TakeLine
  BY <1>4, OrderedSame DEF TakeLine, Next1
<1>5. CASE SendLine
  <2> DEFINE q == Append(queue, taken)
  <2>1. /\ queue' = q /\ taken' = taken /\ loop' = "select" /\ UNCHANGED <<got, pipe>>
        /\ Below(got, taken) /\ Below(pipe, taken) /\ Below(queue, taken)
    BY <1>5 DEF SendLine, IInv, Ordered
  <2>2. /\ Len(q) = Len(queue) + 1 /\ q[Len(queue) + 1] = taken /\ Len(queue) \in Nat
        /\ \A i \in 1..Len(queue) : q[i] = queue[i]
    BY <1>1
  <2>3. \A i \in 1..Len(q) : i \in 1..Len(queue) \/ i = Len(queue) + 1
    BY <2>2
  <2> HIDE DEF q
  <2>4. Increasing(q)
    <3> SUFFICES ASSUME NEW i \in 1..Len(q), NEW j \in 1..Len(q), i < j PROVE q[i] < q[j]
      BY DEF Increasing
    <3>1. i \in 1..Len(queue)
      BY <2>2, <2>3
    <3>2. QED BY <2>1, <2>2, <2>3, <3>1 DEF IInv, Ordered, Increasing, Below
  <2>5. Before(got, q) /\ Before(pipe, q)
    BY <2>1, <2>2, <2>3 DEF IInv, Ordered, Before, Below
  <2>6. Below(q, taken + 1)
    <3>1. \A i \in 1..Len(queue) : queue[i] \in S
      BY <1>1, ElementOfSeq
    <3>2. \A i \in 1..Len(queue) : queue[i] \in Nat
      BY <1>1, <3>1
    <3>3. QED BY <1>1, <2>1, <2>2, <2>3, <3>2 DEF Below
  <2>7. QED BY <2>1, <2>4, <2>5, <2>6 DEF IInv, Ordered
<1>6. CASE WriteLine
  <2>1. /\ queue # <<>> /\ queue' = Tail(queue) /\ UNCHANGED <<taken, loop, got>>
        /\ pipe' = pipe \/ pipe' = Append(pipe, Head(queue))
    BY <1>6 DEF WriteLine
  <2>2. taken + 1 \in Nat
    BY <1>1
  <2> HIDE DEF S
  <2>3. /\ Increasing(Tail(queue)) /\ Increasing(Append(pipe, Head(queue)))
        /\ Before(pipe, Tail(queue)) /\ Before(Append(pipe, Head(queue)), Tail(queue))
    BY <1>1, <2>1, OrderMoved DEF IInv, Ordered
  <2>4. Before(got, Tail(queue)) /\ Before(got, Append(pipe, Head(queue)))
    BY <1>1, <2>1, OrderMoved DEF IInv, Ordered
  <2>5. ASSUME NEW n \in Nat, Below(pipe, n), Below(queue, n)
        PROVE  Below(Tail(queue), n) /\ Below(Append(pipe, Head(queue)), n)
    BY <1>1, <2>1, <2>5, OrderMoved DEF IInv, Ordered
  <2>6. QED BY <1>1, <2>1, <2>2, <2>3, <2>4, <2>5 DEF IInv, Ordered
<1>7. CASE TaskReads
  <2>1. /\ pipe # <<>> /\ pipe' = Tail(pipe) /\ UNCHANGED <<taken, loop, queue>>
        /\ got' = Append(got, Head(pipe))
    BY <1>7 DEF TaskReads
  <2>2. taken + 1 \in Nat
    BY <1>1
  <2> HIDE DEF S
  <2>3. QED BY <1>1, <2>1, <2>2, OrderMoved DEF IInv, Ordered
<1>8. CASE CloseStdin \/ OpenIDFile \/ WriteIDFile \/ RecorderExits
  BY <1>8, OrderedSame DEF CloseStdin, OpenIDFile, WriteIDFile, RecorderExits
<1>9. QED BY <1>2, <1>3, <1>4, <1>5, <1>6, <1>7, <1>8
        DEF Next, Loop, TakeInput, Forwarder, Recorder

-----------------------------------------------------------------------------
(* Types *)

\* Every step keeps the types and the capacities.
LEMMA TypeStep ==
    ASSUME IInv, Next
    PROVE  TypeOK'
<1> USE BoundAssumption, CapacityAssumption
    DEF keyboard, control, forwarder, recorder, ghost
<1>1. /\ typed \in Seq(Items) /\ Len(typed) \in 0..MaxTyped
      /\ signals \in Seq(Signals) /\ Len(signals) <= SignalBuffer
      /\ read \in 0..Len(typed) /\ taken \in 0..read
  BY BoundedSeqIs DEF IInv, TypeOK, SignalBuffer
<1>2. CASE Type
  <2>1. PICK k \in Items : typed' = Append(typed, k)
    BY <1>2 DEF Type
  <2>2. Len(typed) < MaxTyped
    BY <1>2 DEF Type
  <2>3. typed' \in Seq(Items) /\ Len(typed') = Len(typed) + 1
    BY <1>1, <2>1
  <2>4. typed' \in BoundedSeq(Items, MaxTyped)
    BY <1>1, <2>2, <2>3, BoundedSeqIs
  <2>5. read' \in 0..Len(typed')
    BY <1>1, <1>2, <2>3 DEF Type
  <2>6. QED BY <1>2, <2>4, <2>5 DEF Type, IInv, TypeOK
<1>3. CASE Signal
  <2>1. PICK s \in Signals :
            /\ signals' = IF Len(signals) < SignalBuffer THEN Append(signals, s) ELSE signals
            /\ hung' = (hung \/ s = "term")
    BY <1>3 DEF Signal
  <2>2. signals' \in Seq(Signals) /\ Len(signals') <= SignalBuffer
    BY <1>1, <2>1 DEF SignalBuffer
  <2>3. signals' \in BoundedSeq(Signals, SignalBuffer)
    BY <2>2, BoundedSeqIs DEF SignalBuffer
  <2>4. hung' \in BOOLEAN
    BY <2>1
  <2>5. QED BY <1>3, <2>3, <2>4 DEF Signal, IInv, TypeOK
<1>4. CASE ReadItem
  <2>1. read < Len(typed) /\ read' = read + 1 /\ ended' \in BOOLEAN
    BY <1>4 DEF ReadItem
  <2>2. read' \in 0..Len(typed) /\ taken \in 0..read'
    BY <1>1, <2>1
  <2>3. QED BY <1>4, <2>1, <2>2 DEF ReadItem, IInv, TypeOK
<1>5. CASE StopReading
  BY <1>5 DEF StopReading, IInv, TypeOK
<1>6. CASE RecorderExited
  BY <1>6 DEF RecorderExited, Return, IInv, TypeOK
<1>7. ASSUME Answered, LineReady
      PROVE  taken' \in 0..read /\ answers' \in SUBSET (1..MaxTyped) /\ early' \in BOOLEAN
  <2>1. taken' \in 0..read /\ early' \in BOOLEAN
    BY <1>1, <1>7 DEF Answered, Next1, LineReady
  <2>2. Next1 \in 1..MaxTyped
    BY <1>1, <1>7 DEF Next1, LineReady
  <2>3. answers' \in SUBSET (1..MaxTyped)
    BY <1>7, <2>2 DEF Answered, IInv, TypeOK
  <2>4. QED BY <2>1, <2>3
<1>8. CASE AnswerYes
  <2>1. taken' \in 0..read /\ answers' \in SUBSET (1..MaxTyped) /\ early' \in BOOLEAN
    BY <1>7, <1>8 DEF AnswerYes
  <2>2. child' \in {"running", "asked", "exited"}
    BY <1>8 DEF AnswerYes, Asked, IInv, TypeOK
  <2>3. prompting' \in BOOLEAN
    BY <1>8 DEF AnswerYes
  <2>4. QED BY <1>8, <2>1, <2>2, <2>3 DEF AnswerYes, IInv, TypeOK
<1>9. CASE Detach
  <2>1. taken' \in 0..read /\ answers' \in SUBSET (1..MaxTyped) /\ early' \in BOOLEAN
    BY <1>7, <1>9 DEF Detach, IInv, TypeOK
  <2>2. QED BY <1>9, <2>1 DEF Detach, Return, IInv, TypeOK
<1>10. CASE InputEnds
  <2>1. taken' \in 0..read /\ listening' \in BOOLEAN
    <3>1. listening \in BOOLEAN /\ (LineReady => taken + 1 \in 0..read)
      BY <1>1 DEF LineReady, IInv, TypeOK
    <3>2. CASE LinesEnded /\ listening' = FALSE /\ UNCHANGED taken
      BY <1>1, <3>2
    <3>3. CASE LineReady /\ taken' = Next1 /\ UNCHANGED listening
      BY <1>1, <3>3 DEF LineReady, Next1, IInv, TypeOK
    <3>4. QED BY <1>10, <3>2, <3>3 DEF InputEnds
  <2>2. QED BY <1>10, <2>1 DEF InputEnds, Closing, IInv, TypeOK
<1>11. CASE TakeLine
  <2>1. taken' \in 0..read /\ loop' \in {"select", "send", "returned"}
    BY <1>1, <1>11 DEF TakeLine, LineReady, Next1, IInv, TypeOK
  <2>2. QED BY <1>11, <2>1 DEF TakeLine, IInv, TypeOK
<1>12. CASE SendLine
  <2>1. queue' = Append(queue, taken) /\ Len(queue) < Backlog /\ queue \in Seq(1..MaxTyped)
    BY <1>12 DEF SendLine, IInv, TypeOK
  <2>2. taken \in 1..MaxTyped
    BY <1>1, <1>12 DEF SendLine, IInv, Ends
  <2>3. queue' \in Seq(1..MaxTyped) /\ Len(queue') <= Backlog
    BY <2>1, <2>2
  <2>4. QED BY <1>12, <2>3 DEF SendLine, IInv, TypeOK
<1>13. CASE Prompt \/ Terminate
  <2>1. signals' = Tail(signals) /\ signals # <<>>
    BY <1>13 DEF Prompt, Terminate
  <2>2. signals' \in Seq(Signals) /\ Len(signals') <= SignalBuffer
    BY <1>1, <2>1 DEF SignalBuffer
  <2>3. signals' \in BoundedSeq(Signals, SignalBuffer)
    BY <2>2, BoundedSeqIs DEF SignalBuffer
  <2>4. CASE Prompt
    <3>1. shown' \in 0..MaxTyped
      BY <1>1, <2>4 DEF Prompt
    <3>2. QED BY <2>3, <2>4, <3>1 DEF Prompt, IInv, TypeOK
  <2>5. CASE Terminate
    <3>1. child' \in {"running", "asked", "exited"}
      BY <2>5 DEF Terminate, Asked, IInv, TypeOK
    <3>2. prompting' \in BOOLEAN
      BY <2>5 DEF Terminate
    <3>3. QED BY <2>3, <2>5, <3>1, <3>2 DEF Terminate, IInv, TypeOK
  <2>6. QED BY <1>13, <2>4, <2>5
<1>14. CASE WriteLine
  <2>1. /\ queue # <<>> /\ queue' = Tail(queue)
        /\ pipe' = pipe \/ (pipe' = Append(pipe, Head(queue)) /\ Len(pipe) < PipeSize)
        /\ queue \in Seq(1..MaxTyped) /\ pipe \in Seq(1..MaxTyped)
        /\ Len(queue) <= Backlog /\ Len(pipe) <= PipeSize
    BY <1>14 DEF WriteLine, IInv, TypeOK
  <2>2. queue' \in Seq(1..MaxTyped) /\ Len(queue') <= Backlog
    BY <2>1
  <2>3. pipe' \in Seq(1..MaxTyped) /\ Len(pipe') <= PipeSize
    <3>1. CASE pipe' = pipe
      BY <2>1, <3>1
    <3>2. CASE pipe' = Append(pipe, Head(queue)) /\ Len(pipe) < PipeSize
      <4>1. /\ Append(pipe, Head(queue)) \in Seq(1..MaxTyped)
            /\ Len(Append(pipe, Head(queue))) = Len(pipe) + 1
        BY <2>1, Moved
      <4>2. Len(pipe) \in Nat
        BY <2>1
      <4>3. QED BY <3>2, <4>1, <4>2
    <3>3. QED BY <2>1, <3>1, <3>2
  <2>4. QED BY <1>14, <2>2, <2>3 DEF WriteLine, IInv, TypeOK
<1>15. CASE CloseStdin
  BY <1>15 DEF CloseStdin, IInv, TypeOK
<1>16. CASE TaskReads
  <2>1. /\ pipe # <<>> /\ pipe' = Tail(pipe) /\ got' = Append(got, Head(pipe))
        /\ pipe \in Seq(1..MaxTyped) /\ got \in Seq(1..MaxTyped) /\ Len(pipe) <= PipeSize
    BY <1>16 DEF TaskReads, IInv, TypeOK
  <2>2. pipe' \in Seq(1..MaxTyped) /\ Len(pipe') <= PipeSize /\ got' \in Seq(1..MaxTyped)
    BY <2>1
  <2>3. Len(got') <= MaxTyped
    BY <2>2, OrderedStep, IncreasingBound DEF Ordered
  <2>4. QED BY <1>16, <2>2, <2>3 DEF TaskReads, IInv, TypeOK
<1>17. CASE OpenIDFile \/ WriteIDFile \/ RecorderExits
  <2>1. CASE OpenIDFile
    BY <2>1 DEF OpenIDFile, IInv, TypeOK
  <2>2. CASE WriteIDFile
    BY <2>2 DEF WriteIDFile, IInv, TypeOK
  <2>3. CASE RecorderExits
    BY <2>3 DEF RecorderExits, IInv, TypeOK
  <2>4. QED BY <1>17, <2>1, <2>2, <2>3
<1>18. QED BY <1>2, <1>3, <1>4, <1>5, <1>6, <1>8, <1>9, <1>10, <1>11, <1>12, <1>13, <1>14, <1>15,
              <1>16, <1>17 DEF Next, Reader, Loop, TakeInput, Forwarder, Recorder

-----------------------------------------------------------------------------
(* The end of the input, and what of it is the task's *)

\* The counters as numbers.
LEMMA Numbers ==
    ASSUME IInv
    PROVE  /\ taken \in Nat /\ read \in Nat /\ taken <= read /\ read <= Len(typed)
           /\ typed \in Seq(Items) /\ Len(typed) \in Nat
           /\ \A j \in 1..(taken + 1) : j \in 1..taken \/ j = taken + 1
           /\ \A j \in 1..taken : j \in 1..(taken + 1) /\ j # taken + 1
           /\ taken + 1 \in 1..(taken + 1)
<1>1. typed \in Seq(Items)
  BY BoundedSeqIs, BoundAssumption DEF IInv, TypeOK
<1>2. Len(typed) \in Nat
  BY <1>1
<1>3. read \in 0..Len(typed) /\ taken \in 0..read
  BY DEF IInv, TypeOK
<1>4. QED BY <1>1, <1>2, <1>3

\* The next item is received, as an answer or as input.
LEMMA Received ==
    ASSUME IInv, taken' = Next1, UNCHANGED typed,
           answers' \in {answers, answers \union {Next1}}
    PROVE  /\ answers' \subseteq 1..taken'
           /\ EndTaken' <=> EndTaken \/ (answers' = answers /\ Item = "eof")
           /\ Next1 \in answers' \/ EndTaken' => TaskLines' = TaskLines
           /\ answers' = answers /\ ~EndTaken' => TaskLines' = TaskLines \union {Next1}
<1> USE DEF Next1
<1>1. answers \subseteq 1..taken /\ taken + 1 \notin answers
  BY Numbers DEF IInv, Ends
<1>2. answers' \subseteq 1..taken'
  BY <1>1, Numbers
<1>3. \A j \in 1..taken : j \in answers' <=> j \in answers
  BY Numbers
<1>4. taken + 1 \in answers' <=> answers' # answers
  BY <1>1
<1>5. EndTaken' <=> EndTaken \/ (answers' = answers /\ Item = "eof")
  BY <1>3, <1>4, Numbers DEF EndTaken, Item
<1>6. \A i \in 1..taken : i \in TaskLines' <=> i \in TaskLines
  <2> SUFFICES ASSUME NEW i \in 1..taken PROVE i \in TaskLines' <=> i \in TaskLines
    OBVIOUS
  <2>1. \A j \in 1..i : j \in 1..taken
    BY Numbers
  <2>2. i \in 1..(taken + 1)
    BY Numbers
  <2>3. QED BY <1>3, <2>1, <2>2 DEF TaskLines
<1>7. TaskLines' \subseteq 1..(taken + 1) /\ TaskLines \subseteq 1..taken
  BY DEF TaskLines
<1>8. Next1 \in TaskLines' <=> answers' = answers /\ ~EndTaken'
  <2>1. Next1 \in 1..taken' /\ 1..Next1 = 1..taken'
    BY Numbers
  <2>2. QED BY <1>4, <2>1 DEF TaskLines, EndTaken
<1>9. Next1 \in answers' \/ EndTaken' => TaskLines' = TaskLines
  BY <1>4, <1>6, <1>7, <1>8, Numbers
<1>10. answers' = answers /\ ~EndTaken' => TaskLines' = TaskLines \union {Next1}
  BY <1>6, <1>7, <1>8, Numbers
<1>11. QED BY <1>2, <1>5, <1>9, <1>10

\* Nothing is received; what else is typed changes nothing.
LEMMA NotReceived ==
    ASSUME IInv, UNCHANGED <<taken, answers>>,
           \A j \in 1..taken : typed'[j] = typed[j]
    PROVE  (EndTaken' <=> EndTaken) /\ TaskLines' = TaskLines
<1>1. EndTaken' <=> EndTaken
  BY DEF EndTaken
<1>2. \A i \in 1..taken : \A j \in 1..i : j \in 1..taken
  BY Numbers
<1>3. QED BY <1>1, <1>2 DEF TaskLines

\* What was typed stays where it is when more is typed.
LEMMA TypedOn ==
    ASSUME IInv, Type
    PROVE  \A j \in 1..taken : typed'[j] = typed[j]
<1>1. PICK k \in Items : typed' = Append(typed, k)
  BY DEF Type
<1>2. \A j \in 1..Len(typed) : typed'[j] = typed[j]
  BY <1>1, Numbers
<1>3. QED BY <1>2, Numbers

\* The input of the task is closed at its end or not at all.
LEMMA EndsStep ==
    ASSUME IInv, Next
    PROVE  Ends'
<1> USE DEF keyboard, control, forwarder, recorder, ghost
<1>1. CASE Type
  <2>1. EndTaken' <=> EndTaken
    BY <1>1, TypedOn, NotReceived DEF Type
  <2>2. QED BY <1>1, <2>1 DEF Type, IInv, Ends, Attached, LinesEnded
<1>2. CASE ReadItem
  <2>1. EndTaken' <=> EndTaken
    BY <1>2, NotReceived DEF ReadItem
  <2>2. QED BY <1>2, <2>1 DEF ReadItem, IInv, Ends, Attached, LinesEnded
<1>3. CASE StopReading
  <2>1. EndTaken' <=> EndTaken
    BY <1>3, NotReceived DEF StopReading
  <2>2. QED BY <1>3, <2>1 DEF StopReading, IInv, Ends, Attached, LinesEnded
<1>4. CASE RecorderExited
  BY <1>4 DEF RecorderExited, Return, IInv, Ends, Attached
<1>5. CASE Detach
  <2>1. answers' \subseteq 1..taken'
    <3>1. CASE Answered
      BY <1>5, <3>1, Received DEF Answered, Detach
    <3>2. CASE UNCHANGED <<taken, answers>>
      BY <3>2 DEF IInv, Ends
    <3>3. QED BY <1>5, <3>1, <3>2 DEF Detach
  <2>2. QED BY <1>5, <2>1 DEF Detach, Return, Ends, Attached
<1>6. CASE AnswerYes
  <2>1. answers' \subseteq 1..taken' /\ (EndTaken' <=> EndTaken \/ (answers' = answers /\ Item = "eof"))
    BY <1>6, Received DEF AnswerYes, Answered
  <2>2. Item # "eof" /\ ~LinesEnded /\ UNCHANGED <<loop, stdin, queue>>
    BY <1>6, Numbers DEF AnswerYes, LineReady, LinesEnded
  <2>3. loop' # "send"
    BY <1>6 DEF AnswerYes, AtSelect
  <2>4. QED BY <2>1, <2>2, <2>3 DEF IInv, Ends, Attached
<1>7. CASE InputEnds
  <2>1. stdin' # "open" /\ (stdin' = "closed" => stdin = "closed") /\ loop' = "select" /\ queue' = queue
    BY <1>7 DEF InputEnds, Closing, AtSelect
  <2>2. stdin = "closed" => queue = <<>>
    BY <1>7 DEF InputEnds, AtSelect, IInv, Ends, Attached
  <2>3. CASE LinesEnded /\ UNCHANGED taken
    <3>1. LinesEnded' /\ answers' = answers
      BY <1>7, <2>3 DEF InputEnds, LinesEnded
    <3>2. QED BY <2>1, <2>2, <2>3, <3>1 DEF IInv, Ends, Attached
  <2>4. CASE Item = "eof" /\ taken' = Next1
    <3>1. answers' = answers /\ UNCHANGED typed
      BY <1>7 DEF InputEnds
    <3>2. answers' \subseteq 1..taken' /\ EndTaken'
      BY <2>4, <3>1, Received
    <3>3. QED BY <2>1, <2>2, <3>2 DEF Ends, Attached
  <2>5. QED BY <1>7, <2>3, <2>4 DEF InputEnds
<1>8. CASE TakeLine
  <2>1. answers' \subseteq 1..taken' /\ (EndTaken' <=> EndTaken \/ (answers' = answers /\ Item = "eof"))
    BY <1>8, Received DEF TakeLine
  <2>2. Item # "eof" /\ ~LinesEnded /\ UNCHANGED <<stdin, queue>> /\ loop = "select"
    BY <1>8, Numbers DEF TakeLine, LineReady, LinesEnded, AtSelect
  <2>3. (loop' = "send" => stdin = "open") /\ taken' # 0
    BY <1>8, <2>2, Numbers DEF TakeLine, Next1
  <2>4. QED BY <2>1, <2>2, <2>3 DEF IInv, Ends, Attached
<1>9. CASE SendLine
  <2>1. EndTaken' <=> EndTaken
    BY <1>9, NotReceived DEF SendLine
  <2>2. stdin = "open" /\ stdin' = "open" /\ loop' = "select" /\ UNCHANGED <<taken, answers>> /\ Attached
    BY <1>9 DEF SendLine, IInv, Ends, Attached
  <2>3. QED BY <2>1, <2>2 DEF IInv, Ends
<1>10. CASE WriteLine
  <2>1. EndTaken' <=> EndTaken
    BY <1>10, NotReceived DEF WriteLine
  <2>2. stdin # "closed" /\ UNCHANGED <<stdin, loop, taken, answers, read, input>>
    BY <1>10 DEF WriteLine, IInv, Ends
  <2>3. QED BY <2>1, <2>2 DEF IInv, Ends, Attached, LinesEnded
<1>11. CASE CloseStdin
  <2>1. EndTaken' <=> EndTaken
    BY <1>11, NotReceived DEF CloseStdin
  <2>2. QED BY <1>11, <2>1 DEF CloseStdin, IInv, Ends, Attached, LinesEnded
<1>12. CASE Signal \/ Prompt \/ Terminate \/ Recorder
  <2>1. UNCHANGED <<taken, answers, typed, stdin, queue, loop, read, input>>
    BY <1>12 DEF Signal, Prompt, Terminate, Recorder, TaskReads, OpenIDFile, WriteIDFile, RecorderExits
  <2>2. EndTaken' <=> EndTaken
    BY <2>1, NotReceived
  <2>3. QED BY <2>1, <2>2 DEF IInv, Ends, Attached, LinesEnded
<1>13. QED BY <1>1, <1>2, <1>3, <1>4, <1>5, <1>6, <1>7, <1>8, <1>9, <1>10, <1>11, <1>12
         DEF Next, Reader, Loop, TakeInput, Forwarder

\* A step that moves no line loses none.
LEMMA CompleteSame ==
    ASSUME IInv, UNCHANGED <<got, pipe, queue, child>>, Sending' = Sending, TaskLines' = TaskLines,
           Attached' => Attached
    PROVE  Complete'
BY DEF IInv, Complete

\* No line that was not an answer is lost, by any step.
LEMMA CompleteStep ==
    ASSUME IInv, Next
    PROVE  Complete'
<1> DEFINE S == 1..MaxTyped
<1>1. got \in Seq(S) /\ pipe \in Seq(S) /\ queue \in Seq(S)
  BY DEF IInv, TypeOK
<1> USE DEF keyboard, control, forwarder, recorder, ghost
<1>2. CASE Type \/ Signal \/ Reader \/ Prompt \/ Terminate \/ CloseStdin \/ OpenIDFile \/ WriteIDFile
  <2>1. UNCHANGED <<got, pipe, queue, taken, answers, loop>>
    BY <1>2 DEF Type, Signal, Reader, ReadItem, StopReading, Prompt, Terminate, CloseStdin,
                OpenIDFile, WriteIDFile
  <2>2. child' # "exited" => child # "exited"
    BY <1>2 DEF Type, Signal, Reader, ReadItem, StopReading, Prompt, Terminate, CloseStdin,
                OpenIDFile, WriteIDFile, Asked
  <2>3. \A j \in 1..taken : typed'[j] = typed[j]
    <3>1. CASE Type
      BY <3>1, TypedOn
    <3>2. CASE ~Type
      BY <1>2, <3>2 DEF Signal, Reader, ReadItem, StopReading, Prompt, Terminate, CloseStdin,
                        OpenIDFile, WriteIDFile
    <3>3. QED BY <3>1, <3>2
  <2>4. TaskLines' = TaskLines
    BY <2>1, <2>3, NotReceived
  <2>5. QED BY <2>1, <2>2, <2>4 DEF IInv, Complete, Sending, Attached
<1>3. CASE RecorderExited \/ Detach \/ RecorderExits
  BY <1>3 DEF RecorderExited, Detach, Return, RecorderExits, Complete, Attached
<1>4. CASE AnswerYes
  <2>1. TaskLines' = TaskLines
    BY <1>4, Received DEF AnswerYes, Answered
  <2>2. UNCHANGED <<got, pipe, queue, loop>> /\ loop = "select" /\ (child' # "exited" => child # "exited")
    BY <1>4 DEF AnswerYes, Asked, AtSelect
  <2>3. QED BY <2>1, <2>2 DEF IInv, Complete, Sending, Attached
<1>5. CASE InputEnds
  <2>1. UNCHANGED <<got, pipe, queue, loop, child, answers, typed>> /\ loop = "select"
    BY <1>5 DEF InputEnds, AtSelect
  <2>2. CASE UNCHANGED taken
    <3>1. TaskLines' = TaskLines
      BY <2>1, <2>2, NotReceived
    <3>2. QED BY <2>1, <3>1, CompleteSame DEF Sending, Attached
  <2>3. CASE Item = "eof" /\ taken' = Next1
    <3>1. TaskLines' = TaskLines
      BY <2>1, <2>3, Received
    <3>2. QED BY <2>1, <3>1, CompleteSame DEF Sending, Attached
  <2>4. QED BY <1>5, <2>2, <2>3 DEF InputEnds
<1>6. CASE TakeLine
  <2>1. /\ UNCHANGED <<got, pipe, queue, child, answers, typed>> /\ loop = "select" /\ Attached
        /\ taken' = Next1 /\ Item # "eof" /\ ~LinesEnded
    BY <1>6, Numbers DEF TakeLine, AtSelect, Attached, LinesEnded, LineReady
  <2>2. EndTaken' <=> EndTaken
    BY <2>1, Received
  <2>3. CASE stdin = "open"
    <3>1. ~EndTaken' /\ loop' = "send"
      BY <1>6, <2>1, <2>2, <2>3 DEF TakeLine, IInv, Ends
    <3>2. TaskLines' = TaskLines \union {Next1}
      BY <2>1, <3>1, Received
    <3>3. Sending = {} /\ Sending' = {Next1}
      BY <2>1, <3>1 DEF Sending
    <3>4. QED BY <2>1, <3>2, <3>3 DEF IInv, Complete
  <2>4. CASE stdin # "open"
    <3>1. EndTaken' /\ loop' = "select"
      BY <1>6, <2>1, <2>2, <2>4 DEF TakeLine, IInv, Ends
    <3>2. TaskLines' = TaskLines
      BY <2>1, <3>1, Received
    <3>3. QED BY <2>1, <3>1, <3>2, CompleteSame DEF Sending, Attached
  <2>5. QED BY <2>3, <2>4
<1>7. CASE SendLine
  <2>1. UNCHANGED <<got, pipe, child, taken, answers, typed>> /\ loop = "send" /\ loop' = "select"
        /\ queue' = Append(queue, taken)
    BY <1>7 DEF SendLine
  <2>2. ToSet(queue') = ToSet(queue) \union {taken}
    <3> DEFINE q == Append(queue, taken)
    <3>1. /\ DOMAIN q = 1..(Len(queue) + 1) /\ DOMAIN queue = 1..Len(queue) /\ Len(queue) \in Nat
          /\ q[Len(queue) + 1] = taken /\ \A i \in 1..Len(queue) : q[i] = queue[i]
      BY <1>1
    <3> HIDE DEF q
    <3>2. 1..(Len(queue) + 1) = 1..Len(queue) \union {Len(queue) + 1}
      BY <3>1
    <3>3. ToSet(q) = ToSet(queue) \union {taken}
      BY <3>1, <3>2 DEF ToSet
    <3>4. QED BY <2>1, <3>3 DEF q
  <2>3. TaskLines' = TaskLines
    BY <2>1, NotReceived
  <2>4. QED BY <2>1, <2>2, <2>3 DEF IInv, Complete, Sending, Attached
<1>8. CASE WriteLine
  <2>1. /\ UNCHANGED <<got, child, taken, answers, typed, loop>>
        /\ queue # <<>> /\ queue' = Tail(queue)
        /\ child # "exited" => pipe' = Append(pipe, Head(queue))
    BY <1>8 DEF WriteLine
  <2>2. child # "exited" => ToSet(pipe') \union ToSet(queue') = ToSet(pipe) \union ToSet(queue)
    <3> SUFFICES ASSUME child # "exited"
                 PROVE  ToSet(pipe') \union ToSet(queue') = ToSet(pipe) \union ToSet(queue)
      OBVIOUS
    <3>1. /\ ToSet(queue) = {queue[1]} \union ToSet(Tail(queue))
          /\ ToSet(Append(pipe, Head(queue))) = ToSet(pipe) \union {queue[1]}
      BY <1>1, <2>1, Moved
    <3>2. QED BY <2>1, <3>1
  <2>3. TaskLines' = TaskLines
    BY <2>1, NotReceived
  <2>4. QED BY <2>1, <2>2, <2>3 DEF IInv, Complete, Sending, Attached
<1>9. CASE TaskReads
  <2>1. /\ UNCHANGED <<queue, child, taken, answers, typed, loop>>
        /\ pipe # <<>> /\ pipe' = Tail(pipe) /\ got' = Append(got, Head(pipe))
    BY <1>9 DEF TaskReads
  <2>2. ToSet(got') \union ToSet(pipe') = ToSet(got) \union ToSet(pipe)
    BY <1>1, <2>1, Moved
  <2>3. TaskLines' = TaskLines
    BY <2>1, NotReceived
  <2>4. QED BY <2>1, <2>2, <2>3 DEF IInv, Complete, Sending, Attached
<1>10. QED BY <1>2, <1>3, <1>4, <1>5, <1>6, <1>7, <1>8, <1>9
         DEF Next, Loop, TakeInput, Forwarder, Recorder

-----------------------------------------------------------------------------
(* The inductive invariant *)

\* The invariant holds at the start ...
LEMMA InitInvariant == Init => IInv
<1> SUFFICES ASSUME Init PROVE IInv
  OBVIOUS
<1> USE BoundAssumption, CapacityAssumption, InteractiveAssumption DEF Init
<1>1. <<>> \in BoundedSeq(Items, MaxTyped) /\ <<>> \in BoundedSeq(Signals, SignalBuffer)
  <2>1. <<>> \in Seq(Items) /\ <<>> \in Seq(Signals) /\ Len(<<>>) = 0 /\ SignalBuffer \in Nat
    BY DEF SignalBuffer
  <2>2. /\ BoundedSeq(Items, MaxTyped) = {s \in Seq(Items) : Len(s) <= MaxTyped}
        /\ BoundedSeq(Signals, SignalBuffer) = {s \in Seq(Signals) : Len(s) <= SignalBuffer}
    BY <2>1, BoundedSeqIs
  <2>3. 0 <= MaxTyped /\ 0 <= SignalBuffer
    BY DEF SignalBuffer
  <2>4. QED BY <2>1, <2>2, <2>3
<1>2. TypeOK
  <2>1. read \in 0..Len(typed) /\ taken \in 0..read
    OBVIOUS
  <2>2. ended \in BOOLEAN /\ listening \in BOOLEAN /\ prompting \in BOOLEAN /\ early \in BOOLEAN
        /\ hung \in BOOLEAN
    OBVIOUS
  <2>3. /\ queue \in Seq(1..MaxTyped) /\ Len(queue) <= Backlog
        /\ pipe \in Seq(1..MaxTyped) /\ Len(pipe) <= PipeSize
        /\ got \in Seq(1..MaxTyped) /\ Len(got) <= MaxTyped
    OBVIOUS
  <2>4. QED BY <1>1, <2>1, <2>2, <2>3 DEF TypeOK
<1>3. Ordered
  BY DEF Ordered, Increasing, Before, Below
<1>4. Complete
  BY DEF Complete, Sending, TaskLines, ToSet
<1>5. Ends
  BY DEF Ends, EndTaken, Attached
<1>6. IDFileRemoved
  BY DEF IDFileRemoved, Attached
<1>7. QED BY <1>2, <1>3, <1>4, <1>5, <1>6 DEF IInv

\* The run ID file goes with the command that made it.
LEMMA IDFileStep ==
    ASSUME IInv, Next
    PROVE  IDFileRemoved'
<1> USE DEF keyboard, control, forwarder, recorder, ghost, Attached, IInv, IDFileRemoved, AtSelect
<1>1. CASE Type \/ Signal \/ Reader \/ Forwarder
  BY <1>1 DEF Type, Signal, Reader, ReadItem, StopReading, Forwarder, WriteLine, CloseStdin
<1>2. CASE RecorderExited \/ Detach
  BY <1>2 DEF RecorderExited, Detach, Return
<1>3. CASE AnswerYes \/ InputEnds \/ TakeLine \/ SendLine \/ Prompt \/ Terminate
  BY <1>3 DEF AnswerYes, InputEnds, TakeLine, SendLine, Prompt, Terminate
<1>4. CASE Recorder
  BY <1>4 DEF Recorder, TaskReads, OpenIDFile, WriteIDFile, RecorderExits
<1>5. QED BY <1>1, <1>2, <1>3, <1>4 DEF Next, Loop, TakeInput

\* ... and after every step.
LEMMA NextInvariant == IInv /\ [Next]_vars => IInv'
<1> SUFFICES ASSUME IInv, [Next]_vars PROVE IInv'
  OBVIOUS
<1>1. CASE Next
  BY <1>1, TypeStep, OrderedStep, CompleteStep, EndsStep, IDFileStep DEF IInv
<1>2. CASE UNCHANGED vars
  <2> USE <1>2 DEF vars, keyboard, control, forwarder, recorder, ghost
  <2>1. TypeOK'
    BY DEF IInv, TypeOK
  <2>2. Ordered' /\ IDFileRemoved'
    BY DEF IInv, Ordered, IDFileRemoved, Attached
  <2>3. EndTaken' = EndTaken /\ TaskLines' = TaskLines
    BY DEF EndTaken, TaskLines
  <2>4. Complete' /\ Ends'
    BY <2>3 DEF IInv, Complete, Sending, Ends, Attached, LinesEnded
  <2>5. QED BY <2>1, <2>2, <2>4 DEF IInv
<1>3. QED BY <1>1, <1>2

-----------------------------------------------------------------------------
(* Theorems *)

\* How what is typed, received, queued, piped and read hangs together.
THEOREM Invariance == Spec => []IInv
BY InitInvariant, NextInvariant, PTL DEF Spec

\* Every variable keeps its type; no channel, pipe or input of the task ever
\* holds more than its capacity.
THEOREM TypeCorrect == Spec => []TypeOK
<1>1. IInv => TypeOK
  BY DEF IInv
<1>2. QED BY <1>1, Invariance, PTL

\* A sequence behind another that is all before it.
LEMMA OrderJoined ==
    ASSUME NEW s \in Seq(Nat), NEW t \in Seq(Nat), Increasing(s), Increasing(t), Before(s, t)
    PROVE  /\ s \o t \in Seq(Nat) /\ Increasing(s \o t) /\ ToSet(s \o t) = ToSet(s) \union ToSet(t)
           /\ \A u \in Seq(Nat) : Before(s, u) /\ Before(t, u) => Before(s \o t, u)
<1> DEFINE w == s \o t
           n == Len(s)
           m == Len(t)
<1>1. n \in Nat /\ m \in Nat /\ w \in Seq(Nat) /\ Len(w) = n + m
      /\ DOMAIN s = 1..n /\ DOMAIN t = 1..m /\ DOMAIN w = 1..(n + m)
  BY ConcatProperties
<1>2. \A i \in 1..(n + m) : w[i] = IF i <= n THEN s[i] ELSE t[i - n]
  BY ConcatProperties
<1> HIDE DEF w
<1>3. \A i \in 1..(n + m) : (i \in 1..n /\ w[i] = s[i]) \/ (i - n \in 1..m /\ i > n /\ w[i] = t[i - n])
  BY <1>1, <1>2
<1>4. Increasing(w)
  <2> SUFFICES ASSUME NEW i \in 1..(n + m), NEW j \in 1..(n + m), i < j PROVE w[i] < w[j]
    BY <1>1 DEF Increasing
  <2>1. CASE i \in 1..n /\ j \in 1..n
    <3>1. w[i] = s[i] /\ w[j] = s[j]
      BY <1>1, <1>3, <2>1
    <3>2. QED BY <2>1, <3>1 DEF Increasing
  <2>2. CASE i \in 1..n /\ j \notin 1..n
    <3>1. w[i] = s[i] /\ w[j] = t[j - n] /\ j - n \in 1..m
      BY <1>1, <1>3, <2>2
    <3>2. QED BY <2>2, <3>1 DEF Before
  <2>3. CASE i \notin 1..n
    <3>1. i - n \in 1..m /\ j - n \in 1..m /\ i - n < j - n /\ w[i] = t[i - n] /\ w[j] = t[j - n]
      <4>1. j \notin 1..n
        BY <1>1, <2>3
      <4>2. /\ i - n \in 1..m /\ w[i] = t[i - n]
            /\ j - n \in 1..m /\ w[j] = t[j - n]
        BY <1>3, <2>3, <4>1
      <4>3. i - n < j - n
        BY <1>1
      <4>4. QED BY <4>2, <4>3
    <3>2. QED BY <3>1 DEF Increasing
  <2>4. QED BY <2>1, <2>2, <2>3
<1>5. ToSet(w) = ToSet(s) \union ToSet(t)
  <2>1. \A i \in 1..n : i \in 1..(n + m) /\ w[i] = s[i]
    BY <1>1, <1>2
  <2>2. \A i \in 1..m : i + n \in 1..(n + m) /\ w[i + n] = t[i]
    <3> SUFFICES ASSUME NEW i \in 1..m PROVE i + n \in 1..(n + m) /\ w[i + n] = t[i]
      OBVIOUS
    <3>1. i + n \in 1..(n + m) /\ ~(i + n <= n) /\ (i + n) - n = i
      BY <1>1
    <3>2. w[i + n] = t[(i + n) - n]
      BY <1>2, <3>1
    <3>3. QED BY <3>1, <3>2
  <2>3. ToSet(s) \subseteq ToSet(w)
    BY <1>1, <2>1 DEF ToSet
  <2>4. ToSet(t) \subseteq ToSet(w)
    <3> SUFFICES ASSUME NEW i \in 1..m PROVE t[i] \in ToSet(w)
      BY <1>1 DEF ToSet
    <3>1. i + n \in DOMAIN w /\ w[i + n] = t[i]
      BY <1>1, <2>2
    <3>2. QED BY <3>1 DEF ToSet
  <2>5. ASSUME NEW i \in DOMAIN w PROVE w[i] \in ToSet(s) \union ToSet(t)
    <3>1. CASE i \in 1..n /\ w[i] = s[i]
      BY <1>1, <3>1 DEF ToSet
    <3>2. CASE i - n \in 1..m /\ w[i] = t[i - n]
      BY <1>1, <3>2 DEF ToSet
    <3>3. QED BY <1>1, <1>3, <3>1, <3>2
  <2>6. ToSet(w) \subseteq ToSet(s) \union ToSet(t)
    BY <2>5 DEF ToSet
  <2>7. QED BY <2>3, <2>4, <2>6
<1>6. ASSUME NEW u \in Seq(Nat), Before(s, u), Before(t, u) PROVE Before(w, u)
  BY <1>1, <1>3, <1>6 DEF Before
<1>7. QED BY <1>1, <1>4, <1>5, <1>6 DEF w

\* While the foreground is attached to a live recorder the task gets every line
\* that was not an answer, in order and once, and the end of its input last.
THEOREM InputOrdered == Spec => []InputInOrder
<1>1. IInv => InputInOrder
  <2> SUFFICES ASSUME IInv PROVE InputInOrder
    OBVIOUS
  <2> DEFINE last == IF loop = "send" THEN <<taken>> ELSE <<>>
             flow == got \o pipe \o queue \o last
  <2>1. got \in Seq(Nat) /\ pipe \in Seq(Nat) /\ queue \in Seq(Nat)
    <3>1. got \in Seq(1..MaxTyped) /\ pipe \in Seq(1..MaxTyped) /\ queue \in Seq(1..MaxTyped)
      BY DEF IInv, TypeOK
    <3>2. 1..MaxTyped \subseteq Nat
      OBVIOUS
    <3>3. QED BY <3>1, <3>2, SeqMonotonic
  <2>2. /\ last \in Seq(Nat) /\ Increasing(last) /\ ToSet(last) = Sending
        /\ Before(got, last) /\ Before(pipe, last) /\ Before(queue, last)
    <3>1. CASE loop = "send"
      <4>1. last = <<taken>> /\ taken \in Nat
        BY <3>1, Numbers
      <4>2. /\ <<taken>> \in Seq(Nat) /\ Len(<<taken>>) = 1 /\ <<taken>>[1] = taken
            /\ DOMAIN <<taken>> = {1} /\ 1..1 = {1}
        BY <4>1
      <4>3. QED BY <3>1, <4>1, <4>2 DEF IInv, Ordered, Increasing, Before, Below, ToSet, Sending
    <3>2. CASE loop # "send"
      BY <3>2 DEF Increasing, Before, ToSet, Sending
    <3>3. QED BY <3>1, <3>2
  <2> HIDE DEF last
  <2>3. LET u == got \o pipe IN
        /\ u \in Seq(Nat) /\ Increasing(u) /\ ToSet(u) = ToSet(got) \union ToSet(pipe)
        /\ Before(u, queue) /\ Before(u, last)
    BY <2>1, <2>2, OrderJoined DEF IInv, Ordered
  <2>4. LET u == got \o pipe \o queue IN
        /\ u \in Seq(Nat) /\ Increasing(u)
        /\ ToSet(u) = ToSet(got) \union ToSet(pipe) \union ToSet(queue) /\ Before(u, last)
    BY <2>1, <2>2, <2>3, OrderJoined DEF IInv, Ordered
  <2>5. /\ Increasing(flow)
        /\ ToSet(flow) = ToSet(got) \union ToSet(pipe) \union ToSet(queue) \union Sending
    BY <2>2, <2>4, OrderJoined
  <2>6. Attached /\ child # "exited" => ToSet(flow) = TaskLines
    BY <2>5 DEF IInv, Complete
  <2>7. Attached /\ stdin = "closed" => queue = <<>> /\ loop # "send"
    BY DEF IInv, Ends
  <2>8. QED BY <2>5, <2>6, <2>7 DEF InputInOrder, Increasing, last
<1>2. QED BY <1>1, Invariance, PTL

\* A command that has returned leaves no run ID file behind, however late the
\* recorder reports.
THEOREM IDFileGone == Spec => []IDFileRemoved
<1>1. IInv => IDFileRemoved
  BY DEF IInv
<1>2. QED BY <1>1, Invariance, PTL

=============================================================================
