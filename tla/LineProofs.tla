------------------------------ MODULE LineProofs ------------------------------
(***************************************************************************)
(* What is proved of one line of the crontab: of its day-of-week field,    *)
(* for fields of any length and steps of any size, WeekdaysKept; of the    *)
(* two arguments of its command, for texts over any alphabet and of any    *)
(* length, QuotingRoundTrips.                                              *)
(*                                                                         *)
(* The field: what a part becomes means what the part meant (PartAccepted, *)
(* PartDaysFired, PartDaysNamed); the field being written holds exactly    *)
(* what the parts read so far become (Gathered), and the parts left are    *)
(* the rest of the field (Remaining).                                      *)
(*                                                                         *)
(* The arguments: quoteCronArg writes one to five characters for each      *)
(* character of an argument (a piece).  cron, wherever a piece stands in a *)
(* line, goes through it from the state it has behind the character before *)
(* to the state it has behind this one, and passes on all but a percent    *)
(* sign's backslash (CronPiece); the shell goes through what was passed on *)
(* and adds just the character to its word (ShellPiece).  Piece by piece,  *)
(* both get through an argument (CronThrough, ShellThrough), and then      *)
(* through the two of an entry (ArgumentsArrive).  "Piece by piece" is the *)
(* least piece for which it would fail (LeastElement, Reaches).            *)
(***************************************************************************)
EXTENDS Weekdays, Entry, SequenceTheorems, NaturalsInduction, WellFoundedInduction, TLAPS

\* How many parts have been read.
PartsRead == Len(dow) - Len(todo)

Remaining ==
    /\ Len(todo) <= Len(dow)
    /\ \A i \in 1..Len(todo) : todo[i] = dow[PartsRead + i]

Gathered == ToSet(expr) = UNION {ToSet(NormalizedPart(dow[i])) : i \in 1..PartsRead}

SeqsOfParts == dow \in Seq(Parts) /\ todo \in Seq(Parts) /\ expr \in Seq(Parts)

FieldInv == SeqsOfParts /\ Remaining /\ Gathered

-----------------------------------------------------------------------------
(* A part *)

\* Every part has the fields of one.
LEMMA PartFields ==
    ASSUME NEW p \in Parts
    PROVE  /\ p.low \in 0..7 /\ p.high \in 0..7 /\ p.step \in 0..MaxStep
           /\ \/ p.kind = "star" /\ p.low = 0 /\ p.high = 7
              \/ p.kind = "day" /\ p.low = p.high /\ p.step = 0
              \/ p.kind = "range"
BY FieldAssumption DEF Parts, Star, Day, Days

\* The cases of NormalizedPart, each with the parts it gives.
Unchanged(p)    == (p.kind = "star" \/ p.high # 7) /\ ToSet(NormalizedPart(p)) = {p}
Sunday(p)       == p.kind # "star" /\ p.low = 7 /\ p.high = 7 /\ p.step = 0
                     /\ ToSet(NormalizedPart(p)) = {Day(0, 0)}
SteppedOnly(p)  == p.kind = "range" /\ p.low = 7 /\ p.high = 7 /\ p.step # 0
                     /\ ToSet(NormalizedPart(p)) = {Days(0, 0, p.step)}
UpToSunday(p)   == p.kind = "range" /\ p.low < 7 /\ p.high = 7 /\ p.step = 0
                     /\ ToSet(NormalizedPart(p)) = {Days(p.low, 6, 0), Day(0, 0)}
SteppedUpTo(p)  == p.kind = "range" /\ p.low < 7 /\ p.high = 7 /\ p.step # 0
                     /\ ToSet(NormalizedPart(p)) = {Days(p.low, 6, p.step)}

\* The elements of the sequences NormalizedPart builds.
LEMMA SingleElement ==
    ASSUME NEW e
    PROVE  ToSet(<<e>>) = {e}
BY DEF ToSet

\* ... and of one of two.
LEMMA TwoElements ==
    ASSUME NEW e, NEW f
    PROVE  ToSet(<<e, f>>) = {e, f}
<1>1. DOMAIN <<e, f>> = {1, 2}
  OBVIOUS
<1>2. QED BY <1>1 DEF ToSet

\* A part is one of these, and gives parts.
LEMMA PartCases ==
    ASSUME NEW p \in Parts
    PROVE  /\ Unchanged(p) \/ Sunday(p) \/ SteppedOnly(p) \/ UpToSunday(p) \/ SteppedUpTo(p)
           /\ NormalizedPart(p) \in Seq(Parts)
<1>1. /\ p.low \in 0..7 /\ p.high \in 0..7 /\ p.step \in 0..MaxStep
      /\ \/ p.kind = "star" /\ p.low = 0 /\ p.high = 7
         \/ p.kind = "day" /\ p.low = p.high /\ p.step = 0
         \/ p.kind = "range"
  BY PartFields
<1>2. /\ Day(0, 0) \in Parts
      /\ \A l, h \in 0..7, s \in 0..MaxStep : Days(l, h, s) \in Parts
  BY FieldAssumption DEF Parts
<1>3. CASE p.kind = "star" \/ p.high # 7
  <2>1. NormalizedPart(p) = <<p>>
    BY <1>3 DEF NormalizedPart
  <2>2. QED BY <2>1, <1>3, SingleElement DEF Unchanged
<1>4. CASE p.kind # "star" /\ p.high = 7 /\ p.low = 7 /\ p.step = 0
  <2>1. NormalizedPart(p) = <<Day(0, 0)>>
    BY <1>4 DEF NormalizedPart
  <2>2. QED BY <2>1, <1>2, <1>4, SingleElement DEF Sunday
<1>5. CASE p.kind # "star" /\ p.high = 7 /\ p.low = 7 /\ p.step # 0
  <2>1. NormalizedPart(p) = <<Days(0, 0, p.step)>>
    BY <1>1, <1>5 DEF NormalizedPart
  <2>2. Days(0, 0, p.step) \in Parts
    BY <1>1, <1>2
  <2>3. QED BY <2>1, <2>2, <1>1, <1>5, SingleElement DEF SteppedOnly
<1>6. CASE p.kind # "star" /\ p.high = 7 /\ p.low # 7 /\ p.step = 0
  <2>1. NormalizedPart(p) = <<Days(p.low, 6, 0), Day(0, 0)>>
    BY <1>1, <1>6 DEF NormalizedPart
  <2>2. Days(p.low, 6, 0) \in Parts
    BY <1>1, <1>2, <1>6
  <2>3. QED BY <2>1, <2>2, <1>1, <1>2, <1>6, TwoElements DEF UpToSunday
<1>7. CASE p.kind # "star" /\ p.high = 7 /\ p.low # 7 /\ p.step # 0
  <2>1. NormalizedPart(p) = <<Days(p.low, 6, p.step)>>
    BY <1>1, <1>7 DEF NormalizedPart
  <2>2. Days(p.low, 6, p.step) \in Parts
    BY <1>1, <1>2
  <2>3. QED BY <2>1, <2>2, <1>1, <1>7, SingleElement DEF SteppedUpTo
<1>8. QED BY <1>3, <1>4, <1>5, <1>6, <1>7

\* The parser takes what a part becomes exactly when the part means something
\* to cron (cronrc.go:123-156).
LEMMA PartAccepted ==
    ASSUME NEW p \in Parts
    PROVE  (\A q \in ToSet(NormalizedPart(p)) : Accepts(q)) <=> Meaningful(p)
<1>1. /\ p.low \in 0..7 /\ p.high \in 0..7 /\ p.step \in 0..MaxStep
      /\ \/ p.kind = "star" /\ p.low = 0 /\ p.high = 7
         \/ p.kind = "day" /\ p.low = p.high /\ p.step = 0
         \/ p.kind = "range"
  BY PartFields
<1>2. QED BY <1>1, PartCases
       DEF Unchanged, Sunday, SteppedOnly, UpToSunday, SteppedUpTo, Accepts, Meaningful, Day, Days

\* The days of a part, to cron and to the parser: n names a day of the week.
Named(p, n) == \E q \in ToSet(NormalizedPart(p)) : n \in DaysUpTo(q, 6)
FiredOn(p, n) == \E d \in DaysUpTo(p, 7) : d % 7 = n

\* What a part becomes names days on which cron fires it.
LEMMA PartDaysFired ==
    ASSUME NEW p \in Parts, NEW n, Meaningful(p), Named(p, n)
    PROVE  FiredOn(p, n)
<1>1. /\ p.low \in 0..7 /\ p.high \in 0..7 /\ p.step \in 0..MaxStep
      /\ \/ p.kind = "star" /\ p.low = 0 /\ p.high = 7
         \/ p.kind = "day" /\ p.low = p.high /\ p.step = 0
         \/ p.kind = "range"
  BY PartFields
<1>2. \A d \in 0..6 : d % 7 = d
  OBVIOUS
<1>3. 7 % 7 = 0
  OBVIOUS
<1>4. CASE Unchanged(p)
  <2>1. n \in DaysUpTo(p, 6)
    BY <1>4 DEF Named, Unchanged
  <2>2. n \in DaysUpTo(p, 7) /\ n \in 0..6
    BY <2>1, <1>1, <1>4 DEF DaysUpTo, Unchanged
  <2>3. QED BY <2>2, <1>2 DEF FiredOn
<1>5. CASE Sunday(p)
  <2>1. n = 0
    BY <1>5 DEF Named, Sunday, DaysUpTo, Day
  <2>2. 7 \in DaysUpTo(p, 7)
    BY <1>1, <1>5 DEF Sunday, DaysUpTo
  <2>3. QED BY <2>1, <2>2, <1>3 DEF FiredOn
<1>6. CASE SteppedOnly(p)
  <2>1. n = 0 /\ (0 - 0) % p.step = 0
    BY <1>6, <1>1 DEF Named, SteppedOnly, DaysUpTo, Days
  <2>2. 7 \in DaysUpTo(p, 7)
    BY <2>1, <1>1, <1>6 DEF SteppedOnly, DaysUpTo
  <2>3. QED BY <2>1, <2>2, <1>3 DEF FiredOn
<1>7. CASE UpToSunday(p)
  <2>1. n \in p.low..6 \/ n = 0
    BY <1>7, <1>1 DEF Named, UpToSunday, DaysUpTo, Days, Day
  <2>2. \A d \in p.low..7 : d \in DaysUpTo(p, 7)
    BY <1>1, <1>7 DEF UpToSunday, DaysUpTo
  <2>3. CASE n \in p.low..6
    BY <2>2, <2>3, <1>1, <1>2 DEF FiredOn
  <2>4. CASE n = 0
    <3>1. 7 \in DaysUpTo(p, 7)
      BY <2>2, <1>1
    <3>2. QED BY <3>1, <2>4, <1>3 DEF FiredOn
  <2>5. QED BY <2>1, <2>3, <2>4
<1>8. CASE SteppedUpTo(p)
  <2>1. n \in p.low..6 /\ (n - p.low) % p.step = 0
    BY <1>8, <1>1 DEF Named, SteppedUpTo, DaysUpTo, Days
  <2>2. n \in DaysUpTo(p, 7) /\ n \in 0..6
    BY <2>1, <1>1, <1>8 DEF SteppedUpTo, DaysUpTo
  <2>3. QED BY <2>2, <1>2 DEF FiredOn
<1>9. QED BY <1>4, <1>5, <1>6, <1>7, <1>8, PartCases

\* Of a part that is no stepped range up to 7, it names them all.
LEMMA PartDaysNamed ==
    ASSUME NEW p \in Parts, NEW n, FiredOn(p, n),
           ~(p.kind = "range" /\ p.high = 7 /\ p.step # 0)
    PROVE  Named(p, n)
<1>1. /\ p.low \in 0..7 /\ p.high \in 0..7 /\ p.step \in 0..MaxStep
      /\ \/ p.kind = "star" /\ p.low = 0 /\ p.high = 7
         \/ p.kind = "day" /\ p.low = p.high /\ p.step = 0
         \/ p.kind = "range"
  BY PartFields
<1>2. PICK d \in DaysUpTo(p, 7) : d % 7 = n
  BY DEF FiredOn
<1>3. d \in p.low..7 /\ d \in 0..7
  BY <1>1 DEF DaysUpTo
<1>4. n = IF d = 7 THEN 0 ELSE d
  BY <1>2, <1>3
<1>5. CASE Unchanged(p) /\ d # 7
  <2>1. d \in DaysUpTo(p, 6)
    BY <1>1, <1>3, <1>5 DEF DaysUpTo, Unchanged
  <2>2. QED BY <2>1, <1>4, <1>5 DEF Named, Unchanged
<1>6. CASE Unchanged(p) /\ d = 7
  <2>1. p.kind = "star" /\ p.low = 0
    BY <1>1, <1>6 DEF DaysUpTo, Unchanged
  <2>2. \A s \in Nat \ {0} : 0 % s = 0
    OBVIOUS
  <2>3. 0 \in DaysUpTo(p, 6)
    BY <2>1, <2>2, <1>1 DEF DaysUpTo
  <2>4. QED BY <2>3, <1>4, <1>6 DEF Named, Unchanged
<1>7. CASE Sunday(p)
  <2>1. d = 7
    BY <1>1, <1>3, <1>7 DEF Sunday, DaysUpTo
  <2>2. 0 \in DaysUpTo(Day(0, 0), 6)
    BY DEF DaysUpTo, Day
  <2>3. QED BY <2>1, <2>2, <1>4, <1>7 DEF Named, Sunday
<1>8. CASE UpToSunday(p)
  <2>1. CASE d = 7
    <3>1. 0 \in DaysUpTo(Day(0, 0), 6)
      BY DEF DaysUpTo, Day
    <3>2. QED BY <3>1, <2>1, <1>4, <1>8 DEF Named, UpToSunday
  <2>2. CASE d # 7
    <3>1. d \in DaysUpTo(Days(p.low, 6, 0), 6)
      BY <2>2, <1>1, <1>3 DEF DaysUpTo, Days
    <3>2. QED BY <3>1, <2>2, <1>4, <1>8 DEF Named, UpToSunday
  <2>3. QED BY <2>1, <2>2
<1>9. QED
  BY <1>5, <1>6, <1>7, <1>8, PartCases DEF SteppedOnly, SteppedUpTo

-----------------------------------------------------------------------------
(* The field *)

\* The fields explored are sequences of parts.
LEMMA FieldIsSeq ==
    ASSUME NEW f \in Fields
    PROVE  f \in Seq(Parts)
<1>1. PICK m \in 0..MaxParts : f \in [1..m -> Parts]
  BY DEF Fields, BoundedSeq, SeqOf
<1>2. QED BY <1>1, FieldAssumption

\* The elements of two sequences put together.
LEMMA ConcatElements ==
    ASSUME NEW S, NEW s \in Seq(S), NEW t \in Seq(S)
    PROVE  ToSet(s \o t) = ToSet(s) \union ToSet(t)
<1>1. /\ s \o t \in Seq(S) /\ Len(s) \in Nat /\ Len(t) \in Nat
      /\ DOMAIN s = 1..Len(s) /\ DOMAIN t = 1..Len(t)
      /\ DOMAIN (s \o t) = 1..(Len(s) + Len(t))
      /\ \A i \in 1..(Len(s) + Len(t)) : (s \o t)[i] = IF i <= Len(s) THEN s[i] ELSE t[i - Len(s)]
  BY ConcatProperties
<1>2. ASSUME NEW e \in ToSet(s \o t) PROVE e \in ToSet(s) \union ToSet(t)
  <2>1. PICK i \in 1..(Len(s) + Len(t)) : e = (s \o t)[i]
    BY <1>1, <1>2 DEF ToSet
  <2>2. QED BY <2>1, <1>1 DEF ToSet
<1>3. ASSUME NEW e \in ToSet(s) PROVE e \in ToSet(s \o t)
  <2>1. PICK i \in 1..Len(s) : e = s[i]
    BY <1>1, <1>3 DEF ToSet
  <2>2. i \in 1..(Len(s) + Len(t)) /\ (s \o t)[i] = e
    BY <2>1, <1>1
  <2>3. QED BY <2>2, <1>1 DEF ToSet
<1>4. ASSUME NEW e \in ToSet(t) PROVE e \in ToSet(s \o t)
  <2>1. PICK i \in 1..Len(t) : e = t[i]
    BY <1>1, <1>4 DEF ToSet
  <2>2. i + Len(s) \in 1..(Len(s) + Len(t)) /\ (s \o t)[i + Len(s)] = e
    BY <2>1, <1>1
  <2>3. QED BY <2>2, <1>1 DEF ToSet
<1>5. QED BY <1>2, <1>3, <1>4

\* Nothing is read at first.
LEMMA FieldInit == DowInit => FieldInv
<1> SUFFICES ASSUME DowInit PROVE FieldInv
  OBVIOUS
<1>1. dow \in Seq(Parts) /\ todo = dow /\ expr = <<>>
  BY FieldIsSeq DEF DowInit
<1>2. SeqsOfParts /\ PartsRead = 0 /\ Remaining
  BY <1>1 DEF SeqsOfParts, PartsRead, Remaining
<1>3. ToSet(expr) = {}
  BY <1>1 DEF ToSet
<1>4. Gathered
  BY <1>2, <1>3 DEF Gathered
<1>5. QED BY <1>2, <1>4 DEF FieldInv

\* A step reads the next part and writes what it becomes.
LEMMA FieldStep ==
    ASSUME FieldInv, Normalize
    PROVE  FieldInv'
<1>1. /\ dow \in Seq(Parts) /\ todo \in Seq(Parts) /\ expr \in Seq(Parts)
      /\ Len(dow) \in Nat /\ Len(todo) \in Nat /\ Len(todo) > 0 /\ Len(todo) <= Len(dow)
      /\ PartsRead \in Nat
  <2>1. dow \in Seq(Parts) /\ todo \in Seq(Parts) /\ expr \in Seq(Parts) /\ todo # <<>>
    BY DEF FieldInv, SeqsOfParts, Normalize
  <2>2. Len(dow) \in Nat /\ Len(todo) \in Nat /\ Len(todo) <= Len(dow) /\ Len(todo) # 0
    BY <2>1, EmptySeq DEF FieldInv, Remaining
  <2>3. QED BY <2>1, <2>2 DEF PartsRead
<1>2. /\ dow' = dow /\ todo' = Tail(todo) /\ expr' = expr \o NormalizedPart(Head(todo))
  BY DEF Normalize
<1>3. /\ Tail(todo) \in Seq(Parts) /\ Len(Tail(todo)) = Len(todo) - 1
      /\ \A i \in 1..Len(Tail(todo)) : Tail(todo)[i] = todo[i + 1]
      /\ Head(todo) = todo[1]
  BY <1>1
<1>4. Head(todo) = dow[PartsRead + 1] /\ Head(todo) \in Parts
  BY <1>1, <1>3 DEF FieldInv, Remaining
<1>5. NormalizedPart(Head(todo)) \in Seq(Parts)
  BY <1>4, PartCases
<1>6. SeqsOfParts'
  BY <1>1, <1>2, <1>3, <1>5, ConcatProperties DEF SeqsOfParts
<1>7. PartsRead' = PartsRead + 1
  BY <1>1, <1>2, <1>3 DEF PartsRead
<1>8. Remaining'
  <2>1. Len(todo') <= Len(dow')
    BY <1>1, <1>2, <1>3
  <2>2. ASSUME NEW i \in 1..Len(todo') PROVE todo'[i] = dow'[PartsRead' + i]
    <3>1. i + 1 \in 1..Len(todo) /\ i \in 1..Len(Tail(todo)) /\ PartsRead + (i + 1) = (PartsRead + 1) + i
      BY <1>1, <1>2, <1>3, <2>2
    <3>2. todo[i + 1] = dow[PartsRead + (i + 1)]
      BY <3>1 DEF FieldInv, Remaining
    <3>3. QED BY <3>1, <3>2, <1>2, <1>3, <1>7
  <2>3. QED BY <2>1, <2>2 DEF Remaining
<1>9. Gathered'
  <2>1. ToSet(expr') = ToSet(expr) \union ToSet(NormalizedPart(dow[PartsRead + 1]))
    BY <1>1, <1>2, <1>4, <1>5, ConcatElements
  <2>2. 1..(PartsRead + 1) = (1..PartsRead) \union {PartsRead + 1}
    BY <1>1
  <2>3. ToSet(expr) = UNION {ToSet(NormalizedPart(dow[i])) : i \in 1..PartsRead}
    BY DEF FieldInv, Gathered
  <2>4. ToSet(expr') = UNION {ToSet(NormalizedPart(dow[i])) : i \in 1..(PartsRead + 1)}
    BY <2>1, <2>2, <2>3
  <2>5. QED BY <2>4, <1>2, <1>7 DEF Gathered
<1>10. QED BY <1>6, <1>8, <1>9 DEF FieldInv

\* What the rewritten field holds is what every part of the field becomes.
LEMMA AllGathered ==
    ASSUME FieldInv, Rewritten
    PROVE  /\ dow \in Seq(Parts) /\ DOMAIN dow = 1..Len(dow)
           /\ ToSet(expr) = UNION {ToSet(NormalizedPart(dow[i])) : i \in DOMAIN dow}
<1>1. dow \in Seq(Parts) /\ DOMAIN dow = 1..Len(dow)
  BY DEF FieldInv, SeqsOfParts
<1>2. PartsRead = Len(dow)
  BY <1>1 DEF PartsRead, Rewritten
<1>3. QED BY <1>1, <1>2 DEF FieldInv, Gathered

\* Hence the property.
LEMMA DaysOfInv == FieldInv => WeekdaysKept
<1> SUFFICES ASSUME FieldInv, Rewritten
             PROVE  /\ IsAccepted <=> \A i \in DOMAIN dow : Meaningful(dow[i])
                    /\ IsAccepted =>
                         /\ Described(expr) \subseteq Fired(dow)
                         /\ \/ Described(expr) = Fired(dow)
                            \/ \E i \in DOMAIN dow :
                                 dow[i].kind = "range" /\ dow[i].high = 7 /\ dow[i].step # 0
  BY DEF WeekdaysKept
<1>1. /\ \A i \in DOMAIN dow : dow[i] \in Parts
      /\ ToSet(expr) = UNION {ToSet(NormalizedPart(dow[i])) : i \in DOMAIN dow}
  BY AllGathered, ElementOfSeq
<1>2. IsAccepted <=> \A i \in DOMAIN dow : Meaningful(dow[i])
  <2>1. IsAccepted <=> \A q \in ToSet(expr) : Accepts(q)
    BY DEF IsAccepted, ToSet
  <2>2. IsAccepted <=> \A i \in DOMAIN dow : \A q \in ToSet(NormalizedPart(dow[i])) : Accepts(q)
    BY <2>1, <1>1
  <2>3. QED BY <2>2, <1>1, PartAccepted
<1>3. \A n : n \in Described(expr) <=> \E i \in DOMAIN dow : Named(dow[i], n)
  <2>1. \A n : n \in Described(expr) <=> \E q \in ToSet(expr) : n \in DaysUpTo(q, 6)
    BY DEF Described, ToSet
  <2>2. QED BY <2>1, <1>1 DEF Named
<1>4. \A n : n \in Fired(dow) <=> \E i \in DOMAIN dow : FiredOn(dow[i], n)
  BY DEF Fired, FiredOn
<1>5. ASSUME IsAccepted, NEW n \in Described(expr) PROVE n \in Fired(dow)
  <2>1. PICK i \in DOMAIN dow : Named(dow[i], n)
    BY <1>3, <1>5
  <2>2. dow[i] \in Parts /\ Meaningful(dow[i])
    BY <1>1, <1>2, <1>5
  <2>3. FiredOn(dow[i], n)
    BY <2>1, <2>2, PartDaysFired
  <2>4. QED BY <2>3, <1>4
<1>6. ASSUME ~ \E i \in DOMAIN dow : dow[i].kind = "range" /\ dow[i].high = 7 /\ dow[i].step # 0,
             NEW n \in Fired(dow)
      PROVE  n \in Described(expr)
  <2>1. PICK i \in DOMAIN dow : FiredOn(dow[i], n)
    BY <1>4, <1>6
  <2>2. Named(dow[i], n)
    BY <2>1, <1>1, <1>6, PartDaysNamed
  <2>3. QED BY <2>2, <1>3
<1>7. QED BY <1>2, <1>5, <1>6

-----------------------------------------------------------------------------
(* The day-of-week field: theorems *)

\* The field being written holds exactly what the parts read become, and the
\* parts left are the rest of the field (cronrc.go:123-156).
THEOREM FieldInvariance == DowSpec => []FieldInv
<1>1. FieldInv /\ UNCHANGED fieldVars => FieldInv'
  BY DEF FieldInv, SeqsOfParts, Remaining, Gathered, PartsRead, fieldVars
<1>2. FieldInv /\ [Normalize]_fieldVars => FieldInv'
  BY <1>1, FieldStep
<1>3. QED BY FieldInit, <1>2, PTL DEF DowSpec

\* Of a field of any length, with steps of any size: exactly the fields that mean
\* something to cron are accepted, and an accepted one is described with days on
\* which cron fires, all of them without a stepped range up to 7
\* (cronrc.go:123-156, description.go:31).
THEOREM DaysAreKept == DowSpec => []WeekdaysKept
<1>1. QED BY FieldInvariance, DaysOfInv, PTL

-----------------------------------------------------------------------------
(* Functions of how much of a text has been read *)

Below == {pair \in Nat \X Nat : pair[1] < pair[2]}

\* A nonempty set of naturals has a least element: the induction of this module.
LEMMA LeastElement ==
    ASSUME NEW T, T \subseteq Nat, T # {}
    PROVE  \E x \in T : \A y \in T : x <= y
<1>1. IsWellFoundedOn(Below, Nat)
  BY NatLessThanWellFounded DEF Below, OpToRel
<1>2. PICK x \in T : \A y \in T : <<y, x>> \notin Below
  BY <1>1, WFMin
<1>3. ASSUME NEW y \in T PROVE x <= y
  <2>1. <<y, x>> \in Nat \X Nat /\ <<y, x>> \notin Below
    BY <1>2
  <2>2. ~(y < x)
    BY <2>1 DEF Below
  <2>3. QED BY <2>2
<1>4. QED BY <1>3

\* A set of naturals that has 0 and with every k below n also k + 1 has all up to n.
LEMMA Reaches ==
    ASSUME NEW n \in Nat, NEW T, 0 \in T, \A k \in 1..n : k - 1 \in T => k \in T
    PROVE  \A k \in 0..n : k \in T
<1> DEFINE Out == {k \in 0..n : k \notin T}
<1> SUFFICES ASSUME Out # {} PROVE FALSE
  OBVIOUS
<1>1. PICK k \in Out : \A y \in Out : k <= y
  <2>1. Out \subseteq Nat
    OBVIOUS
  <2> HIDE DEF Out
  <2>2. QED BY <2>1, LeastElement
<1>2. k \in 1..n
  BY <1>1
<1>3. k - 1 \in 0..n /\ k - 1 \notin Out
  BY <1>1, <1>2
<1>4. QED BY <1>1, <1>2, <1>3

\* f is the states, among Q, that the n steps of d go through from q.
Steps(Q, n) == [(1..n) \X Q -> Q]
Follows(f, Q, q, n, d) ==
    f \in [0..n -> Q] /\ f[0] = q /\ \A i \in 1..n : f[i] = d[<<i, f[i - 1]>>]

\* Steps that stay among the states Q define a state for each i in 0..n.
LEMMA Recursion ==
    ASSUME NEW Q, NEW q \in Q, NEW n \in Nat, NEW d \in Steps(Q, n)
    PROVE  \E f : Follows(f, Q, q, n, d)
<1> USE DEF Steps
<1> DEFINE Is(f, k) == f[0] = q /\ \A i \in 1..k : f[i] = d[<<i, f[i - 1]>>]
           Defined == {k \in 0..n : \E f \in [0..k -> Q] : Is(f, k)}
<1>1. 0 \in Defined
  <2> DEFINE f == [i \in 0..0 |-> q]
  <2>1. f \in [0..0 -> Q] /\ Is(f, 0)
    OBVIOUS
  <2> HIDE DEF f
  <2>2. QED BY <2>1
<1>2. ASSUME NEW k \in 1..n, k - 1 \in Defined PROVE k \in Defined
  <2>1. PICK g \in [0..(k - 1) -> Q] : Is(g, k - 1)
    BY <1>2
  <2> DEFINE f == [i \in 0..k |-> IF i = k THEN d[<<k, g[k - 1]>>] ELSE g[i]]
  <2>2. d[<<k, g[k - 1]>>] \in Q
    BY <2>1
  <2>3. f \in [0..k -> Q]
    BY <2>1, <2>2
  <2>4. f[0] = q
    BY <2>1
  <2>5. ASSUME NEW i \in 1..k PROVE f[i] = d[<<i, f[i - 1]>>]
    <3>1. i - 1 \in 0..(k - 1) /\ f[i - 1] = g[i - 1]
      BY <2>5
    <3>2. CASE i = k
      <4>1. <<i, f[i - 1]>> = <<k, g[k - 1]>>
        BY <3>1, <3>2
      <4>2. f[i] = d[<<k, g[k - 1]>>]
        BY <3>2
      <4>3. QED BY <4>1, <4>2
    <3>3. CASE i # k
      BY <3>1, <3>3, <2>1
    <3>4. QED BY <3>2, <3>3
  <2> HIDE DEF f
  <2>6. QED BY <2>3, <2>4, <2>5
<1>3. n \in Defined
  <2> HIDE DEF Defined
  <2>1. QED BY <1>1, <1>2, Reaches
<1>4. QED BY <1>3 DEF Follows

\* A function that starts among the states Q and stays there.
LEMMA Stays ==
    ASSUME NEW Q, NEW n \in Nat, NEW g, g = [i \in 0..n |-> g[i]], g[0] \in Q,
           \A i \in 1..n : g[i - 1] \in Q => g[i] \in Q
    PROVE  g \in [0..n -> Q]
<1> DEFINE Staying == {i \in 0..n : g[i] \in Q}
<1>1. 0 \in Staying /\ \A k \in 1..n : k - 1 \in Staying => k \in Staying
  OBVIOUS
<1>2. \A i \in 0..n : i \in Staying
  <2> HIDE DEF Staying
  <2>1. QED BY <1>1, Reaches
<1>3. QED BY <1>2

-----------------------------------------------------------------------------
(* Sequences *)

\* A sequence with some more at its end, one after the other.
LEMMA AppendOne ==
    ASSUME NEW T, NEW x \in Seq(T), NEW y \in Seq(T), NEW a \in T
    PROVE  /\ y \o <<a>> = Append(y, a) /\ Append(y, a) \in Seq(T)
           /\ x \o Append(y, a) = Append(x \o y, a)
<1>1. y \o <<a>> = Append(y, a) /\ Append(y, a) \in Seq(T)
  OBVIOUS
<1>2. x \o Append(y, a) = Append(x \o y, a)
  <2>1. /\ x \o y \in Seq(T) /\ x \o Append(y, a) \in Seq(T) /\ Append(x \o y, a) \in Seq(T)
        /\ Len(x \o Append(y, a)) = Len(x) + Len(y) + 1
        /\ Len(Append(x \o y, a)) = Len(x) + Len(y) + 1
    OBVIOUS
  <2>2. ASSUME NEW i \in 1..(Len(x) + Len(y) + 1)
        PROVE  (x \o Append(y, a))[i] = Append(x \o y, a)[i]
    OBVIOUS
  <2>3. QED BY <2>1, <2>2, SeqEqual
<1>3. QED BY <1>1, <1>2

\* Three elements more,
LEMMA AppendThree ==
    ASSUME NEW T, NEW y \in Seq(T), NEW a \in T, NEW b \in T, NEW c \in T
    PROVE  y \o <<a, b, c>> = Append(Append(Append(y, a), b), c)
<1>1. <<a, b, c>> \in Seq(T) /\ Len(<<a, b, c>>) = 3
  OBVIOUS
<1>2. /\ y \o <<a, b, c>> \in Seq(T) /\ Append(Append(Append(y, a), b), c) \in Seq(T)
      /\ Len(y \o <<a, b, c>>) = Len(y) + 3 /\ Len(Append(Append(Append(y, a), b), c)) = Len(y) + 3
  BY <1>1
<1>3. ASSUME NEW i \in 1..(Len(y) + 3)
      PROVE  (y \o <<a, b, c>>)[i] = Append(Append(Append(y, a), b), c)[i]
  BY <1>1
<1>4. QED BY <1>2, <1>3, SeqEqual

\* and five.
LEMMA AppendFive ==
    ASSUME NEW T, NEW y \in Seq(T), NEW a \in T, NEW b \in T
    PROVE  y \o <<a, b, a, b, a>> = Append(Append(Append(Append(Append(y, a), b), a), b), a)
<1>1. <<a, b, a, b, a>> \in Seq(T) /\ Len(<<a, b, a, b, a>>) = 5
  OBVIOUS
<1> DEFINE z == Append(Append(Append(Append(Append(y, a), b), a), b), a)
<1>2. /\ y \o <<a, b, a, b, a>> \in Seq(T) /\ z \in Seq(T)
      /\ Len(y \o <<a, b, a, b, a>>) = Len(y) + 5 /\ Len(z) = Len(y) + 5
  BY <1>1
<1>3. ASSUME NEW i \in 1..(Len(y) + 5)
      PROVE  (y \o <<a, b, a, b, a>>)[i] = z[i]
  BY <1>1
<1>4. QED BY <1>2, <1>3, SeqEqual

\* One more element of an initial part.
LEMMA InitialPart ==
    ASSUME NEW T, NEW s \in Seq(T), NEW i \in 1..Len(s)
    PROVE  /\ SubSeq(s, 1, i) = Append(SubSeq(s, 1, i - 1), s[i])
           /\ SubSeq(s, 1, i - 1) \in Seq(T) /\ s[i] \in T
<1>1. /\ SubSeq(s, 1, i) \in Seq(T) /\ SubSeq(s, 1, i - 1) \in Seq(T)
      /\ Len(SubSeq(s, 1, i)) = i /\ Len(SubSeq(s, 1, i - 1)) = i - 1
      /\ \A j \in 1..i : SubSeq(s, 1, i)[j] = s[j]
      /\ \A j \in 1..(i - 1) : SubSeq(s, 1, i - 1)[j] = s[j]
  OBVIOUS
<1>2. s[i] \in T
  OBVIOUS
<1>3. /\ Append(SubSeq(s, 1, i - 1), s[i]) \in Seq(T)
      /\ Len(Append(SubSeq(s, 1, i - 1), s[i])) = i
      /\ \A j \in 1..i : Append(SubSeq(s, 1, i - 1), s[i])[j] = s[j]
  BY <1>1, <1>2
<1>4. QED BY <1>1, <1>2, <1>3, SeqEqual

\* Sequences that grow at their end keep what they had.
Growing(T, n, y) ==
    y \in [0..n -> Seq(T)] /\ \A i \in 1..n : \E t \in Seq(T) : y[i] = y[i - 1] \o t

Grown(n, y) ==
    \A j \in 0..n : \A i \in 0..j :
      Len(y[i]) <= Len(y[j]) /\ \A k \in 1..Len(y[i]) : y[j][k] = y[i][k]

\* What grows keeps, at every place, what it had.
LEMMA Grows ==
    ASSUME NEW T, NEW n \in Nat, NEW y, Growing(T, n, y)
    PROVE  Grown(n, y)
<1> USE DEF Growing, Grown
<1> DEFINE Has(j) == \A i \in 0..j :
             Len(y[i]) <= Len(y[j]) /\ \A k \in 1..Len(y[i]) : y[j][k] = y[i][k]
           Having == {j \in 0..n : Has(j)}
<1>1. 0 \in Having
  OBVIOUS
<1>2. ASSUME NEW j \in 1..n, j - 1 \in Having PROVE j \in Having
  <2>1. PICK t \in Seq(T) : y[j] = y[j - 1] \o t
    OBVIOUS
  <2>2. y[j - 1] \in Seq(T) /\ y[j] \in Seq(T)
    OBVIOUS
  <2>3. /\ Len(y[j]) = Len(y[j - 1]) + Len(t) /\ Len(t) \in Nat /\ Len(y[j - 1]) \in Nat
        /\ \A k \in 1..Len(y[j - 1]) : y[j][k] = y[j - 1][k]
    BY <2>1, <2>2, ConcatProperties
  <2>4. ASSUME NEW i \in 0..j
        PROVE  Len(y[i]) <= Len(y[j]) /\ \A k \in 1..Len(y[i]) : y[j][k] = y[i][k]
    <3>1. Len(y[i]) \in Nat
      BY <2>4
    <3>2. CASE i = j
      BY <3>1, <3>2
    <3>3. CASE i # j
      <4>1. i \in 0..(j - 1)
        BY <3>3
      <4>2. Len(y[i]) <= Len(y[j - 1]) /\ \A k \in 1..Len(y[i]) : y[j - 1][k] = y[i][k]
        BY <4>1, <1>2
      <4>3. QED BY <3>1, <4>2, <2>3
    <3>4. QED BY <3>2, <3>3
  <2>5. QED BY <2>4
<1>3. \A j \in 0..n : j \in Having
  <2> HIDE DEF Having
  <2>1. QED BY <1>1, <1>2, Reaches
<1>4. QED BY <1>3
-----------------------------------------------------------------------------
(* What the three programs do, character by character *)

Special == {Quote, Double, Backslash, Percent, Blank}

\* The character before the i-th of an argument, as quoteCronArg tells them apart.
Before(s, i) == IF i = 1 THEN Quote ELSE s[i - 1]

\* The special characters are five.
LEMMA SpecialDiffer ==
    /\ Quote # Double /\ Quote # Backslash /\ Quote # Percent /\ Quote # Blank
    /\ Double # Backslash /\ Double # Percent /\ Double # Blank
    /\ Backslash # Percent /\ Backslash # Blank /\ Percent # Blank
BY DEF Quote, Double, Backslash, Percent, Blank

\* A character becomes one, three or five characters.
LEMMA QuotedCharIs ==
    ASSUME NEW T, Special \subseteq T, NEW ch \in T, NEW before \in T
    PROVE  QuotedChar(ch, before) \in Seq(T)
<1>1. Quote \in T /\ Double \in T /\ Backslash \in T /\ Percent \in T
  BY DEF Special
<1>2. /\ <<Quote, Double, Quote, Double, Quote>> \in Seq(T)
      /\ <<Quote, Backslash, Percent, Quote>> \in Seq(T)
      /\ <<Quote, Quote, Backslash>> \in Seq(T)
      /\ <<ch>> \in Seq(T)
  BY <1>1
<1>3. QED BY <1>2 DEF QuotedChar

\* quoteCronArg writes what each character becomes, one after the other.
LEMMA QuotingIs ==
    ASSUME NEW T, Special \subseteq T, NEW s \in Seq(T)
    PROVE  /\ Quoting(s) \in [0..Len(s) -> Seq(T)] /\ Quoting(s)[0] = <<Quote>>
           /\ \A i \in 1..Len(s) :
                Quoting(s)[i] = Quoting(s)[i - 1] \o QuotedChar(s[i], Before(s, i))
<1> DEFINE n == Len(s)
           d == [a \in (1..n) \X Seq(T) |-> a[2] \o QuotedChar(s[a[1]], Before(s, a[1]))]
           Is(f) == f = [i \in 0..n |-> IF i = 0 THEN <<Quote>>
                                        ELSE f[i - 1] \o QuotedChar(s[i], IF i = 1 THEN Quote ELSE s[i - 1])]
<1>1. <<Quote>> \in Seq(T) /\ n \in Nat
  <2>1. Quote \in T
    BY DEF Special
  <2>2. QED BY <2>1
<1>2. \A i \in 1..n : QuotedChar(s[i], Before(s, i)) \in Seq(T)
  <2>1. ASSUME NEW i \in 1..n PROVE s[i] \in T /\ Before(s, i) \in T
    <3>1. Quote \in T
      BY DEF Special
    <3>2. s[i] \in T /\ (i # 1 => i - 1 \in 1..n /\ s[i - 1] \in T)
      BY <2>1
    <3>3. QED BY <3>1, <3>2 DEF Before
  <2>2. QED BY <2>1, QuotedCharIs
<1>3. d \in Steps(Seq(T), n)
  BY <1>2 DEF Steps
<1>4. PICK f \in [0..n -> Seq(T)] : f[0] = <<Quote>> /\ \A i \in 1..n : f[i] = d[<<i, f[i - 1]>>]
  <2> DEFINE Q == Seq(T)
             begin == <<Quote>>
  <2>1. begin \in Q /\ d \in Steps(Q, n)
    BY <1>1, <1>3
  <2> HIDE DEF d, n, begin, Q
  <2>2. \E f : Follows(f, Q, begin, n, d)
    BY <1>1, <2>1, Recursion
  <2>3. QED BY <2>2 DEF begin, Q, Follows
<1>5. \A i \in 1..n : f[i] = f[i - 1] \o QuotedChar(s[i], Before(s, i))
  <2> TAKE i \in 1..n
  <2>1. f[i - 1] \in Seq(T) /\ f[i] = d[<<i, f[i - 1]>>]
    <3> HIDE DEF d
    <3>1. i - 1 \in 0..n
      OBVIOUS
    <3>2. QED BY <3>1, <1>4
  <2>2. QED BY <2>1
<1>6. Is(f)
  BY SMTT(30), <1>4, <1>5 DEF Before
<1>7. Quoting(s) = CHOOSE out : Is(out)
  BY DEF Quoting
<1>8. Is(Quoting(s))
  <2> HIDE DEF Is
  <2>1. QED BY <1>6, <1>7
<1>9. /\ Quoting(s) = [i \in 0..n |-> Quoting(s)[i]]
      /\ Quoting(s)[0] = <<Quote>>
      /\ \A i \in 1..n : Quoting(s)[i] = Quoting(s)[i - 1] \o QuotedChar(s[i], Before(s, i))
  <2> DEFINE g == Quoting(s)
  <2>1. g = [i \in 0..n |-> IF i = 0 THEN <<Quote>>
                            ELSE g[i - 1] \o QuotedChar(s[i], IF i = 1 THEN Quote ELSE s[i - 1])]
    BY <1>8
  <2> HIDE DEF g
  <2>2. /\ g = [i \in 0..n |-> g[i]] /\ g[0] = <<Quote>>
        /\ \A i \in 1..n : g[i] = g[i - 1] \o QuotedChar(s[i], Before(s, i))
    BY <1>1, <2>1 DEF Before
  <2>3. QED BY <2>2 DEF g
<1>10. \A i \in 1..n : Quoting(s)[i - 1] \in Seq(T) => Quoting(s)[i] \in Seq(T)
  <2> SUFFICES ASSUME NEW i \in 1..n, Quoting(s)[i - 1] \in Seq(T) PROVE Quoting(s)[i] \in Seq(T)
    OBVIOUS
  <2>1. QuotedChar(s[i], Before(s, i)) \in Seq(T)
    BY <1>2
  <2>2. Quoting(s)[i] = Quoting(s)[i - 1] \o QuotedChar(s[i], Before(s, i))
    BY <1>9
  <2>3. QED BY <2>1, <2>2, ConcatProperties
<1>11. Quoting(s) \in [0..n -> Seq(T)]
  <2> DEFINE Q == Seq(T)
             g == Quoting(s)
  <2>1. g = [i \in 0..n |-> g[i]] /\ g[0] \in Q /\ \A i \in 1..n : g[i - 1] \in Q => g[i] \in Q
    BY <1>1, <1>9, <1>10
  <2> HIDE DEF Q, g
  <2>2. g \in [0..n -> Q]
    BY <1>1, <2>1, Stays
  <2>3. QED BY <2>2 DEF Q, g
<1>12. QED BY <1>9, <1>11

\* The states of a cron, and of a shell.
CronStates(T)  == [mode : {"plain", "escaped", "ended"}, out : Seq(T)]
ShellStates(T) == [mode : {"between", "plain", "single", "double", "escape"},
                   words : Seq(Seq(T)), word : Seq(T)]

\* A character read leaves a cron in one of its states.
LEMMA CronStepIs ==
    ASSUME NEW T, Special \subseteq T, NEW collapse \in BOOLEAN,
           NEW st \in CronStates(T), NEW ch \in T
    PROVE  CronStep(collapse, st, ch) \in CronStates(T)
<1>1. st.out \in Seq(T) /\ Append(st.out, ch) \in Seq(T)
  BY DEF CronStates
<1>2. [st.out EXCEPT ![Len(st.out)] = ch] \in Seq(T)
  <2>1. CASE Len(st.out) \in 1..Len(st.out)
    BY <1>1, <2>1, ExceptSeq
  <2>2. CASE Len(st.out) \notin 1..Len(st.out)
    <3>1. [st.out EXCEPT ![Len(st.out)] = ch] = st.out
      BY <1>1, <2>2
    <3>2. QED BY <3>1, <1>1
  <2>3. QED BY <2>1, <2>2
<1>3. CASE st.mode = "ended"
  BY <1>3 DEF CronStep
<1>4. CASE st.mode = "escaped"
  BY <1>1, <1>2, <1>4 DEF CronStep, CronStates
<1>5. CASE st.mode = "plain"
  BY <1>1, <1>5 DEF CronStep, CronStates
<1>6. QED BY <1>3, <1>4, <1>5 DEF CronStates

\* A character read leaves a shell in one of its states.
LEMMA ShellStepIs ==
    ASSUME NEW T, Special \subseteq T, NEW st \in ShellStates(T), NEW ch \in T
    PROVE  ShellStep(st, ch) \in ShellStates(T)
<1>1. /\ st.word \in Seq(T) /\ Append(st.word, ch) \in Seq(T) /\ <<>> \in Seq(T)
      /\ st.words \in Seq(Seq(T)) /\ Append(st.words, st.word) \in Seq(Seq(T))
  BY DEF ShellStates
<1>2. CASE st.mode = "single"
  BY <1>1, <1>2 DEF ShellStep, ShellStates
<1>3. CASE st.mode = "double"
  BY <1>1, <1>3 DEF ShellStep, ShellStates
<1>4. CASE st.mode = "escape"
  BY <1>1, <1>4 DEF ShellStep, ShellStates
<1>5. CASE st.mode \in {"between", "plain"}
  BY <1>1, <1>5 DEF ShellStep, ShellStates
<1>6. QED BY <1>2, <1>3, <1>4, <1>5 DEF ShellStates
\* A cron goes through a line step by step.
LEMMA CronReadingIs ==
    ASSUME NEW T, Special \subseteq T, NEW collapse \in BOOLEAN, NEW line \in Seq(T)
    PROVE  /\ CronReading(collapse, line) \in [0..Len(line) -> CronStates(T)]
           /\ CronReading(collapse, line)[0] = [mode |-> "plain", out |-> <<>>]
           /\ \A i \in 1..Len(line) :
                      CronReading(collapse, line)[i] = CronStep(collapse, CronReading(collapse, line)[i - 1], line[i])
<1> DEFINE n == Len(line)
           begin == [mode |-> "plain", out |-> <<>>]
           d == [a \in (1..n) \X CronStates(T) |-> CronStep(collapse, a[2], line[a[1]])]
           Is(f) == f = [i \in 0..n |-> IF i = 0 THEN [mode |-> "plain", out |-> <<>>]
                      ELSE CronStep(collapse, f[i - 1], line[i])]
<1>1. begin \in CronStates(T) /\ n \in Nat /\ \A i \in 1..n : line[i] \in T
  BY DEF CronStates
<1>2. \A i \in 1..n, st \in CronStates(T) : CronStep(collapse, st, line[i]) \in CronStates(T)
  BY <1>1, CronStepIs
<1>3. d \in Steps(CronStates(T), n)
  BY <1>2 DEF Steps
<1>4. PICK f \in [0..n -> CronStates(T)] : f[0] = begin /\ \A i \in 1..n : f[i] = d[<<i, f[i - 1]>>]
  <2> HIDE DEF d, begin, n
  <2>1. \E f : Follows(f, CronStates(T), begin, n, d)
    BY <1>1, <1>3, Recursion
  <2>2. QED BY <2>1 DEF Follows
<1>5. \A i \in 1..n : f[i] = CronStep(collapse, f[i - 1], line[i])
  <2> TAKE i \in 1..n
  <2>1. f[i - 1] \in CronStates(T) /\ f[i] = d[<<i, f[i - 1]>>]
    <3> HIDE DEF d
    <3>1. i - 1 \in 0..n
      OBVIOUS
    <3>2. QED BY <3>1, <1>4
  <2>2. QED BY <2>1
<1>6. Is(f)
  BY <1>4, <1>5
<1>7. CronReading(collapse, line) = CHOOSE st : Is(st)
  BY DEF CronReading
<1>8. Is(CronReading(collapse, line))
  <2> HIDE DEF Is
  <2>1. QED BY <1>6, <1>7
<1> DEFINE g == CronReading(collapse, line)
<1>9. g = [i \in 0..n |-> IF i = 0 THEN [mode |-> "plain", out |-> <<>>] ELSE CronStep(collapse, g[i - 1], line[i])]
  BY <1>8
<1> HIDE DEF g
<1>10. /\ g = [i \in 0..n |-> g[i]] /\ g[0] = begin
       /\ \A i \in 1..n : g[i] = CronStep(collapse, g[i - 1], line[i])
  BY <1>1, <1>9
<1>11. \A i \in 1..n : g[i - 1] \in CronStates(T) => g[i] \in CronStates(T)
  BY <1>2, <1>10
<1>12. g \in [0..n -> CronStates(T)]
  <2> DEFINE Q == CronStates(T)
  <2>1. g[0] \in Q /\ \A i \in 1..n : g[i - 1] \in Q => g[i] \in Q
    BY <1>1, <1>10, <1>11
  <2> HIDE DEF Q
  <2>2. QED BY <1>1, <1>10, <2>1, Stays
<1>13. QED BY <1>10, <1>12 DEF g

\* So does a shell through a command.
LEMMA ShellReadingIs ==
    ASSUME NEW T, Special \subseteq T, NEW command \in Seq(T)
    PROVE  /\ ShellReading(command) \in [0..Len(command) -> ShellStates(T)]
           /\ ShellReading(command)[0] = [mode |-> "between", words |-> <<>>, word |-> <<>>]
           /\ \A i \in 1..Len(command) :
                      ShellReading(command)[i] = ShellStep(ShellReading(command)[i - 1], command[i])
<1> DEFINE n == Len(command)
           begin == [mode |-> "between", words |-> <<>>, word |-> <<>>]
           d == [a \in (1..n) \X ShellStates(T) |-> ShellStep(a[2], command[a[1]])]
           Is(f) == f = [i \in 0..n |-> IF i = 0 THEN [mode |-> "between", words |-> <<>>, word |-> <<>>]
                      ELSE ShellStep(f[i - 1], command[i])]
<1>1. begin \in ShellStates(T) /\ n \in Nat /\ \A i \in 1..n : command[i] \in T
  BY DEF ShellStates
<1>2. \A i \in 1..n, st \in ShellStates(T) : ShellStep(st, command[i]) \in ShellStates(T)
  BY <1>1, ShellStepIs
<1>3. d \in Steps(ShellStates(T), n)
  BY <1>2 DEF Steps
<1>4. PICK f \in [0..n -> ShellStates(T)] : f[0] = begin /\ \A i \in 1..n : f[i] = d[<<i, f[i - 1]>>]
  <2> HIDE DEF d, begin, n
  <2>1. \E f : Follows(f, ShellStates(T), begin, n, d)
    BY <1>1, <1>3, Recursion
  <2>2. QED BY <2>1 DEF Follows
<1>5. \A i \in 1..n : f[i] = ShellStep(f[i - 1], command[i])
  <2> TAKE i \in 1..n
  <2>1. f[i - 1] \in ShellStates(T) /\ f[i] = d[<<i, f[i - 1]>>]
    <3> HIDE DEF d
    <3>1. i - 1 \in 0..n
      OBVIOUS
    <3>2. QED BY <3>1, <1>4
  <2>2. QED BY <2>1
<1>6. Is(f)
  BY <1>4, <1>5
<1>7. ShellReading(command) = CHOOSE st : Is(st)
  BY DEF ShellReading
<1>8. Is(ShellReading(command))
  <2> HIDE DEF Is
  <2>1. QED BY <1>6, <1>7
<1> DEFINE g == ShellReading(command)
<1>9. g = [i \in 0..n |-> IF i = 0 THEN [mode |-> "between", words |-> <<>>, word |-> <<>>]
           ELSE ShellStep(g[i - 1], command[i])]
  BY <1>8
<1> HIDE DEF g
<1>10. /\ g = [i \in 0..n |-> g[i]] /\ g[0] = begin
       /\ \A i \in 1..n : g[i] = ShellStep(g[i - 1], command[i])
  BY <1>1, <1>9
<1>11. \A i \in 1..n : g[i - 1] \in ShellStates(T) => g[i] \in ShellStates(T)
  BY <1>2, <1>10
<1>12. g \in [0..n -> ShellStates(T)]
  <2> DEFINE Q == ShellStates(T)
  <2>1. g[0] \in Q /\ \A i \in 1..n : g[i - 1] \in Q => g[i] \in Q
    BY <1>1, <1>10, <1>11
  <2> HIDE DEF Q
  <2>2. QED BY <1>1, <1>10, <2>1, Stays
<1>13. QED BY <1>10, <1>12 DEF g

\* What a cron passes on of a quoted character: a percent sign loses its backslash.
PassedChar(ch, before) ==
    IF ch = Percent THEN <<Quote, Percent, Quote>> ELSE QuotedChar(ch, before)

Passing(s) ==
    LET out[i \in 0..Len(s)] ==
          IF i = 0 THEN <<Quote>> ELSE out[i - 1] \o PassedChar(s[i], Before(s, i))
    IN  out

Passed(s) == Append(Passing(s)[Len(s)], Quote)

\* A character is passed on as one, three or five characters.
LEMMA PassedCharIs ==
    ASSUME NEW T, Special \subseteq T, NEW ch \in T, NEW before \in T
    PROVE  PassedChar(ch, before) \in Seq(T)
<1>1. <<Quote, Percent, Quote>> \in Seq(T)
  <2>1. Quote \in T /\ Percent \in T
    BY DEF Special
  <2>2. QED BY <2>1
<1>2. QED BY <1>1, QuotedCharIs DEF PassedChar

\* What is passed on of an argument is what is passed on of its characters.
LEMMA PassingIs ==
    ASSUME NEW T, Special \subseteq T, NEW s \in Seq(T)
    PROVE  /\ Passing(s) \in [0..Len(s) -> Seq(T)] /\ Passing(s)[0] = <<Quote>>
           /\ \A i \in 1..Len(s) :
                Passing(s)[i] = Passing(s)[i - 1] \o PassedChar(s[i], Before(s, i))
<1> DEFINE n == Len(s)
           d == [a \in (1..n) \X Seq(T) |-> a[2] \o PassedChar(s[a[1]], Before(s, a[1]))]
           Is(f) == f = [i \in 0..n |-> IF i = 0 THEN <<Quote>>
                                        ELSE f[i - 1] \o PassedChar(s[i], Before(s, i))]
<1>1. <<Quote>> \in Seq(T) /\ n \in Nat
  <2>1. Quote \in T
    BY DEF Special
  <2>2. QED BY <2>1
<1>2. \A i \in 1..n : PassedChar(s[i], Before(s, i)) \in Seq(T)
  <2>1. ASSUME NEW i \in 1..n PROVE s[i] \in T /\ Before(s, i) \in T
    <3>1. Quote \in T
      BY DEF Special
    <3>2. s[i] \in T /\ (i # 1 => i - 1 \in 1..n /\ s[i - 1] \in T)
      BY <2>1
    <3>3. QED BY <3>1, <3>2 DEF Before
  <2>2. QED BY <2>1, PassedCharIs
<1>3. d \in Steps(Seq(T), n)
  BY <1>2 DEF Steps
<1>4. PICK f \in [0..n -> Seq(T)] : f[0] = <<Quote>> /\ \A i \in 1..n : f[i] = d[<<i, f[i - 1]>>]
  <2> DEFINE Q == Seq(T)
             begin == <<Quote>>
  <2>1. begin \in Q /\ d \in Steps(Q, n)
    BY <1>1, <1>3
  <2> HIDE DEF d, n, begin, Q
  <2>2. \E f : Follows(f, Q, begin, n, d)
    BY <1>1, <2>1, Recursion
  <2>3. QED BY <2>2 DEF begin, Q, Follows
<1>5. \A i \in 1..n : f[i] = f[i - 1] \o PassedChar(s[i], Before(s, i))
  <2> TAKE i \in 1..n
  <2>1. f[i - 1] \in Seq(T) /\ f[i] = d[<<i, f[i - 1]>>]
    <3> HIDE DEF d
    <3>1. i - 1 \in 0..n
      OBVIOUS
    <3>2. QED BY <3>1, <1>4
  <2>2. QED BY <2>1
<1>6. Is(f)
  BY SMTT(30), <1>4, <1>5 DEF Before
<1>7. Passing(s) = CHOOSE out : Is(out)
  BY DEF Passing
<1>8. Is(Passing(s))
  <2> HIDE DEF Is
  <2>1. QED BY <1>6, <1>7
<1>9. /\ Passing(s) = [i \in 0..n |-> Passing(s)[i]]
      /\ Passing(s)[0] = <<Quote>>
      /\ \A i \in 1..n : Passing(s)[i] = Passing(s)[i - 1] \o PassedChar(s[i], Before(s, i))
  <2> DEFINE g == Passing(s)
  <2>1. g = [i \in 0..n |-> IF i = 0 THEN <<Quote>>
                            ELSE g[i - 1] \o PassedChar(s[i], Before(s, i))]
    BY <1>8
  <2> HIDE DEF g
  <2>2. /\ g = [i \in 0..n |-> g[i]] /\ g[0] = <<Quote>>
        /\ \A i \in 1..n : g[i] = g[i - 1] \o PassedChar(s[i], Before(s, i))
    BY <1>1, <2>1 DEF Before
  <2>3. QED BY <2>2 DEF g
<1>10. \A i \in 1..n : Passing(s)[i - 1] \in Seq(T) => Passing(s)[i] \in Seq(T)
  <2> SUFFICES ASSUME NEW i \in 1..n, Passing(s)[i - 1] \in Seq(T) PROVE Passing(s)[i] \in Seq(T)
    OBVIOUS
  <2>1. PassedChar(s[i], Before(s, i)) \in Seq(T)
    BY <1>2
  <2>2. Passing(s)[i] = Passing(s)[i - 1] \o PassedChar(s[i], Before(s, i))
    BY <1>9
  <2>3. QED BY <2>1, <2>2, ConcatProperties
<1>11. Passing(s) \in [0..n -> Seq(T)]
  <2> DEFINE Q == Seq(T)
             g == Passing(s)
  <2>1. g = [i \in 0..n |-> g[i]] /\ g[0] \in Q /\ \A i \in 1..n : g[i - 1] \in Q => g[i] \in Q
    BY <1>1, <1>9, <1>10
  <2> HIDE DEF Q, g
  <2>2. g \in [0..n -> Q]
    BY <1>1, <2>1, Stays
  <2>3. QED BY <2>2 DEF Q, g
<1>12. QED BY <1>9, <1>11
-----------------------------------------------------------------------------
(* An argument within a line *)

\* From b on, the line has the argument s, written as w.
Held(T, line, b, s, w) ==
    /\ line \in Seq(T) /\ s \in Seq(T) /\ b \in Nat
    /\ b + Len(w) <= Len(line) /\ \A k \in 1..Len(w) : line[b + k] = w[k]

\* A text put together piece by piece holds each piece where it was added.
Added(T, n, y, t) ==
    /\ y \in [0..n -> Seq(T)] /\ t \in [1..n -> Seq(T)]
    /\ \A i \in 1..n : y[i] = y[i - 1] \o t[i]

AddedTo(whole, n, y, t) ==
    /\ Len(whole) = Len(y[n]) + 1 /\ \A k \in 1..Len(y[0]) : whole[k] = y[0][k]
    /\ \A i \in 0..n : Len(y[i]) \in Nat /\ Len(y[i]) <= Len(y[n])
    /\ \A i \in 1..n : /\ Len(y[i]) = Len(y[i - 1]) + Len(t[i])
                       /\ \A j \in 1..Len(t[i]) : whole[Len(y[i - 1]) + j] = t[i][j]

\* So each piece of the whole is where it was added.
LEMMA Pieces ==
    ASSUME NEW T, NEW n \in Nat, NEW y, NEW t, NEW e \in T, Added(T, n, y, t)
    PROVE  AddedTo(Append(y[n], e), n, y, t) /\ Append(y[n], e) \in Seq(T)
           /\ Append(y[n], e)[Len(y[n]) + 1] = e
<1> DEFINE whole == Append(y[n], e)
<1>1. y \in [0..n -> Seq(T)] /\ t \in [1..n -> Seq(T)] /\ \A i \in 1..n : y[i] = y[i - 1] \o t[i]
  BY DEF Added
<1>2. /\ y[n] \in Seq(T) /\ whole \in Seq(T) /\ Len(whole) = Len(y[n]) + 1
      /\ whole[Len(y[n]) + 1] = e /\ \A k \in 1..Len(y[n]) : whole[k] = y[n][k]
  BY <1>1
<1>3. \A i \in 0..n : /\ Len(y[i]) \in Nat /\ Len(y[i]) <= Len(y[n])
                      /\ \A k \in 1..Len(y[i]) : y[n][k] = y[i][k]
  <2>1. Growing(T, n, y)
    BY <1>1 DEF Growing
  <2>2. Grown(n, y)
    BY <2>1, Grows
  <2>3. \A i \in 0..n : Len(y[i]) \in Nat
    BY <1>1
  <2>4. QED BY <2>2, <2>3 DEF Grown
<1> HIDE DEF whole
<1>4. \A i \in 0..n : \A k \in 1..Len(y[i]) : whole[k] = y[i][k]
  BY <1>2, <1>3
<1>5. ASSUME NEW i \in 1..n
      PROVE  /\ Len(y[i]) = Len(y[i - 1]) + Len(t[i])
             /\ \A j \in 1..Len(t[i]) : whole[Len(y[i - 1]) + j] = t[i][j]
  <2>1. y[i - 1] \in Seq(T) /\ t[i] \in Seq(T) /\ y[i] = y[i - 1] \o t[i]
    BY <1>1
  <2>2. \A k \in 1..Len(y[i]) : whole[k] = y[i][k]
    BY <1>4
  <2> DEFINE u == y[i - 1]
             v == t[i]
  <2>3. u \in Seq(T) /\ v \in Seq(T) /\ y[i] = u \o v /\ \A k \in 1..Len(u \o v) : whole[k] = (u \o v)[k]
    BY <2>1, <2>2
  <2> HIDE DEF u, v
  <2>4. /\ Len(u \o v) = Len(u) + Len(v) /\ Len(u) \in Nat /\ Len(v) \in Nat
        /\ \A j \in 1..Len(v) : Len(u) + j \in 1..Len(u \o v) /\ (u \o v)[Len(u) + j] = v[j]
    BY <2>3, ConcatProperties
  <2>5. Len(y[i]) = Len(u) + Len(v) /\ \A j \in 1..Len(v) : whole[Len(u) + j] = v[j]
    BY <2>3, <2>4
  <2>6. QED BY <2>5 DEF u, v
<1>6. \A k \in 1..Len(y[0]) : whole[k] = y[0][k]
  <2>1. 0 \in 0..n
    OBVIOUS
  <2>2. QED BY <2>1, <1>4
<1>7. AddedTo(whole, n, y, t)
  BY <1>2, <1>3, <1>5, <1>6 DEF AddedTo
<1>8. QED BY <1>2, <1>7 DEF whole

\* What cron does with a character that is neither a percent sign nor a backslash,
\* with a backslash, and with a percent sign behind one.
LEMMA CronOrdinary ==
    ASSUME NEW T, NEW x \in Seq(T), NEW m \in {"plain", "escaped"}, NEW collapse \in BOOLEAN,
           NEW ch \in T, ch # Percent, ch # Backslash
    PROVE  CronStep(collapse, [mode |-> m, out |-> x], ch) = [mode |-> "plain", out |-> Append(x, ch)]
<1>1. CASE m = "plain"
  BY <1>1 DEF CronStep
<1>2. CASE m = "escaped"
  BY <1>2 DEF CronStep
<1>3. QED BY <1>1, <1>2

\* A backslash is handed on, and something is pending behind it;
LEMMA CronBackslash ==
    ASSUME NEW T, NEW x \in Seq(T), NEW collapse \in BOOLEAN
    PROVE  CronStep(collapse, [mode |-> "plain", out |-> x], Backslash)
             = [mode |-> "escaped", out |-> Append(x, Backslash)]
BY SpecialDiffer DEF CronStep

\* a percent sign behind it takes its place.
LEMMA CronPercent ==
    ASSUME NEW T, Special \subseteq T, NEW x \in Seq(T), NEW collapse \in BOOLEAN
    PROVE  CronStep(collapse, [mode |-> "escaped", out |-> Append(x, Backslash)], Percent)
             = [mode |-> "plain", out |-> Append(x, Percent)]
<1>1. Backslash \in T /\ Percent \in T
  BY DEF Special
<1> DEFINE z == Append(x, Backslash)
<1>2. /\ z \in Seq(T) /\ Len(z) = Len(x) + 1 /\ Append(x, Percent) \in Seq(T)
      /\ Len(Append(x, Percent)) = Len(x) + 1
      /\ \A i \in 1..(Len(x) + 1) : z[i] = IF i <= Len(x) THEN x[i] ELSE Backslash
      /\ \A i \in 1..(Len(x) + 1) : Append(x, Percent)[i] = IF i <= Len(x) THEN x[i] ELSE Percent
  BY <1>1
<1> HIDE DEF z
<1>3. [z EXCEPT ![Len(z)] = Percent] = Append(x, Percent)
  <2>1. Len(z) \in 1..Len(z) /\ Len(x) \in Nat
    BY <1>2
  <2>2. /\ [z EXCEPT ![Len(z)] = Percent] \in Seq(T)
        /\ Len([z EXCEPT ![Len(z)] = Percent]) = Len(z)
        /\ \A j \in 1..Len(z) : [z EXCEPT ![Len(z)] = Percent][j] = IF j = Len(z) THEN Percent ELSE z[j]
    BY <1>1, <1>2, <2>1, ExceptSeq
  <2>3. \A j \in 1..Len(z) : [z EXCEPT ![Len(z)] = Percent][j] = Append(x, Percent)[j]
    BY <1>2, <2>1, <2>2
  <2>4. QED BY <1>2, <2>2, <2>3, SeqEqual
<1>4. QED BY <1>3 DEF CronStep, z

\* Where quoteCronArg puts what each character becomes.
LEMMA QuotedPieces ==
    ASSUME NEW T, Special \subseteq T, NEW s \in Seq(T)
    PROVE  /\ quoteCronArg(s) \in Seq(T) /\ Len(quoteCronArg(s)) = Len(Quoting(s)[Len(s)]) + 1
           /\ quoteCronArg(s)[Len(Quoting(s)[Len(s)]) + 1] = Quote
           /\ quoteCronArg(s)[1] = Quote /\ Len(Quoting(s)[0]) = 1
           /\ \A i \in 0..Len(s) : /\ Len(Quoting(s)[i]) \in Nat
                                   /\ Len(Quoting(s)[i]) <= Len(Quoting(s)[Len(s)])
           /\ \A i \in 1..Len(s) :
                LET t == QuotedChar(s[i], Before(s, i)) IN
                /\ t \in Seq(T) /\ Len(Quoting(s)[i]) = Len(Quoting(s)[i - 1]) + Len(t)
                /\ \A j \in 1..Len(t) : quoteCronArg(s)[Len(Quoting(s)[i - 1]) + j] = t[j]
<1> DEFINE n == Len(s)
           y == Quoting(s)
           t == [i \in 1..n |-> QuotedChar(s[i], Before(s, i))]
           whole == Append(y[n], Quote)
<1>1. /\ y \in [0..n -> Seq(T)] /\ y[0] = <<Quote>>
      /\ \A i \in 1..n : y[i] = y[i - 1] \o QuotedChar(s[i], Before(s, i))
  BY QuotingIs
<1>2. Quote \in T /\ n \in Nat
  <2>1. Quote \in T
    BY DEF Special
  <2>2. QED BY <2>1
<1>3. ASSUME NEW i \in 1..n PROVE QuotedChar(s[i], Before(s, i)) \in Seq(T)
  <2>1. s[i] \in T /\ (i # 1 => i - 1 \in 1..n /\ s[i - 1] \in T)
    BY <1>3
  <2>2. QED BY <1>2, <2>1, QuotedCharIs DEF Before
<1>4. /\ t \in [1..n -> Seq(T)]
      /\ \A i \in 1..n : y[i] = y[i - 1] \o t[i] /\ t[i] = QuotedChar(s[i], Before(s, i))
  BY <1>1, <1>3
<1> HIDE DEF y, t, n
<1>5. /\ whole \in Seq(T) /\ Len(whole) = Len(y[n]) + 1 /\ whole[Len(y[n]) + 1] = Quote
      /\ \A k \in 1..Len(y[0]) : whole[k] = y[0][k]
      /\ \A i \in 0..n : Len(y[i]) \in Nat /\ Len(y[i]) <= Len(y[n])
      /\ \A i \in 1..n : /\ Len(y[i]) = Len(y[i - 1]) + Len(t[i])
                         /\ \A j \in 1..Len(t[i]) : whole[Len(y[i - 1]) + j] = t[i][j]
  <2>1. Added(T, n, y, t)
    BY <1>1, <1>4 DEF Added
  <2>2. AddedTo(whole, n, y, t) /\ whole \in Seq(T) /\ whole[Len(y[n]) + 1] = Quote
    BY <1>2, <2>1, Pieces
  <2> HIDE DEF whole
  <2>3. QED BY <2>2 DEF AddedTo
<1>6. quoteCronArg(s) = whole
  BY DEF quoteCronArg, y, n
<1> HIDE DEF whole
<1>7. Len(y[0]) = 1 /\ y[0][1] = Quote
  BY <1>1
<1>8. whole[1] = Quote
  BY <1>5, <1>7
<1>9. \A i \in 1..n :
        LET u == QuotedChar(s[i], Before(s, i)) IN
        /\ u \in Seq(T) /\ Len(y[i]) = Len(y[i - 1]) + Len(u)
        /\ \A j \in 1..Len(u) : whole[Len(y[i - 1]) + j] = u[j]
  <2> TAKE i \in 1..n
  <2>1. t[i] = QuotedChar(s[i], Before(s, i)) /\ t[i] \in Seq(T)
    BY <1>4
  <2>2. /\ Len(y[i]) = Len(y[i - 1]) + Len(t[i])
        /\ \A j \in 1..Len(t[i]) : whole[Len(y[i - 1]) + j] = t[i][j]
    BY <1>5
  <2>3. QED BY <2>1, <2>2
<1>10. QED BY <1>5, <1>6, <1>7, <1>8, <1>9 DEF y, n

\* A quoted character takes a cron from where it stood behind the one before
\* to where it stands behind this one.
CronAt(ch, x) == [mode |-> IF ch = Backslash THEN "escaped" ELSE "plain", out |-> x]

\* A cron that has read a piece stands where it should, and passed on its part.
LEMMA CronPiece ==
    ASSUME NEW T, Special \subseteq T, NEW x \in Seq(T), NEW ch \in T, NEW before \in T,
           NEW collapse \in BOOLEAN, NEW q, q[0] = CronAt(before, x),
           \A j \in 1..Len(QuotedChar(ch, before)) :
             q[j] = CronStep(collapse, q[j - 1], QuotedChar(ch, before)[j])
    PROVE  q[Len(QuotedChar(ch, before))] = CronAt(ch, x \o PassedChar(ch, before))
<1> DEFINE piece == QuotedChar(ch, before)
           St(m, z) == [mode |-> m, out |-> z]
           m0 == IF before = Backslash THEN "escaped" ELSE "plain"
<1>1. /\ Quote \in T /\ Double \in T /\ Backslash \in T /\ Percent \in T
      /\ m0 \in {"plain", "escaped"} /\ q[0] = St(m0, x)
  BY DEF Special, CronAt
<1>3. \A z \in Seq(T), m \in {"plain", "escaped"}, a \in T : a # Percent /\ a # Backslash
        => CronStep(collapse, St(m, z), a) = St("plain", Append(z, a))
  BY SMT, ZenonT(40), CronOrdinary
<1> HIDE DEF m0, St
<1>4. CASE ch = Quote
  <2>1. piece = <<Quote, Double, Quote, Double, Quote>>
    BY <1>4 DEF QuotedChar
  <2>2. /\ Len(piece) = 5 /\ piece[1] = Quote /\ piece[2] = Double /\ piece[3] = Quote
        /\ piece[4] = Double /\ piece[5] = Quote
    BY <2>1
  <2> HIDE DEF piece
  <2>3. /\ q[1] = CronStep(collapse, q[0], Quote) /\ q[2] = CronStep(collapse, q[1], Double)
        /\ q[3] = CronStep(collapse, q[2], Quote) /\ q[4] = CronStep(collapse, q[3], Double)
        /\ q[5] = CronStep(collapse, q[4], Quote)
    BY <2>2 DEF piece
  <2> DEFINE z1 == Append(x, Quote)
             z2 == Append(z1, Double)
             z3 == Append(z2, Quote)
             z4 == Append(z3, Double)
             z5 == Append(z4, Quote)
  <2>4. /\ z1 \in Seq(T) /\ z2 \in Seq(T) /\ z3 \in Seq(T) /\ z4 \in Seq(T)
        /\ x \o <<Quote, Double, Quote, Double, Quote>> = z5
    BY <1>1, AppendFive
  <2>5. q[1] = St("plain", z1)
    BY <1>1, <1>3, <2>3, SpecialDiffer
  <2> HIDE DEF z1
  <2>6. q[2] = St("plain", z2)
    BY <1>1, <1>3, <2>3, <2>4, <2>5, SpecialDiffer
  <2> HIDE DEF z2
  <2>7. q[3] = St("plain", z3)
    BY <1>1, <1>3, <2>3, <2>4, <2>6, SpecialDiffer
  <2> HIDE DEF z3
  <2>8. q[4] = St("plain", z4)
    BY <1>1, <1>3, <2>3, <2>4, <2>7, SpecialDiffer
  <2> HIDE DEF z4
  <2>9. q[5] = St("plain", z5)
    BY <1>1, <1>3, <2>3, <2>4, <2>8, SpecialDiffer
  <2> HIDE DEF z5
  <2>10. PassedChar(ch, before) = <<Quote, Double, Quote, Double, Quote>>
    BY <1>4, <2>1, SpecialDiffer DEF PassedChar, piece
  <2>11. QED BY <1>4, <2>2, <2>4, <2>9, <2>10, SpecialDiffer DEF CronAt, St, piece
<1>5. CASE ch = Percent
  <2>1. piece = <<Quote, Backslash, Percent, Quote>>
    BY <1>5, SpecialDiffer DEF QuotedChar
  <2>2. /\ Len(piece) = 4 /\ piece[1] = Quote /\ piece[2] = Backslash /\ piece[3] = Percent
        /\ piece[4] = Quote
    BY <2>1
  <2> HIDE DEF piece
  <2>3. /\ q[1] = CronStep(collapse, q[0], Quote) /\ q[2] = CronStep(collapse, q[1], Backslash)
        /\ q[3] = CronStep(collapse, q[2], Percent) /\ q[4] = CronStep(collapse, q[3], Quote)
    BY <2>2 DEF piece
  <2>4. q[1] = St("plain", Append(x, Quote)) /\ Append(x, Quote) \in Seq(T)
    <3>1. q[1] = St("plain", Append(x, Quote))
      BY <1>1, <1>3, <2>3, SpecialDiffer
    <3>2. Append(x, Quote) \in Seq(T)
      BY <1>1
    <3>3. QED BY <3>1, <3>2
  <2>5. q[2] = St("escaped", Append(Append(x, Quote), Backslash))
    BY <2>3, <2>4, CronBackslash DEF St
  <2>6. q[3] = St("plain", Append(Append(x, Quote), Percent))
    BY <2>3, <2>4, <2>5, CronPercent DEF St
  <2>7. Append(Append(x, Quote), Percent) \in Seq(T)
    BY <1>1, <2>4
  <2>8. q[4] = St("plain", x \o <<Quote, Percent, Quote>>)
    <3>1. q[4] = St("plain", Append(Append(Append(x, Quote), Percent), Quote))
      BY <1>1, <1>3, <2>3, <2>6, <2>7, SpecialDiffer
    <3>2. x \o <<Quote, Percent, Quote>> = Append(Append(Append(x, Quote), Percent), Quote)
      BY <1>1, AppendThree
    <3>3. QED BY <3>1, <3>2
  <2>9. PassedChar(ch, before) = <<Quote, Percent, Quote>>
    BY <1>5 DEF PassedChar
  <2>10. QED BY <1>5, <2>2, <2>8, <2>9, SpecialDiffer DEF CronAt, St, piece
<1>6. CASE ch = Backslash /\ before = Backslash
  <2>1. piece = <<Quote, Quote, Backslash>>
    BY <1>6, SpecialDiffer DEF QuotedChar
  <2>2. Len(piece) = 3 /\ piece[1] = Quote /\ piece[2] = Quote /\ piece[3] = Backslash
    BY <2>1
  <2> HIDE DEF piece
  <2>3. /\ q[1] = CronStep(collapse, q[0], Quote) /\ q[2] = CronStep(collapse, q[1], Quote)
        /\ q[3] = CronStep(collapse, q[2], Backslash)
    BY <2>2 DEF piece
  <2>4. q[1] = St("plain", Append(x, Quote)) /\ Append(x, Quote) \in Seq(T)
    <3>1. q[1] = St("plain", Append(x, Quote))
      BY <1>1, <1>3, <2>3, SpecialDiffer
    <3>2. Append(x, Quote) \in Seq(T)
      BY <1>1
    <3>3. QED BY <3>1, <3>2
  <2>5. q[2] = St("plain", Append(Append(x, Quote), Quote)) /\ Append(Append(x, Quote), Quote) \in Seq(T)
    <3>1. q[2] = St("plain", Append(Append(x, Quote), Quote))
      BY <1>1, <1>3, <2>3, <2>4, SpecialDiffer
    <3>2. Append(Append(x, Quote), Quote) \in Seq(T)
      BY <1>1, <2>4
    <3>3. QED BY <3>1, <3>2
  <2>6. q[3] = St("escaped", Append(Append(Append(x, Quote), Quote), Backslash))
    BY <2>3, <2>5, CronBackslash DEF St
  <2>7. q[3] = St("escaped", x \o <<Quote, Quote, Backslash>>)
    <3>1. x \o <<Quote, Quote, Backslash>> = Append(Append(Append(x, Quote), Quote), Backslash)
      BY <1>1, AppendThree
    <3>2. QED BY <2>6, <3>1
  <2>8. PassedChar(ch, before) = <<Quote, Quote, Backslash>>
    BY <1>6, <2>1, SpecialDiffer DEF PassedChar, piece
  <2>9. QED BY <1>6, <2>2, <2>7, <2>8 DEF CronAt, St, piece
<1>7. CASE ch # Quote /\ ch # Percent /\ ~(ch = Backslash /\ before = Backslash)
  <2>1. piece = <<ch>> /\ PassedChar(ch, before) = <<ch>>
    BY <1>7 DEF QuotedChar, PassedChar
  <2>2. Len(piece) = 1 /\ piece[1] = ch /\ x \o <<ch>> = Append(x, ch)
    BY <2>1, AppendOne
  <2> HIDE DEF piece
  <2>3. q[1] = CronStep(collapse, q[0], ch)
    BY <2>2 DEF piece
  <2>4. CASE ch = Backslash
    <3>1. q[0] = St("plain", x)
      BY <1>1, <1>7, <2>4 DEF m0
    <3>2. q[1] = St("escaped", Append(x, ch))
      BY <2>3, <2>4, <3>1, CronBackslash DEF St
    <3>3. QED BY <2>1, <2>2, <2>4, <3>2 DEF CronAt, St, piece
  <2>5. CASE ch # Backslash
    <3>1. q[1] = St("plain", Append(x, ch))
      BY <1>1, <1>3, <1>7, <2>3, <2>5
    <3>2. QED BY <2>1, <2>2, <2>5, <3>1 DEF CronAt, St, piece
  <2>6. QED BY <2>4, <2>5
<1>8. QED BY <1>4, <1>5, <1>6, <1>7

\* Where what is passed on of each character is.
LEMMA PassedPieces ==
    ASSUME NEW T, Special \subseteq T, NEW s \in Seq(T)
    PROVE  /\ Passed(s) \in Seq(T) /\ Len(Passed(s)) = Len(Passing(s)[Len(s)]) + 1
           /\ Passed(s)[Len(Passing(s)[Len(s)]) + 1] = Quote
           /\ Passed(s)[1] = Quote /\ Len(Passing(s)[0]) = 1
           /\ \A i \in 0..Len(s) : /\ Len(Passing(s)[i]) \in Nat
                                   /\ Len(Passing(s)[i]) <= Len(Passing(s)[Len(s)])
           /\ \A i \in 1..Len(s) :
                LET t == PassedChar(s[i], Before(s, i)) IN
                /\ t \in Seq(T) /\ Len(Passing(s)[i]) = Len(Passing(s)[i - 1]) + Len(t)
                /\ \A j \in 1..Len(t) : Passed(s)[Len(Passing(s)[i - 1]) + j] = t[j]
<1> DEFINE n == Len(s)
           y == Passing(s)
           t == [i \in 1..n |-> PassedChar(s[i], Before(s, i))]
           whole == Append(y[n], Quote)
<1>1. /\ y \in [0..n -> Seq(T)] /\ y[0] = <<Quote>>
      /\ \A i \in 1..n : y[i] = y[i - 1] \o PassedChar(s[i], Before(s, i))
  BY PassingIs
<1>2. Quote \in T /\ n \in Nat
  <2>1. Quote \in T
    BY DEF Special
  <2>2. QED BY <2>1
<1>3. ASSUME NEW i \in 1..n PROVE PassedChar(s[i], Before(s, i)) \in Seq(T)
  <2>1. s[i] \in T /\ (i # 1 => i - 1 \in 1..n /\ s[i - 1] \in T)
    BY <1>3
  <2>2. QED BY <1>2, <2>1, PassedCharIs DEF Before
<1>4. /\ t \in [1..n -> Seq(T)]
      /\ \A i \in 1..n : y[i] = y[i - 1] \o t[i] /\ t[i] = PassedChar(s[i], Before(s, i))
  BY <1>1, <1>3
<1> HIDE DEF y, t, n
<1>5. /\ whole \in Seq(T) /\ Len(whole) = Len(y[n]) + 1 /\ whole[Len(y[n]) + 1] = Quote
      /\ \A k \in 1..Len(y[0]) : whole[k] = y[0][k]
      /\ \A i \in 0..n : Len(y[i]) \in Nat /\ Len(y[i]) <= Len(y[n])
      /\ \A i \in 1..n : /\ Len(y[i]) = Len(y[i - 1]) + Len(t[i])
                         /\ \A j \in 1..Len(t[i]) : whole[Len(y[i - 1]) + j] = t[i][j]
  <2>1. Added(T, n, y, t)
    BY <1>1, <1>4 DEF Added
  <2>2. AddedTo(whole, n, y, t) /\ whole \in Seq(T) /\ whole[Len(y[n]) + 1] = Quote
    BY <1>2, <2>1, Pieces
  <2> HIDE DEF whole
  <2>3. QED BY <2>2 DEF AddedTo
<1>6. Passed(s) = whole
  BY DEF Passed, y, n
<1> HIDE DEF whole
<1>7. Len(y[0]) = 1 /\ y[0][1] = Quote
  BY <1>1
<1>8. whole[1] = Quote
  BY <1>5, <1>7
<1>9. \A i \in 1..n :
        LET u == PassedChar(s[i], Before(s, i)) IN
        /\ u \in Seq(T) /\ Len(y[i]) = Len(y[i - 1]) + Len(u)
        /\ \A j \in 1..Len(u) : whole[Len(y[i - 1]) + j] = u[j]
  <2> TAKE i \in 1..n
  <2>1. t[i] = PassedChar(s[i], Before(s, i)) /\ t[i] \in Seq(T)
    BY <1>4
  <2>2. /\ Len(y[i]) = Len(y[i - 1]) + Len(t[i])
        /\ \A j \in 1..Len(t[i]) : whole[Len(y[i - 1]) + j] = t[i][j]
    BY <1>5
  <2>3. QED BY <2>1, <2>2
<1>10. QED BY <1>5, <1>6, <1>7, <1>8, <1>9 DEF y, n

\* A cron with the text x handed on and nothing pending.
Plain(x) == [mode |-> "plain", out |-> x]

\* A cron that comes to a quoted argument with nothing pending passes it on.
LEMMA CronThrough ==
    ASSUME NEW T, Special \subseteq T, NEW collapse \in BOOLEAN, NEW line, NEW s, NEW b,
           Held(T, line, b, s, quoteCronArg(s)), NEW pre \in Seq(T),
           CronReading(collapse, line)[b] = Plain(pre)
    PROVE  CronReading(collapse, line)[b + Len(quoteCronArg(s))] = Plain(pre \o Passed(s))
<1> DEFINE n == Len(s)
           y == Quoting(s)
           p == Passing(s)
           w == quoteCronArg(s)
           r == CronReading(collapse, line)
           t(i) == QuotedChar(s[i], Before(s, i))
           Prev(i) == IF i = 0 THEN Quote ELSE s[i]
<1>a. line \in Seq(T) /\ s \in Seq(T) /\ b \in Nat
  BY DEF Held
<1>b. b \in Nat
  BY <1>a
<1>1. Quote \in T /\ n \in Nat
  <2>1. Quote \in T
    BY DEF Special
  <2>2. QED BY <1>a, <2>1
<1>2. /\ w \in Seq(T) /\ Len(w) = Len(y[n]) + 1 /\ w[Len(y[n]) + 1] = Quote
      /\ w[1] = Quote /\ Len(y[0]) = 1
      /\ \A i \in 0..n : Len(y[i]) \in Nat /\ Len(y[i]) <= Len(y[n])
      /\ \A i \in 1..n : /\ t(i) \in Seq(T) /\ Len(y[i]) = Len(y[i - 1]) + Len(t(i))
                         /\ \A j \in 1..Len(t(i)) : w[Len(y[i - 1]) + j] = t(i)[j]
  BY <1>a, QuotedPieces
<1>3. /\ p \in [0..n -> Seq(T)] /\ p[0] = <<Quote>>
      /\ \A i \in 1..n : p[i] = p[i - 1] \o PassedChar(s[i], Before(s, i))
  BY <1>a, PassingIs
<1>4. Passed(s) = Append(p[n], Quote)
  BY DEF Passed
<1>5. /\ Len(line) \in Nat /\ b + Len(w) <= Len(line) /\ \A k \in 1..Len(w) : line[b + k] = w[k]
      /\ \A i \in 1..Len(line) : r[i] = CronStep(collapse, r[i - 1], line[i])
  <2>1. \A i \in 1..Len(line) : r[i] = CronStep(collapse, r[i - 1], line[i])
    BY <1>a, CronReadingIs
  <2>2. /\ Len(line) \in Nat /\ b + Len(w) <= Len(line)
        /\ \A k \in 1..Len(w) : line[b + k] = w[k]
    BY <1>a DEF Held
  <2>3. QED BY <2>1, <2>2
<1>6. r[b] = [mode |-> "plain", out |-> pre]
  BY DEF Plain
<1>7. \A i \in 1..n : s[i] \in T /\ Before(s, i) \in T /\ Before(s, i) = Prev(i - 1) /\ Prev(i) = s[i]
  <2> TAKE i \in 1..n
  <2>1. s[i] \in T /\ (i # 1 => i - 1 \in 1..n /\ s[i - 1] \in T)
    BY <1>a
  <2>2. QED BY <1>1, <2>1 DEF Before
<1> HIDE DEF n, y, p, w, r, Prev
<1>0. Len(w) \in Nat /\ Len(y[n]) \in Nat /\ Len(w) = Len(y[n]) + 1 /\ b + Len(w) <= Len(line)
  <2>1. n \in 0..n
    BY <1>1
  <2>2. Len(y[n]) \in Nat
    BY <1>2, <2>1
  <2>3. QED BY <1>2, <1>5, <2>2
<1>8. \A k \in 1..Len(w) : r[b + k] = CronStep(collapse, r[(b + k) - 1], w[k])
  <2> TAKE k \in 1..Len(w)
  <2>1. b + k \in 1..Len(line) /\ line[b + k] = w[k]
    BY <1>b, <1>0, <1>5
  <2>2. r[b + k] = CronStep(collapse, r[(b + k) - 1], line[b + k])
    <3> DEFINE i == b + k
    <3>1. i \in 1..Len(line)
      BY <2>1
    <3> HIDE DEF i
    <3>2. r[i] = CronStep(collapse, r[i - 1], line[i])
      BY <1>5, <3>1
    <3>3. QED BY <3>2 DEF i
  <2>3. QED BY <2>1, <2>2
<1> DEFINE Through == {i \in 0..n : r[b + Len(y[i])] = CronAt(Prev(i), pre \o p[i])}
<1>9. 0 \in Through
  <2>1. r[b + 1] = CronStep(collapse, r[b], Quote)
    <3>1. 1 \in 1..Len(w) /\ (b + 1) - 1 = b
      BY <1>b, <1>0
    <3>2. QED BY <1>2, <1>8, <3>1
  <2>2. r[b + 1] = [mode |-> "plain", out |-> Append(pre, Quote)]
    BY <1>1, <1>6, <2>1, CronOrdinary, SpecialDiffer
  <2>3. pre \o p[0] = Append(pre, Quote)
    BY <1>1, <1>3, AppendOne
  <2>4. Prev(0) # Backslash
    BY SpecialDiffer DEF Prev
  <2>5. r[b + Len(y[0])] = CronAt(Prev(0), pre \o p[0])
    BY <1>2, <2>2, <2>3, <2>4 DEF CronAt
  <2>6. QED BY <1>1, <2>5
<1>10. ASSUME NEW i \in 1..n, i - 1 \in Through PROVE i \in Through
  <2> DEFINE x == pre \o p[i - 1]
             u == t(i)
             at == b + Len(y[i - 1])
             q == [j \in 0..Len(u) |-> r[at + j]]
  <2> HIDE DEF u
  <2>1. /\ u \in Seq(T) /\ Len(u) \in Nat /\ Len(y[i]) = Len(y[i - 1]) + Len(u)
        /\ Len(y[i - 1]) \in Nat /\ Len(y[i]) <= Len(y[n])
        /\ \A j \in 1..Len(u) : w[Len(y[i - 1]) + j] = u[j]
    <3>1. i \in 0..n /\ i - 1 \in 0..n
      BY <1>1
    <3>2. Len(y[i]) \in Nat /\ Len(y[i]) <= Len(y[n]) /\ Len(y[i - 1]) \in Nat
      BY <1>2, <3>1
    <3>3. /\ u \in Seq(T) /\ Len(y[i]) = Len(y[i - 1]) + Len(u)
          /\ \A j \in 1..Len(u) : w[Len(y[i - 1]) + j] = u[j]
      BY <1>2 DEF u
    <3>4. Len(u) \in Nat
      BY <3>3
    <3>5. QED BY <3>2, <3>3, <3>4
  <2>2. p[i - 1] \in Seq(T) /\ x \in Seq(T) /\ at \in Nat
    <3>1. i - 1 \in 0..n
      BY <1>1
    <3>2. p[i - 1] \in Seq(T)
      BY <1>3, <3>1
    <3>3. x \in Seq(T)
      BY <3>2, ConcatProperties
    <3>4. QED BY <1>b, <3>2, <3>3, <2>1
  <2>3. q[0] = CronAt(Before(s, i), x)
    <3>1. r[at] = CronAt(Prev(i - 1), x)
      BY <1>10
    <3>2. q[0] = r[at]
      BY <2>1, <2>2
    <3>3. QED BY <3>1, <3>2, <1>7
  <2>4. ASSUME NEW j \in 1..Len(u) PROVE q[j] = CronStep(collapse, q[j - 1], u[j])
    <3>0. Len(u) \in Nat /\ Len(y[i - 1]) \in Nat /\ Len(y[i - 1]) + Len(u) <= Len(y[n])
      BY <2>1
    <3>1. Len(y[i - 1]) + j \in 1..Len(w) /\ w[Len(y[i - 1]) + j] = u[j]
      <4>1. Len(y[i - 1]) + j \in 1..Len(w)
        BY <1>0, <3>0
      <4>2. QED BY <4>1, <2>1
    <3>2. r[b + (Len(y[i - 1]) + j)] = CronStep(collapse, r[(b + (Len(y[i - 1]) + j)) - 1], u[j])
      BY <1>8, <3>1
    <3>3. b + (Len(y[i - 1]) + j) = at + j /\ (b + (Len(y[i - 1]) + j)) - 1 = at + (j - 1)
      BY <1>b, <2>1
    <3>4. q[j] = r[at + j] /\ q[j - 1] = r[at + (j - 1)]
      BY <2>1
    <3>5. QED BY <3>2, <3>3, <3>4
  <2>5. q[Len(u)] = r[b + Len(y[i])]
    <3>1. b + Len(y[i]) = at + Len(u) /\ Len(u) \in 0..Len(u)
      BY <1>b, <2>1
    <3>2. QED BY <3>1
  <2> HIDE DEF q, x
  <2>6. q[Len(u)] = CronAt(s[i], x \o PassedChar(s[i], Before(s, i)))
    <3> DEFINE ch == s[i]
               before == Before(s, i)
    <3>1. /\ ch \in T /\ before \in T /\ q[0] = CronAt(before, x) /\ u = QuotedChar(ch, before)
          /\ \A j \in 1..Len(u) : q[j] = CronStep(collapse, q[j - 1], u[j])
      BY <1>7, <2>3, <2>4 DEF u
    <3> HIDE DEF ch, before
    <3>2. \A j \in 1..Len(QuotedChar(ch, before)) :
            q[j] = CronStep(collapse, q[j - 1], QuotedChar(ch, before)[j])
      BY <3>1
    <3>3. q[Len(QuotedChar(ch, before))] = CronAt(ch, x \o PassedChar(ch, before))
      BY <2>2, <3>1, <3>2, CronPiece
    <3>4. QED BY <3>1, <3>3 DEF ch, before
  <2>7. x \o PassedChar(s[i], Before(s, i)) = pre \o p[i]
    <3>1. PassedChar(s[i], Before(s, i)) \in Seq(T)
      <4> DEFINE ch == s[i]
                 before == Before(s, i)
      <4>1. ch \in T /\ before \in T
        BY <1>7
      <4> HIDE DEF ch, before
      <4>2. PassedChar(ch, before) \in Seq(T)
        BY <4>1, PassedCharIs
      <4>3. QED BY <4>2 DEF ch, before
    <3>2. p[i] = p[i - 1] \o PassedChar(s[i], Before(s, i))
      BY <1>3
    <3> DEFINE v == p[i - 1]
               c == PassedChar(s[i], Before(s, i))
    <3>3. v \in Seq(T) /\ c \in Seq(T) /\ x = pre \o v
      BY <2>2, <3>1 DEF x
    <3> HIDE DEF v, c
    <3>4. (pre \o v) \o c = pre \o (v \o c)
      BY <3>3, ConcatAssociative
    <3>5. x \o c = pre \o (v \o c)
      BY <3>3, <3>4
    <3>6. p[i] = v \o c
      BY <3>2 DEF v, c
    <3>7. x \o c = pre \o p[i]
      BY <3>5, <3>6
    <3>8. QED BY <3>7 DEF c
  <2>8. r[b + Len(y[i])] = CronAt(Prev(i), pre \o p[i]) /\ i \in 0..n
    BY <1>1, <1>7, <2>5, <2>6, <2>7
  <2>9. QED BY <2>8
<1>11. n \in Through
  <2> HIDE DEF Through
  <2>1. \A i \in 0..n : i \in Through
    BY <1>1, <1>9, <1>10, Reaches
  <2>2. QED BY <1>1, <2>1
<1>12. n \in 0..n /\ p[n] \in Seq(T) /\ Len(y[n]) \in Nat
  BY <1>1, <1>2, <1>3
<1>13. r[b + Len(w)] = CronStep(collapse, r[b + Len(y[n])], Quote)
  <2>1. Len(w) \in 1..Len(w) /\ (b + Len(w)) - 1 = b + Len(y[n]) /\ w[Len(w)] = Quote
    BY <1>b, <1>0, <1>2
  <2>2. QED BY <1>8, <2>1
<1>14. r[b + Len(w)] = [mode |-> "plain", out |-> Append(pre \o p[n], Quote)]
  <2>1. r[b + Len(y[n])] = CronAt(Prev(n), pre \o p[n]) /\ pre \o p[n] \in Seq(T)
    BY <1>11, <1>12
  <2>2. QED BY SMT, ZenonT(40), <1>1, <1>13, <2>1, CronOrdinary, SpecialDiffer DEF CronAt
<1>15. Append(pre \o p[n], Quote) = pre \o Append(p[n], Quote) /\ Append(p[n], Quote) \in Seq(T)
  <2>1. ASSUME NEW v \in Seq(T)
        PROVE  Append(pre \o v, Quote) = pre \o Append(v, Quote) /\ Append(v, Quote) \in Seq(T)
    <3> DEFINE ch == Quote
    <3>1. ch \in T /\ pre \in Seq(T)
      BY <1>1
    <3> HIDE DEF ch
    <3>2. pre \o Append(v, ch) = Append(pre \o v, ch) /\ Append(v, ch) \in Seq(T)
      BY <3>1, AppendOne
    <3>3. QED BY <3>2 DEF ch
  <2>2. QED BY <1>12, <2>1
<1>16. QED BY <1>4, <1>14, <1>15 DEF w, r, Plain

\* Where a shell stands: the words it has, and what there is of the next.
ShellAt(mode, ws, x) == [mode |-> mode, words |-> ws, word |-> x]

\* What it does with a character, by where it stands: between quotes it takes
\* all but the closing quote,
LEMMA ShellTakes ==
    ASSUME NEW ws, NEW x, NEW ch
    PROVE  /\ ch # Quote => ShellStep(ShellAt("single", ws, x), ch) = ShellAt("single", ws, Append(x, ch))
           /\ ch # Double => ShellStep(ShellAt("double", ws, x), ch) = ShellAt("double", ws, Append(x, ch))
BY DEF ShellStep, ShellAt

\* and the special characters take it from one place to another.
LEMMA ShellMoves ==
    ASSUME NEW ws, NEW x
    PROVE  /\ ShellStep(ShellAt("single", ws, x), Quote) = ShellAt("plain", ws, x)
           /\ ShellStep(ShellAt("plain", ws, x), Quote) = ShellAt("single", ws, x)
           /\ ShellStep(ShellAt("between", ws, x), Quote) = ShellAt("single", ws, x)
           /\ ShellStep(ShellAt("plain", ws, x), Double) = ShellAt("double", ws, x)
           /\ ShellStep(ShellAt("double", ws, x), Double) = ShellAt("plain", ws, x)
           /\ ShellStep(ShellAt("plain", ws, x), Percent) = ShellAt("plain", ws, Append(x, Percent))
           /\ ShellStep(ShellAt("plain", ws, x), Blank) = ShellAt("between", Append(ws, x), <<>>)
<1>1. /\ ShellStep(ShellAt("single", ws, x), Quote) = ShellAt("plain", ws, x)
      /\ ShellStep(ShellAt("double", ws, x), Double) = ShellAt("plain", ws, x)
  BY DEF ShellStep, ShellAt
<1>2. /\ ShellStep(ShellAt("plain", ws, x), Quote) = ShellAt("single", ws, x)
      /\ ShellStep(ShellAt("between", ws, x), Quote) = ShellAt("single", ws, x)
  BY SpecialDiffer DEF ShellStep, ShellAt
<1>3. ShellStep(ShellAt("plain", ws, x), Double) = ShellAt("double", ws, x)
  BY SpecialDiffer DEF ShellStep, ShellAt
<1>4. ShellStep(ShellAt("plain", ws, x), Percent) = ShellAt("plain", ws, Append(x, Percent))
  BY SpecialDiffer DEF ShellStep, ShellAt
<1>5. ShellStep(ShellAt("plain", ws, x), Blank) = ShellAt("between", Append(ws, x), <<>>)
  BY SpecialDiffer DEF ShellStep, ShellAt
<1>6. QED BY <1>1, <1>2, <1>3, <1>4, <1>5

\* Together they take a passed-on character for the one it was.
LEMMA ShellPiece ==
    ASSUME NEW T, Special \subseteq T, NEW x \in Seq(T), NEW ch \in T, NEW before \in T,
           NEW ws, NEW q, q[0] = ShellAt("single", ws, x),
           \A j \in 1..Len(PassedChar(ch, before)) :
             q[j] = ShellStep(q[j - 1], PassedChar(ch, before)[j])
    PROVE  q[Len(PassedChar(ch, before))] = ShellAt("single", ws, Append(x, ch))
<1> DEFINE piece == PassedChar(ch, before)
<1>1. Quote \in T /\ Double \in T /\ Backslash \in T /\ Percent \in T
  BY DEF Special
<1>2. /\ ch # Quote => ShellStep(ShellAt("single", ws, x), ch) = ShellAt("single", ws, Append(x, ch))
      /\ ShellStep(ShellAt("single", ws, x), Quote) = ShellAt("plain", ws, x)
      /\ ShellStep(ShellAt("plain", ws, x), Quote) = ShellAt("single", ws, x)
  <2>1. ch # Quote => ShellStep(ShellAt("single", ws, x), ch) = ShellAt("single", ws, Append(x, ch))
    BY ShellTakes
  <2>2. /\ ShellStep(ShellAt("single", ws, x), Quote) = ShellAt("plain", ws, x)
        /\ ShellStep(ShellAt("plain", ws, x), Quote) = ShellAt("single", ws, x)
    BY ShellMoves
  <2>3. QED BY <2>1, <2>2
<1>3. CASE ch = Quote
  <2>1. piece = <<Quote, Double, Quote, Double, Quote>>
    BY <1>3, SpecialDiffer DEF QuotedChar, PassedChar
  <2>2. /\ Len(piece) = 5 /\ piece[1] = Quote /\ piece[2] = Double /\ piece[3] = Quote
        /\ piece[4] = Double /\ piece[5] = Quote
    BY <2>1
  <2> HIDE DEF piece
  <2>3. /\ q[1] = ShellStep(q[0], Quote) /\ q[2] = ShellStep(q[1], Double)
        /\ q[3] = ShellStep(q[2], Quote) /\ q[4] = ShellStep(q[3], Double)
        /\ q[5] = ShellStep(q[4], Quote)
    BY <2>2 DEF piece
  <2> DEFINE z == Append(x, Quote)
  <2>4. z \in Seq(T)
    BY <1>1
  <2>5. q[1] = ShellAt("plain", ws, x)
    BY <1>2, <2>3
  <2>6. q[2] = ShellAt("double", ws, x)
    <3>1. ShellStep(ShellAt("plain", ws, x), Double) = ShellAt("double", ws, x)
      BY ShellMoves
    <3>2. QED BY <2>3, <2>5, <3>1
  <2>7. q[3] = ShellAt("double", ws, z)
    <3>1. ShellStep(ShellAt("double", ws, x), Quote) = ShellAt("double", ws, z)
      <4>1. Quote # Double
        BY SpecialDiffer
      <4> DEFINE a == Quote
      <4> HIDE DEF a
      <4>2. a # Double => ShellStep(ShellAt("double", ws, x), a) = ShellAt("double", ws, Append(x, a))
        BY ShellTakes
      <4>3. QED BY <4>1, <4>2 DEF a
    <3>2. QED BY <2>3, <2>6, <3>1
  <2> HIDE DEF z
  <2>8. q[4] = ShellAt("plain", ws, z)
    <3>1. ShellStep(ShellAt("double", ws, z), Double) = ShellAt("plain", ws, z)
      BY ShellMoves
    <3>2. QED BY <2>3, <2>7, <3>1
  <2>9. q[5] = ShellAt("single", ws, z)
    <3>1. ShellStep(ShellAt("plain", ws, z), Quote) = ShellAt("single", ws, z)
      BY ShellMoves
    <3>2. QED BY <2>3, <2>8, <3>1
  <2>10. QED BY <1>3, <2>2, <2>9 DEF z, piece
<1>4. CASE ch = Percent
  <2>1. piece = <<Quote, Percent, Quote>>
    BY <1>4 DEF PassedChar
  <2>2. Len(piece) = 3 /\ piece[1] = Quote /\ piece[2] = Percent /\ piece[3] = Quote
    BY <2>1
  <2> HIDE DEF piece
  <2>3. /\ q[1] = ShellStep(q[0], Quote) /\ q[2] = ShellStep(q[1], Percent)
        /\ q[3] = ShellStep(q[2], Quote)
    BY <2>2 DEF piece
  <2> DEFINE z == Append(x, Percent)
  <2>4. z \in Seq(T)
    BY <1>1
  <2>5. q[1] = ShellAt("plain", ws, x)
    BY <1>2, <2>3
  <2>6. q[2] = ShellAt("plain", ws, z)
    <3>1. ShellStep(ShellAt("plain", ws, x), Percent) = ShellAt("plain", ws, z)
      BY ShellMoves
    <3>2. QED BY <2>3, <2>5, <3>1
  <2> HIDE DEF z
  <2>7. q[3] = ShellAt("single", ws, z)
    <3>1. ShellStep(ShellAt("plain", ws, z), Quote) = ShellAt("single", ws, z)
      BY ShellMoves
    <3>2. QED BY <2>3, <2>6, <3>1
  <2>8. QED BY <1>4, <2>2, <2>7 DEF z, piece
<1>5. CASE ch = Backslash /\ before = Backslash
  <2>1. piece = <<Quote, Quote, Backslash>>
    BY <1>5, SpecialDiffer DEF QuotedChar, PassedChar
  <2>2. Len(piece) = 3 /\ piece[1] = Quote /\ piece[2] = Quote /\ piece[3] = Backslash
    BY <2>1
  <2> HIDE DEF piece
  <2>3. /\ q[1] = ShellStep(q[0], Quote) /\ q[2] = ShellStep(q[1], Quote)
        /\ q[3] = ShellStep(q[2], Backslash)
    BY <2>2 DEF piece
  <2>4. q[2] = ShellAt("single", ws, x)
    BY <1>2, <2>3
  <2>5. q[3] = ShellAt("single", ws, Append(x, ch))
    BY <1>2, <1>5, <2>3, <2>4, SpecialDiffer
  <2>6. QED BY <2>2, <2>5 DEF piece
<1>6. CASE ch # Quote /\ ch # Percent /\ ~(ch = Backslash /\ before = Backslash)
  <2>1. piece = <<ch>>
    BY <1>6 DEF QuotedChar, PassedChar
  <2>2. Len(piece) = 1 /\ piece[1] = ch
    BY <2>1
  <2> HIDE DEF piece
  <2>3. q[1] = ShellStep(q[0], ch)
    BY <2>2 DEF piece
  <2>4. q[1] = ShellAt("single", ws, Append(x, ch))
    BY <1>2, <1>6, <2>3
  <2>5. QED BY <2>2, <2>4 DEF piece
<1>7. QED BY <1>3, <1>4, <1>5, <1>6

\* A shell that comes to such an argument between two words has it for a word.
LEMMA ShellThrough ==
    ASSUME NEW T, Special \subseteq T, NEW line, NEW s, NEW b, Held(T, line, b, s, Passed(s)), NEW ws,
           ShellReading(line)[b] = ShellAt("between", ws, <<>>)
    PROVE  ShellReading(line)[b + Len(Passed(s))] = ShellAt("plain", ws, s)
<1> DEFINE n == Len(s)
           p == Passing(s)
           w == Passed(s)
           r == ShellReading(line)
           t(i) == PassedChar(s[i], Before(s, i))
           part(i) == SubSeq(s, 1, i)
<1>a. line \in Seq(T) /\ s \in Seq(T) /\ b \in Nat
  BY DEF Held
<1>b. b \in Nat
  BY <1>a
<1>1. Quote \in T /\ n \in Nat
  <2>1. Quote \in T
    BY DEF Special
  <2>2. QED BY <1>a, <2>1
<1>2. /\ w \in Seq(T) /\ Len(w) = Len(p[n]) + 1 /\ w[Len(p[n]) + 1] = Quote
      /\ w[1] = Quote /\ Len(p[0]) = 1
      /\ \A i \in 0..n : Len(p[i]) \in Nat /\ Len(p[i]) <= Len(p[n])
      /\ \A i \in 1..n : /\ t(i) \in Seq(T) /\ Len(p[i]) = Len(p[i - 1]) + Len(t(i))
                         /\ \A j \in 1..Len(t(i)) : w[Len(p[i - 1]) + j] = t(i)[j]
  BY <1>a, PassedPieces
<1>3. /\ Len(line) \in Nat /\ b + Len(w) <= Len(line) /\ \A k \in 1..Len(w) : line[b + k] = w[k]
      /\ \A i \in 1..Len(line) : r[i] = ShellStep(r[i - 1], line[i])
  BY <1>a, ShellReadingIs DEF Held
<1>4. r[b] = ShellAt("between", ws, <<>>)
  OBVIOUS
<1>5. \A i \in 1..n : /\ s[i] \in T /\ Before(s, i) \in T
                      /\ part(i - 1) \in Seq(T) /\ part(i) = Append(part(i - 1), s[i])
  <2> TAKE i \in 1..n
  <2>1. s[i] \in T /\ (i # 1 => i - 1 \in 1..n /\ s[i - 1] \in T)
    BY <1>a
  <2>2. Before(s, i) \in T
    BY <1>1, <2>1 DEF Before
  <2>3. part(i - 1) \in Seq(T) /\ part(i) = Append(part(i - 1), s[i])
    BY <1>a, InitialPart
  <2>4. QED BY <2>1, <2>2, <2>3
<1>6. part(0) = <<>> /\ part(n) = s
  BY <1>a
<1> HIDE DEF n, p, w, r, part
<1>0. Len(w) \in Nat /\ Len(p[n]) \in Nat /\ Len(w) = Len(p[n]) + 1 /\ b + Len(w) <= Len(line)
  <2>1. n \in 0..n
    BY <1>1
  <2>2. Len(p[n]) \in Nat
    BY <1>2, <2>1
  <2>3. QED BY <1>2, <1>3, <2>2
<1>8. \A k \in 1..Len(w) : r[b + k] = ShellStep(r[(b + k) - 1], w[k])
  <2> TAKE k \in 1..Len(w)
  <2>1. b + k \in 1..Len(line) /\ line[b + k] = w[k]
    BY <1>b, <1>0, <1>3
  <2>2. r[b + k] = ShellStep(r[(b + k) - 1], line[b + k])
    <3> DEFINE i == b + k
    <3>1. i \in 1..Len(line)
      BY <2>1
    <3> HIDE DEF i
    <3>2. r[i] = ShellStep(r[i - 1], line[i])
      BY <1>3, <3>1
    <3>3. QED BY <3>2 DEF i
  <2>3. QED BY <2>1, <2>2
<1> DEFINE Through == {i \in 0..n : r[b + Len(p[i])] = ShellAt("single", ws, part(i))}
<1>9. 0 \in Through
  <2>1. r[b + 1] = ShellStep(r[b], Quote)
    <3>1. 1 \in 1..Len(w) /\ (b + 1) - 1 = b
      BY <1>b, <1>0
    <3>2. QED BY <1>2, <1>8, <3>1
  <2>2. r[b + 1] = ShellAt("single", ws, <<>>)
    BY <1>4, <2>1, ShellMoves
  <2>3. r[b + Len(p[0])] = ShellAt("single", ws, part(0))
    BY <1>2, <1>6, <2>2
  <2>4. QED BY <1>1, <2>3
<1>10. ASSUME NEW i \in 1..n, i - 1 \in Through PROVE i \in Through
  <2> DEFINE u == t(i)
             at == b + Len(p[i - 1])
             q == [j \in 0..Len(u) |-> r[at + j]]
  <2> HIDE DEF u
  <2>1. /\ u \in Seq(T) /\ Len(u) \in Nat /\ Len(p[i]) = Len(p[i - 1]) + Len(u)
        /\ Len(p[i - 1]) \in Nat /\ Len(p[i]) <= Len(p[n])
        /\ \A j \in 1..Len(u) : w[Len(p[i - 1]) + j] = u[j]
    <3>1. i \in 0..n /\ i - 1 \in 0..n
      BY <1>1
    <3>2. Len(p[i]) \in Nat /\ Len(p[i]) <= Len(p[n]) /\ Len(p[i - 1]) \in Nat
      BY <1>2, <3>1
    <3>3. /\ u \in Seq(T) /\ Len(p[i]) = Len(p[i - 1]) + Len(u)
          /\ \A j \in 1..Len(u) : w[Len(p[i - 1]) + j] = u[j]
      BY <1>2 DEF u
    <3>4. Len(u) \in Nat
      BY <3>3
    <3>5. QED BY <3>2, <3>3, <3>4
  <2>2. at \in Nat
    BY <1>b, <2>1
  <2>3. q[0] = ShellAt("single", ws, part(i - 1))
    <3>1. r[at] = ShellAt("single", ws, part(i - 1))
      BY <1>10
    <3>2. q[0] = r[at]
      BY <2>1, <2>2
    <3>3. QED BY <3>1, <3>2
  <2>4. ASSUME NEW j \in 1..Len(u) PROVE q[j] = ShellStep(q[j - 1], u[j])
    <3>0. Len(u) \in Nat /\ Len(p[i - 1]) \in Nat /\ Len(p[i - 1]) + Len(u) <= Len(p[n])
      BY <2>1
    <3>1. Len(p[i - 1]) + j \in 1..Len(w) /\ w[Len(p[i - 1]) + j] = u[j]
      <4>1. Len(p[i - 1]) + j \in 1..Len(w)
        BY <1>0, <3>0
      <4>2. QED BY <4>1, <2>1
    <3>2. r[b + (Len(p[i - 1]) + j)] = ShellStep(r[(b + (Len(p[i - 1]) + j)) - 1], u[j])
      BY <1>8, <3>1
    <3>3. b + (Len(p[i - 1]) + j) = at + j /\ (b + (Len(p[i - 1]) + j)) - 1 = at + (j - 1)
      BY <1>b, <2>1
    <3>4. q[j] = r[at + j] /\ q[j - 1] = r[at + (j - 1)]
      BY <2>1
    <3>5. QED BY <3>2, <3>3, <3>4
  <2>5. q[Len(u)] = r[b + Len(p[i])]
    <3>1. b + Len(p[i]) = at + Len(u) /\ Len(u) \in 0..Len(u)
      BY <1>b, <2>1
    <3>2. QED BY <3>1
  <2> HIDE DEF q
  <2>6. q[Len(u)] = ShellAt("single", ws, Append(part(i - 1), s[i]))
    <3> DEFINE ch == s[i]
               before == Before(s, i)
               x == part(i - 1)
    <3>1. /\ ch \in T /\ before \in T /\ x \in Seq(T) /\ u = PassedChar(ch, before)
          /\ q[0] = ShellAt("single", ws, x)
          /\ \A j \in 1..Len(u) : q[j] = ShellStep(q[j - 1], u[j])
      BY <1>5, <2>3, <2>4 DEF u
    <3> HIDE DEF ch, before, x
    <3>2. \A j \in 1..Len(PassedChar(ch, before)) :
            q[j] = ShellStep(q[j - 1], PassedChar(ch, before)[j])
      BY <3>1
    <3>3. q[Len(PassedChar(ch, before))] = ShellAt("single", ws, Append(x, ch))
      BY <3>1, <3>2, ShellPiece
    <3>4. QED BY <3>1, <3>3 DEF ch, x
  <2>7. r[b + Len(p[i])] = ShellAt("single", ws, part(i)) /\ i \in 0..n
    <3>1. part(i) = Append(part(i - 1), s[i]) /\ i \in 0..n
      BY <1>1, <1>5
    <3>2. QED BY <3>1, <2>5, <2>6
  <2>8. QED BY <2>7
<1>11. n \in Through
  <2> HIDE DEF Through
  <2>1. \A i \in 0..n : i \in Through
    BY <1>1, <1>9, <1>10, Reaches
  <2>2. QED BY <1>1, <2>1
<1>12. r[b + Len(w)] = ShellStep(r[b + Len(p[n])], Quote)
  <2>1. Len(w) \in 1..Len(w) /\ (b + Len(w)) - 1 = b + Len(p[n]) /\ w[Len(w)] = Quote
    BY <1>b, <1>0, <1>2
  <2>2. QED BY <1>8, <2>1
<1>13. r[b + Len(p[n])] = ShellAt("single", ws, s)
  BY <1>6, <1>11
<1>14. QED BY <1>12, <1>13, ShellMoves DEF w, r

-----------------------------------------------------------------------------
(* An entry *)

\* A text and a character behind it.
LEMMA AppendIs ==
    ASSUME NEW T, NEW x \in Seq(T), NEW e \in T
    PROVE  /\ Append(x, e) \in Seq(T) /\ Len(x) \in Nat /\ Len(Append(x, e)) = Len(x) + 1
           /\ Append(x, e)[Len(x) + 1] = e /\ \A k \in 1..Len(x) : Append(x, e)[k] = x[k]
OBVIOUS

\* M is two texts a and v with a blank between them and something behind them.
Two(T, M, a, v) ==
    /\ a \in Seq(T) /\ v \in Seq(T) /\ M \in Seq(T)
    /\ Len(a) + 1 + Len(v) <= Len(M) /\ M[Len(a) + 1] = Blank
    /\ \A k \in 1..Len(a) : M[k] = a[k]
    /\ \A k \in 1..Len(v) : M[(Len(a) + 1) + k] = v[k]

\* Two words in a row.
LEMMA TwoWords ==
    ASSUME NEW T, NEW d \in T, NEW c \in T
    PROVE  Append(<<d>>, c) = <<d, c>>
<1>1. <<d, c>> \in Seq(T) /\ Append(<<d>>, c) \in Seq(T)
  OBVIOUS
<1>2. Len(<<d, c>>) = 2 /\ Len(Append(<<d>>, c)) = 2
  OBVIOUS
<1>3. \A i \in 1..2 : Append(<<d>>, c)[i] = <<d, c>>[i]
  OBVIOUS
<1>4. QED BY <1>1, <1>2, <1>3, SeqEqual

\* Where the two are to be found.
LEMMA TwoHeld ==
    ASSUME NEW T, NEW M, NEW a, NEW v, Two(T, M, a, v), NEW d \in Seq(T), NEW c \in Seq(T)
    PROVE  Held(T, M, 0, d, a) /\ Held(T, M, Len(a) + 1, c, v)
<1>1. /\ M \in Seq(T) /\ Len(M) \in Nat /\ Len(a) \in Nat /\ Len(v) \in Nat
      /\ Len(a) + 1 + Len(v) <= Len(M)
  BY DEF Two
<1>2. \A k \in 1..Len(a) : M[0 + k] = a[k]
  <2> TAKE k \in 1..Len(a)
  <2>1. 0 + k = k
    BY <1>1
  <2>2. QED BY <2>1 DEF Two
<1>3. \A k \in 1..Len(v) : M[(Len(a) + 1) + k] = v[k]
  BY DEF Two
<1>4. 0 + Len(a) <= Len(M) /\ (Len(a) + 1) + Len(v) <= Len(M) /\ Len(a) + 1 \in Nat
  BY <1>1
<1>5. QED BY <1>1, <1>2, <1>3, <1>4 DEF Held

\* Two texts with a blank between them, and with a blank behind them.
LEMMA TwoArguments ==
    ASSUME NEW T, Blank \in T, NEW a \in Seq(T), NEW v \in Seq(T)
    PROVE  LET L == a \o <<Blank>> \o v IN
           /\ Two(T, L, a, v) /\ Len(L) = (Len(a) + 1) + Len(v)
           /\ Two(T, Append(L, Blank), a, v) /\ Append(L, Blank)[Len(L) + 1] = Blank
           /\ Len(Append(L, Blank)) = Len(L) + 1
<1> DEFINE e == Blank
           h == Append(a, e)
           L == h \o v
           M == Append(L, e)
<1>0. e \in T
  OBVIOUS
<1>1. a \o <<e>> = h
  <2> HIDE DEF e
  <2>1. QED BY <1>0, AppendOne
<1> HIDE DEF e
<1>2. /\ h \in Seq(T) /\ Len(h) = Len(a) + 1 /\ Len(a) \in Nat
      /\ h[Len(a) + 1] = e /\ \A k \in 1..Len(a) : h[k] = a[k]
  BY <1>0, AppendIs
<1>3. Len(v) \in Nat
  OBVIOUS
<1> HIDE DEF h
<1>4. /\ L \in Seq(T) /\ Len(L) = Len(h) + Len(v)
      /\ \A k \in 1..(Len(h) + Len(v)) : L[k] = IF k <= Len(h) THEN h[k] ELSE v[k - Len(h)]
  BY <1>2, ConcatProperties
<1> HIDE DEF L
<1>5. /\ M \in Seq(T) /\ Len(M) = Len(L) + 1 /\ M[Len(L) + 1] = e
      /\ \A k \in 1..Len(L) : M[k] = L[k]
  BY SMT, ZenonT(40), <1>0, <1>4, AppendIs
<1> HIDE DEF M
<1>6. /\ \A k \in 1..Len(a) : L[k] = a[k]
      /\ L[Len(a) + 1] = e
  <2>1. ASSUME NEW k \in 1..Len(a) PROVE L[k] = a[k]
    <3>1. k \in 1..(Len(h) + Len(v)) /\ k <= Len(h)
      BY <1>2, <1>3
    <3>2. QED BY <3>1, <1>2, <1>4
  <2>2. Len(a) + 1 \in 1..(Len(h) + Len(v)) /\ Len(a) + 1 <= Len(h)
    BY <1>2, <1>3
  <2>3. QED BY <2>1, <2>2, <1>2, <1>4
<1>7. ASSUME NEW k \in 1..Len(v) PROVE L[(Len(a) + 1) + k] = v[k]
  <2> DEFINE j == (Len(a) + 1) + k
  <2>1. j \in 1..(Len(h) + Len(v)) /\ ~(j <= Len(h)) /\ j - Len(h) = k
    BY <1>2, <1>3
  <2> HIDE DEF j
  <2>2. L[j] = v[j - Len(h)]
    BY <1>4, <2>1
  <2>3. L[j] = v[k]
    BY <2>1, <2>2
  <2>4. QED BY <2>3 DEF j
<1>8. Len(L) = (Len(a) + 1) + Len(v) /\ Len(a) + 1 + Len(v) <= Len(L)
  BY <1>2, <1>3, <1>4
<1>9. Two(T, L, a, v)
  BY <1>4, <1>6, <1>7, <1>8 DEF Two, e
<1>10. /\ \A k \in 1..Len(a) : M[k] = a[k]
       /\ M[Len(a) + 1] = e
  <2>1. ASSUME NEW k \in 1..Len(a) PROVE M[k] = a[k]
    <3>1. k \in 1..Len(L)
      BY <1>2, <1>3, <1>8
    <3>2. QED BY <3>1, <1>5, <1>6
  <2>2. Len(a) + 1 \in 1..Len(L)
    BY <1>2, <1>3, <1>8
  <2>3. QED BY <2>1, <2>2, <1>5, <1>6
<1>11. ASSUME NEW k \in 1..Len(v) PROVE M[(Len(a) + 1) + k] = v[k]
  <2> DEFINE j == (Len(a) + 1) + k
  <2>1. j \in 1..Len(L)
    BY <1>2, <1>3, <1>8
  <2>2. L[j] = v[k]
    BY <1>7
  <2> HIDE DEF j
  <2>3. M[j] = v[k]
    BY <1>5, <2>1, <2>2
  <2>4. QED BY <2>3 DEF j
<1>12. Len(a) + 1 + Len(v) <= Len(M)
  BY <1>2, <1>3, <1>5, <1>8
<1>13. Two(T, M, a, v)
  BY <1>5, <1>10, <1>11, <1>12 DEF Two, e
<1>14. L = a \o <<e>> \o v
  BY <1>1 DEF L
<1>15. QED BY <1>5, <1>8, <1>9, <1>13, <1>14 DEF M, e

\* What any cron hands to the shell of an entry.
LEMMA CronPassesOn ==
    ASSUME NEW T, Special \subseteq T, NEW collapse \in BOOLEAN, NEW d \in Seq(T), NEW c \in Seq(T)
    PROVE  /\ CronCommand(collapse, EntryText(d, c)) = Passed(d) \o <<Blank>> \o Passed(c)
           /\ Passed(d) \in Seq(T) /\ Passed(c) \in Seq(T)
<1> DEFINE a == quoteCronArg(d)
           v == quoteCronArg(c)
           L == EntryText(d, c)
           r == CronReading(collapse, L)
           none == <<>>
<1>1. Blank \in T
  BY DEF Special
<1>2. a \in Seq(T) /\ v \in Seq(T) /\ L = a \o <<Blank>> \o v
  BY QuotedPieces DEF EntryText
<1> HIDE DEF a, v, L, r
<1>b. Two(T, L, a, v) /\ Len(L) = (Len(a) + 1) + Len(v)
  BY <1>1, <1>2, TwoArguments
<1>3. Held(T, L, 0, d, a) /\ Held(T, L, Len(a) + 1, c, v)
  BY <1>b, TwoHeld
<1>4. Len(a) \in Nat /\ Len(v) \in Nat
  BY <1>2
<1>l. L \in Seq(T) /\ L[Len(a) + 1] = Blank
  BY <1>b DEF Two
<1>5. /\ r[0] = [mode |-> "plain", out |-> none]
      /\ \A i \in 1..Len(L) : r[i] = CronStep(collapse, r[i - 1], L[i])
  BY <1>l, CronReadingIs DEF r
<1>6. none \in Seq(T)
  OBVIOUS
<1> HIDE DEF none
<1>p. Passed(d) \in Seq(T) /\ Passed(c) \in Seq(T)
  BY PassedPieces
<1>7. r[0 + Len(a)] = [mode |-> "plain", out |-> none \o Passed(d)]
  <2>1. /\ Held(T, L, 0, d, quoteCronArg(d))
        /\ CronReading(collapse, L)[0] = Plain(none)
    BY <1>3, <1>5 DEF a, r, Plain
  <2>2. CronReading(collapse, L)[0 + Len(quoteCronArg(d))] = Plain(none \o Passed(d))
    BY <1>6, <2>1, CronThrough
  <2>3. QED BY <2>2 DEF a, r, Plain
<1>8. none \o Passed(d) = Passed(d)
  BY <1>p DEF none
<1>9. r[Len(a) + 1] = [mode |-> "plain", out |-> Append(Passed(d), Blank)]
  <2>1. Len(a) + 1 \in 1..Len(L) /\ (Len(a) + 1) - 1 = Len(a) /\ 0 + Len(a) = Len(a)
    BY <1>b, <1>4
  <2>2. r[Len(a) + 1] = CronStep(collapse, r[(Len(a) + 1) - 1], L[Len(a) + 1])
    BY <1>4, <1>5, <2>1
  <2>3. r[Len(a) + 1] = CronStep(collapse, [mode |-> "plain", out |-> Passed(d)], Blank)
    BY <1>l, <1>7, <1>8, <2>1, <2>2
  <2>4. QED BY <1>1, <1>p, <2>3, CronOrdinary, SpecialDiffer
<1> DEFINE pre == Append(Passed(d), Blank)
<1>10. pre \in Seq(T) /\ pre = Passed(d) \o <<Blank>>
  BY <1>1, <1>p, AppendOne
<1> HIDE DEF pre
<1>11. r[(Len(a) + 1) + Len(v)] = [mode |-> "plain", out |-> pre \o Passed(c)]
  <2>1. r[Len(a) + 1] = [mode |-> "plain", out |-> pre]
    BY <1>9 DEF pre
  <2>2. /\ Held(T, L, Len(a) + 1, c, quoteCronArg(c))
        /\ CronReading(collapse, L)[Len(a) + 1] = Plain(pre)
    BY <1>3, <2>1 DEF v, r, Plain
  <2>3. CronReading(collapse, L)[(Len(a) + 1) + Len(quoteCronArg(c))] = Plain(pre \o Passed(c))
    <3> DEFINE b == Len(a) + 1
    <3>1. /\ Held(T, L, b, c, quoteCronArg(c)) /\ CronReading(collapse, L)[b] = Plain(pre)
          /\ pre \in Seq(T)
      BY <1>10, <2>2
    <3> HIDE DEF b
    <3>2. CronReading(collapse, L)[b + Len(quoteCronArg(c))] = Plain(pre \o Passed(c))
      BY <3>1, CronThrough
    <3>3. QED BY <3>2 DEF b
  <2>4. QED BY <2>3 DEF v, r, Plain
<1>12. CronCommand(collapse, L) = r[Len(L)].out /\ Len(L) = (Len(a) + 1) + Len(v)
  BY <1>b DEF CronCommand, r
<1>13. CronCommand(collapse, L) = pre \o Passed(c)
  BY <1>11, <1>12
<1>14. QED BY <1>p, <1>10, <1>13 DEF L

\* Two quoted arguments arrive as they were written, through any cron and the
\* shell: what EntryText writes, Arrives takes apart.
LEMMA ArgumentsArrive ==
    ASSUME NEW T, Special \subseteq T, NEW collapse \in BOOLEAN, NEW d \in Seq(T), NEW c \in Seq(T)
    PROVE  Arrives(collapse, EntryText(d, c)) = <<d, c>>
<1> DEFINE a == Passed(d)
           v == Passed(c)
           L == CronCommand(collapse, EntryText(d, c))
           M == Append(L, Blank)
           r == ShellReading(M)
           none == <<>>
<1>1. Blank \in T
  BY DEF Special
<1>2. a \in Seq(T) /\ v \in Seq(T) /\ L = a \o <<Blank>> \o v
  BY CronPassesOn
<1> HIDE DEF a, v, L
<1>b. /\ Two(T, M, a, v) /\ Len(L) = (Len(a) + 1) + Len(v)
      /\ Len(M) = Len(L) + 1 /\ M[Len(L) + 1] = Blank
  BY <1>1, <1>2, TwoArguments
<1> HIDE DEF M
<1>3. Held(T, M, 0, d, a) /\ Held(T, M, Len(a) + 1, c, v)
  BY <1>b, TwoHeld
<1>l. M \in Seq(T) /\ M[Len(a) + 1] = Blank
  BY <1>b DEF Two
<1>4. Len(a) \in Nat /\ Len(v) \in Nat
  BY <1>2
<1> HIDE DEF r
<1>5. /\ r[0] = ShellAt("between", none, <<>>)
      /\ \A i \in 1..Len(M) : r[i] = ShellStep(r[i - 1], M[i])
  BY <1>l, ShellReadingIs DEF r, ShellAt
<1> HIDE DEF none
<1>6. r[0 + Len(a)] = ShellAt("plain", none, d)
  BY <1>3, <1>5, ShellThrough DEF a, r
<1>7. r[Len(a) + 1] = ShellAt("between", Append(none, d), <<>>)
  <2>1. Len(a) + 1 \in 1..Len(M) /\ (Len(a) + 1) - 1 = Len(a) /\ 0 + Len(a) = Len(a)
    BY <1>b, <1>4
  <2>2. r[Len(a) + 1] = ShellStep(r[(Len(a) + 1) - 1], M[Len(a) + 1])
    BY <1>4, <1>5, <2>1
  <2>3. r[Len(a) + 1] = ShellStep(ShellAt("plain", none, d), Blank)
    BY <1>l, <1>6, <2>1, <2>2
  <2>4. QED BY <2>3, ShellMoves
<1> DEFINE one == Append(none, d)
<1>8. one = <<d>>
  BY DEF none
<1> HIDE DEF one
<1>9. r[(Len(a) + 1) + Len(v)] = ShellAt("plain", one, c)
  <2>1. r[Len(a) + 1] = ShellAt("between", one, <<>>)
    BY <1>7 DEF one
  <2>2. QED BY <1>3, <2>1, ShellThrough DEF v, r
<1>10. r[Len(L) + 1] = ShellAt("between", Append(one, c), <<>>)
  <2>1. Len(L) + 1 \in 1..Len(M) /\ (Len(L) + 1) - 1 = (Len(a) + 1) + Len(v)
    BY <1>b, <1>4
  <2>2. r[Len(L) + 1] = ShellStep(r[(Len(L) + 1) - 1], M[Len(L) + 1])
    <3> DEFINE i == Len(L) + 1
    <3>1. i \in 1..Len(M)
      BY <2>1
    <3> HIDE DEF i
    <3>2. r[i] = ShellStep(r[i - 1], M[i])
      BY <1>5, <3>1
    <3>3. QED BY <3>2 DEF i
  <2>3. r[Len(L) + 1] = ShellStep(ShellAt("plain", one, c), Blank)
    BY <1>b, <1>9, <2>1, <2>2
  <2>4. QED BY <2>3, ShellMoves
<1>11. Append(one, c) = <<d, c>>
  <2>1. Append(<<d>>, c) = <<d, c>>
    BY TwoWords
  <2>2. QED BY <1>8, <2>1
<1>12. ShellWords(L) = r[Len(L) + 1].words
  BY DEF ShellWords, r, M
<1>13. QED BY <1>10, <1>11, <1>12 DEF Arrives, ShellAt, L

-----------------------------------------------------------------------------
(* The entry: theorem *)

\* What has become of the argument, as far as it has come.
Carried ==
    /\ form = "line"    => text = EntryText(arg, arg)
    /\ form = "command" => \E collapse \in BOOLEAN : text = CronCommand(collapse, EntryText(arg, arg))
    /\ form = "words"   => text = <<arg, arg>>

EntryInv == arg \in BoundedSeq(QuotingAlphabet, QuotingLength) /\ Carried

\* The arguments explored are texts.
LEMMA ArgumentIsText ==
    ASSUME NEW s \in BoundedSeq(QuotingAlphabet, QuotingLength)
    PROVE  s \in Seq(QuotingAlphabet \union Special)
<1>1. PICK m \in 0..QuotingLength : s \in [1..m -> QuotingAlphabet]
  BY DEF BoundedSeq, SeqOf
<1>2. m \in Nat
  BY QuotingAssumption
<1>3. QED BY <1>1, <1>2

\* At first there is nothing but the argument.
LEMMA EntryBegins == EntryInit => EntryInv
BY DEF EntryInit, EntryInv, Carried

\* Each of the three hands on what it should.
LEMMA EntryStep == EntryInv /\ [EntryNext]_entryVars => EntryInv'
<1> SUFFICES ASSUME EntryInv, [EntryNext]_entryVars PROVE EntryInv'
  OBVIOUS
<1>1. CASE UNCHANGED entryVars
  BY <1>1 DEF EntryInv, Carried, entryVars
<1>2. CASE Generate
  BY <1>2 DEF Generate, EntryInv, Carried
<1>3. CASE Cron
  <2>1. PICK collapse \in BOOLEAN : text' = CronCommand(collapse, text)
    BY <1>3 DEF Cron
  <2>2. arg' = arg /\ form' = "command" /\ text = EntryText(arg, arg)
    BY <1>3 DEF Cron, EntryInv, Carried
  <2>3. QED BY <2>1, <2>2 DEF EntryInv, Carried
<1>4. CASE Shell
  <2>1. PICK collapse \in BOOLEAN : text = CronCommand(collapse, EntryText(arg, arg))
    BY <1>4 DEF Shell, EntryInv, Carried
  <2>2. arg' = arg /\ form' = "words" /\ text' = ShellWords(text)
    BY <1>4 DEF Shell
  <2>3. text' = Arrives(collapse, EntryText(arg, arg))
    BY <2>1, <2>2 DEF Arrives
  <2>4. arg \in Seq(QuotingAlphabet \union Special)
    BY ArgumentIsText DEF EntryInv
  <2>5. text' = <<arg, arg>>
    <3> DEFINE T == QuotingAlphabet \union Special
    <3>1. Special \subseteq T /\ arg \in Seq(T)
      BY <2>4
    <3> HIDE DEF T
    <3>2. Arrives(collapse, EntryText(arg, arg)) = <<arg, arg>>
      BY <3>1, ArgumentsArrive
    <3>3. QED BY <2>3, <3>2
  <2>6. QED BY <2>2, <2>5 DEF EntryInv, Carried
<1>5. QED BY <1>1, <1>2, <1>3, <1>4 DEF EntryNext

\* An argument over any alphabet, of any length, arrives as it was written: one
\* word, every character of it, through both kinds of cron and the shell
\* (crontab.go:97-118).
THEOREM ArgumentsRoundTrip == EntrySpec => []QuotingRoundTrips
<1>1. EntryInv => QuotingRoundTrips
  BY DEF EntryInv, Carried, QuotingRoundTrips
<1>2. QED BY EntryBegins, EntryStep, <1>1, PTL DEF EntrySpec
=============================================================================
