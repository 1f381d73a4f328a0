------------------------------- MODULE Weekdays -------------------------------
(***************************************************************************)
(* The day-of-week field of a schedule (internal/cronrc): cron takes 7 for *)
(* Sunday, the parser that validates and describes schedules does not, so  *)
(* normalizeDowField rewrites the field for it.  The rewritten field       *)
(* decides whether a line is accepted and which days its description       *)
(* names; the field as written is what cron gets.                          *)
(*                                                                         *)
(* A field is a sequence of parts.  A part is "*", a day or a range, and   *)
(* step is 0 where it has none.  Names of days are left out: the rewriting *)
(* does not touch them.                                                    *)
(***************************************************************************)
EXTENDS Integers, Sequences, SequencesExt

CONSTANTS MaxStep, MaxParts     \* bounds of the fields explored

ASSUME FieldAssumption == MaxStep \in Nat /\ MaxParts \in Nat

VARIABLES
    dow,     \* the field as written
    todo,    \* the parts normalizeDowField has not come to
    expr     \* the field it is writing

fieldVars == <<dow, todo, expr>>

Star(step)       == [kind |-> "star",  low |-> 0, high |-> 7, step |-> step]
Day(d, step)     == [kind |-> "day",   low |-> d, high |-> d, step |-> step]
Days(l, h, step) == [kind |-> "range", low |-> l, high |-> h, step |-> step]

\* The parts of crontab(5): a step goes with a star or a range.
Parts == {Star(s) : s \in 0..MaxStep} \union {Day(d, 0) : d \in 0..7}
           \union {Days(l, h, s) : l \in 0..7, h \in 0..7, s \in 0..MaxStep}
Fields == BoundedSeq(Parts, MaxParts) \ {<<>>}

\* Mutant: the Sunday at the end of a range is lost.
NormalizedPartShort(p) ==
    IF p.high # 7 \/ p.kind = "star" \/ (p.kind = "day" /\ p.step # 0) THEN <<p>>
    ELSE IF p.low = 7 THEN <<IF p.step = 0 THEN Day(0, 0) ELSE Days(0, 0, p.step)>>
    ELSE <<Days(p.low, 6, p.step)>>

\* What becomes of a part: nothing unless it is, or ends on, the day 7.
NormalizedPart(p) ==
    IF p.high # 7 \/ p.kind = "star" \/ (p.kind = "day" /\ p.step # 0) THEN <<p>>
    ELSE IF p.low = 7 THEN <<IF p.step = 0 THEN Day(0, 0) ELSE Days(0, 0, p.step)>>
    ELSE IF p.step = 0 THEN <<Days(p.low, 6, 0), Day(0, 0)>>
    ELSE <<Days(p.low, 6, p.step)>>

\* normalizeDowField: part after part of the field, in order.
DowInit == dow \in Fields /\ todo = dow /\ expr = <<>>

Normalize ==
    /\ todo # <<>>
    /\ expr' = expr \o NormalizedPart(Head(todo))
    /\ todo' = Tail(todo)
    /\ UNCHANGED dow

DowSpec == DowInit /\ [][Normalize]_fieldVars

-----------------------------------------------------------------------------
\* robfig/cron, whose days end at 6: which parts it accepts, and the days of them.
Accepts(p) == p.kind = "star" \/ (p.low <= p.high /\ p.high <= 6)

DaysUpTo(p, last) ==
    LET end  == IF p.kind = "range" \/ (p.kind = "day" /\ p.step = 0) THEN p.high ELSE last
        step == IF p.step = 0 THEN 1 ELSE p.step
    IN  {d \in p.low..end : (d - p.low) % step = 0}

Described(field) == UNION {DaysUpTo(field[i], 6) : i \in DOMAIN field}

\* cron, whose days end at 7, Sunday by another name.
Meaningful(p) == p.low <= p.high
Fired(field) == {d % 7 : d \in UNION {DaysUpTo(field[i], 7) : i \in DOMAIN field}}

\* What is known once the field is rewritten.
Rewritten  == todo = <<>>
IsAccepted == \A i \in DOMAIN expr : Accepts(expr[i])

-----------------------------------------------------------------------------
(* Properties *)

\* Exactly the fields that mean something to cron are accepted, no accepted one
\* is described with a day on which cron does not fire, and without a stepped
\* range up to 7 the description names every day.
WeekdaysKept ==
    Rewritten =>
        /\ IsAccepted <=> \A i \in DOMAIN dow : Meaningful(dow[i])
        /\ IsAccepted =>
             /\ Described(expr) \subseteq Fired(dow)
             /\ \/ Described(expr) = Fired(dow)
                \/ \E i \in DOMAIN dow : dow[i].kind = "range" /\ dow[i].high = 7 /\ dow[i].step # 0

\* The description of a schedule names the days on which cron fires it:
\* "lists of steps, names, and Sunday ranges retain their system-crontab meaning"
\* (description.go:65-67).
DescribedAsFired == Rewritten /\ IsAccepted => Described(expr) = Fired(dow)
=============================================================================
