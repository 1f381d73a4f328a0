------------------------------ MODULE CrontabProofs ------------------------------
(***************************************************************************)
(* For any number of processes, kills, edits and authorizations: type      *)
(* correctness, NewestStaysInstalled, UserLinesKept, MalformedNotReplaced  *)
(* and SyncSettles.                                                        *)
(*                                                                         *)
(* The first part is about the crontab as a sequence: what RemoveBlock,    *)
(* Trimmed and MergeCrontab make of any well-formed one.  The second is    *)
(* the protocol.  Whatever is to be installed was made under the lock from *)
(* a crontab with the user's lines (Kept), with a block that no success    *)
(* can be newer than (Newest); a `crontab -` outlives its process only     *)
(* after a kill (Children).                                                *)
(***************************************************************************)
EXTENDS Crontab, SequenceTheorems, WellFoundedInduction, TLAPS

\* A process keeps the pipe of its `crontab -` open while it feeds it and lets
\* it go when it is killed; nobody starts another before that has ended.
Children ==
    \A p \in Procs :
        /\ child[p].state = "none" => child[p] = Idle
        /\ child[p].state = "reading" <=> pc[p] = "feed"
        /\ child[p].state = "closed" => pc[p] \in {"wait", "off"}
        /\ child[p].state = "closed" /\ pc[p] = "off" => killed # {}

Writing == {"spawn", "feed", "wait"}

\* The block of a sync is newer than every success that it may overwrite: it
\* was generated under the lock that whoever succeeds later has yet to take.
Newest ==
    /\ due <= store /\ \A p \in Procs : need[p] <= store
    /\ \A p \in Procs :
         op[p] = "sync" /\ pc[p] \in {"read", "merge"} \union Writing =>
             block[p] >= 1 /\ block[p] >= need[p] /\ block[p] >= due
    /\ \A p \in Procs :
         /\ pc[p] \in Writing =>
              Version(text[p]) = IF op[p] = "sync" THEN block[p] ELSE NoBlock
         /\ child[p].state = "closed" /\ pc[p] = "wait" => child[p].input = text[p]
    /\ NewestStaysInstalled

\* A crontab with the user's lines that an update may write.
Intact(t) == WellFormed(t) /\ Personal(t) = personal

\* Whatever is about to be installed keeps the user's lines, and was made from
\* a crontab that was well formed, as the installed one is since then.
Kept ==
    "feed" \notin killed /\ ~raced =>
        /\ Personal(table) = personal
        /\ \A p \in Procs :
             /\ pc[p] = "merge" => /\ Personal(text[p]) = personal
                                   /\ WellFormed(text[p]) => WellFormed(table)
             /\ pc[p] \in Writing => Intact(text[p]) /\ WellFormed(table)
             /\ child[p].state = "closed" => Intact(child[p].input) /\ WellFormed(table)

IInv == TypeOK /\ Children /\ Newest /\ Kept

-----------------------------------------------------------------------------
(* The least of a set of naturals, which Trimmed chooses its end by. *)

Below == {pair \in Nat \X Nat : pair[1] < pair[2]}

\* A nonempty set of naturals has a least element: the induction of this module.
LEMMA LeastElement ==
    ASSUME NEW T, T \subseteq Nat, T # {}
    PROVE  \E x \in T : \A y \in T : x <= y
<1>1. IsWellFoundedOn(Below, Nat)
  BY NatLessThanWellFounded DEF Below, OpToRel
<1>2. PICK x \in T : \A y \in T : <<y, x>> \notin Below
  BY <1>1, WFMin
<1>3. ASSUME NEW y \in T PROVE x <= y
  <2>1. <<y, x>> \in Nat \X Nat /\ <<y, x>> \notin Below
    BY <1>2
  <2>2. ~(y < x)
    BY <2>1 DEF Below
  <2>3. QED BY <2>2
<1>4. QED BY <1>3

-----------------------------------------------------------------------------
(* Lines and markers *)

\* The lines that are not entries, and their kinds.
LEMMA MarkerFacts ==
    /\ Blank \in Lines /\ BlockStart \in Lines /\ BlockEnd \in Lines
    /\ Blank # BlockStart /\ Blank # BlockEnd /\ BlockStart # BlockEnd
    /\ BlockStart.kind # "entry" /\ BlockEnd.kind # "entry"
    /\ \A v \in Nat : /\ Line("entry", v) \in Lines /\ Line("user", v) \in Lines
                      /\ Line("entry", v) # BlockStart /\ Line("entry", v) # BlockEnd
                      /\ Line("entry", v).kind = "entry" /\ Line("entry", v).n = v
BY DEF Line, Blank, BlockStart, BlockEnd, Lines

\* A block is a sequence of lines.
LEMMA BlockType ==
    ASSUME NEW v \in Nat PROVE Block(v) \in Seq(Lines)
BY MarkerFacts DEF Block

Unmarked(t) == \A i \in DOMAIN t : t[i] # BlockStart /\ t[i] # BlockEnd

\* Without markers there is nothing to remove and no version.
LEMMA UnmarkedWellFormed ==
    ASSUME NEW t, Unmarked(t)
    PROVE  WellFormed(t) /\ RemoveBlock(t) = t /\ Version(t) = NoBlock
<1>1. At(t, BlockStart) = {} /\ At(t, BlockEnd) = {}
  BY DEF Unmarked, At
<1>2. Generated(t) = {}
  BY <1>1 DEF Generated
<1>3. QED BY <1>1, <1>2 DEF WellFormed, RemoveBlock, HasBlock, Version

\* One sequence behind another.
LEMMA ConcatAt ==
    ASSUME NEW s \in Seq(Lines), NEW t \in Seq(Lines)
    PROVE  /\ s \o t \in Seq(Lines) /\ Len(s \o t) = Len(s) + Len(t)
           /\ \A i \in 1..Len(s) : (s \o t)[i] = s[i]
           /\ \A i \in 1..Len(t) : (s \o t)[Len(s) + i] = t[i]
<1>1. s \o t \in Seq(Lines) /\ Len(s \o t) = Len(s) + Len(t)
  BY ConcatProperties
<1>2. ASSUME NEW i \in 1..Len(s) PROVE (s \o t)[i] = s[i]
  OBVIOUS
<1>3. ASSUME NEW i \in 1..Len(t) PROVE (s \o t)[Len(s) + i] = t[i]
  OBVIOUS
<1>4. QED BY <1>1, <1>2, <1>3

\* A whole block is taken out from marker to marker.
LEMMA RemoveBlockFacts ==
    ASSUME NEW t \in Seq(Lines), WellFormed(t)
    PROVE  RemoveBlock(t) \in Seq(Lines) /\ Unmarked(RemoveBlock(t))
<1>1. CASE At(t, BlockStart) = {}
  <2>1. At(t, BlockEnd) = {}
    BY <1>1 DEF WellFormed, At
  <2>2. QED BY <1>1, <2>1 DEF RemoveBlock, HasBlock, Unmarked, At
<1>2. CASE At(t, BlockStart) # {}
  <2>1. PICK i \in DOMAIN t, j \in DOMAIN t :
            i < j /\ At(t, BlockStart) = {i} /\ At(t, BlockEnd) = {j}
    BY <1>2 DEF WellFormed
  <2>2. (CHOOSE k \in DOMAIN t : t[k] = BlockStart) = i
    BY <2>1 DEF At
  <2>3. (CHOOSE k \in DOMAIN t : t[k] = BlockEnd) = j
    BY <2>1 DEF At
  <2> DEFINE before == SubSeq(t, 1, i - 1)
             after  == SubSeq(t, j + 1, Len(t))
  <2>4. RemoveBlock(t) = before \o after
    BY <1>2, <2>2, <2>3 DEF RemoveBlock, HasBlock
  <2>5. /\ before \in Seq(Lines) /\ Len(before) = i - 1
        /\ \A k \in 1..(i - 1) : before[k] = t[k]
    BY <2>1
  <2>6. /\ after \in Seq(Lines) /\ Len(after) = Len(t) - j
        /\ \A k \in 1..(Len(t) - j) : after[k] = t[k + j]
    BY <2>1
  <2> HIDE DEF before, after
  <2>7. Unmarked(before) /\ Unmarked(after)
    <3>1. \A k \in DOMAIN t : k # i /\ k # j => t[k] # BlockStart /\ t[k] # BlockEnd
      BY <2>1 DEF At
    <3>2. DOMAIN t = 1..Len(t) /\ i \in 1..Len(t) /\ j \in 1..Len(t) /\ i < j
      BY <2>1
    <3>3. ASSUME NEW k \in DOMAIN before PROVE before[k] # BlockStart /\ before[k] # BlockEnd
      <4>1. k \in 1..(i - 1)
        BY <2>5, <3>2
      <4>2. before[k] = t[k] /\ k \in DOMAIN t /\ k # i /\ k # j
        BY <2>5, <3>2, <4>1
      <4>3. QED BY <3>1, <4>2
    <3>4. ASSUME NEW k \in DOMAIN after PROVE after[k] # BlockStart /\ after[k] # BlockEnd
      <4>1. k \in 1..(Len(t) - j)
        BY <2>6, <3>2
      <4>2. after[k] = t[k + j] /\ k + j \in DOMAIN t /\ k + j # i /\ k + j # j
        BY <2>6, <3>2, <4>1
      <4>3. QED BY <3>1, <4>2
    <3>5. QED BY <3>3, <3>4 DEF Unmarked
  <2>8. before \o after \in Seq(Lines) /\ Unmarked(before \o after)
    BY <2>5, <2>6, <2>7, ConcatProperties DEF Unmarked
  <2>9. QED BY <2>4, <2>8
<1>3. QED BY <1>1, <1>2

\* The crontab that ends with a block.
LEMMA EndsWithBlock ==
    ASSUME NEW pre \in Seq(Lines), Unmarked(pre), NEW v \in Nat, v # NoBlock
    PROVE  LET t == pre \o Block(v) IN
           /\ t \in Seq(Lines) /\ WellFormed(t)
           /\ RemoveBlock(t) = pre /\ Version(t) = v
<1> DEFINE t == pre \o Block(v)
           n == Len(pre)
<1>1. /\ t \in Seq(Lines) /\ Len(t) = n + 3 /\ n \in Nat
      /\ \A i \in 1..n : t[i] = pre[i]
      /\ t[n + 1] = BlockStart /\ t[n + 2] = Line("entry", v) /\ t[n + 3] = BlockEnd
  <2>1. Block(v) = <<BlockStart, Line("entry", v), BlockEnd>>
    BY DEF Block
  <2> DEFINE b == <<BlockStart, Line("entry", v), BlockEnd>>
  <2>2. /\ b \in Seq(Lines) /\ Len(b) = 3
        /\ b[1] = BlockStart /\ b[2] = Line("entry", v) /\ b[3] = BlockEnd
    BY MarkerFacts
  <2> HIDE DEF b
  <2>3. t = pre \o b
    BY <2>1 DEF b
  <2>4. /\ pre \o b \in Seq(Lines) /\ Len(pre \o b) = Len(pre) + Len(b)
        /\ \A i \in 1..Len(pre) : (pre \o b)[i] = pre[i]
        /\ \A i \in 1..Len(b) : (pre \o b)[Len(pre) + i] = b[i]
    BY <2>2, ConcatAt
  <2>5. n \in Nat
    OBVIOUS
  <2>6. QED BY <2>2, <2>3, <2>4, <2>5
<1> HIDE DEF t
<1>2. DOMAIN t = 1..(n + 3)
  BY <1>1
<1>3. At(t, BlockStart) = {n + 1} /\ At(t, BlockEnd) = {n + 3}
  <2>1. \A i \in 1..n : t[i] # BlockStart /\ t[i] # BlockEnd
    BY <1>1 DEF Unmarked
  <2>2. \A i \in DOMAIN t : i \in 1..n \/ i = n + 1 \/ i = n + 2 \/ i = n + 3
    BY <1>1, <1>2
  <2>3. n + 1 \in DOMAIN t /\ n + 3 \in DOMAIN t
    BY <1>1, <1>2
  <2>4. QED BY <1>1, <2>1, <2>2, <2>3, MarkerFacts DEF At
<1>4. WellFormed(t)
  BY <1>1, <1>2, <1>3 DEF WellFormed
<1>5. RemoveBlock(t) = pre
  <2>1. (CHOOSE k \in DOMAIN t : t[k] = BlockStart) = n + 1
    BY <1>1, <1>2, <1>3 DEF At
  <2>2. (CHOOSE k \in DOMAIN t : t[k] = BlockEnd) = n + 3
    BY <1>1, <1>2, <1>3 DEF At
  <2>3. RemoveBlock(t) = SubSeq(t, 1, n) \o SubSeq(t, n + 4, Len(t))
    <3>1. HasBlock(t)
      BY <1>3 DEF HasBlock
    <3>2. RemoveBlock(t) = SubSeq(t, 1, (n + 1) - 1) \o SubSeq(t, (n + 3) + 1, Len(t))
      BY <2>1, <2>2, <3>1 DEF RemoveBlock
    <3>3. (n + 1) - 1 = n /\ (n + 3) + 1 = n + 4
      BY <1>1
    <3>4. QED BY <3>2, <3>3
  <2>4. SubSeq(t, 1, n) = pre
    BY <1>1
  <2>5. SubSeq(t, n + 4, Len(t)) = <<>>
    BY <1>1
  <2>6. QED BY <2>3, <2>4, <2>5, ConcatEmptySeq
<1>6. Version(t) = v
  <2>1. Generated(t) = {n + 2}
    <3>1. ASSUME NEW i \in Generated(t) PROVE i = n + 2
      BY <1>1, <1>2, <1>3, <3>1 DEF Generated
    <3>2. n + 2 \in Generated(t)
      BY <1>1, <1>2, <1>3, MarkerFacts DEF Generated
    <3>3. QED BY <3>1, <3>2
  <2>2. {t[i].n : i \in Generated(t)} = {v}
    BY <1>1, <2>1, MarkerFacts
  <2>3. QED BY <1>4, <2>2 DEF Version
<1>7. QED BY <1>1, <1>4, <1>5, <1>6 DEF t

-----------------------------------------------------------------------------
(* Trimmed *)

EndsText(t, n) ==
    /\ n \in 0..Len(t)
    /\ \A i \in (n + 1)..Len(t) : t[i] = Blank
    /\ n > 0 => t[n] # Blank

\* Every text ends somewhere ...
LEMMA TextEnds ==
    ASSUME NEW t \in Seq(Lines)
    PROVE  \E n \in 0..Len(t) : EndsText(t, n)
<1> DEFINE T == {n \in 0..Len(t) : \A i \in (n + 1)..Len(t) : t[i] = Blank}
<1>1. Len(t) \in T
  OBVIOUS
<1> HIDE DEF T
<1>2. PICK n \in T : \A m \in T : n <= m
  <2>1. T \subseteq Nat
    BY DEF T
  <2>2. QED BY <1>1, <2>1, LeastElement
<1> USE DEF T
<1>3. n > 0 => t[n] # Blank
  <2> SUFFICES ASSUME n > 0, t[n] = Blank PROVE FALSE
    OBVIOUS
  <2>1. n - 1 \in T
    BY <1>2
  <2>2. QED BY <1>2, <2>1
<1>4. QED BY <1>2, <1>3 DEF EndsText

\* Trimmed is known by where it ends.
LEMMA TrimmedIs ==
    ASSUME NEW t \in Seq(Lines), NEW n, EndsText(t, n)
    PROVE  Trimmed(t) = SubSeq(t, 1, n)
<1> DEFINE P(k) == /\ \A i \in (k + 1)..Len(t) : t[i] = Blank
                   /\ k > 0 => t[k] # Blank
<1>1. n \in 0..Len(t) /\ P(n)
  BY DEF EndsText
<1>2. \A k \in 0..Len(t) : P(k) => k = n
  BY <1>1
<1>3. (CHOOSE k \in 0..Len(t) : P(k)) = n
  BY <1>1, <1>2
<1>4. QED BY <1>3 DEF Trimmed

\* ... and Trimmed cuts it there.
LEMMA TrimmedFacts ==
    ASSUME NEW t \in Seq(Lines)
    PROVE  /\ Trimmed(t) \in Seq(Lines) /\ EndsText(t, Len(Trimmed(t)))
           /\ \A i \in 1..Len(Trimmed(t)) : Trimmed(t)[i] = t[i]
           /\ Unmarked(t) => Unmarked(Trimmed(t))
<1>1. PICK n \in 0..Len(t) : EndsText(t, n)
  BY TextEnds
<1>2. Trimmed(t) = SubSeq(t, 1, n)
  BY <1>1, TrimmedIs
<1>3. /\ Trimmed(t) \in Seq(Lines) /\ Len(Trimmed(t)) = n
      /\ \A i \in 1..n : Trimmed(t)[i] = t[i]
  BY <1>2
<1>4. QED BY <1>1, <1>3 DEF Unmarked

\* Line ends behind a text that was trimmed come off again.
LEMMA TrimmedAgain ==
    ASSUME NEW t \in Seq(Lines)
    PROVE  /\ Trimmed(Trimmed(t)) = Trimmed(t)
           /\ Trimmed(Trimmed(t) \o <<Blank>>) = Trimmed(t)
<1> DEFINE c == Trimmed(t)
           b == <<Blank>>
<1>1. c \in Seq(Lines) /\ (c # <<>> => c[Len(c)] # Blank)
  BY TrimmedFacts DEF EndsText
<1>2. b \in Seq(Lines) /\ Len(b) = 1 /\ b[1] = Blank
  BY MarkerFacts
<1> HIDE DEF c, b
<1>3. /\ c \o b \in Seq(Lines) /\ Len(c \o b) = Len(c) + 1 /\ (c \o b)[Len(c) + 1] = Blank
      /\ \A i \in 1..Len(c) : (c \o b)[i] = c[i]
  <2>1. c \in Seq(Lines) /\ b \in Seq(Lines) /\ Len(b) = 1
    BY <1>1, <1>2
  <2>2. /\ c \o b \in Seq(Lines) /\ Len(c \o b) = Len(c) + Len(b)
        /\ \A i \in 1..Len(c) : (c \o b)[i] = c[i]
        /\ \A i \in 1..Len(b) : (c \o b)[Len(c) + i] = b[i]
    BY <2>1, ConcatAt
  <2>3. QED BY <1>2, <2>1, <2>2
<1>4. EndsText(c, Len(c)) /\ EndsText(c \o b, Len(c))
  BY <1>1, <1>3 DEF EndsText
<1>5. Trimmed(c) = SubSeq(c, 1, Len(c)) /\ Trimmed(c \o b) = SubSeq(c \o b, 1, Len(c))
  BY <1>1, <1>3, <1>4, TrimmedIs
<1>6. SubSeq(c, 1, Len(c)) = c /\ SubSeq(c \o b, 1, Len(c)) = c
  BY <1>1, <1>3
<1>7. QED BY <1>5, <1>6 DEF c, b

-----------------------------------------------------------------------------
(* MergeCrontab *)

\* A synced crontab is well formed; its block is the new one and everything
\* else the user's, so that syncing it again changes the block at most.
LEMMA MergeFacts ==
    ASSUME NEW t \in Seq(Lines), WellFormed(t), NEW v \in Nat, v # NoBlock
    PROVE  LET once == MergeCrontab(t, Block(v)) IN
           /\ once \in Seq(Lines) /\ WellFormed(once) /\ Version(once) = v
           /\ Personal(once) = Personal(t)
           /\ MergeCrontab(once, Block(v)) = once
<1> DEFINE r == RemoveBlock(t)
           c == Trimmed(r)
           pre == IF c = <<>> THEN <<>> ELSE c \o <<Blank>>
           once == MergeCrontab(t, Block(v))
<1>1. r \in Seq(Lines) /\ Unmarked(r)
  BY RemoveBlockFacts
<1>2. c \in Seq(Lines) /\ Unmarked(c) /\ Personal(t) = c
  BY <1>1, TrimmedFacts DEF Personal
<1>3. pre \in Seq(Lines) /\ Unmarked(pre)
  <2>1. CASE c = <<>>
    <3>1. pre = <<>>
      BY <2>1
    <3>2. <<>> \in Seq(Lines) /\ Unmarked(<<>>)
      BY DEF Unmarked
    <3>3. QED BY <3>1, <3>2
  <2>2. CASE c # <<>>
    <3> DEFINE b == <<Blank>>
    <3>1. b \in Seq(Lines) /\ Len(b) = 1 /\ b[1] = Blank
      BY MarkerFacts
    <3> HIDE DEF c, b
    <3>2. /\ c \o b \in Seq(Lines) /\ Len(c \o b) = Len(c) + Len(b)
          /\ \A i \in 1..Len(c) : (c \o b)[i] = c[i]
          /\ \A i \in 1..Len(b) : (c \o b)[Len(c) + i] = b[i]
      BY <1>2, <3>1, ConcatAt
    <3>3. ASSUME NEW i \in DOMAIN (c \o b)
          PROVE  (c \o b)[i] # BlockStart /\ (c \o b)[i] # BlockEnd
      <4>1. i \in 1..Len(c) \/ i = Len(c) + 1
        BY <1>2, <3>1, <3>2
      <4>2. CASE i \in 1..Len(c)
        <5>1. (c \o b)[i] = c[i] /\ i \in DOMAIN c
          BY <1>2, <3>2, <4>2
        <5>2. QED BY <1>2, <5>1 DEF Unmarked
      <4>3. CASE i = Len(c) + 1
        <5>1. (c \o b)[i] = b[1]
          BY <3>1, <3>2, <4>3
        <5>2. QED BY <3>1, <5>1, MarkerFacts
      <4>4. QED BY <4>1, <4>2, <4>3
    <3>4. pre = c \o b
      BY <2>2 DEF b
    <3>5. QED BY <3>2, <3>3, <3>4 DEF Unmarked
  <2>3. QED BY <2>1, <2>2
<1>4. Trimmed(pre) = c
  <2>1. CASE c = <<>>
    <3>1. Trimmed(c) = c
      BY <1>1, TrimmedAgain
    <3>2. QED BY <2>1, <3>1
  <2>2. CASE c # <<>>
    BY <1>1, <2>2, TrimmedAgain
  <2>3. QED BY <2>1, <2>2
<1>5. \A s \in Seq(Lines) : Trimmed(RemoveBlock(s)) = c => MergeCrontab(s, Block(v)) = pre \o Block(v)
  <2>1. CASE c = <<>>
    <3>1. pre \o Block(v) = Block(v)
      BY <2>1, BlockType, ConcatEmptySeq
    <3>2. QED BY <2>1, <3>1 DEF MergeCrontab
  <2>2. CASE c # <<>>
    BY <2>2 DEF MergeCrontab
  <2>3. QED BY <2>1, <2>2
<1> HIDE DEF r, c, pre, once
<1>6. once = pre \o Block(v)
  BY <1>5 DEF once, c, r
<1>7. /\ once \in Seq(Lines) /\ WellFormed(once)
      /\ RemoveBlock(once) = pre /\ Version(once) = v
  BY <1>3, <1>6, EndsWithBlock
<1>8. Personal(once) = c
  BY <1>4, <1>7 DEF Personal
<1>9. MergeCrontab(once, Block(v)) = once
  BY <1>4, <1>5, <1>6, <1>7
<1>10. QED BY <1>2, <1>7, <1>8, <1>9 DEF once

\* What is left after an uninstall has the same personal lines and no block.
LEMMA UninstallFacts ==
    ASSUME NEW t \in Seq(Lines), WellFormed(t)
    PROVE  /\ RemoveBlock(t) \in Seq(Lines) /\ WellFormed(RemoveBlock(t))
           /\ Version(RemoveBlock(t)) = NoBlock /\ Personal(RemoveBlock(t)) = Personal(t)
<1>1. RemoveBlock(t) \in Seq(Lines) /\ Unmarked(RemoveBlock(t))
  BY RemoveBlockFacts
<1>2. /\ WellFormed(RemoveBlock(t)) /\ RemoveBlock(RemoveBlock(t)) = RemoveBlock(t)
      /\ Version(RemoveBlock(t)) = NoBlock
  BY <1>1, UnmarkedWellFormed
<1>3. QED BY <1>1, <1>2 DEF Personal

\* What Merge makes of the crontab a process has read.
LEMMA UpdatedFacts ==
    ASSUME TypeOK, NEW p \in Procs, WellFormed(text[p]), op[p] = "sync" => block[p] >= 1
    PROVE  /\ Updated(p) \in Seq(Lines) /\ WellFormed(Updated(p))
           /\ Version(Updated(p)) = IF op[p] = "sync" THEN block[p] ELSE NoBlock
           /\ Personal(Updated(p)) = Personal(text[p])
<1>1. text[p] \in Seq(Lines) /\ block[p] \in Nat /\ op[p] \in {"sync", "uninstall"}
  BY BoundAssumption DEF TypeOK
<1>2. CASE op[p] = "sync"
  BY <1>1, <1>2, MergeFacts DEF Updated, NoBlock
<1>3. CASE op[p] = "uninstall"
  BY <1>1, <1>3, UninstallFacts DEF Updated
<1>4. QED BY <1>1, <1>2, <1>3

\* An edit leaves a sequence of lines.
LEMMA EditsType ==
    ASSUME NEW t \in Seq(Lines), NEW n \in Nat
    PROVE  Edits(t, n) \subseteq Seq(Lines)
<1> DEFINE l == <<Line("user", n)>>
<1>1. l \in Seq(Lines) /\ Block(1) \in Seq(Lines)
  BY MarkerFacts, BlockType
<1> HIDE DEF l
<1>2. l \o t \in Seq(Lines) /\ t \o l \in Seq(Lines) /\ t \o Block(1) \in Seq(Lines)
  BY <1>1, ConcatAt
<1>3. ASSUME NEW i \in At(t, BlockStart) \union At(t, BlockEnd)
      PROVE  RemoveAt(t, i) \in Seq(Lines)
  <2>1. i \in 1..Len(t)
    BY DEF At
  <2>2. SubSeq(t, 1, i - 1) \in Seq(Lines) /\ SubSeq(t, i + 1, Len(t)) \in Seq(Lines)
    BY <2>1
  <2>3. QED BY <2>2, ConcatAt DEF RemoveAt
<1>4. WellFormed(t) => RemoveBlock(t) \in Seq(Lines)
  BY RemoveBlockFacts
<1>5. QED BY <1>2, <1>3, <1>4 DEF Edits, l

\* So are the personal lines one.
LEMMA PersonalType ==
    ASSUME NEW t \in Seq(Lines) PROVE Personal(t) \in Seq(Lines)
BY RemoveBlockFacts, TrimmedFacts DEF Personal

-----------------------------------------------------------------------------
(* Types *)

\* A process that ends, well or not, leaves values of the right kind.
LEMMA ExitType ==
    ASSUME TypeOK, NEW p \in Procs, Exit(p)
    PROVE  /\ lock' \in Procs \union {NoProc} /\ pc' \in [Procs -> PCs]
           /\ op' \in [Procs -> {"sync", "uninstall"}] /\ block' \in [Procs -> 0..MaxVersion]
           /\ text' \in [Procs -> Seq(Lines)] /\ need' \in [Procs -> 0..MaxVersion]
           /\ \A q \in Procs : pc'[q] \in Update <=> lock' = q
<1> USE BoundAssumption, NoProcAssumption DEF Exit, Goto, Released
<1>1. <<>> \in Seq(Lines)
  OBVIOUS
<1>2. pc' \in [Procs -> PCs]
  BY DEF TypeOK, PCs
<1>3. \A q \in Procs : pc'[q] \in Update <=> lock' = q
  BY DEF TypeOK, PCs, Update
<1>4. lock' \in Procs \union {NoProc} /\ op' \in [Procs -> {"sync", "uninstall"}]
  BY DEF TypeOK
<1>5. text' \in [Procs -> Seq(Lines)]
  BY <1>1 DEF TypeOK
<1>6. block' \in [Procs -> 0..MaxVersion] /\ need' \in [Procs -> 0..MaxVersion]
  BY DEF TypeOK, NoBlock
<1>7. QED BY <1>2, <1>3, <1>4, <1>5, <1>6

\* Begin to Unlock, and a failure or a kill on the way.
LEMMA UpdateType ==
    ASSUME TypeOK, Newest, NEW p \in Procs,
           Begin(p) \/ Lock(p) \/ UpdateStep(p) \/ Fail(p) \/ Kill(p)
    PROVE  TypeOK'
<1> USE BoundAssumption, NoProcAssumption DEF Goto, ghost
<1>1. CASE Begin(p)
  <2>1. op' \in [Procs -> {"sync", "uninstall"}]
    BY <1>1 DEF Begin, TypeOK
  <2>2. need' \in [Procs -> 0..MaxVersion] /\ pc' \in [Procs -> PCs]
    BY <1>1 DEF Begin, TypeOK, PCs
  <2>3. \A q \in Procs : pc'[q] \in Update <=> lock' = q
    BY <1>1 DEF Begin, TypeOK, Update
  <2>4. QED BY <1>1, <2>1, <2>2, <2>3 DEF Begin, TypeOK
<1>2. CASE Lock(p)
  <2>1. pc' = [pc EXCEPT ![p] = "preview"] \/ pc' = [pc EXCEPT ![p] = "read"]
    BY <1>2 DEF Lock
  <2>2. QED BY <1>2, <2>1 DEF Lock, MayLock, TypeOK, PCs, Update
<1>3. CASE Preview(p)
  BY <1>3 DEF Preview, TypeOK, PCs, Update
<1>4. CASE ReadSystemCrontab(p)
  BY <1>4 DEF ReadSystemCrontab, TypeOK, PCs, Update
<1>5. CASE Merge(p)
  <2>1. Updated(p) \in Seq(Lines)
    BY <1>5, UpdatedFacts DEF Merge, Newest
  <2>2. text' \in [Procs -> Seq(Lines)]
    BY <1>5, <2>1 DEF Merge, TypeOK
  <2>3. QED BY <1>5, <2>2 DEF Merge, TypeOK, PCs, Update
<1>6. CASE Spawn(p) \/ Feed(p)
  <2>1. child' \in [Procs -> [state : {"none", "reading", "closed"}, input : Seq(Lines)]]
    <3>1. <<>> \in Seq(Lines) /\ text[p] \in Seq(Lines)
      BY DEF TypeOK
    <3>2. CASE Spawn(p)
      BY <3>1, <3>2 DEF Spawn, TypeOK
    <3>3. CASE Feed(p)
      BY <3>1, <3>3 DEF Feed, TypeOK
    <3>4. QED BY <1>6, <3>2, <3>3
  <2>2. QED BY <1>6, <2>1 DEF Spawn, Feed, TypeOK, PCs, Update
<1>7. CASE Wait(p)
  BY <1>7 DEF Wait, TypeOK, PCs, Update
<1>8. CASE Unlock(p) \/ Fail(p)
  BY <1>8, ExitType DEF Unlock, Fail, TypeOK
<1>9. CASE Kill(p)
  <2>1. child' \in [Procs -> [state : {"none", "reading", "closed"}, input : Seq(Lines)]]
    <3>1. CASE child[p].state = "reading"
      <4>1. PICK n \in 0..Len(text[p]) :
                child' = [child EXCEPT ![p] = [state |-> "closed", input |-> SubSeq(text[p], 1, n)]]
        BY <1>9, <3>1 DEF Kill
      <4>2. text[p] \in Seq(Lines)
        BY DEF TypeOK
      <4>3. SubSeq(text[p], 1, n) \in Seq(Lines)
        BY <4>2
      <4>4. QED BY <4>1, <4>3 DEF TypeOK
    <3>2. CASE child[p].state # "reading"
      BY <1>9, <3>2 DEF Kill, TypeOK
    <3>3. QED BY <3>1, <3>2
  <2>2. killed' \in SUBSET Installing
    BY <1>9 DEF Kill, TypeOK
  <2>3. QED BY <1>9, <2>1, <2>2, ExitType DEF Kill, TypeOK
<1>10. QED BY <1>1, <1>2, <1>3, <1>4, <1>5, <1>6, <1>7, <1>8, <1>9 DEF UpdateStep

\* crontab(1), the store and the user.
LEMMA OutsideType ==
    ASSUME TypeOK, (\E p \in Procs : External(p)) \/ Authorize \/ EditCrontab
    PROVE  TypeOK'
<1> USE BoundAssumption, NoProcAssumption DEF own, ghost
<1>1. \A p \in Procs : child[p].input \in Seq(Lines)
  BY DEF TypeOK
<1>2. ASSUME NEW p \in Procs, child' = [child EXCEPT ![p] = Idle]
      PROVE  child' \in [Procs -> [state : {"none", "reading", "closed"}, input : Seq(Lines)]]
  <2>1. <<>> \in Seq(Lines)
    OBVIOUS
  <2>2. QED BY <1>2, <2>1 DEF TypeOK, Idle
<1>3. ASSUME NEW p \in Procs, ChildInstalls(p) PROVE TypeOK'
  <2>1. table' \in Seq(Lines)
    BY <1>1, <1>3 DEF ChildInstalls
  <2>2. due' \in 0..MaxVersion
    BY <1>3 DEF ChildInstalls, TypeOK
  <2>3. QED BY <1>2, <1>3, <2>1, <2>2 DEF ChildInstalls, TypeOK
<1>4. ASSUME NEW p \in Procs, ChildFails(p) PROVE TypeOK'
  BY <1>2, <1>4, ExitType DEF ChildFails, TypeOK
<1>5. CASE Authorize
  BY <1>5 DEF Authorize, TypeOK
<1>6. CASE EditCrontab
  <2>1. table' \in Seq(Lines)
    BY <1>6, EditsType DEF EditCrontab, TypeOK
  <2>2. personal' \in Seq(Lines)
    BY <1>6, <2>1, PersonalType DEF EditCrontab
  <2>3. raced' \in BOOLEAN /\ due' \in 0..MaxVersion /\ edits' \in 1..(MaxEdits + 1)
    BY <1>6 DEF EditCrontab, TypeOK
  <2>4. QED BY <1>6, <2>1, <2>2, <2>3 DEF EditCrontab, TypeOK
<1>7. QED BY <1>3, <1>4, <1>5, <1>6 DEF External

-----------------------------------------------------------------------------
(* The inductive invariant *)

\* The invariant holds at the start ...
LEMMA InitInvariant == Init => IInv
<1> SUFFICES ASSUME Init PROVE IInv
  OBVIOUS
<1> USE BoundAssumption, NoProcAssumption DEF Init
<1> DEFINE l == <<Line("user", 1)>>
<1>1. l \in Seq(Lines) /\ <<>> \in Seq(Lines) /\ Len(l) = 1 /\ l[1] # Blank
      /\ Unmarked(l)
  <2>1. l \in Seq(Lines) /\ <<>> \in Seq(Lines) /\ Len(l) = 1 /\ l[1] = Line("user", 1)
    BY MarkerFacts
  <2>2. Line("user", 1) # Blank /\ Line("user", 1) # BlockStart /\ Line("user", 1) # BlockEnd
    BY DEF Line, Blank, BlockStart, BlockEnd
  <2> HIDE DEF l
  <2>3. DOMAIN l = {1}
    BY <2>1
  <2>4. QED BY <2>1, <2>2, <2>3 DEF Unmarked
<1> HIDE DEF l
<1>2. table = l /\ personal = l
  BY DEF l
<1>3. TypeOK
  <2>1. child \in [Procs -> [state : {"none", "reading", "closed"}, input : Seq(Lines)]]
    BY <1>1 DEF Idle
  <2>2. text \in [Procs -> Seq(Lines)]
    BY <1>1
  <2>3. \A p \in Procs : pc[p] \in Update <=> lock = p
    BY DEF Update
  <2>4. store \in 1..MaxVersion /\ due \in 0..MaxVersion /\ edits \in 1..(MaxEdits + 1)
    OBVIOUS
  <2>5. need \in [Procs -> 0..MaxVersion] /\ block \in [Procs -> 0..MaxVersion]
    BY DEF NoBlock
  <2>6. pc \in [Procs -> PCs] /\ lock \in Procs \union {NoProc} /\ op \in [Procs -> {"sync", "uninstall"}]
    BY DEF PCs
  <2>7. QED BY <1>1, <1>2, <2>1, <2>2, <2>3, <2>4, <2>5, <2>6 DEF TypeOK
<1>4. Children
  BY DEF Children, Idle
<1>5. Newest
  BY DEF Newest, NewestStaysInstalled, Writing, Idle
<1>6. Personal(l) = l
  <2>1. WellFormed(l) /\ RemoveBlock(l) = l
    BY <1>1, UnmarkedWellFormed
  <2>2. EndsText(l, 1)
    BY <1>1 DEF EndsText
  <2>3. Trimmed(l) = SubSeq(l, 1, 1)
    BY <1>1, <2>2, TrimmedIs
  <2>4. SubSeq(l, 1, 1) = l
    BY <1>1
  <2>5. QED BY <2>1, <2>3, <2>4 DEF Personal
<1>7. Kept
  BY <1>2, <1>6 DEF Kept, Writing, Idle
<1>8. QED BY <1>3, <1>4, <1>5, <1>7 DEF IInv

\* A `crontab -` lives and ends as its process says.
LEMMA ChildrenStep ==
    ASSUME IInv, Next
    PROVE  Children'
<1> USE DEF IInv, Goto, Exit, ghost, own
<1>1. ASSUME NEW p \in Procs, Begin(p) \/ Lock(p) \/ Preview(p) \/ ReadSystemCrontab(p) \/ Merge(p)
      PROVE  Children'
  <2>1. pc'[p] \in {"lock", "preview", "read", "merge", "spawn"} /\ child' = child /\ killed' = killed
        /\ child[p].state \notin {"reading", "closed"}
        /\ \A q \in Procs \ {p} : pc'[q] = pc[q]
    BY <1>1 DEF Begin, Lock, Preview, ReadSystemCrontab, Merge, Children, TypeOK, Idle
  <2>2. QED BY <2>1 DEF Children
<1>2. ASSUME NEW p \in Procs, Spawn(p) \/ Feed(p) \/ Wait(p) PROVE Children'
  <2>1. CASE Spawn(p)
    BY <2>1 DEF Spawn, Children, TypeOK
  <2>2. CASE Feed(p)
    BY <2>2 DEF Feed, Children, TypeOK
  <2>3. CASE Wait(p)
    BY <2>3 DEF Wait, Children, TypeOK, Idle
  <2>4. QED BY <1>2, <2>1, <2>2, <2>3
<1>3. ASSUME NEW p \in Procs, Unlock(p) \/ Fail(p) PROVE Children'
  BY <1>3 DEF Unlock, Fail, Children, TypeOK
<1>4. ASSUME NEW p \in Procs, Kill(p) PROVE Children'
  <2>1. CASE child[p].state = "reading"
    <3>1. PICK n \in 0..Len(text[p]) :
              child' = [child EXCEPT ![p] = [state |-> "closed", input |-> SubSeq(text[p], 1, n)]]
      BY <1>4, <2>1 DEF Kill
    <3>2. killed' # {} /\ pc' = [pc EXCEPT ![p] = "off"]
      BY <1>4, <2>1 DEF Kill, Children, Installing
    <3>3. QED BY <3>1, <3>2 DEF Children, TypeOK
  <2>2. CASE child[p].state # "reading"
    <3>1. child' = child /\ pc' = [pc EXCEPT ![p] = "off"] /\ killed \subseteq killed'
          /\ (pc[p] = "wait" => killed' # {})
      BY <1>4, <2>2 DEF Kill, Installing
    <3>2. QED BY <2>2, <3>1 DEF Children, TypeOK
  <2>3. QED BY <2>1, <2>2
<1>5. ASSUME NEW p \in Procs, External(p) PROVE Children'
  <2>1. CASE ChildInstalls(p)
    BY <2>1 DEF ChildInstalls, Children, TypeOK, Idle
  <2>2. CASE ChildFails(p)
    BY <2>2 DEF ChildFails, Children, TypeOK, Idle
  <2>3. QED BY <1>5, <2>1, <2>2 DEF External
<1>6. CASE Authorize \/ EditCrontab
  BY <1>6 DEF Authorize, EditCrontab, Children
<1>7. QED BY <1>1, <1>2, <1>3, <1>4, <1>5, <1>6 DEF Next, UpdateStep

\* What the last conjunct of Newest says of a step that leaves the table alone.
LEMMA NewestSame ==
    ASSUME IInv, table' = table, due' = due, killed \subseteq killed'
    PROVE  NewestStaysInstalled'
<1>1. Version(table') = Version(table)
  BY DEF Version, Generated, WellFormed, At
<1>2. QED BY <1>1 DEF IInv, Newest, NewestStaysInstalled

\* A command that ends leaves nothing that Newest speaks of.
LEMMA NewestExit ==
    ASSUME IInv, NEW p \in Procs, Exit(p), UNCHANGED <<store, table, due>>,
           killed \subseteq killed',
           \A q \in Procs \ {p} : child'[q] = child[q]
    PROVE  Newest'
<1>1. NewestStaysInstalled'
  BY NewestSame
<1>2. \A q \in Procs \ {p} : /\ pc'[q] = pc[q] /\ op'[q] = op[q] /\ block'[q] = block[q]
                             /\ text'[q] = text[q] /\ need'[q] = need[q]
  BY DEF Exit, Goto, IInv, TypeOK
<1>3. pc'[p] = "off" /\ need'[p] = 0
  BY DEF Exit, Goto, IInv, TypeOK
<1>4. due' <= store' /\ \A q \in Procs : need'[q] <= store'
  <2>1. due' <= store' /\ store' \in Nat
    BY BoundAssumption DEF IInv, TypeOK, Newest
  <2>2. ASSUME NEW q \in Procs \ {p} PROVE need'[q] <= store'
    BY <1>2 DEF IInv, Newest
  <2>3. QED BY <1>3, <2>1, <2>2
<1>5. QED BY <1>1, <1>2, <1>3, <1>4 DEF IInv, Newest, Writing

\* No step installs, or prepares to install, a block older than the last success.
LEMMA NewestStep ==
    ASSUME IInv, Next
    PROVE  Newest'
<1> USE BoundAssumption DEF Goto, ghost, own
<1>1. ASSUME NEW p \in Procs, Begin(p) \/ Lock(p) PROVE Newest'
  <2>1. NewestStaysInstalled'
    BY <1>1, NewestSame DEF Begin, Lock
  <2>2. /\ pc'[p] \in {"lock", "preview", "read"} /\ UNCHANGED <<store, due, block, text, child>>
        /\ \A q \in Procs \ {p} : pc'[q] = pc[q] /\ op'[q] = op[q]
    BY <1>1 DEF Begin, Lock, IInv, TypeOK
  <2>3. op'[p] = "sync" => pc'[p] # "read"
    BY <1>1 DEF Begin, Lock, IInv, TypeOK
  <2>4. \A q \in Procs : need'[q] = need[q] \/ (q = p /\ need'[q] = store)
    BY <1>1 DEF Begin, Lock, IInv, TypeOK
  <2>5. \A q \in Procs : need'[q] <= store'
    <3>1. store \in Nat /\ store' = store /\ \A q \in Procs : need[q] <= store
      BY <2>2 DEF IInv, TypeOK, Newest
    <3>2. QED BY <2>4, <3>1
  <2>6. QED BY <2>1, <2>2, <2>3, <2>4, <2>5 DEF IInv, Newest, Writing
<1>2. ASSUME NEW p \in Procs, Preview(p) PROVE Newest'
  <2>1. NewestStaysInstalled'
    BY <1>2, NewestSame DEF Preview
  <2>2. QED BY <1>2, <2>1 DEF Preview, IInv, TypeOK, Newest, Writing
<1>3. ASSUME NEW p \in Procs, ReadSystemCrontab(p) PROVE Newest'
  <2>1. NewestStaysInstalled'
    BY <1>3, NewestSame DEF ReadSystemCrontab
  <2>2. QED BY <1>3, <2>1 DEF ReadSystemCrontab, IInv, TypeOK, Newest, Writing
<1>4. ASSUME NEW p \in Procs, Merge(p) PROVE Newest'
  <2>1. NewestStaysInstalled'
    BY <1>4, NewestSame DEF Merge
  <2>2. Version(Updated(p)) = IF op[p] = "sync" THEN block[p] ELSE NoBlock
    BY <1>4, UpdatedFacts DEF Merge, IInv, Newest
  <2>3. QED BY <1>4, <2>1, <2>2 DEF Merge, IInv, TypeOK, Newest, Writing
<1>5. ASSUME NEW p \in Procs, Spawn(p) \/ Feed(p) \/ Wait(p) PROVE Newest'
  <2>1. NewestStaysInstalled'
    BY <1>5, NewestSame DEF Spawn, Feed, Wait
  <2>2. CASE Spawn(p)
    BY <2>1, <2>2 DEF Spawn, IInv, TypeOK, Newest, Writing
  <2>3. CASE Feed(p)
    BY <2>1, <2>3 DEF Feed, IInv, TypeOK, Newest, Writing
  <2>4. CASE Wait(p)
    BY <2>1, <2>4 DEF Wait, IInv, TypeOK, Newest, Writing
  <2>5. QED BY <1>5, <2>2, <2>3, <2>4
<1>6. ASSUME NEW p \in Procs, Unlock(p) \/ Fail(p) PROVE Newest'
  BY <1>6, NewestExit DEF Unlock, Fail
<1>7. ASSUME NEW p \in Procs, Kill(p) PROVE Newest'
  <2>1. \A q \in Procs \ {p} : child'[q] = child[q]
    BY <1>7 DEF Kill, IInv, TypeOK
  <2>2. QED BY <1>7, <2>1, NewestExit DEF Kill
<1>8. ASSUME NEW p \in Procs, ChildInstalls(p) PROVE Newest'
  <2>1. due' <= store' /\ due' <= (IF due >= need[p] THEN due ELSE need[p])
    BY <1>8 DEF ChildInstalls, IInv, TypeOK, Newest
  <2>2. pc[p] # "wait" => due' <= due
    BY <1>8 DEF ChildInstalls, IInv, TypeOK
  <2>3. \A q \in Procs : q # p /\ pc[p] = "wait" => pc[q] \notin {"read", "merge"} \union Writing
    BY DEF IInv, TypeOK, Update, Writing
  <2>4. pc[p] = "wait" /\ op[p] = "sync" => block[p] >= due'
    BY <2>1, <1>8 DEF ChildInstalls, IInv, TypeOK, Newest, Writing
  <2>5. ASSUME NEW q \in Procs, op[q] = "sync", pc[q] \in {"read", "merge"} \union Writing
        PROVE  block[q] >= 1 /\ block[q] >= need[q] /\ block[q] >= due'
    <3>1. block[q] >= 1 /\ block[q] >= need[q] /\ block[q] >= due /\ block[q] \in Nat /\ due \in Nat /\ due' \in Nat
      BY <1>8, <2>5 DEF ChildInstalls, IInv, TypeOK, Newest
    <3>2. QED BY <2>2, <2>3, <2>4, <2>5, <3>1
  <2>6. killed = {} /\ due' > 0 => Version(table') >= due'
    <3> SUFFICES ASSUME killed = {}, due' > 0 PROVE Version(table') >= due'
      OBVIOUS
    <3>1. pc[p] = "wait" /\ table' = text[p]
      BY <1>8 DEF ChildInstalls, IInv, Children, Newest
    <3>2. Version(table') = IF op[p] = "sync" THEN block[p] ELSE NoBlock
      BY <3>1 DEF IInv, Newest, Writing
    <3>3. Version(table') # NoBlock
      BY <1>8 DEF ChildInstalls
    <3>4. QED BY <2>4, <3>1, <3>2, <3>3
  <2>7. UNCHANGED <<store, pc, op, block, text, need, killed>>
    BY <1>8 DEF ChildInstalls
  <2>8. \A q \in Procs : child'[q].state = "closed" => child'[q] = child[q]
    BY <1>8 DEF ChildInstalls, IInv, TypeOK, Idle
  <2>9. QED BY <2>1, <2>5, <2>6, <2>7, <2>8 DEF IInv, Newest, NewestStaysInstalled
<1>9. ASSUME NEW p \in Procs, ChildFails(p) PROVE Newest'
  <2>1. \A q \in Procs \ {p} : child'[q] = child[q]
    BY <1>9 DEF ChildFails, IInv, TypeOK
  <2>2. QED BY <1>9, <2>1, NewestExit DEF ChildFails
<1>10. CASE Authorize
  <2>1. NewestStaysInstalled'
    BY <1>10, NewestSame DEF Authorize
  <2>2. QED BY <1>10, <2>1 DEF Authorize, IInv, TypeOK, Newest
<1>11. CASE EditCrontab
  <2>1. due' <= due /\ due' \in Nat /\ due \in Nat
    BY <1>11 DEF EditCrontab, IInv, TypeOK
  <2>2. due' > 0 => due' = due /\ Version(table') = Version(table)
    BY <1>11 DEF EditCrontab
  <2>3. NewestStaysInstalled'
    BY <1>11, <2>2 DEF EditCrontab, IInv, Newest, NewestStaysInstalled
  <2>4. QED BY <1>11, <2>1, <2>3 DEF EditCrontab, IInv, TypeOK, Newest
<1>12. QED BY <1>1, <1>2, <1>3, <1>4, <1>5, <1>6, <1>7, <1>8, <1>9, <1>10, <1>11
         DEF Next, UpdateStep, External

\* A command that ends leaves nothing of its own that Kept speaks of.
LEMMA KeptExit ==
    ASSUME IInv, NEW p \in Procs, Exit(p), UNCHANGED <<table, personal, raced>>,
           "feed" \notin killed' => "feed" \notin killed,
           \A q \in Procs : child'[q] = child[q] \/ child'[q] = Idle
    PROVE  Kept'
<1>1. \A q \in Procs \ {p} : pc'[q] = pc[q] /\ text'[q] = text[q]
  BY DEF Exit, Goto, IInv, TypeOK
<1>2. pc'[p] = "off"
  BY DEF Exit, Goto, IInv, TypeOK
<1>3. \A q \in Procs : child'[q].state = "closed" => child'[q] = child[q]
  BY DEF Idle
<1>4. QED BY <1>1, <1>2, <1>3 DEF IInv, Kept, Writing, Intact

\* No step installs, or prepares to install, a crontab without the user's lines.
LEMMA KeptStep ==
    ASSUME IInv, Next
    PROVE  Kept'
<1> USE DEF Goto, ghost, own
<1>1. ASSUME NEW p \in Procs, Begin(p) \/ Lock(p) \/ Preview(p) PROVE Kept'
  <2>1. /\ pc'[p] \in {"lock", "preview", "read"}
        /\ UNCHANGED <<table, personal, raced, killed, text, child>>
        /\ \A q \in Procs \ {p} : pc'[q] = pc[q]
    BY <1>1 DEF Begin, Lock, Preview, IInv, TypeOK
  <2>2. QED BY <2>1 DEF IInv, Kept, Writing, Intact
<1>2. ASSUME NEW p \in Procs, ReadSystemCrontab(p) PROVE Kept'
  <2>1. /\ pc'[p] = "merge" /\ text'[p] = table
        /\ UNCHANGED <<table, personal, raced, killed, child>>
        /\ \A q \in Procs \ {p} : pc'[q] = pc[q] /\ text'[q] = text[q]
    BY <1>2 DEF ReadSystemCrontab, IInv, TypeOK
  <2>2. QED BY <2>1 DEF IInv, Kept, Writing, Intact
<1>3. ASSUME NEW p \in Procs, Merge(p) PROVE Kept'
  <2>1. /\ pc[p] = "merge" /\ WellFormed(text[p])
        /\ pc'[p] = "spawn" /\ text'[p] = Updated(p)
        /\ UNCHANGED <<table, personal, raced, killed, child>>
        /\ \A q \in Procs \ {p} : pc'[q] = pc[q] /\ text'[q] = text[q]
    BY <1>3 DEF Merge, IInv, TypeOK
  <2>2. WellFormed(Updated(p)) /\ Personal(Updated(p)) = Personal(text[p])
    BY <2>1, UpdatedFacts DEF IInv, Newest
  <2>3. QED BY <2>1, <2>2 DEF IInv, Kept, Writing, Intact
<1>4. ASSUME NEW p \in Procs, Spawn(p) \/ Feed(p) \/ Wait(p) PROVE Kept'
  <2>1. /\ pc[p] \in Writing /\ pc'[p] \notin {"merge", "spawn"}
        /\ UNCHANGED <<table, personal, raced, killed, text>>
        /\ \A q \in Procs \ {p} : pc'[q] = pc[q]
    BY <1>4 DEF Spawn, Feed, Wait, IInv, TypeOK, Writing
  <2>2. \A q \in Procs : child'[q].state = "closed" =>
            child'[q] = child[q] \/ (q = p /\ child'[q].input = text[q])
    BY <1>4 DEF Spawn, Feed, Wait, IInv, TypeOK
  <2>3. QED BY <2>1, <2>2 DEF IInv, Kept, Writing, Intact
<1>5. ASSUME NEW p \in Procs, Unlock(p) \/ Fail(p) PROVE Kept'
  BY <1>5, KeptExit DEF Unlock, Fail
<1>6. ASSUME NEW p \in Procs, Kill(p) PROVE Kept'
  <2>1. CASE child[p].state = "reading"
    BY <1>6, <2>1 DEF Kill, IInv, Children, Installing, Kept
  <2>2. CASE child[p].state # "reading"
    BY <1>6, <2>2, KeptExit DEF Kill
  <2>3. QED BY <2>1, <2>2
<1>7. ASSUME NEW p \in Procs, ChildInstalls(p) PROVE Kept'
  <2>1. /\ child[p].state = "closed" /\ table' = child[p].input
        /\ UNCHANGED <<personal, raced, killed, pc, text>>
    BY <1>7 DEF ChildInstalls
  <2>2. \A q \in Procs : child'[q].state = "closed" => child'[q] = child[q]
    BY <1>7 DEF ChildInstalls, IInv, TypeOK, Idle
  <2>3. QED BY <2>1, <2>2 DEF IInv, Kept, Writing, Intact
<1>8. ASSUME NEW p \in Procs, ChildFails(p) PROVE Kept'
  <2>1. \A q \in Procs : child'[q] = child[q] \/ child'[q] = Idle
    BY <1>8 DEF ChildFails, IInv, TypeOK
  <2>2. QED BY <1>8, <2>1, KeptExit DEF ChildFails
<1>9. CASE Authorize
  BY <1>9 DEF Authorize, IInv, Kept, Intact
<1>10. CASE EditCrontab
  <2>1. ~raced' => \A p \in Procs : ~InFlight(p)
    BY <1>10 DEF EditCrontab
  <2>2. personal' = Personal(table') /\ UNCHANGED <<pc, child, text>>
    BY <1>10 DEF EditCrontab
  <2>3. QED BY <2>1, <2>2 DEF InFlight, Kept, Writing, Idle
<1>11. QED BY <1>1, <1>2, <1>3, <1>4, <1>5, <1>6, <1>7, <1>8, <1>9, <1>10
         DEF Next, UpdateStep, External

\* ... and after every step.
LEMMA NextInvariant == IInv /\ [Next]_vars => IInv'
<1> SUFFICES ASSUME IInv, [Next]_vars PROVE IInv'
  OBVIOUS
<1>1. CASE Next
  <2>1. TypeOK'
    BY <1>1, UpdateType, OutsideType DEF Next, IInv
  <2>2. QED BY <1>1, <2>1, ChildrenStep, NewestStep, KeptStep DEF IInv
<1>2. CASE UNCHANGED vars
  <2>1. UNCHANGED <<store, table, lock, pc, op, block, text, child, need, due, personal,
                    edits, raced, killed>>
    BY <1>2 DEF vars, own, ghost
  <2>2. TypeOK'
    BY <2>1 DEF IInv, TypeOK
  <2>3. Children' /\ Newest'
    BY <2>1 DEF IInv, Children, Newest, NewestStaysInstalled
  <2>4. Kept'
    BY <2>1 DEF IInv, Kept, Intact
  <2>5. QED BY <2>2, <2>3, <2>4 DEF IInv
<1>3. QED BY <1>1, <1>2

\* A well-formed table that lost nothing of its user's, for a damaged one.
LEMMA MalformedStep ==
    IInv /\ [Next]_vars /\ ~WellFormed(table) /\ ~raced /\ "feed" \notin killed /\ table' # table
        => edits' # edits
<1> SUFFICES ASSUME IInv, [Next]_vars, ~WellFormed(table), ~raced, "feed" \notin killed,
                    table' # table
             PROVE  edits' # edits
  OBVIOUS
<1>1. ASSUME NEW p \in Procs, ChildInstalls(p) PROVE FALSE
  BY <1>1 DEF ChildInstalls, IInv, Kept
<1>2. EditCrontab
  <2>1. ASSUME NEW p \in Procs, Begin(p) \/ Lock(p) \/ UpdateStep(p) \/ Fail(p) \/ Kill(p) \/ ChildFails(p)
        PROVE  FALSE
    BY <2>1 DEF Begin, Lock, UpdateStep, Preview, ReadSystemCrontab, Merge, Spawn, Feed, Wait,
                Unlock, Fail, Kill, ChildFails
  <2>2. ~Authorize /\ ~UNCHANGED vars
    BY DEF Authorize, vars
  <2>3. QED BY <1>1, <2>1, <2>2 DEF Next, External
<1>3. QED BY <1>2 DEF EditCrontab, IInv, TypeOK

-----------------------------------------------------------------------------
(* Theorems *)

\* What every process, its `crontab -` and the installed table know of each other.
THEOREM Invariance == Spec => []IInv
BY InitInvariant, NextInvariant, PTL DEF Spec

\* Every variable keeps its type, and crontab.lock is held exactly during an
\* update.
THEOREM TypeCorrect == Spec => []TypeOK
<1>1. IInv => TypeOK
  BY DEF IInv
<1>2. QED BY <1>1, Invariance, PTL

\* Once a sync has succeeded, no update puts back a block from an older store,
\* unless a process is killed with a `crontab -` running.
THEOREM NewestInstalled == Spec => []NewestStaysInstalled
<1>1. IInv => NewestStaysInstalled
  BY DEF IInv, Newest
<1>2. QED BY <1>1, Invariance, PTL

\* No sync, uninstall, failure or kill changes what the user wrote outside the
\* markers, unless the user edits during an update or a kill cuts off the feeding.
THEOREM LinesKept == Spec => []UserLinesKept
<1>1. IInv => UserLinesKept
  BY DEF IInv, Kept, UserLinesKept
<1>2. QED BY <1>1, Invariance, PTL

\* A second sync of any reachable crontab changes nothing, and both leave the
\* user's lines.
THEOREM SyncsSettle == Spec => []SyncSettles
<1>1. IInv => SyncSettles
  <2> SUFFICES ASSUME IInv, WellFormed(table)
               PROVE  LET once == MergeCrontab(table, Block(store)) IN
                      /\ WellFormed(once) /\ Personal(once) = Personal(table)
                      /\ MergeCrontab(once, Block(store)) = once
    BY DEF SyncSettles
  <2>1. table \in Seq(Lines) /\ store \in Nat /\ store # NoBlock
    BY BoundAssumption DEF IInv, TypeOK, NoBlock
  <2>2. QED BY <2>1, MergeFacts
<1>2. QED BY <1>1, Invariance, PTL

\* A crontab with a damaged block is replaced by its user only, unless the user
\* has edited the crontab between the `crontab -l` and the `crontab -` of an
\* update or a kill has cut off the feeding.
THEOREM MalformedKept == Spec => MalformedNotReplaced
<1>1. IInv /\ [Next]_vars =>
        [~WellFormed(table) /\ ~raced /\ "feed" \notin killed /\ table' # table => edits' # edits]_vars
  BY MalformedStep
<1>2. QED BY <1>1, Invariance, PTL DEF Spec, MalformedNotReplaced

=============================================================================
