---------------------------- MODULE ScheduleProofs ----------------------------
(***************************************************************************)
(* For any directories, contents and commands, and both kinds of cron:     *)
(* type correctness, StartsOnlyApproved and SyncIsExact.                   *)
(*                                                                         *)
(* Approvals are followed through the system: what is approved, what a     *)
(* sync has loaded and readied, what is installed and what exec was given  *)
(* all come from a pair in `ever` (Approved).  And what a sync has done    *)
(* for a directory that stays as it is, is what Ready says (Exact); that   *)
(* the installed entries show it takes entries of two directories or       *)
(* commands to be different texts, which they are because they arrive as   *)
(* different arguments (LineProofs).                                       *)
(***************************************************************************)
EXTENDS Schedule, LineProofs

TableApproved == \A line \in table : \E p \in ever : line \in Entries({p})

ExecApproved ==
    exec.pc # "idle" => \E p \in ever : p[1] = exec.dir /\ exec.command \in Commands[p[2]]

Approved ==
    /\ Pairs(approved) \subseteq ever /\ Pairs(sync.records) \subseteq ever
    /\ sync.ready \subseteq ever
    /\ TableApproved /\ ExecApproved
    /\ exec.result = "started" => exec.pc = "ended"

Exact ==
    sync.pc = "inspect" => sync.result = "none" /\ \A d \in still :
        /\ sync.records[d] = approved[d]
        /\ \A c : <<d, c>> \in sync.ready <=> d \notin sync.todo /\ Ready(d) /\ c = cronrc[d]

IInv == TypeOK /\ Approved /\ Exact

-----------------------------------------------------------------------------
(* Entries *)

\* A text over an alphabet is one over a larger alphabet.
LEMMA LargerAlphabet ==
    ASSUME NEW S, NEW T, S \subseteq T, NEW s \in Seq(S)
    PROVE  s \in Seq(T)
<1>1. Len(s) \in Nat /\ s \in [1..Len(s) -> T]
  OBVIOUS
<1>2. QED BY <1>1

\* Joining one word gives it.
LEMMA JoinedOne ==
    ASSUME NEW c
    PROVE  Joined(<<c>>) = c
<1> DEFINE Is(f) == f = [i \in 1..Len(<<c>>) |->
                           IF i = 1 THEN <<c>>[1] ELSE f[i - 1] \o <<Blank>> \o <<c>>[i]]
           f0 == [i \in 1..1 |-> c]
<1>1. Len(<<c>>) = 1 /\ <<c>>[1] = c /\ \A i \in 1..1 : i = 1
  OBVIOUS
<1>2. Is(f0)
  BY <1>1
<1>3. Joined(<<c>>) = (CHOOSE f : Is(f))[1]
  BY <1>1 DEF Joined
<1> DEFINE g == CHOOSE f : Is(f)
<1>4. Is(g)
  <2> HIDE DEF Is
  <2>1. QED BY <1>2
<1> HIDE DEF g
<1>5. g[1] = c
  BY <1>1, <1>4
<1>6. QED BY <1>3, <1>5 DEF g

\* The two arguments of an entry arrive as they were written.
LEMMA EntryArrives ==
    ASSUME NEW d \in Dirs, NEW v \in Valid, NEW c \in Commands[v]
    PROVE  Arrives(Collapse, EntryText(d, c)) = <<d, c>>
<1> DEFINE T == ToSet(d) \union ToSet(c) \union Special
<1>1. d \in Seq(ToSet(d)) /\ c \in Seq(ToSet(c)) /\ Collapse \in BOOLEAN
  BY TextsAssumption
<1>2. Special \subseteq T /\ ToSet(d) \subseteq T /\ ToSet(c) \subseteq T
  OBVIOUS
<1> HIDE DEF T
<1>3. d \in Seq(T) /\ c \in Seq(T)
  BY <1>1, <1>2, LargerAlphabet
<1>4. QED BY <1>1, <1>2, <1>3, ArgumentsArrive

\* Two directories, or two commands, never share an entry.
LEMMA EntriesDiffer ==
    ASSUME NEW d \in Dirs, NEW v \in Valid, NEW c \in Commands[v],
           NEW e \in Dirs, NEW w \in Valid, NEW k \in Commands[w],
           EntryText(d, c) = EntryText(e, k)
    PROVE  d = e /\ c = k
<1>1. Arrives(Collapse, EntryText(d, c)) = <<d, c>>
  BY EntryArrives
<1>2. Arrives(Collapse, EntryText(e, k)) = <<e, k>>
  BY EntryArrives
<1>3. <<d, c>> = <<e, k>>
  BY <1>1, <1>2
<1>4. QED BY <1>3

\* Of the entries of several directories, those of one are known by it.
LEMMA EntriesOfOne ==
    ASSUME NEW pairs \in SUBSET (Dirs \X Valid), NEW d \in Dirs
    PROVE  Entries(pairs) \intersect EntriesOf(d) = Entries({p \in pairs : p[1] = d})
<1>1. ASSUME NEW line \in Entries(pairs), line \in EntriesOf(d)
      PROVE  line \in Entries({p \in pairs : p[1] = d})
  <2>1. PICK p \in pairs : \E c \in Commands[p[2]] : line = EntryText(p[1], c)
    BY <1>1 DEF Entries
  <2>2. PICK c \in Commands[p[2]] : line = EntryText(p[1], c)
    BY <2>1
  <2>3. PICK w \in Valid : \E k \in Commands[w] : line = EntryText(d, k)
    BY <1>1 DEF EntriesOf
  <2>4. PICK k \in Commands[w] : line = EntryText(d, k)
    BY <2>3
  <2>5. p[1] = d
    <3>1. p[1] \in Dirs /\ p[2] \in Valid
      OBVIOUS
    <3>2. EntryText(p[1], c) = EntryText(d, k)
      BY <2>2, <2>4
    <3>3. QED BY <3>1, <3>2, EntriesDiffer
  <2>6. QED BY <2>2, <2>5 DEF Entries
<1>2. ASSUME NEW line \in Entries({p \in pairs : p[1] = d})
      PROVE  line \in Entries(pairs) /\ line \in EntriesOf(d)
  <2>1. PICK p \in pairs : p[1] = d /\ \E c \in Commands[p[2]] : line = EntryText(p[1], c)
    BY <1>2 DEF Entries
  <2>2. p[2] \in Valid
    OBVIOUS
  <2>3. QED BY <2>1, <2>2 DEF Entries, EntriesOf
<1>3. QED BY <1>1, <1>2

-----------------------------------------------------------------------------
(* The invariant *)

\* What is tracked has a content that was approved.
LEMMA PairsFacts ==
    ASSUME NEW records \in [Dirs -> Valid \union {NoRecord}]
    PROVE  /\ Pairs(records) \in SUBSET (Dirs \X Valid)
           /\ \A d \in Dirs : records[d] # NoRecord => <<d, records[d]>> \in Pairs(records)
BY DEF Pairs

\* The invariant holds at the start ...
LEMMA InitInvariant == Init => IInv
<1> SUFFICES ASSUME Init PROVE IInv
  OBVIOUS
<1> USE DEF Init, NoSync, NoExec
<1>1. TypeOK
  BY DEF TypeOK, Files
<1>2. Approved
  BY DEF Approved, Pairs, TableApproved, ExecApproved
<1>3. Exact
  BY DEF Exact
<1>4. QED BY <1>1, <1>2, <1>3 DEF IInv

\* A step that leaves the syncs, the crontab and the execs alone.
LEMMA AuthorizeStep ==
    ASSUME IInv, Authorize
    PROVE  IInv'
<1> USE DEF IInv
<1> DEFINE OnlyThese == /\ cronrc' \in [Dirs -> Files] /\ approved' \in [Dirs -> Valid \union {NoRecord}]
                       /\ UNCHANGED <<sync, table, exec>> /\ Witness
<1>1. OnlyThese
  <2>1. ASSUME NEW d \in Dirs, Allow(d) PROVE OnlyThese
    BY <2>1 DEF Allow, TypeOK
  <2>2. ASSUME NEW d \in Dirs, Deny(d) PROVE OnlyThese
    BY <2>2 DEF Deny, TypeOK
  <2>3. ASSUME NEW d \in Dirs, NEW file \in Files, EditCronrc(d, file) PROVE OnlyThese
    BY <2>3 DEF EditCronrc, TypeOK
  <2>4. ASSUME NEW d \in Dirs, NEW v \in Valid, EditStore(d, v) PROVE OnlyThese
    BY <2>4 DEF EditStore, TypeOK
  <2>5. QED BY <2>1, <2>2, <2>3, <2>4 DEF Authorize
<1>2. TypeOK'
  BY <1>1, PairsFacts DEF TypeOK, Witness
<1>3. Approved'
  BY <1>1 DEF Approved, Witness, TableApproved, ExecApproved
<1>4. Exact'
  BY <1>1 DEF Exact, Witness, Ready
<1>5. QED BY <1>2, <1>3, <1>4

\* A step of an exec.
LEMMA ExecStep ==
    ASSUME IInv, Exec
    PROVE  IInv'
<1> USE DEF IInv
<1> DEFINE ExecOnly == UNCHANGED <<cronrc, approved, sync, table>> /\ Witness
           Typed == exec' \in [pc : {"idle", "read", "check", "ended"}, dir : {exec'.dir},
                               command : {exec'.command}, read : Files,
                               result : {"none", "refused", "started", "blocked"}]
           Given == ExecApproved' /\ (exec'.result = "started" => exec'.pc = "ended")
<1>1. ExecOnly /\ ever \subseteq ever'
  BY DEF Exec, Fire, ReadCronrc, CheckAndStart, Ended, Witness
<1>2. Typed /\ Given
  <2>1. ASSUME NEW line \in table, Fire(line) PROVE Typed /\ Given
    <3>1. PICK p \in ever : \E c \in Commands[p[2]] : line = EntryText(p[1], c)
      BY DEF Approved, TableApproved, Entries
    <3>2. PICK c \in Commands[p[2]] : line = EntryText(p[1], c)
      BY <3>1
    <3>3. p[1] \in Dirs /\ p[2] \in Valid
      BY DEF TypeOK
    <3> DEFINE words   == Arrives(Collapse, line)
               rest    == IF words[2] = Dashes THEN Tail(Tail(words)) ELSE Tail(words)
               refused == [NoExec EXCEPT !.result = "refused"]
    <3>4. words = <<p[1], c>>
      BY <3>2, <3>3, EntryArrives
    <3>5. exec' = IF Len(words) < 2 \/ rest = <<>> THEN refused
                  ELSE [NoExec EXCEPT !.pc = "read", !.dir = words[1], !.command = Joined(rest)]
      BY <2>1 DEF Fire
    <3> HIDE DEF refused
    <3>6. Len(words) = 2 /\ words[1] = p[1] /\ words[2] = c
          /\ Tail(words) = <<c>> /\ Tail(Tail(words)) = <<>> /\ <<c>> # <<>>
      BY <3>4
    <3> HIDE DEF words
    <3>7. CASE c = Dashes
      <4>1. rest = <<>>
        BY <3>6, <3>7
      <4> HIDE DEF rest
      <4>2. exec' = refused
        BY <3>5, <4>1
      <4>3. QED BY <1>1, <4>2 DEF refused, NoExec, ExecApproved, Files
    <3>8. CASE c # Dashes
      <4>1. rest = <<c>> /\ rest # <<>> /\ ~(Len(words) < 2)
        BY <3>6, <3>8
      <4> HIDE DEF rest
      <4>2. exec' = [NoExec EXCEPT !.pc = "read", !.dir = p[1], !.command = c]
        BY <3>5, <3>6, <4>1, JoinedOne, Zenon
      <4>3. QED BY <1>1, <4>2 DEF NoExec, ExecApproved, Files
    <3>9. QED BY <3>7, <3>8
  <2>2. CASE ReadCronrc
    BY <1>1, <2>2 DEF ReadCronrc, TypeOK, Approved, ExecApproved, Files
  <2>3. CASE CheckAndStart
    BY <1>1, <2>3 DEF CheckAndStart, TypeOK, Approved, ExecApproved
  <2>4. CASE Ended
    BY <2>4 DEF Ended, NoExec, Files, ExecApproved
  <2>5. QED BY <2>1, <2>2, <2>3, <2>4 DEF Exec
<1>3. TypeOK'
  BY <1>1, <1>2, PairsFacts DEF TypeOK, Witness
<1>4. Approved'
  BY <1>1, <1>2 DEF Approved, TableApproved, Witness
<1>5. Exact'
  BY <1>1 DEF Exact, Witness, Ready
<1>6. QED BY <1>3, <1>4, <1>5

\* A step of a sync, or an uninstall.
LEMMA SyncStep ==
    ASSUME IInv, Sync \/ Uninstall
    PROVE  IInv'
<1> USE DEF IInv
<1>1. UNCHANGED <<cronrc, approved, exec>> /\ ever' = ever
  <2>1. Pairs(approved) \subseteq ever
    BY DEF Approved
  <2>2. QED
    BY <2>1 DEF Sync, BeginSync, InspectNext, Install, SyncFails, Uninstall, Witness, Pairs
<1>2. CASE BeginSync
  <2>1. sync' = [pc |-> "inspect", records |-> approved, todo |-> {d \in Dirs : approved[d] # NoRecord},
                 ready |-> {}, result |-> "none"]
    BY <1>2 DEF BeginSync, NoSync
  <2>2. still' = Dirs /\ table' = table
    BY <1>2 DEF BeginSync
  <2>3. TypeOK'
    BY <1>1, <2>1, <2>2 DEF TypeOK
  <2>4. Approved'
    BY <1>1, <2>1, <2>2 DEF Approved, TableApproved, ExecApproved
  <2>5. Exact'
    BY <1>1, <2>1, <2>2 DEF Exact, Ready, Status
  <2>6. QED BY <2>3, <2>4, <2>5
<1>3. CASE InspectNext
  <2>1. PICK d \in sync.todo :
           sync' = [sync EXCEPT !.todo = @ \ {d},
                                !.ready = @ \union Readied(d, cronrc[d], sync.records[d])]
    BY <1>3 DEF InspectNext
  <2>2. d \in Dirs /\ table' = table
    BY <1>3 DEF InspectNext, TypeOK
  <2>3. Readied(d, cronrc[d], sync.records[d]) \subseteq Pairs(sync.records)
    BY <2>2 DEF Readied, Status, Pairs
  <2>4. Pairs(sync.records) \subseteq Dirs \X Valid
    BY PairsFacts DEF TypeOK
  <2>5. still' = still
    BY <1>1, <1>3 DEF InspectNext, Witness, TypeOK
  <2>6. TypeOK'
    BY <1>1, <2>1, <2>2, <2>3, <2>4, <2>5 DEF TypeOK
  <2>7. Approved'
    BY <1>1, <2>1, <2>2, <2>3 DEF Approved, TableApproved, ExecApproved, TypeOK
  <2>8. Exact'
    <3>1. sync'.pc = "inspect" /\ sync'.result = "none"
          /\ sync'.records = sync.records /\ sync'.todo = sync.todo \ {d}
          /\ sync'.ready = sync.ready \union Readied(d, cronrc[d], sync.records[d])
      BY <1>3, <2>1 DEF InspectNext, TypeOK, Exact
    <3>2. ASSUME NEW e \in still, NEW c, e # d
          PROVE  <<e, c>> \in sync'.ready <=> e \notin sync'.todo /\ Ready(e) /\ c = cronrc[e]
      BY <1>3, <3>1, <3>2 DEF Exact, InspectNext, Readied
    <3>3. ASSUME NEW c, d \in still
          PROVE  <<d, c>> \in sync'.ready <=> d \notin sync'.todo /\ Ready(d) /\ c = cronrc[d]
      <4>1. sync.records[d] = approved[d] /\ <<d, c>> \notin sync.ready
        BY <1>3, <3>3 DEF Exact, InspectNext
      <4>2. QED BY <3>1, <4>1 DEF Readied, Ready
    <3>4. \A e \in still : sync'.records[e] = approved[e]
      BY <1>3, <3>1 DEF Exact, InspectNext
    <3>5. Ready(d)' = Ready(d) /\ \A e \in still : Ready(e)' = Ready(e)
      BY <1>1 DEF Ready
    <3>6. QED BY <1>1, <2>5, <3>1, <3>2, <3>3, <3>4, <3>5 DEF Exact
  <2>9. QED BY <2>6, <2>7, <2>8
<1>4. CASE Install \/ SyncFails \/ Uninstall
  <2>1. /\ sync'.pc = "idle" /\ sync'.ready \subseteq ever /\ Pairs(sync'.records) \subseteq ever
        /\ sync' \in [pc : {"idle", "inspect"}, records : [Dirs -> Valid \union {NoRecord}],
                      todo : SUBSET Dirs, ready : SUBSET (Dirs \X Valid),
                      result : {"none", "installed", "failed"}]
    BY <1>4 DEF Install, SyncFails, Uninstall, NoSync, Approved, TypeOK, Pairs
  <2>2. still' \subseteq still
    BY <1>4 DEF Install, SyncFails, Uninstall, Witness
  <2>3. TableApproved'
    <3>1. table' \in {table, {}} \/ table' = Entries(sync.ready)
      BY <1>4 DEF Install, SyncFails, Uninstall
    <3>2. ASSUME NEW line \in Entries(sync.ready) PROVE \E p \in ever : line \in Entries({p})
      BY DEF Entries, Approved
    <3>3. QED BY <1>1, <3>1, <3>2 DEF Approved, TableApproved
  <2>4. TypeOK'
    BY <1>1, <2>1, <2>2 DEF TypeOK
  <2>5. Approved'
    BY <1>1, <2>1, <2>3 DEF Approved, ExecApproved
  <2>6. Exact'
    BY <2>1 DEF Exact
  <2>7. QED BY <2>4, <2>5, <2>6
<1>5. QED BY <1>2, <1>3, <1>4 DEF Sync

\* ... and after every step.
LEMMA NextInvariant == IInv /\ [Next]_vars => IInv'
<1> SUFFICES ASSUME IInv, [Next]_vars PROVE IInv'
  OBVIOUS
<1>1. CASE UNCHANGED vars
  BY <1>1 DEF vars, IInv, TypeOK, Approved, TableApproved, ExecApproved, Exact, Ready
<1>2. QED BY <1>1, AuthorizeStep, SyncStep, ExecStep DEF Next

\* The inductive invariant holds throughout.
THEOREM Invariance == Spec => []IInv
<1>1. QED BY InitInvariant, NextInvariant, PTL DEF Spec

\* Every variable of the schedule keeps its type.
THEOREM TypeCorrect == Spec => []TypeOK
<1>1. IInv => TypeOK
  BY DEF IInv
<1>2. QED BY <1>1, Invariance, PTL

\* What cron starts is, character for character, a command of a .cronrc that
\* was approved for the directory it is started in.
THEOREM OnlyApprovedStarts == Spec => []StartsOnlyApproved
<1>1. IInv => StartsOnlyApproved
  BY DEF IInv, Approved, ExecApproved, StartsOnlyApproved
<1>2. QED BY <1>1, Invariance, PTL

\* A sync installs what may run and nothing else, of directories that are left
\* alone while it works.
THEOREM SyncsAreExact == Spec => SyncIsExact
<1> DEFINE Installs == sync.pc = "inspect" /\ sync'.result = "installed"
           Exactly == \A d \in still : table' \intersect EntriesOf(d)
                        = IF Ready(d) THEN Entries({<<d, cronrc[d]>>}) ELSE {}
<1>1. ASSUME IInv, [Next]_vars, Installs PROVE Exactly
  <2>1. Install
    BY <1>1 DEF Next, vars, Exact, IInv, TypeOK, Authorize, Allow, Deny, EditStore, EditCronrc, Sync,
       BeginSync, InspectNext, SyncFails, NoSync, Uninstall, Exec, Fire, ReadCronrc,
       CheckAndStart, Ended
  <2>2. table' = Entries(sync.ready) /\ sync.todo = {} /\ sync.ready \in SUBSET (Dirs \X Valid)
    BY <1>1, <2>1 DEF Install, IInv, TypeOK
  <2>3. ASSUME NEW d \in still
        PROVE  {p \in sync.ready : p[1] = d} = IF Ready(d) THEN {<<d, cronrc[d]>>} ELSE {}
    <3>1. \A c : <<d, c>> \in sync.ready <=> Ready(d) /\ c = cronrc[d]
      BY <1>1, <2>2 DEF IInv, Exact
    <3>2. \A p \in sync.ready : p = <<p[1], p[2]>>
      BY <2>2
    <3>3. QED BY <3>1, <3>2
  <2>4. still \subseteq Dirs
    BY <1>1 DEF IInv, TypeOK
  <2>5. Entries({}) = {}
    BY DEF Entries
  <2>6. QED BY <2>2, <2>3, <2>4, <2>5, EntriesOfOne
<1>2. QED BY <1>1, Invariance, PTL DEF Spec, SyncIsExact
=============================================================================
