----------------------------- MODULE Watch_proofs ----------------------------
(***************************************************************************)
(* For every command line, interval, timeout and site: tgju watch never    *)
(* answers a poll from memory, its lines are the changes of the price, and *)
(* it starts with what was typed last.                                     *)
(*                                                                         *)
(* PollsIndependent is not inductive: a reading an earlier poll has used   *)
(* must be gone when the next one starts.  Aging says when: during a pause *)
(* what is left of it and the part of the interval that has passed fit in  *)
(* the lifetime, which Pinned keeps to half an interval.  Shown ties the   *)
(* lines to the last price read and to the loop's own variable.            *)
(***************************************************************************)
EXTENDS Watch, SequenceTheorems, TLAPS

Running == pc \in {"polling", "pausing"}

MemoType ==
    [state: {"none", "fetching", "held"}, left: Nat, ok: BOOLEAN,
     price: Prices \cup {NoPrice}, fresh: BOOLEAN]

WellTyped ==
    /\ pc \in {"parsing", "polling", "pausing", "exited"}
    /\ site \in Prices \cup {NoPrice, Down}
    /\ memo \in [Boards -> MemoType]
    /\ answers \in [Boards -> {"waiting", "ok", "failed", "cancelled"}]
    /\ wait \in Nat

\* The flags while they are read, and the cache once the loop runs.
Parsed ==
    /\ todo \in Seq(Arguments)
    /\ DOMAIN flags = Names
    /\ pc = "parsing" => flags["interval"] \in Int
Pinned ==
    Running =>
        /\ Interval \in Nat /\ TTL \in Nat
        /\ 0 < TTL /\ TTL + TTL <= Interval

\* A reading an earlier poll has seen.
Stale(b) == memo[b].state = "held" /\ ~memo[b].fresh
Aging ==
    /\ pc = "polling" => \A b \in Boards : Stale(b) => memo[b].left = 0
    /\ pc = "pausing" =>
        /\ wait <= Interval
        /\ \A b \in Boards :
             Stale(b) => memo[b].left = 0 \/ memo[b].left + (Interval - wait) <= TTL
    /\ Running =>
        \A b \in Boards : memo[b].state = "held" => memo[b].left <= TTL

Shown ==
    \/ lines = <<>> /\ previous = NoPrice /\ lastRead = NoPrice
    \/ /\ lines \in Seq(Prices) /\ Len(lines) \in {1, 2}
       /\ previous = lastRead /\ previous = lines[Len(lines)]

Untouched ==
    pc = "parsing" =>
        /\ lines = <<>>
        /\ \A b \in Boards : memo[b] = Unread /\ answers[b] = "waiting"

IInv ==
    WellTyped /\ Parsed /\ Pinned /\ Aging /\ PollsIndependent /\ Shown /\ Untouched /\ LinesAreChanges

----------------------------------------------------------------------------
(* The flags, and what the operators of the loop return. *)

LEMMA ReadInterval ==
    ASSUME NEW arg \in Arguments, arg.kind = "flag", ~Refuses(arg), arg.name = "interval"
    PROVE  arg.value \in Int
BY DEF Arguments, Refuses, Arg, Word, Help, Unknown

LEMMA ArgumentNames ==
    ASSUME NEW arg \in Arguments
    PROVE  arg.name \in Names
BY DEF Arguments, Names, Arg, Word, Help, Unknown

LEMMA RegisteredInterval ==
    ASSUME NEW line \in CommandLines
    PROVE  /\ DOMAIN Registered(line.env) = Names
           /\ Registered(line.env)["interval"] \in Int
BY SettingsAssumption DEF Registered, EnvDuration, Set, Names

\* tgju.WithCacheTTL of half an interval, applied last.
LEMMA ClientIsPinned ==
    ASSUME NEW f, f["interval"] \in Int, f["interval"] >= MinInterval
    PROVE  /\ Client(f).cacheTTL \in Nat
           /\ 0 < Client(f).cacheTTL
           /\ Client(f).cacheTTL + Client(f).cacheTTL \in {f["interval"] - 1, f["interval"]}
<1> DEFINE n == f["interval"]
           half == n \div 2
<1>1. n \in Nat /\ 2 <= n
  BY SettingsAssumption
<1>2. half \in Nat /\ 0 < half /\ half + half \in {n - 1, n}
  BY <1>1
<1>3. Client(f).cacheTTL = half
  BY <1>2 DEF Client, WithCacheTTL
<1> QED
  BY <1>2, <1>3

LEMMA LifetimeRange ==
    ASSUME TTL \in Nat, 0 < TTL, NEW ok
    PROVE  Lifetime(ok) \in Nat /\ Lifetime(ok) <= TTL
BY WatchAssumption DEF Lifetime

LEMMA MemoValues ==
    ASSUME NEW m \in MemoType
    PROVE  /\ Older(m) \in MemoType /\ Used(m) \in MemoType
           /\ Unread \in MemoType /\ Fetching \in MemoType
BY WatchAssumption DEF MemoType, Older, Used, Unread, Fetching

\* The lines after a price that was worth one.
LEMMA PrintedLines ==
    ASSUME Shown, NEW p \in Prices
    PROVE  /\ Printed(p) \in Seq(Prices) /\ Len(Printed(p)) \in {1, 2}
           /\ Printed(p)[Len(Printed(p))] = p
           /\ Len(Printed(p)) = 2 => Printed(p)[1] = previous
<1>1. CASE lines = <<>>
  BY <1>1 DEF Printed
<1>2. CASE lines # <<>>
  <2>1. lines[Len(lines)] \in Prices /\ lines[Len(lines)] = previous
    BY <1>2 DEF Shown
  <2>2. Printed(p) = <<previous, p>>
    BY <1>2, <2>1 DEF Printed
  <2> QED
    BY <2>1, <2>2
<1> QED BY <1>1, <1>2

----------------------------------------------------------------------------
LEMMA InitHolds == WatchInit => IInv
<1> SUFFICES ASSUME WatchInit PROVE IInv
  OBVIOUS
<1>1. /\ pc = "parsing" /\ asked \in CommandLines /\ todo = asked.args
      /\ flags = Registered(asked.env)
      /\ site \in Prices \cup {NoPrice, Down} /\ memo = [b \in Boards |-> Unread]
      /\ answers = [b \in Boards |-> "waiting"] /\ wait = 0
      /\ previous = NoPrice /\ lastRead = NoPrice /\ lines = <<>>
  BY DEF WatchInit, CommandInit
<1>2. Parsed
  BY <1>1, RegisteredInterval, SettingsAssumption DEF Parsed
<1>3. WellTyped
  BY <1>1 DEF WellTyped, Unread, MemoType
<1>4. Pinned /\ Aging /\ PollsIndependent
  BY <1>1 DEF Pinned, Running, Aging, PollsIndependent
<1>5. Shown /\ Untouched /\ LinesAreChanges
  BY <1>1 DEF Shown, Untouched, LinesAreChanges
<1> QED BY <1>2, <1>3, <1>4, <1>5 DEF IInv

\* Reading an argument, refusing the command line, starting the loop.
LEMMA ParsingKeeps ==
    ASSUME IInv, Parsing
    PROVE  IInv'
<1>1. pc = "parsing" /\ UNCHANGED <<site, interrupted, loop>>
  BY DEF Parsing, ReadArg, Refuse, Accept
<1>2. /\ lines = <<>> /\ lastRead = NoPrice /\ previous = NoPrice
      /\ \A b \in Boards : memo[b].state = "none" /\ answers[b] = "waiting"
  BY <1>1 DEF IInv, Untouched, Shown, Unread
<1>3. Shown' /\ Untouched' /\ LinesAreChanges'
  BY <1>1, <1>2 DEF IInv, loop, Shown, Untouched, LinesAreChanges
<1>4. pc' \in {"parsing", "polling", "exited"} /\ WellTyped'
  BY <1>1 DEF IInv, WellTyped, loop, Parsing, ReadArg, Refuse, Accept, Exits
<1>5. Aging' /\ PollsIndependent'
  BY <1>1, <1>2, <1>4 DEF Aging, PollsIndependent, Stale, Running, loop
<1>6. Parsed' /\ Pinned'
  <2>1. CASE ReadArg
    <3> DEFINE arg == Head(todo)
    <3>1. arg \in Arguments /\ todo' = Tail(todo) /\ todo' \in Seq(Arguments)
      BY <2>1 DEF ReadArg, IInv, Parsed
    <3>2. flags' = IF arg.kind = "flag" /\ ~Refuses(arg)
                   THEN [flags EXCEPT ![arg.name] = arg.value] ELSE flags
      BY <2>1 DEF ReadArg, Given
    <3>3. DOMAIN flags' = Names /\ flags'["interval"] \in Int
      <4> HIDE DEF arg
      <4> QED
        BY <1>1, <3>1, <3>2, ReadInterval, ArgumentNames DEF IInv, Parsed, Names
    <3>4. pc' \in {"parsing", "exited"}
      BY <1>1, <2>1 DEF ReadArg, Exits
    <3> QED
      BY <3>1, <3>3, <3>4 DEF Parsed, Pinned, Running
  <2>2. CASE Refuse
    BY <1>1, <2>2 DEF Refuse, Exits, settings, IInv, Parsed, Pinned, Running
  <2>3. CASE Accept
    <3>1. /\ flags["interval"] >= MinInterval /\ client' = Client(flags)
          /\ flags' = [flags EXCEPT !["cache-ttl"] = Unset, !["unit"] = Unset]
          /\ todo' = todo /\ pc' = "polling"
      BY <2>3 DEF Accept, Acceptable
    <3>2. DOMAIN flags = Names /\ flags["interval"] \in Int /\ todo \in Seq(Arguments)
      BY <1>1 DEF IInv, Parsed
    <3>3. DOMAIN flags' = Names /\ flags'["interval"] = flags["interval"]
      BY <3>1, <3>2 DEF Names
    <3>4. /\ Client(flags).cacheTTL \in Nat /\ 0 < Client(flags).cacheTTL
          /\ Client(flags).cacheTTL + Client(flags).cacheTTL <= flags["interval"]
          /\ flags["interval"] \in Nat
      <4>1. Client(flags).cacheTTL + Client(flags).cacheTTL
              \in {flags["interval"] - 1, flags["interval"]}
            /\ Client(flags).cacheTTL \in Nat /\ 0 < Client(flags).cacheTTL
        BY <3>1, <3>2, ClientIsPinned
      <4> QED
        BY <3>2, <4>1
    <3>5. Parsed'
      BY <3>1, <3>2, <3>3 DEF Parsed
    <3>6. Interval' = flags["interval"] /\ TTL' = Client(flags).cacheTTL
      BY <3>1, <3>3 DEF Interval, TTL
    <3>7. Pinned'
      BY <3>4, <3>6 DEF Pinned
    <3> QED BY <3>5, <3>7
  <2> QED
    BY <2>1, <2>2, <2>3 DEF Parsing
<1> QED
  BY <1>3, <1>4, <1>5, <1>6 DEF IInv

\* Once the loop runs, its settings stay.
LEMMA SettingsStay ==
    ASSUME Parsed, Pinned, Running, UNCHANGED settings,
           pc' \in {"polling", "pausing", "exited"}
    PROVE  /\ Parsed' /\ Pinned' /\ Interval' = Interval /\ TTL' = TTL
           /\ Interval \in Nat /\ TTL \in Nat /\ 0 < TTL /\ TTL + TTL <= Interval
           /\ flags' = flags
BY DEF settings, Parsed, Pinned, Running, Interval, TTL

\* A step that changes one board's memo or answer and nothing else.
LEMMA OneBoardKeeps ==
    ASSUME IInv, NEW b \in Boards, Running, UNCHANGED settings,
           UNCHANGED <<pc, site, wait, previous, lastRead, lines>>,
           NEW m \in MemoType, NEW a \in {"waiting", "ok", "failed", "cancelled"},
           memo' = [memo EXCEPT ![b] = m], answers' = [answers EXCEPT ![b] = a],
           m.state = "held" => (m = memo[b] \/ (m.fresh /\ m.left <= TTL)),
           pc = "polling" /\ a \in {"ok", "failed"} => m.fresh
    PROVE  IInv'
<1>1. /\ Parsed' /\ Pinned' /\ Interval' = Interval /\ TTL' = TTL /\ flags' = flags
  BY SettingsStay DEF IInv, Running
<1>2. WellTyped'
  BY DEF IInv, WellTyped
<1>3. \A c \in Boards : /\ memo'[c] = (IF c = b THEN m ELSE memo[c])
                         /\ answers'[c] = (IF c = b THEN a ELSE answers[c])
  BY DEF IInv, WellTyped
<1>4. Aging'
  BY <1>1, <1>3 DEF IInv, Aging, Stale, Running
<1>5. PollsIndependent'
  BY <1>3 DEF IInv, PollsIndependent
<1>6. Shown' /\ LinesAreChanges' /\ Untouched'
  BY <1>1 DEF IInv, Shown, LinesAreChanges, Untouched, Running
<1> QED
  BY <1>1, <1>2, <1>4, <1>5, <1>6 DEF IInv

LEMMA LeadKeeps ==
    ASSUME IInv, NEW b \in Boards, Lead(b)
    PROVE  IInv'
<1>1. /\ pc = "polling" /\ answers[b] = "waiting"
      /\ memo' = [memo EXCEPT ![b] = Fetching] /\ answers' = answers
      /\ UNCHANGED <<pc, settings, site, wait, previous, lastRead, lines>>
  BY DEF Lead, Waiting
<1>2. answers' = [answers EXCEPT ![b] = "waiting"]
  BY <1>1 DEF IInv, WellTyped
<1>3. Fetching \in MemoType /\ Fetching.state # "held"
  BY WatchAssumption DEF Fetching, MemoType
<1> QED
  BY <1>1, <1>2, <1>3, OneBoardKeeps DEF Running

LEMMA PublishKeeps ==
    ASSUME IInv, NEW b \in Boards, Publish(b), Running
    PROVE  IInv'
<1>1. /\ memo' = [memo EXCEPT ![b] = Reading(b)] /\ answers' = answers
      /\ UNCHANGED <<pc, settings, site, wait, previous, lastRead, lines>>
  BY DEF Publish
<1>2. answers' = [answers EXCEPT ![b] = answers[b]]
      /\ answers[b] \in {"waiting", "ok", "failed", "cancelled"}
  BY <1>1 DEF IInv, WellTyped
<1>3. TTL \in Nat /\ 0 < TTL
  BY DEF IInv, Pinned
<1>4. Reading(b) \in MemoType /\ Reading(b).fresh /\ Reading(b).left <= TTL
  <2>1. Lifetime(site # Down) \in Nat /\ Lifetime(site # Down) <= TTL
    BY <1>3, LifetimeRange
  <2>2. (IF b = Home /\ site # Down THEN site ELSE NoPrice) \in Prices \cup {NoPrice}
    BY DEF IInv, WellTyped
  <2> HIDE DEF Lifetime
  <2> QED
    BY <2>1, <2>2 DEF Reading, MemoType
<1> QED
  BY <1>1, <1>2, <1>4, OneBoardKeeps

LEMMA AnswerKeeps ==
    ASSUME IInv, NEW b \in Boards, Answer(b)
    PROVE  IInv'
<1>1. /\ pc = "polling" /\ memo[b].state = "held" /\ memo[b].left > 0
      /\ answers' = [answers EXCEPT ![b] = IF memo[b].ok THEN "ok" ELSE "failed"]
      /\ memo' = memo
      /\ UNCHANGED <<pc, settings, site, wait, previous, lastRead, lines>>
  BY DEF Answer, Waiting, Good
<1>2. memo' = [memo EXCEPT ![b] = memo[b]] /\ memo[b] \in MemoType
  BY <1>1 DEF IInv, WellTyped
<1>3. memo[b].fresh
  BY <1>1 DEF IInv, Aging, Stale
<1>4. PICK a \in {"waiting", "ok", "failed", "cancelled"} :
        a = IF memo[b].ok THEN "ok" ELSE "failed"
  OBVIOUS
<1>5. answers' = [answers EXCEPT ![b] = a]
  BY <1>1, <1>4
<1>6. PICK m \in MemoType : m = memo[b]
  BY <1>2
<1>7. memo' = [memo EXCEPT ![b] = m] /\ m.fresh
  BY <1>2, <1>3, <1>6
<1>8. /\ m.state = "held" => (m = memo[b] \/ (m.fresh /\ m.left <= TTL))
      /\ pc = "polling" /\ a \in {"ok", "failed"} => m.fresh
  BY <1>6, <1>7
<1>9. Running /\ UNCHANGED settings /\ UNCHANGED <<pc, site, wait, previous, lastRead, lines>>
  BY <1>1 DEF Running
<1> QED
  BY <1>5, <1>7, <1>8, <1>9, OneBoardKeeps

LEMMA AbandonKeeps ==
    ASSUME IInv, NEW b \in Boards, Abandon(b)
    PROVE  IInv'
<1>1. /\ pc = "polling" /\ memo' = memo
      /\ answers' = [answers EXCEPT ![b] = "cancelled"]
      /\ UNCHANGED <<pc, settings, site, wait, previous, lastRead, lines>>
  BY DEF Abandon, Waiting
<1>2. PICK m \in MemoType : m = memo[b]
  BY <1>1 DEF IInv, WellTyped
<1>3. memo' = [memo EXCEPT ![b] = m]
  BY <1>1, <1>2 DEF IInv, WellTyped
<1>4. PICK a \in {"waiting", "ok", "failed", "cancelled"} : a = "cancelled"
  OBVIOUS
<1>5. /\ m.state = "held" => (m = memo[b] \/ (m.fresh /\ m.left <= TTL))
      /\ pc = "polling" /\ a \in {"ok", "failed"} => m.fresh
  BY <1>2, <1>4
<1>6. Running /\ UNCHANGED settings /\ UNCHANGED <<pc, site, wait, previous, lastRead, lines>>
  BY <1>1 DEF Running
<1>7. answers' = [answers EXCEPT ![b] = a]
  BY <1>1, <1>4
<1> QED
  BY <1>3, <1>5, <1>6, <1>7, OneBoardKeeps

\* The program ends: nothing of the loop's matters any more.
LEMMA ExitKeeps ==
    ASSUME IInv, Running, pc' = "exited", UNCHANGED <<settings, site, loop>>
    PROVE  IInv'
<1>1. Parsed' /\ Pinned' /\ flags' = flags
  BY DEF IInv, Parsed, Pinned, Running, settings
<1>2. WellTyped' /\ Aging' /\ PollsIndependent' /\ Untouched'
  BY DEF IInv, WellTyped, Aging, Running, PollsIndependent, Untouched, loop
<1>3. Shown' /\ LinesAreChanges'
  BY <1>1 DEF IInv, Shown, LinesAreChanges, loop
<1> QED
  BY <1>1, <1>2, <1>3 DEF IInv

LEMMA PollEndsKeeps ==
    ASSUME IInv, PollEnds
    PROVE  IInv'
<1>0. pc = "polling" /\ Running /\ UNCHANGED <<settings, site, interrupted>>
  BY DEF PollEnds, Running
<1>1. CASE interrupted /\ ~Found
  BY <1>0, <1>1, ExitKeeps DEF PollEnds, Exits
<1>2. CASE ~(interrupted /\ ~Found)
  <2>1. /\ pc' = "pausing" /\ wait' = Interval
        /\ memo' = [b \in Boards |-> Used(memo[b])] /\ answers' = answers
        /\ lastRead' = IF Found THEN memo[Home].price ELSE lastRead
        /\ IF Found /\ News(memo[Home].price)
           THEN previous' = memo[Home].price /\ lines' = Printed(memo[Home].price)
           ELSE UNCHANGED <<previous, lines>>
    BY <1>2 DEF PollEnds
  <2>2. /\ Parsed' /\ Pinned' /\ Interval' = Interval /\ TTL' = TTL /\ flags' = flags
        /\ Interval \in Nat /\ TTL \in Nat /\ TTL + TTL <= Interval
    BY <1>0, <2>1, SettingsStay DEF IInv
  <2>3. \A b \in Boards :
          /\ memo[b] \in MemoType /\ Used(memo[b]) \in MemoType
          /\ memo'[b] = Used(memo[b])
    BY <2>1, MemoValues DEF IInv, WellTyped
  <2>4. WellTyped'
    BY <1>0, <2>1, <2>2, <2>3 DEF IInv, WellTyped
  <2>5. Aging'
    <3>1. \A b \in Boards : /\ memo'[b].left = memo[b].left /\ memo[b].left \in Nat
                             /\ memo'[b].state = memo[b].state
      <4> TAKE b \in Boards
      <4>1. memo[b].left \in Nat
        BY <2>3 DEF MemoType
      <4>2. memo'[b] = Used(memo[b])
        BY <2>3
      <4> QED
        BY <4>1, <4>2 DEF Used
    <3>2. \A b \in Boards : memo[b].state = "held" => memo[b].left <= TTL
      BY <1>0 DEF IInv, Aging
    <3> QED
      BY <2>1, <2>2, <3>1, <3>2 DEF Aging, Stale
  <2>6. Shown' /\ LinesAreChanges'
    <3>1. CASE ~Found
      BY <2>1, <2>2, <3>1 DEF IInv, Shown, LinesAreChanges
    <3>2. CASE Found
      <4>1. PICK p \in Prices : p = memo[Home].price
        BY <2>3, <3>2, WatchAssumption DEF Found, MemoType
      <4>2. CASE News(p)
        <5>1. previous' = p /\ lastRead' = p /\ lines' = Printed(p)
          BY <2>1, <3>2, <4>1, <4>2
        <5>2. /\ lines' \in Seq(Prices) /\ Len(lines') \in {1, 2}
              /\ lines'[Len(lines')] = p
              /\ Len(lines') = 2 => lines'[1] = previous
          BY <5>1, PrintedLines DEF IInv
        <5>3. Shown'
          BY <5>1, <5>2 DEF Shown
        <5>4. LinesAreChanges'
          BY <2>2, <4>2, <5>1, <5>2 DEF LinesAreChanges, News
        <5> QED BY <5>3, <5>4
      <4>3. CASE ~News(p)
        <5>1. p = previous /\ lastRead' = p /\ UNCHANGED <<previous, lines>>
          BY <2>1, <3>2, <4>1, <4>3 DEF News
        <5>2. lines # <<>>
          BY <4>1, <5>1, WatchAssumption DEF IInv, Shown
        <5> QED
          BY <2>2, <5>1, <5>2 DEF IInv, Shown, LinesAreChanges
      <4> QED BY <4>2, <4>3
    <3> QED BY <3>1, <3>2
  <2>7. PollsIndependent' /\ Untouched'
    BY <2>1 DEF PollsIndependent, Untouched
  <2> QED
    BY <2>2, <2>4, <2>5, <2>6, <2>7 DEF IInv
<1> QED BY <1>1, <1>2

\* The next poll: what the last one has seen is gone.
LEMMA PauseEndsKeeps ==
    ASSUME IInv, PauseEnds
    PROVE  IInv'
<1>1. /\ pc = "pausing" /\ wait = 0 /\ pc' = "polling" /\ Running
      /\ answers' = [b \in Boards |-> "waiting"]
      /\ UNCHANGED <<settings, site, memo, wait, previous, lastRead, lines>>
  BY DEF PauseEnds, Running
<1>2. /\ Parsed' /\ Pinned' /\ Interval' = Interval /\ TTL' = TTL /\ flags' = flags
      /\ Interval \in Nat /\ TTL \in Nat /\ 0 < TTL /\ TTL + TTL <= Interval
  BY <1>1, SettingsStay DEF IInv
<1>3. WellTyped'
  BY <1>1 DEF IInv, WellTyped
<1>4. \A b \in Boards : Stale(b) => memo[b].left = 0
  <2> TAKE b \in Boards
  <2>1. memo[b].left \in Nat
    BY DEF IInv, WellTyped, MemoType
  <2>2. Stale(b) => memo[b].left = 0 \/ memo[b].left + (Interval - 0) <= TTL
    BY <1>1 DEF IInv, Aging
  <2> QED
    BY <1>2, <2>1, <2>2
<1>5. Aging'
  BY <1>1, <1>2, <1>4 DEF IInv, Aging, Stale, Running
<1>6. PollsIndependent' /\ Shown' /\ Untouched' /\ LinesAreChanges'
  BY <1>1, <1>2 DEF IInv, PollsIndependent, Shown, Untouched, LinesAreChanges
<1> QED
  BY <1>2, <1>3, <1>5, <1>6 DEF IInv

\* Nothing of the loop's changes: Ctrl-C, a new price at the site, no step.
LEMMA LoopUnchanged ==
    ASSUME IInv, UNCHANGED <<pc, settings, loop>>, site' \in Prices \cup {NoPrice, Down}
    PROVE  IInv'
<1>1. flags' = flags /\ Parsed' /\ Pinned' /\ Interval' = Interval /\ TTL' = TTL
  BY DEF settings, IInv, Parsed, Pinned, Running, Interval, TTL
<1>2. WellTyped' /\ PollsIndependent' /\ Shown' /\ Untouched' /\ LinesAreChanges'
  BY <1>1 DEF loop, IInv, WellTyped, PollsIndependent, Shown, Untouched, LinesAreChanges
<1>3. Aging'
  BY <1>1 DEF loop, IInv, Aging, Stale, Running
<1> QED
  BY <1>1, <1>2, <1>3 DEF IInv

LEMMA TickKeeps ==
    ASSUME IInv, Tick
    PROVE  IInv'
<1>1. /\ pc = "polling" \/ (pc = "pausing" /\ wait > 0)
      /\ Running
      /\ memo' = [b \in Boards |-> Older(memo[b])]
      /\ wait' = IF wait = 0 THEN 0 ELSE wait - 1
      /\ UNCHANGED <<pc, settings, site, answers, previous, lastRead, lines>>
  BY DEF Tick, Idle, Running
<1>2. /\ Parsed' /\ Pinned' /\ Interval' = Interval /\ TTL' = TTL /\ flags' = flags
      /\ Interval \in Nat /\ TTL \in Nat
  BY <1>1, SettingsStay DEF IInv, Running
<1>3. \A b \in Boards :
        /\ memo[b] \in MemoType /\ memo'[b] = Older(memo[b]) /\ Older(memo[b]) \in MemoType
  BY <1>1, MemoValues DEF IInv, WellTyped
<1>4. wait \in Nat /\ wait' \in Nat /\ (wait > 0 => wait' = wait - 1)
  <2>1. wait \in Nat
    BY DEF IInv, WellTyped
  <2> QED
    BY <1>1, <2>1
<1>5. WellTyped'
  BY <1>1, <1>3, <1>4 DEF IInv, WellTyped
<1>6. \A b \in Boards :
        /\ memo[b].left \in Nat
        /\ memo'[b].left = (IF memo[b].left = 0 THEN 0 ELSE memo[b].left - 1)
        /\ memo'[b].state = memo[b].state /\ memo'[b].fresh = memo[b].fresh
  <2> TAKE b \in Boards
  <2>1. memo[b].left \in Nat
    BY <1>3 DEF MemoType
  <2>2. memo'[b] = Older(memo[b])
    BY <1>3
  <2> QED
    BY <2>1, <2>2 DEF Older
<1>7. \A b \in Boards : Stale(b)' <=> Stale(b)
  BY <1>6 DEF Stale
<1>8. Aging'
  <2>1. \A b \in Boards : memo'[b].state = "held" => memo'[b].left <= TTL
    BY <1>1, <1>2, <1>6 DEF IInv, Aging
  <2>2. pc = "polling" => \A b \in Boards : Stale(b) => memo'[b].left = 0
    BY <1>6 DEF IInv, Aging
  <2>3. CASE pc = "polling"
    BY <1>1, <1>2, <1>7, <2>1, <2>2, <2>3 DEF Aging
  <2>4. CASE pc = "pausing" /\ wait > 0
    <3>1. wait <= Interval /\ wait' <= Interval
      BY <1>2, <1>4, <2>4 DEF IInv, Aging
    <3>2. ASSUME NEW b \in Boards, Stale(b)
          PROVE  memo'[b].left = 0 \/ memo'[b].left + (Interval - wait') <= TTL
      <4>1. memo[b].left = 0 \/ memo[b].left + (Interval - wait) <= TTL
        BY <2>4, <3>2 DEF IInv, Aging
      <4> QED
        BY <1>2, <1>4, <1>6, <2>4, <4>1
    <3> QED
      BY <1>1, <1>2, <1>7, <2>1, <2>4, <3>1, <3>2 DEF Aging
  <2> QED BY <1>1, <2>3, <2>4
<1>9. PollsIndependent' /\ Shown' /\ Untouched' /\ LinesAreChanges'
  BY <1>1, <1>2, <1>6 DEF IInv, PollsIndependent, Shown, Untouched, LinesAreChanges, Running
<1> QED
  BY <1>2, <1>5, <1>8, <1>9 DEF IInv

----------------------------------------------------------------------------
LEMMA StepKeeps == IInv /\ [Next]_vars => IInv'
<1> SUFFICES ASSUME IInv, [Next]_vars PROVE IInv'
  OBVIOUS
<1>1. CASE Parsing
  BY <1>1, ParsingKeeps
<1>2. ASSUME NEW b \in Boards, Lead(b) \/ Answer(b) \/ Abandon(b)
      PROVE  IInv'
  BY <1>2, LeadKeeps, AnswerKeeps, AbandonKeeps
<1>3. CASE PollEnds
  BY <1>3, PollEndsKeeps
<1>4. CASE PauseEnds
  BY <1>4, PauseEndsKeeps
<1>5. CASE Leave
  BY <1>5, ExitKeeps DEF Leave, Exits, Running
<1>6. CASE Tick
  BY <1>6, TickKeeps
<1>7. ASSUME NEW b \in Boards, Publish(b)
      PROVE  IInv'
  <2>1. memo[b].state = "fetching" /\ pc # "exited"
    BY <1>7 DEF Publish
  <2>2. Running
    BY <2>1 DEF IInv, WellTyped, Untouched, Unread, Running
  <2> QED
    BY <1>7, <2>2, PublishKeeps
<1>8. CASE Interrupt \/ SiteChanges \/ UNCHANGED vars
  <2>1. UNCHANGED <<pc, settings, loop>>
    BY <1>8 DEF Interrupt, SiteChanges, vars
  <2>2. site' \in Prices \cup {NoPrice, Down}
    BY <1>8 DEF Interrupt, SiteChanges, vars, IInv, WellTyped
  <2> QED
    BY <2>1, <2>2, LoopUnchanged
<1> QED
  BY <1>1, <1>2, <1>3, <1>4, <1>5, <1>6, <1>7, <1>8 DEF Next, Program, Upstream

LEMMA Inductive == Spec => []IInv
<1> QED
  BY InitHolds, StepKeeps, PTL DEF Spec

\* commands.go:138: half an interval as the cache's lifetime is short enough for
\* every interval the command accepts, and the failures' lifetime with it.
THEOREM Independence == Spec => []PollsIndependent
<1>1. IInv => PollsIndependent
  BY DEF IInv
<1> QED
  BY <1>1, Inductive, PTL

\* The screen shows the last price read, and without --all every line is a change.
THEOREM Changes == Spec => []LinesAreChanges
<1>1. IInv => LinesAreChanges
  BY DEF IInv
<1> QED
  BY <1>1, Inductive, PTL

----------------------------------------------------------------------------
(* How it ends.  Started is told from the flag the loop forgets, so the      *)
(* parser must not leave that one unset.                                     *)

Ending ==
    /\ pc = "parsing" => ~Started
    /\ EndedByUser

LEMMA EndingInit == WatchInit => Ending
<1> SUFFICES ASSUME WatchInit PROVE Ending
  OBVIOUS
<1>1. pc = "parsing" /\ asked \in CommandLines /\ flags = Registered(asked.env)
  BY DEF WatchInit, CommandInit
<1>2. flags["unit"] = EnvString(asked.env, "unit", "raw")
  BY <1>1 DEF Registered, Names
<1>3. flags["unit"] # Unset
  BY <1>2, SettingsAssumption DEF EnvString, Set, Units
<1> QED BY <1>1, <1>3 DEF Ending, EndedByUser, Started

LEMMA EndingKeeps == Ending /\ IInv /\ [Next]_vars => Ending'
<1> SUFFICES ASSUME Ending, IInv, [Next]_vars PROVE Ending'
  OBVIOUS
<1>1. CASE ReadArg
  <2>1. PICK arg \in Arguments : arg = Head(todo)
    BY <1>1, HeadTailProperties DEF ReadArg, IInv, Parsed
  <2>2. /\ pc = "parsing" /\ flags["unit"] # Unset /\ DOMAIN flags = Names
    BY <1>1 DEF ReadArg, Ending, Started, IInv, Parsed
  <2>3. flags' = IF arg.kind = "flag" /\ ~Refuses(arg)
                 THEN [flags EXCEPT ![arg.name] = arg.value] ELSE flags
    BY <1>1, <2>1 DEF ReadArg, Given
  <2>4. arg.kind = "flag" /\ arg.name = "unit" => arg.value \in Units \cup {Malformed}
    BY DEF Arguments, Arg, Word, Help, Unknown
  <2>5. flags'["unit"] # Unset
    <3>1. CASE arg.kind = "flag" /\ arg.name = "unit"
      <4>1. arg.value # Unset
        BY <2>4, <3>1, SettingsAssumption
      <4> QED BY <2>2, <2>3, <3>1, <4>1 DEF Names
    <3>2. CASE ~(arg.kind = "flag" /\ arg.name = "unit")
      BY <2>2, <2>3, <3>2 DEF Names
    <3> QED BY <3>1, <3>2
  <2> QED BY <2>5 DEF Ending, EndedByUser, Started
<1>2. CASE Refuse
  BY <1>2 DEF Refuse, settings, Exits, Ending, EndedByUser, Started
<1>3. CASE pc' \notin {"parsing", "exited"}
  BY <1>3 DEF Ending, EndedByUser
<1>4. CASE PollEnds /\ pc' = "exited"
  BY <1>4 DEF PollEnds, Exits, Ending, EndedByUser
<1>5. CASE Leave
  BY <1>5 DEF Leave, Exits, Ending, EndedByUser
<1>6. CASE UNCHANGED <<pc, settings, exit>> /\ (interrupted => interrupted')
  BY <1>6 DEF settings, Ending, EndedByUser, Started
<1>7. CASE Accept \/ PauseEnds
  BY <1>3, <1>7 DEF Accept, PauseEnds
<1>8. CASE PollEnds
  <2>1. pc' = "exited" \/ pc' = "pausing"
    BY <1>8 DEF PollEnds, Exits
  <2> QED BY <1>3, <1>4, <1>8, <2>1
<1>9. CASE (\E b \in Boards : Lead(b) \/ Answer(b) \/ Abandon(b) \/ Publish(b)) \/ Tick
  <2>1. UNCHANGED <<pc, settings, exit, interrupted>>
    BY <1>9 DEF Lead, Answer, Abandon, Publish, Tick
  <2> QED BY <1>6, <2>1
<1>10. CASE Interrupt \/ SiteChanges \/ UNCHANGED vars
  BY <1>6, <1>10 DEF Interrupt, SiteChanges, vars
<1> QED
  BY <1>1, <1>2, <1>5, <1>7, <1>8, <1>9, <1>10 DEF Next, Program, Parsing, Upstream

\* commands.go:163: once the loop runs, only the user ends it, and that is a success.
\* That it does end then is InterruptEnds.
THEOREM NothingElseEnds == Spec => []EndedByUser
<1>1. Spec => []Ending
  BY EndingInit, EndingKeeps, Inductive, PTL DEF Spec
<1>2. Ending => EndedByUser
  BY DEF Ending
<1> QED BY <1>1, <1>2, PTL

----------------------------------------------------------------------------
(* The command line.  SettingsHonoured is about the whole of it; ReadSoFar   *)
(* says it of the part that has been read.                                   *)

args == asked.args
Position == Len(args) - Len(todo)

Flagged(name, k) == {i \in 1..k : args[i].kind = "flag" /\ args[i].name = name}

\* What the flags and the words of the first k arguments amount to.
FlagsRead(k) ==
    \A n \in Names :
        \/ Flagged(n, k) = {} /\ flags[n] = Registered(asked.env)[n]
        \/ \E m \in Flagged(n, k) :
             flags[n] = args[m].value /\ \A j \in Flagged(n, k) : j <= m

NoWord(k) == \A i \in 1..k : args[i].kind # "word"
OneWord(k) == \E one \in 1..k : \A i \in 1..k : args[i].kind = "word" <=> i = one
TwoWords(k) == \E i, j \in 1..k : i # j /\ args[i].kind = "word" /\ args[j].kind = "word"
WordsRead(k) ==
    \/ words = 0 /\ NoWord(k)
    \/ words = 1 /\ OneWord(k)
    \/ words \in Nat /\ words > 1 /\ TwoWords(k)

NoStop(k) == \A i \in 1..k : ~(args[i].kind = "help" \/ Refuses(args[i]))

ReadSoFar ==
    pc = "parsing" =>
        /\ asked \in CommandLines
        /\ Position \in Nat
        /\ \A i \in 1..Len(todo) : todo[i] = args[Position + i]
        /\ NoStop(Position) /\ FlagsRead(Position) /\ WordsRead(Position)

----------------------------------------------------------------------------
LEMMA LineIsSeq ==
    ASSUME asked \in CommandLines
    PROVE  args \in Seq(Arguments) /\ Len(args) \in Nat /\ DOMAIN args = 1..Len(args)
<1>1. args \in Seq(Arguments)
  BY SettingsAssumption DEF args
<1> QED
  BY <1>1, LenProperties

LEMMA ReadInit == CommandInit => ReadSoFar
<1> SUFFICES ASSUME CommandInit PROVE ReadSoFar
  OBVIOUS
<1>1. /\ asked \in CommandLines /\ todo = args /\ flags = Registered(asked.env) /\ words = 0
  BY DEF CommandInit, args
<1>2. Position = 0 /\ 1..0 = {}
  BY <1>1, LineIsSeq DEF Position
<1>3. \A i \in 1..Len(todo) : todo[i] = args[0 + i]
  BY <1>1, LineIsSeq
<1>4. NoStop(0) /\ FlagsRead(0) /\ WordsRead(0)
  BY <1>1, <1>2 DEF NoStop, FlagsRead, WordsRead, Flagged, NoWord
<1> QED
  BY <1>1, <1>2, <1>3, <1>4 DEF ReadSoFar

\* The next argument is the one at the position after those that have been read.
LEMMA NextArgument ==
    ASSUME ReadSoFar, Parsed, pc = "parsing", todo # <<>>
    PROVE  /\ Position \in Nat /\ Position + 1 \in 1..Len(args)
           /\ Head(todo) = args[Position + 1] /\ Head(todo) \in Arguments
           /\ Len(Tail(todo)) = Len(todo) - 1
           /\ \A i \in 1..Len(Tail(todo)) : Tail(todo)[i] = args[Position + 1 + i]
<1>1. /\ todo \in Seq(Arguments) /\ Len(todo) \in Nat /\ Len(todo) > 0
  BY LenProperties, EmptySeq DEF Parsed
<1>2. Len(args) \in Nat /\ Position \in Nat
  BY LineIsSeq DEF ReadSoFar
<1>3. /\ Head(todo) = todo[1] /\ Head(todo) \in Arguments
      /\ Tail(todo) \in Seq(Arguments) /\ Len(Tail(todo)) = Len(todo) - 1
      /\ \A i \in 1..Len(Tail(todo)) : Tail(todo)[i] = todo[i + 1]
  BY <1>1, HeadTailProperties, ElementOfSeq
<1>4. \A i \in 1..Len(todo) : todo[i] = args[Position + i]
  BY DEF ReadSoFar
<1>5. Position + 1 \in 1..Len(args)
  BY <1>1, <1>2 DEF Position
<1>6. \A i \in 1..Len(Tail(todo)) : Tail(todo)[i] = args[Position + 1 + i]
  <2> TAKE i \in 1..Len(Tail(todo))
  <2>1. i + 1 \in 1..Len(todo) /\ Position + (i + 1) = Position + 1 + i
    BY <1>1, <1>2, <1>3
  <2> QED BY <1>3, <1>4, <2>1
<1>7. Head(todo) = args[Position + 1]
  BY <1>1, <1>3, <1>4
<1> QED BY <1>2, <1>3, <1>5, <1>6, <1>7

\* One more argument.
LEMMA FlagRead ==
    ASSUME NEW k \in Nat, k + 1 \in 1..Len(args), FlagsRead(k),
           args[k + 1] \in Arguments, ~Refuses(args[k + 1]), args' = args, asked' = asked,
           flags' = IF args[k + 1].kind = "flag"
                    THEN [flags EXCEPT ![args[k + 1].name] = args[k + 1].value] ELSE flags,
           DOMAIN flags = Names
    PROVE  FlagsRead(k + 1)'
<1> DEFINE arg == args[k + 1]
<1>1. 1..(k + 1) = (1..k) \cup {k + 1} /\ k + 1 \notin 1..k
  OBVIOUS
<1>2. ASSUME NEW n \in Names
      PROVE  \/ Flagged(n, k + 1)' = {} /\ flags'[n] = Registered(asked.env)[n]
             \/ \E m \in Flagged(n, k + 1)' :
                  flags'[n] = args[m].value /\ \A j \in Flagged(n, k + 1)' : j <= m
  <2>1. CASE arg.kind = "flag" /\ arg.name = n
    <3>1. k + 1 \in Flagged(n, k + 1)' /\ \A j \in Flagged(n, k + 1)' : j <= k + 1
      BY <2>1 DEF Flagged
    <3>2. flags'[n] = arg.value
      BY <2>1
    <3> QED BY <3>1, <3>2
  <2>2. CASE ~(arg.kind = "flag" /\ arg.name = n)
    <3>1. Flagged(n, k + 1)' = Flagged(n, k)
      BY <1>1, <2>2 DEF Flagged
    <3>2. flags'[n] = flags[n]
      BY <2>2
    <3> QED BY <3>1, <3>2 DEF FlagsRead
  <2> QED BY <2>1, <2>2
<1> QED BY <1>2 DEF FlagsRead

LEMMA WordRead ==
    ASSUME NEW k \in Nat, WordsRead(k), args' = args,
           words' = IF args[k + 1].kind = "word" THEN words + 1 ELSE words
    PROVE  WordsRead(k + 1)'
<1>1. 1..(k + 1) = (1..k) \cup {k + 1} /\ k + 1 \notin 1..k
  OBVIOUS
<1>2. CASE args[k + 1].kind # "word"
  <2>1. NoWord(k) => NoWord(k + 1)'
    BY <1>1, <1>2 DEF NoWord
  <2>2. OneWord(k) => OneWord(k + 1)'
    BY <1>1, <1>2 DEF OneWord
  <2>3. TwoWords(k) => TwoWords(k + 1)'
    BY <1>1 DEF TwoWords
  <2> QED BY <1>2, <2>1, <2>2, <2>3 DEF WordsRead
<1>3. CASE args[k + 1].kind = "word"
  <2>1. NoWord(k) => OneWord(k + 1)'
    BY <1>1, <1>3 DEF NoWord, OneWord
  <2>2. OneWord(k) => TwoWords(k + 1)'
    BY <1>1, <1>3 DEF OneWord, TwoWords
  <2>3. TwoWords(k) => TwoWords(k + 1)'
    BY <1>1 DEF TwoWords
  <2> QED BY <1>3, <2>1, <2>2, <2>3 DEF WordsRead
<1> QED BY <1>2, <1>3

LEMMA ReadKeeps ==
    ASSUME ReadSoFar, Parsed, ReadArg
    PROVE  ReadSoFar'
<1> SUFFICES ASSUME pc' = "parsing" PROVE ReadSoFar'
  BY DEF ReadSoFar
<1>1. pc = "parsing" /\ todo # <<>> /\ asked' = asked /\ todo' = Tail(todo)
  BY DEF ReadArg
<1>2. PICK k \in Nat : k = Position
  BY <1>1, NextArgument
<1> DEFINE arg == args[k + 1]
<1>3. /\ k + 1 \in 1..Len(args) /\ Head(todo) = arg /\ arg \in Arguments
      /\ Len(Tail(todo)) = Len(todo) - 1
      /\ \A i \in 1..Len(Tail(todo)) : Tail(todo)[i] = args[k + 1 + i]
  BY <1>1, <1>2, NextArgument
<1>4. /\ args' = args /\ asked \in CommandLines
      /\ NoStop(k) /\ FlagsRead(k) /\ WordsRead(k) /\ DOMAIN flags = Names
  BY <1>1, <1>2 DEF args, ReadSoFar, Parsed
<1>5. ~Refuses(arg) /\ arg.kind # "help"
  BY <1>3 DEF ReadArg, Exits
<1>6. /\ flags' = IF arg.kind = "flag" THEN [flags EXCEPT ![arg.name] = arg.value] ELSE flags
      /\ words' = IF arg.kind = "word" THEN words + 1 ELSE words
  BY <1>3, <1>5 DEF ReadArg, Given
<1>7. Position' = k + 1
  <2>1. Len(args) \in Nat /\ Len(todo) \in Nat
    BY <1>4, LineIsSeq, LenProperties DEF Parsed
  <2> QED BY <1>1, <1>2, <1>3, <1>4, <2>1 DEF Position
<1>8. NoStop(k + 1)'
  <2>1. \A i \in 1..(k + 1) : i \in 1..k \/ i = k + 1
    OBVIOUS
  <2> QED BY <1>4, <1>5, <2>1 DEF NoStop, Refuses
<1>9. FlagsRead(k + 1)' /\ WordsRead(k + 1)'
  BY <1>1, <1>3, <1>4, <1>5, <1>6, FlagRead, WordRead
<1>10. asked' \in CommandLines /\ Position' \in Nat
  BY <1>1, <1>4, <1>7
<1>11. \A i \in 1..Len(todo') : todo'[i] = args'[Position' + i]
  BY <1>1, <1>3, <1>4, <1>7
<1>12. NoStop(Position)' /\ FlagsRead(Position)' /\ WordsRead(Position)'
  BY <1>7, <1>8, <1>9 DEF NoStop, FlagsRead, Flagged, WordsRead, NoWord, OneWord, TwoWords
<1> QED
  BY <1>10, <1>11, <1>12 DEF ReadSoFar

LEMMA ReadStays == ReadSoFar /\ IInv /\ [Next]_vars => ReadSoFar'
<1> SUFFICES ASSUME ReadSoFar, IInv, [Next]_vars PROVE ReadSoFar'
  OBVIOUS
<1>1. CASE ReadArg
  BY <1>1, ReadKeeps DEF IInv
<1>2. CASE pc' # "parsing"
  BY <1>2 DEF ReadSoFar
<1>3. CASE UNCHANGED <<pc, settings>>
  <2>1. /\ pc' = pc /\ asked' = asked /\ todo' = todo /\ flags' = flags /\ words' = words
    BY <1>3 DEF settings
  <2>2. Position' = Position /\ args' = args
    BY <2>1 DEF Position, args
  <2> QED
    BY <2>1, <2>2 DEF ReadSoFar, NoStop, Refuses, FlagsRead, Flagged, WordsRead, NoWord, OneWord,
                       TwoWords
<1>4. ReadArg \/ pc' # "parsing" \/ UNCHANGED <<pc, settings>>
  BY DEF Next, Program, Parsing, Refuse, Accept, Exits, Lead, Answer, Abandon, PollEnds, PauseEnds,
         Leave, Upstream, Tick, Publish, Interrupt, SiteChanges, vars
<1> QED BY <1>1, <1>2, <1>3, <1>4

----------------------------------------------------------------------------
(* What the whole line wants. *)

LEMMA WantedIsRead ==
    ASSUME asked \in CommandLines, FlagsRead(Len(args)), NEW n \in Names
    PROVE  Wanted(n) = flags[n]
<1>1. Typed(n) = Flagged(n, Len(args))
  BY LineIsSeq DEF Typed, Flagged, args
<1>2. CASE Typed(n) = {}
  BY <1>1, <1>2 DEF Wanted, FlagsRead
<1>3. CASE Typed(n) # {}
  <2>1. PICK m \in Typed(n) : flags[n] = args[m].value /\ \A j \in Typed(n) : j <= m
    BY <1>1, <1>3 DEF FlagsRead
  <2>2. \A i \in Typed(n) : i \in Nat
    BY <1>1, LineIsSeq DEF Flagged
  <2>3. \A i \in Typed(n) : (\A j \in Typed(n) : j <= i) => i = m
    BY <2>1, <2>2
  <2>4. (CHOOSE i \in Typed(n) : \A j \in Typed(n) : j <= i) = m
    BY <2>1, <2>3
  <2> QED BY <1>3, <2>1, <2>4 DEF Wanted, args
<1> QED BY <1>2, <1>3

LEMMA FirstStopIs ==
    ASSUME asked \in CommandLines, NEW k \in Nat, k + 1 \in 1..Len(args), NoStop(k),
           args[k + 1].kind = "help" \/ Refuses(args[k + 1])
    PROVE  Stops # {} /\ FirstStop = args[k + 1]
<1>1. k + 1 \in Stops /\ \A i \in Stops : i \in Nat /\ i >= 1
  BY LineIsSeq DEF Stops, args
<1>2. \A i \in Stops : k + 1 <= i
  <2> TAKE i \in Stops
  <2>1. i \notin 1..k
    BY DEF NoStop, Stops, args
  <2> QED BY <1>1, <2>1
<1>3. \A i \in Stops : (\A j \in Stops : i <= j) => i = k + 1
  BY <1>1, <1>2
<1>4. (CHOOSE i \in Stops : \A j \in Stops : i <= j) = k + 1
  BY <1>1, <1>2, <1>3
<1> QED BY <1>1, <1>4 DEF FirstStop, args

Fine ==
    /\ \E one \in DOMAIN asked.args :
         \A i \in DOMAIN asked.args : asked.args[i].kind = "word" <=> i = one
    /\ Wanted("unit") \in Units
    /\ Wanted("interval") >= MinInterval

LEMMA FineIsAcceptable ==
    ASSUME ReadSoFar, Parsed, pc = "parsing", todo = <<>>
    PROVE  /\ Stops = {} /\ (Fine <=> Acceptable)
           /\ \A n \in Names : Wanted(n) = flags[n]
<1>1. asked \in CommandLines /\ Len(args) \in Nat /\ DOMAIN args = 1..Len(args)
  BY LineIsSeq DEF ReadSoFar
<1>2. Position = Len(args)
  BY <1>1 DEF Position
<1>3. NoStop(Len(args)) /\ FlagsRead(Len(args)) /\ WordsRead(Len(args))
  BY <1>2 DEF ReadSoFar
<1>4. Stops = {}
  BY <1>1, <1>3 DEF Stops, NoStop, args
<1>5. \A n \in Names : Wanted(n) = flags[n]
  BY <1>1, <1>3, WantedIsRead
<1>6. words = 1 <=> OneWord(Len(args))
  BY <1>3 DEF WordsRead, NoWord, OneWord, TwoWords
<1>7. Fine <=> Acceptable
  <2>1. Wanted("unit") = flags["unit"] /\ Wanted("interval") = flags["interval"]
    BY <1>5 DEF Names
  <2>2. (\E one \in DOMAIN asked.args :
           \A i \in DOMAIN asked.args : asked.args[i].kind = "word" <=> i = one)
        <=> OneWord(Len(args))
    BY <1>1 DEF OneWord, args
  <2> QED BY <1>6, <2>1, <2>2 DEF Fine, Acceptable
<1> QED BY <1>4, <1>5, <1>7

\* The end of the parsing, whichever way.
LEMMA SettlesRight ==
    ASSUME ReadSoFar, Parsed, pc = "parsing", pc' # "parsing", [Next]_vars
    PROVE  IF Stops # {}
           THEN pc' = "exited" /\ exit' = IF FirstStop.kind = "help" THEN 0 ELSE 2
           ELSE IF Fine
                THEN /\ pc' = "polling"
                     /\ \A n \in {"interval", "all"} : flags'[n] = Wanted(n)
                     /\ 2 * client'.cacheTTL \in (flags'["interval"] - 1)..flags'["interval"]
                ELSE pc' = "exited" /\ exit' = 2
<1>1. CASE ReadArg
  <2>1. PICK k \in Nat : k = Position
    BY <1>1, NextArgument DEF ReadArg
  <2>2. /\ k + 1 \in 1..Len(args) /\ Head(todo) = args[k + 1] /\ asked \in CommandLines
        /\ NoStop(k)
    BY <1>1, <2>1, NextArgument DEF ReadArg, ReadSoFar
  <2>3. args[k + 1].kind = "help" \/ Refuses(args[k + 1])
    BY <1>1, <2>2 DEF ReadArg
  <2>4. Stops # {} /\ FirstStop = args[k + 1]
    BY <2>2, <2>3, FirstStopIs
  <2>5. pc' = "exited" /\ exit' = IF Refuses(args[k + 1]) THEN 2 ELSE 0
    BY <1>1, <2>2, <2>3 DEF ReadArg, Exits
  <2>6. Refuses(args[k + 1]) => args[k + 1].kind # "help"
    BY DEF Refuses
  <2> QED BY <2>3, <2>4, <2>5, <2>6
<1>2. CASE Refuse
  <2>1. todo = <<>> /\ ~Acceptable /\ pc' = "exited" /\ exit' = 2
    BY <1>2 DEF Refuse, Exits
  <2> QED BY <2>1, FineIsAcceptable
<1>3. CASE Accept
  <2>1. /\ todo = <<>> /\ Acceptable /\ pc' = "polling" /\ client' = Client(flags)
        /\ flags' = [flags EXCEPT !["cache-ttl"] = Unset, !["unit"] = Unset]
    BY <1>3 DEF Accept
  <2>2. Stops = {} /\ Fine /\ \A n \in Names : Wanted(n) = flags[n]
    BY <2>1, FineIsAcceptable
  <2>3. DOMAIN flags = Names /\ flags["interval"] \in Int /\ flags["interval"] >= MinInterval
    BY <2>1 DEF Parsed, Acceptable
  <2>4. \A n \in {"interval", "all"} : flags'[n] = flags[n] /\ n \in Names
    BY <2>1, <2>3 DEF Names
  <2>5. /\ Client(flags).cacheTTL \in Nat
        /\ Client(flags).cacheTTL + Client(flags).cacheTTL
             \in {flags["interval"] - 1, flags["interval"]}
    BY <2>3, ClientIsPinned
  <2>6. 2 * client'.cacheTTL \in (flags'["interval"] - 1)..flags'["interval"]
    BY <2>1, <2>3, <2>4, <2>5
  <2> QED BY <2>1, <2>2, <2>4, <2>6
<1>4. ReadArg \/ Refuse \/ Accept
  BY DEF Next, Program, Parsing, Lead, Answer, Abandon, Waiting, PollEnds, PauseEnds,
         Leave, Upstream, Tick, Publish, Interrupt, SiteChanges, vars
<1> QED BY <1>1, <1>2, <1>3, <1>4

\* main.go:13, "The flag wins when both are set": for every order of flags and words,
\* however often repeated, and whatever the environment holds.
THEOREM Settled == Spec => SettingsHonoured
<1>1. WatchInit => ReadSoFar
  BY ReadInit DEF WatchInit
<1>2. Spec => []ReadSoFar
  BY <1>1, ReadStays, Inductive, PTL DEF Spec
<1>3. ReadSoFar /\ IInv /\ [Next]_vars =>
        [pc = "parsing" /\ pc' # "parsing" =>
           IF Stops # {}
           THEN pc' = "exited" /\ exit' = IF FirstStop.kind = "help" THEN 0 ELSE 2
           ELSE IF Fine
                THEN /\ pc' = "polling"
                     /\ \A n \in {"interval", "all"} : flags'[n] = Wanted(n)
                     /\ 2 * client'.cacheTTL \in (flags'["interval"] - 1)..flags'["interval"]
                ELSE pc' = "exited" /\ exit' = 2]_<<pc, settings, exit>>
  BY SettlesRight DEF IInv
<1> QED
  BY <1>2, <1>3, Inductive, PTL DEF Spec, SettingsHonoured, Fine
=============================================================================
