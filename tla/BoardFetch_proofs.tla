-------------------------- MODULE BoardFetch_proofs --------------------------
(***************************************************************************)
(* For every policy, deadline and site: one load stays within its timeout, *)
(* counts its requests and spaces them, gives up early only for its        *)
(* context, and the error it leaves behind judges the failure as the loop  *)
(* did.                                                                    *)
(*                                                                         *)
(* None of the five is inductive.  Counted ties attempt, which runs ahead  *)
(* of the requests during a pause, to sent; Pausing remembers that a loop  *)
(* sleeps only after a try worth repeating; Ended is what the result says  *)
(* of the last try once the loop is over.  Spacing, at the end, ties the   *)
(* doubled pause to the number of the request and to its timer.            *)
(***************************************************************************)
EXTENDS BoardFetch, WellFoundedInduction, TLAPS

InTime == now <= Timeout /\ (ctxErr = "nil" => now < Timeout)

Counted ==
    /\ pc \in {"trying", "parsing"} => sent = attempt
    /\ pc = "sleeping" => sent = attempt - 1

Pausing == pc = "sleeping" => Retryable(lastTry)

Ended ==
    pc = "done" /\ result.op = "fetch" =>
        /\ result.attempts = sent
        /\ Retryable(lastTry) /\ sent < Attempts => ctxErr # "nil" /\ Is(result, ctxErr)
        /\ lastTry.status # 408 => (Temporary(result) <=> Retryable(lastTry))

IInv == TypeOK /\ InTime /\ Counted /\ Pausing /\ Ended

----------------------------------------------------------------------------
(* What the policy and the operators of the loop return. *)

LEMMA AttemptsRange == Attempts \in Nat \ {0}
BY PolicyAssumption DEF Attempts

LEMMA DoubledRange ==
    ASSUME NEW d \in Nat
    PROVE  Doubled(d) \in Nat
BY PolicyAssumption DEF Doubled

\* A try is typed, never fails in the parser, and is too large only with a 200.
LEMMA TriesAreTries ==
    ASSUME TypeOK, NEW t \in TryResults
    PROVE  /\ t \in TryType
           /\ "ErrParse" \notin t.wraps /\ "ErrUnknownMarket" \notin t.wraps
           /\ "ErrTooLarge" \in t.wraps => t.status = 200
<1>1. \A cause \in Causes : cause \in SUBSET ContextErrors
  BY DEF Causes, TypeOK, CtxErrs
<1>2. \A s \in Statuses : s \in Nat
  BY PolicyAssumption
<1>3. CASE t = Page
  BY <1>3 DEF Page, TryType
<1>4. CASE t = TooLarge
  BY <1>4 DEF TooLarge, TryType, Sentinels
<1>5. CASE \E s \in Statuses : t = Refused(s)
  BY <1>2, <1>5 DEF Refused, TryType, Sentinels
<1>6. CASE \E cause \in Causes : t = NoResponse(cause)
  BY <1>1, <1>6 DEF NoResponse, TryType, Sentinels, ContextErrors
<1>7. CASE \E cause \in Causes : t = CutBody(cause)
  BY <1>1, <1>7 DEF CutBody, TryType, Sentinels, ContextErrors
<1> QED
  BY <1>3, <1>4, <1>5, <1>6, <1>7 DEF TryResults

\* What the loop made of a status is what Temporary makes of it, but for 408.
LEMMA JudgesAlike ==
    ASSUME TypeOK, NEW t \in TryResults, t.status # 408, NEW n \in Nat
    PROVE  Temporary(Failed(t.status, n, t.wraps)) <=> Retryable(t)
<1>1. /\ t.status \in Nat
      /\ "ErrParse" \notin t.wraps /\ "ErrUnknownMarket" \notin t.wraps
      /\ "ErrTooLarge" \in t.wraps => t.status = 200
  BY TriesAreTries DEF TryType
<1> QED
  BY <1>1 DEF Temporary, Is, Failed, Rich, Retryable

\* An error of the loop's own context always asks to be tried again.
LEMMA ContextIsTemporary ==
    ASSUME NEW e \in ContextErrors, NEW n \in Nat, NEW s \in {0, 429} \cup {k \in Nat : k >= 500}
    PROVE  Temporary(Failed(s, n, {"ErrRequest", e}))
BY DEF Temporary, Is, Failed, Rich, ContextErrors

LEMMA FailedType ==
    ASSUME NEW s \in Nat, NEW n \in Nat, NEW w \in SUBSET (Sentinels \cup ContextErrors)
    PROVE  /\ Failed(s, n, w) \in ResultType
           /\ Failed(s, n, w).op = "fetch"
           /\ Failed(s, n, w).attempts = n
           /\ Failed(s, n, w).wraps = w
BY DEF Failed, Rich, ResultType

----------------------------------------------------------------------------
LEMMA InitHolds == Init => IInv
<1> SUFFICES ASSUME Init PROVE IInv
  OBVIOUS
<1>1. TypeOK
  <2>1. result \in ResultType
    BY DEF Init, NoResult, ResultType
  <2>2. lastTry \in TryType
    BY DEF Init, NoTry, TryType
  <2> QED
    BY <2>1, <2>2, AttemptsRange, PolicyAssumption DEF Init, TypeOK, CtxErrs
<1>2. InTime /\ Counted /\ Pausing /\ Ended
  BY PolicyAssumption DEF Init, InTime, Counted, Pausing, Ended
<1> QED
  BY <1>1, <1>2 DEF IInv

\* One try has ended, case by case of the code.
LEMMA TryKeeps ==
    ASSUME IInv, NEW t \in TryResults, TryEnds(t)
    PROVE  IInv'
<1> USE DEF IInv
<1>1. /\ t \in TryType /\ t.status \in Nat
      /\ t.wraps \in SUBSET (Sentinels \cup ContextErrors)
  BY TriesAreTries DEF TryType
<1>2. /\ pc = "trying" /\ lastTry' = t /\ lastEnd' = now
      /\ UNCHANGED <<now, ctxErr, backoff, sent>>
      /\ sent = attempt /\ attempt \in 1..Attempts /\ attempt \in Nat
  BY AttemptsRange DEF TryEnds, TypeOK, Counted
<1>3. now' \in Nat /\ ctxErr' \in CtxErrs /\ backoff' \in Nat /\ sent' \in 1..Attempts
      /\ lastTry' \in TryType /\ lastEnd' \in Nat /\ InTime'
  BY <1>1, <1>2 DEF TypeOK, InTime
<1>4. CASE t = Page
  <2>1. pc' = "parsing" /\ UNCHANGED <<attempt, wake, result>>
    BY <1>4 DEF TryEnds
  <2> QED
    BY <1>2, <1>3, <2>1 DEF TypeOK, Counted, Pausing, Ended
<1>5. CASE t # Page /\ ~Retryable(t)
  <2>1. pc' = "done" /\ result' = Failed(t.status, attempt, t.wraps)
        /\ UNCHANGED <<attempt, wake>>
    BY <1>5 DEF TryEnds, Return
  <2>2. result' \in ResultType /\ result'.attempts = sent'
    BY <1>1, <1>2, <2>1, FailedType
  <2>3. t.status # 408 => (Temporary(result') <=> Retryable(t))
    BY <1>2, <2>1, JudgesAlike
  <2>4. Ended'
    BY <1>2, <1>5, <2>1, <2>2, <2>3 DEF Ended
  <2> QED
    BY <1>2, <1>3, <2>1, <2>2, <2>4 DEF TypeOK, Counted, Pausing
<1>6. CASE t # Page /\ Retryable(t) /\ ctxErr # "nil"
  <2>1. pc' = "done" /\ result' = Failed(t.status, attempt, {"ErrRequest", ctxErr})
        /\ UNCHANGED <<attempt, wake>>
    BY <1>6 DEF TryEnds, Return
  <2>2. ctxErr \in ContextErrors
    BY <1>6 DEF TypeOK, CtxErrs
  <2>3. {"ErrRequest", ctxErr} \in SUBSET (Sentinels \cup ContextErrors)
    BY <2>2 DEF Sentinels
  <2>4. result' \in ResultType /\ result'.attempts = sent' /\ ctxErr \in result'.wraps
    BY <1>1, <1>2, <2>1, <2>3, FailedType
  <2>5. t.status # 408 => Temporary(result')
    <3>1. t.status # 408 => t.status \in {0, 429} \cup {k \in Nat : k >= 500}
      BY <1>1, <1>6 DEF Retryable
    <3> QED
      BY <1>2, <2>1, <2>2, <3>1, ContextIsTemporary
  <2>6. Ended'
    BY <1>2, <1>6, <2>1, <2>4, <2>5 DEF Ended, Is
  <2> QED
    BY <1>2, <1>3, <2>1, <2>4, <2>6 DEF TypeOK, Counted, Pausing
<1>7. CASE t # Page /\ Retryable(t) /\ ctxErr = "nil"
  <2>1. CASE Exhausted
    <3>1. pc' = "done" /\ result' = Failed(t.status, Attempts, t.wraps)
          /\ UNCHANGED <<attempt, wake>> /\ attempt = Attempts
      BY <1>7, <2>1 DEF TryEnds, Return, Exhausted
    <3>2. result' \in ResultType /\ result'.attempts = sent'
      BY <1>1, <1>2, <3>1, FailedType
    <3>3. t.status # 408 => (Temporary(result') <=> Retryable(t))
      BY <1>2, <3>1, JudgesAlike
    <3>4. Ended'
      BY <1>2, <3>1, <3>2, <3>3 DEF Ended
    <3> QED
      BY <1>2, <1>3, <3>1, <3>2, <3>4 DEF TypeOK, Counted, Pausing
  <2>2. CASE ~Exhausted
    <3>1. pc' = "sleeping" /\ attempt' = attempt + 1 /\ wake' = now + backoff
          /\ result' = result /\ attempt # Attempts
      BY <1>7, <2>2 DEF TryEnds, Exhausted
    <3>2. attempt' \in 1..Attempts /\ wake' \in Nat
      BY <1>2, <3>1, AttemptsRange DEF TypeOK
    <3> QED
      BY <1>2, <1>3, <1>7, <3>1, <3>2 DEF TypeOK, Counted, Pausing, Ended, Retryable
  <2> QED
    BY <2>1, <2>2
<1> QED
  BY <1>4, <1>5, <1>6, <1>7

LEMMA ResumeKeeps ==
    ASSUME IInv, Resume
    PROVE  IInv'
<1>1. /\ pc = "sleeping" /\ pc' = "trying" /\ backoff' = Doubled(backoff)
      /\ sent' = sent + 1 /\ sent = attempt - 1
      /\ UNCHANGED <<now, ctxErr, attempt, wake, result, lastTry, lastEnd>>
  BY DEF Resume, IInv, Counted
<1>2. backoff' \in Nat /\ sent' \in 1..Attempts
  BY <1>1, DoubledRange, AttemptsRange DEF IInv, TypeOK
<1> QED
  BY <1>1, <1>2, AttemptsRange DEF IInv, TypeOK, InTime, Counted, Pausing, Ended

LEMMA CutKeeps ==
    ASSUME IInv, SleepCut
    PROVE  IInv'
<1>1. PICK e \in SleepResults \ {"nil"} : Return(Cut(e))
  BY DEF SleepCut
<1>2. /\ pc = "sleeping" /\ pc' = "done"
      /\ result' = Failed(0, attempt - 1, {"ErrRequest", e})
      /\ UNCHANGED <<now, ctxErr, attempt, backoff, wake, sent, lastTry, lastEnd>>
  BY <1>1 DEF SleepCut, Return, Cut
<1>3. e = ctxErr /\ ctxErr # "nil" /\ e \in ContextErrors
  BY <1>1 DEF SleepResults, IInv, TypeOK, CtxErrs
<1>4. sent = attempt - 1 /\ attempt - 1 \in Nat /\ Retryable(lastTry)
  BY <1>2, AttemptsRange DEF IInv, TypeOK, Counted, Pausing
<1>5. {"ErrRequest", e} \in SUBSET (Sentinels \cup ContextErrors)
  BY <1>3 DEF Sentinels
<1>6. result' \in ResultType /\ result'.attempts = sent' /\ e \in result'.wraps
  BY <1>2, <1>4, <1>5, FailedType
<1>7. Temporary(result')
  BY <1>2, <1>3, <1>4, ContextIsTemporary
<1>8. Ended'
  BY <1>2, <1>3, <1>4, <1>6, <1>7 DEF Ended, Is, Retryable
<1> QED
  BY <1>2, <1>6, <1>8 DEF IInv, TypeOK, InTime, Counted, Pausing

LEMMA ParseKeeps ==
    ASSUME IInv, Parse
    PROVE  IInv'
<1>1. /\ pc = "parsing" /\ pc' = "done"
      /\ UNCHANGED <<now, ctxErr, attempt, backoff, wake, sent, lastTry, lastEnd>>
  BY DEF Parse, Return
<1>2. result' \in ResultType /\ result'.op # "fetch"
  <2>1. \/ result' = Snapshot
        \/ result' = Rich("parse", 0, 0, {"ErrParse"})
        \/ result' = Rich("parse", 0, 0, {"ErrEmpty"})
    BY DEF Parse, Return
  <2>2. CASE result' = Snapshot
    BY <2>2 DEF Snapshot, ResultType
  <2>3. ASSUME NEW w \in {{"ErrParse"}, {"ErrEmpty"}}, result' = Rich("parse", 0, 0, w)
        PROVE  result' \in ResultType /\ result'.op # "fetch"
    BY <2>3 DEF Rich, ResultType, Sentinels
  <2> QED
    BY <2>1, <2>2, <2>3
<1> QED
  BY <1>1, <1>2 DEF IInv, TypeOK, InTime, Counted, Pausing, Ended

\* The context ends, or time passes: the loop is where it was.
LEMMA CancelKeeps ==
    ASSUME IInv, Cancel
    PROVE  IInv'
<1>1. /\ pc # "done" /\ ctxErr' = "Canceled"
      /\ UNCHANGED <<now, pc, attempt, backoff, wake, result, sent, lastTry, lastEnd>>
  BY DEF Cancel
<1> QED
  BY <1>1 DEF IInv, TypeOK, CtxErrs, ContextErrors, InTime, Counted, Pausing, Ended, Retryable

LEMMA TickKeeps ==
    ASSUME IInv, Tick
    PROVE  IInv'
<1>1. /\ pc # "done" /\ now' = now + 1
      /\ ctxErr' = IF ctxErr = "nil" /\ now' >= Timeout THEN "DeadlineExceeded" ELSE ctxErr
      /\ UNCHANGED <<pc, attempt, backoff, wake, result, sent, lastTry, lastEnd>>
  BY DEF Tick
<1>2. ctxErr = "nil"
  BY DEF Tick, SleepResults
<1>3. now' \in Nat /\ ctxErr' \in CtxErrs /\ InTime'
  BY <1>1, <1>2, PolicyAssumption DEF IInv, TypeOK, InTime, CtxErrs, ContextErrors
<1> QED
  BY <1>1, <1>3 DEF IInv, TypeOK, Counted, Pausing, Ended, Retryable

LEMMA StepKeeps == IInv /\ [Next]_vars => IInv'
<1> SUFFICES ASSUME IInv, [Next]_vars PROVE IInv'
  OBVIOUS
<1>1. ASSUME NEW t \in TryResults, TryEnds(t) PROVE IInv'
  BY <1>1, TryKeeps
<1>2. CASE UNCHANGED vars
  BY <1>2 DEF vars, IInv, TypeOK, InTime, Counted, Pausing, Ended, Retryable
<1> QED
  BY <1>1, <1>2, ResumeKeeps, CutKeeps, ParseKeeps, CancelKeeps, TickKeeps DEF Next

LEMMA Inductive == Spec => []IInv
BY InitHolds, StepKeeps, PTL DEF Spec

----------------------------------------------------------------------------
\* The variables of the loop keep their types, the attempts their bound.
THEOREM TypeCorrect == Spec => []TypeOK
<1>1. IInv => TypeOK
  BY DEF IInv
<1> QED BY <1>1, Inductive, PTL

\* Client.load: requests and pauses together never outlive the one deadline.
THEOREM Bounded == Spec => []WithinTimeout
<1>1. IInv => WithinTimeout
  BY DEF IInv, InTime, WithinTimeout
<1> QED BY <1>1, Inductive, PTL

\* Client.get: Error.Attempts is the number of requests that went out.
THEOREM Counting == Spec => []AttemptsCounted
<1>1. IInv => AttemptsCounted
  BY AttemptsRange DEF IInv, TypeOK, Ended, AttemptsCounted
<1> QED BY <1>1, Inductive, PTL

\* Client.get: a failure worth repeating is given up early only because the
\* context ended, and the error says so.
THEOREM Persistence == Spec => []RetriesExhausted
<1>1. IInv => RetriesExhausted
  BY DEF IInv, Ended, RetriesExhausted
<1> QED BY <1>1, Inductive, PTL

\* retryable of transport.go and Temporary of errors.go agree on every failure
\* of the loop but a 408.
THEOREM Agreement == Spec => []JudgedAlike
<1>1. IInv => JudgedAlike
  BY DEF IInv, Ended, JudgedAlike
<1> QED BY <1>1, Inductive, PTL

----------------------------------------------------------------------------
(* The powers of two of the pauses.  A function by recursion exists because  *)
(* its beginnings do, and every one of those because none is the first       *)
(* without.                                                                  *)

LEMMA Least ==
    ASSUME NEW T, T \subseteq Nat, T # {}
    PROVE  \E x \in T : \A y \in T : x <= y
<1> DEFINE R == {ss \in Nat \X Nat : ss[1] < ss[2]}
<1>1. IsWellFoundedOn(R, Nat)
  BY NatLessThanWellFounded DEF OpToRel
<1>2. \A x, y \in Nat : <<y, x>> \in R <=> y < x
  OBVIOUS
<1> HIDE DEF R
<1>3. PICK x \in T : \A y \in T : ~(<<y, x>> \in R)
  BY <1>1, WFMin
<1>4. \A y \in T : x <= y
  <2> TAKE y \in T
  <2>1. x \in Nat /\ y \in Nat
    OBVIOUS
  <2>2. ~(y < x)
    BY <1>2, <1>3, <2>1, Zenon
  <2> QED BY <2>1, <2>2
<1> QED BY <1>4

\* The first n + 1 powers.
Powers(n) == {g \in [0..n -> Nat] : g[0] = 1 /\ \A i \in 1..n : g[i] = 2 * g[i - 1]}

LEMMA PowersExist == \A n \in Nat : Powers(n) # {}
<1> DEFINE T == {n \in Nat : Powers(n) = {}}
<1> SUFFICES ASSUME T # {} PROVE FALSE
  OBVIOUS
<1>1. PICK n \in T : \A m \in T : n <= m
  BY Least
<1>2. CASE n = 0
  <2>1. [i \in 0..0 |-> 1] \in Powers(0)
    BY DEF Powers
  <2> QED BY <1>2, <2>1
<1>3. CASE n # 0
  <2>1. n \in Nat /\ n - 1 \in Nat /\ ~(n <= n - 1)
    BY <1>3
  <2>2. PICK g \in [0..(n - 1) -> Nat] :
          g[0] = 1 /\ \A i \in 1..(n - 1) : g[i] = 2 * g[i - 1]
    BY <1>1, <2>1 DEF Powers
  <2> DEFINE h == [i \in 0..n |-> IF i = n THEN 2 * g[n - 1] ELSE g[i]]
  <2>3. h \in [0..n -> Nat]
    BY <2>1
  <2>4. h[0] = 1
    BY <1>3, <2>1, <2>2
  <2>5. ASSUME NEW i \in 1..n PROVE h[i] = 2 * h[i - 1]
    <3>1. CASE i = n
      BY <2>1, <3>1
    <3>2. CASE i # n
      BY <2>1, <2>2, <3>2
    <3> QED BY <3>1, <3>2
  <2>6. h \in Powers(n)
    BY <2>3, <2>4, <2>5 DEF Powers
  <2> QED BY <2>6
<1> QED BY <1>2, <1>3

LEMMA PowersAgree ==
    ASSUME NEW m \in Nat, NEW n \in Nat, m <= n,
           NEW g \in Powers(m), NEW h \in Powers(n), NEW k \in 0..m
    PROVE  g[k] = h[k]
<1> DEFINE T == {i \in 0..m : g[i] # h[i]}
<1> SUFFICES ASSUME T # {} PROVE FALSE
  OBVIOUS
<1>0. T \subseteq Nat
  OBVIOUS
<1>1. PICK i \in T : \A j \in T : i <= j
  BY <1>0, Least
<1>2. i # 0
  BY DEF Powers
<1>3. i - 1 \in 0..m /\ i \in 1..m /\ i \in 1..n /\ ~(i <= i - 1)
  BY <1>2
<1>4. g[i - 1] = h[i - 1]
  BY <1>1, <1>3
<1> QED BY <1>3, <1>4 DEF Powers

LEMMA TwoToUnfolds ==
    /\ TwoTo[0] = 1
    /\ \A n \in Nat : TwoTo[n] \in Nat /\ TwoTo[n + 1] = 2 * TwoTo[n]
<1> DEFINE f == [n \in Nat |-> (CHOOSE g \in Powers(n) : TRUE)[n]]
<1>1. ASSUME NEW n \in Nat, NEW g \in Powers(n) PROVE f[n] = g[n]
  <2>1. (CHOOSE h \in Powers(n) : TRUE) \in Powers(n)
    BY PowersExist
  <2> QED BY <2>1, PowersAgree
<1>2. f[0] = 1
  <2>1. PICK g : g \in Powers(0)
    BY PowersExist
  <2> QED BY <1>1, <2>1 DEF Powers
<1>3. ASSUME NEW n \in Nat PROVE f[n] \in Nat /\ f[n + 1] = 2 * f[n]
  <2>1. PICK g : g \in Powers(n + 1)
    BY PowersExist
  <2>2. f[n + 1] = g[n + 1]
    BY <1>1, <2>1
  <2>3. PICK h : h \in Powers(n)
    BY PowersExist
  <2>4. f[n] = h[n] /\ h[n] = g[n]
    BY <1>1, <2>1, <2>3, PowersAgree
  <2>5. g \in [0..(n + 1) -> Nat] /\ g[n + 1] = 2 * g[(n + 1) - 1]
    BY <2>1 DEF Powers
  <2>6. (n + 1) - 1 = n /\ n \in 0..(n + 1)
    OBVIOUS
  <2>7. g[n] \in Nat /\ g[n + 1] = 2 * g[n]
    BY <2>5, <2>6
  <2> HIDE DEF f
  <2> QED BY <2>2, <2>4, <2>7
<1>4. f = [n \in Nat |-> IF n = 0 THEN 1 ELSE 2 * f[n - 1]]
  <2>1. ASSUME NEW n \in Nat PROVE f[n] = IF n = 0 THEN 1 ELSE 2 * f[n - 1]
    <3>1. CASE n = 0
      BY <1>2, <3>1
    <3>2. CASE n # 0
      <4>1. n - 1 \in Nat /\ (n - 1) + 1 = n
        BY <3>2
      <4>2. f[(n - 1) + 1] = 2 * f[n - 1]
        BY <1>3, <4>1
      <4> HIDE DEF f
      <4> QED BY <3>2, <4>1, <4>2
    <3> QED BY <3>1, <3>2
  <2>2. f = [n \in Nat |-> f[n]]
    OBVIOUS
  <2> HIDE DEF f
  <2> QED BY <2>1, <2>2, Zenon
<1> HIDE DEF f
<1>5. TwoTo = [n \in Nat |-> IF n = 0 THEN 1 ELSE 2 * TwoTo[n - 1]]
  BY <1>4, Zenon DEF TwoTo
<1>6. TwoTo[0] = 1
  BY <1>5
<1>7. \A n \in Nat : TwoTo[n + 1] = 2 * TwoTo[n]
  <2> TAKE n \in Nat
  <2>1. n + 1 \in Nat /\ n + 1 # 0 /\ (n + 1) - 1 = n
    OBVIOUS
  <2> QED BY <1>5, <2>1
<1>8. \A n \in Nat : TwoTo[n] \in Nat
  <2> DEFINE T == {n \in Nat : TwoTo[n] \notin Nat}
  <2> SUFFICES ASSUME T # {} PROVE FALSE
    OBVIOUS
  <2>1. PICK n \in T : \A m \in T : n <= m
    BY Least
  <2>2. n # 0
    BY <1>6
  <2>3. n - 1 \in Nat /\ ~(n <= n - 1) /\ (n - 1) + 1 = n
    BY <2>2
  <2>4. TwoTo[n - 1] \in Nat
    BY <2>1, <2>3
  <2>5. TwoTo[(n - 1) + 1] = 2 * TwoTo[n - 1]
    BY <1>7, <2>3
  <2> QED BY <2>3, <2>4, <2>5
<1> QED BY <1>6, <1>7, <1>8

\* Doubling one pause under the cap gives the next.
LEMMA PauseDoubles ==
    ASSUME NEW n \in Nat, n >= 2
    PROVE  Pause(n) \in Nat /\ Pause(n + 1) = Doubled(Pause(n))
<1>1. PICK t \in Nat : t = TwoTo[n - 2] /\ TwoTo[n - 1] = 2 * t
  <2>1. n - 2 \in Nat /\ (n - 2) + 1 = n - 1
    OBVIOUS
  <2>2. TwoTo[n - 2] \in Nat /\ TwoTo[(n - 2) + 1] = 2 * TwoTo[n - 2]
    BY <2>1, TwoToUnfolds
  <2> QED BY <2>1, <2>2
<1>2. PICK full \in Nat : full = Backoff * t
  BY PolicyAssumption
<1>3. Backoff * (2 * t) = 2 * full
  BY <1>2, PolicyAssumption
<1>4. (n + 1) - 2 = n - 1
  OBVIOUS
<1>5. Pause(n) = IF n > 2 /\ MaxBackoff > 0 /\ MaxBackoff < full THEN MaxBackoff ELSE full
  BY <1>1, <1>2 DEF Pause
<1>6. Pause(n + 1) = IF n + 1 > 2 /\ MaxBackoff > 0 /\ MaxBackoff < 2 * full
                     THEN MaxBackoff ELSE 2 * full
  BY <1>1, <1>3, <1>4 DEF Pause
<1> QED BY <1>5, <1>6, PolicyAssumption DEF Doubled

\* The pause that comes next, and the timer of the one that is on: it fires when
\* the pause has passed and nothing goes on once it may.
Spacing ==
    /\ pc \in {"trying", "sleeping"} => backoff = Pause(sent + 1)
    /\ pc = "sleeping" => wake = lastEnd + backoff /\ now <= wake

LEMMA SpacingInit == Init => Spacing
<1> SUFFICES ASSUME Init PROVE Spacing
  OBVIOUS
<1>1. TwoTo[(1 + 1) - 2] = 1
  BY TwoToUnfolds
<1>2. Pause(1 + 1) = Backoff
  BY <1>1, PolicyAssumption DEF Pause
<1> QED BY <1>2 DEF Init, Spacing

LEMMA SpacingKeeps == IInv /\ Spacing /\ [Next]_vars => Spacing'
<1> SUFFICES ASSUME IInv, Spacing, [Next]_vars PROVE Spacing'
  OBVIOUS
<1>1. /\ now \in Nat /\ backoff \in Nat /\ wake \in Nat /\ sent \in Nat /\ sent >= 1
  BY AttemptsRange DEF IInv, TypeOK
<1>2. CASE \E t \in TryResults : TryEnds(t)
  <2>1. PICK t \in TryResults : TryEnds(t)
    BY <1>2
  <2>2. /\ pc = "trying" /\ lastEnd' = now /\ UNCHANGED <<now, backoff, sent>>
    BY <2>1 DEF TryEnds
  <2>3. \/ pc' \in {"parsing", "done"}
        \/ pc' = "sleeping" /\ wake' = now + backoff
    <3>1. CASE t = Page
      BY <2>1, <3>1 DEF TryEnds
    <3>2. CASE t # Page /\ ~Retryable(t)
      BY <2>1, <3>2 DEF TryEnds, Return
    <3>3. CASE t # Page /\ Retryable(t) /\ ctxErr # "nil"
      BY <2>1, <3>3 DEF TryEnds, Return
    <3>4. CASE t # Page /\ Retryable(t) /\ ctxErr = "nil"
      BY <2>1, <3>4 DEF TryEnds, Return
    <3> QED BY <3>1, <3>2, <3>3, <3>4
  <2> QED BY <1>1, <2>2, <2>3 DEF Spacing
<1>3. CASE Resume
  <2>1. pc = "sleeping" /\ pc' = "trying" /\ backoff' = Doubled(backoff) /\ sent' = sent + 1
    BY <1>3 DEF Resume
  <2>2. sent + 1 \in Nat /\ sent + 1 >= 2
    BY <1>1
  <2>3. Pause((sent + 1) + 1) = Doubled(Pause(sent + 1))
    BY <2>2, PauseDoubles
  <2> QED BY <2>1, <2>3 DEF Spacing
<1>4. CASE Tick
  <2>1. UNCHANGED <<pc, backoff, wake, sent, lastEnd>> /\ now' = now + 1
    BY <1>4 DEF Tick
  <2>2. pc = "sleeping" => ~(now >= wake)
    BY <1>4 DEF Tick, SleepResults
  <2> QED BY <1>1, <2>1, <2>2 DEF Spacing
<1>5. CASE SleepCut \/ Parse
  BY <1>5 DEF SleepCut, Parse, Return, Spacing
<1>6. CASE Cancel \/ UNCHANGED vars
  BY <1>6 DEF Cancel, vars, Spacing
<1> QED BY <1>2, <1>3, <1>4, <1>5, <1>6 DEF Next

LEMMA ResumesOnTime ==
    IInv /\ Spacing /\ [Next]_vars => [sent' # sent => now = lastEnd + Pause(sent')]_vars
<1> SUFFICES ASSUME IInv, Spacing, Next, sent' # sent PROVE now = lastEnd + Pause(sent')
  BY DEF vars
<1>1. Resume
  BY DEF Next, TryEnds, SleepCut, Parse, Cancel, Tick
<1>2. pc = "sleeping" /\ sent' = sent + 1 /\ now >= wake
  BY <1>1 DEF Resume, SleepResults
<1> QED BY <1>2 DEF Spacing, IInv, TypeOK

\* Client.get: before the second request Backoff has passed since the first one
\* ended, before a later one twice the pause before it or the cap, if there is one
\* and it is less: no less and no more.
THEOREM Spaced == Spec => RequestsSpaced
<1>1. Spec => []Spacing
  BY SpacingInit, SpacingKeeps, Inductive, PTL DEF Spec
<1> QED BY <1>1, ResumesOnTime, Inductive, PTL DEF Spec, RequestsSpaced

\* RetryPolicy of options.go: a policy whose first pause is within its cap never
\* pauses for longer than the cap.
THEOREM Capped ==
    ASSUME MaxBackoff = 0 \/ Backoff <= MaxBackoff
    PROVE  Spec => []PauseCapped
<1>1. ASSUME NEW n \in Nat, n >= 2, MaxBackoff # 0
      PROVE  Pause(n) <= MaxBackoff
  <2>1. PICK full \in Nat : full = Backoff * TwoTo[n - 2]
    <3>1. n - 2 \in Nat
      BY <1>1
    <3>2. TwoTo[n - 2] \in Nat
      BY <3>1, TwoToUnfolds
    <3> QED BY <3>2, PolicyAssumption
  <2>2. CASE n = 2
    <3>1. TwoTo[n - 2] = 1
      BY <2>2, TwoToUnfolds
    <3>2. full = Backoff
      BY <2>1, <3>1, PolicyAssumption
    <3> QED BY <1>1, <2>1, <2>2, <3>2 DEF Pause
  <2>3. CASE n > 2
    BY <1>1, <2>1, <2>3, PolicyAssumption DEF Pause
  <2> QED BY <1>1, <2>2, <2>3
<1>2. ASSUME IInv, Spacing PROVE PauseCapped
  <2> SUFFICES ASSUME pc = "sleeping", MaxBackoff # 0 PROVE wake - lastEnd <= MaxBackoff
    BY DEF PauseCapped
  <2>1. sent + 1 \in Nat /\ sent + 1 >= 2
    BY <1>2, AttemptsRange DEF IInv, TypeOK
  <2>2. wake = lastEnd + Pause(sent + 1) /\ Pause(sent + 1) <= MaxBackoff
    BY <1>1, <1>2, <2>1 DEF Spacing
  <2> QED BY <1>2, <2>1, <2>2, PauseDoubles, PolicyAssumption DEF IInv, TypeOK
<1>3. Spec => []Spacing
  BY SpacingInit, SpacingKeeps, Inductive, PTL DEF Spec
<1> QED BY <1>2, <1>3, Inductive, PTL
=============================================================================
