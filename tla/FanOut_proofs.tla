---------------------------- MODULE FanOut_proofs ----------------------------
(***************************************************************************)
(* For any boards, lists of boards and failures: what Item answers is      *)
(* decided by what the boards publish, and a failure keeps its cause.      *)
(*                                                                         *)
(* Neither is inductive.  Settled says what each goroutine has left        *)
(* behind, Live that the shared context ends for a reason, Reason that the *)
(* first failure was a real one, and Answered how the result was made.     *)
(***************************************************************************)
EXTENDS FanOut, WellFoundedInduction, TLAPS

\* What a goroutine may store: never the error of a lookup.
PartType ==
    [rich: BOOLEAN, op: {"none", "fetch", "parse"}, status: Nat, attempts: Nat,
     wraps: SUBSET (Sentinels \cup ContextErrors)]

Typed == TypeOK /\ errs \in [Goroutines -> PartType]

Settled ==
    \A i \in Goroutines :
        /\ i \in running => errs[i] = Nil
        /\ ~asked.emptyKey /\ i \notin running /\ errs[i] = Nil => Boards[i] \in out

Live == caller = "nil" /\ Failed = {} => ctx = "nil"

Real(err) == err.rich /\ err.wraps \cap Sentinels # {}
Reason == caller = "nil" /\ Failed # {} => \E i \in Goroutines : Real(errs[i])

\* Nothing is done for an empty key.
Idle == asked.emptyKey => running = {} /\ out = {} /\ Failed = {}

Answered ==
    result # Pending =>
        /\ running = {}
        /\ \/ asked.emptyKey /\ result = FailedWith(NotFound)
           \/ Failed # {} /\ result = FailedWith(Joined(errs))
           \/ ~asked.emptyKey /\ Failed = {} /\ \E i \in Goroutines : FirstHas(i) /\ result = FoundOn(i)
           \/ /\ ~asked.emptyKey /\ Failed = {} /\ \A i \in Goroutines : ~Has(i)
              /\ result = FailedWith(NotFound)

IInv == Typed /\ Settled /\ Live /\ Reason /\ Idle /\ Answered

----------------------------------------------------------------------------
(* Lists, their least elements, and the join of errors. *)

LEMMA Least ==
    ASSUME NEW T, T \subseteq Nat, T # {}
    PROVE  \E x \in T : \A y \in T : x <= y
<1> DEFINE R == {ss \in Nat \X Nat : ss[1] < ss[2]}
<1>1. IsWellFoundedOn(R, Nat)
  BY NatLessThanWellFounded DEF OpToRel
<1>2. \A x, y \in Nat : <<y, x>> \in R <=> y < x
  OBVIOUS
<1> HIDE DEF R
<1>3. \E x \in T : \A y \in T : ~(<<y, x>> \in R)
  BY <1>1, WFMin
<1>4. PICK x \in T : \A y \in T : ~(<<y, x>> \in R)
  BY <1>3
<1>5. \A y \in T : x <= y
  <2> TAKE y \in T
  <2>1. x \in Nat /\ y \in Nat
    OBVIOUS
  <2>2. ~(y < x)
    BY <1>2, <1>4, <2>1, Zenon
  <2> QED BY <2>1, <2>2
<1> QED BY <1>5

LEMMA ListsAreFunctions ==
    ASSUME asked \in Questions
    PROVE  /\ Goroutines = 1..Len(Boards) /\ Len(Boards) \in Nat
           /\ Goroutines \subseteq Nat
BY BoardsAssumption DEF Questions, Goroutines, Boards

\* The join is an error of the same kind that wraps all its parts wrap.
LEMMA JoinKeepsParts ==
    ASSUME NEW n \in Nat, NEW es \in [1..n -> PartType]
    PROVE  /\ Joined(es) \in PartType
           /\ \A i \in 1..n : es[i].wraps \subseteq Joined(es).wraps
<1> DEFINE rich == {i \in DOMAIN es : es[i].rich}
           first == CHOOSE i \in rich : \A j \in rich : i <= j
           all == UNION {es[i].wraps : i \in DOMAIN es}
<1>1. DOMAIN es = 1..n /\ rich \subseteq Nat
  OBVIOUS
<1>2. all \in SUBSET (Sentinels \cup ContextErrors) /\ \A i \in 1..n : es[i].wraps \subseteq all
  <2>1. \A i \in 1..n : es[i].wraps \in SUBSET (Sentinels \cup ContextErrors)
    BY DEF PartType
  <2> QED BY <1>1, <2>1
<1>3. Joined(es) = IF rich = {} THEN Bare(all) ELSE [es[first] EXCEPT !.wraps = all]
  BY DEF Joined
<1>4. CASE rich = {}
  <2>1. Joined(es) = Bare(all)
    BY <1>3, <1>4
  <2> HIDE DEF all
  <2> QED BY <1>2, <2>1 DEF Bare, PartType
<1>5. CASE rich # {}
  <2>1. first \in rich
    BY <1>1, <1>5, Least
  <2>2. es[first] \in PartType
    BY <2>1
  <2>3. Joined(es) = [es[first] EXCEPT !.wraps = all]
    BY <1>3, <1>5
  <2> HIDE DEF all, first
  <2> QED BY <1>2, <2>2, <2>3 DEF PartType
<1> QED BY <1>4, <1>5

LEMMA NilIsAPart == Nil \in PartType
BY DEF Nil, Bare, PartType

LEMMA NotFoundIsNoPart == NotFound \in FailureType /\ NotFound \notin PartType
BY DEF NotFound, Rich, FailureType, PartType, Sentinels

LEMMA PartsAreFailures == PartType \subseteq FailureType
BY DEF PartType, FailureType

LEMMA ContextFailureIsAPart ==
    ASSUME NEW e \in ContextErrors
    PROVE  ContextFailure(e) \in PartType
<1>1. CASE asked.cacheOn
  BY <1>1 DEF ContextFailure, Bare, PartType, ContextErrors
<1>2. CASE ~asked.cacheOn
  BY <1>2 DEF ContextFailure, Rich, PartType, ContextErrors, Sentinels
<1> QED BY <1>1, <1>2

LEMMA OwnFailuresAreReal ==
    ASSUME NEW err \in LoadFailures \cup {UnknownMarket}
    PROVE  err \in PartType /\ Real(err)
<1>1. ASSUME NEW op \in {"fetch", "parse"}, NEW status \in Nat, NEW n \in Nat,
             NEW w \in SUBSET (Sentinels \cup ContextErrors), w \cap Sentinels # {}
      PROVE  Rich(op, status, n, w) \in PartType /\ Real(Rich(op, status, n, w))
  BY <1>1 DEF Rich, PartType, Real
<1>2. \A s \in {"ErrRequest", "ErrUnexpectedStatus", "ErrTooLarge", "ErrParse", "ErrEmpty",
               "ErrUnknownMarket"} :
        {s} \in SUBSET (Sentinels \cup ContextErrors) /\ {s} \cap Sentinels # {}
  BY DEF Sentinels
<1>3. /\ {"ErrRequest", "DeadlineExceeded"} \in SUBSET (Sentinels \cup ContextErrors)
      /\ {"ErrRequest", "DeadlineExceeded"} \cap Sentinels # {}
  BY DEF Sentinels, ContextErrors
<1> QED
  BY <1>1, <1>2, <1>3 DEF LoadFailures, UnknownMarket

\* A fetch fails with a part, and for a real reason while its context is live.
LEMMA FailuresAreParts ==
    ASSUME Typed, NEW i \in Goroutines, NEW err \in FetchFailures(i)
    PROVE  err \in PartType /\ (ctx = "nil" => Real(err))
<1>1. CASE err \in LoadFailures \cup {UnknownMarket}
  BY <1>1, OwnFailuresAreReal
<1>2. CASE ctx # "nil" /\ err = ContextFailure(ctx)
  BY <1>2, ContextFailureIsAPart DEF Typed, TypeOK
<1> QED
  BY <1>1, <1>2 DEF FetchFailures

----------------------------------------------------------------------------
LEMMA InitHolds == Init => IInv
<1> SUFFICES ASSUME Init PROVE IInv
  OBVIOUS
<1>1. /\ errs = [i \in Goroutines |-> Nil]
      /\ running = IF asked.emptyKey THEN {} ELSE Goroutines
      /\ caller = "nil" /\ ctx = "nil" /\ out = {} /\ result = Pending
      /\ asked \in Questions
  BY DEF Init
<1>2. errs \in [Goroutines -> PartType] /\ errs \in [Goroutines -> FailureType]
  BY <1>1, NilIsAPart, PartsAreFailures
<1>3. result \in [kind: {"pending", "found", "failed"}, board: {0} \cup Goroutines,
                  err: FailureType]
  BY <1>1, NilIsAPart, PartsAreFailures DEF Pending
<1>4. Failed = {}
  BY <1>1 DEF Failed
<1> QED
  BY <1>1, <1>2, <1>3, <1>4 DEF IInv, Typed, TypeOK, Settled, Live, Reason, Idle, Answered

LEMMA SuccessKeeps ==
    ASSUME IInv, NEW i \in Goroutines, FetchSucceeds(i)
    PROVE  IInv'
<1>1. /\ i \in running /\ Boards[i] \in Supported
      /\ out' = out \cup {Boards[i]} /\ running' = running \ {i}
      /\ UNCHANGED <<caller, ctx, errs, asked, result>>
      /\ Boards' = Boards /\ Goroutines' = Goroutines /\ Failed' = Failed
  BY DEF FetchSucceeds, Boards, Goroutines, Failed
<1>2. result = Pending
  BY <1>1 DEF IInv, Answered
<1>3. Typed'
  BY <1>1 DEF IInv, Typed, TypeOK
<1>4. Settled'
  BY <1>1 DEF IInv, Settled
<1>5. Answered'
  BY <1>1, <1>2 DEF Answered, Pending, Nil
<1>6. ~asked.emptyKey
  BY <1>1 DEF IInv, Idle
<1> QED
  BY <1>1, <1>3, <1>4, <1>5, <1>6 DEF IInv, Live, Reason, Idle

LEMMA FailureKeeps ==
    ASSUME IInv, NEW i \in Goroutines, NEW err \in FetchFailures(i), FetchFails(i, err)
    PROVE  IInv'
<1>1. /\ i \in running /\ errs' = [errs EXCEPT ![i] = err]
      /\ ctx' = Cancelled /\ running' = running \ {i}
      /\ UNCHANGED <<caller, out, asked, result>>
      /\ Boards' = Boards /\ Goroutines' = Goroutines
  BY DEF FetchFails, Boards, Goroutines
<1>2. err \in PartType /\ (ctx = "nil" => Real(err))
  BY FailuresAreParts DEF IInv
<1>3. err # Nil
  BY DEF FetchFailures, LoadFailures, UnknownMarket, ContextFailure, Rich, Bare, Nil
<1>4. result = Pending
  BY <1>1 DEF IInv, Answered
<1>5. errs' \in [Goroutines' -> PartType] /\ errs' \in [Goroutines' -> FailureType]
  BY <1>1, <1>2, PartsAreFailures DEF IInv, Typed
<1>6. Typed'
  <2>1. ctx' \in {"nil"} \cup ContextErrors
    BY <1>1 DEF Cancelled, ContextErrors, IInv, Typed, TypeOK
  <2> QED
    BY <1>1, <1>5, <2>1 DEF IInv, Typed, TypeOK
<1>7. Settled'
  <2> SUFFICES ASSUME NEW j \in Goroutines'
               PROVE  /\ j \in running' => errs'[j] = Nil'
                      /\ ~asked'.emptyKey /\ j \notin running' /\ errs'[j] = Nil' =>
                            Boards'[j] \in out'
    BY DEF Settled
  <2>1. Nil' = Nil /\ errs'[j] = IF j = i THEN err ELSE errs[j]
    BY <1>1 DEF IInv, Typed, Nil
  <2> QED
    BY <1>1, <1>3, <2>1 DEF IInv, Settled
<1>8. errs'[i] = err /\ i \in Failed'
  BY <1>1, <1>3, <1>5 DEF IInv, Typed, Failed, Nil
<1>9. Reason'
  <2> SUFFICES ASSUME caller = "nil" PROVE \E j \in Goroutines' : Real(errs'[j])
    BY <1>1 DEF Reason, Real
  <2>1. CASE Failed = {}
    BY <1>1, <1>2, <1>8, <2>1 DEF IInv, Live
  <2>2. CASE Failed # {}
    <3>1. PICK j \in Goroutines : Real(errs[j])
      BY <2>2 DEF IInv, Reason
    <3>2. j # i
      BY <1>1, <3>1 DEF IInv, Settled, Real, Nil, Bare
    <3> QED
      BY <1>1, <3>1, <3>2 DEF IInv, Typed
  <2> QED BY <2>1, <2>2
<1>10. Live' /\ Answered'
  BY <1>1, <1>4, <1>8 DEF Live, Answered, Pending, Nil
<1>11. ~asked.emptyKey
  BY <1>1 DEF IInv, Idle
<1> QED
  BY <1>1, <1>6, <1>7, <1>9, <1>10, <1>11 DEF IInv, Idle

LEMMA CallerKeeps ==
    ASSUME IInv, NEW e \in ContextErrors, CallerEnds(e)
    PROVE  IInv'
<1>1. /\ caller' = e /\ e # "nil" /\ result = Pending
      /\ ctx' = IF ctx = "nil" THEN e ELSE ctx
      /\ UNCHANGED <<out, errs, running, asked, result>>
      /\ Boards' = Boards /\ Goroutines' = Goroutines
  BY DEF CallerEnds, ContextErrors, Boards, Goroutines
<1>2. Typed'
  BY <1>1 DEF IInv, Typed, TypeOK
<1> QED
  BY <1>1, <1>2 DEF IInv, Settled, Live, Reason, Idle, Failed, Answered, Pending, Nil

LEMMA RefuseKeeps ==
    ASSUME IInv, RefuseEmptyKey
    PROVE  IInv'
<1>1. /\ asked.emptyKey /\ result' = FailedWith(NotFound)
      /\ UNCHANGED <<caller, ctx, out, errs, running, asked>>
      /\ Boards' = Boards /\ Goroutines' = Goroutines /\ Failed' = Failed
  BY DEF RefuseEmptyKey, Boards, Goroutines, Failed
<1>2. result' \in [kind: {"pending", "found", "failed"}, board: {0} \cup Goroutines,
                   err: FailureType]
  BY <1>1, NotFoundIsNoPart DEF FailedWith
<1>3. running = {}
  BY <1>1 DEF IInv, Idle
<1>4. FailedWith(NotFound)' = FailedWith(NotFound)
  BY DEF FailedWith, NotFound
<1>5. Answered'
  BY <1>1, <1>3, <1>4 DEF Answered
<1> QED
  BY <1>1, <1>2, <1>5 DEF IInv, Typed, TypeOK, Settled, Live, Reason, Idle, Nil

\* Join or lookup: the three ways Item ends once a key was asked for.
LEMMA ReturnKeeps ==
    ASSUME IInv, Return
    PROVE  IInv'
<1>1. /\ ~asked.emptyKey /\ running = {} /\ result = Pending
      /\ UNCHANGED <<caller, ctx, out, errs, running, asked>>
      /\ Boards' = Boards /\ Goroutines' = Goroutines /\ Failed' = Failed
      /\ result' = IF Failed # {} THEN FailedWith(Joined(errs))
                   ELSE IF \E i \in Goroutines : Has(i)
                   THEN FoundOn(CHOOSE i \in Goroutines : FirstHas(i))
                   ELSE FailedWith(NotFound)
  BY DEF Return, Boards, Goroutines, Failed
<1>2. \A i \in Goroutines : (Has(i)' <=> Has(i)) /\ (FirstHas(i)' <=> FirstHas(i))
  BY <1>1 DEF Has, FirstHas
<1>3. Goroutines = 1..Len(Boards) /\ Len(Boards) \in Nat /\ Goroutines \subseteq Nat
  BY ListsAreFunctions DEF IInv, Typed, TypeOK
<1>4. result' \in [kind: {"pending", "found", "failed"}, board: {0} \cup Goroutines,
                   err: FailureType]
      /\ Answered'
  <2>1. CASE Failed # {}
    <3>1. result' = FailedWith(Joined(errs)) /\ Joined(errs)' = Joined(errs)
      BY <1>1, <2>1 DEF Joined
    <3>2. Joined(errs) \in FailureType
      BY <1>3, JoinKeepsParts, PartsAreFailures DEF IInv, Typed
    <3> QED
      BY <1>1, <2>1, <3>1, <3>2 DEF FailedWith, Answered
  <2>2. CASE Failed = {} /\ \E i \in Goroutines : Has(i)
    <3> DEFINE T == {i \in Goroutines : Has(i)}
    <3>1. PICK i \in T : \A j \in T : i <= j
      <4>1. T \subseteq Nat /\ T # {}
        BY <1>3, <2>2
      <4> QED BY <4>1, Least
    <3>2. FirstHas(i) /\ i \in Goroutines
      BY <1>3, <3>1 DEF FirstHas
    <3>3. PICK k \in Goroutines : FirstHas(k) /\ result' = FoundOn(k)
      BY <1>1, <2>2, <3>2
    <3>4. result' \in [kind: {"pending", "found", "failed"}, board: {0} \cup Goroutines,
                       err: FailureType]
      BY <3>3, NilIsAPart, PartsAreFailures DEF FoundOn
    <3>5. k \in Goroutines' /\ FirstHas(k)' /\ result' = FoundOn(k)'
      BY <1>1, <1>2, <3>3 DEF FoundOn, Nil
    <3> QED
      BY <1>1, <2>2, <3>4, <3>5 DEF Answered
  <2>3. CASE Failed = {} /\ ~\E i \in Goroutines : Has(i)
    <3>1. result' = FailedWith(NotFound)
      BY <1>1, <2>3
    <3> QED
      BY <1>1, <1>2, <2>3, <3>1, NotFoundIsNoPart DEF FailedWith, Answered
  <2> QED BY <2>1, <2>2, <2>3
<1> QED
  BY <1>1, <1>4 DEF IInv, Typed, TypeOK, Settled, Live, Reason, Idle, Nil

LEMMA StepKeeps == IInv /\ [Next]_vars => IInv'
<1> SUFFICES ASSUME IInv, [Next]_vars PROVE IInv'
  OBVIOUS
<1>1. ASSUME NEW i \in Goroutines, FetchSucceeds(i) PROVE IInv'
  BY <1>1, SuccessKeeps
<1>2. ASSUME NEW i \in Goroutines, NEW err \in FetchFailures(i), FetchFails(i, err) PROVE IInv'
  BY <1>2, FailureKeeps
<1>3. ASSUME NEW e \in ContextErrors, CallerEnds(e) PROVE IInv'
  BY <1>3, CallerKeeps
<1>4. CASE UNCHANGED vars
  <2>1. /\ UNCHANGED <<caller, ctx, out, errs, running, asked, result>>
        /\ Boards' = Boards /\ Goroutines' = Goroutines /\ Failed' = Failed
    BY <1>4 DEF vars, Boards, Goroutines, Failed
  <2>2. \A i \in Goroutines : (Has(i)' <=> Has(i)) /\ (FirstHas(i)' <=> FirstHas(i))
    BY <2>1 DEF Has, FirstHas
  <2>3. Answered'
    BY <2>1, <2>2 DEF IInv, Answered, FoundOn, FailedWith, NotFound, Pending, Nil, Joined
  <2> QED
    BY <2>1, <2>3 DEF IInv, Typed, TypeOK, Settled, Live, Reason, Idle, Nil
<1> QED
  BY <1>1, <1>2, <1>3, <1>4, RefuseKeeps, ReturnKeeps DEF Next

LEMMA Inductive == Spec => []IInv
BY InitHolds, StepKeeps, PTL DEF Spec

----------------------------------------------------------------------------
\* The variables of the call keep their types.
THEOREM TypeCorrect == Spec => []TypeOK
<1>1. IInv => TypeOK
  BY DEF IInv, Typed
<1> QED BY <1>1, Inductive, PTL

\* A join of stored errors is never mistaken for the error of a lookup.
LEMMA JoinIsNotNotFound ==
    ASSUME IInv
    PROVE  Joined(errs) # NotFound
<1>1. Len(Boards) \in Nat /\ errs \in [1..Len(Boards) -> PartType]
  BY ListsAreFunctions DEF IInv, Typed, TypeOK
<1> QED
  BY <1>1, JoinKeepsParts, NotFoundIsNoPart

\* Client.Item: found or not, the answer is what the boards publish, in the
\* caller's order, and comes from all of them.
THEOREM Exactness == Spec => []AnswerExact
<1>1. ASSUME IInv PROVE AnswerExact
  <2>1. CASE result = Pending
    BY <2>1 DEF AnswerExact, AllOrNothing, OrderedAnswer, Done, Pending
  <2>2. CASE Failed # {} /\ result = FailedWith(Joined(errs))
    BY <1>1, <2>2, JoinIsNotNotFound
    DEF AnswerExact, AllOrNothing, OrderedAnswer, Done, FetchFailed, FailedWith
  <2>3. ASSUME ~asked.emptyKey, Failed = {}, result # Pending
        PROVE  \A i \in Goroutines : Boards[i] \in out
    BY <1>1, <2>3 DEF IInv, Answered, Settled, Failed
  <2>4. ASSUME ~asked.emptyKey, Failed = {}, result # Pending, NEW i \in Goroutines, FirstHas(i),
               result = FoundOn(i)
        PROVE  AnswerExact
    <3>1. result.kind = "found" /\ result.board = i
      BY <2>4 DEF FoundOn
    <3>2. asked.publishes[Boards[i]]
      BY <2>4 DEF FirstHas, Has
    <3>3. \A j \in 1..(i - 1) : ~asked.publishes[Boards[j]]
      <4> TAKE j \in 1..(i - 1)
      <4>1. j \in Goroutines /\ j < i
        BY <1>1, ListsAreFunctions DEF IInv, Typed, TypeOK
      <4> QED
        BY <2>3, <2>4, <4>1 DEF FirstHas, Has
    <3> QED
      BY <2>3, <2>4, <3>1, <3>2, <3>3 DEF AnswerExact, AllOrNothing, OrderedAnswer
  <2>5. ASSUME ~asked.emptyKey, Failed = {}, result # Pending, \A i \in Goroutines : ~Has(i),
               result = FailedWith(NotFound)
        PROVE  AnswerExact
    <3>1. result.kind = "failed"
      BY <2>5 DEF FailedWith
    <3> QED
      BY <2>3, <2>5, <3>1 DEF AnswerExact, AllOrNothing, OrderedAnswer, Has
  <2>6. CASE asked.emptyKey /\ result = FailedWith(NotFound)
    BY <1>1, <2>6 DEF IInv, Idle, AnswerExact, AllOrNothing, OrderedAnswer, FailedWith
  <2> QED
    BY <1>1, <2>1, <2>2, <2>4, <2>5, <2>6 DEF IInv, Answered
<1> QED BY <1>1, Inductive, PTL

\* Client.FetchAll: cancelling the siblings never hides why the call failed.
THEOREM Causality == Spec => []CauseKept
<1>1. ASSUME IInv, FetchFailed, caller = "nil"
      PROVE  \E i \in Goroutines :
                 /\ errs[i].rich
                 /\ errs[i].wraps \cap Sentinels # {}
                 /\ errs[i].wraps \subseteq result.err.wraps
  <2>1. Failed # {} /\ result = FailedWith(Joined(errs))
    BY <1>1 DEF IInv, Answered, FetchFailed, FailedWith, FoundOn, Pending
  <2>2. PICK i \in Goroutines : Real(errs[i])
    BY <1>1, <2>1 DEF IInv, Reason
  <2>3. Goroutines = 1..Len(Boards) /\ Len(Boards) \in Nat
        /\ errs \in [1..Len(Boards) -> PartType]
    BY <1>1, ListsAreFunctions DEF IInv, Typed, TypeOK
  <2>4. errs[i].wraps \subseteq Joined(errs).wraps
    BY <2>2, <2>3, JoinKeepsParts
  <2>5. result.err = Joined(errs)
    BY <2>1 DEF FailedWith
  <2> QED
    BY <2>2, <2>4, <2>5 DEF Real
<1>2. IInv => CauseKept
  BY <1>1 DEF CauseKept
<1> QED BY <1>2, Inductive, PTL
=============================================================================
