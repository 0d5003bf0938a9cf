------------------------ MODULE ServeLifecycle_proofs ------------------------
(***************************************************************************)
(* For any finite number of requests of any kinds, and any optional        *)
(* middlewares: the metrics are what happened on the wire, and an exit     *)
(* with success leaves no client waiting.                                  *)
(*                                                                         *)
(* Neither is inductive.  Progress follows a request down the chain: it       *)
(* answers only below the access log, so that what the recorder saw is     *)
(* what was written.  Draining says why an exit code of 0 means that       *)
(* nothing is in flight: the channel's nil comes only after Shutdown.      *)
(***************************************************************************)
EXTENDS ServeLifecycle, FiniteSetTheorems, SequenceTheorems, WellFoundedInduction, TLAPS

KindType == [method: Methods, preflight: BOOLEAN, target: Targets]
Ends == {"nil"} \cup ContextErrors

RequestType ==
    [pc: {"unsent", "handling", "writing", "unwinding", "panicking", "done"},
     kind: KindType, depth: Nat, ctx: Ends, gone: BOOLEAN, status: Nat, wire: Nat,
     recorded: Nat, sent: BOOLEAN, latency: Nat, panic: {"none", "bug", "abort"},
     named: BOOLEAN, logged: BOOLEAN, early: BOOLEAN]

\* Where a request is and what it has left behind.
Progress(r) ==
    /\ req[r].pc # "unsent" => req[r].depth > 3
    /\ req[r].pc \in {"unsent", "handling", "writing"} =>
         req[r].recorded = BornWith /\ ~req[r].sent
    /\ req[r].pc = "writing" =>
         /\ req[r].status \in 200..599
         /\ ~WritesHeader(r) => req[r].status = BornWith
    /\ req[r].pc = "unwinding" => req[r].wire = req[r].recorded /\ req[r].wire \in 200..599
    /\ req[r].pc \notin {"panicking", "done"} => req[r].panic = "none"
    /\ req[r].pc = "panicking" => req[r].panic # "none"
    /\ req[r].pc = "done" =>
         /\ req[r].panic = "none" =>
              req[r].wire = req[r].recorded /\ req[r].wire \in 200..599
         /\ req[r].panic = "bug" => req[r].wire # 0

CounterType == [count: Nat, buckets: [1..Bounds -> Nat]]
Counters == \A key \in DOMAIN series : series[key] \in CounterType

Draining ==
    /\ main \in {"selecting", "draining", "exited"}
    /\ main = "selecting" => errCh # <<"nil">> /\ listener \notin {"closed", "returned"}
    /\ main # "exited" => exit = -1
    /\ exit = 0 => \A r \in Requests : ~InFlight(r)
    /\ errCh \in {<<>>, <<"nil">>, <<"error">>}

Requested ==
    /\ base \in {"nil", "Canceled"}
    /\ req \in [Requests -> RequestType]
    /\ \A r \in Requests : Progress(r)

IInv == Requested /\ Counters /\ Accounted /\ Draining

----------------------------------------------------------------------------
(* The chain and the statuses. *)

LEMMA Least ==
    ASSUME NEW T, T \subseteq Nat, T # {}
    PROVE  \E x \in T : \A y \in T : x <= y
<1> DEFINE R == {ss \in Nat \X Nat : ss[1] < ss[2]}
<1>1. IsWellFoundedOn(R, Nat)
  BY NatLessThanWellFounded DEF OpToRel
<1>2. \A x, y \in Nat : <<y, x>> \in R <=> y < x
  OBVIOUS
<1> HIDE DEF R
<1>3. PICK x \in T : \A y \in T : ~(<<y, x>> \in R)
  BY <1>1, WFMin
<1>4. \A y \in T : x <= y
  <2> TAKE y \in T
  <2>1. x \in Nat /\ y \in Nat
    OBVIOUS
  <2>2. ~(y < x)
    BY <1>2, <1>3, <2>1, Zenon
  <2> QED BY <2>1, <2>2
<1> QED BY <1>4

Parts == {"recoverer", "requestID", "accessLog", "readOnly", "cors", "rateLimit",
          "timeout", "mux"}

LEMMA LongerChain ==
    ASSUME NEW s \in Seq(Parts), NEW t \in Seq(Parts), Len(s) > 3
    PROVE  /\ s \o t \in Seq(Parts) /\ Len(s \o t) = Len(s) + Len(t) /\ Len(s \o t) > 3
           /\ \A i \in 1..3 : (s \o t)[i] = s[i]
<1>1. Len(s) \in Nat /\ Len(t) \in Nat
  BY LenProperties
<1>2. /\ s \o t \in Seq(Parts) /\ Len(s \o t) = Len(s) + Len(t)
      /\ \A i \in 1..Len(s) + Len(t) :
           (s \o t)[i] = IF i <= Len(s) THEN s[i] ELSE t[i - Len(s)]
  BY ConcatProperties
<1>3. \A i \in 1..3 : i \in 1..Len(s) + Len(t) /\ i <= Len(s)
  BY <1>1
<1> QED BY <1>1, <1>2, <1>3

LEMMA ChainShape ==
    /\ Chain \in Seq(Parts) /\ Len(Chain) \in Nat /\ Len(Chain) > 3
    /\ Chain[1] = "recoverer" /\ Chain[2] = "requestID" /\ Chain[3] = "accessLog"
<1> DEFINE top == <<"recoverer", "requestID", "accessLog", "readOnly">>
           a == Optional("cors")
           b == Optional("rateLimit")
           c == Optional("timeout")
           d == <<"mux">>
<1>1. /\ top \in Seq(Parts) /\ Len(top) = 4
      /\ top[1] = "recoverer" /\ top[2] = "requestID" /\ top[3] = "accessLog"
  BY DEF Parts
<1>2. \A mw \in Parts : <<mw>> \in Seq(Parts) /\ <<>> \in Seq(Parts)
  OBVIOUS
<1>3. a \in Seq(Parts) /\ b \in Seq(Parts) /\ c \in Seq(Parts) /\ d \in Seq(Parts)
  <2>1. \A mw \in Parts : Optional(mw) \in Seq(Parts)
    BY <1>2 DEF Optional
  <2>2. {"cors", "rateLimit", "timeout", "mux"} \subseteq Parts
    BY DEF Parts
  <2> QED BY <1>2, <2>1, <2>2
<1>4. Chain = ((top \o a) \o b) \o c \o d
  BY DEF Chain
<1> HIDE DEF top, a, b, c, d
<1>5. /\ top \o a \in Seq(Parts) /\ Len(top \o a) > 3
      /\ \A i \in 1..3 : (top \o a)[i] = top[i]
  <2>1. Len(top) > 3
    BY <1>1
  <2> QED BY <1>1, <1>3, <2>1, LongerChain
<1>6. /\ (top \o a) \o b \in Seq(Parts) /\ Len((top \o a) \o b) > 3
      /\ \A i \in 1..3 : ((top \o a) \o b)[i] = (top \o a)[i]
  BY <1>3, <1>5, LongerChain
<1>7. /\ (top \o a) \o b \o c \in Seq(Parts) /\ Len((top \o a) \o b \o c) > 3
      /\ \A i \in 1..3 : ((top \o a) \o b \o c)[i] = ((top \o a) \o b)[i]
  BY <1>3, <1>6, LongerChain
<1>8. /\ Chain \in Seq(Parts) /\ Len(Chain) > 3
      /\ \A i \in 1..3 : Chain[i] = ((top \o a) \o b \o c)[i]
  BY <1>3, <1>4, <1>7, LongerChain
<1>9. \A i \in 1..3 : Chain[i] = top[i]
  BY <1>5, <1>6, <1>7, <1>8
<1> QED
  BY <1>1, <1>8, <1>9, LenProperties

\* Nothing answers a request before it is logged, and what answers it has a status.
LEMMA DepthRange ==
    ASSUME NEW kind, NEW throttled
    PROVE  /\ Depth(kind, throttled) \in Nat /\ Depth(kind, throttled) > 3
           /\ ~InHandler(Depth(kind, throttled)) =>
                ReplyStatus(Chain[Depth(kind, throttled)]) \in 200..599
<1> DEFINE stops == {i \in DOMAIN Chain : Answers(Chain[i], kind, throttled)}
           d == Depth(kind, throttled)
<1>1. DOMAIN Chain = 1..Len(Chain) /\ stops \subseteq Nat
  BY ChainShape
<1>2. \A i \in stops : Chain[i] \in {"readOnly", "cors", "rateLimit", "mux"} /\ i > 3
  <2> TAKE i \in stops
  <2>1. Chain[i] \in {"readOnly", "cors", "rateLimit", "mux"}
    BY DEF Answers
  <2>2. i \in Nat /\ i > 0
    BY <1>1
  <2>3. i # 1 /\ i # 2 /\ i # 3
    BY <2>1, ChainShape
  <2>4. i > 3
    BY <2>2, <2>3
  <2> QED BY <2>1, <2>4
<1>3. CASE stops = {}
  <2>1. d = Len(Chain) + 1
    BY <1>3 DEF Depth
  <2> HIDE DEF d
  <2>2. d \in Nat /\ d > 3 /\ d > Len(Chain)
    BY <2>1, ChainShape
  <2> QED BY <2>2 DEF d, InHandler
<1>4. CASE stops # {}
  <2>1. PICK least \in stops : \A j \in stops : least <= j
    BY <1>1, <1>4, Least
  <2>2. d = CHOOSE i \in stops : \A j \in stops : i <= j
    BY <1>4 DEF Depth
  <2> HIDE DEF stops, d
  <2>3. d \in stops
    BY <2>1, <2>2
  <2>4. d \in Nat /\ d > 3 /\ ReplyStatus(Chain[d]) \in 200..599
    <3>1. d \in Nat /\ d > 3 /\ Chain[d] \in {"readOnly", "cors", "rateLimit", "mux"}
      BY <1>1, <1>2, <2>3
    <3> QED BY <3>1 DEF ReplyStatus
  <2> QED BY <2>4 DEF d
<1> QED BY <1>3, <1>4

LEMMA BelowTheLog ==
    ASSUME NEW depth \in Nat, depth > 3
    PROVE  Passed("accessLog", depth) /\ Passed("recoverer", depth)
<1>1. DOMAIN Chain = 1..Len(Chain) /\ 1 \in DOMAIN Chain /\ 3 \in DOMAIN Chain
  BY ChainShape
<1> QED BY <1>1, ChainShape DEF Passed

LEMMA ClassifiedStatus ==
    ASSUME NEW err
    PROVE  Classify(err).status \in 200..599
<1> DEFINE rows == {i \in DOMAIN Ranking : Ranking[i].of \cap err.wraps # {}}
           row == CHOOSE i \in rows : \A j \in rows : i <= j
<1>1. DOMAIN Ranking = 1..6 /\ \A i \in 1..6 : Ranking[i].status \in 200..599
  BY DEF Ranking
<1>2. CASE rows = {}
  BY <1>2 DEF Classify
<1>3. CASE rows # {}
  <2>1. row \in rows
    BY <1>1, <1>3, Least
  <2>2. Classify(err).status = Ranking[row].status
    BY <1>3 DEF Classify
  <2> HIDE DEF row
  <2> QED BY <1>1, <2>1, <2>2
<1> QED BY <1>2, <1>3

LEMMA HandlersAnswer ==
    ASSUME NEW r \in Requests, NEW status \in HandlerStatuses(r)
    PROVE  status \in 200..599 /\ (req[r].kind.target # "board" => status = 200)
BY ClassifiedStatus DEF HandlerStatuses

----------------------------------------------------------------------------
(* What is counted. *)

KeyOf(r) == [route |-> Route(r), method |-> req[r].kind.method, status |-> req[r].wire]

LEMMA UnderIs ==
    ASSUME NEW key
    PROVE  /\ Under(key) = {r \in Requests : Owed(r) /\ KeyOf(r) = key}
           /\ IsFiniteSet(Under(key))
           /\ \A i \in 1..Bounds : IsFiniteSet({r \in Under(key) : req[r].latency <= i})
<1>1. Under(key) = {r \in Requests : Owed(r) /\ KeyOf(r) = key}
  BY DEF Under, Owed, KeyOf
<1>2. IsFiniteSet(Under(key))
  BY <1>1, ChainAssumption, FS_Subset
<1>3. \A i \in 1..Bounds : {r \in Under(key) : req[r].latency <= i} \in SUBSET Under(key)
  OBVIOUS
<1> QED BY <1>1, <1>2, <1>3, FS_Subset

\* A step that leaves the answered requests and the counters alone.
LEMMA NothingCounted ==
    ASSUME Counters, Accounted, series' = series,
           \A r \in Requests : (Owed(r)' <=> Owed(r)) /\ (Owed(r) => req'[r] = req[r])
    PROVE  Counters' /\ Accounted'
<1>1. ASSUME NEW key
      PROVE  /\ Under(key)' = Under(key)
             /\ \A i \in 1..Bounds : {r \in Under(key) : req[r].latency <= i}' =
                                     {r \in Under(key) : req[r].latency <= i}
  BY DEF Under, Owed, Route
<1>2. Counters'
  BY DEF Counters
<1>3. \A r \in Requests : Owed(r)' => \E key \in DOMAIN series' : r \in Under(key)'
  BY <1>1 DEF Accounted, Owed
<1>4. \A key \in DOMAIN series' :
        /\ series'[key].count = Cardinality(Under(key)')
        /\ \A i \in 1..Bounds :
             series'[key].buckets[i] = Cardinality({r \in Under(key) : req[r].latency <= i}')
  BY <1>1 DEF Accounted
<1> QED BY <1>2, <1>3, <1>4 DEF Accounted

----------------------------------------------------------------------------
(* The requests. *)

Serving == Requested /\ Counters /\ Accounted

LEMMA Initially == Init => IInv
<1> SUFFICES ASSUME Init PROVE IInv
  OBVIOUS
<1>1. /\ base = "nil" /\ req = [r \in Requests |-> Unsent] /\ series = [key \in {} |-> 0]
      /\ listener = "starting" /\ errCh = <<>> /\ main = "selecting" /\ exit = -1
  BY DEF Init, PipelineInit
<1>2. Unsent \in RequestType
  BY DEF Unsent, NoKind, BornWith, RequestType, KindType, Methods, Targets, Ends
<1>3. Unsent.pc = "unsent" /\ Unsent.recorded = BornWith /\ Unsent.panic = "none"
      /\ ~Unsent.sent
  BY DEF Unsent
<1>4. Requested
  <2>1. req \in [Requests -> RequestType] /\ \A r \in Requests : req[r] = Unsent
    BY <1>1, <1>2
  <2>2. \A r \in Requests : Progress(r)
    BY <1>3, <2>1 DEF Progress
  <2> QED BY <1>1, <2>1, <2>2 DEF Requested
<1>5. Counters /\ Accounted
  BY <1>1, <1>3 DEF Counters, Accounted, Owed
<1>6. Draining
  BY <1>1 DEF Draining
<1> QED BY <1>4, <1>5, <1>6 DEF IInv

\* A step that changes one request and counts nothing.
LEMMA OneRequest ==
    ASSUME Serving, NEW r \in Requests, NEW q \in RequestType,
           req' = [req EXCEPT ![r] = q], base' = base, series' = series,
           req[r].pc # "done", q.pc = "done" => q.panic # "none", Progress(r)'
    PROVE  Serving'
<1>1. /\ req' \in [Requests -> RequestType] /\ req'[r] = q
      /\ \A x \in Requests : x # r => req'[x] = req[x]
  BY DEF Serving, Requested
<1>2. \A x \in Requests : Progress(x)'
  <2> TAKE x \in Requests
  <2>1. CASE x = r
    BY <2>1
  <2>2. CASE x # r
    BY <1>1, <2>2 DEF Serving, Requested, Progress, WritesHeader
  <2> QED BY <2>1, <2>2
<1>3. Requested'
  BY <1>1, <1>2 DEF Serving, Requested
<1>4. \A x \in Requests : (Owed(x)' <=> Owed(x)) /\ (Owed(x) => req'[x] = req[x])
  BY <1>1 DEF Owed
<1> QED
  BY <1>3, <1>4, NothingCounted DEF Serving

LEMMA ArriveKeeps ==
    ASSUME Serving, NEW r \in Requests, NEW kind \in Kinds, NEW throttled \in BOOLEAN,
           Arrive(r, kind, throttled)
    PROVE  Serving'
<1>1. PICK depth \in Nat : depth = Depth(kind, throttled)
  BY DepthRange
<1>2. depth > 3 /\ (~InHandler(depth) => ReplyStatus(Chain[depth]) \in 200..599)
  BY <1>1, DepthRange
<1>3. PICK status \in Nat :
        /\ status = IF InHandler(depth) THEN 0 ELSE ReplyStatus(Chain[depth])
        /\ ~InHandler(depth) => status \in 200..599
  BY <1>2
<1> DEFINE q == [Unsent EXCEPT !.pc = IF InHandler(depth) THEN "handling" ELSE "writing",
                               !.kind = kind, !.depth = depth, !.ctx = base,
                               !.status = status, !.named = Named(depth),
                               !.early = base = "nil"]
<1>4. /\ req[r].pc = "unsent" /\ base' = base /\ series' = series
      /\ req' = [req EXCEPT ![r] = q]
  BY <1>1, <1>3 DEF Arrive
<1>5. q \in RequestType
  <2>1. kind \in KindType
    BY ChainAssumption DEF KindType
  <2>2. base \in Ends
    BY DEF Serving, Requested, ContextErrors, Ends
  <2>3. Named(depth) \in BOOLEAN
    BY DEF Named, Passed
  <2> QED BY <2>1, <2>2, <2>3 DEF Unsent, BornWith, RequestType
<1>6. /\ q.pc = (IF InHandler(depth) THEN "handling" ELSE "writing")
      /\ q.depth = depth /\ q.status = status /\ q.recorded = BornWith /\ ~q.sent
      /\ q.panic = "none"
  BY DEF Unsent
<1> HIDE DEF q
<1>7. req'[r] = q
  BY <1>4 DEF Serving, Requested
<1>8. Progress(r)'
  BY <1>2, <1>3, <1>6, <1>7 DEF Progress, WritesHeader
<1>9. q.pc # "done"
  BY <1>6
<1> QED
  BY <1>4, <1>5, <1>8, <1>9, OneRequest

LEMMA ReturnKeeps ==
    ASSUME Serving, NEW r \in Requests, HandlerReturns(r)
    PROVE  Serving'
<1>1. PICK status \in HandlerStatuses(r) :
        req' = [req EXCEPT ![r] = [req[r] EXCEPT !.pc = "writing", !.status = status]]
  BY DEF HandlerReturns
<1>2. /\ status \in 200..599 /\ (req[r].kind.target # "board" => status = 200)
      /\ req[r].pc = "handling" /\ base' = base /\ series' = series
  BY HandlersAnswer DEF HandlerReturns
<1>3. PICK q \in RequestType : q = [req[r] EXCEPT !.pc = "writing", !.status = status]
  <2>1. status \in Nat /\ req[r] \in RequestType
    BY <1>2 DEF Serving, Requested
  <2> QED BY <2>1 DEF RequestType
<1>4. /\ q.pc = "writing" /\ q.status = status /\ q.depth = req[r].depth /\ q.kind = req[r].kind
      /\ q.recorded = req[r].recorded /\ q.sent = req[r].sent /\ q.panic = req[r].panic
  BY <1>3 DEF Serving, Requested, RequestType
<1>5. req' = [req EXCEPT ![r] = q] /\ req'[r] = q
  BY <1>1, <1>3 DEF Serving, Requested
<1>6. /\ req[r].depth > 3 /\ req[r].recorded = BornWith /\ ~req[r].sent
      /\ req[r].panic = "none"
  BY <1>2 DEF Serving, Requested, Progress
<1>7. Progress(r)'
  BY <1>2, <1>4, <1>5, <1>6 DEF Progress, WritesHeader, BornWith
<1> QED
  BY <1>2, <1>4, <1>5, <1>7, OneRequest

LEMMA PanicKeeps ==
    ASSUME Serving, NEW r \in Requests, NEW panic \in {"bug", "abort"}, HandlerPanics(r, panic)
    PROVE  Serving'
<1>1. PICK q \in RequestType : q = [req[r] EXCEPT !.pc = "panicking", !.panic = panic]
  BY DEF Serving, Requested, RequestType
<1>2. /\ req[r].pc \in {"handling", "unwinding"} /\ base' = base /\ series' = series
      /\ req' = [req EXCEPT ![r] = q] /\ req'[r] = q
  BY <1>1 DEF HandlerPanics, Serving, Requested
<1>3. q.pc = "panicking" /\ q.panic = panic /\ q.depth = req[r].depth
  BY <1>1 DEF Serving, Requested, RequestType
<1>4. req[r].depth > 3
  BY <1>2 DEF Serving, Requested, Progress
<1>5. Progress(r)'
  BY <1>2, <1>3, <1>4 DEF Progress
<1> QED
  BY <1>2, <1>3, <1>5, OneRequest

\* What the recorder remembers is what the client is sent.
LEMMA WriteKeeps ==
    ASSUME Serving, NEW r \in Requests, Write(r)
    PROVE  Serving'
<1>1. /\ req[r].pc = "writing" /\ base' = base /\ series' = series
      /\ req' = [req EXCEPT ![r] = [req[r] EXCEPT !.pc = "unwinding", !.wire = req[r].status,
                                                !.recorded = Recorded(r), !.sent = TRUE]]
  BY DEF Write
<1>2. /\ req[r].depth \in Nat /\ req[r].depth > 3
      /\ req[r].recorded = BornWith /\ ~req[r].sent
      /\ req[r].status \in 200..599 /\ (~WritesHeader(r) => req[r].status = BornWith)
      /\ req[r].panic = "none"
  BY <1>1 DEF Serving, Requested, RequestType, Progress
<1>3. Recorded(r) = req[r].status
  BY <1>2, BelowTheLog DEF Recorded
<1>4. PICK q \in RequestType : q = [req[r] EXCEPT !.pc = "unwinding", !.wire = req[r].status,
                                                  !.recorded = req[r].status, !.sent = TRUE]
  <2>1. req[r].status \in Nat /\ req[r] \in RequestType
    BY <1>2 DEF Serving, Requested
  <2> QED BY <2>1 DEF RequestType
<1>5. /\ q.pc = "unwinding" /\ q.wire = q.recorded /\ q.wire = req[r].status
      /\ q.depth = req[r].depth /\ q.panic = req[r].panic
  BY <1>4 DEF Serving, Requested, RequestType
<1>6. req' = [req EXCEPT ![r] = q] /\ req'[r] = q
  BY <1>1, <1>3, <1>4 DEF Serving, Requested
<1>7. Progress(r)'
  <2>1. /\ q.pc = "unwinding" /\ q.wire = q.recorded /\ q.wire \in 200..599 /\ q.depth > 3
        /\ q.panic = "none"
    BY <1>2, <1>5
  <2> QED BY <1>6, <2>1 DEF Progress
<1> QED
  BY <1>1, <1>5, <1>6, <1>7, OneRequest

LEMMA RecoverKeeps ==
    ASSUME Serving, NEW r \in Requests, Recover(r)
    PROVE  Serving'
<1>1. PICK wire \in Nat, named \in BOOLEAN :
        /\ wire = Reaches(r)
        /\ named = IF Recovers(r) THEN Named(RecovererDepth) ELSE req[r].named
  <2>1. PICK named \in BOOLEAN :
          named = IF Recovers(r) THEN Named(RecovererDepth) ELSE req[r].named
    <3>1. req[r].named \in BOOLEAN
      BY DEF Serving, Requested, RequestType
    <3>2. Named(RecovererDepth) \in BOOLEAN
      BY DEF Named, Passed
    <3> QED BY <3>1, <3>2
  <2>2. Reaches(r) \in Nat
    BY DEF Reaches, Serving, Requested, RequestType
  <2>3. PICK wire \in Nat : wire = Reaches(r)
    BY <2>2
  <2> QED BY <2>1, <2>3
<1>2. PICK q \in RequestType : q = [req[r] EXCEPT !.pc = "done", !.wire = wire, !.named = named]
  <2>1. req[r] \in RequestType
    BY DEF Serving, Requested
  <2> QED BY <2>1 DEF RequestType
<1>3. /\ req[r].pc = "panicking" /\ base' = base /\ series' = series
      /\ req' = [req EXCEPT ![r] = q] /\ req'[r] = q
  BY <1>1, <1>2 DEF Recover, Serving, Requested
<1>4. /\ q.pc = "done" /\ q.wire = wire /\ q.depth = req[r].depth /\ q.panic = req[r].panic
  BY <1>2 DEF Serving, Requested, RequestType
<1>5. req[r].depth \in Nat /\ req[r].depth > 3 /\ req[r].panic # "none"
  BY <1>3 DEF Serving, Requested, RequestType, Progress
<1>6. req[r].panic = "bug" => wire # 0
  BY <1>1, <1>5, BelowTheLog DEF Recovers, Reaches
<1>7. Progress(r)'
  BY <1>3, <1>4, <1>5, <1>6 DEF Progress
<1> QED
  BY <1>3, <1>4, <1>5, <1>7, OneRequest

\* The end of a request's context changes nothing of what Progress says.
LEMMA ContextKeeps ==
    ASSUME Serving, NEW r \in Requests, ClientLeaves(r) \/ Deadline(r)
    PROVE  Serving'
<1>1. PICK ctx \in Ends, gone \in BOOLEAN :
        req' = [req EXCEPT ![r] = [req[r] EXCEPT !.ctx = ctx, !.gone = gone]]
  <2>1. req[r].ctx \in Ends /\ req[r].gone \in BOOLEAN
    BY DEF Serving, Requested, RequestType
  <2>2. CASE ClientLeaves(r)
    <3> DEFINE ctx == IF req[r].ctx = "nil" THEN "Canceled" ELSE req[r].ctx
    <3>1. ctx \in Ends
      BY <2>1 DEF ContextErrors, Ends
    <3>2. req' = [req EXCEPT ![r] = [req[r] EXCEPT !.gone = TRUE, !.ctx = ctx]]
      BY <2>2 DEF ClientLeaves
    <3> HIDE DEF ctx
    <3>3. [req[r] EXCEPT !.gone = TRUE, !.ctx = ctx] = [req[r] EXCEPT !.ctx = ctx, !.gone = TRUE]
      BY DEF Serving, Requested, RequestType
    <3> QED BY <3>1, <3>2, <3>3
  <2>3. CASE Deadline(r)
    <3>1. req' = [req EXCEPT ![r] = [req[r] EXCEPT !.ctx = "DeadlineExceeded"]]
      BY <2>3 DEF Deadline
    <3>2. [req[r] EXCEPT !.ctx = "DeadlineExceeded"] =
            [req[r] EXCEPT !.ctx = "DeadlineExceeded", !.gone = req[r].gone]
      BY DEF Serving, Requested, RequestType
    <3>3. "DeadlineExceeded" \in Ends
      BY DEF ContextErrors, Ends
    <3> QED BY <2>1, <3>1, <3>2, <3>3
  <2> QED BY <2>2, <2>3
<1>2. PICK q \in RequestType : q = [req[r] EXCEPT !.ctx = ctx, !.gone = gone]
  BY DEF Serving, Requested, RequestType
<1>3. /\ req[r].pc # "done" /\ base' = base /\ series' = series
      /\ req' = [req EXCEPT ![r] = q] /\ req'[r] = q
  BY <1>1, <1>2 DEF ClientLeaves, Deadline, InFlight, Serving, Requested
<1>4. /\ q.pc = req[r].pc /\ q.kind = req[r].kind /\ q.depth = req[r].depth
      /\ q.status = req[r].status /\ q.wire = req[r].wire /\ q.recorded = req[r].recorded
      /\ q.sent = req[r].sent /\ q.panic = req[r].panic
  BY <1>2 DEF Serving, Requested, RequestType
<1>5. Progress(r)'
  BY <1>3, <1>4 DEF Serving, Requested, Progress, WritesHeader
<1> QED
  BY <1>3, <1>4, <1>5, OneRequest

\* The requests under a key whose latency fits in a bucket.
Within(key, i) == {x \in Under(key) : req[x].latency <= i}

LEMMA NoSeriesIs ==
    /\ NoSeries \in CounterType /\ NoSeries.count = 0
    /\ \A i \in 1..Bounds : NoSeries.buckets[i] = 0
BY DEF NoSeries, CounterType

LEMMA ObservedIs ==
    ASSUME NEW value \in CounterType, NEW latency \in Nat
    PROVE  /\ Observed(value, latency) \in CounterType
           /\ Observed(value, latency).count = value.count + 1
           /\ \A i \in 1..Bounds :
                Observed(value, latency).buckets[i] =
                  IF latency <= i THEN value.buckets[i] + 1 ELSE value.buckets[i]
<1>1. value.count \in Nat /\ value.buckets \in [1..Bounds -> Nat]
  BY DEF CounterType
<1> DEFINE later == [i \in 1..Bounds |-> IF latency <= i THEN value.buckets[i] + 1
                                        ELSE value.buckets[i]]
<1>2. Observed(value, latency) = [count |-> value.count + 1, buckets |-> later]
  BY DEF Observed
<1>3. /\ later \in [1..Bounds -> Nat]
      /\ \A i \in 1..Bounds :
           later[i] = IF latency <= i THEN value.buckets[i] + 1 ELSE value.buckets[i]
  <2>1. PICK f \in [1..Bounds -> Nat] : f = value.buckets
    BY <1>1
  <2>2. \A i \in 1..Bounds : (IF latency <= i THEN f[i] + 1 ELSE f[i]) \in Nat
    OBVIOUS
  <2>3. later = [i \in 1..Bounds |-> IF latency <= i THEN f[i] + 1 ELSE f[i]]
    BY <2>1
  <2>4. later \in [1..Bounds -> Nat]
    BY <2>2, <2>3
  <2>5. \A i \in 1..Bounds : later[i] = IF latency <= i THEN f[i] + 1 ELSE f[i]
    BY <2>3
  <2> QED BY <2>1, <2>4, <2>5
<1> HIDE DEF later
<1>4. value.count + 1 \in Nat
  BY <1>1
<1> QED BY <1>2, <1>3, <1>4 DEF CounterType

\* One more request is answered, and counted under its key.
LEMMA CountOne ==
    ASSUME Counters, Accounted, NEW r \in Requests, NEW key, NEW latency \in Nat,
           ~Owed(r), Owed(r)', KeyOf(r)' = key, req'[r].latency = latency,
           \A x \in Requests : x # r => req'[x] = req[x],
           NEW old, old = IF key \in DOMAIN series THEN series[key] ELSE NoSeries,
           series' = [k \in DOMAIN series \cup {key} |->
                        IF k = key THEN Observed(old, latency) ELSE series[k]]
    PROVE  Counters' /\ Accounted'
<1>1. \A x \in Requests : x # r => (Owed(x)' <=> Owed(x)) /\ KeyOf(x)' = KeyOf(x)
  BY DEF Owed, KeyOf, Route
<1>2. \A k : /\ Under(k) = {x \in Requests : Owed(x) /\ KeyOf(x) = k}
             /\ IsFiniteSet(Under(k)) /\ \A i \in 1..Bounds : IsFiniteSet(Within(k, i))
  BY UnderIs DEF Within
<1>3. \A k : Under(k)' = {x \in Requests : Owed(x)' /\ KeyOf(x)' = k}
  BY DEF Under, Owed, KeyOf
<1>4. Under(key)' = Under(key) \cup {r} /\ r \notin Under(key)
  BY <1>1, <1>2, <1>3
<1>5. \A k : k # key => Under(k)' = Under(k)
  BY <1>1, <1>2, <1>3
<1>6. \A i \in 1..Bounds :
        /\ r \notin Within(key, i)
        /\ Within(key, i)' = IF latency <= i THEN Within(key, i) \cup {r} ELSE Within(key, i)
  <2> TAKE i \in 1..Bounds
  <2>1. \A x \in Under(key) : x \in Requests /\ x # r /\ req'[x] = req[x]
    BY <1>2, <1>4
  <2> QED BY <1>4, <2>1 DEF Within
<1>7. \A k, i : k # key => Within(k, i)' = Within(k, i)
  <2> TAKE k, i
  <2> HAVE k # key
  <2>1. \A x \in Under(k) : x # r => req'[x] = req[x]
    BY <1>2
  <2>2. r \notin Under(k)
    BY <1>2
  <2> QED BY <1>5, <2>1, <2>2 DEF Within
<1>8. /\ old \in CounterType
      /\ old.count = Cardinality(Under(key))
      /\ \A i \in 1..Bounds : old.buckets[i] = Cardinality(Within(key, i))
  <2>1. CASE key \in DOMAIN series
    BY <2>1 DEF Counters, Accounted, Within
  <2>2. CASE key \notin DOMAIN series
    <3>1. Under(key) = {}
      <4> SUFFICES ASSUME NEW x \in Under(key) PROVE FALSE
        OBVIOUS
      <4>1. x \in Requests /\ Owed(x) /\ KeyOf(x) = key
        BY <1>2
      <4>2. PICK other \in DOMAIN series : x \in Under(other)
        BY <4>1 DEF Accounted, Owed
      <4>3. KeyOf(x) = other
        BY <1>2, <4>2
      <4> QED BY <2>2, <4>1, <4>2, <4>3
    <3>2. \A i \in 1..Bounds : Within(key, i) = {}
      BY <3>1 DEF Within
    <3>3. old = NoSeries
      BY <2>2
    <3>4. Cardinality(Under(key)) = 0 /\ \A i \in 1..Bounds : Cardinality(Within(key, i)) = 0
      BY <3>1, <3>2, FS_EmptySet, Zenon
    <3> QED BY <3>3, <3>4, NoSeriesIs
  <2> QED BY <2>1, <2>2
<1>9. \A i \in 1..Bounds :
        Cardinality(Within(key, i)') = IF latency <= i THEN old.buckets[i] + 1 ELSE old.buckets[i]
  BY <1>2, <1>6, <1>8, FS_AddElement
<1>10. Cardinality(Under(key)') = old.count + 1
  <2>1. Cardinality(Under(key) \cup {r}) = Cardinality(Under(key)) + 1
    <3>1. IsFiniteSet(Under(key)) /\ r \notin Under(key)
      BY <1>2, <1>4
    <3> QED BY <3>1, FS_AddElement
  <2>2. Under(key)' = Under(key) \cup {r} /\ old.count = Cardinality(Under(key))
    BY <1>4, <1>8
  <2> QED BY <2>1, <2>2, Zenon
<1>11. /\ DOMAIN series' = DOMAIN series \cup {key}
       /\ series'[key] = Observed(old, latency)
       /\ \A k \in DOMAIN series : k # key => series'[k] = series[k]
  OBVIOUS
<1>12. /\ series'[key] \in CounterType
       /\ series'[key].count = Cardinality(Under(key)')
       /\ \A i \in 1..Bounds : series'[key].buckets[i] = Cardinality(Within(key, i)')
  <2>1. /\ Observed(old, latency) \in CounterType
        /\ Observed(old, latency).count = old.count + 1
        /\ \A i \in 1..Bounds : Observed(old, latency).buckets[i] =
                               IF latency <= i THEN old.buckets[i] + 1 ELSE old.buckets[i]
    BY <1>8, ObservedIs
  <2> QED BY <1>9, <1>10, <1>11, <2>1
<1>13. Counters'
  BY <1>11, <1>12 DEF Counters
<1>14. \A x \in Requests : Owed(x)' => \E k \in DOMAIN series' : x \in Under(k)'
  <2> TAKE x \in Requests
  <2> HAVE Owed(x)'
  <2>1. CASE x = r
    BY <1>4, <1>11, <2>1
  <2>2. CASE x # r
    <3>1. Owed(x)
      BY <1>1, <2>2
    <3>2. PICK k \in DOMAIN series : x \in Under(k)
      BY <3>1 DEF Accounted
    <3>3. k \in DOMAIN series' /\ x \in Under(k)'
      BY <1>4, <1>5, <1>11, <3>2
    <3> QED BY <3>3
  <2> QED BY <2>1, <2>2
<1>15. \A k \in DOMAIN series' :
         /\ series'[k].count = Cardinality(Under(k)')
         /\ \A i \in 1..Bounds : series'[k].buckets[i] = Cardinality(Within(k, i)')
  <2> TAKE k \in DOMAIN series'
  <2>1. CASE k = key
    BY <1>12, <2>1
  <2>2. CASE k # key
    <3>1. k \in DOMAIN series /\ series'[k] = series[k]
      BY <1>11, <2>2
    <3>2. /\ series[k].count = Cardinality(Under(k))
          /\ \A i \in 1..Bounds : series[k].buckets[i] = Cardinality(Within(k, i))
      BY <3>1 DEF Accounted, Within
    <3>3. /\ series'[k].count = Cardinality(Under(k)')
          /\ \A i \in 1..Bounds : Within(k, i)' = Within(k, i)
      BY <1>5, <1>7, <2>2, <3>1, <3>2
    <3> QED BY <3>1, <3>2, <3>3
  <2> QED BY <2>1, <2>2
<1> QED
  BY <1>13, <1>14, <1>15 DEF Accounted, Within

\* The stack unwinds through the access log.
LEMMA UnwindKeeps ==
    ASSUME Serving, NEW r \in Requests, NEW latency \in 1..(Bounds + 1), Unwind(r, latency)
    PROVE  Serving'
<1>1. /\ req[r].pc = "unwinding" /\ req[r].depth \in Nat /\ req[r].depth > 3
      /\ req[r].panic = "none" /\ req[r].wire = req[r].recorded /\ req[r].wire \in 200..599
      /\ req[r] \in RequestType /\ latency \in Nat
  BY ChainAssumption DEF Unwind, Serving, Requested, RequestType, Progress
<1> DEFINE key == SeriesKey(r)
           old == IF key \in DOMAIN series THEN series[key] ELSE NoSeries
<1>2. /\ series' = IF "metrics" \notin Options THEN series
                   ELSE [k \in DOMAIN series \cup {key} |->
                           IF k = key THEN Observed(old, latency) ELSE series[k]]
      /\ req' = [req EXCEPT ![r] = [req[r] EXCEPT !.pc = "done", !.latency = latency,
                                                !.logged = TRUE]]
      /\ base' = base
  BY <1>1, BelowTheLog DEF Unwind, Observe
<1>3. PICK q \in RequestType : q = [req[r] EXCEPT !.pc = "done", !.latency = latency,
                                                  !.logged = TRUE]
  BY <1>1 DEF RequestType
<1>4. /\ q.pc = "done" /\ q.latency = latency /\ q.depth = req[r].depth /\ q.kind = req[r].kind
      /\ q.wire = req[r].wire /\ q.recorded = req[r].recorded /\ q.panic = req[r].panic
  BY <1>1, <1>3 DEF RequestType
<1>5. /\ req' \in [Requests -> RequestType] /\ req'[r] = q
      /\ \A x \in Requests : x # r => req'[x] = req[x]
  BY <1>2, <1>3 DEF Serving, Requested
<1>6. \A x \in Requests : Progress(x)'
  <2> TAKE x \in Requests
  <2>1. CASE x = r
    <3>1. q.pc = "done" /\ q.panic = "none" /\ q.wire = q.recorded /\ q.wire \in 200..599
          /\ q.depth > 3
      BY <1>1, <1>4
    <3> QED BY <1>5, <2>1, <3>1 DEF Progress
  <2>2. CASE x # r
    BY <1>5, <2>2 DEF Serving, Requested, Progress, WritesHeader
  <2> QED BY <2>1, <2>2
<1>7. KeyOf(r)' = key
  BY <1>1, <1>4, <1>5 DEF KeyOf, SeriesKey, Route
<1>8. ~Owed(r) /\ (Owed(r)' <=> "metrics" \in Options) /\ req'[r].latency = latency
  BY <1>1, <1>4, <1>5 DEF Owed
<1>9. PICK k, o : k = key /\ o = old
  OBVIOUS
<1>10. Counters' /\ Accounted'
  <2>1. CASE "metrics" \in Options
    <3> HIDE DEF key
    <3>1. o = IF k \in DOMAIN series THEN series[k] ELSE NoSeries
      BY <1>9
    <3>2. series' = [j \in DOMAIN series \cup {k} |->
                       IF j = k THEN Observed(o, latency) ELSE series[j]]
      BY <1>2, <1>9, <2>1
    <3> HIDE DEF old
    <3>3. KeyOf(r)' = k
      BY <1>7, <1>9
    <3> QED BY <1>1, <1>5, <1>8, <2>1, <3>1, <3>2, <3>3, CountOne DEF Serving
  <2>2. CASE "metrics" \notin Options
    <3>1. \A x \in Requests : (Owed(x)' <=> Owed(x)) /\ (Owed(x) => req'[x] = req[x])
      BY <1>5, <1>8, <2>2 DEF Owed
    <3> HIDE DEF key, old
    <3>2. series' = series
      BY <1>2, <2>2
    <3> QED BY <3>1, <3>2, NothingCounted DEF Serving
  <2> QED BY <2>1, <2>2
<1>11. Requested'
  BY <1>2, <1>5, <1>6 DEF Serving, Requested
<1> QED BY <1>10, <1>11 DEF Serving

\* The signal ends the contexts, and no answer depends on that here.
LEMMA BaseEndsKeeps ==
    ASSUME Serving, BaseEnds
    PROVE  Serving'
<1>1. /\ base' = "Canceled" /\ series' = series
      /\ req' = [r \in Requests |->
                   IF InFlight(r) /\ req[r].ctx = "nil"
                   THEN [req[r] EXCEPT !.ctx = "Canceled"] ELSE req[r]]
  BY DEF BaseEnds
<1>2. ASSUME NEW r \in Requests
      PROVE  /\ req'[r] \in RequestType
             /\ Progress(r)'
             /\ req[r].pc = "done" => req'[r] = req[r]
             /\ req'[r].pc = req[r].pc
  <2>1. req[r] \in RequestType /\ Progress(r)
    BY DEF Serving, Requested
  <2>2. CASE InFlight(r) /\ req[r].ctx = "nil"
    <3>1. req'[r] = [req[r] EXCEPT !.ctx = "Canceled"]
      BY <1>1, <2>2
    <3>2. /\ req'[r].pc = req[r].pc /\ req'[r].kind = req[r].kind /\ req'[r].depth = req[r].depth
          /\ req'[r].status = req[r].status /\ req'[r].wire = req[r].wire
          /\ req'[r].recorded = req[r].recorded /\ req'[r].sent = req[r].sent
          /\ req'[r].panic = req[r].panic
      BY <2>1, <3>1 DEF RequestType
    <3>3. "Canceled" \in Ends
      BY DEF Ends, ContextErrors
    <3>4. req'[r] \in RequestType
      BY <2>1, <3>1, <3>3 DEF RequestType
    <3>5. Progress(r)'
      BY <2>1, <3>2 DEF Progress, WritesHeader
    <3> QED BY <2>2, <3>2, <3>4, <3>5 DEF InFlight
  <2>3. CASE ~(InFlight(r) /\ req[r].ctx = "nil")
    <3>1. req'[r] = req[r]
      BY <1>1, <2>3
    <3> QED BY <2>1, <3>1 DEF Progress, WritesHeader
  <2> QED BY <2>2, <2>3
<1>3. Requested'
  BY <1>1, <1>2 DEF Requested
<1>4. \A r \in Requests : (Owed(r)' <=> Owed(r)) /\ (Owed(r) => req'[r] = req[r])
  BY <1>2 DEF Owed
<1> QED
  BY <1>1, <1>3, <1>4, NothingCounted DEF Serving

LEMMA RequestStepKeeps ==
    ASSUME Serving, NEW r \in Requests, RequestStep(r)
    PROVE  Serving'
BY ReturnKeeps, PanicKeeps, WriteKeeps, UnwindKeeps, RecoverKeeps, ContextKeeps DEF RequestStep

----------------------------------------------------------------------------
(* The service around them. *)

\* While the service runs, a step of a request decides nothing about its exit.
LEMMA DrainingStays ==
    ASSUME Draining, main # "exited", UNCHANGED <<listener, errCh, main, exit>>
    PROVE  Draining'
BY DEF Draining

LEMMA ServingStays ==
    ASSUME Serving, UNCHANGED <<base, req, series>>
    PROVE  Serving'
<1>1. \A r \in Requests : Progress(r)'
  BY DEF Serving, Requested, Progress, WritesHeader
<1>2. Requested'
  BY <1>1 DEF Serving, Requested
<1>3. \A r \in Requests : (Owed(r)' <=> Owed(r)) /\ (Owed(r) => req'[r] = req[r])
  BY DEF Owed
<1> QED
  BY <1>2, <1>3, NothingCounted DEF Serving

\* The listener, the select and the end of the drain.
LEMMA LifecycleKeeps ==
    ASSUME Draining, Listen \/ ListenFails \/ ListenReturns \/ ServeStep
    PROVE  Draining' /\ UNCHANGED <<base, req, series>>
<1>1. CASE Listen
  BY <1>1 DEF Listen, Running, Draining
<1>2. CASE ListenFails
  BY <1>2 DEF ListenFails, Running, Draining
<1>3. CASE ListenReturns
  BY <1>3 DEF ListenReturns, Running, Draining
<1>4. CASE SelectError
  <2>1. errCh = <<"error">>
    BY <1>4 DEF SelectError, Draining
  <2>2. exit' = 1 /\ main' = "exited" /\ errCh' = <<>> /\ UNCHANGED <<base, req, series>>
    BY <1>4, <2>1 DEF SelectError, Exits
  <2> QED BY <2>2 DEF Draining
<1>5. CASE SelectDone
  BY <1>5 DEF SelectDone, Draining
<1>6. CASE Drained
  <2>1. /\ \A r \in Requests : ~InFlight(r)
        /\ main' = "exited" /\ exit' = 0 /\ UNCHANGED <<base, req, series, errCh>>
    BY <1>6 DEF Drained, NoneInFlight, Exits
  <2>2. \A r \in Requests : ~InFlight(r)'
    BY <2>1 DEF InFlight
  <2> QED BY <2>1, <2>2 DEF Draining
<1>7. CASE GraceOver
  BY <1>7 DEF GraceOver, Exits, Draining
<1> QED
  BY <1>1, <1>2, <1>3, <1>4, <1>5, <1>6, <1>7 DEF ServeStep

LEMMA StepKeeps == IInv /\ [Next]_vars => IInv'
<1> SUFFICES ASSUME IInv, [Next]_vars PROVE IInv'
  OBVIOUS
<1>0. Serving /\ Draining
  BY DEF IInv, Serving
<1>1. CASE Listen \/ ListenFails \/ ListenReturns \/ ServeStep
  BY <1>0, <1>1, LifecycleKeeps, ServingStays DEF IInv, Serving
<1>2. ASSUME NEW r \in Requests, NEW kind \in Kinds, NEW throttled \in BOOLEAN,
             Accept(r, kind, throttled)
      PROVE  IInv'
  BY <1>0, <1>2, ArriveKeeps, DrainingStays DEF Accept, Running, IInv, Serving
<1>3. ASSUME NEW r \in Requests, Step(r)
      PROVE  IInv'
  BY <1>0, <1>3, RequestStepKeeps, DrainingStays DEF Step, Running, IInv, Serving
<1>4. CASE Signal
  BY <1>0, <1>4, BaseEndsKeeps, DrainingStays DEF Signal, Running, IInv, Serving
<1>5. CASE UNCHANGED vars
  <2>1. Draining'
    BY <1>0, <1>5 DEF vars, Draining, InFlight
  <2> QED
    BY <1>0, <1>5, <2>1, ServingStays DEF vars, IInv, Serving
<1> QED
  BY <1>1, <1>2, <1>3, <1>4, <1>5 DEF Next

LEMMA Inductive == Spec => []IInv
<1> QED
  BY Initially, StepKeeps, PTL DEF Spec

\* server.go:80-90, the order of the chain: every answer, a rejected preflight and
\* a throttled client included, is in the metrics once, as its client saw it, as
\* long as metrics are kept.
THEOREM Accounting == Spec => []Accounted
<1>1. IInv => Accounted
  BY DEF IInv
<1> QED
  BY <1>1, Inductive, PTL

\* An exit with success has answered every request it accepted.
THEOREM CleanEnd == Spec => []CleanExit
<1>1. ASSUME IInv PROVE CleanExit
  <2> SUFFICES ASSUME exit = 0, NEW r \in Requests,
                      req[r].pc # "unsent", req[r].panic # "abort"
               PROVE  req[r].wire # 0
    BY DEF CleanExit
  <2>1. req[r].pc = "done" /\ req[r] \in RequestType /\ Progress(r)
    BY <1>1 DEF IInv, Draining, InFlight, Requested
  <2>2. req[r].panic \in {"none", "bug"}
    BY <2>1 DEF RequestType
  <2> QED BY <2>1, <2>2 DEF Progress
<1> QED
  BY <1>1, Inductive, PTL
=============================================================================
