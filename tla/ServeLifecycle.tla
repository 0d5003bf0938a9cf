---------------------------- MODULE ServeLifecycle ---------------------------
(***************************************************************************)
(* cmd/tgju/serve.go and main.go: the goroutine that listens, the select   *)
(* between its error and the signal, and the drain, around the requests of *)
(* RequestPipeline.                                                        *)
(*                                                                         *)
(* The context that SIGTERM ends is also the BaseContext of the requests.  *)
(***************************************************************************)
EXTENDS RequestPipeline

VARIABLES
    listener,  \* ListenAndServe: starting, open, failed, closed, returned
    errCh,     \* the buffered channel of its result
    main,      \* serve: selecting, draining, exited
    exit       \* the process's exit code, or -1

vars == <<base, req, series, listener, errCh, main, exit>>

Init ==
    /\ PipelineInit
    /\ listener = "starting" /\ errCh = <<>>
    /\ main = "selecting" /\ exit = -1

Running == main # "exited"

Exits(code) == main' = "exited" /\ exit' = code

Listen ==
    /\ Running
    /\ listener = "starting"
    /\ listener' = "open"
    /\ UNCHANGED <<base, req, series, errCh, main, exit>>

\* The address is taken: the error goes to serve.
ListenFails ==
    /\ Running
    /\ listener = "starting"
    /\ listener' = "failed"
    /\ errCh' = <<"error">>
    /\ UNCHANGED <<base, req, series, main, exit>>

\* After Shutdown ListenAndServe returns ErrServerClosed; its nil is buffered.
ListenReturns ==
    /\ Running
    /\ listener = "closed"
    /\ listener' = "returned"
    /\ errCh' = <<"nil">>
    /\ UNCHANGED <<base, req, series, main, exit>>

Accept(r, kind, throttled) ==
    /\ Running
    /\ listener = "open"
    /\ Arrive(r, kind, throttled)
    /\ UNCHANGED <<listener, errCh, main, exit>>

Step(r) ==
    /\ Running
    /\ RequestStep(r)
    /\ UNCHANGED <<listener, errCh, main, exit>>

\* SIGTERM or Ctrl-C.
Signal ==
    /\ Running
    /\ BaseEnds
    /\ UNCHANGED <<listener, errCh, main, exit>>

\* The two cases of the select; either when both are ready.
SelectError ==
    /\ main = "selecting"
    /\ errCh # <<>>
    /\ Exits(IF errCh[1] = "error" THEN 1 ELSE 0)
    /\ errCh' = <<>>
    /\ UNCHANGED <<base, req, series, listener>>

\* Shutdown: the listener is closed, then the drain begins.
SelectDone ==
    /\ main = "selecting"
    /\ base # "nil"
    /\ main' = "draining"
    /\ listener' = IF listener = "failed" THEN "failed" ELSE "closed"
    /\ UNCHANGED <<base, req, series, errCh, exit>>

IdleEnough == TRUE  \* mutant: Close instead of Shutdown
NoneInFlight == \A r \in Requests : ~InFlight(r)

\* Nothing is in flight any more.
Drained ==
    /\ main = "draining"
    /\ NoneInFlight
    /\ Exits(0)
    /\ UNCHANGED <<base, req, series, listener, errCh>>

\* The grace is over first: Shutdown returns its context's error.
Unbounded == FALSE  \* mutant: Shutdown under a context without a deadline
GraceEnds == \E r \in Requests : InFlight(r)
GraceOver ==
    /\ main = "draining"
    /\ GraceEnds
    /\ Exits(1)
    /\ UNCHANGED <<base, req, series, listener, errCh>>

ServeStep == SelectError \/ SelectDone \/ Drained \/ GraceOver

Next ==
    \/ Listen
    \/ ListenFails
    \/ ListenReturns
    \/ \E r \in Requests, kind \in Kinds, throttled \in BOOLEAN : Accept(r, kind, throttled)
    \/ \E r \in Requests : Step(r)
    \/ Signal
    \/ ServeStep

Spec == Init /\ [][Next]_vars

\* serve's goroutine runs and its timer fires; a deadline passes; a handler
\* whose context has ended does not wait for the upstream any longer.  Nothing
\* is assumed of the upstream, nor of a client that reads its answer slowly.
FairSpec ==
    /\ Spec
    /\ WF_vars(ServeStep)
    /\ \A r \in Requests :
         /\ WF_vars(Running /\ Deadline(r) /\ UNCHANGED <<listener, errCh, main, exit>>)
         /\ WF_vars(Running /\ req[r].ctx # "nil" /\ HandlerReturns(r)
                    /\ UNCHANGED <<listener, errCh, main, exit>>)

----------------------------------------------------------------------------
\* An exit with success leaves no client unanswered: every request that was
\* accepted got a complete answer, unless its handler aborted it on purpose.
CleanExit ==
    exit = 0 => \A r \in Requests :
        req[r].pc # "unsent" /\ req[r].panic # "abort" => req[r].wire # 0

\* The deadline of the timeout middleware, the base context or the client ends
\* the wait of every handler, even when tgju.org never answers.
HandlerEnds ==
    \A r \in Requests : req[r].pc = "handling" ~> req[r].pc # "handling" \/ ~Running

\* After the signal the process ends, whatever the requests in flight do.
Stops == base # "nil" ~> ~Running

\* wiki/Running-the-Service.md:106: "`SIGTERM` drains in flight requests for
\* `--shutdown-grace` before exiting": a request that was accepted before the
\* signal is told that it was cancelled only when its client is gone.
DrainKeepsAnswers ==
    \A r \in Requests : req[r].early /\ req[r].wire = 408 => req[r].gone
=============================================================================
