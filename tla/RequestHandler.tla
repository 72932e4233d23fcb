--------------------------- MODULE RequestHandler ---------------------------
(***************************************************************************)
(* RequestHandler, src/src/engines/tunnel-client/request-handler.ts: a     *)
(* request that came through the tunnel is fetched from the local server.  *)
(* A handler is named after the connection whose assignment made it.  What *)
(* an action sends goes over the connection "over", or, when the tunnel is *)
(* down (None), nowhere.                                                   *)
(***************************************************************************)
EXTENDS FiniteSets, Naturals

CONSTANTS Requests, Handlers, MaxConcurrent, None

VARIABLES
    asked,    \* the connection a request came on
    holder,   \* the handler in whose pendingRequests it is
    fetch,    \* forwardToLocalServer(): "none", "running" or "over"
    answers   \* the frames sent about it: response or abort, and over what

requestVars == <<asked, holder, fetch, answers>>

Init ==
    /\ asked = [q \in Requests |-> None]
    /\ holder = [q \in Requests |-> None]
    /\ fetch = [q \in Requests |-> "none"]
    /\ answers = [q \in Requests |-> {}]

Pending(h) == {q \in Requests : holder[q] = h}

\* sendResponse() and sendAbort()
Send(qs, kind, over) ==
    answers' = [q \in Requests |->
        IF q \in qs /\ over # None THEN answers[q] \cup {<<kind, over>>} ELSE answers[q]]

\* handleRequest(), up to its await.
HandleRequest(q, on, h, over) ==
    /\ asked[q] = None
    /\ asked' = [asked EXCEPT ![q] = on]
    /\ \/ /\ Cardinality(Pending(h)) >= MaxConcurrent
          /\ Send({q}, "abort", over)
          /\ UNCHANGED <<holder, fetch>>
       \/ /\ Cardinality(Pending(h)) < MaxConcurrent
          /\ holder' = [holder EXCEPT ![q] = h]
          /\ fetch' = [fetch EXCEPT ![q] = "running"]
          /\ UNCHANGED answers

\* The local server answers, or the fetch throws, be the request pending or not.
Fetched(q, over) ==
    /\ fetch[q] = "running"
    /\ fetch' = [fetch EXCEPT ![q] = "over"]
    /\ holder' = [holder EXCEPT ![q] = None]
    /\ \E kind \in {"response", "abort"} : Send({q}, kind, over)
    /\ UNCHANGED asked

\* Its timer runs exactly while it is pending.
TimesOut_Silently(q, over) ==
    /\ holder[q] # None
    /\ holder' = [holder EXCEPT ![q] = None]
    /\ UNCHANGED <<asked, fetch, answers>>
TimesOut(q, over) ==
    /\ holder[q] # None
    /\ holder' = [holder EXCEPT ![q] = None]
    /\ Send({q}, "abort", over)
    /\ UNCHANGED <<asked, fetch>>

CancelAll(h, over) ==
    /\ holder' = [q \in Requests |-> IF q \in Pending(h) THEN None ELSE holder[q]]
    /\ Send(Pending(h), "abort", over)
    /\ UNCHANGED <<asked, fetch>>

TypeOK ==
    /\ asked \in [Requests -> Handlers \cup {None}]
    /\ holder \in [Requests -> Handlers \cup {None}]
    /\ fetch \in [Requests -> {"none", "running", "over"}]
    /\ answers \in [Requests -> SUBSET ({"response", "abort"} \X Handlers)]
=============================================================================
