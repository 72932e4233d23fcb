------------------------- MODULE ConversationManager -------------------------
(***************************************************************************)
(* ConversationManager.send(): src/src/engines/conversation-manager.ts,    *)
(* sendInternal(), for sends that reach the provider through one slave.    *)
(* pc[s] is the await at which a send stands.                              *)
(*                                                                         *)
(* A send uses the proxy's mutex three times, each with a ticket of its    *)
(* own: to navigate, for the harness plan (type_text, submit) and for the  *)
(* capture.  Its other commands (selector probes, Network.enable) change   *)
(* nothing here.  The answer to the text of send s is named s.             *)
(***************************************************************************)
EXTENDS Naturals, Sequences, FiniteSets

CONSTANTS Sends, Conversations, Texts,
          Empty,        \* what a capture without a body, or a failed parse, yields
          Undefined,    \* captureResult of a capture that threw
          Nobody

ASSUME SendAssumption == {Empty, Undefined, Nobody} \cap Sends = {}

VARIABLES
    pc,
    asked,     \* the arguments of a send
    stalled,   \* the sends whose command waits in BunCdpClient.connect()
    seen,      \* conv.messageCount as a send read it
    count,     \* store: messageCount per conversation
    rows,      \* store: <<conversation, role, content>>, which identityHash hashes
    page,      \* external: whether the tab shows the provider's page
    loading,   \* external: whether a load that Page.navigate began goes on
    composer,  \* external: whose text is in the composer
    reply,     \* external: the provider's answer to each text
    matched,   \* matchingRequests of a capture in progress
    captured,  \* captureResult.body, by the answer it is
    locked, queue, at   \* the slave's AsyncMutex

mutexVars == <<locked, queue, at>>
store == <<count, rows>>
tab == <<page, loading, composer, reply>>
capture == <<matched, captured>>
call == <<asked, seen, stalled>>
vars == <<pc, call, store, tab, capture, mutexVars>>

M == INSTANCE AsyncMutex WITH Tickets <- Sends \X {"navigate", "plan", "capture"}

Places == {"idle", "resolving", "navigating", "prepared", "typing", "typed", "blind",
           "submitted", "planned", "capturing", "listening", "heard", "findUser",
           "newUser", "findAssistant", "newAssistant", "stored", "ok", "failed"}
Settled == {"ok", "failed"}

Init ==
    /\ pc = [s \in Sends |-> "idle"]
    /\ asked \in [Sends -> [conv : Conversations, text : Texts]]
    /\ seen = [s \in Sends |-> 0]
    /\ stalled = {}
    /\ count = [c \in Conversations |-> 0]
    /\ rows = {}
    /\ page \in {"provider", "elsewhere"}
    /\ loading = FALSE
    /\ composer = Nobody
    /\ reply = [s \in Sends |-> "none"]
    /\ matched = [s \in Sends |-> {}]
    /\ captured = [s \in Sends |-> Undefined]
    /\ M!Init
-----------------------------------------------------------------------------
At(s, p) == pc[s] = p
Goto(s, p) == pc' = [pc EXCEPT ![s] = p]

Holds_Unchecked(s, use) == TRUE
Holds(s, use) == at[<<s, use>>] = "in"

Free_Kept(s, use) == UNCHANGED mutexVars
Free(s, use) == M!Release(<<s, use>>)

\* getConversation(): conv is kept until the end of the send.
Resolve(s) ==
    /\ At(s, "idle")
    /\ seen' = [seen EXCEPT ![s] = count[asked[s].conv]]
    /\ Goto(s, "resolving")
    /\ UNCHANGED <<asked, stalled, store, tab, capture, mutexVars>>

\* getPageState(); when it fails the send goes on as if the page were right.
CheckPage(s) ==
    /\ At(s, "resolving")
    /\ \/ Goto(s, "prepared") /\ UNCHANGED mutexVars
       \/ page = "elsewhere" /\ Goto(s, "navigating") /\ M!Acquire(<<s, "navigate">>)
    /\ UNCHANGED <<call, store, tab, capture>>

\* Page.navigate is answered, or refused; the load that it began goes on
\* without the mutex, through the 3 s of sleep and beyond ("prepared").
Navigate(s) ==
    /\ At(s, "navigating") /\ Holds(s, "navigate")
    /\ loading' \in {loading, TRUE}
    /\ Free(s, "navigate")
    /\ Goto(s, "prepared")
    /\ UNCHANGED <<call, store, page, composer, reply, capture>>

\* External: the new document is committed, or renders its composer anew.  It
\* takes the composer's text and the answers under way with it.
PageLoads ==
    /\ loading
    /\ loading' \in BOOLEAN
    /\ page' = "provider" /\ composer' = Nobody
    /\ reply' = [r \in Sends |-> IF reply[r] \in {"pending", "streaming"}
                                 THEN "lost" ELSE reply[r]]
    /\ UNCHANGED <<pc, call, store, capture, mutexVars>>

\* The store, the resolution, the slave or the connection throws.
PrepareFails(s) ==
    /\ At(s, "resolving") \/ At(s, "prepared")
    /\ Goto(s, "failed")
    /\ UNCHANGED <<call, store, tab, capture, mutexVars>>

\* executeHarnessPlan()
AskPlan(s) ==
    /\ At(s, "prepared")
    /\ M!Acquire(<<s, "plan">>)
    /\ Goto(s, "typing")
    /\ UNCHANGED <<call, store, tab, capture>>

\* type_text replaces the composer's text; nothing is thrown when the page
\* has no composer.
TypeText(s) ==
    /\ At(s, "typing") /\ Holds(s, "plan")
    /\ \/ page = "provider" /\ composer' = s /\ Goto(s, "typed")
       \/ Goto(s, "blind") /\ UNCHANGED composer
    /\ UNCHANGED <<call, store, page, loading, reply, capture, mutexVars>>

\* submit: the page posts what is in the composer, or ignores the key.
Submit(s) ==
    /\ At(s, "typed") \/ At(s, "blind")
    /\ \/ UNCHANGED tab
       \/ /\ composer # Nobody
          /\ reply' = [reply EXCEPT ![composer] = "pending"]
          /\ composer' = Nobody
          /\ UNCHANGED <<page, loading>>
    /\ Goto(s, "submitted")
    /\ UNCHANGED <<call, store, capture, mutexVars>>

PlanOk(s) ==
    /\ At(s, "submitted")
    /\ Free(s, "plan")
    /\ Goto(s, "planned")
    /\ UNCHANGED <<call, store, tab, capture>>

\* A command of the plan throws, be it after the text was posted.
PlanFails(s) ==
    /\ \/ At(s, "typing") /\ Holds(s, "plan")
       \/ pc[s] \in {"typed", "blind", "submitted"}
    /\ Free(s, "plan")
    /\ Goto(s, "failed")
    /\ UNCHANGED <<call, store, tab, capture>>
-----------------------------------------------------------------------------
(* CDPProxy.capture() and CDPTransport.capture(). *)
AskCapture(s) ==
    /\ At(s, "planned")
    /\ \/ Goto(s, "capturing") /\ M!Acquire(<<s, "capture">>)
       \/ Goto(s, "findUser") /\ UNCHANGED mutexVars      \* cannot connect
    /\ UNCHANGED <<call, store, tab, capture>>

\* Network.enable is answered: the handlers are installed, or it threw.
Listen(s) ==
    /\ At(s, "capturing") /\ Holds(s, "capture")
    /\ \/ Goto(s, "listening") /\ UNCHANGED mutexVars
       \/ Goto(s, "findUser") /\ Free(s, "capture")
    /\ UNCHANGED <<call, store, tab, capture>>

\* finish() in each of the captures given: the handlers go.
Forget_Kept(captures) == UNCHANGED matched
Forget(captures) == matched' = [s \in Sends |-> IF s \in captures THEN {} ELSE matched[s]]

FinishCapture(captures, body) ==
    /\ captured' = [s \in Sends |-> IF s \in captures THEN body ELSE captured[s]]
    /\ Forget(captures)
    /\ pc' = [s \in Sends |-> IF s \in captures THEN "heard" ELSE pc[s]]

\* The timer resolves with '' too: its reject() comes second.
Timeout(s) ==
    /\ At(s, "listening")
    /\ FinishCapture({s}, Empty)
    /\ UNCHANGED <<call, store, tab, mutexVars>>

EndCapture(s) ==
    /\ At(s, "heard")
    /\ Free(s, "capture")
    /\ Goto(s, "findUser")
    /\ UNCHANGED <<call, store, tab, capture>>

\* External: Network.responseReceived for an answer, seen by who listens.
Headers(r) ==
    /\ reply[r] = "pending"
    /\ reply' = [reply EXCEPT ![r] = "streaming"]
    /\ matched' = [l \in Sends |-> IF At(l, "listening") THEN matched[l] \cup {r} ELSE matched[l]]
    /\ UNCHANGED <<pc, call, store, page, loading, composer, captured, mutexVars>>

\* External: loadingFinished (with a body that can be fetched or not) or
\* loadingFailed, also for what a navigation cut off.
AnswerEnds(r) ==
    /\ reply[r] \in {"streaming", "lost"}
    /\ reply' = [reply EXCEPT ![r] = "over"]
    /\ \E body \in {Empty} \cup (IF reply[r] = "streaming" THEN {r} ELSE {}) :
          FinishCapture({l \in Sends : At(l, "listening") /\ r \in matched[l]}, body)
    /\ UNCHANGED <<call, store, page, loading, composer, mutexVars>>
-----------------------------------------------------------------------------
(* [8] STORE.  A row that is there already is not stored again. *)
Content(s) == IF captured[s] = Undefined THEN Empty ELSE captured[s]
Row(s, role) == <<asked[s].conv, role, IF role = "user" THEN asked[s].text ELSE Content(s)>>

Known_Anywhere(s, role) == \E row \in rows : row[2] = role /\ row[3] = Row(s, role)[3]
Known(s, role) == Row(s, role) \in rows

\* getMessageByIdentityHash()
Find(s, role, from, absent, present) ==
    /\ At(s, from)
    /\ Goto(s, IF Known(s, role) THEN present ELSE absent)
    /\ UNCHANGED <<call, store, tab, capture, mutexVars>>

\* createMessageWithIdentity(): identityHash is unique, so the second insert throws.
Create(s, role, from, next) ==
    /\ At(s, from)
    /\ Row(s, role) \notin rows
    /\ rows' = rows \cup {Row(s, role)}
    /\ Goto(s, next)
    /\ UNCHANGED <<call, count, tab, capture, mutexVars>>

StoreFails(s) ==
    /\ pc[s] \in {"findUser", "newUser", "findAssistant", "newAssistant", "stored"}
    /\ Goto(s, "failed")
    /\ UNCHANGED <<call, store, tab, capture, mutexVars>>

\* After the blocks and the nodes, whose capture reads captureResult.body.
Complete(s) ==
    /\ At(s, "stored") /\ captured[s] # Undefined
    /\ count' = [count EXCEPT ![asked[s].conv] = seen[s] + 2]
    /\ Goto(s, "ok")
    /\ UNCHANGED <<call, rows, tab, capture, mutexVars>>
-----------------------------------------------------------------------------
\* A command is sent, or a connection opened: both may wait in
\* BunCdpClient.connect(), which has no timer, without going on.
Connects(s) ==
    \/ pc[s] \in {"resolving", "prepared", "typed", "blind", "submitted", "planned"}
    \/ At(s, "navigating") /\ Holds(s, "navigate")
    \/ At(s, "typing") /\ Holds(s, "plan")
    \/ At(s, "capturing") /\ Holds(s, "capture")

Stalls(s) ==
    /\ s \notin stalled /\ Connects(s)
    /\ stalled' = stalled \cup {s}
    /\ UNCHANGED <<pc, asked, seen, store, tab, capture, mutexVars>>

Resumes(s) ==
    /\ s \in stalled
    /\ stalled' = stalled \ {s}
    /\ UNCHANGED <<pc, asked, seen, store, tab, capture, mutexVars>>

SendStep(s) ==
    /\ s \notin stalled
    /\ \/ CheckPage(s) \/ Navigate(s) \/ PrepareFails(s) \/ AskPlan(s)
       \/ TypeText(s) \/ Submit(s) \/ PlanOk(s) \/ PlanFails(s)
       \/ AskCapture(s) \/ Listen(s) \/ Timeout(s) \/ EndCapture(s)
       \/ Find(s, "user", "findUser", "newUser", "findAssistant")
       \/ Create(s, "user", "newUser", "findAssistant")
       \/ Find(s, "assistant", "findAssistant", "newAssistant", "stored")
       \/ Create(s, "assistant", "newAssistant", "stored")
       \/ StoreFails(s) \/ Complete(s)

Next ==
    \/ \E s \in Sends : Resolve(s) \/ SendStep(s) \/ Stalls(s) \/ Resumes(s)
                          \/ Headers(s) \/ AnswerEnds(s)
    \/ PageLoads

Spec == Init /\ [][Next]_vars

\* A send that is not stalled goes on: store calls end, and timers bound a
\* command that was sent, and the capture.  The fairness is strong because a
\* command waits at most once: when its wait ends, it is sent.  Nothing ends
\* the wait; nobody has to send, and the provider does not have to answer.
Fairness == \A s \in Sends : SF_vars(SendStep(s))

FairSpec == Spec /\ Fairness
-----------------------------------------------------------------------------
\* Types; only a capture in progress remembers requests.
TypeOK ==
    /\ pc \in [Sends -> Places]
    /\ asked \in [Sends -> [conv : Conversations, text : Texts]]
    /\ seen \in [Sends -> Nat] /\ count \in [Conversations -> Nat]
    /\ rows \subseteq Conversations \X {"user", "assistant"}
                        \X (Texts \cup Sends \cup {Empty})
    /\ stalled \subseteq Sends
    /\ page \in {"provider", "elsewhere"} /\ loading \in BOOLEAN
    /\ composer \in Sends \cup {Nobody}
    /\ reply \in [Sends -> {"none", "pending", "streaming", "lost", "over"}]
    /\ matched \in [Sends -> SUBSET Sends]
    /\ \A s \in Sends : matched[s] # {} => At(s, "listening")
    /\ captured \in [Sends -> Sends \cup {Empty, Undefined}]
    /\ M!TypeOK

\* The plan is one critical section: between a text that landed and its
\* submit no other send types or submits.  A page load, which is outside of
\* it, can still empty the composer, but never leaves another's text in it.
TypedTextIsOwn == \A s \in Sends : At(s, "typed") => composer \in {s, Nobody}

\* No answer is attributed to two sends.
AnswerAttributedOnce ==
    \A s, t \in Sends : captured[s] = captured[t] /\ captured[s] \in Sends => s = t

\* A send that reports success has both of its messages in its conversation,
\* whatever races with it for the identity hash.
OkIsStored == \A s \in Sends : At(s, "ok") => \A role \in {"user", "assistant"} : Row(s, role) \in rows

\* Every send returns, unless some send waits for a connection for ever: it
\* may do so while it holds the slave's mutex.
SendSettles ==
    \/ \E s \in Sends : <>[](s \in stalled)
    \/ \A s \in Sends : ~At(s, "idle") ~> pc[s] \in Settled

\* "RESOLVE -> DERIVE SLAVE -> LOCK -> ENSURE -> SEND -> CAPTURE": a send does
\* not capture the answer that another send is waiting for.
OwnAnswer ==
    \A s, t \in Sends : captured[s] = t /\ s # t => pc[t] \notin {"planned", "capturing", "listening"}
=============================================================================
