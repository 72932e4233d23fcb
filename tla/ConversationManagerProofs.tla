---------------------- MODULE ConversationManagerProofs ----------------------
(***************************************************************************)
(* ConversationManager for every set of sends, conversations and texts:    *)
(* it uses the mutex as AsyncMutex prescribes; hence plans exclude each    *)
(* other, no answer goes to two sends, and success means stored.           *)
(***************************************************************************)
EXTENDS ConversationManager, TLAPS

Uses == {"navigate", "plan", "capture"}
MP == INSTANCE AsyncMutexProofs WITH Tickets <- Sends \X {"navigate", "plan", "capture"}

LEMMA TicketsDiffer ==
    ASSUME NEW s \in Sends, NEW t \in Sends, NEW u \in Uses, NEW v \in Uses
    PROVE  /\ <<s, u>> \in Sends \X {"navigate", "plan", "capture"}
           /\ <<s, u>> = <<t, v>> => s = t /\ u = v
  BY DEF Uses

\* Each step of a send acquires, releases, or leaves the mutex alone.
LEMMA StepUsesMutex == [Next]_vars => [MP!Next]_MP!mutexVars
<1> SUFFICES ASSUME [Next]_vars  PROVE [MP!Next]_MP!mutexVars
  OBVIOUS
<1>1. ASSUME NEW s \in Sends, NEW u \in Uses, M!Acquire(<<s, u>>)  PROVE MP!Next
  BY <1>1, TicketsDiffer DEF M!Acquire, M!Free, MP!Acquire, MP!Free, MP!Next
<1>2. ASSUME NEW s \in Sends, NEW u \in Uses, Free(s, u)  PROVE MP!Next
  BY <1>2, TicketsDiffer
     DEF Free, M!Release, M!Wake, M!HandOn, MP!Release, MP!Wake, MP!HandOn, MP!Next
<1>3. ASSUME UNCHANGED mutexVars  PROVE UNCHANGED MP!mutexVars
  BY <1>3 DEF mutexVars, MP!mutexVars
<1>4. CASE UNCHANGED vars
  BY <1>3, <1>4 DEF vars
<1>5. ASSUME NEW s \in Sends,
             \/ Resolve(s) \/ PrepareFails(s) \/ TypeText(s) \/ Submit(s) \/ Timeout(s)
             \/ StoreFails(s) \/ Complete(s) \/ Stalls(s) \/ Resumes(s)
             \/ Headers(s) \/ AnswerEnds(s)
      PROVE  UNCHANGED MP!mutexVars
  BY <1>3, <1>5 DEF Resolve, PrepareFails, TypeText, Submit, Timeout, StoreFails, Complete,
     Stalls, Resumes, Headers, AnswerEnds
<1>6. ASSUME NEW s \in Sends, NEW role, NEW from, NEW p, NEW q,
             Find(s, role, from, p, q) \/ Create(s, role, from, p)
      PROVE  UNCHANGED MP!mutexVars
  BY <1>3, <1>6 DEF Find, Create
<1>7. ASSUME NEW s \in Sends, CheckPage(s) \/ AskPlan(s) \/ AskCapture(s)
      PROVE  [MP!Next]_MP!mutexVars
  BY <1>1, <1>3, <1>7 DEF CheckPage, AskPlan, AskCapture, Uses
<1>8. ASSUME NEW s \in Sends,
             Navigate(s) \/ PlanOk(s) \/ PlanFails(s) \/ Listen(s) \/ EndCapture(s)
      PROVE  [MP!Next]_MP!mutexVars
  BY <1>2, <1>3, <1>8 DEF Navigate, PlanOk, PlanFails, Listen, EndCapture, Uses
<1>9. CASE PageLoads
  BY <1>3, <1>9 DEF PageLoads
<1>10. QED
  BY <1>4, <1>5, <1>6, <1>7, <1>8, <1>9 DEF Next, SendStep

LEMMA SendsUseMutex == Spec => MP!Spec
<1>1. Init => MP!Init
  BY DEF Init, M!Init, MP!Init
<1>2. QED
  BY <1>1, StepUsesMutex, PTL DEF Spec, MP!Spec

LEMMA SendsMutexInv == Spec => []MP!MutexInv
  BY SendsUseMutex, MP!MutexInvariant, PTL

LEMMA MutexEffects ==
    ASSUME MP!MutexInv, NEW t \in Sends \X {"navigate", "plan", "capture"}
    PROVE  /\ M!Acquire(t) =>
                /\ at'[t] # "out"
                /\ \A u \in Sends \X {"navigate", "plan", "capture"} : u # t => at'[u] = at[u]
           /\ M!Release(t) =>
                /\ at[t] = "in" /\ at'[t] = "out"
                /\ \A u \in Sends \X {"navigate", "plan", "capture"} : u # t =>
                      at[u] # "in" /\ (at'[u] = "out" <=> at[u] = "out")
  BY MP!MutexEffects DEF M!Acquire, M!Free, M!Release, M!Wake, M!HandOn,
     MP!Acquire, MP!Free, MP!Release, MP!Wake, MP!HandOn
-----------------------------------------------------------------------------
(* Where a send uses the mutex, and where it has got it. *)
Section(use) ==
    CASE use = "navigate" -> {"navigating"}
      [] use = "plan"     -> {"typing", "typed", "blind", "submitted"}
      [] use = "capture"  -> {"capturing", "listening", "heard"}

Owning(use) ==
    CASE use = "navigate" -> {}
      [] use = "plan"     -> {"typed", "blind", "submitted"}
      [] use = "capture"  -> {"listening", "heard"}

Outside(p) == \A use \in Uses : p \notin Section(use)

TicketInv ==
    /\ pc \in [Sends -> Places]
    /\ \A s \in Sends, use \in Uses :
          /\ at[<<s, use>>] # "out" <=> pc[s] \in Section(use)
          /\ pc[s] \in Owning(use) => at[<<s, use>>] = "in"

LEMMA SectionsAreFixed == \A use \in Uses : Section(use)' = Section(use) /\ Owning(use)' = Owning(use)
  BY DEF Section, Owning

\* Steps without acquire() or release().
LEMMA MoveKeepsTickets ==
    ASSUME TicketInv, UNCHANGED at, pc' \in [Sends -> Places],
           \A s \in Sends, use \in Uses :
              /\ pc'[s] \in Section(use) <=> pc[s] \in Section(use)
              /\ pc'[s] \in Owning(use) => at[<<s, use>>] = "in"
    PROVE  TicketInv'
  BY SectionsAreFixed DEF TicketInv

LEMMA EnterKeepsTickets ==
    ASSUME TicketInv, MP!MutexInv, NEW s \in Sends, NEW use \in Uses, NEW p \in Places,
           Outside(pc[s]), Goto(s, p), p \in Section(use), \A u \in Uses : p \notin Owning(u),
           M!Acquire(<<s, use>>)
    PROVE  TicketInv'
<1>1. /\ pc' \in [Sends -> Places] /\ pc'[s] = p
      /\ \A t \in Sends \ {s} : pc'[t] = pc[t]
  BY DEF TicketInv, Goto
<1>2. /\ at'[<<s, use>>] # "out"
      /\ \A t \in Sends, u \in Uses : <<t, u>> # <<s, use>> => at'[<<t, u>>] = at[<<t, u>>]
  BY MutexEffects, TicketsDiffer
<1>3. \A u \in Uses : p \in Section(u) <=> u = use
  BY DEF Section, Uses
<1>4. ASSUME NEW t \in Sends, NEW u \in Uses
      PROVE  /\ at'[<<t, u>>] # "out" <=> pc'[t] \in Section(u)
             /\ pc'[t] \in Owning(u) => at'[<<t, u>>] = "in"
  <2>1. CASE t = s /\ u = use
    BY <1>1, <1>2, <2>1
  <2>2. CASE ~(t = s /\ u = use)
    <3>1. at'[<<t, u>>] = at[<<t, u>>]
      BY <1>2, <2>2, TicketsDiffer
    <3>2. QED
      BY <1>1, <1>3, <2>2, <3>1 DEF TicketInv, Outside
  <2>3. QED
    BY <2>1, <2>2
<1>5. QED
  BY <1>1, <1>4, SectionsAreFixed DEF TicketInv

LEMMA LeaveKeepsTickets ==
    ASSUME TicketInv, MP!MutexInv, NEW s \in Sends, NEW use \in Uses, NEW p \in Places,
           pc[s] \in Section(use), Goto(s, p), Outside(p), Free(s, use)
    PROVE  TicketInv'
<1>1. /\ pc' \in [Sends -> Places] /\ pc'[s] = p
      /\ \A t \in Sends \ {s} : pc'[t] = pc[t]
  BY DEF TicketInv, Goto
<1>2. /\ at'[<<s, use>>] = "out"
      /\ \A t \in Sends, u \in Uses : <<t, u>> # <<s, use>> =>
            at[<<t, u>>] # "in" /\ (at'[<<t, u>>] = "out" <=> at[<<t, u>>] = "out")
  BY MutexEffects, TicketsDiffer DEF Free
<1>3. \A u \in Uses : (pc[s] \in Section(u) <=> u = use) /\ p \notin Owning(u)
  BY DEF Section, Owning, Outside, Uses
<1>4. ASSUME NEW t \in Sends, NEW u \in Uses
      PROVE  /\ at'[<<t, u>>] # "out" <=> pc'[t] \in Section(u)
             /\ pc'[t] \in Owning(u) => at'[<<t, u>>] = "in"
  <2>1. CASE t = s
    BY <1>1, <1>2, <1>3, <2>1, TicketsDiffer DEF TicketInv, Outside
  <2>2. CASE t # s
    BY <1>1, <1>2, <2>2, TicketsDiffer DEF TicketInv
  <2>3. QED
    BY <2>1, <2>2
<1>5. QED
  BY <1>1, <1>4, SectionsAreFixed DEF TicketInv

LEMMA InitTicketInv == Init => TicketInv
<1> SUFFICES ASSUME Init  PROVE TicketInv
  OBVIOUS
<1>1. \A s \in Sends, use \in Uses : at[<<s, use>>] = "out"
  BY TicketsDiffer DEF Init, M!Init
<1>2. \A use \in Uses : "idle" \notin Section(use) /\ "idle" \notin Owning(use)
  BY DEF Section, Owning, Uses
<1>3. pc = [s \in Sends |-> "idle"] /\ "idle" \in Places
  BY DEF Init, Places
<1>4. QED
  BY <1>1, <1>2, <1>3 DEF TicketInv

\* One send moves between places that are equal for the mutex, ...
LEMMA GotoKeepsTickets ==
    ASSUME TicketInv, NEW s \in Sends, NEW p \in Places, Goto(s, p), UNCHANGED at,
           \/ Outside(pc[s]) /\ Outside(p)
           \/ \E use \in Uses :
                 /\ pc[s] \in Section(use) /\ p \in Section(use)
                 /\ at[<<s, use>>] = "in"
    PROVE  TicketInv'
<1>1. /\ pc' \in [Sends -> Places] /\ pc'[s] = p
      /\ \A t \in Sends \ {s} : pc'[t] = pc[t]
  BY DEF TicketInv, Goto
<1>2. \A q : \A u, v \in Uses : q \in Section(u) /\ q \in Section(v) => u = v
  BY DEF Section, Uses
<1>3. \A q : \A u \in Uses : q \in Owning(u) => q \in Section(u)
  BY DEF Section, Owning, Uses
<1>4. ASSUME NEW t \in Sends, NEW u \in Uses
      PROVE  /\ pc'[t] \in Section(u) <=> pc[t] \in Section(u)
             /\ pc'[t] \in Owning(u) => at[<<t, u>>] = "in"
  BY <1>1, <1>2, <1>3 DEF TicketInv, Outside
<1>5. QED
  BY <1>1, <1>4, MoveKeepsTickets

\* ... or all those that a captured answer concerns.
LEMMA FinishKeepsTickets ==
    ASSUME TicketInv, NEW captures \in SUBSET Sends, NEW body, FinishCapture(captures, body),
           UNCHANGED at, \A s \in captures : pc[s] = "listening"
    PROVE  TicketInv'
<1>1. /\ pc' \in [Sends -> Places]
      /\ \A s \in Sends : pc'[s] = IF s \in captures THEN "heard" ELSE pc[s]
  BY DEF TicketInv, FinishCapture, Places
<1>2. \A u \in Uses : /\ "heard" \in Section(u) <=> "listening" \in Section(u)
                      /\ "heard" \in Owning(u) <=> "listening" \in Owning(u)
  BY DEF Section, Owning, Uses
<1>3. ASSUME NEW t \in Sends, NEW u \in Uses
      PROVE  /\ pc'[t] \in Section(u) <=> pc[t] \in Section(u)
             /\ pc'[t] \in Owning(u) => at[<<t, u>>] = "in"
  BY <1>1, <1>2 DEF TicketInv
<1>4. QED
  BY <1>1, <1>3, MoveKeepsTickets

LEMMA StepTicketInv == TicketInv /\ MP!MutexInv /\ [Next]_vars => TicketInv'
<1> SUFFICES ASSUME TicketInv, MP!MutexInv, [Next]_vars  PROVE TicketInv'
  OBVIOUS
<1>1. \A p \in {"idle", "resolving", "prepared", "planned", "findUser", "newUser",
               "findAssistant", "newAssistant", "stored", "ok", "failed"} : Outside(p) /\ p \in Places
  BY DEF Outside, Section, Places, Uses
<1>2. /\ "navigate" \in Uses /\ Section("navigate") = {"navigating"} /\ Owning("navigate") = {}
      /\ "plan" \in Uses /\ Section("plan") = {"typing", "typed", "blind", "submitted"}
      /\ Owning("plan") = {"typed", "blind", "submitted"}
      /\ "capture" \in Uses /\ Section("capture") = {"capturing", "listening", "heard"}
      /\ Owning("capture") = {"listening", "heard"}
      /\ Uses = {"navigate", "plan", "capture"}
  BY DEF Uses, Section, Owning
<1>3. {"navigating", "typing", "typed", "blind", "submitted", "capturing", "listening", "heard"}
        \subseteq Places
  BY DEF Places
<1>4. ASSUME UNCHANGED <<pc, mutexVars>>  PROVE TicketInv'
  BY <1>4, SectionsAreFixed DEF TicketInv, mutexVars
<1>5. ASSUME NEW s \in Sends, Resolve(s) \/ PrepareFails(s) \/ StoreFails(s) \/ Complete(s)
      PROVE  TicketInv'
  BY <1>1, <1>5, GotoKeepsTickets DEF Resolve, PrepareFails, StoreFails, Complete, At, mutexVars
<1>6. ASSUME NEW s \in Sends, NEW role,
             NEW from \in {"findUser", "newUser", "findAssistant", "newAssistant"},
             NEW p \in {"newUser", "newAssistant", "findAssistant", "stored"},
             NEW q \in {"findAssistant", "stored"},
             Find(s, role, from, p, q) \/ Create(s, role, from, p)
      PROVE  TicketInv'
  BY <1>1, <1>6, GotoKeepsTickets DEF Find, Create, At, mutexVars
<1>7. ASSUME NEW s \in Sends, CheckPage(s)  PROVE TicketInv'
  <2>1. CASE Goto(s, "prepared") /\ UNCHANGED mutexVars
    BY <1>1, <1>7, <2>1, GotoKeepsTickets DEF CheckPage, At, mutexVars
  <2>2. CASE Goto(s, "navigating") /\ M!Acquire(<<s, "navigate">>)
    <3>1. /\ Outside(pc[s]) /\ "navigating" \in Places /\ "navigating" \in Section("navigate")
          /\ "navigate" \in Uses /\ \A u \in Uses : "navigating" \notin Owning(u)
      BY <1>1, <1>2, <1>3, <1>7 DEF CheckPage, At
    <3>2. QED
      BY <2>2, <3>1, EnterKeepsTickets
  <2>3. QED
    BY <1>7, <2>1, <2>2 DEF CheckPage
<1>8. ASSUME NEW s \in Sends, Navigate(s)  PROVE TicketInv'
  <2>1. pc[s] \in Section("navigate") /\ Goto(s, "prepared") /\ Free(s, "navigate")
    BY <1>2, <1>8 DEF Navigate, At
  <2>2. "navigate" \in Uses /\ Outside("prepared") /\ "prepared" \in Places
    BY <1>1, <1>2
  <2>3. QED
    BY <2>1, <2>2, LeaveKeepsTickets
<1>9. ASSUME NEW s \in Sends, AskPlan(s)  PROVE TicketInv'
  <2>1. Outside(pc[s]) /\ Goto(s, "typing") /\ M!Acquire(<<s, "plan">>)
    BY <1>1, <1>9 DEF AskPlan, At
  <2>2. /\ "plan" \in Uses /\ "typing" \in Places /\ "typing" \in Section("plan")
        /\ \A u \in Uses : "typing" \notin Owning(u)
    BY <1>2, <1>3
  <2>3. QED
    BY <2>1, <2>2, EnterKeepsTickets
<1>10. ASSUME NEW s \in Sends, TypeText(s) \/ Submit(s)  PROVE TicketInv'
  <2>1. pc[s] \in Section("plan") /\ at[<<s, "plan">>] = "in" /\ UNCHANGED at
    BY <1>2, <1>10 DEF TypeText, Submit, TicketInv, At, Holds, mutexVars
  <2>2. PICK p \in {"typed", "blind", "submitted"} : Goto(s, p)
    BY <1>10 DEF TypeText, Submit
  <2>3. QED
    BY <1>2, <1>3, <2>1, <2>2, GotoKeepsTickets
<1>11. ASSUME NEW s \in Sends, PlanOk(s) \/ PlanFails(s)  PROVE TicketInv'
  BY <1>1, <1>2, <1>11, LeaveKeepsTickets DEF PlanOk, PlanFails, At
<1>12. ASSUME NEW s \in Sends, AskCapture(s)  PROVE TicketInv'
  <2>1. CASE Goto(s, "findUser") /\ UNCHANGED mutexVars
    BY <1>1, <1>12, <2>1, GotoKeepsTickets DEF AskCapture, At, mutexVars
  <2>2. CASE Goto(s, "capturing") /\ M!Acquire(<<s, "capture">>)
    <3>1. /\ Outside(pc[s]) /\ "capturing" \in Places /\ "capturing" \in Section("capture")
          /\ "capture" \in Uses /\ \A u \in Uses : "capturing" \notin Owning(u)
      BY <1>1, <1>2, <1>3, <1>12 DEF AskCapture, At
    <3>2. QED
      BY <2>2, <3>1, EnterKeepsTickets
  <2>3. QED
    BY <1>12, <2>1, <2>2 DEF AskCapture
<1>13. ASSUME NEW s \in Sends, Listen(s)  PROVE TicketInv'
  <2>1. CASE Goto(s, "listening") /\ UNCHANGED mutexVars
    BY <1>2, <1>3, <1>13, <2>1, GotoKeepsTickets DEF Listen, At, Holds, mutexVars
  <2>2. CASE Goto(s, "findUser") /\ Free(s, "capture")
    BY <1>1, <1>2, <1>13, <2>2, LeaveKeepsTickets DEF Listen, At
  <2>3. QED
    BY <1>13, <2>1, <2>2 DEF Listen
<1>14. ASSUME NEW s \in Sends, Timeout(s)  PROVE TicketInv'
  BY <1>14, FinishKeepsTickets DEF Timeout, At, mutexVars
<1>15. ASSUME NEW s \in Sends, EndCapture(s)  PROVE TicketInv'
  BY <1>1, <1>2, <1>15, LeaveKeepsTickets DEF EndCapture, At
<1>16. ASSUME NEW r \in Sends, Headers(r) \/ Stalls(r) \/ Resumes(r)  PROVE TicketInv'
  BY <1>4, <1>16 DEF Headers, Stalls, Resumes
<1>17. ASSUME NEW r \in Sends, AnswerEnds(r)  PROVE TicketInv'
  BY <1>17, FinishKeepsTickets DEF AnswerEnds, At, mutexVars
<1>18. CASE PageLoads \/ UNCHANGED vars
  BY <1>4, <1>18 DEF PageLoads, vars
<1>19. ASSUME NEW s \in Sends, SendStep(s)  PROVE TicketInv'
  BY <1>5, <1>6, <1>7, <1>8, <1>9, <1>10, <1>11, <1>12, <1>13, <1>14, <1>15, <1>19 DEF SendStep
<1>20. QED
  BY <1>5, <1>16, <1>17, <1>18, <1>19 DEF Next
-----------------------------------------------------------------------------
(* The composer. *)
Early == {"idle", "resolving", "navigating", "prepared", "typing"}
Replies == {"none", "pending", "streaming", "lost", "over"}

(***************************************************************************)
(* A text is typed once, and posted at most once: it has no answer before. *)
(***************************************************************************)
ComposerInv ==
    /\ page \in {"provider", "elsewhere"}
    /\ composer \in Sends \cup {Nobody}
    /\ reply \in [Sends -> Replies]
    /\ \A s \in Sends : pc[s] \in Early => reply[s] = "none" /\ composer # s
    /\ \A s \in Sends : composer = s => reply[s] = "none"
    /\ TypedTextIsOwn

LEMMA InitComposerInv == Init => ComposerInv
  BY SendAssumption DEF Init, ComposerInv, Replies, TypedTextIsOwn, At

\* The mutex has one owner.
LEMMA OneOwner ==
    ASSUME MP!MutexInv, NEW s \in Sends, NEW t \in Sends, NEW u \in Uses, NEW v \in Uses,
           at[<<s, u>>] = "in", at[<<t, v>>] = "in"
    PROVE  s = t /\ u = v
  BY TicketsDiffer DEF MP!MutexInv, MP!MutualExclusion

LEMMA QuietComposer ==
    ASSUME ComposerInv, UNCHANGED <<page, composer, reply>>,
           \A s \in Sends : /\ pc'[s] \in Early => pc[s] \in Early
                            /\ pc'[s] = "typed" => pc[s] = "typed"
    PROVE  ComposerInv'
  BY DEF ComposerInv, TypedTextIsOwn, At

LEMMA StepComposerInv ==
    ComposerInv /\ TicketInv /\ MP!MutexInv /\ [Next]_vars => ComposerInv'
<1> SUFFICES ASSUME ComposerInv, TicketInv, MP!MutexInv, [Next]_vars  PROVE ComposerInv'
  OBVIOUS
<1>1. pc \in [Sends -> Places] /\ Nobody \notin Sends
  BY SendAssumption DEF TicketInv
<1>2. ASSUME NEW s \in Sends, NEW p, Goto(s, p), UNCHANGED tab, p # "typed",
             p \in Early => pc[s] \in Early
      PROVE  ComposerInv'
  BY <1>1, <1>2, QuietComposer DEF Goto, tab
<1>3. ASSUME UNCHANGED <<pc, tab>>  PROVE ComposerInv'
  BY <1>3, QuietComposer DEF tab
\* Nobody else has typed while a send owns the mutex.
<1>4. ASSUME NEW s \in Sends, NEW use \in Uses, at[<<s, use>>] = "in",
             NEW t \in Sends, pc[t] = "typed"
      PROVE  t = s /\ use = "plan"
  <2>1. at[<<t, "plan">>] = "in" /\ "plan" \in Uses
    BY <1>4 DEF TicketInv, Owning, Uses
  <2>2. QED
    BY <1>4, <2>1, OneOwner
<1>5. ASSUME NEW s \in Sends,
             \/ Resolve(s) \/ CheckPage(s) \/ PrepareFails(s) \/ AskPlan(s) \/ PlanOk(s)
             \/ PlanFails(s) \/ AskCapture(s) \/ Listen(s) \/ EndCapture(s)
             \/ StoreFails(s) \/ Complete(s)
      PROVE  ComposerInv'
  BY <1>2, <1>5 DEF Resolve, CheckPage, PrepareFails, AskPlan, PlanOk, PlanFails, AskCapture,
     Listen, EndCapture, StoreFails, Complete, At, Early
<1>6. ASSUME NEW s \in Sends, NEW role, NEW from,
             NEW p \in {"newUser", "newAssistant", "findAssistant", "stored"},
             NEW q \in {"findAssistant", "stored"},
             Find(s, role, from, p, q) \/ Create(s, role, from, p)
      PROVE  ComposerInv'
  BY <1>2, <1>6 DEF Find, Create, Early
<1>7. ASSUME NEW s \in Sends, Navigate(s)  PROVE ComposerInv'
  <2>1. /\ pc[s] = "navigating" /\ pc' = [pc EXCEPT ![s] = "prepared"]
        /\ UNCHANGED <<page, composer, reply>>
    BY <1>7 DEF Navigate, At, Goto
  <2>2. \A t \in Sends : /\ pc'[t] \in Early => pc[t] \in Early
                         /\ pc'[t] = "typed" => pc[t] = "typed"
    BY <1>1, <2>1 DEF Early
  <2>3. QED
    BY <2>1, <2>2, QuietComposer
<1>8. ASSUME NEW s \in Sends, TypeText(s)  PROVE ComposerInv'
  <2>1. CASE Goto(s, "blind") /\ UNCHANGED composer
    BY <1>2, <1>8, <2>1 DEF TypeText, Early, tab
  <2>2. CASE composer' = s /\ Goto(s, "typed")
    <3>1. /\ pc[s] = "typing" /\ pc' = [pc EXCEPT ![s] = "typed"] /\ UNCHANGED <<page, reply>>
          /\ at[<<s, "plan">>] = "in"
      BY <1>8, <2>2 DEF TypeText, At, Goto, Holds
    <3>2. reply[s] = "none" /\ \A t \in Sends : pc[t] # "typed"
      BY <1>4, <3>1 DEF ComposerInv, Early, Uses
    <3>3. QED
      BY <1>1, <2>2, <3>1, <3>2 DEF ComposerInv, TypedTextIsOwn, At, Early
  <2>3. QED
    BY <1>8, <2>1, <2>2 DEF TypeText
<1>9. ASSUME NEW s \in Sends, Submit(s)  PROVE ComposerInv'
  <2>1. CASE UNCHANGED tab
    BY <1>2, <1>9, <2>1 DEF Submit, Early
  <2>2. CASE ~UNCHANGED tab
    <3>1. /\ composer \in Sends /\ composer' = Nobody /\ UNCHANGED page
          /\ reply' = [reply EXCEPT ![composer] = "pending"]
          /\ pc[s] \in {"typed", "blind"} /\ pc' = [pc EXCEPT ![s] = "submitted"]
          /\ at[<<s, "plan">>] = "in"
      BY <1>9, <2>2 DEF Submit, At, Goto, tab, ComposerInv, TicketInv, Owning, Uses
    <3>2. \A t \in Sends : pc'[t] # "typed"
      BY <1>1, <1>4, <3>1 DEF Uses
    <3>3. QED
      BY <1>1, <3>1, <3>2 DEF ComposerInv, TypedTextIsOwn, At, Early, Replies
  <2>3. QED
    BY <2>1, <2>2
<1>10. ASSUME NEW s \in Sends, Timeout(s)  PROVE ComposerInv'
  BY <1>1, <1>10, QuietComposer DEF Timeout, FinishCapture, Early, tab
<1>11. ASSUME NEW r \in Sends, Headers(r)  PROVE ComposerInv'
  BY <1>11 DEF Headers, ComposerInv, TypedTextIsOwn, At, Replies
<1>12. ASSUME NEW r \in Sends, AnswerEnds(r)  PROVE ComposerInv'
  <2>1. /\ reply[r] # "none" /\ reply' = [reply EXCEPT ![r] = "over"]
        /\ UNCHANGED <<page, composer>>
    BY <1>12 DEF AnswerEnds
  <2>2. \A t \in Sends : pc'[t] = pc[t] \/ pc'[t] = "heard"
    BY <1>12 DEF AnswerEnds, FinishCapture
  <2>3. QED
    BY <2>1, <2>2 DEF ComposerInv, TypedTextIsOwn, At, Early, Replies
<1>13. CASE UNCHANGED vars \/ \E s \in Sends : Stalls(s) \/ Resumes(s)
  BY <1>3, <1>13 DEF vars, Stalls, Resumes
\* A load may come between typing and submitting: the composer is empty then.
<1>14. CASE PageLoads
  <2>1. /\ page' = "provider" /\ composer' = Nobody /\ UNCHANGED pc
        /\ reply' = [r \in Sends |-> IF reply[r] \in {"pending", "streaming"}
                                     THEN "lost" ELSE reply[r]]
    BY <1>14 DEF PageLoads
  <2>2. QED
    BY <1>1, <2>1 DEF ComposerInv, TypedTextIsOwn, At, Replies
<1>15. ASSUME NEW s \in Sends, SendStep(s)  PROVE ComposerInv'
  BY <1>5, <1>6, <1>7, <1>8, <1>9, <1>10, <1>15 DEF SendStep
<1>16. QED
  BY <1>5, <1>11, <1>12, <1>13, <1>15, <1>14 DEF Next
-----------------------------------------------------------------------------
(***************************************************************************)
(* The captures.  An answer is attributed when it ends, and it ends once;  *)
(* only one capture listens then, for it owns the mutex.                   *)
(***************************************************************************)
AnswerInv ==
    /\ captured \in [Sends -> Sends \cup {Empty, Undefined}]
    /\ matched \in [Sends -> SUBSET Sends]
    /\ \A s \in Sends : matched[s] # {} => pc[s] = "listening"
    /\ \A s \in Sends : captured[s] \in Sends => reply[captured[s]] = "over"
    /\ AnswerAttributedOnce

LEMMA InitAnswerInv == Init => AnswerInv
  BY SendAssumption DEF Init, AnswerInv, AnswerAttributedOnce

LEMMA QuietCaptures ==
    ASSUME AnswerInv, UNCHANGED capture,
           \A s \in Sends : /\ pc[s] = "listening" => pc'[s] = "listening"
                            /\ reply[s] = "over" => reply'[s] = "over"
    PROVE  AnswerInv'
  BY DEF AnswerInv, capture, AnswerAttributedOnce

LEMMA StepAnswerInv ==
    AnswerInv /\ ComposerInv /\ TicketInv /\ MP!MutexInv /\ [Next]_vars => AnswerInv'
<1> SUFFICES ASSUME AnswerInv, ComposerInv, TicketInv, MP!MutexInv, [Next]_vars  PROVE AnswerInv'
  OBVIOUS
<1>1. pc \in [Sends -> Places] /\ reply \in [Sends -> Replies]
  BY DEF TicketInv, ComposerInv
<1>2. ASSUME NEW s \in Sends, NEW p, Goto(s, p), pc[s] # "listening", UNCHANGED <<tab, capture>>
      PROVE  AnswerInv'
  BY <1>1, <1>2, QuietCaptures DEF Goto, tab
<1>3. ASSUME UNCHANGED <<pc, tab, capture>>  PROVE AnswerInv'
  BY <1>3, QuietCaptures DEF tab
<1>4. ASSUME NEW s \in Sends,
             \/ Resolve(s) \/ CheckPage(s) \/ PrepareFails(s) \/ AskPlan(s) \/ PlanOk(s)
             \/ PlanFails(s) \/ AskCapture(s) \/ Listen(s) \/ EndCapture(s)
             \/ StoreFails(s) \/ Complete(s)
      PROVE  AnswerInv'
  BY <1>2, <1>4 DEF Resolve, CheckPage, PrepareFails, AskPlan, PlanOk, PlanFails, AskCapture,
     Listen, EndCapture, StoreFails, Complete, At
<1>5. ASSUME NEW s \in Sends, NEW role,
             NEW from \in {"findUser", "newUser", "findAssistant", "newAssistant"}, NEW p, NEW q,
             Find(s, role, from, p, q) \/ Create(s, role, from, p)
      PROVE  AnswerInv'
  BY <1>2, <1>5 DEF Find, Create, At
<1>6. ASSUME NEW s \in Sends, Navigate(s)  PROVE AnswerInv'
  <2>1. \A r \in Sends : reply[r] = "over" => reply'[r] = "over"
    BY <1>6 DEF Navigate
  <2>2. pc[s] = "navigating" /\ Goto(s, "prepared") /\ UNCHANGED capture
    BY <1>6 DEF Navigate, At
  <2>3. QED
    BY <1>1, <2>1, <2>2, QuietCaptures DEF Goto
<1>7. ASSUME NEW s \in Sends, TypeText(s)  PROVE AnswerInv'
  <2>1. pc[s] = "typing" /\ UNCHANGED <<reply, capture>> /\ (Goto(s, "typed") \/ Goto(s, "blind"))
    BY <1>7 DEF TypeText, At
  <2>2. QED
    BY <1>1, <2>1, QuietCaptures DEF Goto
<1>8. ASSUME NEW s \in Sends, Submit(s)  PROVE AnswerInv'
  <2>1. \A r \in Sends : reply[r] = "over" => reply'[r] = "over"
    BY <1>8 DEF Submit, ComposerInv, tab
  <2>2. pc[s] \in {"typed", "blind"} /\ Goto(s, "submitted") /\ UNCHANGED capture
    BY <1>8 DEF Submit, At
  <2>3. QED
    BY <1>1, <2>1, <2>2, QuietCaptures DEF Goto
\* Two captures do not listen at a time.
<1>9. ASSUME NEW s \in Sends, NEW l \in Sends, pc[s] = "listening", pc[l] = "listening"
      PROVE  s = l
  BY <1>9, OneOwner DEF TicketInv, Owning, Uses
<1>10. ASSUME NEW s \in Sends, Timeout(s)  PROVE AnswerInv'
  <2>1. /\ captured' = [captured EXCEPT ![s] = Empty]
        /\ matched' = [matched EXCEPT ![s] = {}]
        /\ pc' = [pc EXCEPT ![s] = "heard"] /\ UNCHANGED reply
    BY <1>1, <1>10 DEF Timeout, FinishCapture, Forget, AnswerInv, tab
  <2>2. QED
    BY <1>1, <2>1, SendAssumption DEF AnswerInv, AnswerAttributedOnce
<1>11. ASSUME NEW r \in Sends, Headers(r)  PROVE AnswerInv'
  <2>1. matched' \in [Sends -> SUBSET Sends]
    BY <1>11 DEF Headers, AnswerInv
  <2>2. \A s \in Sends : matched'[s] # {} => pc'[s] = "listening"
    BY <1>11 DEF Headers, AnswerInv, At
  <2>3. \A s \in Sends : reply[s] = "over" => reply'[s] = "over"
    BY <1>1, <1>11 DEF Headers
  <2>4. QED
    BY <1>11, <2>1, <2>2, <2>3 DEF Headers, AnswerInv, AnswerAttributedOnce
<1>12. ASSUME NEW r \in Sends, AnswerEnds(r)  PROVE AnswerInv'
  <2> DEFINE captures == {l \in Sends : At(l, "listening") /\ r \in matched[l]}
  <2>1. PICK body \in {Empty, r} : FinishCapture(captures, body)
    BY <1>12 DEF AnswerEnds
  <2>2. /\ \A s \in captures : captured'[s] = body /\ matched'[s] = {} /\ pc'[s] = "heard"
        /\ \A s \in Sends \ captures :
              captured'[s] = captured[s] /\ matched'[s] = matched[s] /\ pc'[s] = pc[s]
        /\ captured' \in [Sends -> Sends \cup {Empty, Undefined}]
        /\ matched' \in [Sends -> SUBSET Sends]
    BY <1>1, <2>1 DEF FinishCapture, Forget, AnswerInv
  <2>3. \A s, l \in captures : s = l
    BY <1>9 DEF At
  <2>4. reply[r] # "over" /\ reply'[r] = "over" /\ \A q \in Sends \ {r} : reply'[q] = reply[q]
    BY <1>1, <1>12 DEF AnswerEnds
  <2>5. \A s \in Sends : captured[s] # r
    BY <2>4 DEF AnswerInv
  <2>6. AnswerAttributedOnce'
    BY <2>2, <2>3, <2>5, SendAssumption DEF AnswerInv, AnswerAttributedOnce
  <2>7. \A s \in Sends : captured'[s] \in Sends => reply'[captured'[s]] = "over"
    BY <2>2, <2>4, SendAssumption DEF AnswerInv
  <2>8. QED
    BY <2>2, <2>6, <2>7 DEF AnswerInv
<1>13. CASE UNCHANGED vars \/ \E s \in Sends : Stalls(s) \/ Resumes(s)
  BY <1>3, <1>13 DEF vars, Stalls, Resumes
<1>14. CASE PageLoads
  <2>1. \A r \in Sends : reply[r] = "over" => reply'[r] = "over"
    BY <1>14 DEF PageLoads
  <2>2. QED
    BY <1>14, <2>1, QuietCaptures DEF PageLoads
<1>15. ASSUME NEW s \in Sends, SendStep(s)  PROVE AnswerInv'
  BY <1>4, <1>5, <1>6, <1>7, <1>8, <1>10, <1>15 DEF SendStep
<1>16. QED
  BY <1>4, <1>11, <1>12, <1>13, <1>15, <1>14 DEF Next
-----------------------------------------------------------------------------
(***************************************************************************)
(* The store.  Rows are never taken away, and what a send captured is      *)
(* fixed before it looks for its rows.                                     *)
(***************************************************************************)
UserStored == {"findAssistant", "newAssistant", "stored", "ok"}
BothStored == {"stored", "ok"}

StoredRows ==
    \A s \in Sends : /\ pc[s] \in UserStored => Row(s, "user") \in rows
                     /\ pc[s] \in BothStored => Row(s, "assistant") \in rows

StoreInv ==
    /\ asked \in [Sends -> [conv : Conversations, text : Texts]]
    /\ rows \subseteq Conversations \X {"user", "assistant"} \X (Texts \cup Sends \cup {Empty})
    /\ seen \in [Sends -> Nat] /\ count \in [Conversations -> Nat]
    /\ StoredRows

LEMMA InitStoreInv == Init => StoreInv
  BY DEF Init, StoreInv, StoredRows, UserStored, BothStored

LEMMA RowTypes ==
    ASSUME StoreInv, AnswerInv, NEW s \in Sends, NEW role \in {"user", "assistant"}
    PROVE  Row(s, role) \in Conversations \X {"user", "assistant"} \X (Texts \cup Sends \cup {Empty})
  BY DEF StoreInv, AnswerInv, Row, Content

\* Steps that store nothing and capture nothing.
LEMMA QuietStore ==
    ASSUME StoreInv, UNCHANGED <<asked, rows, captured>>,
           seen' \in [Sends -> Nat], count' \in [Conversations -> Nat],
           \A s \in Sends : /\ pc'[s] \in UserStored => Row(s, "user") \in rows
                            /\ pc'[s] \in BothStored => Row(s, "assistant") \in rows
    PROVE  StoreInv'
<1>1. \A s \in Sends, role \in {"user", "assistant"} : Row(s, role)' = Row(s, role)
  BY DEF Row, Content
<1>2. StoredRows'
  BY <1>1 DEF StoredRows, UserStored, BothStored
<1>3. QED
  BY <1>2 DEF StoreInv

LEMMA StepStoreInv ==
    StoreInv /\ AnswerInv /\ TicketInv /\ [Next]_vars => StoreInv'
<1> SUFFICES ASSUME StoreInv, AnswerInv, TicketInv, [Next]_vars  PROVE StoreInv'
  OBVIOUS
<1>1. pc \in [Sends -> Places] /\ seen \in [Sends -> Nat] /\ count \in [Conversations -> Nat]
      /\ \A s \in Sends : asked[s].conv \in Conversations
  BY DEF TicketInv, StoreInv
<1>0. \A t \in Sends : /\ pc[t] \in UserStored => Row(t, "user") \in rows
                       /\ pc[t] \in BothStored => Row(t, "assistant") \in rows
  BY DEF StoreInv, StoredRows
<1>2. ASSUME NEW s \in Sends, NEW p, Goto(s, p), UNCHANGED <<call, store, captured>>,
             p \in UserStored => Row(s, "user") \in rows,
             p \in BothStored => Row(s, "assistant") \in rows
      PROVE  StoreInv'
  <2>1. UNCHANGED <<asked, rows, captured, seen, count>>
    BY <1>2 DEF call, store
  <2>2. \A t \in Sends : /\ pc'[t] \in UserStored => Row(t, "user") \in rows
                         /\ pc'[t] \in BothStored => Row(t, "assistant") \in rows
    BY <1>0, <1>1, <1>2 DEF Goto
  <2>3. QED
    BY <1>1, <2>1, <2>2, QuietStore
<1>3. ASSUME UNCHANGED <<pc, call, store, captured>>  PROVE StoreInv'
  <2>1. UNCHANGED <<asked, rows, captured, seen, count>>
    BY <1>3 DEF call, store
  <2>2. QED
    BY <1>0, <1>1, <1>3, <2>1, QuietStore
<1>4. ASSUME NEW s \in Sends, Resolve(s)  PROVE StoreInv'
  <2>1. /\ seen' \in [Sends -> Nat] /\ UNCHANGED <<asked, count, rows, captured>>
        /\ \A t \in Sends : pc'[t] = pc[t] \/ pc'[t] = "resolving"
    BY <1>1, <1>4 DEF Resolve, Goto, store, capture
  <2>2. \A t \in Sends : /\ pc'[t] \in UserStored => Row(t, "user") \in rows
                         /\ pc'[t] \in BothStored => Row(t, "assistant") \in rows
    BY <1>0, <1>1, <2>1 DEF UserStored, BothStored
  <2>3. QED
    BY <1>1, <2>1, <2>2, QuietStore
<1>5. ASSUME NEW s \in Sends,
             \/ CheckPage(s) \/ Navigate(s) \/ PrepareFails(s) \/ AskPlan(s) \/ TypeText(s)
             \/ Submit(s) \/ PlanOk(s) \/ PlanFails(s) \/ AskCapture(s) \/ Listen(s)
             \/ EndCapture(s) \/ StoreFails(s)
      PROVE  StoreInv'
  <2>1. PICK p \in Places \ (UserStored \cup BothStored) : Goto(s, p)
    BY <1>5 DEF CheckPage, Navigate, PrepareFails, AskPlan, TypeText, Submit, PlanOk, PlanFails,
       AskCapture, Listen, EndCapture, StoreFails, Places, UserStored, BothStored
  <2>2. UNCHANGED <<call, store, captured>>
    BY <1>5 DEF CheckPage, Navigate, PrepareFails, AskPlan, TypeText, Submit, PlanOk, PlanFails,
       AskCapture, Listen, EndCapture, StoreFails, capture
  <2>3. QED
    BY <1>2, <2>1, <2>2
<1>6. ASSUME NEW captures \in SUBSET Sends, NEW body, FinishCapture(captures, body),
             UNCHANGED <<call, store>>, \A s \in captures : At(s, "listening")
      PROVE  StoreInv'
  <2>1. \A s \in Sends : pc'[s] \in UserStored =>
           pc[s] = pc'[s] /\ captured'[s] = captured[s] /\ asked'[s] = asked[s]
    BY <1>6 DEF FinishCapture, UserStored, call
  <2>2. \A s \in Sends, role \in {"user", "assistant"} :
           pc'[s] \in UserStored => Row(s, role)' = Row(s, role)
    BY <2>1 DEF Row, Content
  <2>3. UNCHANGED <<asked, seen, rows, count>> /\ BothStored \subseteq UserStored
    BY <1>6 DEF call, store, BothStored, UserStored
  <2>4. QED
    BY <1>0, <2>1, <2>2, <2>3 DEF StoreInv, StoredRows
<1>7. ASSUME NEW s \in Sends, Timeout(s)  PROVE StoreInv'
  BY <1>6, <1>7 DEF Timeout
<1>8. ASSUME NEW r \in Sends, AnswerEnds(r)  PROVE StoreInv'
  BY <1>6, <1>8 DEF AnswerEnds
<1>9. ASSUME NEW r \in Sends, Headers(r)  PROVE StoreInv'
  BY <1>3, <1>9 DEF Headers, call
<1>10. ASSUME NEW s \in Sends, Find(s, "user", "findUser", "newUser", "findAssistant")
       PROVE  StoreInv'
  BY <1>2, <1>10 DEF Find, Known, UserStored, BothStored, capture
<1>11. ASSUME NEW s \in Sends, Find(s, "assistant", "findAssistant", "newAssistant", "stored")
       PROVE  StoreInv'
  <2>1. Row(s, "user") \in rows
    BY <1>0, <1>11 DEF Find, At, UserStored
  <2>2. QED
    BY <1>2, <1>11, <2>1 DEF Find, Known, UserStored, BothStored, capture
<1>12. ASSUME NEW s \in Sends, NEW role \in {"user", "assistant"}, NEW from, NEW p,
              Create(s, role, from, p),
              p \in UserStored => role = "user" \/ pc[s] \in UserStored,
              p \in BothStored => role = "assistant"
       PROVE  StoreInv'
  <2>1. /\ rows' = rows \cup {Row(s, role)} /\ UNCHANGED <<asked, captured, seen, count>>
        /\ pc' = [pc EXCEPT ![s] = p]
    BY <1>12 DEF Create, Goto, call, capture
  <2>2. \A t \in Sends, kind \in {"user", "assistant"} : Row(t, kind)' = Row(t, kind)
    BY <2>1 DEF Row, Content
  <2>3. ASSUME NEW t \in Sends
        PROVE  /\ pc'[t] \in UserStored => Row(t, "user") \in rows'
               /\ pc'[t] \in BothStored => Row(t, "assistant") \in rows'
    BY <1>0, <1>1, <1>12, <2>1
  <2>4. rows' \subseteq Conversations \X {"user", "assistant"} \X (Texts \cup Sends \cup {Empty})
    BY <2>1, RowTypes DEF StoreInv
  <2>5. QED
    BY <1>1, <2>1, <2>2, <2>3, <2>4 DEF StoreInv, StoredRows, UserStored, BothStored
<1>13. ASSUME NEW s \in Sends, \/ Create(s, "user", "newUser", "findAssistant")
                               \/ Create(s, "assistant", "newAssistant", "stored")
       PROVE  StoreInv'
  BY <1>12, <1>13 DEF Create, At, UserStored, BothStored
<1>14. ASSUME NEW s \in Sends, Complete(s)  PROVE StoreInv'
  <2>1. /\ count' \in [Conversations -> Nat] /\ UNCHANGED <<asked, seen, rows, captured>>
        /\ pc[s] = "stored" /\ pc' = [pc EXCEPT ![s] = "ok"]
    BY <1>1, <1>14 DEF Complete, At, Goto, call, capture
  <2>2. \A t \in Sends : /\ pc'[t] \in UserStored => Row(t, "user") \in rows
                         /\ pc'[t] \in BothStored => Row(t, "assistant") \in rows
    BY <1>0, <1>1, <2>1 DEF UserStored, BothStored
  <2>3. QED
    BY <1>1, <2>1, <2>2, QuietStore
<1>15. CASE PageLoads \/ UNCHANGED vars
  BY <1>3, <1>15 DEF PageLoads, vars, capture
<1>16. ASSUME NEW s \in Sends, Stalls(s) \/ Resumes(s)  PROVE StoreInv'
  <2>1. UNCHANGED <<pc, asked, rows, captured, seen, count>>
    BY <1>16 DEF Stalls, Resumes, store, capture
  <2>2. QED
    BY <1>0, <1>1, <2>1, QuietStore
<1>17. ASSUME NEW s \in Sends, SendStep(s)  PROVE StoreInv'
  BY <1>5, <1>7, <1>10, <1>11, <1>13, <1>14, <1>17 DEF SendStep
<1>18. QED
  BY <1>4, <1>8, <1>9, <1>15, <1>17, <1>16 DEF Next
-----------------------------------------------------------------------------
\* What the world outside decides.
WorldInv == loading \in BOOLEAN /\ stalled \subseteq Sends

LEMMA StepWorldInv == WorldInv /\ [Next]_vars => WorldInv'
<1> SUFFICES ASSUME WorldInv, [Next]_vars  PROVE WorldInv'
  OBVIOUS
<1>1. ASSUME UNCHANGED <<loading, stalled>>  PROVE WorldInv'
  BY <1>1 DEF WorldInv
<1>2. ASSUME NEW s \in Sends,
             \/ Resolve(s) \/ CheckPage(s) \/ PrepareFails(s) \/ AskPlan(s) \/ PlanOk(s)
             \/ PlanFails(s) \/ AskCapture(s) \/ Listen(s) \/ EndCapture(s) \/ Timeout(s)
             \/ StoreFails(s) \/ Complete(s)
      PROVE  WorldInv'
  BY <1>1, <1>2 DEF Resolve, CheckPage, PrepareFails, AskPlan, PlanOk, PlanFails, AskCapture,
     Listen, EndCapture, Timeout, StoreFails, Complete, tab, call
<1>3. ASSUME NEW s \in Sends, TypeText(s) \/ Submit(s) \/ Headers(s) \/ AnswerEnds(s)
      PROVE  WorldInv'
  BY <1>1, <1>3 DEF TypeText, Submit, Headers, AnswerEnds, tab, call
<1>4. ASSUME NEW s \in Sends, NEW role, NEW from, NEW p, NEW q,
             Find(s, role, from, p, q) \/ Create(s, role, from, p)
      PROVE  WorldInv'
  BY <1>1, <1>4 DEF Find, Create, tab, call
<1>5. ASSUME NEW s \in Sends, Navigate(s)  PROVE WorldInv'
  BY <1>5 DEF Navigate, WorldInv, call
<1>6. ASSUME NEW s \in Sends, Stalls(s) \/ Resumes(s)  PROVE WorldInv'
  BY <1>6 DEF Stalls, Resumes, WorldInv, tab
<1>7. CASE PageLoads
  BY <1>7 DEF PageLoads, WorldInv, call
<1>8. CASE UNCHANGED vars
  BY <1>1, <1>8 DEF vars, tab, call
<1>9. ASSUME NEW s \in Sends, SendStep(s)  PROVE WorldInv'
  BY <1>2, <1>3, <1>4, <1>5, <1>9 DEF SendStep
<1>10. QED
  BY <1>2, <1>3, <1>6, <1>7, <1>8, <1>9 DEF Next

IInv == TicketInv /\ ComposerInv /\ AnswerInv /\ StoreInv /\ WorldInv

LEMMA SendsInvariant == Spec => []IInv
<1>1. Init => IInv
  BY InitTicketInv, InitComposerInv, InitAnswerInv, InitStoreInv DEF IInv, Init, WorldInv
<1>2. IInv /\ MP!MutexInv /\ [Next]_vars => IInv'
  BY StepTicketInv, StepComposerInv, StepAnswerInv, StepStoreInv, StepWorldInv DEF IInv
<1>3. QED
  BY <1>1, <1>2, SendsMutexInv, PTL DEF Spec

\* Every variable keeps its type, for any number of sends.
THEOREM SendsTypes == Spec => []TypeOK
<1>1. MP!MutexInv => M!TypeOK
  BY DEF MP!MutexInv, MP!TypeOK, M!TypeOK
<1>2. IInv /\ MP!MutexInv => TypeOK
  BY <1>1 DEF IInv, TicketInv, ComposerInv, AnswerInv, StoreInv, WorldInv, TypeOK, Replies, At
<1>3. QED
  BY <1>2, SendsInvariant, SendsMutexInv, PTL

\* Between typing and submitting, the mutex keeps every other send's text out of
\* the composer; the page, which may load at any time, only empties it.
THEOREM SendsTypedTextIsOwn == Spec => []TypedTextIsOwn
  BY SendsInvariant, PTL DEF IInv, ComposerInv

\* Sends get the mutex in the order in which they asked for it, each of their
\* three sections for itself: nothing keeps plan and capture together.
THEOREM SendsServedInOrder == Spec => MP!FirstComeFirstServed
  BY SendsUseMutex, MP!MutexServesInOrder, PTL

\* However sends and answers interleave, an answer goes to at most one send.
THEOREM SendsAttributeOnce == Spec => []AnswerAttributedOnce
  BY SendsInvariant, PTL DEF IInv, AnswerInv

\* Success means that both messages are in the send's own conversation.
THEOREM SendsStoreOnOk == Spec => []OkIsStored
<1>1. ASSUME IInv, NEW s \in Sends, At(s, "ok")
      PROVE  Row(s, "user") \in rows /\ Row(s, "assistant") \in rows
  BY <1>1 DEF IInv, StoreInv, StoredRows, At, UserStored, BothStored
<1>2. IInv => OkIsStored
  BY <1>1 DEF OkIsStored
<1>3. QED
  BY <1>2, SendsInvariant, PTL
=============================================================================
