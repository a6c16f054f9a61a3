----------------------------- MODULE BotProofs ------------------------------
(***************************************************************************)
(* Bot, for any number of ready events, interactions and starts.           *)
(***************************************************************************)
EXTENDS Bot, TLAPS

LEMMA BotInit == Init => BotInv
<1> SUFFICES ASSUME Init PROVE BotInv
  OBVIOUS
<1>0. registered \in SUBSET (Commands \cup {Retired})
  BY Zenon DEF Init, Commands, Retired
<1>1. TypeOK
  <2>1. /\ process = "stopped" /\ starts = 0
        /\ connected \in BOOLEAN /\ called \in BOOLEAN /\ raced \in BOOLEAN
        /\ failed \in BOOLEAN /\ posters = {} /\ creating = {} /\ refused = {}
    BY Zenon DEF Init
  <2>2. /\ phase \in [Readies -> Phases]
        /\ at \in [Interactions -> Points]
        /\ kind \in [Interactions -> {"none"}]
        /\ handled \in [Interactions -> SUBSET Handlers]
        /\ shown \in [Interactions -> {"nothing"}]
    BY DEF Init, Phases, Points
  <2>3. QED
    BY <1>0, <2>1, <2>2, BotAssumption DEF TypeOK
<1>2. QED
  BY <1>1 DEF Init, BotInv, OnceUnlessRaced, Reading

\* The actions that leave the ready handlers alone.
LEMMA Elsewhere ==
  ASSUME BotInv, TypeOK', UNCHANGED <<called, phase, posters, raced>>,
         UNCHANGED <<creating, failed, registered>>,
         process' = "running" => process = "running" /\ connected' = connected
  PROVE  BotInv'
BY DEF BotInv, OnceUnlessRaced, Reading

LEMMA InteractStep ==
  ASSUME BotInv, NEW i \in Interactions, Interact(i)
  PROVE  BotInv'
<1> USE DEF Points, Commands, Buttons, Retired, Handlers
<1>1. TypeOK
  BY DEF BotInv
<1>2. ASSUME NEW point \in Points, NEW to \in SUBSET Handlers, Given(i, point, to)
      PROVE  BotInv'
  <2>1. TypeOK' /\ UNCHANGED <<procVars, readyVars>>
    BY <1>1, <1>2 DEF Given, TypeOK, procVars, readyVars
  <2>2. QED
    BY <2>1, Elsewhere DEF procVars, readyVars
<1>3. ASSUME NEW point, NEW next \in Points, NEW text \in {"thinking", "answer"},
             Answered(i, point, next, text)
      PROVE  BotInv'
  <2>1. TypeOK' /\ UNCHANGED <<procVars, readyVars>>
    BY <1>1, <1>3 DEF Answered, TypeOK, procVars, readyVars
  <2>2. QED
    BY <2>1, Elsewhere DEF procVars, readyVars
<1>4. CASE handle_slash_commands(i)
  BY <1>2, <1>4 DEF handle_slash_commands
<1>5. CASE on_button_click(i)
  BY <1>2, <1>5 DEF on_button_click
<1>6. CASE on_select_click(i)
  BY <1>2, <1>6 DEF on_select_click
<1>7. CASE Pong(i) \/ handle_info_commands(i)
  BY <1>3, <1>7 DEF Pong, handle_info_commands
<1>8. QED
  BY <1>4, <1>5, <1>6, <1>7 DEF Interact

LEMMA BotStep == BotInv /\ [Next]_vars => BotInv'
<1> SUFFICES ASSUME BotInv, [Next]_vars PROVE BotInv'
  OBVIOUS
<1> USE DEF TypeOK, Phases
<1>1. CASE main
  <2>0. /\ connected' \in BOOLEAN /\ process' \in {"running", "error"}
        /\ called' \in BOOLEAN /\ raced' \in BOOLEAN /\ failed' \in BOOLEAN
        /\ posters' = {} /\ UNCHANGED <<creating, registered, intVars>>
        /\ starts < MaxStarts /\ starts' = starts + 1
        /\ phase' = [e \in Readies |-> "none"]
    BY Zenon, <1>1 DEF main
  <2>1. TypeOK'
    BY <2>0, BotAssumption DEF BotInv, intVars
  <2>2. process' = "running" => connected'
    BY Zenon, <1>1 DEF main
  <2>3. /\ posters' = {} /\ called' = FALSE
        /\ \A e \in Readies : phase'[e] = "none"
    BY <1>1 DEF main
  <2>4. QED
    BY <2>1, <2>2, <2>3 DEF BotInv, OnceUnlessRaced, Reading
<1>2. CASE Crash
  <2>1. TypeOK' /\ process' # "running" /\ UNCHANGED readyVars
    BY <1>2 DEF Crash, BotInv, Points, readyVars
  <2>2. QED
    BY <2>1, Elsewhere DEF readyVars
<1>3. ASSUME NEW e \in Readies, RunOnceRead(e) PROVE BotInv'
  <2>0. /\ raced' \in BOOLEAN
        /\ UNCHANGED <<procVars, called, posters, creating, failed, registered>>
        /\ UNCHANGED intVars
    BY Zenon, <1>3 DEF RunOnceRead
  <2>a. phase' \in [Readies -> Phases]
    BY <1>3 DEF RunOnceRead, BotInv
  <2>1. TypeOK'
    BY <2>0, <2>a DEF BotInv, procVars, intVars
  <2>2. raced' = FALSE => ~raced /\ \A f \in Readies : ~Reading(f)
    BY Zenon, <1>3 DEF RunOnceRead
  <2>3. raced' = FALSE =>
          /\ \A f \in Readies : Reading(f)' => f = e
          /\ \A f \in Readies : phase'[f] = "first" => ~called
    BY <1>3, <2>2 DEF RunOnceRead, BotInv, Reading
  <2>4. \A f \in Readies : phase'[f] \in {"again", "past"} => called
    BY <1>3 DEF RunOnceRead, BotInv
  <2>5. QED
    BY <1>3, <2>1, <2>2, <2>3, <2>4 DEF RunOnceRead, BotInv, OnceUnlessRaced, procVars
<1>4. ASSUME NEW e \in Readies, RunOnceWrite(e) PROVE BotInv'
  <2>1. TypeOK'
    BY <1>4 DEF RunOnceWrite, BotInv, procVars, intVars
  <2>2. raced = FALSE =>
          /\ \A f \in Readies : ~Reading(f)'
          /\ posters # {} => phase[e] = "again"
    BY <1>4 DEF RunOnceWrite, BotInv, Reading
  <2>3. raced = FALSE => \A f, g \in posters' : f = g
    BY <1>4, <2>2 DEF RunOnceWrite, BotInv, OnceUnlessRaced
  <2>4. called' = TRUE
    BY <1>4 DEF RunOnceWrite
  <2>5. registered' = Commands \/ failed' = TRUE \/ creating' # {}
    <3>1. CASE phase[e] = "first" /\ creating' = creating \cup {e}
      BY <3>1
    <3>2. CASE phase[e] = "again" /\ UNCHANGED creating
      BY <1>4, <3>2 DEF RunOnceWrite, BotInv
    <3>3. QED
      BY <1>4, <3>1, <3>2 DEF RunOnceWrite
  <2>6. QED
    BY <1>4, <2>1, <2>2, <2>3, <2>4, <2>5
       DEF RunOnceWrite, BotInv, OnceUnlessRaced, Reading, procVars
<1>5. ASSUME NEW e \in Readies, Create(e) PROVE BotInv'
  <2>1. TypeOK'
    BY <1>5 DEF Create, BotInv, procVars, intVars
  <2>2. registered' = Commands \/ failed' = TRUE
    BY <1>5 DEF Create
  <2>3. QED
    BY <1>5, <2>1, <2>2 DEF Create, procVars, BotInv, OnceUnlessRaced, Reading
<1>6. ASSUME NEW i \in Interactions, Issue(i) PROVE BotInv'
  <2>1. TypeOK'
    BY <1>6 DEF Issue, BotInv, procVars, readyVars, Points
  <2>2. QED
    BY <1>6, <2>1, Elsewhere DEF Issue, procVars, readyVars
<1>7. CASE UNCHANGED vars
  <2>1. TypeOK' /\ UNCHANGED <<procVars, readyVars>>
    BY <1>7 DEF vars, BotInv, procVars, readyVars, intVars
  <2>2. QED
    BY <2>1, Elsewhere DEF procVars, readyVars
<1>8. QED
  BY <1>1, <1>2, <1>3, <1>4, <1>5, <1>6, <1>7, InteractStep DEF Next, Ready

\* BotInv holds of every reachable state.
THEOREM BotInvariant == Spec => []BotInv
<1>1. QED
  BY BotInit, BotStep, PTL DEF Spec

\* Ready handlers that do not overlap create the commands once, however many ready
\* events there are (run_once, once.h).
THEOREM CreatedOnce == Spec => []OnceUnlessRaced
<1>1. BotInv => OnceUnlessRaced
  BY DEF BotInv, TypeOK, OnceUnlessRaced
<1>2. QED
  BY <1>1, BotInvariant, PTL

\* However many ready events overlap and however often the bot is restarted, a
\* process that is past run_once has its commands, or has asked for them and was
\* not yet answered, or was refused.
THEOREM CommandsAreAsked == Spec => []CommandsAsked
<1>1. BotInv => CommandsAsked
  BY DEF BotInv, CommandsAsked
<1>2. QED
  BY <1>1, BotInvariant, PTL

-----------------------------------------------------------------------------
(* Interactions.  Each is served alone: it is given to a handler when it leaves *)
(* the queue, and what its user sees changes with its own steps only.          *)

Served(i) ==
  /\ at[i] \in {"none", "queued"} => handled[i] = {}
  /\ at[i] \notin {"none", "queued", "lost"} /\ kind[i] # Retired =>
       \E h \in Handlers : handled[i] = {h}
  /\ at[i] = "done" /\ kind[i] \in {"ping", "info"} /\ i \notin refused =>
       shown[i] = "answer"

AllServed == \A i \in Interactions : Served(i)

\* An interaction whose own state stays is served as before.
LEMMA Unserved ==
  ASSUME AllServed, NEW i \in Interactions,
         at'[i] = at[i], kind'[i] = kind[i], handled'[i] = handled[i],
         shown'[i] = shown[i], i \in refused' <=> i \in refused
  PROVE  Served(i)'
BY DEF AllServed, Served

\* A dispatch gives it to one handler, and answers no /ping and no /info.
LEMMA DispatchServes ==
  ASSUME TypeOK, AllServed, NEW i \in Interactions,
         \/ handle_slash_commands(i) \/ on_button_click(i) \/ on_select_click(i)
  PROVE  AllServed'
<1> USE DEF TypeOK
<1>1. /\ at[i] = "queued" /\ handled[i] = {}
      /\ UNCHANGED <<kind, shown, refused>>
  BY DEF handle_slash_commands, on_button_click, on_select_click, Given,
         AllServed, Served
<1>2. PICK point \in {"reply", "thinking", "done"}, to \in SUBSET Handlers :
        /\ at' = [at EXCEPT ![i] = point]
        /\ handled' = [handled EXCEPT ![i] = @ \cup to]
        /\ kind[i] # Retired => \E h \in Handlers : to = {h}
        /\ point = "done" => kind[i] \notin {"ping", "info"}
  <2>1. CASE handle_slash_commands(i)
    BY <2>1 DEF handle_slash_commands, Given, Handlers, Retired
  <2>2. CASE on_button_click(i)
    <3> DEFINE to == (IF kind[i] \in {"solution_id", "description_id"}
                        THEN {"handle_solution_button_click"} ELSE {})
                     \cup
                     (IF kind[i] \in {"solution_prev_page", "solution_next_page"}
                        THEN {"handle_solutions_page_button"} ELSE {})
    <3>1. /\ kind[i] \in Buttons
          /\ at' = [at EXCEPT ![i] = "done"]
          /\ handled' = [handled EXCEPT ![i] = @ \cup to]
      BY <2>2 DEF on_button_click, Given
    <3>2. /\ to \in SUBSET Handlers
          /\ \E h \in Handlers : to = {h}
          /\ kind[i] \notin {"ping", "info"}
      BY <3>1 DEF Buttons, Handlers
    <3> HIDE DEF to
    <3>3. QED
      BY <3>1, <3>2
  <2>3. CASE on_select_click(i)
    BY <2>3 DEF on_select_click, Given, Handlers
  <2>4. QED
    BY <2>1, <2>2, <2>3
<1>3. Served(i)'
  BY <1>1, <1>2 DEF Served
<1>4. \A j \in Interactions : j # i => Served(j)'
  <2>1. ASSUME NEW j \in Interactions, j # i PROVE Served(j)'
    BY <1>1, <1>2, <2>1, Unserved
  <2>2. QED
    BY <2>1
<1>5. QED
  BY <1>3, <1>4 DEF AllServed

\* An answer of Discord leaves the handler, and ends in the user's answer.
LEMMA AnswerServes ==
  ASSUME TypeOK, AllServed, NEW i \in Interactions,
         Pong(i) \/ handle_info_commands(i)
  PROVE  AllServed'
<1> USE DEF TypeOK
<1>1. PICK point \in {"reply", "thinking", "edit"},
           next \in {"edit", "done"}, text \in {"thinking", "answer"} :
        /\ Answered(i, point, next, text)
        /\ next = "done" => text = "answer"
  BY DEF Pong, handle_info_commands
<1>2. /\ at[i] \in {"reply", "thinking", "edit"} /\ at' = [at EXCEPT ![i] = next]
      /\ UNCHANGED <<kind, handled>>
      /\ \A j \in Interactions : j # i =>
           shown'[j] = shown[j] /\ (j \in refused' <=> j \in refused)
      /\ i \notin refused' => shown'[i] = text
  BY <1>1 DEF Answered
<1>3. Served(i)'
  BY <1>1, <1>2 DEF AllServed, Served
<1>4. \A j \in Interactions : j # i => Served(j)'
  <2>1. ASSUME NEW j \in Interactions, j # i PROVE Served(j)'
    BY <1>2, <2>1, Unserved
  <2>2. QED
    BY <2>1
<1>5. QED
  BY <1>3, <1>4 DEF AllServed

LEMMA ServedStep == TypeOK /\ AllServed /\ [Next]_vars => AllServed'
<1> SUFFICES ASSUME TypeOK, AllServed, [Next]_vars PROVE AllServed'
  OBVIOUS
<1>1. CASE UNCHANGED intVars
  BY <1>1 DEF intVars, AllServed, Served
<1>2. CASE Crash
  <2>1. ASSUME NEW i \in Interactions PROVE Served(i)'
    BY <1>2, <2>1 DEF Crash, AllServed, Served, TypeOK
  <2>2. QED
    BY <2>1 DEF AllServed
<1>3. ASSUME NEW i \in Interactions, Issue(i) PROVE AllServed'
  <2>1. /\ at[i] = "none" /\ at' = [at EXCEPT ![i] = "queued"]
        /\ \A j \in Interactions : j # i => kind'[j] = kind[j]
        /\ UNCHANGED <<handled, shown, refused>>
    BY <1>3 DEF Issue, TypeOK
  <2>2. Served(i)'
    BY <2>1 DEF AllServed, Served, TypeOK
  <2>3. ASSUME NEW j \in Interactions, j # i PROVE Served(j)'
    BY <2>1, <2>3, Unserved DEF TypeOK
  <2>4. QED
    BY <2>2, <2>3 DEF AllServed
<1>4. ASSUME NEW i \in Interactions, Interact(i) PROVE AllServed'
  BY <1>4, DispatchServes, AnswerServes DEF Interact
<1>5. CASE main \/ \E e \in Readies : Ready(e)
  BY <1>1, <1>5 DEF main, Ready, RunOnceRead, RunOnceWrite, Create, intVars
<1>6. CASE UNCHANGED vars
  BY <1>1, <1>6 DEF vars
<1>7. QED
  BY <1>2, <1>3, <1>4, <1>5, <1>6 DEF Next

LEMMA ServedInvariant == Spec => []AllServed
<1>1. Init => AllServed
  BY DEF Init, AllServed, Served
<1>2. BotInv => TypeOK
  BY DEF BotInv
<1>3. QED
  BY BotInvariant, ServedStep, <1>1, <1>2, PTL DEF Spec

\* However many commands, buttons and menus are used, and whenever the bot dies,
\* each is given to one handler, unless an earlier version created its command.
THEOREM OneHandler == Spec => []HandledOnce
<1>1. AllServed => HandledOnce
  BY DEF AllServed, Served, HandledOnce
<1>2. QED
  BY ServedInvariant, <1>1, PTL

\* A /ping or /info that is done shows its answer, unless Discord refused a call.
THEOREM WhoIsThereIsAnswered == Spec => []AnswersWhoIsThere
<1>1. AllServed => AnswersWhoIsThere
  BY DEF AllServed, Served, AnswersWhoIsThere
<1>2. QED
  BY ServedInvariant, <1>1, PTL

=============================================================================
