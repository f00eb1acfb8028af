------------------------- MODULE ModuleSelectProofs -------------------------
(***************************************************************************)
(* Proofs about ModuleSelect, for any number of tasks and of presses.      *)
(*                                                                         *)
(* MarkerOnPage and ConfirmsWhatIsMarked are inductive with the types.     *)
(* NoPhantomPress is not: it needs that a press still stored has not been  *)
(* answered either (PressUnanswered).                                      *)
(***************************************************************************)
EXTENDS ModuleSelect, TLAPS

PressUnanswered ==
    taken.acted + (IF g_BtnState # "BTN_WAIT" \/ pc \in Buttons THEN 1 ELSE 0) <= taken.stored

MenuInv == TypeOK /\ MarkerOnPage /\ ConfirmsWhatIsMarked /\ PressUnanswered

MenuState == <<g_BtnState, pc, menuVars, taken>>

----------------------------------------------------------------------------

\* The modulus keeps a line number on a page of n lines.
LEMMA RemainderOnPage ==
    ASSUME NEW k \in 0 .. 5, NEW n \in {1, 3, 5, 6}
    PROVE  (k + 1) % n \in 0 .. n - 1
  <1>1. CASE n = 1  BY <1>1
  <1>2. CASE n = 3  BY <1>2
  <1>3. CASE n = 5  BY <1>3
  <1>4. CASE n = 6  BY <1>4
  <1> QED  BY <1>1, <1>2, <1>3, <1>4

\* What each page's size is.
LEMMA PageSizes ==
    ASSUME NEW mod \in Modules
    PROVE  /\ PageSize(mod) \in {1, 3, 5, 6}
           /\ mod = -1 => PageSize(mod) = 3
  BY DEF PageSize, Modules

\* The initial state satisfies the invariant.
LEMMA MenuInit == Init => MenuInv
  BY DEF Init, MenuInv, TypeOK, MarkerOnPage, ConfirmsWhatIsMarked, PressUnanswered,
         Buttons, Modules, PageSize

\* An answer to a press that was not answered yet.
LEMMA Answered ==
    ASSUME MenuInv, pc \in Buttons, ResetButton, Answer, pc' \notin Buttons
    PROVE  /\ PressUnanswered' /\ taken' \in [stored : Nat, acted : Nat]
           /\ g_BtnState' = "BTN_WAIT"
  <1>1. taken.acted + 1 <= taken.stored  BY DEF MenuInv, PressUnanswered
  <1>2. taken \in [stored : Nat, acted : Nat]  BY DEF MenuInv, TypeOK
  <1>3. taken' = [taken EXCEPT !.acted = taken.acted + 1]  BY <1>1, <1>2 DEF Answer
  <1>4. taken'.acted = taken.acted + 1 /\ taken'.stored = taken.stored  BY <1>2, <1>3
  <1>5. g_BtnState' = "BTN_WAIT"  BY DEF ResetButton
  <1> QED  BY <1>1, <1>2, <1>3, <1>4, <1>5 DEF PressUnanswered

----------------------------------------------------------------------------
(* Steps of the menu *)

LEMMA PressStep ==
    ASSUME MenuInv, NEW b \in Buttons, Press(b)
    PROVE  MenuInv'
  <1> USE DEF Press, MenuInv, TypeOK, menuVars, ledVars, pin
  <1>1. TypeOK'
    <2>1. CASE isr[b] = "menu"  BY <2>1 DEF Buttons
    <2>2. CASE isr[b] # "menu"  BY <2>2 DEF Buttons
    <2> QED  BY <2>1, <2>2
  <1>2. MarkerOnPage'  BY DEF MarkerOnPage
  <1>3. ConfirmsWhatIsMarked'  BY DEF ConfirmsWhatIsMarked
  <1>4. PressUnanswered'
    <2>1. CASE isr[b] = "menu"  BY <2>1 DEF PressUnanswered
    <2>2. CASE isr[b] # "menu"  BY <2>2 DEF PressUnanswered
    <2> QED  BY <2>1, <2>2
  <1> QED  BY <1>1, <1>2, <1>3, <1>4

LEMMA StartStep ==
    ASSUME MenuInv, Start
    PROVE  MenuInv'
  <1>1. PageSize(selectModule) \in {1, 3, 5, 6}  BY PageSizes DEF MenuInv, TypeOK
  <1> USE DEF Start, MenuInv, TypeOK, Show, ledVars, pin
  <1>2. TypeOK'  BY <1>1
  <1>3. MarkerOnPage'  BY DEF MarkerOnPage
  <1>4. ConfirmsWhatIsMarked'  BY DEF ConfirmsWhatIsMarked
  <1>5. PressUnanswered'  BY DEF PressUnanswered, Buttons
  <1> QED  BY <1>2, <1>3, <1>4, <1>5

LEMMA WaitStep ==
    ASSUME MenuInv, ReadButton \/ Delay \/ SmartHomeReturns
    PROVE  MenuInv'
  <1> USE DEF ReadButton, Delay, SmartHomeReturns, MenuInv, TypeOK, menuVars, ledVars, pin, Buttons
  <1>1. TypeOK'  OBVIOUS
  <1>2. MarkerOnPage'  BY DEF MarkerOnPage
  <1>3. ConfirmsWhatIsMarked'  BY DEF ConfirmsWhatIsMarked
  <1>4. PressUnanswered'  BY DEF PressUnanswered
  <1> QED  BY <1>1, <1>2, <1>3, <1>4

LEMMA NextLineStep ==
    ASSUME MenuInv, NextLine
    PROVE  MenuInv'
  <1>1. PageSize(selectModule) \in {1, 3, 5, 6} /\ selectMax = PageSize(selectModule)
    BY PageSizes DEF MenuInv, TypeOK, MarkerOnPage, NextLine
  <1>2. selectNumber' \in 0 .. PageSize(selectModule) - 1
    BY <1>1, RemainderOnPage DEF MenuInv, TypeOK, NextLine
  <1>3. pc \in Buttons /\ pc' \notin Buttons  BY DEF NextLine, Buttons
  <1>4. PressUnanswered' /\ taken' \in [stored : Nat, acted : Nat] /\ g_BtnState' = "BTN_WAIT"
    BY <1>3, Answered DEF NextLine
  <1>5. TypeOK'
    <2>1. selectNumber' \in 0 .. 5 /\ selectMax' \in {0, 1, 3, 5, 6}  BY <1>1, <1>2 DEF NextLine, Show
    <2>2. marked' \in Modules \X (0 .. 5)  BY <2>1 DEF NextLine, Show, MenuInv, TypeOK
    <2>3. UNCHANGED <<selectModule, running, isr, g_LedState, at, pinFunc, lamp, presses>>
      BY DEF NextLine, ledVars, pin
    <2>4. pc' = "delay"  BY DEF NextLine
    <2> QED  BY <1>4, <2>1, <2>2, <2>3, <2>4 DEF MenuInv, TypeOK
  <1>6. MarkerOnPage'  BY <1>1, <1>2 DEF NextLine, Show, MarkerOnPage
  <1>7. ConfirmsWhatIsMarked'  BY DEF NextLine, Show, ConfirmsWhatIsMarked
  <1> QED  BY <1>4, <1>5, <1>6, <1>7 DEF MenuInv

LEMMA OpenPageStep ==
    ASSUME MenuInv, OpenPage
    PROVE  MenuInv'
  <1>1. selectModule' \in Modules
    BY PageSizes DEF MenuInv, TypeOK, MarkerOnPage, OpenPage, Modules
  <1>2. PageSize(selectModule') \in {1, 3, 5, 6}  BY <1>1, PageSizes
  <1>3. pc \in Buttons /\ pc' \notin Buttons  BY DEF OpenPage, Buttons
  <1>4. PressUnanswered' /\ taken' \in [stored : Nat, acted : Nat] /\ g_BtnState' = "BTN_WAIT"
    BY <1>3, Answered DEF OpenPage
  <1>5. TypeOK'  BY <1>1, <1>2, <1>4 DEF OpenPage, Show, MenuInv, TypeOK, ledVars, pin
  <1>6. MarkerOnPage'  BY <1>2 DEF OpenPage, Show, MarkerOnPage
  <1>7. ConfirmsWhatIsMarked'  BY DEF OpenPage, Show, ConfirmsWhatIsMarked
  <1> QED  BY <1>4, <1>5, <1>6, <1>7 DEF MenuInv

Steps == {"none", "registerF1", "registerF2", "read", "LED_ON", "LED_OFF", "LED_BLINK", "blinkOn",
          "pwmInit", "pwm", "adcDelay", "adcInit", "adcRead", "adcWait"}

LEMMA CreateTaskTypes ==
    ASSUME at \in [Threads -> Steps], NEW entry, CreateTask(entry)
    PROVE  at' \in [Threads -> Steps]
  <1>1. CASE entry \in DOMAIN FirstStep /\ \E t \in Threads : at[t] = "none"
    <2>1. FirstStep[entry] \in Steps  BY <1>1 DEF FirstStep, Steps
    <2>2. PICK t \in Threads : at' = [at EXCEPT ![t] = FirstStep[entry]]  BY <1>1 DEF CreateTask
    <2> QED  BY <2>1, <2>2
  <1>2. CASE ~(entry \in DOMAIN FirstStep /\ \E t \in Threads : at[t] = "none")
    BY <1>2 DEF CreateTask
  <1> QED  BY <1>1, <1>2

LEMMA StartTutorialStep ==
    ASSUME MenuInv, StartTutorial
    PROVE  MenuInv'
  <1>1. selectModule \in 0 .. 2 /\ selectNumber \in 0 .. 5
    BY DEF MenuInv, TypeOK, StartTutorial, Modules
  <1>2. pc \in Buttons /\ pc' \notin Buttons /\ pc' \in {"inSmartHome", "read"}
    BY DEF StartTutorial, Buttons
  <1>3. PressUnanswered' /\ taken' \in [stored : Nat, acted : Nat] /\ g_BtnState' = "BTN_WAIT"
    BY <1>2, Answered DEF StartTutorial
  <1>4. at' \in [Threads -> Steps]
    BY CreateTaskTypes DEF StartTutorial, MenuInv, TypeOK, Steps
  <1>5. running' \subseteq (0 .. 2) \X (0 .. 5)
    BY <1>1 DEF StartTutorial, MenuInv, TypeOK
  <1>6. TypeOK'  BY <1>2, <1>3, <1>4, <1>5 DEF StartTutorial, MenuInv, TypeOK, pin, Steps
  <1>7. pc # "start" /\ UNCHANGED <<selectNumber, selectModule, selectMax, marked>>
    BY DEF StartTutorial
  <1>8. MarkerOnPage'  BY <1>7 DEF MenuInv, MarkerOnPage
  <1>9. ConfirmsWhatIsMarked'  BY <1>7 DEF MenuInv, ConfirmsWhatIsMarked
  <1> QED  BY <1>3, <1>6, <1>8, <1>9 DEF MenuInv

----------------------------------------------------------------------------
(* Steps of the tutorials leave the menu alone. *)

LEMMA TutorialStep ==
    ASSUME MenuInv, NEW t \in Threads, LedTask(t) \/ PWMTask(t) \/ AdcWake(t) \/ AdcRead(t)
    PROVE  MenuInv'
  <1>1. UNCHANGED MenuState
    BY DEF LedTask, Register, ReadLedState, SetLamp, PWMTask, PwmInit, AdcWake, AdcRead,
           MenuState, menuVars
  <1>2. TypeOK'
    <2> USE DEF MenuInv, TypeOK, Goto, menuVars, pin, Buttons
    <2>1. CASE Register(t)  BY <2>1 DEF Register
    <2>2. CASE ReadLedState(t)  BY <2>2 DEF ReadLedState
    <2>3. CASE SetLamp(t)  BY <2>3 DEF SetLamp
    <2>4. CASE PwmInit(t)  BY <2>4 DEF PwmInit
    <2>5. CASE AdcWake(t)  BY <2>5 DEF AdcWake
    <2>6. CASE AdcRead(t)  BY <2>6 DEF AdcRead
    <2> QED  BY <2>1, <2>2, <2>3, <2>4, <2>5, <2>6 DEF LedTask, PWMTask
  <1>3. MarkerOnPage' /\ ConfirmsWhatIsMarked' /\ PressUnanswered'
    BY <1>1 DEF MenuInv, MenuState, menuVars, MarkerOnPage, ConfirmsWhatIsMarked, PressUnanswered
  <1> QED  BY <1>2, <1>3 DEF MenuInv

LEMMA MenuNext == MenuInv /\ [Next]_vars => MenuInv'
  <1> SUFFICES ASSUME MenuInv, [Next]_vars PROVE MenuInv'  OBVIOUS
  <1>1. ASSUME NEW b \in Buttons, Press(b) PROVE MenuInv'  BY <1>1, PressStep
  <1>2. CASE Start  BY <1>2, StartStep
  <1>3. CASE ReadButton \/ Delay \/ SmartHomeReturns  BY <1>3, WaitStep
  <1>4. CASE NextLine  BY <1>4, NextLineStep
  <1>5. CASE OpenPage  BY <1>5, OpenPageStep
  <1>6. CASE StartTutorial  BY <1>6, StartTutorialStep
  <1>7. ASSUME NEW t \in Threads, LedTask(t) \/ PWMTask(t) \/ AdcWake(t) \/ AdcRead(t) PROVE MenuInv'
    BY <1>7, TutorialStep
  <1>8. CASE UNCHANGED vars
    BY <1>8 DEF vars, menuVars, ledVars, pin, MenuInv, TypeOK, MarkerOnPage, ConfirmsWhatIsMarked,
                PressUnanswered
  <1> QED  BY <1>1, <1>2, <1>3, <1>4, <1>5, <1>6, <1>7, <1>8 DEF Next, MenuTask, Select

LEMMA MenuInvariant == Spec => []MenuInv
  BY MenuInit, MenuNext, PTL DEF Spec

----------------------------------------------------------------------------

\* Every variable keeps its type.
THEOREM MenuTypeCorrect == Spec => []TypeOK
  <1>1. MenuInv => TypeOK  BY DEF MenuInv
  <1> QED  BY <1>1, MenuInvariant, PTL

\* No timing of the buttons moves the marker off its page: c[i] in S00_Gui to
\* S05_Gui is inside the array.
THEOREM MarkerStaysOnPage == Spec => []MarkerOnPage
  <1>1. MenuInv => MarkerOnPage  BY DEF MenuInv
  <1> QED  BY <1>1, MenuInvariant, PTL

\* The page and line Select_Task acts on are those the screen shows.
THEOREM ActsOnWhatIsShown == Spec => []ConfirmsWhatIsMarked
  <1>1. MenuInv => ConfirmsWhatIsMarked  BY DEF MenuInv
  <1> QED  BY <1>1, MenuInvariant, PTL

\* Select_Task answers no press twice, wherever the handlers interrupt it.
THEOREM PressAnsweredOnce == Spec => []NoPhantomPress
  <1>1. MenuInv => NoPhantomPress
    BY DEF MenuInv, TypeOK, PressUnanswered, NoPhantomPress
  <1> QED  BY <1>1, MenuInvariant, PTL
============================================================================
