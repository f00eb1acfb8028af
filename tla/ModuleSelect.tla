---------------------------- MODULE ModuleSelect ----------------------------
(***************************************************************************)
(* The button menu of the board (src/app/Entry/ModuleSelect.c) and the     *)
(* three tutorials it starts that share GPIO_2, the lamp: LED_Lights,      *)
(* which also takes the buttons away from the menu, LED_Breathe and        *)
(* LED_Induction.                                                          *)
(*                                                                         *)
(* A press runs the interrupt handler registered last for its button.  The *)
(* menu's handlers store the press in g_BtnState, one place for both       *)
(* buttons; Select_Task reads that place, and resets it in another step.   *)
(* Pages are numbered as in the code: -1 is the list of modules.           *)
(***************************************************************************)
EXTENDS Integers

CONSTANTS
    Threads,     \* bound: the tasks the three tutorials can create
    MaxPresses   \* bound: presses of both buttons together

ASSUME PressesAssumption == MaxPresses \in Nat

VARIABLES
    g_BtnState, selectNumber, selectModule, selectMax,   \* globals of ModuleSelect.c
    pc,          \* where Select_Task stands
    marked,      \* the page and line the screen marks with '<'
    running,     \* the tutorials started, as <<module, number>>
    isr,         \* whose handler is registered for each button
    g_LedState,  \* global of a02_01_LED_Lights.c
    at,          \* where each task of a tutorial stands
    pinFunc,     \* what drives GPIO_2: its output value, or PWM2
    lamp,        \* the output value of GPIO_2
    presses,     \* number of presses
    taken        \* history: presses stored by the menu and presses acted on

menuVars == <<selectNumber, selectModule, selectMax, marked, running>>
pin      == <<pinFunc, lamp>>
ledVars  == <<isr, g_LedState, at, pin>>
vars == <<g_BtnState, pc, menuVars, ledVars, presses, taken>>

Buttons == {"F1", "F2"}
Modules == -1 .. 2

\* Mutant of PageSize: the title above the list of modules counts as a line.
PageSizeWithTitle(mod) == CASE mod = -1 -> 4 [] mod = 0 -> 6 [] mod = 1 -> 5 [] mod = 2 -> 1

\* selectMax as Show_Gui sets it, the number of lines on the page.
PageSize(mod) == CASE mod = -1 -> 3 [] mod = 0 -> 6 [] mod = 1 -> 5 [] mod = 2 -> 1

\* The lines the inner switches have a case for: 02/05 has none.
HasCase(mod, n) == n < PageSize(mod) /\ <<mod, n>> # <<0, 4>>

\* The tutorials that use GPIO_2, with the first step of their tasks.
FirstStep == [entry \in {<<0, 0>>, <<0, 1>>, <<0, 2>>} |->
    CASE entry = <<0, 0>> -> "registerF1" [] entry = <<0, 1>> -> "pwmInit" [] entry = <<0, 2>> -> "adcDelay"]
SmartHome == <<2, 0>>   \* runs in Select_Task itself until it returns

Init ==
    /\ g_BtnState = "BTN_WAIT"
    /\ selectNumber = 0 /\ selectModule = -1 /\ selectMax = 0
    /\ pc = "start" /\ marked = <<>> /\ running = {}
    /\ isr = [b \in Buttons |-> "menu"]
    /\ g_LedState = "LED_BLINK" /\ pinFunc = "gpio" /\ lamp = 0
    /\ at = [t \in Threads |-> "none"]
    /\ presses = 0 /\ taken = [stored |-> 0, acted |-> 0]

----------------------------------------------------------------------------
(* Interrupts *)

\* F1_Pressed and F2_Pressed, of the menu or of the LED tutorial.
Press(b) ==
    /\ presses < MaxPresses
    /\ presses' = presses + 1
    /\ IF isr[b] = "menu"
       THEN /\ g_BtnState' = b
            /\ taken' = [taken EXCEPT !.stored = @ + 1]
            /\ UNCHANGED g_LedState
       ELSE /\ g_LedState' = IF b = "F1" THEN "LED_ON" ELSE "LED_OFF"
            /\ UNCHANGED <<g_BtnState, taken>>
    /\ UNCHANGED <<pc, menuVars, isr, at, pin>>

----------------------------------------------------------------------------
(* Select_Task *)

\* A press is acted on (history; bound: no more than one answer too many is counted).
Answer == taken' = [taken EXCEPT !.acted = IF @ > taken.stored THEN @ ELSE @ + 1]

\* Show_Gui for the page and line about to be current.
Show(mod, n) == selectMax' = PageSize(mod) /\ marked' = <<mod, n>>

Start ==
    /\ pc = "start"
    /\ Show(selectModule, selectNumber)
    /\ pc' = "read"
    /\ UNCHANGED <<g_BtnState, selectNumber, selectModule, running, ledVars, presses, taken>>

\* The switch reads g_BtnState once.
ReadButton ==
    /\ pc = "read"
    /\ pc' = IF g_BtnState = "BTN_WAIT" THEN "delay" ELSE g_BtnState
    /\ UNCHANGED <<g_BtnState, menuVars, ledVars, presses, taken>>

\* Mutant of ResetButton: the button state is left as it is.
KeepButton == UNCHANGED g_BtnState

\* The first statement of both cases, and the end of the press it answers.
ResetButton == g_BtnState' = "BTN_WAIT"

\* Case F1: the marker moves down one line, from the last one to the first.
NextLine ==
    /\ pc = "F1"
    /\ ResetButton
    /\ selectNumber' = (selectNumber + 1) % selectMax
    /\ Show(selectModule, selectNumber')
    /\ Answer
    /\ pc' = "delay"
    /\ UNCHANGED <<selectModule, running, ledVars, presses>>

\* Mutant of OpenPage: the line number is kept from the list of modules.
OpenPageSameLine ==
    /\ pc = "F2" /\ selectModule = -1
    /\ ResetButton
    /\ selectModule' = selectNumber
    /\ Show(selectModule', selectNumber)
    /\ Answer
    /\ pc' = "delayTwice"
    /\ UNCHANGED <<selectNumber, running, ledVars, presses>>

\* Mutant of OpenPage: the page is shown before its line is reset.
OpenPageShowFirst ==
    /\ pc = "F2" /\ selectModule = -1
    /\ ResetButton
    /\ selectModule' = selectNumber
    /\ selectNumber' = 0
    /\ Show(selectModule', selectNumber)
    /\ Answer
    /\ pc' = "delayTwice"
    /\ UNCHANGED <<running, ledVars, presses>>

\* Case F2 on the list of modules; the case falls through into BTN_WAIT.
OpenPage ==
    /\ pc = "F2" /\ selectModule = -1
    /\ ResetButton
    /\ selectModule' = selectNumber
    /\ selectNumber' = 0
    /\ Show(selectModule', 0)
    /\ Answer
    /\ pc' = "delayTwice"
    /\ UNCHANGED <<running, ledVars, presses>>

\* osThreadNew in the three tutorials; when it fails they only print that.
CreateTask(entry) ==
    IF entry \in DOMAIN FirstStep /\ \E t \in Threads : at[t] = "none"
    THEN \E t \in Threads : at[t] = "none" /\ at' = [at EXCEPT ![t] = FirstStep[entry]]
    ELSE UNCHANGED at

\* Case F2 on a page of tutorials: the break leaves the switch without a delay.
StartTutorial ==
    LET entry == <<selectModule, selectNumber>> IN
    /\ pc = "F2" /\ selectModule # -1
    /\ ResetButton
    /\ Answer
    /\ running' = IF HasCase(selectModule, selectNumber) THEN running \cup {entry} ELSE running
    /\ CreateTask(entry)
    /\ pc' = IF entry = SmartHome THEN "inSmartHome" ELSE "read"
    /\ UNCHANGED <<selectNumber, selectModule, selectMax, marked, isr, g_LedState, pin, presses>>

\* c05_01_main_task returns (it may not: Wi-Fi may never connect).
SmartHomeReturns ==
    /\ pc = "inSmartHome"
    /\ pc' = "read"
    /\ UNCHANGED <<g_BtnState, menuVars, ledVars, presses, taken>>

Delay ==
    /\ pc \in {"delay", "delayTwice"}
    /\ pc' = IF pc = "delayTwice" THEN "delay" ELSE "read"
    /\ UNCHANGED <<g_BtnState, menuVars, ledVars, presses, taken>>

Select == Start \/ ReadButton \/ NextLine \/ OpenPage \/ StartTutorial \/ Delay

----------------------------------------------------------------------------
(* The tasks of the tutorials *)

Goto(t, step) == at' = [at EXCEPT ![t] = step]

\* LedTask takes the buttons over, F1 and then F2; it leaves pinFunc alone.
Register(t) ==
    /\ \/ at[t] = "registerF1" /\ isr' = [isr EXCEPT !["F1"] = "led"] /\ Goto(t, "registerF2")
       \/ at[t] = "registerF2" /\ isr' = [isr EXCEPT !["F2"] = "led"] /\ Goto(t, "read")
    /\ UNCHANGED <<g_BtnState, pc, menuVars, g_LedState, pin, presses, taken>>

ReadLedState(t) ==
    /\ at[t] = "read"
    /\ Goto(t, g_LedState)
    /\ UNCHANGED <<g_BtnState, pc, menuVars, isr, g_LedState, pin, presses, taken>>

\* Mutant of SetLamp: the case LED_OFF has no break and falls into LED_BLINK.
SetLampNoBreak(t) ==
    /\ \/ at[t] = "LED_ON" /\ lamp' = 1 /\ Goto(t, "read")
       \/ at[t] = "LED_OFF" /\ lamp' = 0 /\ Goto(t, "LED_BLINK")
       \/ at[t] = "LED_BLINK" /\ lamp' = 0 /\ Goto(t, "blinkOn")
       \/ at[t] = "blinkOn" /\ lamp' = 1 /\ Goto(t, "read")
    /\ UNCHANGED <<g_BtnState, pc, menuVars, isr, g_LedState, pinFunc, presses, taken>>

\* The switch of LedTask: each case sets GPIO_2 and waits, LED_BLINK twice.
SetLamp(t) ==
    /\ \/ at[t] = "LED_ON" /\ lamp' = 1 /\ Goto(t, "read")
       \/ at[t] = "LED_OFF" /\ lamp' = 0 /\ Goto(t, "read")
       \/ at[t] = "LED_BLINK" /\ lamp' = 0 /\ Goto(t, "blinkOn")
       \/ at[t] = "blinkOn" /\ lamp' = 1 /\ Goto(t, "read")
    /\ UNCHANGED <<g_BtnState, pc, menuVars, isr, g_LedState, pinFunc, presses, taken>>

\* PWMTask hands GPIO_2 to PWM2; its loop then changes duty cycles only.
PwmInit(t) ==
    /\ at[t] = "pwmInit"
    /\ pinFunc' = "pwm"
    /\ Goto(t, "pwm")
    /\ UNCHANGED <<g_BtnState, pc, menuVars, isr, g_LedState, lamp, presses, taken>>

\* adc_light_demo: the end of an osDelay, and the set-up of the pin.
AdcWake(t) ==
    /\ \/ at[t] = "adcDelay" /\ Goto(t, "adcInit") /\ UNCHANGED pinFunc
       \/ at[t] = "adcInit" /\ pinFunc' = "gpio" /\ Goto(t, "adcRead")
       \/ at[t] = "adcWait" /\ Goto(t, "adcRead") /\ UNCHANGED pinFunc
    /\ UNCHANGED <<g_BtnState, pc, menuVars, isr, g_LedState, lamp, presses, taken>>

\* A successful read, bright or dark, sets the lamp and sleeps.  A failing one
\* changes nothing: the loop goes round at once.
AdcRead(t) ==
    /\ at[t] = "adcRead"
    /\ lamp' \in {0, 1}
    /\ Goto(t, "adcWait")
    /\ UNCHANGED <<g_BtnState, pc, menuVars, isr, g_LedState, pinFunc, presses, taken>>

\* Priority 25 against 24 of all others: while it has not gone to sleep,
\* adc_light_demo keeps them from running.
AdcReady == \E t \in Threads : at[t] \in {"adcInit", "adcRead"}

LedTask(t) == ~AdcReady /\ (Register(t) \/ ReadLedState(t) \/ SetLamp(t))
PWMTask(t) == ~AdcReady /\ PwmInit(t)

----------------------------------------------------------------------------

MenuTask == ~AdcReady /\ Select

Next ==
    \/ \E b \in Buttons : Press(b)
    \/ MenuTask
    \/ ~AdcReady /\ SmartHomeReturns
    \/ \E t \in Threads : LedTask(t) \/ PWMTask(t) \/ AdcWake(t) \/ AdcRead(t)

Spec == Init /\ [][Next]_vars

\* The menu's task, LedTask and PWMTask have one priority and sleep in every
\* round; adc_light_demo sleeps 100 ticks between reads, time for all of them to
\* run, hence strong fairness.  Nothing obliges the smart-home tutorial to return
\* or hi_adc_read to succeed.
FairSpec ==
    /\ Spec
    /\ SF_vars(MenuTask)
    /\ \A t \in Threads : SF_vars(LedTask(t)) /\ SF_vars(PWMTask(t)) /\ WF_vars(AdcWake(t))

----------------------------------------------------------------------------
(* Properties *)

\* The type of every variable.
TypeOK ==
    /\ g_BtnState \in Buttons \cup {"BTN_WAIT"}
    /\ selectNumber \in 0 .. 5 /\ selectModule \in Modules /\ selectMax \in {0, 1, 3, 5, 6}
    /\ pc \in {"start", "read", "F1", "F2", "inSmartHome", "delay", "delayTwice"}
    /\ marked \in {<<>>} \cup (Modules \X (0 .. 5))
    /\ running \subseteq (0 .. 2) \X (0 .. 5)
    /\ isr \in [Buttons -> {"menu", "led"}]
    /\ g_LedState \in {"LED_ON", "LED_OFF", "LED_BLINK"}
    /\ pinFunc \in {"gpio", "pwm"} /\ lamp \in {0, 1}
    /\ at \in [Threads -> {"none", "registerF1", "registerF2", "read", "LED_ON", "LED_OFF",
                            "LED_BLINK", "blinkOn", "pwmInit", "pwm", "adcDelay", "adcInit",
                            "adcRead", "adcWait"}]
    /\ presses \in Nat /\ taken \in [stored : Nat, acted : Nat]

\* The marker is written at index selectNumber of an array as long as the page,
\* and the modulus is that page's: no timing of the buttons takes the index out
\* of the array (c[i] = '<' in S00_Gui to S05_Gui).
MarkerOnPage ==
    /\ selectNumber < PageSize(selectModule)
    /\ pc # "start" => selectMax = PageSize(selectModule)

\* What F2 acts on is what the screen marks, whatever presses came before it.
ConfirmsWhatIsMarked == pc # "start" => marked = <<selectModule, selectNumber>>

\* No press is answered twice, although the reset of g_BtnState comes after the
\* read and a handler may run between them.
NoPhantomPress == taken.acted + (IF pc \in Buttons THEN 1 ELSE 0) <= taken.stored

\* A press stored is consumed in the end, unless the smart-home tutorial, which
\* runs in Select_Task, does not return, or the reads of the light sensor fail
\* from some point on.
PressConsumed ==
    \/ [](g_BtnState # "BTN_WAIT" => <>(g_BtnState = "BTN_WAIT" \/ pc = "inSmartHome"))
    \/ <>[]AdcReady

\* Once the last press has said so, the lamp stays on or off, however many
\* LedTasks (F2 can start a second one before the first has taken F2 over) drive
\* the same pin from one g_LedState, as long as none of the other two tutorials
\* on that pin was started.
OnlyLedTasks == running \cap DOMAIN FirstStep \subseteq {<<0, 0>>}
LampObeys ==
    \A s \in {"LED_ON", "LED_OFF"} :
        <>[](g_LedState = s /\ OnlyLedTasks)
            => <>[](pinFunc = "gpio" /\ lamp = IF s = "LED_ON" THEN 1 ELSE 0)
============================================================================
