----------------------------- MODULE ResetButton -----------------------------
(***************************************************************************)
(* The reset button programs, one for each board: is the button pressed    *)
(* when the machine starts, and is it held for two seconds?  The exit code *)
(* 99 makes the caller load the factory defaults.  The boards differ in    *)
(* how the switch is read (a register whose pin may first have to be made  *)
(* an input, or a device that can fail) and in what the lights show.       *)
(***************************************************************************)
EXTENDS Integers

CONSTANTS
    Samples,        \* samples after the first (20)
    Blinks          \* how often the lights blink (5)

VARIABLES
    board,          \* the program that runs
    pin,            \* the pin of the switch is a GPIO input
    pc,             \* "open", "setup", "first", "wait", "blink", "exit"
    i,              \* the loop counter
    ch,             \* APU: the character read last, or 0
    lights,         \* how many of the board's lights are on
    status,         \* the exit code
    held,           \* history: samples in a row in which the switch was pressed
    unread          \* history: a read failed

vars == <<board, pin, pc, i, ch, lights, status, held, unread>>

Boards == {"wrap", "alix", "FW7541", "APU", "RCC-VE"}

\* The boards whose program configures the pin, always or when it has to.
SetsPin == {"FW7541", "RCC-VE"}

AllLights == IF board \in {"FW7541", "RCC-VE"} THEN 1 ELSE 3

Init ==
    /\ board \in Boards
    /\ pin \in (IF board \in SetsPin THEN BOOLEAN ELSE {TRUE})
    /\ pc = "open" /\ i = 0 /\ ch = "0" /\ lights \in 0..1
    /\ status = -1 /\ held = 0 /\ unread = FALSE

Exit(code) == pc' = "exit" /\ status' = code

Open ==
    /\ pc = "open"
    /\ \/ Exit(1)
       \/ pc' = "setup" /\ UNCHANGED status
    /\ UNCHANGED <<board, pin, i, ch, lights, held, unread>>

Setup ==
    /\ pc = "setup"
    /\ pc' = "first"
    /\ pin' = TRUE
    /\ UNCHANGED <<board, i, ch, lights, status, held, unread>>

\* One reading of the switch. A pin that is no input reads as anything. The APU
\* reads a character, '1' for released; if that fails the one before stands.
Sample(pressed) ==
    \E down, fails \in BOOLEAN :
        /\ fails => board = "APU"
        /\ pin => (fails \/ pressed = down)
        /\ ch' = IF fails THEN ch ELSE IF down THEN "0" ELSE "1"
        /\ board = "APU" => pressed = (ch' # "1")
        /\ held' = IF down THEN held + 1 ELSE 0
        /\ unread' = (unread \/ fails)

First ==
    /\ pc = "first"
    /\ \E pressed \in BOOLEAN :
        /\ Sample(pressed)
        /\ IF pressed THEN pc' = "wait" /\ UNCHANGED status ELSE Exit(0)
    /\ UNCHANGED <<board, pin, i, lights>>

\* Mutant: a released switch does not end the wait.
Wait_Goes ==
    /\ pc = "wait"
    /\ \E pressed \in BOOLEAN :
        /\ Sample(pressed)
        /\ i' = IF i + 1 < Samples THEN i + 1 ELSE 0
        /\ pc' = IF i + 1 < Samples THEN "wait" ELSE "blink"
    /\ UNCHANGED <<board, pin, lights, status>>
Wait ==
    /\ pc = "wait"
    /\ \E pressed \in BOOLEAN :
        /\ Sample(pressed)
        /\ IF ~pressed THEN Exit(2) /\ UNCHANGED i
           ELSE /\ i' = IF i + 1 < Samples THEN i + 1 ELSE 0
                /\ pc' = IF i + 1 < Samples THEN "wait" ELSE "blink"
                /\ UNCHANGED status
    /\ UNCHANGED <<board, pin, lights>>

\* Half a blink: the lights go on, or off, for 300 ms.
Blink ==
    /\ pc = "blink" /\ i < 2 * Blinks
    /\ lights' = IF i % 2 = 0 THEN AllLights ELSE 0
    /\ i' = i + 1
    /\ UNCHANGED <<board, pin, pc, ch, status, held, unread>>

\* The normal state of the lights: the first of three on, a single one off.
Restore ==
    /\ pc = "blink" /\ i = 2 * Blinks
    /\ lights' = IF AllLights = 3 THEN 1 ELSE 0
    /\ Exit(99)
    /\ UNCHANGED <<board, pin, i, ch, held, unread>>

Next == Open \/ Setup \/ First \/ Wait \/ Blink \/ Restore

-----------------------------------------------------------------------------
(* Properties *)

\* Factory defaults are asked for only after the switch was pressed in every
\* sample of two seconds, and whenever it was; a switch that could not be read
\* (APU) counts as it did before, at first as pressed.
ResetOnlyIfHeld ==
    pc = "exit" /\ ~unread =>
        /\ status = 99 <=> held = Samples + 1
        /\ status = 2 => held = 0
=============================================================================
