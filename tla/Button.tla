------------------------------- MODULE Button -------------------------------
(***************************************************************************)
(* The GPIO shutter (gpio.c:16-59): the task samples the button's level    *)
(* every tick, in an outer loop until it is pushed and in an inner loop    *)
(* until it is released, then sends the command.                           *)
(***************************************************************************)
EXTENDS Triggers

VARIABLES
    pushed,    \* the button's level, as the user holds it
    gpioPc     \* "poll", "held" or "send"

buttonVars == <<pushed, gpioPc>>

ButtonBoot == pushed = FALSE /\ gpioPc = "poll"

ButtonTypeOK == pushed \in BOOLEAN /\ gpioPc \in {"poll", "held", "send"}

Push ==
    /\ shutter = "gpio"
    /\ ~pushed
    /\ pushed' = TRUE
    /\ UNCHANGED <<triggerVars, gpioPc>>

\* The picture is asked for when the button is turned off again; turns that
\* fall between two samples count once.
LetGo ==
    /\ pushed
    /\ pushed' = FALSE
    /\ asked' = 1
    /\ UNCHANGED <<shutter, cmdQ, gpioPc>>

\* Mutant: the inner loop is missing, pushing is enough.
SeenPushedAtOnce == "send"

SeenPushed == "held"

SamplePushed ==
    /\ shutter = "gpio"
    /\ gpioPc = "poll"
    /\ pushed
    /\ gpioPc' = SeenPushed
    /\ UNCHANGED <<triggerVars, pushed>>

SampleReleased ==
    /\ gpioPc = "held"
    /\ ~pushed
    /\ gpioPc' = "send"
    /\ UNCHANGED <<triggerVars, pushed>>

SendRelease ==
    /\ gpioPc = "send"
    /\ SendCommand
    /\ gpioPc' = "poll"
    /\ UNCHANGED <<shutter, pushed>>

ButtonTask == SamplePushed \/ SampleReleased \/ SendRelease
=============================================================================
