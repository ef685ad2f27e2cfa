----------------------------- MODULE LightTable -----------------------------
(***************************************************************************)
(* The table process: the main loop of main.cpp, the HTTP command handler, *)
(* the Table with its two effects and the transition between them, and the *)
(* sounds, which are the library of SoundLibrary (lib is table.sounds).    *)
(*                                                                         *)
(* One iteration of the loop is four steps of the program counter:         *)
(*    poll   the server runs the handlers that are ready: any number of    *)
(*           requests, and at most once the handler of a quit signal       *)
(*    switch the power switch is read and may toggle table.active          *)
(*    step   Table::step: sleep or wake, sounds, effects, LEDs             *)
(*    sleep  the rest of the frame is slept away and dt is measured        *)
(* Effects are objects: the code compares them by address, so a new effect *)
(* is an identity that nothing refers to yet.                              *)
(***************************************************************************)
EXTENDS SoundLibrary

CONSTANTS
    Effects,          \* the identities of the effects commands create
    PlainBlack,       \* the PLAIN_BLACK object of table.cpp
    FADE_DURATION,    \* length of the transition between two effects, in ms
    GRADIENTS,        \* the gradient names the handler knows
    GradientNames,    \* the gradient names clients ask for
    SoundNames,       \* the sound names clients ask for
    WithSounds        \* is the program built WITH_SOUNDS?

ASSUME PlainBlackAssumption == PlainBlack \notin Effects
ASSUME FadeDurationAssumption == FADE_DURATION \in Nat \ {0}
ASSUME TimeAssumption == 0 \notin Dts
ASSUME WithSoundsAssumption == WithSounds \in BOOLEAN

VARIABLES
    pc,                  \* where the main loop is
    running,             \* cleared by the handler of the quit signals
    on_raspi,            \* could the GPIO of the power switch be set up?
    last_switch_state,   \* was the switch down when it was last read?
    table,               \* the Table: see Tables
    dt,                  \* duration of the previous iteration
    shown,               \* the effects whose colours the LEDs blend
    reply                \* the last reply given in this poll

vars == <<pc, running, on_raspi, last_switch_state, table, dt, shown, reply, lib>>

LoopSteps == {"poll", "switch", "step", "sleep"}
Stopped == {"exited", "out_of_range", "logic_error"}
AllEffects == Effects \union {PlainBlack}

Replies == {"none", "ok", "accepted", "bad_request"}

Tables == [active : BOOLEAN,
           previously_active : BOOLEAN,
           previous_effect : AllEffects,
           current_effect : AllEffects,
           transition : [elapsed_fade : Nat, done : BOOLEAN]]

TypeOK ==
    /\ pc \in LoopSteps \union Stopped
    /\ running \in BOOLEAN
    /\ on_raspi \in BOOLEAN
    /\ last_switch_state \in BOOLEAN
    /\ table \in Tables
    /\ dt \in Dts \union {0}
    /\ shown \subseteq AllEffects
    /\ reply \in Replies
    /\ LibraryTypeOK

-----------------------------------------------------------------------------
(* Table and Fade, as operators on a table.                                 *)

NewTransition == [elapsed_fade |-> 0, done |-> FALSE]

\* Mutant: the assignments are swapped, so both pointers get the new effect.
SetNextEffectSwapped(t, effect) ==
    [t EXCEPT !.current_effect = effect, !.previous_effect = effect,
              !.transition = NewTransition]

SetNextEffect(t, effect) ==
    [t EXCEPT !.previous_effect = t.current_effect, !.current_effect = effect,
              !.transition = NewTransition]

\* The table has just been switched to inactive.
FallsAsleep(t) == t.previously_active /\ ~t.active

FallAsleep(t) ==
    IF FallsAsleep(t) THEN [SetNextEffect(t, PlainBlack) EXCEPT !.previously_active = FALSE]
                      ELSE t

\* Mutant: the table wakes up in the dark.
WakeUpDark(t) ==
    IF ~t.previously_active /\ t.active THEN [t EXCEPT !.previously_active = TRUE] ELSE t

\* The previous effect is restored unless something else than black was set meanwhile.
WakeUp(t) ==
    IF ~t.previously_active /\ t.active
    THEN [(IF t.current_effect = PlainBlack THEN SetNextEffect(t, t.previous_effect) ELSE t)
             EXCEPT !.previously_active = TRUE]
    ELSE t

FadeEnded(t) == t.transition.elapsed_fade >= FADE_DURATION

\* Mutant: the elapsed time of the transition is never advanced.
StepTransitionFrozen(t, d) ==
    IF ~t.transition.done /\ FadeEnded(t) THEN [t EXCEPT !.transition.done = TRUE] ELSE t

StepTransition(t, d) ==
    IF t.transition.done THEN t
    ELSE IF FadeEnded(t) THEN [t EXCEPT !.transition.done = TRUE]
    ELSE [t EXCEPT !.transition.elapsed_fade = @ + d]

\* Mutant: the finished transition returns its start colours.
BlendBackwards(t) ==
    IF t.transition.done \/ FadeEnded(t) THEN {t.previous_effect}
    ELSE IF t.transition.elapsed_fade = 0 THEN {t.previous_effect}
    ELSE {t.previous_effect, t.current_effect}

\* The colours sent to the LEDs: at alpha = 0 the blend is the previous effect alone.
Blend(t) ==
    IF t.transition.done \/ FadeEnded(t) THEN {t.current_effect}
    ELSE IF t.transition.elapsed_fade = 0 THEN {t.previous_effect}
    ELSE {t.previous_effect, t.current_effect}

-----------------------------------------------------------------------------
Init ==
    /\ pc = "poll"
    /\ running = TRUE
    /\ on_raspi \in BOOLEAN
    /\ last_switch_state = FALSE
    /\ \E black, white \in Effects :
          /\ black # white
          /\ table = [active |-> TRUE, previously_active |-> TRUE,
                      previous_effect |-> black, current_effect |-> white,
                      transition |-> NewTransition]
    /\ dt = 0
    /\ shown = {PlainBlack}
    /\ reply = "none"
    /\ LibraryInit

-----------------------------------------------------------------------------
(* The handlers poll() runs: requests first.                                *)

\* An object just allocated is none of those the program still refers to.
Fresh(effect) == effect \in Effects \ ({table.previous_effect, table.current_effect} \union shown)

\* Mutant: the check of handler.cpp:83 is missing.
AcceptsCommandsAlways == pc = "poll"

\* A command the table is awake to execute.
AcceptsCommands == pc = "poll" /\ table.active

\* The reply handed to the connection; the table and its sounds are left alone.
Answer(status) ==
    /\ reply' = status
    /\ UNCHANGED <<pc, running, on_raspi, last_switch_state, table, dt, shown, lib>>

(* The URI cannot be decoded, is relative or has ".."; it has no content and  *)
(* does not ask for the state; its content is not JSON.                      *)
InvalidRequest == pc = "poll" /\ Answer("bad_request")

\* The sources_to_JSON of the table, which has none.
GetState == pc = "poll" /\ Answer("ok")

\* A command for a table in sleep mode, whatever it asks for.
RefusedAsleep == pc = "poll" /\ ~table.active /\ Answer("bad_request")

(* The mode is unknown, or is a sound mode and the program has no sounds, or *)
(* is one that is not implemented: COLOR_MIX and PULSE look a source up, and *)
(* no source is ever added to the table.                                     *)
UnsupportedCommand == AcceptsCommands /\ Answer("bad_request")

\* Mutant: the line commented out at handler.cpp:81 is back, a command activates the table.
PlainCommandActivating ==
    /\ pc = "poll"
    /\ \E effect \in Effects :
          Fresh(effect) /\ table' = [SetNextEffect(table, effect) EXCEPT !.active = TRUE]
    /\ reply' = "accepted"
    /\ UNCHANGED <<pc, running, on_raspi, last_switch_state, dt, shown, lib>>

\* PLAIN, which is also the mode of a command without one.
PlainCommand ==
    /\ AcceptsCommands
    /\ \E effect \in Effects : Fresh(effect) /\ table' = SetNextEffect(table, effect)
    /\ reply' = "accepted"
    /\ UNCHANGED <<pc, running, on_raspi, last_switch_state, dt, shown, lib>>

\* NOISE and GRADIENTFADE, with a gradient the handler knows.
GradientCommand(name) ==
    /\ AcceptsCommands
    /\ name \in GRADIENTS
    /\ \E effect \in Effects : Fresh(effect) /\ table' = SetNextEffect(table, effect)
    /\ reply' = "accepted"
    /\ UNCHANGED <<pc, running, on_raspi, last_switch_state, dt, shown, lib>>

(* An exception leaves the handler.  Nothing catches it between poll() and   *)
(* main: the process dies, with its LEDs as they are.                        *)
Crash(exception) ==
    /\ pc' = exception
    /\ UNCHANGED <<running, on_raspi, last_switch_state, table, dt, shown, reply, lib>>

\* GRADIENTS.at throws before the effect is set.
UnknownGradient(name) == AcceptsCommands /\ name \notin GRADIENTS /\ Crash("out_of_range")

\* asInt or asString, on a value of another type, throws before any change.
IllTypedCommand == AcceptsCommands /\ Crash("logic_error")

SoundCommand(name) ==
    /\ AcceptsCommands
    /\ WithSounds
    /\ RequestSound(name)
    /\ reply' = "accepted"
    /\ UNCHANGED <<pc, running, on_raspi, last_switch_state, table, dt, shown>>

BackgroundSoundCommand(name) ==
    /\ AcceptsCommands
    /\ WithSounds
    /\ RequestBackground(name)
    /\ reply' = "accepted"
    /\ UNCHANGED <<pc, running, on_raspi, last_switch_state, table, dt, shown>>

StopCommand ==
    /\ AcceptsCommands
    /\ table' = [table EXCEPT !.active = FALSE]
    /\ reply' = "accepted"
    /\ UNCHANGED <<pc, running, on_raspi, last_switch_state, dt, shown, lib>>

\* The asynchronous wait for SIGINT, SIGTERM or SIGQUIT is started once.
QuitSignal ==
    /\ pc = "poll"
    /\ running
    /\ running' = FALSE
    /\ UNCHANGED <<pc, on_raspi, last_switch_state, table, dt, shown, reply, lib>>

EndPoll ==
    /\ pc = "poll"
    /\ pc' = "switch"
    /\ reply' = "none"
    /\ UNCHANGED <<running, on_raspi, last_switch_state, table, dt, shown, lib>>

-----------------------------------------------------------------------------
(* The rest of the iteration.                                               *)

\* What GPIORead returns: the level of the pin, or -1 when it cannot be read.
GPIOLevels == {-1, 0, 1}

SwitchPressed(level) == on_raspi /\ level = 1 /\ ~last_switch_state

PowerSwitch ==
    /\ pc = "switch"
    /\ \E level \in GPIOLevels :
          /\ table' = [table EXCEPT !.active = (table.active # SwitchPressed(level))]
          /\ last_switch_state' = (on_raspi /\ level = 1)
    /\ pc' = "step"
    /\ UNCHANGED <<running, on_raspi, dt, shown, reply, lib>>

TableStep ==
    /\ pc = "step"
    /\ LET awake == WakeUp(FallAsleep(table))
           sounds == IF FallsAsleep(table) THEN StopAll(lib) ELSE lib
       IN  /\ table' = StepTransition(awake, dt)
           /\ shown' = Blend(awake)
           /\ lib' = IF WithSounds THEN StepSounds(sounds, dt) ELSE lib
    /\ pc' = "sleep"
    /\ UNCHANGED <<running, on_raspi, last_switch_state, dt, reply>>

\* Mutant: the two times are subtracted the wrong way round.
NextFrameBackwards ==
    /\ pc = "sleep"
    /\ running
    /\ \E d \in Dts : dt' = 0 - d
    /\ pc' = "poll"
    /\ UNCHANGED <<running, on_raspi, last_switch_state, table, shown, reply, lib>>

\* Mutant: the loop does not look at running.
NextFrameForever ==
    /\ pc = "sleep"
    /\ dt' \in Dts
    /\ pc' = "poll"
    /\ UNCHANGED <<running, on_raspi, last_switch_state, table, shown, reply, lib>>

\* The frame is over; the loop goes on while running is set.
NextFrame ==
    /\ pc = "sleep"
    /\ running
    /\ dt' \in Dts
    /\ pc' = "poll"
    /\ UNCHANGED <<running, on_raspi, last_switch_state, table, shown, reply, lib>>

\* main returns: the Ledstrip is destroyed, which blanks it, and so are the sounds.
Exit ==
    /\ pc = "sleep"
    /\ ~running
    /\ dt' \in Dts
    /\ shown' = {PlainBlack}
    /\ lib' = [lib EXCEPT !.audio = [s \in Sounds |-> [lib.audio[s] EXCEPT !.playing = FALSE]]]
    /\ pc' = "exited"
    /\ UNCHANGED <<running, on_raspi, last_switch_state, table, reply>>

\* SFML plays on a thread of its own: a sound may end between any two steps.
SoundEnds(sound) ==
    /\ pc \notin Stopped
    /\ Finish(sound)
    /\ UNCHANGED <<pc, running, on_raspi, last_switch_state, table, dt, shown, reply>>

Request ==
    \/ InvalidRequest \/ GetState \/ RefusedAsleep \/ UnsupportedCommand \/ IllTypedCommand
    \/ PlainCommand
    \/ \E name \in GradientNames : GradientCommand(name) \/ UnknownGradient(name)
    \/ \E name \in SoundNames : SoundCommand(name) \/ BackgroundSoundCommand(name)
    \/ StopCommand

MainLoop == EndPoll \/ PowerSwitch \/ TableStep \/ NextFrame \/ Exit

Next ==
    \/ Request
    \/ QuitSignal
    \/ MainLoop
    \/ \E sound \in Foreground : SoundEnds(sound)

Spec == Init /\ [][Next]_vars

\* The main loop keeps running: poll() returns once no handler is ready.
FairSpec == Spec /\ WF_vars(MainLoop)

-----------------------------------------------------------------------------
(* Safety.                                                                  *)

(* Asleep, the table shows PLAIN_BLACK and still holds the ambience to come  *)
(* back to; awake, its current effect is never PLAIN_BLACK itself.  It is    *)
(* active and not yet awake only between the press and the step that wakes   *)
(* it, so no command ever reaches a sleeping table (table.cpp:26-49).        *)
SleepKeepsTheAmbience ==
    /\ table.previously_active => table.current_effect # PlainBlack
    /\ ~table.previously_active =>
           table.current_effect = PlainBlack /\ table.previous_effect # PlainBlack
    /\ table.active /\ ~table.previously_active => pc = "step"

(* A transition is between two effect objects: were they one, it would be    *)
(* stepped twice an iteration while the transition runs (table.cpp:56-63).   *)
EffectsNotAliased == table.previous_effect # table.current_effect

(* Sleep silences the table: from the step that puts it to sleep on, both    *)
(* channels fade, or have faded, to SILENCE, and no command undoes that.     *)
SleepSilences ==
    WithSounds /\ ~table.previously_active =>
        \A c \in Channels : lib.fades[c].end_sound = Silence

(* At the end of an iteration the LEDs show the effects of the transition,   *)
(* the current one alone once it is done.                                    *)
LedsShowTheTransition ==
    pc = "sleep" =>
        /\ shown \subseteq {table.previous_effect, table.current_effect}
        /\ table.transition.done => shown = {table.current_effect}

-----------------------------------------------------------------------------
(* Refinement: whatever the loop, the fades and sleep do, the table is a lamp *)
(* that remembers its ambience.                                              *)
LampEffect == IF table.previously_active THEN table.current_effect
                                         ELSE table.previous_effect

TheLamp == INSTANCE Lamp WITH on <- table.previously_active, effect <- LampEffect

LampSpec == TheLamp!Spec

-----------------------------------------------------------------------------
(* Liveness, under FairSpec.                                                *)

(* The effect asked for ends up alone on the LEDs, unless another is asked   *)
(* for or the process stops.                                                 *)
EffectIsShown ==
    \A effect \in AllEffects :
        table.current_effect = effect
            ~> \/ shown = {effect}
               \/ table.current_effect # effect
               \/ pc \in Stopped

(* A sleeping table becomes dark and quiet, unless it is woken or stops.     *)
SleepIsDarkAndQuiet ==
    ~table.previously_active
        ~> \/ shown = {PlainBlack} /\ \A s \in Sounds : ~lib.audio[s].playing
           \/ table.previously_active
           \/ pc \in Stopped

(* A STOP puts the table to sleep: neither the commands that follow it in    *)
(* the same poll nor a quit signal undo it.  Only a press of the switch in   *)
(* the same iteration does, or an exception in the same poll                 *)
(* (handler.cpp:83 and 138-141, main.cpp:93, table.cpp:26).                  *)
StopIsHeeded ==
    ~table.active
        ~> \/ ~table.previously_active
           \/ pc = "step" /\ table.active /\ last_switch_state
           \/ pc \in {"out_of_range", "logic_error"}

(* A quit signal ends the main loop.                                         *)
QuitEnds == ~running ~> pc \in Stopped

-----------------------------------------------------------------------------
(* What the repository says of the program and the program does not do.      *)

(* html/index.html:24-25: the #rainbow tile sends NOISE with the gradient     *)
(* "rainbow".  The names the table's own pages ask for are answered: none of *)
(* them makes GRADIENTS.at throw.                                            *)
TilesAreServed == pc # "out_of_range"
=============================================================================
