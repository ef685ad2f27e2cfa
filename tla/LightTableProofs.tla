------------------------- MODULE LightTableProofs -------------------------
(***************************************************************************)
(* The table falls asleep and wakes as a lamp should, for every set of     *)
(* effects, every duration of fades and iterations, with or without sounds.*)
(*                                                                         *)
(* The inductive invariant says of a table at any point of the loop        *)
(*   - that it is asleep exactly when its current effect is PLAIN_BLACK,   *)
(*     with the ambience to come back to as its previous effect;           *)
(*   - that between a press that wakes it and the step that does, the loop *)
(*     is at that step, so that no request is handled meanwhile;           *)
(*   - that its sounds are well mixed while the process runs, and on their *)
(*     way to SILENCE while it sleeps.                                     *)
(***************************************************************************)
EXTENDS LightTable, SoundLibraryProofs

Mixing == pc \notin Stopped => WellMixed(lib)

IInv ==
    /\ TypeOK
    /\ SleepKeepsTheAmbience
    /\ EffectsNotAliased
    /\ Mixing
    /\ SleepSilences

-----------------------------------------------------------------------------
(* The operators on a table.                                                *)

\* set_next_effect moves the current effect to the previous one.
LEMMA SetNextEffectFacts ==
    ASSUME NEW t \in Tables, NEW e \in AllEffects
    PROVE  /\ SetNextEffect(t, e) \in Tables
           /\ SetNextEffect(t, e).active = t.active
           /\ SetNextEffect(t, e).previously_active = t.previously_active
           /\ SetNextEffect(t, e).previous_effect = t.current_effect
           /\ SetNextEffect(t, e).current_effect = e
BY DEF SetNextEffect, NewTransition, Tables

\* Going to sleep keeps the current effect as the previous one.
LEMMA FallAsleepFacts ==
    ASSUME NEW t \in Tables
    PROVE  /\ FallAsleep(t) \in Tables
           /\ FallAsleep(t).active = t.active
           /\ FallAsleep(t).previously_active = (t.previously_active /\ t.active)
           /\ FallsAsleep(t) => /\ FallAsleep(t).previous_effect = t.current_effect
                                /\ FallAsleep(t).current_effect = PlainBlack
           /\ ~FallsAsleep(t) => FallAsleep(t) = t
<1>1. PlainBlack \in AllEffects
  BY DEF AllEffects
<1>2. CASE FallsAsleep(t)
  <2> DEFINE new == SetNextEffect(t, PlainBlack)
  <2>1. /\ new \in Tables /\ new.active = t.active
        /\ new.previous_effect = t.current_effect /\ new.current_effect = PlainBlack
    BY <1>1, SetNextEffectFacts
  <2>2. FallAsleep(t) = [new EXCEPT !.previously_active = FALSE]
    BY <1>2 DEF FallAsleep
  <2> HIDE DEF new
  <2>3. QED
    BY <1>2, <2>1, <2>2 DEF FallsAsleep, Tables
<1>3. CASE ~FallsAsleep(t)
  BY <1>3 DEF FallAsleep, FallsAsleep, Tables
<1>4. QED
  BY <1>2, <1>3

\* Waking up from black swaps the two effects.
LEMMA WakeUpFacts ==
    ASSUME NEW t \in Tables
    PROVE  /\ WakeUp(t) \in Tables
           /\ WakeUp(t).active = t.active
           /\ WakeUp(t).previously_active = (t.previously_active \/ t.active)
           /\ ~t.previously_active /\ t.active /\ t.current_effect = PlainBlack =>
                  /\ WakeUp(t).previous_effect = t.current_effect
                  /\ WakeUp(t).current_effect = t.previous_effect
           /\ t.previously_active \/ ~t.active => WakeUp(t) = t
<1>1. t.previous_effect \in AllEffects
  BY DEF Tables
<1>2. CASE ~t.previously_active /\ t.active
  <2> DEFINE new == IF t.current_effect = PlainBlack THEN SetNextEffect(t, t.previous_effect)
                                                     ELSE t
  <2>1. /\ new \in Tables /\ new.active = t.active
        /\ t.current_effect = PlainBlack => /\ new.previous_effect = t.current_effect
                                           /\ new.current_effect = t.previous_effect
    BY <1>1, SetNextEffectFacts
  <2>2. WakeUp(t) = [new EXCEPT !.previously_active = TRUE]
    BY <1>2 DEF WakeUp
  <2> HIDE DEF new
  <2>3. QED
    BY <1>2, <2>1, <2>2 DEF Tables
<1>3. CASE ~(~t.previously_active /\ t.active)
  BY <1>3 DEF WakeUp, Tables
<1>4. QED
  BY <1>2, <1>3

\* The transition alone changes when it is stepped.
LEMMA StepTransitionFacts ==
    ASSUME NEW t \in Tables, NEW d \in Nat
    PROVE  /\ StepTransition(t, d) \in Tables
           /\ StepTransition(t, d).active = t.active
           /\ StepTransition(t, d).previously_active = t.previously_active
           /\ StepTransition(t, d).previous_effect = t.previous_effect
           /\ StepTransition(t, d).current_effect = t.current_effect
           /\ Blend(t) \subseteq {t.previous_effect, t.current_effect}
           /\ StepTransition(t, d).transition.done => Blend(t) = {t.current_effect}
<1>1. Blend(t) \subseteq {t.previous_effect, t.current_effect}
  BY DEF Blend
<1>2. CASE t.transition.done
  BY <1>1, <1>2 DEF StepTransition, Blend
<1>3. CASE ~t.transition.done /\ FadeEnded(t)
  <2>1. StepTransition(t, d) = [t EXCEPT !.transition.done = TRUE]
    BY <1>3 DEF StepTransition
  <2>2. Blend(t) = {t.current_effect}
    BY <1>3 DEF Blend
  <2>3. QED
    BY <1>1, <2>1, <2>2 DEF Tables
<1>4. CASE ~t.transition.done /\ ~FadeEnded(t)
  <2>1. StepTransition(t, d) = [t EXCEPT !.transition.elapsed_fade = @ + d]
    BY <1>4 DEF StepTransition
  <2>2. ~StepTransition(t, d).transition.done
    BY <1>4, <2>1 DEF Tables
  <2>3. QED
    BY <1>1, <2>1, <2>2 DEF Tables
<1>5. QED
  BY <1>2, <1>3, <1>4

\* What the step of an iteration does to a table that satisfies the invariant.
LEMMA TableStepFacts ==
    ASSUME IInv, TableStep
    PROVE  /\ table' \in Tables
           /\ table'.active = table.active
           /\ table'.previously_active = table.active
           /\ table.active = table.previously_active =>
                  /\ table'.previous_effect = table.previous_effect
                  /\ table'.current_effect = table.current_effect
           /\ FallsAsleep(table) =>
                  /\ table'.previous_effect = table.current_effect
                  /\ table'.current_effect = PlainBlack
           /\ table.active /\ ~table.previously_active =>
                  /\ table'.previous_effect = table.current_effect
                  /\ table'.current_effect = table.previous_effect
           /\ shown' \subseteq AllEffects
           /\ shown' \subseteq {table'.previous_effect, table'.current_effect}
           /\ table'.transition.done => shown' = {table'.current_effect}
<1> DEFINE asleep == FallAsleep(table)
           awake == WakeUp(asleep)
<1>1. /\ table \in Tables /\ dt \in Nat
      /\ table.active \in BOOLEAN /\ table.previously_active \in BOOLEAN
  BY DtsAssumption DEF IInv, TypeOK, Tables, LibraryTypeOK
<1>2. table' = StepTransition(awake, dt) /\ shown' = Blend(awake)
  BY DEF TableStep
<1>3. asleep \in Tables
  BY <1>1, FallAsleepFacts
<1>4. awake \in Tables
  BY <1>3, WakeUpFacts
<1>5. /\ table' \in Tables
      /\ table'.active = awake.active
      /\ table'.previously_active = awake.previously_active
      /\ table'.previous_effect = awake.previous_effect
      /\ table'.current_effect = awake.current_effect
      /\ shown' \subseteq {awake.previous_effect, awake.current_effect}
      /\ table'.transition.done => shown' = {awake.current_effect}
  BY <1>1, <1>2, <1>4, StepTransitionFacts
<1>6. shown' \subseteq AllEffects
  BY <1>4, <1>5 DEF Tables
<1>7. CASE FallsAsleep(table)
  <2>1. /\ asleep.active = FALSE /\ asleep.previously_active = FALSE
        /\ asleep.previous_effect = table.current_effect
        /\ asleep.current_effect = PlainBlack
    BY <1>1, <1>7, FallAsleepFacts DEF FallsAsleep
  <2>2. awake = asleep
    BY <1>3, <2>1, WakeUpFacts
  <2>3. QED
    BY <1>1, <1>5, <1>6, <1>7, <2>1, <2>2 DEF FallsAsleep
<1>8. CASE table.active /\ ~table.previously_active
  <2>1. asleep = table
    BY <1>1, <1>8, FallAsleepFacts DEF FallsAsleep
  <2>2. table.current_effect = PlainBlack
    BY <1>8 DEF IInv, SleepKeepsTheAmbience
  <2>3. /\ awake.active = TRUE /\ awake.previously_active = TRUE
        /\ awake.previous_effect = table.current_effect
        /\ awake.current_effect = table.previous_effect
    BY <1>1, <1>8, <2>1, <2>2, WakeUpFacts
  <2>4. QED
    BY <1>1, <1>5, <1>6, <1>8, <2>3 DEF FallsAsleep
<1>9. CASE table.active = table.previously_active
  <2>1. asleep = table
    BY <1>1, <1>9, FallAsleepFacts DEF FallsAsleep
  <2>2. awake = table
    BY <1>1, <1>9, <2>1, WakeUpFacts
  <2>3. QED
    BY <1>1, <1>5, <1>6, <1>9, <2>2 DEF FallsAsleep
<1>10. QED
  BY <1>1, <1>7, <1>8, <1>9 DEF FallsAsleep

-----------------------------------------------------------------------------
(* The invariant is inductive.                                              *)

\* A command that is executed finds the table awake.
LEMMA CommandsFindItAwake ==
    ASSUME IInv, AcceptsCommands
    PROVE  /\ pc = "poll" /\ table \in Tables /\ table.active = TRUE
           /\ table.previously_active = TRUE
           /\ table.current_effect # PlainBlack /\ WellMixed(lib)
BY DEF IInv, TypeOK, Tables, SleepKeepsTheAmbience, AcceptsCommands, Mixing, Stopped, LibraryTypeOK

\* PLAIN, NOISE and GRADIENTFADE preserve the invariant.
LEMMA NewEffectPreserves ==
    ASSUME IInv, AcceptsCommands,
           NEW effect \in Effects, Fresh(effect), table' = SetNextEffect(table, effect),
           reply' = "accepted",
           UNCHANGED <<pc, running, on_raspi, last_switch_state, dt, shown, lib>>
    PROVE  IInv'
<1>1. effect \in AllEffects /\ effect # PlainBlack /\ effect # table.current_effect
  BY PlainBlackAssumption DEF AllEffects, Fresh
<1>2. /\ table' \in Tables
      /\ table'.active = TRUE /\ table'.previously_active = TRUE
      /\ table'.previous_effect = table.current_effect /\ table'.current_effect = effect
  BY <1>1, CommandsFindItAwake, SetNextEffectFacts
<1>3. TypeOK'
  BY <1>2 DEF IInv, TypeOK, Replies, LibraryTypeOK
<1>4. SleepKeepsTheAmbience' /\ EffectsNotAliased' /\ SleepSilences'
  BY <1>1, <1>2 DEF SleepKeepsTheAmbience, EffectsNotAliased, SleepSilences
<1>5. QED
  BY <1>3, <1>4 DEF IInv, Mixing

\* A step that only moves the loop on, answers or stops preserves the invariant.
LEMMA QuietStepPreserves ==
    ASSUME IInv, TypeOK', UNCHANGED <<table, lib>>,
           pc \in Stopped => pc' = pc,
           pc = "step" => pc' = pc
    PROVE  IInv'
<1>1. SleepKeepsTheAmbience'
  BY DEF IInv, SleepKeepsTheAmbience, Stopped
<1>2. EffectsNotAliased' /\ SleepSilences' /\ Mixing'
  BY DEF IInv, EffectsNotAliased, SleepSilences, Mixing
<1>3. QED
  BY <1>1, <1>2 DEF IInv

\* Sound commands preserve the invariant: they reach an awake table only.
LEMMA SoundStepPreserves ==
    ASSUME IInv, AcceptsCommands, WellMixed(lib'),
           reply' = "accepted",
           UNCHANGED <<pc, running, on_raspi, last_switch_state, table, dt, shown>>
    PROVE  IInv'
<1>1. TypeOK' /\ Mixing'
  BY DEF IInv, TypeOK, Replies, WellMixed, Mixing, LibraryTypeOK
<1>2. SleepKeepsTheAmbience' /\ EffectsNotAliased'
  BY DEF IInv, SleepKeepsTheAmbience, EffectsNotAliased
<1>3. SleepSilences'
  BY CommandsFindItAwake DEF SleepSilences
<1>4. QED
  BY <1>1, <1>2, <1>3 DEF IInv

\* The step of the table preserves the invariant: it falls asleep, wakes or stays.
LEMMA TableStepPreserves ==
    ASSUME IInv, TableStep
    PROVE  IInv'
<1>0. /\ table \in Tables /\ table.active \in BOOLEAN /\ table.previously_active \in BOOLEAN
      /\ dt \in Nat /\ pc = "step" /\ pc' = "sleep" /\ WellMixed(lib)
  BY DtsAssumption DEF IInv, TypeOK, Tables, TableStep, Mixing, Stopped, LibraryTypeOK
<1>1. WellMixed(lib')
  <2> DEFINE sounds == IF FallsAsleep(table) THEN StopAll(lib) ELSE lib
  <2>1. WellMixed(sounds)
    BY <1>0, OperationsWellMixed
  <2>2. WellMixed(StepSounds(sounds, dt))
    BY <1>0, <2>1, OperationsWellMixed
  <2>3. QED
    BY <1>0, <2>2 DEF TableStep
<1>2. TypeOK'
  BY <1>0, <1>1, TableStepFacts DEF IInv, TypeOK, TableStep, LoopSteps, WellMixed, LibraryTypeOK
<1>3. SleepKeepsTheAmbience'
  <2>1. CASE table.active = table.previously_active
    BY <1>0, <2>1, TableStepFacts DEF IInv, SleepKeepsTheAmbience
  <2>2. CASE FallsAsleep(table)
    BY <1>0, <2>2, TableStepFacts DEF IInv, SleepKeepsTheAmbience, FallsAsleep
  <2>3. CASE table.active /\ ~table.previously_active
    BY <1>0, <2>3, TableStepFacts DEF IInv, SleepKeepsTheAmbience
  <2>4. QED
    BY <1>0, <2>1, <2>2, <2>3 DEF FallsAsleep
<1>4. EffectsNotAliased'
  <2>1. CASE FallsAsleep(table)
    BY <2>1, TableStepFacts DEF IInv, SleepKeepsTheAmbience, EffectsNotAliased, FallsAsleep
  <2>2. CASE ~FallsAsleep(table)
    BY <1>0, <2>2, TableStepFacts DEF IInv, EffectsNotAliased, FallsAsleep
  <2>3. QED
    BY <2>1, <2>2
<1>5. SleepSilences'
  <2> SUFFICES ASSUME WithSounds, ~table'.previously_active, NEW c \in Channels
               PROVE  lib'.fades[c].end_sound = Silence
    BY DEF SleepSilences
  <2>1. ~table.active
    BY TableStepFacts
  <2>2. CASE FallsAsleep(table)
    <3>1. WellMixed(StopAll(lib)) /\ lib' = StepSounds(StopAll(lib), dt)
      BY <1>0, <2>2, OperationsWellMixed DEF TableStep
    <3>2. StopAll(lib).fades[c].end_sound = Silence
      BY <1>0, StopAllEnds DEF WellMixed
    <3>3. QED
      BY <1>0, <3>1, <3>2, StepSoundsEnds
  <2>3. CASE ~FallsAsleep(table)
    <3>1. ~table.previously_active /\ lib' = StepSounds(lib, dt)
      BY <1>0, <2>1, <2>3 DEF FallsAsleep, TableStep
    <3>2. lib.fades[c].end_sound = Silence
      BY <3>1 DEF IInv, SleepSilences
    <3>3. QED
      BY <1>0, <3>1, <3>2, StepSoundsEnds
  <2>4. QED
    BY <2>2, <2>3
<1>6. QED
  BY <1>1, <1>2, <1>3, <1>4, <1>5 DEF IInv, Mixing

\* The table a program starts with satisfies the invariant.
LEMMA InitInv == Init => IInv
<1> SUFFICES ASSUME Init PROVE IInv
  OBVIOUS
<1>1. PICK black \in Effects, white \in Effects :
          /\ black # white
          /\ table = [active |-> TRUE, previously_active |-> TRUE,
                      previous_effect |-> black, current_effect |-> white,
                      transition |-> NewTransition]
  BY DEF Init, LibraryInit
<1>2. WellMixed(lib) /\ pc = "poll"
  BY InitialWellMixed DEF Init, LibraryInit
<1>3. TypeOK
  BY <1>1, <1>2 DEF Init, TypeOK, Tables, AllEffects, NewTransition, WellMixed, LoopSteps,
                    Replies, LibraryTypeOK, LibraryInit
<1>4. SleepKeepsTheAmbience /\ EffectsNotAliased /\ SleepSilences /\ Mixing
  BY <1>1, <1>2, PlainBlackAssumption
     DEF SleepKeepsTheAmbience, EffectsNotAliased, SleepSilences, Mixing
<1>5. QED
  BY <1>3, <1>4 DEF IInv

\* Every step preserves the invariant.
LEMMA NextInv == IInv /\ [Next]_vars => IInv'
<1> SUFFICES ASSUME IInv, [Next]_vars PROVE IInv'
  OBVIOUS
<1> USE DEF Answer, Replies
<1>1. CASE InvalidRequest
  BY <1>1, QuietStepPreserves DEF InvalidRequest, IInv, TypeOK, LibraryTypeOK
<1>2. CASE GetState
  BY <1>2, QuietStepPreserves DEF GetState, IInv, TypeOK, LibraryTypeOK
<1>3. CASE RefusedAsleep
  BY <1>3, QuietStepPreserves DEF RefusedAsleep, IInv, TypeOK, LibraryTypeOK
<1>4. CASE UnsupportedCommand
  BY <1>4, QuietStepPreserves DEF UnsupportedCommand, AcceptsCommands, IInv, TypeOK, LibraryTypeOK
<1>5. CASE IllTypedCommand
  BY <1>5, QuietStepPreserves
     DEF IllTypedCommand, Crash, AcceptsCommands, Stopped, IInv, TypeOK, LibraryTypeOK
<1>6. CASE PlainCommand
  BY <1>6, NewEffectPreserves DEF PlainCommand
<1>7. ASSUME NEW name, GradientCommand(name) PROVE IInv'
  BY <1>7, NewEffectPreserves DEF GradientCommand
<1>8. ASSUME NEW name, UnknownGradient(name) PROVE IInv'
  BY <1>8, QuietStepPreserves
     DEF UnknownGradient, Crash, AcceptsCommands, Stopped, IInv, TypeOK, LibraryTypeOK
<1>9. ASSUME NEW name, SoundCommand(name) PROVE IInv'
  <2>1. AcceptsCommands /\ WellMixed(lib')
    BY <1>9, CommandsFindItAwake, OperationsWellMixed DEF SoundCommand, RequestSound
  <2>2. QED
    BY <1>9, <2>1, SoundStepPreserves DEF SoundCommand, RequestSound
<1>10. ASSUME NEW name, BackgroundSoundCommand(name) PROVE IInv'
  <2>1. AcceptsCommands /\ WellMixed(lib')
    BY <1>10, CommandsFindItAwake, OperationsWellMixed DEF BackgroundSoundCommand, RequestBackground
  <2>2. QED
    BY <1>10, <2>1, SoundStepPreserves DEF BackgroundSoundCommand, RequestBackground
<1>11. CASE StopCommand
  <2>1. /\ pc = "poll" /\ table \in Tables /\ table.previously_active
        /\ table' = [table EXCEPT !.active = FALSE]
    BY <1>11, CommandsFindItAwake DEF StopCommand
  <2>2. /\ table' \in Tables /\ table'.active = FALSE
        /\ table'.previously_active = table.previously_active
        /\ table'.previous_effect = table.previous_effect
        /\ table'.current_effect = table.current_effect
    BY <2>1 DEF Tables
  <2>3. QED
    BY <1>11, <2>2 DEF StopCommand, IInv, TypeOK, SleepKeepsTheAmbience, EffectsNotAliased,
                       Mixing, SleepSilences, LibraryTypeOK
<1>12. CASE QuitSignal
  BY <1>12, QuietStepPreserves DEF QuitSignal, IInv, TypeOK, LibraryTypeOK
<1>13. CASE EndPoll
  BY <1>13, QuietStepPreserves DEF EndPoll, Stopped, LoopSteps, IInv, TypeOK, LibraryTypeOK
<1>14. CASE PowerSwitch
  <2>1. PICK level \in GPIOLevels :
            /\ table' = [table EXCEPT !.active = (table.active # SwitchPressed(level))]
            /\ last_switch_state' = (on_raspi /\ level = 1)
    BY <1>14 DEF PowerSwitch
  <2>2. /\ table' \in Tables /\ table'.previously_active = table.previously_active
        /\ table'.previous_effect = table.previous_effect
        /\ table'.current_effect = table.current_effect
        /\ pc = "switch" /\ pc' = "step" /\ last_switch_state' \in BOOLEAN
    BY <1>14, <2>1 DEF PowerSwitch, SwitchPressed, Tables, IInv, TypeOK, LibraryTypeOK
  <2>3. QED
    BY <1>14, <2>2 DEF PowerSwitch, IInv, TypeOK, SleepKeepsTheAmbience, EffectsNotAliased,
                       Mixing, SleepSilences, Stopped, LoopSteps, LibraryTypeOK
<1>15. CASE TableStep
  BY <1>15, TableStepPreserves
<1>16. CASE NextFrame
  BY <1>16, QuietStepPreserves DEF NextFrame, Stopped, LoopSteps, IInv, TypeOK, LibraryTypeOK
<1>17. CASE Exit
  <2>1. lib' \in Libraries /\ lib'.fades = lib.fades
    BY <1>17 DEF Exit, IInv, TypeOK, Libraries, Audio, LibraryTypeOK
  <2>2. PlainBlack \in AllEffects /\ pc' = "exited" /\ pc = "sleep"
    BY <1>17 DEF AllEffects, Exit
  <2>3. TypeOK'
    BY <1>17, <2>1, <2>2 DEF Exit, IInv, TypeOK, Stopped, LibraryTypeOK
  <2>4. SleepSilences'
    BY <1>17, <2>1 DEF Exit, IInv, SleepSilences
  <2>5. QED
    BY <1>17, <2>2, <2>3, <2>4
       DEF Exit, IInv, SleepKeepsTheAmbience, EffectsNotAliased, Mixing, Stopped
<1>18. ASSUME NEW sound \in Foreground, SoundEnds(sound) PROVE IInv'
  <2>1. WellMixed(lib') /\ lib' \in Libraries
    BY <1>18, FinishedWellMixed DEF SoundEnds, IInv, Mixing, WellMixed, Finish
  <2>2. lib'.fades = lib.fades
    BY <1>18 DEF SoundEnds, Finished, IInv, TypeOK, Libraries, LibraryTypeOK, Finish
  <2>3. QED
    BY <1>18, <2>1, <2>2 DEF SoundEnds, IInv, TypeOK, SleepKeepsTheAmbience,
                             EffectsNotAliased, Mixing, SleepSilences, LibraryTypeOK, Finish
<1>19. CASE UNCHANGED vars
  BY <1>19 DEF vars, IInv, TypeOK, SleepKeepsTheAmbience, EffectsNotAliased, Mixing, SleepSilences,
        LibraryTypeOK
<1>20. QED
  BY <1>1, <1>2, <1>3, <1>4, <1>5, <1>6, <1>7, <1>8, <1>9, <1>10, <1>11, <1>12, <1>13, <1>14,
     <1>15, <1>16, <1>17, <1>18, <1>19 DEF Next, Request, MainLoop

-----------------------------------------------------------------------------
(* The theorems.                                                            *)

\* The invariant holds in every behaviour of the table.
THEOREM Invariance == Spec => []IInv
BY InitInv, NextInv, PTL DEF Spec

\* Every variable keeps its type (TypeOK).
THEOREM TableTypeCorrect == Spec => []TypeOK
<1>1. IInv => TypeOK
  BY DEF IInv
<1>2. QED
  BY <1>1, Invariance, PTL

\* Asleep is black with an ambience to come back to (SleepKeepsTheAmbience).
THEOREM SleepIsSound == Spec => []SleepKeepsTheAmbience
<1>1. IInv => SleepKeepsTheAmbience
  BY DEF IInv
<1>2. QED
  BY <1>1, Invariance, PTL

\* A transition never blends an effect with itself (EffectsNotAliased).
THEOREM NeverAliased == Spec => []EffectsNotAliased
<1>1. IInv => EffectsNotAliased
  BY DEF IInv
<1>2. QED
  BY <1>1, Invariance, PTL

\* A sleeping table is on its way to silence (SleepSilences).
THEOREM SleepIsSilent == Spec => []SleepSilences
<1>1. IInv => SleepSilences
  BY DEF IInv
<1>2. QED
  BY <1>1, Invariance, PTL

\* When an iteration has been drawn the LEDs show the effects of the transition, and the
\* current one alone once it is done (LedsShowTheTransition): what is shown is blended
\* before the transition is stepped, with the pointers that a sleep or a wake-up has moved.
THEOREM LedsAreRight == Spec => []LedsShowTheTransition
<1>1. Init => LedsShowTheTransition
  BY DEF Init, LedsShowTheTransition, LibraryInit
<1>2. IInv /\ LedsShowTheTransition /\ [Next]_vars => LedsShowTheTransition'
  <2> SUFFICES ASSUME IInv, LedsShowTheTransition, [Next]_vars
               PROVE  LedsShowTheTransition'
    OBVIOUS
  <2>1. CASE TableStep
    BY <2>1, TableStepFacts DEF LedsShowTheTransition
  <2>2. CASE Request
    <3>1. pc' # "sleep"
      BY <2>2 DEF Request, InvalidRequest, GetState, RefusedAsleep, UnsupportedCommand,
          IllTypedCommand, PlainCommand, GradientCommand, UnknownGradient, SoundCommand,
          BackgroundSoundCommand, StopCommand, AcceptsCommands, Answer, Crash,
        RequestSound, RequestBackground
    <3>2. QED
      BY <3>1 DEF LedsShowTheTransition
  <2>3. CASE EndPoll \/ PowerSwitch \/ NextFrame \/ Exit
    BY <2>3 DEF EndPoll, PowerSwitch, NextFrame, Exit, LedsShowTheTransition
  <2>4. CASE UNCHANGED <<pc, table, shown>>
    BY <2>4 DEF LedsShowTheTransition
  <2>5. QED
    BY <2>1, <2>2, <2>3, <2>4 DEF Next, MainLoop, QuitSignal, SoundEnds, vars, Finish
<1>3. QED
  BY <1>1, <1>2, Invariance, PTL DEF Spec

\* What the sound library promises on its own it keeps in the table, where commands, sleep
\* and steps meet: until the process stops, no sound plays that is in no fade, no channel is
\* louder than one sound, and no running fade lacks an end (soundeffect.cpp, table.cpp:26-54).
THEOREM TableSoundsAreMixed ==
    Spec => [](pc \notin Stopped => OnlyFadedSoundsPlay /\ LoudnessBounded /\ NoNullSound)
<1>1. IInv => (pc \notin Stopped => OnlyFadedSoundsPlay /\ LoudnessBounded /\ NoNullSound)
  BY WellMixedKeepsPromises DEF IInv, Mixing
<1>2. QED
  BY <1>1, Invariance, PTL

-----------------------------------------------------------------------------
(* The table implements the lamp.                                           *)

\* The lamp's state is unchanged when the table is.
LEMMA LampStutters ==
    ASSUME table'.previously_active = table.previously_active,
           table'.previous_effect = table.previous_effect,
           table'.current_effect = table.current_effect
    PROVE  UNCHANGED TheLamp!vars
BY DEF TheLamp!vars, LampEffect

\* Every initial state of the table is one of the lamp.
LEMMA LampInit == Init => TheLamp!Init
BY DEF Init, TheLamp!Init, LampEffect, LibraryInit

\* Every step of the table is a step of the lamp or leaves the lamp as it is.
LEMMA LampNext == IInv /\ [Next]_vars => [TheLamp!Next]_(TheLamp!vars)
<1> SUFFICES ASSUME IInv, [Next]_vars PROVE [TheLamp!Next]_(TheLamp!vars)
  OBVIOUS
<1>0. table \in Tables /\ table.active \in BOOLEAN /\ table.previously_active \in BOOLEAN
  BY DEF IInv, TypeOK, Tables, LibraryTypeOK
<1>1. ASSUME AcceptsCommands, NEW effect \in Effects, table' = SetNextEffect(table, effect)
      PROVE  TheLamp!Choose
  <2>1. table'.previously_active /\ table'.current_effect = effect /\ table.previously_active
    BY <1>0, <1>1, CommandsFindItAwake, SetNextEffectFacts DEF AllEffects
  <2>2. LampEffect' = effect
    BY <2>1 DEF LampEffect
  <2>3. table'.previously_active = table.previously_active
    BY <1>0, <1>1, CommandsFindItAwake, SetNextEffectFacts DEF AllEffects
  <2>4. QED
    BY <1>1, <2>1, <2>2, <2>3 DEF TheLamp!Choose
<1>2. CASE PlainCommand \/ \E name \in GradientNames : GradientCommand(name)
  BY <1>1, <1>2 DEF PlainCommand, GradientCommand, TheLamp!Next
<1>3. CASE StopCommand \/ PowerSwitch
  <2>1. /\ table'.previously_active = table.previously_active
        /\ table'.previous_effect = table.previous_effect
        /\ table'.current_effect = table.current_effect
    BY <1>0, <1>3 DEF StopCommand, PowerSwitch, Tables
  <2>2. QED
    BY <2>1, LampStutters
<1>4. CASE TableStep
  <2>1. CASE table.active = table.previously_active
    <3>1. UNCHANGED TheLamp!vars
      BY <1>0, <1>4, <2>1, TableStepFacts, LampStutters
    <3>2. QED
      BY <3>1
  <2>2. CASE FallsAsleep(table)
    <3>1. table.previously_active /\ table'.previously_active = FALSE
      BY <1>0, <1>4, <2>2, TableStepFacts DEF FallsAsleep
    <3>2. LampEffect' = LampEffect
      BY <1>4, <2>2, <3>1, TableStepFacts DEF LampEffect
    <3>3. QED
      BY <3>1, <3>2 DEF TheLamp!Next, TheLamp!SwitchOff
  <2>3. CASE table.active /\ ~table.previously_active
    <3>1. ~table.previously_active /\ table'.previously_active = TRUE
      BY <1>0, <1>4, <2>3, TableStepFacts
    <3>2. LampEffect' = LampEffect
      BY <1>4, <2>3, <3>1, TableStepFacts DEF LampEffect
    <3>3. QED
      BY <3>1, <3>2 DEF TheLamp!Next, TheLamp!SwitchOn
  <2>4. QED
    BY <1>0, <2>1, <2>2, <2>3 DEF FallsAsleep
<1>5. CASE UNCHANGED table
  BY <1>5, LampStutters
<1>6. QED
  BY <1>2, <1>3, <1>4, <1>5
     DEF Next, Request, MainLoop, InvalidRequest, GetState, RefusedAsleep, UnsupportedCommand,
         IllTypedCommand, UnknownGradient, SoundCommand, BackgroundSoundCommand, Answer, Crash,
         QuitSignal, EndPoll, NextFrame, Exit, SoundEnds, vars,
        RequestSound, RequestBackground, Finish

\* Whatever its loop, fades, sleep and sounds do, the table is a lamp (LampSpec).
THEOREM TableIsALamp == Spec => LampSpec
BY LampInit, LampNext, Invariance, PTL DEF Spec, LampSpec, TheLamp!Spec
=============================================================================
