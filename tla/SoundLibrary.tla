---------------------------- MODULE SoundLibrary ----------------------------
(***************************************************************************)
(* The SoundLibrary of the table on its own, used in every order its       *)
(* interface allows: sounds are requested, everything is silenced, the     *)
(* main loop steps the fades, a sound that is not looped comes to its end. *)
(***************************************************************************)
EXTENDS Crossfade

CONSTANTS
    Dts,        \* the durations, in milliseconds, a main-loop iteration may take
    UnknownName \* a sound name that no file has

ASSUME DtsAssumption == Dts \subseteq Nat
ASSUME UnknownNameAssumption == UnknownName \notin Sounds

VARIABLE lib

LibraryTypeOK == lib \in Libraries

LibraryInit == lib = InitialLibrary

\* A SOUND command.
RequestSound(sound) == lib' = PlaySound(lib, sound)

\* A BACKGROUND_SOUND command.
RequestBackground(sound) == lib' = PlayBackground(lib, sound)

\* The table falls asleep.
Silenced == lib' = StopAll(lib)

\* One iteration of the main loop.
Step(dt) == lib' = StepSounds(lib, dt)

\* Background sounds are looped: only a foreground sound ends by itself.
Finish(sound) ==
    /\ lib.audio[sound].playing
    /\ lib' = Finished(lib, sound)

LibraryNext ==
    \/ \E sound \in Foreground \union {UnknownName} : RequestSound(sound)
    \/ \E sound \in Background \union {UnknownName} : RequestBackground(sound)
    \/ Silenced
    \/ \E dt \in Dts : Step(dt)
    \/ \E sound \in Foreground : Finish(sound)

LibrarySpec == LibraryInit /\ [][LibraryNext]_lib

\* The main loop steps the library for ever, and time advances.
FairLibrarySpec == LibrarySpec /\ WF_lib(\E dt \in Dts : Step(dt))

-----------------------------------------------------------------------------
(* A sound that is replaced must be stopped, whatever fade it was in when   *)
(* it was replaced (soundeffect.cpp, fade_to and step).                     *)
OnlyFadedSoundsPlay == OnlyFadedSoundsPlayIn(lib)

(* Two sounds of a channel never add up to more than one at full volume,    *)
(* however the requests and the steps interleave.                           *)
LoudnessBounded == LoudnessBoundedIn(lib)

(* A running fade has both its ends: step() may call volume and stop on it. *)
NoNullSound == NoNullSoundIn(lib)

(* When a fade between two different sounds completes, the sound faded in is *)
(* the one left on the channel, at full volume, and a looped one that could  *)
(* be loaded is heard.                                                       *)
CompletedFadeIsHeard == [][\A c \in Channels : HandedOver(lib, lib', c)]_lib

(* The channels do not fade for ever: once nothing more is requested, every  *)
(* fade completes, whatever it was interrupted by before.                    *)
FadesComplete ==
    <>[][(\E dt \in Dts : Step(dt)) \/ (\E sound \in Foreground : Finish(sound))]_lib
        => <>[](\A c \in Channels : lib.fades[c].done)

(* "Playing background sound in loop" (handler.cpp:133): the background      *)
(* sound the channel has settled on is heard until another replaces it.      *)
BackgroundKeepsLooping ==
    LET fade == lib.fades["background"]
    IN  fade.done /\ fade.start_sound \in Background \ Unloadable =>
            lib.audio[fade.start_sound].playing
=============================================================================
