----------------------------- MODULE Crossfade -----------------------------
(***************************************************************************)
(* The sound mixer of the table, as operators on a value.                  *)
(*                                                                         *)
(* A library holds the two Crossfade objects of the SoundLibrary (one per  *)
(* channel) and the state of every SFML sound the two catalogues own:      *)
(*    fades : one [start_sound, end_sound, elapsed_fade, done] per channel *)
(*    audio : [playing, volume] of each sound                              *)
(* Volumes are the numerators of fractions of CROSSFADE_DURATION: the code *)
(* computes alpha = elapsed_fade / fade_duration and plays at alpha and at *)
(* 1 - alpha, so volume v here is v / CROSSFADE_DURATION there.            *)
(***************************************************************************)
EXTENDS Integers

CONSTANTS
    Foreground,          \* the sounds of share/.../sounds (played once)
    Background,          \* the sounds of share/.../background-sounds (looped)
    Unloadable,          \* the files among them that loadFromFile refuses
    Silence,             \* the SILENCE object: volume, play and stop do nothing
    NoSound,             \* a null pointer: end_sound before the first fade
    CROSSFADE_DURATION   \* length of a fade, in milliseconds

\* Every sound file is one object of one catalogue.
Sounds == Foreground \union Background

Channels == {"foreground", "background"}
Catalogue == [foreground |-> Foreground, background |-> Background]

ASSUME CataloguesAssumption ==
    /\ Foreground \intersect Background = {}
    /\ Unloadable \subseteq Sounds
    /\ Silence \notin Sounds
    /\ NoSound \notin Sounds \union {Silence}

ASSUME CrossfadeDurationAssumption == CROSSFADE_DURATION \in Nat \ {0}

Volumes == 0..CROSSFADE_DURATION

Fades == [start_sound : Sounds \union {Silence},
          end_sound : Sounds \union {Silence, NoSound},
          elapsed_fade : Nat,
          done : BOOLEAN]
Audio == [playing : BOOLEAN, volume : Volumes]

Libraries == [fades : [Channels -> Fades], audio : [Sounds -> Audio]]

-----------------------------------------------------------------------------
(* SFMLSound and Silence.  An SFML sound starts at full volume, stopped.    *)

\* Mutant: a fresh Crossfade believes a fade is running.
EmptyFadeRunning == [start_sound |-> Silence, end_sound |-> NoSound,
                     elapsed_fade |-> 0, done |-> FALSE]

EmptyFade == [start_sound |-> Silence, end_sound |-> NoSound,
              elapsed_fade |-> 0, done |-> TRUE]

InitialLibrary ==
    [fades |-> [c \in Channels |-> EmptyFade],
     audio |-> [s \in Sounds |-> [playing |-> FALSE, volume |-> CROSSFADE_DURATION]]]

SetVolume(audio, sound, v) ==
    [s \in Sounds |-> IF s = sound THEN [audio[s] EXCEPT !.volume = v] ELSE audio[s]]

Play(audio, sound) ==
    [s \in Sounds |->
        IF s = sound /\ s \notin Unloadable THEN [audio[s] EXCEPT !.playing = TRUE]
                                            ELSE audio[s]]

Stop(audio, sound) ==
    [s \in Sounds |-> IF s = sound THEN [audio[s] EXCEPT !.playing = FALSE] ELSE audio[s]]

\* A sound that is not looped reaches its end: SFML stops it, on its own thread.
Finished(lib, sound) == [lib EXCEPT !.audio = Stop(lib.audio, sound)]

-----------------------------------------------------------------------------
(* Crossfade::fade_to and Crossfade::step on channel c.                     *)

\* Mutant: an interrupted fade forgets to stop the sound it was fading out.
FadeToKeepingTheOldSound(lib, c, to) ==
    LET fade == lib.fades[c]
    IN  [fades |-> [lib.fades EXCEPT ![c] =
                       [start_sound |-> IF fade.done THEN fade.start_sound ELSE fade.end_sound,
                        end_sound |-> to, elapsed_fade |-> 0, done |-> FALSE]],
         audio |-> Play(SetVolume(lib.audio, to, 0), to)]

\* Mutant: the new sound starts at the volume it was left at.
FadeToAtFullVolume(lib, c, to) ==
    LET fade == lib.fades[c]
    IN  [fades |-> [lib.fades EXCEPT ![c] =
                       [start_sound |-> IF fade.done THEN fade.start_sound ELSE fade.end_sound,
                        end_sound |-> to, elapsed_fade |-> 0, done |-> FALSE]],
         audio |-> Play(IF fade.done THEN lib.audio ELSE Stop(lib.audio, fade.start_sound), to)]

FadeTo(lib, c, to) ==
    LET fade == lib.fades[c]
        start == IF fade.done THEN fade.start_sound ELSE fade.end_sound
        audio == IF fade.done THEN lib.audio ELSE Stop(lib.audio, fade.start_sound)
    IN  [fades |-> [lib.fades EXCEPT ![c] =
                       [start_sound |-> start, end_sound |-> to,
                        elapsed_fade |-> 0, done |-> FALSE]],
         audio |-> Play(SetVolume(audio, to, 0), to)]

\* Mutant: the end sound does not become the start sound.
CompleteFadeWithoutHandover(lib, c) ==
    LET fade == lib.fades[c]
    IN  [fades |-> [lib.fades EXCEPT ![c].done = TRUE],
         audio |-> Stop(SetVolume(lib.audio, fade.end_sound, CROSSFADE_DURATION),
                        fade.start_sound)]

\* The fade is over: the end sound is at full volume and becomes the start sound.
CompleteFade(lib, c) ==
    LET fade == lib.fades[c]
    IN  [fades |-> [lib.fades EXCEPT ![c].done = TRUE, ![c].start_sound = fade.end_sound],
         audio |-> Stop(SetVolume(lib.audio, fade.end_sound, CROSSFADE_DURATION),
                        fade.start_sound)]

\* Mutant: the elapsed time is advanced before the volumes are computed from it.
AdvanceFadeTimeFirst(lib, c, dt) ==
    LET fade == lib.fades[c]
        faded_out == SetVolume(lib.audio, fade.start_sound,
                               CROSSFADE_DURATION - (fade.elapsed_fade + dt))
    IN  [fades |-> [lib.fades EXCEPT ![c].elapsed_fade = @ + dt],
         audio |-> SetVolume(faded_out, fade.end_sound, fade.elapsed_fade + dt)]

\* Both volumes are set from the elapsed time as it was before this step.
AdvanceFade(lib, c, dt) ==
    LET fade == lib.fades[c]
        faded_out == SetVolume(lib.audio, fade.start_sound,
                               CROSSFADE_DURATION - fade.elapsed_fade)
    IN  [fades |-> [lib.fades EXCEPT ![c].elapsed_fade = @ + dt],
         audio |-> SetVolume(faded_out, fade.end_sound, fade.elapsed_fade)]

\* Mutant: the elapsed time never advances, so a fade never ends.
StepFadeStuck(lib, c, dt) ==
    IF lib.fades[c].done THEN lib ELSE AdvanceFade(lib, c, 0)

StepFade(lib, c, dt) ==
    IF lib.fades[c].done THEN lib
    ELSE IF lib.fades[c].elapsed_fade >= CROSSFADE_DURATION THEN CompleteFade(lib, c)
    ELSE AdvanceFade(lib, c, dt)

-----------------------------------------------------------------------------
(* SoundLibrary.  A name no catalogue knows leaves the library as it is.    *)

PlaySound(lib, sound) ==
    IF sound \in Foreground THEN FadeTo(lib, "foreground", sound) ELSE lib

PlayBackground(lib, sound) ==
    IF sound \in Background THEN FadeTo(lib, "background", sound) ELSE lib

\* Mutant: only the foreground channel is silenced.
StopAllForeground(lib) == FadeTo(lib, "foreground", Silence)

StopAll(lib) == FadeTo(FadeTo(lib, "foreground", Silence), "background", Silence)

StepSounds(lib, dt) == StepFade(StepFade(lib, "foreground", dt), "background", dt)

-----------------------------------------------------------------------------
(* What a well-mixed library satisfies, stated once for the modules that    *)
(* own one.                                                                 *)

\* Only the sounds of a channel's fade play on it: two while it fades, one after.
OnlyFadedSoundsPlayIn(lib) ==
    \A c \in Channels : \A s \in Catalogue[c] :
        lib.audio[s].playing =>
            \/ s = lib.fades[c].start_sound
            \/ ~lib.fades[c].done /\ s = lib.fades[c].end_sound

\* Two sounds that play on one channel are never louder together than one at full volume.
LoudnessBoundedIn(lib) ==
    \A c \in Channels : \A s, t \in Catalogue[c] :
        s # t /\ lib.audio[s].playing /\ lib.audio[t].playing =>
            lib.audio[s].volume + lib.audio[t].volume =< CROSSFADE_DURATION

\* While a fade runs both its ends are sounds: nothing dereferences the null pointer.
NoNullSoundIn(lib) ==
    \A c \in Channels : ~lib.fades[c].done => lib.fades[c].end_sound # NoSound

\* A fade of channel c that is over between two states of the library has handed the
\* channel over to its end sound.
HandedOver(old, new, c) ==
    LET fade == old.fades[c]
        sound == fade.end_sound
    IN  ~fade.done /\ new.fades[c].done =>
            /\ new.fades[c].start_sound = sound
            /\ sound \in Sounds => new.audio[sound].volume = CROSSFADE_DURATION
            /\ sound \in Background \ Unloadable /\ sound # fade.start_sound =>
                   new.audio[sound].playing

=============================================================================
