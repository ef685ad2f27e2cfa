------------------------ MODULE SoundLibraryProofs ------------------------
(***************************************************************************)
(* The sound library satisfies its safety properties in every order its    *)
(* operations are called, for every catalogue and every fade duration.     *)
(*                                                                         *)
(* First what the operators of Crossfade preserve.  A library is well      *)
(* mixed when every channel is; an operator on one channel keeps that      *)
(* channel well mixed and leaves the other as it is, because a fade holds  *)
(* sounds of its own catalogue only.                                       *)
(*                                                                         *)
(* WellMixed(lib) is then the inductive invariant: what the properties say *)
(* is not inductive without the facts that a fade holds sounds of its own  *)
(* catalogue and never a null pointer.                                     *)
(***************************************************************************)
EXTENDS SoundLibrary, TLAPS

\* The sounds of the fade of channel c are of its catalogue.
OwnSounds(l, c) ==
    /\ l.fades[c].start_sound \in Catalogue[c] \union {Silence}
    /\ l.fades[c].end_sound \in Catalogue[c] \union {Silence, NoSound}
    /\ ~l.fades[c].done => l.fades[c].end_sound # NoSound

OnlyFaded(l, c) ==
    \A s \in Catalogue[c] :
        l.audio[s].playing =>
            \/ s = l.fades[c].start_sound
            \/ ~l.fades[c].done /\ s = l.fades[c].end_sound

Loudness(l, c) ==
    \A s, t \in Catalogue[c] :
        s # t /\ l.audio[s].playing /\ l.audio[t].playing =>
            l.audio[s].volume + l.audio[t].volume =< CROSSFADE_DURATION

\* A background sound that is fading in is heard: only a foreground one ends by itself.
FadingInIsHeard(l, c) ==
    ~l.fades[c].done /\ l.fades[c].end_sound \in Background \ Unloadable =>
        l.audio[l.fades[c].end_sound].playing

Mixed(l, c) ==
    OwnSounds(l, c) /\ OnlyFaded(l, c) /\ Loudness(l, c) /\ FadingInIsHeard(l, c)

WellMixed(l) == l \in Libraries /\ \A c \in Channels : Mixed(l, c)

-----------------------------------------------------------------------------
(* Typing.                                                                  *)

\* The three setters of SFMLSound map audio states to audio states.
LEMMA AudioType ==
    ASSUME NEW audio \in [Sounds -> Audio], NEW sound, NEW v \in Volumes
    PROVE  /\ SetVolume(audio, sound, v) \in [Sounds -> Audio]
           /\ Play(audio, sound) \in [Sounds -> Audio]
           /\ Stop(audio, sound) \in [Sounds -> Audio]
BY DEF SetVolume, Play, Stop, Audio

\* A fade started on a channel whose fade is not at a null pointer leaves a library.
LEMMA FadeToType ==
    ASSUME NEW l \in Libraries, NEW c \in Channels, OwnSounds(l, c),
           NEW to \in Sounds \union {Silence}
    PROVE  FadeTo(l, c, to) \in Libraries
<1> DEFINE fade == l.fades[c]
           start == IF fade.done THEN fade.start_sound ELSE fade.end_sound
           audio == IF fade.done THEN l.audio ELSE Stop(l.audio, fade.start_sound)
           new == [start_sound |-> start, end_sound |-> to, elapsed_fade |-> 0, done |-> FALSE]
<1>1. 0 \in Volumes
  BY CrossfadeDurationAssumption DEF Volumes
<1>2. l.audio \in [Sounds -> Audio] /\ l.fades \in [Channels -> Fades]
  BY DEF Libraries
<1>3. audio \in [Sounds -> Audio]
  BY <1>1, <1>2, AudioType
<1>4. Play(SetVolume(audio, to, 0), to) \in [Sounds -> Audio]
  <2>1. SetVolume(audio, to, 0) \in [Sounds -> Audio]
    BY <1>1, <1>3, AudioType
  <2>2. QED
    BY <1>1, <2>1, AudioType
<1>5. fade \in Fades
  BY <1>2
<1>6. new \in Fades
  BY <1>5 DEF Fades, OwnSounds
<1>7. [l.fades EXCEPT ![c] = new] \in [Channels -> Fades]
  BY <1>2, <1>6
<1>8. QED
  BY <1>4, <1>7 DEF FadeTo, Libraries

\* A step of the fade of a channel leaves a library.
LEMMA StepFadeType ==
    ASSUME NEW l \in Libraries, NEW c \in Channels, OwnSounds(l, c), NEW dt \in Nat
    PROVE  StepFade(l, c, dt) \in Libraries
<1> DEFINE fade == l.fades[c]
<1>1. l.audio \in [Sounds -> Audio] /\ l.fades \in [Channels -> Fades]
  BY DEF Libraries
<1>2. fade \in Fades
  BY <1>1
<1>3. CASE fade.done
  BY <1>3 DEF StepFade
<1>4. CASE ~fade.done /\ fade.elapsed_fade >= CROSSFADE_DURATION
  <2>1. CROSSFADE_DURATION \in Volumes
    BY CrossfadeDurationAssumption DEF Volumes
  <2>2. SetVolume(l.audio, fade.end_sound, CROSSFADE_DURATION) \in [Sounds -> Audio]
    BY <1>1, <2>1, AudioType
  <2>3. Stop(SetVolume(l.audio, fade.end_sound, CROSSFADE_DURATION), fade.start_sound)
            \in [Sounds -> Audio]
    BY <2>1, <2>2, AudioType
  <2>4. [l.fades EXCEPT ![c].done = TRUE, ![c].start_sound = fade.end_sound]
            \in [Channels -> Fades]
    BY <1>1, <1>2, <1>4 DEF Fades, OwnSounds
  <2>5. QED
    BY <1>4, <2>3, <2>4 DEF StepFade, CompleteFade, Libraries
<1>5. CASE ~fade.done /\ ~(fade.elapsed_fade >= CROSSFADE_DURATION)
  <2>1. fade.elapsed_fade \in Volumes /\ CROSSFADE_DURATION - fade.elapsed_fade \in Volumes
    BY <1>2, <1>5, CrossfadeDurationAssumption DEF Volumes, Fades
  <2>2. SetVolume(l.audio, fade.start_sound, CROSSFADE_DURATION - fade.elapsed_fade)
            \in [Sounds -> Audio]
    BY <1>1, <2>1, AudioType
  <2>3. SetVolume(SetVolume(l.audio, fade.start_sound,
                            CROSSFADE_DURATION - fade.elapsed_fade),
                  fade.end_sound, fade.elapsed_fade) \in [Sounds -> Audio]
    BY <2>1, <2>2, AudioType
  <2>4. [l.fades EXCEPT ![c].elapsed_fade = @ + dt] \in [Channels -> Fades]
    BY <1>1, <1>2 DEF Fades
  <2>5. QED
    BY <1>5, <2>3, <2>4 DEF StepFade, AdvanceFade, Libraries
<1>6. QED
  BY <1>3, <1>4, <1>5

-----------------------------------------------------------------------------
(* One channel.                                                             *)

\* Starting a fade to a sound of its catalogue keeps a channel well mixed.
LEMMA FadeToMixed ==
    ASSUME NEW l \in Libraries, NEW c \in Channels, Mixed(l, c),
           NEW to \in Catalogue[c] \union {Silence}
    PROVE  Mixed(FadeTo(l, c, to), c)
<1> DEFINE fade == l.fades[c]
           new == FadeTo(l, c, to)
<1>1. l.audio \in [Sounds -> Audio] /\ l.fades \in [Channels -> Fades]
  BY DEF Libraries
<1>2. Catalogue[c] \subseteq Sounds /\ Silence \notin Sounds /\ NoSound \notin Sounds \union {Silence}
  BY CataloguesAssumption DEF Catalogue, Sounds, Channels
<1>3. /\ new.fades[c].start_sound = IF fade.done THEN fade.start_sound ELSE fade.end_sound
      /\ new.fades[c].end_sound = to
      /\ new.fades[c].done = FALSE
  BY <1>1 DEF FadeTo
<1>4. ASSUME NEW s \in Sounds
      PROVE  /\ new.audio[s].playing =>
                   \/ s = to
                   \/ l.audio[s].playing /\ (~fade.done => s # fade.start_sound)
             /\ s = to /\ s \notin Unloadable => new.audio[s].playing
             /\ new.audio[s].volume = IF s = to THEN 0 ELSE l.audio[s].volume
             /\ l.audio[s].volume \in Volumes
  <2>1. l.audio[s] \in Audio
    BY <1>1
  <2>2. QED
    BY <1>1, <2>1 DEF FadeTo, Play, SetVolume, Stop, Audio
<1>5. OwnSounds(new, c)
  BY <1>2, <1>3 DEF Mixed, OwnSounds
<1>6. OnlyFaded(new, c)
  BY <1>2, <1>3, <1>4 DEF Mixed, OnlyFaded
<1>7. Loudness(new, c)
  <2> SUFFICES ASSUME NEW s \in Catalogue[c], NEW t \in Catalogue[c], s # t,
                      new.audio[s].playing, new.audio[t].playing
               PROVE  new.audio[s].volume + new.audio[t].volume =< CROSSFADE_DURATION
    BY DEF Loudness
  <2>1. s = to \/ t = to
    BY <1>2, <1>3, <1>6 , <1>4 DEF Mixed, OnlyFaded
  <2>2. QED
    BY <1>2, <1>4, <2>1, CrossfadeDurationAssumption DEF Volumes
<1>8. FadingInIsHeard(new, c)
  BY <1>3, <1>4 DEF FadingInIsHeard, Sounds
<1>9. QED
  BY <1>5, <1>6, <1>7, <1>8 DEF Mixed

\* A step of its fade keeps a channel well mixed.
LEMMA StepFadeMixed ==
    ASSUME NEW l \in Libraries, NEW c \in Channels, Mixed(l, c), NEW dt \in Nat
    PROVE  Mixed(StepFade(l, c, dt), c)
<1> DEFINE fade == l.fades[c]
           new == StepFade(l, c, dt)
<1>1. l.audio \in [Sounds -> Audio] /\ l.fades \in [Channels -> Fades] /\ fade \in Fades
  BY DEF Libraries
<1>2. Catalogue[c] \subseteq Sounds /\ Silence \notin Sounds /\ NoSound \notin Sounds \union {Silence}
  BY CataloguesAssumption DEF Catalogue, Sounds, Channels
<1>3. CASE fade.done
  BY <1>3 DEF StepFade
<1>4. CASE ~fade.done /\ fade.elapsed_fade >= CROSSFADE_DURATION
  <2>1. /\ new.fades[c].start_sound = fade.end_sound
        /\ new.fades[c].end_sound = fade.end_sound
        /\ new.fades[c].done = TRUE
    BY <1>1, <1>4 DEF StepFade, CompleteFade, Fades
  <2>2. ASSUME NEW s \in Sounds
        PROVE  new.audio[s].playing => l.audio[s].playing /\ s # fade.start_sound
    <3>1. l.audio[s] \in Audio
      BY <1>1
    <3>2. QED
      BY <1>1, <1>4, <3>1 DEF StepFade, CompleteFade, SetVolume, Stop, Audio
  <2>3. OwnSounds(new, c)
    BY <1>4, <2>1 DEF Mixed, OwnSounds
  <2>4. OnlyFaded(new, c)
    BY <1>2, <2>1, <2>2 DEF Mixed, OnlyFaded
  <2>5. Loudness(new, c)
    BY <1>2, <2>1, <2>2, <2>4 DEF OnlyFaded, Loudness
  <2>6. QED
    BY <2>1, <2>3, <2>4, <2>5 DEF Mixed, FadingInIsHeard
<1>5. CASE ~fade.done /\ ~(fade.elapsed_fade >= CROSSFADE_DURATION)
  <2>1. /\ new.fades[c].start_sound = fade.start_sound
        /\ new.fades[c].end_sound = fade.end_sound
        /\ new.fades[c].done = FALSE
    BY <1>1, <1>5 DEF StepFade, AdvanceFade, Fades
  <2>2. ASSUME NEW s \in Sounds
        PROVE  /\ new.audio[s].playing = l.audio[s].playing
               /\ s = fade.end_sound => new.audio[s].volume = fade.elapsed_fade
               /\ s = fade.start_sound /\ s # fade.end_sound =>
                      new.audio[s].volume = CROSSFADE_DURATION - fade.elapsed_fade
    <3>1. l.audio[s] \in Audio
      BY <1>1
    <3>2. QED
      BY <1>1, <1>5, <3>1 DEF StepFade, AdvanceFade, SetVolume, Audio
  <2>3. OwnSounds(new, c)
    BY <1>5, <2>1 DEF Mixed, OwnSounds
  <2>4. OnlyFaded(new, c)
    BY <1>2, <1>5, <2>1, <2>2 DEF Mixed, OnlyFaded
  <2>5. Loudness(new, c)
    <3> SUFFICES ASSUME NEW s \in Catalogue[c], NEW t \in Catalogue[c], s # t,
                        new.audio[s].playing, new.audio[t].playing
                 PROVE  new.audio[s].volume + new.audio[t].volume =< CROSSFADE_DURATION
      BY DEF Loudness
    <3>1. \/ s = fade.start_sound /\ t = fade.end_sound
          \/ t = fade.start_sound /\ s = fade.end_sound
      BY <1>2, <2>1, <2>4 DEF OnlyFaded
    <3>2. s \in Sounds /\ t \in Sounds /\ fade.elapsed_fade \in Nat
      BY <1>1, <1>2 DEF Fades
    <3>3. QED
      BY <2>2, <3>1, <3>2, CrossfadeDurationAssumption
  <2>6. FadingInIsHeard(new, c)
    BY <1>5, <2>1, <2>2 DEF Mixed, FadingInIsHeard, Sounds
  <2>7. QED
    BY <2>3, <2>4, <2>5, <2>6 DEF Mixed
<1>6. QED
  BY <1>3, <1>4, <1>5

-----------------------------------------------------------------------------
(* The other channel.                                                       *)

Untouched(l, new, d) ==
    /\ new.fades[d] = l.fades[d]
    /\ \A s \in Catalogue[d] : new.audio[s] = l.audio[s]

\* A channel that is left alone stays well mixed.
LEMMA UntouchedMixed ==
    ASSUME NEW l, NEW new, NEW d \in Channels, Mixed(l, d), Untouched(l, new, d)
    PROVE  Mixed(new, d)
<1>1. OwnSounds(new, d) /\ OnlyFaded(new, d) /\ Loudness(new, d)
  BY DEF Untouched, Mixed, OwnSounds, OnlyFaded, Loudness
<1>2. FadingInIsHeard(new, d)
  <2>1. CASE d = "background"
    BY <2>1 DEF Untouched, Mixed, FadingInIsHeard, Catalogue
  <2>2. CASE d = "foreground"
    <3>1. l.fades[d].end_sound \notin Background
      BY <2>2, CataloguesAssumption DEF Mixed, OwnSounds, Catalogue, Sounds
    <3>2. QED
      BY <3>1 DEF Untouched, FadingInIsHeard
  <2>3. QED
    BY <2>1, <2>2 DEF Channels
<1>3. QED
  BY <1>1, <1>2 DEF Mixed

\* Starting a fade on one channel leaves the other alone.
LEMMA FadeToElsewhere ==
    ASSUME NEW l \in Libraries, NEW c \in Channels, OwnSounds(l, c),
           NEW to \in Catalogue[c] \union {Silence}, NEW d \in Channels \ {c}
    PROVE  Untouched(l, FadeTo(l, c, to), d)
<1>1. l.audio \in [Sounds -> Audio] /\ l.fades \in [Channels -> Fades]
  BY DEF Libraries
<1>2. /\ Catalogue[c] \intersect Catalogue[d] = {}
      /\ Catalogue[d] \subseteq Sounds /\ Silence \notin Sounds
  BY CataloguesAssumption DEF Catalogue, Channels, Sounds
<1>3. \A s \in Catalogue[d] : s # to /\ s # l.fades[c].start_sound
  BY <1>2 DEF OwnSounds
<1>4. QED
  BY <1>1, <1>2, <1>3 DEF Untouched, FadeTo, Play, SetVolume, Stop

\* A step of the fade of one channel leaves the other alone.
LEMMA StepFadeElsewhere ==
    ASSUME NEW l \in Libraries, NEW c \in Channels, OwnSounds(l, c),
           NEW dt \in Nat, NEW d \in Channels \ {c}
    PROVE  Untouched(l, StepFade(l, c, dt), d)
<1>1. l.audio \in [Sounds -> Audio] /\ l.fades \in [Channels -> Fades]
  BY DEF Libraries
<1>2. /\ Catalogue[c] \intersect Catalogue[d] = {}
      /\ Catalogue[d] \subseteq Sounds /\ Silence \notin Sounds /\ NoSound \notin Sounds
  BY CataloguesAssumption DEF Catalogue, Channels, Sounds
<1>3. \A s \in Catalogue[d] : s # l.fades[c].end_sound /\ s # l.fades[c].start_sound
  BY <1>2 DEF OwnSounds
<1>4. QED
  BY <1>1, <1>2, <1>3
     DEF Untouched, StepFade, CompleteFade, AdvanceFade, SetVolume, Stop

-----------------------------------------------------------------------------
(* The whole library.                                                       *)

\* The library the table is built with is well mixed.
LEMMA InitialWellMixed == WellMixed(InitialLibrary)
<1>1. InitialLibrary \in Libraries
  BY CrossfadeDurationAssumption
     DEF InitialLibrary, Libraries, Fades, Audio, Volumes, EmptyFade
<1>2. ASSUME NEW c \in Channels PROVE Mixed(InitialLibrary, c)
  BY DEF InitialLibrary, EmptyFade, Mixed, OwnSounds, OnlyFaded, Loudness, FadingInIsHeard,
         Catalogue, Channels, Sounds
<1>3. QED
  BY <1>1, <1>2 DEF WellMixed

\* Starting a fade keeps the library well mixed.
LEMMA FadeToWellMixed ==
    ASSUME NEW l, WellMixed(l), NEW c \in Channels, NEW to \in Catalogue[c] \union {Silence}
    PROVE  WellMixed(FadeTo(l, c, to))
<1>1. l \in Libraries /\ Mixed(l, c) /\ OwnSounds(l, c)
  BY DEF WellMixed, Mixed
<1>2. Catalogue[c] \subseteq Sounds
  BY DEF Catalogue, Channels, Sounds
<1>3. FadeTo(l, c, to) \in Libraries
  BY <1>1, <1>2, FadeToType
<1>4. ASSUME NEW d \in Channels PROVE Mixed(FadeTo(l, c, to), d)
  <2>1. CASE d = c
    BY <1>1, <2>1, FadeToMixed
  <2>2. CASE d # c
    <3>1. Untouched(l, FadeTo(l, c, to), d)
      BY <1>1, <2>2, FadeToElsewhere
    <3>2. Mixed(l, d)
      BY DEF WellMixed
    <3>3. QED
      BY <3>1, <3>2, UntouchedMixed
  <2>3. QED
    BY <2>1, <2>2
<1>5. QED
  BY <1>3, <1>4 DEF WellMixed

\* A step of one fade keeps the library well mixed.
LEMMA StepFadeWellMixed ==
    ASSUME NEW l, WellMixed(l), NEW c \in Channels, NEW dt \in Nat
    PROVE  WellMixed(StepFade(l, c, dt))
<1>1. l \in Libraries /\ Mixed(l, c) /\ OwnSounds(l, c)
  BY DEF WellMixed, Mixed
<1>2. StepFade(l, c, dt) \in Libraries
  BY <1>1, StepFadeType
<1>3. ASSUME NEW d \in Channels PROVE Mixed(StepFade(l, c, dt), d)
  <2>1. CASE d = c
    BY <1>1, <2>1, StepFadeMixed
  <2>2. CASE d # c
    <3>1. Untouched(l, StepFade(l, c, dt), d)
      BY <1>1, <2>2, StepFadeElsewhere
    <3>2. Mixed(l, d)
      BY DEF WellMixed
    <3>3. QED
      BY <3>1, <3>2, UntouchedMixed
  <2>3. QED
    BY <2>1, <2>2
<1>4. QED
  BY <1>2, <1>3 DEF WellMixed

\* The operations of the sound library keep it well mixed.
LEMMA OperationsWellMixed ==
    ASSUME NEW l, WellMixed(l)
    PROVE  /\ \A sound : WellMixed(PlaySound(l, sound))
           /\ \A sound : WellMixed(PlayBackground(l, sound))
           /\ WellMixed(StopAll(l))
           /\ \A dt \in Nat : WellMixed(StepSounds(l, dt))
<1>0. "foreground" \in Channels /\ "background" \in Channels
  BY DEF Channels
<1>1. ASSUME NEW sound PROVE WellMixed(PlaySound(l, sound))
  BY <1>0, FadeToWellMixed DEF PlaySound, Catalogue
<1>2. ASSUME NEW sound PROVE WellMixed(PlayBackground(l, sound))
  BY <1>0, FadeToWellMixed DEF PlayBackground, Catalogue
<1>3. WellMixed(StopAll(l))
  <2>1. WellMixed(FadeTo(l, "foreground", Silence))
    BY <1>0, FadeToWellMixed
  <2>2. QED
    BY <1>0, <2>1, FadeToWellMixed DEF StopAll
<1>4. ASSUME NEW dt \in Nat PROVE WellMixed(StepSounds(l, dt))
  <2>1. WellMixed(StepFade(l, "foreground", dt))
    BY <1>0, StepFadeWellMixed
  <2>2. QED
    BY <1>0, <2>1, StepFadeWellMixed DEF StepSounds
<1>5. QED
  BY <1>1, <1>2, <1>3, <1>4

\* So does a foreground sound that comes to its end.
LEMMA FinishedWellMixed ==
    ASSUME NEW l, WellMixed(l), NEW sound \in Foreground
    PROVE  WellMixed(Finished(l, sound))
<1> DEFINE new == Finished(l, sound)
<1>1. l \in Libraries /\ l.audio \in [Sounds -> Audio]
  BY DEF WellMixed, Libraries
<1>2. new.fades = l.fades
  BY <1>1 DEF Finished, Libraries
<1>3. ASSUME NEW s \in Sounds
      PROVE  /\ new.audio[s].playing => l.audio[s].playing
             /\ new.audio[s].volume = l.audio[s].volume
             /\ s \in Background => new.audio[s] = l.audio[s]
  <2>1. l.audio[s] \in Audio /\ (s \in Background => s # sound)
    BY <1>1, CataloguesAssumption
  <2>2. QED
    BY <1>1, <2>1 DEF Finished, Stop, Libraries, Audio
<1>4. new \in Libraries
  <2>1. 0 \in Volumes
    BY CrossfadeDurationAssumption DEF Volumes
  <2>2. Stop(l.audio, sound) \in [Sounds -> Audio]
    BY <1>1, <2>1, AudioType
  <2>3. QED
    BY <1>1, <2>2 DEF Finished, Libraries
<1>5. ASSUME NEW c \in Channels PROVE Mixed(new, c)
  <2>1. Catalogue[c] \subseteq Sounds /\ Background \subseteq Sounds
    BY DEF Catalogue, Channels, Sounds
  <2>2. Mixed(l, c)
    BY DEF WellMixed
  <2>3. OwnSounds(new, c) /\ OnlyFaded(new, c) /\ Loudness(new, c)
    BY <1>2, <1>3, <2>1, <2>2 DEF Mixed, OwnSounds, OnlyFaded, Loudness
  <2>4. FadingInIsHeard(new, c)
    BY <1>2, <1>3, <2>1, <2>2 DEF Mixed, FadingInIsHeard
  <2>5. QED
    BY <2>3, <2>4 DEF Mixed
<1>6. QED
  BY <1>4, <1>5 DEF WellMixed

-----------------------------------------------------------------------------
(* The end of a fade.                                                       *)

\* A fade that is just started is not over.
LEMMA FadeToHandsNothingOver ==
    ASSUME NEW l, WellMixed(l), NEW c \in Channels, NEW to \in Catalogue[c] \union {Silence},
           NEW d \in Channels
    PROVE  HandedOver(l, FadeTo(l, c, to), d) /\ FadeTo(l, c, to).fades[c].done = FALSE
<1>1. l \in Libraries /\ OwnSounds(l, c) /\ l.fades \in [Channels -> Fades]
  BY DEF WellMixed, Mixed, Libraries
<1>2. FadeTo(l, c, to).fades[c].done = FALSE
  BY <1>1 DEF FadeTo
<1>3. CASE d = c
  BY <1>2, <1>3 DEF HandedOver
<1>4. CASE d # c
  BY <1>1, <1>2, <1>4, FadeToElsewhere DEF HandedOver, Untouched
<1>5. QED
  BY <1>2, <1>3, <1>4

\* The step that ends a fade leaves its end sound on the channel, at full volume.
LEMMA StepFadeHandsOver ==
    ASSUME NEW l, WellMixed(l), NEW c \in Channels, NEW dt \in Nat
    PROVE  HandedOver(l, StepFade(l, c, dt), c)
<1> DEFINE fade == l.fades[c]
           sound == fade.end_sound
           new == StepFade(l, c, dt)
<1>1. l.audio \in [Sounds -> Audio] /\ l.fades \in [Channels -> Fades] /\ fade \in Fades
  BY DEF WellMixed, Libraries
<1>2. SUFFICES ASSUME ~fade.done, new.fades[c].done
               PROVE  /\ new.fades[c].start_sound = sound
                      /\ sound \in Sounds => new.audio[sound].volume = CROSSFADE_DURATION
                      /\ sound \in Background \ Unloadable /\ sound # fade.start_sound =>
                             new.audio[sound].playing
  BY DEF HandedOver
<1>3. fade.elapsed_fade >= CROSSFADE_DURATION
  BY <1>1, <1>2 DEF StepFade, AdvanceFade, Fades
<1>4. new = CompleteFade(l, c)
  BY <1>2, <1>3 DEF StepFade
<1>5. new.fades[c].start_sound = sound
  BY <1>1, <1>4 DEF CompleteFade, Fades
<1>6. ASSUME sound \in Sounds
      PROVE  /\ new.audio[sound].volume = CROSSFADE_DURATION
             /\ sound # fade.start_sound => new.audio[sound].playing = l.audio[sound].playing
  <2> DEFINE loud == SetVolume(l.audio, sound, CROSSFADE_DURATION)
  <2>1. l.audio[sound] \in Audio
    BY <1>1, <1>6
  <2>2. new.audio = Stop(loud, fade.start_sound)
    BY <1>4 DEF CompleteFade
  <2>3. loud[sound] = [l.audio[sound] EXCEPT !.volume = CROSSFADE_DURATION]
    BY <1>6 DEF SetVolume
  <2>4. new.audio[sound] = IF sound = fade.start_sound
                               THEN [loud[sound] EXCEPT !.playing = FALSE] ELSE loud[sound]
    BY <1>6, <2>2 DEF Stop
  <2>5. QED
    BY <2>1, <2>3, <2>4 DEF Audio
<1>7. sound \in Background \ Unloadable => l.audio[sound].playing
  BY <1>2 DEF WellMixed, Mixed, FadingInIsHeard
<1>8. QED
  BY <1>5, <1>6, <1>7 DEF Sounds

\* A step of the main loop steps the two fades one after the other: neither disturbs the other.
LEMMA StepSoundsHandsOver ==
    ASSUME NEW l, WellMixed(l), NEW dt \in Nat, NEW c \in Channels
    PROVE  HandedOver(l, StepSounds(l, dt), c)
<1> DEFINE mid == StepFade(l, "foreground", dt)
           new == StepFade(mid, "background", dt)
<1>0. "foreground" \in Channels /\ "background" \in Channels /\ new = StepSounds(l, dt)
  BY DEF Channels, StepSounds
<1>1. WellMixed(mid)
  BY <1>0, StepFadeWellMixed
<1>2. OwnSounds(l, "foreground") /\ OwnSounds(mid, "background")
      /\ l \in Libraries /\ mid \in Libraries
  BY <1>0, <1>1 DEF WellMixed, Mixed
<1>3. CASE c = "foreground"
  <2>1. HandedOver(l, mid, c)
    BY <1>0, <1>3, StepFadeHandsOver
  <2>2. Untouched(mid, new, c)
    BY <1>0, <1>2, <1>3, StepFadeElsewhere
  <2>3. l.fades[c].end_sound \in Sounds => l.fades[c].end_sound \in Catalogue[c]
    BY <1>2, <1>3, CataloguesAssumption DEF OwnSounds
  <2>4. Background \subseteq Sounds
    BY DEF Sounds
  <2>5. QED
    BY <1>0, <2>1, <2>2, <2>3, <2>4 DEF HandedOver, Untouched
<1>4. CASE c = "background"
  <2>1. HandedOver(mid, new, c)
    BY <1>0, <1>1, <1>4, StepFadeHandsOver
  <2>2. Untouched(l, mid, c)
    BY <1>0, <1>2, <1>4, StepFadeElsewhere
  <2>3. QED
    BY <1>0, <2>1, <2>2 DEF HandedOver, Untouched
<1>5. QED
  BY <1>3, <1>4 DEF Channels

-----------------------------------------------------------------------------
(* What the channels fade to.                                               *)

\* stopall fades every channel to SILENCE.
LEMMA StopAllEnds ==
    ASSUME NEW l \in Libraries, NEW c \in Channels
    PROVE  StopAll(l).fades[c].end_sound = Silence
BY DEF StopAll, FadeTo, Libraries, Channels

\* Stepping the fades changes the end sound of none.
LEMMA StepSoundsEnds ==
    ASSUME NEW l, WellMixed(l), NEW dt \in Nat, NEW c \in Channels
    PROVE  StepSounds(l, dt).fades[c].end_sound = l.fades[c].end_sound
<1>1. ASSUME NEW other, WellMixed(other), NEW d \in Channels
      PROVE  StepFade(other, d, dt).fades[c].end_sound = other.fades[c].end_sound
  <2>1. other.fades \in [Channels -> Fades]
    BY <1>1 DEF WellMixed, Libraries
  <2>2. QED
    BY <2>1 DEF StepFade, CompleteFade, AdvanceFade, Fades
<1>2. "foreground" \in Channels /\ "background" \in Channels
  BY DEF Channels
<1>3. WellMixed(StepFade(l, "foreground", dt))
  BY <1>2, StepFadeWellMixed
<1>4. QED
  BY <1>1, <1>2, <1>3 DEF StepSounds

\* A well mixed library keeps what it promises of the sounds of a channel.
LEMMA WellMixedKeepsPromises ==
    WellMixed(lib) => OnlyFadedSoundsPlay /\ LoudnessBounded /\ NoNullSound
<1> SUFFICES ASSUME WellMixed(lib)
             PROVE  OnlyFadedSoundsPlay /\ LoudnessBounded /\ NoNullSound
  OBVIOUS
<1>1. OnlyFadedSoundsPlay
  BY DEF WellMixed, Mixed, OnlyFaded, OnlyFadedSoundsPlay, OnlyFadedSoundsPlayIn
<1>2. LoudnessBounded
  BY DEF WellMixed, Mixed, Loudness, LoudnessBounded, LoudnessBoundedIn
<1>3. NoNullSound
  BY DEF WellMixed, Mixed, OwnSounds, NoNullSound, NoNullSoundIn
<1>4. QED
  BY <1>1, <1>2, <1>3

-----------------------------------------------------------------------------
(* The library.                                                             *)

\* Every operation of the library, called at any time, keeps it well mixed.
THEOREM AlwaysWellMixed == LibrarySpec => []WellMixed(lib)
<1>1. LibraryInit => WellMixed(lib)
  BY InitialWellMixed DEF LibraryInit
<1>2. WellMixed(lib) /\ [LibraryNext]_lib => WellMixed(lib)'
  <2> SUFFICES ASSUME WellMixed(lib), [LibraryNext]_lib
               PROVE  WellMixed(lib')
    OBVIOUS
  <2>1. ASSUME NEW sound, RequestSound(sound) PROVE WellMixed(lib')
    BY <2>1, OperationsWellMixed DEF RequestSound
  <2>2. ASSUME NEW sound, RequestBackground(sound) PROVE WellMixed(lib')
    BY <2>2, OperationsWellMixed DEF RequestBackground
  <2>3. CASE Silenced
    BY <2>3, OperationsWellMixed DEF Silenced
  <2>4. ASSUME NEW dt \in Dts, Step(dt) PROVE WellMixed(lib')
    BY <2>4, OperationsWellMixed, DtsAssumption DEF Step
  <2>5. ASSUME NEW sound \in Foreground, Finish(sound) PROVE WellMixed(lib')
    BY <2>5, FinishedWellMixed DEF Finish
  <2>6. CASE UNCHANGED lib
    BY <2>6
  <2>7. QED
    BY <2>1, <2>2, <2>3, <2>4, <2>5, <2>6 DEF LibraryNext
<1>3. QED
  BY <1>1, <1>2, PTL DEF LibrarySpec

\* The library is always one: two fades and the state of every sound.
THEOREM TypeCorrect == LibrarySpec => []LibraryTypeOK
<1>1. WellMixed(lib) => LibraryTypeOK
  BY DEF WellMixed, LibraryTypeOK
<1>2. QED
  BY <1>1, AlwaysWellMixed, PTL

\* A replaced sound is always stopped (OnlyFadedSoundsPlay).
THEOREM ReplacedSoundsStop == LibrarySpec => []OnlyFadedSoundsPlay
BY WellMixedKeepsPromises, AlwaysWellMixed, PTL

\* No channel is ever louder than one sound at full volume (LoudnessBounded).
THEOREM NeverTooLoud == LibrarySpec => []LoudnessBounded
BY WellMixedKeepsPromises, AlwaysWellMixed, PTL

\* No step of a fade dereferences the null pointer (NoNullSound).
THEOREM NeverNull == LibrarySpec => []NoNullSound
BY WellMixedKeepsPromises, AlwaysWellMixed, PTL

\* A completed fade hands its channel over to the sound faded in (CompletedFadeIsHeard).
THEOREM CompletionIsHeard == LibrarySpec => CompletedFadeIsHeard
<1>1. WellMixed(lib) /\ [LibraryNext]_lib => [\A c \in Channels : HandedOver(lib, lib', c)]_lib
  <2> SUFFICES ASSUME WellMixed(lib), LibraryNext, NEW c \in Channels
               PROVE  HandedOver(lib, lib', c)
    OBVIOUS
  <2>0. /\ "foreground" \in Channels /\ "background" \in Channels
        /\ HandedOver(lib, lib, c)
    BY DEF Channels, HandedOver
  <2>1. ASSUME NEW sound, RequestSound(sound) PROVE HandedOver(lib, lib', c)
    BY <2>0, <2>1, FadeToHandsNothingOver DEF RequestSound, PlaySound, Catalogue
  <2>2. ASSUME NEW sound, RequestBackground(sound) PROVE HandedOver(lib, lib', c)
    BY <2>0, <2>2, FadeToHandsNothingOver DEF RequestBackground, PlayBackground, Catalogue
  <2>3. CASE Silenced
    <3> DEFINE mid == FadeTo(lib, "foreground", Silence)
    <3>1. WellMixed(mid)
      BY <2>0, FadeToWellMixed
    <3>2. HandedOver(mid, lib', c) /\ lib'.fades["background"].done = FALSE
      BY <2>0, <2>3, <3>1, FadeToHandsNothingOver DEF Silenced, StopAll
    <3>3. lib'.fades["foreground"].done = FALSE
      <4>1. mid.fades["foreground"].done = FALSE
        BY <2>0, FadeToHandsNothingOver
      <4>2. mid \in Libraries /\ OwnSounds(mid, "background")
        BY <2>0, <3>1 DEF WellMixed, Mixed
      <4>3. Untouched(mid, lib', "foreground")
        BY <2>0, <2>3, <4>2, FadeToElsewhere DEF Silenced, StopAll
      <4>4. QED
        BY <4>1, <4>3 DEF Untouched
    <3>4. QED
      BY <3>2, <3>3 DEF HandedOver, Channels
  <2>4. ASSUME NEW dt \in Dts, Step(dt) PROVE HandedOver(lib, lib', c)
    BY <2>4, StepSoundsHandsOver, DtsAssumption DEF Step
  <2>5. ASSUME NEW sound \in Foreground, Finish(sound) PROVE HandedOver(lib, lib', c)
    <3>1. lib'.fades = lib.fades
      BY <2>5 DEF Finish, Finished, WellMixed, Libraries
    <3>2. QED
      BY <3>1 DEF HandedOver
  <2>6. QED
    BY <2>1, <2>2, <2>3, <2>4, <2>5 DEF LibraryNext
<1>2. QED
  BY <1>1, AlwaysWellMixed, PTL DEF LibrarySpec, CompletedFadeIsHeard
=============================================================================
