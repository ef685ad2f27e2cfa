# Table lumineuse: TLA+ models and proofs

The *table lumineuse* is a light table for children: a process on a Raspberry Pi that
drives an LED strip and, when built `WITH_SOUNDS`, loudspeakers. It is controlled over
HTTP from web pages and by a push button; a second process with a camera, the spot
tracker, sends it colours. These modules model both from their source (`src/`, beside
this directory), check the models with TLC and prove their safety properties with TLAPS.
`PROJECT.json` maps every definition to the lines it stands for.

## The system

    web pages ── HTTP ──> server / connection / request_parser ──> handler ──> Table
                              (poll(), once a frame)                            │
    push button ── GPIO ──> main loop: poll, switch, step, sleep ───────────────┤
    quit signals ── Asio ─┘                                                     │
                                            Effects ── Fade ── Ledstrip ── SPI ─┤
                                                SoundLibrary ── Crossfades ── SFML

    camera ── find_spots ──> spot tracker ── perform_request ── HTTP ──> the table
    camera ── find_markers (programs of their own)

The table runs on one thread. Concurrency comes from outside: clients and the kernel
complete operations whose handlers run in a later `poll()`; the button and the
signals come at any time; SFML plays sounds on a thread of its own; the spot tracker
waits for answers while the table sleeps, runs out of descriptors, stops and starts.

| Part | State | Operations | Correct when | Module |
|---|---|---|---|---|
| main loop (`main.cpp`), GPIO (`gpio.c`) | `running`, `on_raspi`, `last_switch_state`, `dt`, descriptors | the iteration; quit handler; set-up and reading of the switch | no switch reading leaves the table inconsistent; a signal ends the loop, whatever is lost | `LightTable`, `Process` |
| table (`table.cpp`, `fade.cpp`) | `active`, `previously_active`, two effects, the transition | `step`, `set_next_effect` | sleep is dark and keeps the ambience; LEDs end on the effect chosen | `LightTable`, `Lamp` |
| commands (`handler.cpp`) | none | one per mode | no command disturbs sleep or undoes a STOP; nothing a page sends kills the process | `LightTable` |
| sounds (`sound/`) | two cross-fades, the sounds | `play`, `background`, `stopall`, `step` | no sound is left playing, too loud or lost | `Crossfade`, `SoundLibrary` |
| HTTP server (`http_server/`) | acceptor, connections, queued operations | accept, read, write, stop | nothing is forgotten, leaked or overwritten | `HttpServer`, `Process` |
| request parser, `url_decode` | `state_`, the request | `consume`, `url_decode` | answers as the grammar says; decodes what was encoded | `RequestParser` |
| LED strip (`ledstrip.cpp`, `lpd8806led.c`) | `_colors`, the buffer, the device | `blank`, `fill`, `set`, `write_all` | what was sent is shown; transfers end | `LedStrip` |
| noise, gradient fade, gradients (`light/`) | Perlin offset, elapsed time, the table of colours | `step`, lookup | indices in range, the strip covered, time in its cycle | `Effects` |
| spot tracker (`spot_tracker/`) | previous spot and colour, its connection | find, choose, `perform_request` | no command comes late over a newer one; it goes on | `SpotTracker` |
| marker detection (`markers/`) | the circles, a `Marker` | `decode_marker`, `unfold_circle` | markers are told apart; what is returned is complete | `Markers` |
| light sources | — | — | — | used, not modelled |

What is hard here: commands and button presses that meet in one iteration; two
pointers to one effect or sound; fades interrupted in every phase; results queued
before a shutdown and handled after it; descriptors that run out; transfers cut in the
middle; a client without a timeout; comparisons and indices off by one. `PROJECT.json`
lists these hazards at their lines, with the properties that cover them.

## The modules

**`Crossfade`** holds the two cross-fades and the sounds as one value, `lib`, and each
method as an operator on it (`FadeTo` is `fade_to`, `StepFade` is `step`). A volume is
the numerator of a fraction of the fade's length, which is how the code computes it, so
no fraction is needed. SFML is external: a sound has a volume and plays or not, playing
one whose file cannot be loaded does nothing, and a foreground sound may end at any
time.

**`SoundLibrary`** uses `lib` in every order its interface allows.

**`LightTable`** is the process. It extends `SoundLibrary`: `lib` is `table.sounds`, and
commands, sleep and steps of the table use it by that module's actions. `pc` is the
place in the main loop; while it is `"poll"` any number of handlers may run, one action
per kind of request, with the guards in the order of `process_command`. Effects are
identities, since the code compares them by address; the colours they compute are
abstracted to *which* effects the LEDs blend (`shown`). `Crash` is an exception that
nothing catches between the handler and `main`. A light source is never added, so
`COLOR_MIX` and `PULSE` always end in `UnsupportedCommand`.

**`Lamp`** is what the table promises: on or off, one ambience, remembered. The table
implements it with `on <- table.previously_active` and, for the ambience, the current
effect of an awake table and the previous one of a sleeping table.

**`HttpServer`** has the operations of Boost.Asio as a set `ops`. Each is pending,
then completed (`ok`, `error`) or cancelled (`aborted`) with its handler still to run:
closing a socket does not take back a result already queued. The handlers are those of
`do_accept`, `do_read`, `do_write` and `do_await_stop`. A connection object exists as
long as the manager or an operation refers to it (`Free`), as with `shared_from_this`.
What a request asks for is `LightTable`'s business; here it is handled or refused.

**`Process`** puts `HttpServer` into the main loop. While `pc` is `"poll"` handlers run,
and `PollReturns` only when none is ready, as `io_service::poll` does: that is why the
single `poll()` that sees the quit signal also runs everything the stop cancelled. Files
and sockets draw on the same `MaxDescriptors`; `lost` counts those that no one closes
(a failed read in `GPIORead`, a failed write in `GPIODirection`, a connection accepted
when the acceptor was being closed). What the table does in a frame is `LightTable`'s
business.

**`RequestParser`** reads one byte of any input per step. `Moves` are the parser's
transitions; `Answer` is the reference, a grammar stated over whole lines. The handler
then decodes the URI (`UrlDecode`), a decoded byte being the number that was read after
a `%`. `Number` is what `>> std::hex` takes of two characters, malformed ones included.

**`LedStrip`** has the `Ledstrip` methods as actions and `write_all` as a loop whose
turns are answers of the driver: some frames taken, a write too long, an error. A write
interrupted by a signal is repeated unchanged and is a stuttering step. The unit is a
frame of three bytes. The chips are external: a zero frame brings the chain back to
its first LED, every other frame goes to the next LED. Gamma correction is a function
that may take two colours to one level. A negative index of `set`, which no caller
passes, is outside the model, and so is the length of the zero run real chips need.

**`Effects`** keeps of the Perlin noise where it reads: the noise itself is any value
from -1 to 1. One action per LED of `Noise::step`, one per turn from a side of the table
to the next. A position in a gradient is counted in entries, and an entry may be looked
up only if the constructor has computed it. `elapsed_fade` starts with anything.

**`Markers`** is `find_markers` from the circles OpenCV finds. A pattern is the set of
its black bits; the level at a radius is one of the four kinds its two thresholds and
its fuzzy range tell apart. What was painted is in the state only so that the result can
be compared with it.

**`SpotTracker`** has the tracker's loop, `perform_request` step by step, and the table
as its clients see it: a connection in the backlog, read, its handler queued, answered in
two pieces, closed or reset. It composes the tracker with what `HttpServer`, `Process` and
`LightTable` have in full: an accept needs a descriptor, which other clients or lost
files may hold (`others`); `Quit` is the handler of the quit signal, after which handlers
already queued still execute their commands on connections that are closed
(`"orphaned"`); `Ends` is the end of that last poll and of the process, `Crash` an
exception or a kill.
`spot_tracker.cpp:96` uses `spot` outside its scope and is taken for what it says. After
a status of 200 `perform_request` would read the rest of the reply; the table never
answers that to a command, so the lines are not modelled. The tracker uses one connection
at a time, while the server may still be sending on one it has left.

The `MC*` modules give the constants their values.

## What TLC checks

| Run | Instance | Shows |
|---|---|---|
| `sound_library` | 2 + 2 sounds, one unloadable, fades of 2, frames of 1 or 2 | a sound out of its fade stops; two are never louder than one; no null pointer; a completed fade is heard; fades complete |
| `light_table` | 4 effects, transitions of 2, frames of 1 or 2 | the invariants of sleep and wake-up, `Lamp`, the LEDs; that effects appear, that a STOP is undone by nothing but the switch, and that signals end the loop |
| `light_table_sounds` | 3 effects, 1 + 1 sounds, fades of 1 | sleep silences both channels and becomes dark and quiet |
| `process` | 3 connections, 3 descriptors | operations, connections and replies are never lost, doubled or overwritten; a quit signal ends the process, with nothing left, also when descriptors have run out |
| `request_parser` | inputs of up to 25 bytes, 4 of them in fields | the answer after every byte is the grammar's, the fields are those sent, the path is the text of the URI |
| `led_strip` | 3 LEDs, 3 colours on 2 levels, writes of at most 3 of 9 frames | write sizes, the buffer, the picture after any failures, the end of each transfer |
| `effects` | the 97 LEDs and the period of 256, a gradient of 4 entries, a cycle of 5 | accesses in bounds, the strip covered without a jump, the cycle of the fade |
| `markers` | the 4 markers at their 25 samples, 2 plain circles, 2 circles an image, up to 2 misread levels | markers with one misread level are recognised; what is returned is complete |
| `spot_tracker` | a grid of 1 by 3, 2 addresses, 2 connections, 2 descriptors | a command is late only in the last poll of a table that quits; colours are shown and the tracker goes on, unless a table without descriptors cannot accept |

Three runs find a disagreement between the code and what the repository says of it:

- `sound_library_loop`: asking for the background sound that already plays fades it
  to itself; the end of that fade stops it (`soundeffect.cpp:38`), although the
  handler announces a loop (`handler.cpp:133`).
- `light_table_tile`: the rainbow tile of `html/index.html` asks for a gradient that is
  commented out of `GRADIENTS`; the exception of `at()` ends the process.
- `spot_tracker_order`: `pointcmp` compares the x of one spot with the y of the other
  (`spot_tracker/detector.h:14`), so that the set of spots drops some that are there.

Seen while modelling, and not a run:

- A STOP and a press of the button in one iteration cancel out (`main.cpp:93`), against
  the comment at `table.h:47`; `StopIsHeeded` has this as the one exception, beside a
  crash.
- One press of the button may toggle the table twice: a frame in which the switch cannot
  be read, or is read in a bounce of its contact, counts as a release. `main.cpp:27`
  speaks of eliminating bouncing.
- `url_decode` accepts some malformed escapes (`%1` and a character that is no digit, `%+1`),
  for which `request_handler.hpp:40-41` promises false.
- A command whose read was over when `stop_all` closed its connection is executed after
  its client has been told that the connection is gone.
- The spot tracker waits for ever in the backlog of a table that has no descriptors.
- `Ledstrip::color` (`ledstrip.h:47-50`) answers with a colour the strip does not show
  when a transfer has failed, and the same colours are not sent again.
- `handler.cpp:80` says a command first activates the table; the line that did is
  commented out, and a sleeping table refuses commands.
- While the descriptors are exhausted and a client waits, `poll()` does nothing but
  accept in vain and does not return; only a quit signal ends it.
- The pattern read of a marker is one bit higher than the known ones (`detector.cpp:131`
  of `markers/`). Marker 4 is still recognised with one misread level; a wholly white
  circle is taken for marker 1 and a wholly black one for marker 4, whose orientation is
  then 0 / 0.
- The loop over the stops in `Gradient`'s constructor does not break, so every entry is
  interpolated towards the last stop (`color.cpp:139-150`).

### Bounds

They are the constants above; no property mentions them. Fades of two units pass
through start, middle and end and can be overshot by a frame of two. Two sounds and
silence allow a fade between any pair to be interrupted by a third, or by one of its
own ends. Four effects let a poll set two new ones while the LEDs still show two
others. Three connections are enough for one to be accepted while another reads and a
third writes, with their names used again, and three descriptors for these to run out
with some lost and some in connections. Three LEDs and writes of three frames of
nine cut a buffer before, inside and after the pixels, halve twice and shift the
picture by one and two. In the parser every character is tried at every point, but
where a field keeps a character only those of `Kept` and `KeptInUri` are followed; 25
bytes hold a header with a continuation line, or two headers, and four kept bytes an
escape and one more. The strip is the real one; the proof is for all lengths. The
markers are the real ones; two misread levels are one more than is tolerated. A grid of
one by three gives colours that differ and one, black, that equals the initial one. Two
descriptors can all be held by others, or let a connection be answered while the next is
accepted, or while another client comes. One contour an image is enough for a spot that comes, moves and
goes; the run about the order has images with two.

### Fairness

- `LightTable`: weak fairness of the main loop's own steps. One thread runs it and
  `poll()` returns once no handler is ready. Nothing is assumed of clients, button or
  signals.
- `SoundLibrary`: weak fairness of the step with time passing, for the same reason.
- `Process`: weak fairness of the loop's steps, of the quit handler, and of the accept,
  stop, and each connection's handlers while they are ready, since `poll()` runs
  handlers in the order in which they became so; and of the completion of writes: a reply
  is a few hundred bytes and fits the socket's buffer. None of reads: a client may never
  finish its request.
- `Effects`: a step of the noise ends, and the table steps its effects at every frame:
  weak fairness of the one, strong fairness of the other, since the two alternate.
- `SpotTracker`: weak fairness of the tracker's loop, of what a table that is up does
  with each connection, and of the end of a table that has been told to quit, which
  `Process` shows (`SignalEnds`). An accept is promised only while a descriptor stays
  free: without one it fails and is tried again, in vain for as long as none is given
  back. Nothing is assumed of who stops, starts or commands the table, nor of others
  giving descriptors back.
- `LedStrip`: weak fairness of the driver's answers; signals do not interrupt its
  writes for ever.
- `RequestParser`, `Markers`: none; they have no liveness property.

`CHECK_DEADLOCK FALSE` is set where the system may stop: the process ends, a server
has been shut down, a strip is destroyed, a request has been answered, an image has
been searched.

## What is proved

Every safety property of a passing run, invariants, action properties and the refinement
of `Lamp`, is a theorem, for all values of the constants that satisfy the named
assumptions; TLC evaluates those on the instances it checks. Each follows from
`Init => IInv`, `IInv /\ [Next]_vars => IInv'` and `IInv` implying the property; the
lemmas about the operators are cited by name.

- `SoundLibraryProofs`: `LibraryTypeOK`, `OnlyFadedSoundsPlay`, `LoudnessBounded`,
  `NoNullSound`, `CompletedFadeIsHeard`, after lemmas on each operator of `Crossfade`:
  what it does to the type, to which sounds play, to the sum of two volumes and to the
  ends of a running fade. The loudness of a channel is not inductive: the invariant
  (`WellMixed`) also relates the volumes of both ends of a running fade to its elapsed
  time, and says that nothing else plays.
- `LightTableProofs`: `TypeOK`, `SleepKeepsTheAmbience`, `EffectsNotAliased`,
  `SleepSilences`, `LedsShowTheTransition`, and the refinement `LampSpec`. The invariant
  relates `active`, `previously_active` and the place in the loop: a table that is active
  and not yet awake is between the button and the step that wakes it, so no command finds
  it so. It includes `WellMixed`, so that the promises of the sound library hold in the
  table too, until the process stops (`TableSoundsAreMixed`).
- `ProcessProofs`: first the server alone, `TypeOK`, `OneOperation`,
  `ManagedConnectionsWork`, `ServerIsUpOrDown`, `ReplyKeptWhileWritten`, for any set of
  connections, the conjunction of the first four being inductive. Then the process
  implements the server (`ProcessRunsTheServer`), so that all of this holds of it, and
  `NothingIsLeftOpen`, for any number of connections and descriptors: once `running` is
  cleared and `poll()` has returned, the stop handler has run too and nothing it
  cancelled is waiting.
- `RequestParserProofs`, for inputs of any length: `TypeOK`,
  `ResultIsThatOfTheGrammar`, `RequestIsTheOneSent` and `PathIsTheTextOfTheUri`. The
  type is not inductive: after the colon of a header the parser adds to no header, and
  will. For the grammar the lines of the input are followed over one character more, and
  for each state it is said what has arrived of a line (`Shape`); what has that shape can
  be completed by the end of a line that is one, and a character that some request has
  next is one the parser moves on. `HasKept` adds, for each state, what the request has
  of that line. `UrlDecode` is recursive from the end: what is made of a URI from a place
  where a byte begins is the text of the bytes from there on, by induction over the places.
- `LedStripProofs`: `WritesStayInTheBuffer`, `BufferHoldsColors` and `SentIsShown`, for
  any number of LEDs and any driver limit. Halving is safe only because a length that is
  refused is above a limit of at least one; cutting keeps it within what is left. For what
  the chips show, the recursion over the frames of a write is unrolled, and the invariant
  says which LEDs are lit after the first frames of a transfer, counted from the last
  reset frame that `malloc` may have left before the pixels (`Origin`). A transfer that
  was given up leaves the chips anywhere; a whole one lights every LED, wherever they were.
- `EffectsProofs`: `AccessesInBounds` and `NoiseGoesAroundTheTable` for every strip whose
  length is 1 or 3 modulo 6, every permutation and every gradient. The invariant says how
  far the four loops have come and where each LED before that was looked up.
- `MarkersProofs`: `ReturnedMarkersAreKnown` for any patterns and any readings, from the
  lemma that the best of the near markers exists; and `MarkersAreToldApart` for any
  markers that are far apart (`FarApartAssumption`, which the run evaluates on the four of
  `detector.h`): a misread level changes a score by at most one, so the marker painted
  stays within the tolerance and every other one stays behind it.
- `SpotTrackerProofs`: `CommandsAreNeverLate`, for any number of connections, descriptors,
  endpoints and positions. The invariant says where a command can be: on the one connection
  whose other end the tracker has open, not handled yet, while the tracker waits for the
  status line; or on one that a stopping server has closed with its handler queued, and
  then the tracker still waits for that one or has no connection.

Induction over numbers is done with the least number of a set, since the prover cannot
instantiate the library's induction theorems; recursive functions are unrolled that way.

Only model-checked: liveness (`FadesComplete`, `EffectIsShown`, `QuitEnds`,
`SleepIsDarkAndQuiet`, `StopIsHeeded`, `AnsweredConnectionsEnd`, `SignalEnds`, `SendEnds`, `FadeCycles`,
`SentColorIsShown`, `TrackerGoesOn`), since the prover has no `ENABLED`; and the three
disagreements, which are counterexamples.

## What is not modelled, and the plan

Wording, headers and logging; JSON text; the arithmetic of colours and of Perlin noise;
the values of the version numbers of a request; a minus sign and `0x` in an escape;
clocks that are set back; light sources, which nothing creates; `GPIOWrite`,
`GPIOUnexport`, `Color::from_mix`, which nothing that runs calls; what OpenCV does with an
image, and the programs that only show it; the LED test programs; the pages, beyond the
commands they send. In `SpotTracker` the kernel's backlog has room for the tracker, and the
tracker itself is not killed.

Next:

1. `HttpServer` and `LightTable` composed in one `poll()`: a command queued before a quit
   signal is executed after it, and each request is answered by the table as it was when
   its handler ran.
2. An abstract server (each request answered at most once, none after shutdown) that
   `HttpServer` implements, with the refinement proved.
3. The interpolation of `Gradient` on integers, to state what its missing `break` does to
   the stops in between.
