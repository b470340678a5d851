------------------------------ MODULE Backend ------------------------------
(***************************************************************************)
(* The audio engine as it is set up for a backend: engine.c, engine_jack.c *)
(* and engine_pa.c, the tempo of transport.c that depends on it, and the   *)
(* preference that chooses the backend (preferences.c, in audio and gui).  *)
(*                                                                         *)
(* Of frames_per_tick the model keeps the sample rate it was computed      *)
(* from.  It is computed three times at most before a project is open:     *)
(* when the transport is set up, before the backend has given a rate; by   *)
(* the callback that JACK calls as soon as it is registered, from a rate   *)
(* that is a constant; and never after that by PortAudio.                  *)
(***************************************************************************)
EXTENDS Integers

CONSTANTS
  JackRate,   \* the sample rate of the JACK server
  JackBlocks  \* the buffer sizes it may have

VARIABLES
  preferred,  \* the key audio-backend of the settings, which outlives the program
  engine      \* ZRYTHM->audio_engine

backendVars == <<preferred, engine>>

Backends == {"jack", "portaudio"}

PaRate == 44100
PaBlock == 256

\* engine_new, zeroed by calloc.
EngineNew ==
  [backend |-> "none", sample_rate |-> 0, ticks_from |-> 0, block_length |-> 0,
   buf_size_set |-> FALSE, active |-> FALSE]

UpdateFramesPerTick(e, rate) == [e EXCEPT !.ticks_from = rate]
TransportSetBpm(e) == UpdateFramesPerTick(e, e.sample_rate)
TransportSetup(e) == TransportSetBpm(e)

\* jack_sample_rate_cb: without a project the rate is taken to be 44000.
SampleRateCb(e, rate, project) ==
  UpdateFramesPerTick([e EXCEPT !.sample_rate = rate], IF project THEN rate ELSE 44000)

\* jack_buffer_size_cb; that it also reallocates the ports of the engine, and the
\* buffers of the plugins of MIXER->channels, is left out with the buffers.
BufferSizeCb(e, frames) == [e EXCEPT !.block_length = frames, !.buf_size_set = TRUE]

\* jack_setup: registering the rate callback calls it, and the process callback runs
\* from here on.
JackSetup(e, block) ==
  [SampleRateCb([e EXCEPT !.block_length = block], JackRate, FALSE) EXCEPT !.active = TRUE]

PaSetup(e) ==
  [e EXCEPT !.sample_rate = PaRate, !.block_length = PaBlock, !.active = TRUE]

\* engine_setup
EngineSetup(e, backend, block) ==
  LET set == [TransportSetup(e) EXCEPT !.backend = backend]
  IN IF backend = "jack" THEN JackSetup(set, block) ELSE PaSetup(set)

\* A client that cannot be opened, ports that are not given, or a server without
\* physical outputs end the program.
SetupFails == preferred = "jack"
=============================================================================
