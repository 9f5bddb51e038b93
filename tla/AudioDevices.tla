---------------------------- MODULE AudioDevices ----------------------------
(***************************************************************************)
(* How a source and a sink come to an audio format, src/lib/audio.c with   *)
(* its callers: each looks for its device; the source settles the sample   *)
(* format and rate with PortAudio, opens its stream and an Opus encoder,   *)
(* and tells the sink in the handshake; the sink opens a stream and a      *)
(* decoder with what it is told.  PortAudio and Opus are external: a       *)
(* device answers what the table says, and opening one may fail.           *)
(***************************************************************************)
EXTENDS Naturals, Sequences, SequencesExt

CONSTANTS MAX_CHANNELS,  \* audio.h
          Formats,       \* sample formats and rates devices know (bound)
          Rates

ASSUME AudioAssumption == MAX_CHANNELS \in 1 .. 2  \* as many as Opus takes

Side == {"source", "sink"}  \* its device is an input, an output
NULL == <<"NULL">>
paNoDevice == 0
NoFormat == "0"

ra_prioritized_sample_formats == <<"Float32", "Int16">>
ra_prioritized_sample_rates == <<48000, 24000, 16000, 12000, 8000>>

(* What Opus takes, opus_encoder_create and opus_decoder_create.           *)
OpusTakes(a) == a.sample_rate \in {8000, 12000, 16000, 24000, 48000}
                /\ a.channel_count \in 1 .. 2

(* Device names are sequences of words; a request is the start of one.     *)
Name == <<<<"CABLE">>, <<"CABLE", "Input">>>>
Requests == {NULL, <<"CABLE">>, <<"CABLE", "Input">>}

(* How many channels a device may have: none, one, more than are used.     *)
Widths == {0, 1, MAX_CHANNELS + 1}

VARIABLES maxChannels,        \* of each device on each side, 0 for not at all
          supports,           \* the pairs of format and rate of the source's
          defaultSampleRate,
          dev,                \* the device each program is asked for
          stage,              \* how far each program is
          cfg,                \* its ra_audio_config_t
          opened,             \* what its PortAudio stream was opened with
          message             \* the handshake on its way

vars == <<maxChannels, supports, defaultSampleRate, dev, stage, cfg, opened,
          message>>
devices == <<maxChannels, supports, defaultSampleRate, dev>>

Config == [device : 0 .. Len(Name), channel_count : 0 .. MAX_CHANNELS,
           sample_format : Formats \cup {NoFormat}, sample_rate : Rates \cup {0}]

InitialConfig == [device |-> paNoDevice, channel_count |-> MAX_CHANNELS,
                  sample_format |-> NoFormat, sample_rate |-> 0]

(* No stream, no message.                                                  *)
None == [InitialConfig EXCEPT !.channel_count = 0]

Init == /\ maxChannels \in [Side -> [DOMAIN Name -> Widths]]
        /\ supports \in SUBSET (Formats \X Rates)
        /\ defaultSampleRate \in Rates
        /\ dev \in [Side -> Requests]
        /\ stage = [h \in Side |-> "find"]
        /\ cfg = [h \in Side |-> InitialConfig]
        /\ opened = [h \in Side |-> None] /\ message = None

At(h, s) == stage[h] = s
Goes(h, s) == stage' = [stage EXCEPT ![h] = s]

-----------------------------------------------------------------------------
Matches(h, i) == IsPrefix(dev[h], Name[i]) /\ maxChannels[h][i] > 0

Channels(h, i) ==
  IF maxChannels[h][i] < cfg[h].channel_count THEN maxChannels[h][i]
  ELSE cfg[h].channel_count

(* The first device that matches, or the default of PortAudio: one of the  *)
(* right direction, or none, although there may be devices.                *)
Candidates(h) ==
  LET fit == {i \in DOMAIN Name : Matches(h, i)}
  IN IF dev[h] # NULL THEN {i \in fit : \A j \in fit : i <= j}
     ELSE {i \in DOMAIN Name : maxChannels[h][i] > 0}

ra_audio_find_device(h) ==
  /\ At(h, "find")
  /\ \/ /\ Candidates(h) = {} \/ dev[h] = NULL
        /\ Goes(h, "failed") /\ UNCHANGED cfg
     \/ \E i \in Candidates(h) :
          /\ cfg' = [cfg EXCEPT ![h].device = i,
                                 ![h].channel_count = Channels(h, i)]
          /\ Goes(h, IF h = "source" THEN "format" ELSE "listening")
  /\ UNCHANGED <<devices, opened, message>>

-----------------------------------------------------------------------------
FirstSupported(list, Pair(_), none) ==
  LET i == SelectInSeq(list, LAMBDA x : Pair(x) \in supports)
  IN IF i = 0 THEN none ELSE list[i]

(* Fault: the rate that the formats were tried with counts for a rate.     *)
DefaultRate(fmt) == IF <<fmt, defaultSampleRate>> \in supports
                    THEN defaultSampleRate ELSE 0

find_sample_format ==
  FirstSupported(ra_prioritized_sample_formats,
                 LAMBDA f : <<f, defaultSampleRate>>, NoFormat)

find_sample_rate(fmt) == FirstSupported(ra_prioritized_sample_rates,
                                        LAMBDA r : <<fmt, r>>, 0)

(* ra_audio_create_stream, step by step; sample_size is that of the format. *)
FormatStep ==
  /\ At("source", "format")
  /\ cfg' = [cfg EXCEPT !["source"].sample_format = find_sample_format]
  /\ Goes("source", IF find_sample_format = NoFormat THEN "failed" ELSE "rate")
  /\ UNCHANGED <<devices, opened, message>>

RateStep ==
  /\ At("source", "rate")
  /\ LET rate == find_sample_rate(cfg["source"].sample_format)
     IN /\ cfg' = [cfg EXCEPT !["source"].sample_rate = rate]
        /\ Goes("source", IF rate = 0 THEN "failed" ELSE "open")
  /\ UNCHANGED <<devices, opened, message>>

(* What PortAudio says of parameters: too many channels and pairs that the *)
(* table does not have are refused; what it would take may still fail.     *)
MayOpen(h, a) ==
  /\ a.channel_count \in 1 .. maxChannels[h][a.device]
  /\ h = "source" => <<a.sample_format, a.sample_rate>> \in supports

Open(h, a, next) ==
  /\ \/ /\ MayOpen(h, a)
        /\ opened' = [opened EXCEPT ![h] = a]
        /\ Goes(h, next)
     \/ Goes(h, "failed") /\ UNCHANGED opened
  /\ UNCHANGED cfg

SourceOpens == /\ At("source", "open") /\ Open("source", cfg["source"], "codec")
               /\ UNCHANGED <<devices, message>>

(* The encoder of the source, the decoder of the sink.                     *)
CreateCodec(h) ==
  /\ At(h, "codec")
  /\ Goes(h, IF OpusTakes(opened[h]) THEN "ready" ELSE "codec failed")
  /\ UNCHANGED <<devices, cfg, opened, message>>

create_handshake_message ==
  /\ At("source", "ready") /\ message = None
  /\ message' = cfg["source"]
  /\ UNCHANGED <<devices, stage, cfg, opened>>

(* Fault: the sink keeps the channels of its own device.                   *)
OwnChannels(a) == [message EXCEPT !.device = a.device,
                                  !.channel_count = a.channel_count]

(* The configuration of the sink, with what the message has: its device is *)
(* all that is left of it.                                                 *)
FromMessage(a) == [message EXCEPT !.device = a.device]

audio_stream_open ==
  /\ At("sink", "listening") /\ message # None
  /\ Open("sink", FromMessage(cfg["sink"]), "codec")
  /\ UNCHANGED <<devices, message>>

Done == /\ \A h \in Side : stage[h] \in {"ready", "failed", "codec failed",
                                         "listening"}
        /\ UNCHANGED vars

Next == \/ \E h \in Side : ra_audio_find_device(h) \/ CreateCodec(h)
        \/ FormatStep \/ RateStep \/ SourceOpens
        \/ create_handshake_message \/ audio_stream_open \/ Done

Spec == Init /\ [][Next]_vars

-----------------------------------------------------------------------------
TypeOK ==
  /\ stage \in [Side -> {"find", "format", "rate", "open", "listening", "codec",
                         "ready", "failed", "codec failed"}]
  /\ cfg \in [Side -> Config]
  /\ opened \in [Side -> Config] /\ message \in Config
  /\ \A h \in Side : opened[h] # None =>
       opened[h].sample_format \in Formats /\ opened[h].sample_rate \in Rates

(* A format that both PortAudio streams take is one that Opus takes: no    *)
(* program gets as far as a stream and fails for its encoder or decoder.   *)
CodecsFollow == \A h \in Side : stage[h] # "codec failed"

(* The two ends of a session run with the same channels, format and rate:  *)
(* the frames the sink plays are those that the source records.            *)
BothEndsAgree ==
  opened["sink"] # None =>
    opened["sink"] = [opened["source"] EXCEPT !.device = cfg["sink"].device]
=============================================================================
