---------------------------- MODULE InputsProofs ----------------------------
(***************************************************************************)
(* Proofs about AudioDevices, for devices that support any formats and     *)
(* rates whatever, and every MAX_CHANNELS that Opus takes; and about       *)
(* ConfigParser, for files of any number of lines, read in any number of   *)
(* chunks.                                                                 *)
(***************************************************************************)
EXTENDS MCInputs, TLAPS, WellFoundedInduction, SequenceTheorems

OpusRates == {8000, 12000, 16000, 24000, 48000}

(* What the programs know of the devices does not change.                  *)
DevicesInv == /\ supports \subseteq Formats \X Rates
              /\ maxChannels \in [Side -> [DOMAIN Name -> Nat]]

(* The source settles a format, then a rate that Opus takes as well; what  *)
(* it opens and sends is what it settled.                                  *)
SourceInv ==
  /\ stage["source"] # "listening"
  /\ stage["source"] \in {"rate", "open", "codec", "ready"} =>
       cfg["source"].sample_format \in Formats
  /\ stage["source"] \in {"open", "codec", "ready"} =>
       cfg["source"].sample_rate \in Rates \cap OpusRates
  /\ stage["source"] \in {"codec", "ready"} =>
       cfg["source"].channel_count # 0 /\ opened["source"] = cfg["source"]
  /\ stage["source"] \notin {"codec", "ready"} => opened["source"] = None
  /\ message # None => stage["source"] = "ready" /\ message = cfg["source"]

(* The sink opens what it was told, on its own device.                     *)
SinkInv ==
  /\ stage["sink"] \in {"find", "listening", "codec", "ready", "failed"}
  /\ stage["sink"] \in {"codec", "ready"} =>
       message # None /\ opened["sink"] = FromMessage(cfg["sink"])
  /\ stage["sink"] \notin {"codec", "ready"} => opened["sink"] = None

Inv == TypeOK /\ DevicesInv /\ SourceInv /\ SinkInv /\ CodecsFollow

-----------------------------------------------------------------------------
(* A short list that has what is looked for has a first.                   *)
LEMMA FirstExists ==
  ASSUME NEW S \in SUBSET (1 .. 5), S # {}
  PROVE  Min(S) \in S
<1>1. \E x \in S : \A y \in S : x <= y
  <2>1. CASE 1 \in S
    BY <2>1
  <2>2. CASE 1 \notin S /\ 2 \in S
    BY <2>2
  <2>3. CASE 1 \notin S /\ 2 \notin S /\ 3 \in S
    BY <2>3
  <2>4. CASE 1 \notin S /\ 2 \notin S /\ 3 \notin S /\ 4 \in S
    BY <2>4
  <2>5. CASE 1 \notin S /\ 2 \notin S /\ 3 \notin S /\ 4 \notin S
    <3>1. \A x \in S : x = 5
      BY <2>5
    <3>2. 5 \in S
      BY <3>1
    <3> QED BY <3>1, <3>2
  <2> QED BY <2>1, <2>2, <2>3, <2>4, <2>5
<1> QED BY <1>1 DEF Min

(* The sample format found is none or one that the device supports.        *)
LEMMA FormatFound ==
  ASSUME DevicesInv
  PROVE  find_sample_format = NoFormat \/ find_sample_format \in Formats
<1> DEFINE list == ra_prioritized_sample_formats
           S == {i \in 1 .. Len(list) : <<list[i], defaultSampleRate>> \in supports}
<1>1. find_sample_format = IF (IF S # {} THEN Min(S) ELSE 0) = 0 THEN NoFormat
                           ELSE list[IF S # {} THEN Min(S) ELSE 0]
  BY DEF find_sample_format, FirstSupported, SelectInSeq
<1>2. S \subseteq 1 .. 5
  BY DEF ra_prioritized_sample_formats
<1>3. \A i \in S : list[i] \in Formats
  BY DEF DevicesInv
<1>4. S # {} => Min(S) \in S
  BY <1>2, FirstExists
<1> HIDE DEF S, list
<1> QED BY <1>1, <1>3, <1>4

(* The rate found is none or one that the device and Opus support.         *)
LEMMA RateFound ==
  ASSUME DevicesInv, NEW fmt
  PROVE  find_sample_rate(fmt) = 0 \/ find_sample_rate(fmt) \in Rates \cap OpusRates
<1> DEFINE list == ra_prioritized_sample_rates
           S == {i \in 1 .. Len(list) : <<fmt, list[i]>> \in supports}
<1>1. find_sample_rate(fmt) = IF (IF S # {} THEN Min(S) ELSE 0) = 0 THEN 0
                              ELSE list[IF S # {} THEN Min(S) ELSE 0]
  BY DEF find_sample_rate, FirstSupported, SelectInSeq
<1>2. S \subseteq 1 .. 5
  BY DEF ra_prioritized_sample_rates
<1>3. \A i \in S : list[i] \in Rates
  BY DEF DevicesInv
<1>4. \A i \in S : list[i] \in OpusRates
  BY DEF ra_prioritized_sample_rates, OpusRates
<1>5. S # {} => Min(S) \in S
  BY <1>2, FirstExists
<1> HIDE DEF S, list
<1> QED BY <1>1, <1>3, <1>4, <1>5

-----------------------------------------------------------------------------
(* At first nothing is known and nothing is open.                          *)
LEMMA DevicesInit ==
  ASSUME Init
  PROVE  Inv
<1>1. InitialConfig \in Config /\ None \in Config
  BY AudioAssumption DEF InitialConfig, None, Config, paNoDevice, Name
<1>2. TypeOK
  BY <1>1 DEF Init, TypeOK, Side
<1>3. DevicesInv
  BY AudioAssumption DEF Init, DevicesInv, Widths
<1>4. SourceInv /\ SinkInv /\ CodecsFollow
  BY DEF Init, SourceInv, SinkInv, CodecsFollow, Side
<1> QED BY <1>2, <1>3, <1>4 DEF Inv

(* What a source that is ready opened is what Opus takes, and so is what   *)
(* the sink opens on its word.                                             *)
LEMMA OpusTakesOpened ==
  ASSUME Inv, NEW h \in Side, stage[h] = "codec"
  PROVE  OpusTakes(opened[h])
<1>1. ASSUME stage["source"] \in {"codec", "ready"}
      PROVE  OpusTakes(cfg["source"])
  <2>1. cfg["source"] \in Config
    BY DEF Inv, TypeOK, Side
  <2> QED BY <1>1, <2>1, AudioAssumption
          DEF Inv, SourceInv, OpusTakes, OpusRates, Config
<1>2. CASE h = "source"
  BY <1>1, <1>2 DEF Inv, SourceInv
<1>3. CASE h = "sink"
  <2>1. /\ stage["source"] = "ready" /\ message = cfg["source"]
        /\ opened["sink"] = FromMessage(cfg["sink"])
    BY <1>3 DEF Inv, SinkInv, SourceInv
  <2>2. /\ opened["sink"].channel_count = cfg["source"].channel_count
        /\ opened["sink"].sample_rate = cfg["source"].sample_rate
    BY <2>1 DEF FromMessage, Inv, TypeOK, Config, Side
  <2> QED BY <1>1, <1>3, <2>1, <2>2 DEF OpusTakes
<1> QED BY <1>2, <1>3 DEF Side

(* A program finds its device, or gives up.                                *)
LEMMA FindStep ==
  ASSUME Inv, NEW h \in Side, ra_audio_find_device(h)
  PROVE  Inv'
<1>0. /\ cfg \in [Side -> Config] /\ stage = [g \in Side |-> stage[g]]
      /\ stage[h] = "find" /\ DevicesInv' /\ UNCHANGED <<opened, message>>
  BY DEF Inv, TypeOK, DevicesInv, ra_audio_find_device, At, devices
<1>1. /\ \A g \in Side : g # h => cfg'[g] = cfg[g] /\ stage'[g] = stage[g]
      /\ stage'[h] \in {"failed", "format", "listening"}
      /\ stage'[h] = "format" => h = "source"
      /\ stage'[h] = "listening" => h = "sink"
  BY <1>0 DEF ra_audio_find_device, Goes, Side
<1>2. cfg' \in [Side -> Config]
  <2>1. ASSUME NEW i \in Candidates(h)
        PROVE  [cfg[h] EXCEPT !.device = i, !.channel_count = Channels(h, i)]
                 \in Config
    <3>1. i \in DOMAIN Name /\ maxChannels[h][i] \in Nat
      BY DEF Candidates, Inv, DevicesInv
    <3>2. i \in 0 .. Len(Name)
      BY <3>1 DEF Name
    <3>3. Channels(h, i) \in 0 .. MAX_CHANNELS
      BY <1>0, <3>1, AudioAssumption DEF Channels, Config
    <3> QED BY <1>0, <3>2, <3>3 DEF Config
  <2>2. CASE UNCHANGED cfg
    BY <1>0, <2>2
  <2>3. ASSUME NEW i \in Candidates(h),
               cfg' = [cfg EXCEPT ![h].device = i,
                                  ![h].channel_count = Channels(h, i)]
        PROVE  cfg' \in [Side -> Config]
    <3>1. cfg' = [cfg EXCEPT ![h] =
                    [cfg[h] EXCEPT !.device = i, !.channel_count = Channels(h, i)]]
      BY <1>0, <2>3
    <3> QED BY <1>0, <2>1, <3>1
  <2> QED BY <2>2, <2>3 DEF ra_audio_find_device
<1>3. stage' \in [Side -> {"find", "format", "rate", "open", "listening", "codec",
                           "ready", "failed", "codec failed"}]
  BY <1>1 DEF ra_audio_find_device, Goes, Inv, TypeOK
<1>4. TypeOK'
  BY <1>0, <1>2, <1>3 DEF Inv, TypeOK
<1>5. SourceInv' /\ SinkInv' /\ CodecsFollow'
  BY <1>0, <1>1
     DEF Inv, SourceInv, SinkInv, CodecsFollow, FromMessage, Side
<1> QED BY <1>0, <1>4, <1>5 DEF Inv

(* The source tries formats and rates, and opens what it settled.          *)
LEMMA SourceStep ==
  ASSUME Inv, FormatStep \/ RateStep \/ SourceOpens
  PROVE  Inv'
<1>0. /\ cfg \in [Side -> Config] /\ opened \in [Side -> Config]
      /\ {"source", "sink"} \subseteq Side
      /\ DevicesInv' /\ UNCHANGED message
  BY DEF Inv, TypeOK, DevicesInv, FormatStep, RateStep, SourceOpens, Open, devices,
         Side
<1>1. CASE FormatStep
  <2>1. /\ stage' = [stage EXCEPT !["source"] =
                       IF find_sample_format = NoFormat THEN "failed" ELSE "rate"]
        /\ cfg' = [cfg EXCEPT !["source"].sample_format = find_sample_format]
        /\ stage["source"] = "format" /\ opened' = opened
    BY <1>1 DEF FormatStep, At, Goes
  <2>2. find_sample_format \in Formats \cup {NoFormat}
    BY FormatFound DEF Inv
  <2>3. /\ cfg' \in [Side -> Config] /\ cfg'["sink"] = cfg["sink"]
        /\ cfg'["source"].sample_format = find_sample_format
    BY <1>0, <2>1, <2>2 DEF Config
  <2>4. TypeOK'
    BY <1>0, <2>1, <2>3 DEF Inv, TypeOK
  <2>5. SourceInv' /\ SinkInv' /\ CodecsFollow'
    BY <1>0, <2>1, <2>2, <2>3
       DEF Inv, TypeOK, SourceInv, SinkInv, CodecsFollow, FromMessage
  <2> QED BY <1>0, <2>4, <2>5 DEF Inv
<1>2. CASE RateStep
  <2> DEFINE rate == find_sample_rate(cfg["source"].sample_format)
  <2>1. /\ stage' = [stage EXCEPT !["source"] = IF rate = 0 THEN "failed" ELSE "open"]
        /\ cfg' = [cfg EXCEPT !["source"].sample_rate = rate]
        /\ stage["source"] = "rate" /\ opened' = opened
    BY <1>2 DEF RateStep, At, Goes
  <2>2. rate = 0 \/ rate \in Rates \cap OpusRates
    BY RateFound DEF Inv
  <2> HIDE DEF rate
  <2>3. /\ cfg' \in [Side -> Config] /\ cfg'["sink"] = cfg["sink"]
        /\ cfg'["source"].sample_rate = rate
        /\ cfg'["source"].sample_format = cfg["source"].sample_format
    BY <1>0, <2>1, <2>2 DEF Config
  <2>4. TypeOK'
    BY <1>0, <2>1, <2>3 DEF Inv, TypeOK
  <2>5. SourceInv' /\ SinkInv' /\ CodecsFollow'
    BY <1>0, <2>1, <2>2, <2>3
       DEF Inv, TypeOK, SourceInv, SinkInv, CodecsFollow, FromMessage
  <2> QED BY <1>0, <2>4, <2>5 DEF Inv
<1>3. CASE SourceOpens
  <2>1. /\ stage["source"] = "open" /\ cfg' = cfg
        /\ \/ /\ stage' = [stage EXCEPT !["source"] = "codec"]
              /\ MayOpen("source", cfg["source"])
              /\ opened' = [opened EXCEPT !["source"] = cfg["source"]]
           \/ stage' = [stage EXCEPT !["source"] = "failed"] /\ opened' = opened
    BY <1>3 DEF SourceOpens, Open, At, Goes
  <2>2. MayOpen("source", cfg["source"]) => cfg["source"].channel_count # 0
    BY DEF MayOpen
  <2>3. TypeOK'
    <3>1. cfg["source"] \in Config /\ cfg["source"].sample_format \in Formats
          /\ cfg["source"].sample_rate \in Rates
      BY <1>0, <2>1 DEF Inv, SourceInv
    <3> QED BY <1>0, <2>1, <3>1 DEF Inv, TypeOK
  <2>4. SourceInv' /\ SinkInv' /\ CodecsFollow'
    BY <1>0, <2>1, <2>2
       DEF Inv, TypeOK, SourceInv, SinkInv, CodecsFollow, FromMessage
  <2> QED BY <1>0, <2>3, <2>4 DEF Inv
<1> QED BY <1>1, <1>2, <1>3

(* A codec for what was opened, which there always is; the handshake; and  *)
(* the sink's stream.                                                      *)
LEMMA SessionStep ==
  ASSUME Inv,
         \/ \E h \in Side : CreateCodec(h)
         \/ create_handshake_message
         \/ audio_stream_open
  PROVE  Inv'
<1>0. /\ cfg \in [Side -> Config] /\ opened \in [Side -> Config]
      /\ {"source", "sink"} \subseteq Side
      /\ DevicesInv' /\ cfg' = cfg
  BY DEF Inv, TypeOK, DevicesInv, CreateCodec, create_handshake_message,
         audio_stream_open, Open, devices, Side
<1>1. ASSUME NEW h \in Side, CreateCodec(h)
      PROVE  Inv'
  <2>1. /\ stage' = [stage EXCEPT ![h] = "ready"] /\ stage[h] = "codec"
        /\ UNCHANGED <<opened, message>>
    BY <1>1, OpusTakesOpened DEF CreateCodec, At, Goes
  <2>2. TypeOK'
    BY <1>0, <2>1 DEF Inv, TypeOK
  <2>3. SourceInv' /\ SinkInv' /\ CodecsFollow'
    BY <1>0, <2>1
       DEF Inv, TypeOK, SourceInv, SinkInv, CodecsFollow, FromMessage, Side
  <2> QED BY <1>0, <2>2, <2>3 DEF Inv
<1>2. CASE create_handshake_message
  <2>1. /\ stage["source"] = "ready" /\ message = None
        /\ message' = cfg["source"] /\ UNCHANGED <<stage, opened>>
    BY <1>2 DEF create_handshake_message, At
  <2>2. TypeOK'
    BY <1>0, <2>1 DEF Inv, TypeOK
  <2>3. SourceInv' /\ SinkInv' /\ CodecsFollow'
    BY <1>0, <2>1 DEF Inv, SourceInv, SinkInv, CodecsFollow
  <2> QED BY <1>0, <2>2, <2>3 DEF Inv
<1>3. CASE audio_stream_open
  <2> DEFINE a == FromMessage(cfg["sink"])
  <2>1. /\ stage["sink"] = "listening" /\ message # None /\ message' = message
        /\ \/ /\ stage' = [stage EXCEPT !["sink"] = "codec"]
              /\ opened' = [opened EXCEPT !["sink"] = a]
           \/ stage' = [stage EXCEPT !["sink"] = "failed"] /\ opened' = opened
    BY <1>3 DEF audio_stream_open, Open, At, Goes
  <2>2. /\ a \in Config /\ a.sample_format \in Formats /\ a.sample_rate \in Rates
    <3>1. message \in Config /\ cfg["sink"].device \in 0 .. Len(Name)
      BY <1>0 DEF Inv, TypeOK, Config
    <3>2. message.sample_format \in Formats /\ message.sample_rate \in Rates
      BY <2>1 DEF Inv, SourceInv
    <3> QED BY <3>1, <3>2 DEF FromMessage, Config
  <2>3. TypeOK'
    <3> HIDE DEF a
    <3>1. CASE UNCHANGED opened
      BY <1>0, <2>1, <3>1 DEF Inv, TypeOK
    <3>2. CASE opened' = [opened EXCEPT !["sink"] = a]
      <4>1. opened' \in [Side -> Config]
        BY <1>0, <2>2, <3>2
      <4>2. \A h \in Side : opened'[h] # None =>
              opened'[h].sample_format \in Formats /\ opened'[h].sample_rate \in Rates
        BY <1>0, <2>2, <3>2 DEF Inv, TypeOK
      <4>3. stage' \in [Side -> {"find", "format", "rate", "open", "listening",
                                 "codec", "ready", "failed", "codec failed"}]
        BY <2>1 DEF Inv, TypeOK
      <4> QED BY <1>0, <2>1, <4>1, <4>2, <4>3 DEF Inv, TypeOK
    <3> QED BY <2>1, <3>1, <3>2
  <2>4. SourceInv' /\ SinkInv' /\ CodecsFollow'
    BY <1>0, <2>1
       DEF Inv, TypeOK, SourceInv, SinkInv, CodecsFollow, FromMessage, Side
  <2> QED BY <1>0, <2>3, <2>4 DEF Inv
<1> QED BY <1>1, <1>2, <1>3

(* Every step keeps the invariant.                                         *)
LEMMA DevicesStep ==
  ASSUME Inv, [Next]_vars
  PROVE  Inv'
<1>1. CASE UNCHANGED vars
  BY <1>1 DEF vars, Inv, TypeOK, DevicesInv, SourceInv, SinkInv, CodecsFollow,
              FromMessage
<1> QED BY <1>1, FindStep, SourceStep, SessionStep DEF Next, Done

(* And so it always holds.                                                 *)
LEMMA DevicesInvariance == Spec => []Inv
BY DevicesInit, DevicesStep, PTL DEF Spec

(* Whatever formats and rates a device supports, a source that gets as far *)
(* as an open stream has one that Opus can encode, and the sink one that   *)
(* it can decode (ra_audio_create_stream, audio_stream_open).              *)
THEOREM CodecsFollowCorrect == Spec => []CodecsFollow
BY DevicesInvariance, PTL DEF Inv

(* Whatever devices the two have, a sink that opens a stream for a source  *)
(* opens it with the source's channels, format and rate                    *)
(* (create_handshake_message, handle_handshake_init).                      *)
THEOREM BothEndsAgreeCorrect == Spec => []BothEndsAgree
<1>1. Inv => BothEndsAgree
  <2> SUFFICES ASSUME Inv, opened["sink"] # None
               PROVE  opened["sink"] = [opened["source"] EXCEPT
                                          !.device = cfg["sink"].device]
    BY DEF BothEndsAgree
  <2>1. opened["source"] = message /\ opened["sink"] = FromMessage(cfg["sink"])
    BY DEF Inv, SinkInv, SourceInv
  <2> QED BY <2>1 DEF FromMessage
<1> QED BY <1>1, DevicesInvariance, PTL

-----------------------------------------------------------------------------
(* The words of the files and of the parser itself.                        *)
Words ==
  {"[", "]", "=", EOL, SP, QUOTE, BACKSLASH, "sink", "source", "port", "21500",
   "host", "device", "CABLE", "Input", "VB", "Cable", "?", DEFAULT_SECTION, "NULL"}
Strings == Seq(Words)

(* The lists that are parsed.                                              *)
Entry == [key : Strings, value : Strings]
Sec == [name : Strings, entries : Seq(Entry)]
Sections == Seq(Sec)

(* The list of sections: a chunk is entered again at section_tail, and not *)
(* behind it unless it was torn.                                           *)
LinkInv ==
  /\ section \in Sections
  /\ prev \in {0, Len(section)} /\ (~torn => prev = Len(section))
  /\ flag \in {3, 4, 5} /\ entry => prev # 0 /\ section[prev].entries # <<>>

(* What was parsed is what the first n lines mean.                         *)
Means(n) == Sound(n) => section = Meaning[n]

(* The key of line n + 1 is behind what the lines before it mean, and      *)
(* waits for its value.                                                    *)
Begun(t) == IF t = <<>> THEN <<Section(<<DEFAULT_SECTION>>)>> ELSE t
Keyed(n) ==
  Sound(n) => entry /\ section = WithEntry(Begun(Meaning[n]), file[n + 1].key)

(* Where a line has its key, from b to before e, and its value, from v to  *)
(* before w; without a value there is no w.                                *)
EndOf(t, v) == IF t[v] = QUOTE THEN QUOTE ELSE EOL
StartOf(t, v) == IF t[v] = QUOTE THEN v + 1 ELSE v
Landmarks(line, b, e, v, w) ==
  LET t == line.text
  IN /\ 1 <= b /\ b < e /\ e < v /\ v < w
     /\ \A i \in 1 .. b - 1 : t[i] \in Blank
     /\ t[b] \notin Blank \cup {"["}
     /\ \A i \in b .. e - 1 : t[i] # "="
     /\ t[e] = "="
     /\ \A i \in e + 1 .. v - 1 : t[i] = SP
     /\ t[v] # SP
     /\ strstrip(SubSeq(t, b, e - 1)) = line.key
     /\ \/ line.value = <<>> /\ v = Len(t) /\ t[v] = EOL /\ w = v + 1
        \/ /\ line.value # <<>> /\ w <= Len(t)
           /\ StartOf(t, v) < w
           /\ t[v] = QUOTE \/ t[v] # EOL
           /\ \A i \in v + 1 .. w - 1 : t[i] # EndOf(t, v)
           /\ t[w] = EndOf(t, v)
           /\ \A i \in w + 1 .. Len(t) : t[i] \in Blank
           /\ string_unescape(strstrip(SubSeq(t, StartOf(t, v), w - 1))) = line.value

(* Where the parser is after k characters of line n + 1.                   *)
Starts(n, k) == k = 0 /\ flag = 0 /\ Means(n)
Swallows(n) == n # 0 /\ NoValue(n) /\ flag = 4

InSection(n, k) ==
  /\ "section" \in DOMAIN file[n + 1]
  /\ \/ k = 2 /\ flag = 1 /\ (torn \/ q = Ends[n] + 2) /\ Means(n)
     \/ k = 3 /\ flag = 0 /\ Means(n + 1)

InEntry(n, k, b, e, v, w) ==
  LET t == file[n + 1].text
  IN \/ k < b /\ flag = 0 /\ Means(n)
     \/ b <= k /\ k < e /\ flag = 2 /\ (torn \/ q = Ends[n] + b) /\ Means(n)
     \/ e <= k /\ k < v /\ flag = 3 /\ Keyed(n)
     \/ /\ v <= k /\ k < w /\ flag = (IF t[v] = QUOTE THEN 5 ELSE 4)
        /\ (torn \/ q = Ends[n] + StartOf(t, v)) /\ Keyed(n)
     \/ w <= k /\ flag = 0 /\ Means(n + 1)

Within(n, k) ==
  /\ n < Len(file) /\ k < Len(file[n + 1].text)
  /\ \/ Swallows(n)
     \/ InSection(n, k)
     \/ /\ "key" \in DOMAIN file[n + 1]
        /\ \E b, e, v, w \in 1 .. Len(file[n + 1].text) + 1 :
             Landmarks(file[n + 1], b, e, v, w) /\ InEntry(n, k, b, e, v, w)

Place(n, k) == /\ p = Ends[n] + k
               /\ \/ Starts(n, k)
                  \/ k = 0 /\ Swallows(n)
                  \/ k # 0 /\ Within(n, k)

PlaceInv == \E n \in 0 .. Len(file) : \E k \in Nat : Place(n, k)

-----------------------------------------------------------------------------
(* Numbers and recursive functions.                                        *)

(* A set of numbers has a least one.                                       *)
LEMMA Least ==
  ASSUME NEW S \in SUBSET Nat, S # {}
  PROVE  \E m \in S : \A k \in S : m <= k
<1>1. PICK m \in S : \A k \in S : ~(<<k, m>> \in OpToRel(<, Nat))
  BY NatLessThanWellFounded, WFMin
<1>2. \A k \in S : ~(k < m)
  BY <1>1 DEF OpToRel
<1> QED BY <1>2

(* Induction over an interval, for the set of numbers that have the        *)
(* property.                                                               *)
LEMMA Induction ==
  ASSUME NEW a \in Nat, NEW N \in Nat, NEW S, a \in S,
         \A n \in a .. N : n \in S /\ n < N => n + 1 \in S
  PROVE  \A n \in a .. N : n \in S
<1> DEFINE Bad == {n \in a .. N : n \notin S}
<1>1. SUFFICES ASSUME Bad # {} PROVE FALSE
  OBVIOUS
<1>2. Bad \in SUBSET Nat
  OBVIOUS
<1>3. \E m \in Bad : \A k \in Bad : m <= k
  <2> HIDE DEF Bad
  <2> QED BY <1>1, <1>2, Least
<1>4. PICK m \in Bad : \A k \in Bad : m <= k
  BY <1>3
<1>5. m \in a .. N /\ m # a
  OBVIOUS
<1>6. m - 1 \in a .. N /\ m - 1 < N /\ m - 1 + 1 = m
  BY <1>5
<1>7. m - 1 \notin Bad
  BY <1>2, <1>4, <1>5, <1>6
<1>8. m - 1 \in S
  BY <1>6, <1>7
<1> QED BY <1>6, <1>8

(* A function defined by recursion over an interval: step[n] takes its     *)
(* value at n - 1 to that at n.                                            *)
Solution(N, T, base, step) ==
  \E g \in [0 .. N -> T] :
    g[0] = base /\ \A n \in 1 .. N : g[n] = step[n][g[n - 1]]

(* There is such a function.                                               *)
LEMMA Recursion ==
  ASSUME NEW N \in Nat, NEW T, NEW base \in T,
         NEW step, \A n \in 1 .. N : step[n] \in [T -> T]
  PROVE  Solution(N, T, base, step)
<1> DEFINE Fits(g, m) == g[0] = base /\ \A n \in 1 .. m : g[n] = step[n][g[n - 1]]
           S == {m \in 0 .. N : \E g \in [0 .. m -> T] : Fits(g, m)}
<1>1. 0 \in S
  <2> DEFINE h == [n \in 0 .. 0 |-> base]
  <2>1. h \in [0 .. 0 -> T] /\ h[0] = base
    OBVIOUS
  <2>2. Fits(h, 0)
    BY <2>1
  <2> HIDE DEF h, Fits
  <2> QED BY <2>1, <2>2
<1>2. ASSUME NEW m \in 0 .. N, m \in S, m < N
      PROVE  m + 1 \in S
  <2>1. PICK g \in [0 .. m -> T] : Fits(g, m)
    BY <1>2
  <2> DEFINE last == step[m + 1][g[m]]
             h == [n \in 0 .. m + 1 |-> IF n <= m THEN g[n] ELSE last]
  <2>2. last \in T
    <3>1. m + 1 \in 1 .. N /\ m \in 0 .. m
      BY <1>2
    <3>2. step[m + 1] \in [T -> T] /\ g[m] \in T
      BY <3>1
    <3> QED BY <3>2
  <2>3. h \in [0 .. m + 1 -> T] /\ h[0] = base
    <3> HIDE DEF last
    <3>1. \A n \in 0 .. m + 1 : n <= m => n \in 0 .. m
      OBVIOUS
    <3> QED BY <2>1, <2>2, <3>1
  <2>4. ASSUME NEW n \in 1 .. m + 1
        PROVE  h[n] = step[n][h[n - 1]]
    <3>1. CASE n <= m
      <4>1. h[n] = g[n] /\ h[n - 1] = g[n - 1] /\ n \in 1 .. m
        BY <3>1
      <4> QED BY <2>1, <4>1
    <3>2. CASE n = m + 1
      <4>1. h[n] = last /\ h[n - 1] = g[m]
        BY <3>2
      <4> QED BY <3>2, <4>1
    <3> QED BY <3>1, <3>2
  <2> HIDE DEF h
  <2>5. Fits(h, m + 1)
    BY <2>3, <2>4
  <2>6. m + 1 \in 0 .. N
    BY <1>2
  <2> HIDE DEF Fits
  <2> QED BY <2>3, <2>5, <2>6
<1>3. \A n \in 0 .. N : n \in S
  <2> HIDE DEF S
  <2> QED BY <1>1, <1>2, Induction
<1>4. N \in S
  BY <1>3
<1> QED BY <1>4 DEF Solution

-----------------------------------------------------------------------------
(* Strings: what strstrip and string_unescape make of them.                *)

(* A set of bounded numbers has a greatest one.                            *)
LEMMA Greatest ==
  ASSUME NEW N \in Nat, NEW S \in SUBSET (0 .. N), S # {}
  PROVE  Max(S) \in S /\ \A k \in S : k <= Max(S)
<1> DEFINE R == {N - i : i \in S}
<1>1. R \in SUBSET Nat /\ R # {}
  <2>1. \A i \in S : N - i \in Nat
    OBVIOUS
  <2> QED BY <2>1
<1>2. PICK m \in R : \A k \in R : m <= k
  <2> HIDE DEF R
  <2> QED BY <1>1, Least
<1>3. PICK i \in S : m = N - i
  BY <1>2
<1>4. \A k \in S : i >= k
  <2> TAKE k \in S
  <2>1. m <= N - k
    BY <1>2
  <2> QED BY <1>3, <2>1
<1>5. Max(S) \in S /\ \A k \in S : Max(S) >= k
  BY <1>4 DEF Max
<1> QED BY <1>5

(* What strstrip leaves ends with the last character that is not blank.    *)
LEMMA Stripped ==
  ASSUME NEW s \in Strings
  PROVE  /\ strstrip(s) \in Strings
         /\ \A n \in 1 .. Len(s) :
              s[n] \notin Blank /\ (\A i \in n + 1 .. Len(s) : s[i] \in Blank)
                => strstrip(s) = SubSeq(s, 1, n)
<1> DEFINE I == {i \in 1 .. Len(s) : s[i] \notin Blank}
           last == IF I # {} THEN Max(I) ELSE 0
<1>1. strstrip(s) = IF last = 0 THEN s ELSE SubSeq(s, 1, last)
  BY DEF strstrip, SelectLastInSeq
<1>2. Len(s) \in Nat /\ I \in SUBSET (0 .. Len(s))
  BY DEF Strings
<1>3. I # {} => last \in I /\ \A k \in I : k <= last
  <2> HIDE DEF I
  <2> QED BY <1>2, Greatest
<1>4. strstrip(s) \in Strings
  <2>1. CASE I = {}
    BY <1>1, <2>1
  <2>2. CASE I # {}
    <3>1. last \in 1 .. Len(s) /\ last # 0
      BY <1>3, <2>2
    <3> HIDE DEF last
    <3>2. SubSeq(s, 1, last) \in Seq(Words)
      BY <3>1 DEF Strings
    <3> QED BY <1>1, <3>1, <3>2 DEF Strings
  <2> QED BY <2>1, <2>2
<1>5. ASSUME NEW n \in 1 .. Len(s), s[n] \notin Blank,
             \A i \in n + 1 .. Len(s) : s[i] \in Blank
      PROVE  strstrip(s) = SubSeq(s, 1, n)
  <2>1. n \in I /\ I # {}
    BY <1>5
  <2>2. last \in I /\ n <= last
    BY <1>3, <2>1
  <2>3. last \in 1 .. Len(s) /\ s[last] \notin Blank
    BY <2>2
  <2> HIDE DEF last, I
  <2>4. ~(last \in n + 1 .. Len(s))
    BY <1>5, <2>3
  <2>5. last = n /\ last # 0
    BY <1>2, <2>2, <2>3, <2>4
  <2> QED BY <1>1, <2>5
<1> QED BY <1>4, <1>5

(* A short sequence is spelled out by its elements.                        *)
LEMMA Spelled ==
  ASSUME NEW S, NEW s \in Seq(S)
  PROVE  /\ Len(s) = 0 => s = <<>>
         /\ Len(s) = 1 => s = <<s[1]>>
         /\ Len(s) = 2 => s = <<s[1], s[2]>>
         /\ Len(s) = 3 => s = <<s[1], s[2], s[3]>>
OBVIOUS

(* Short sequences of elements of a set.                                   *)
LEMMA ShortSeq ==
  ASSUME NEW S
  PROVE  /\ <<>> \in Seq(S)
         /\ \A a \in S : <<a>> \in Seq(S) /\ Len(<<a>>) = 1 /\ <<a>>[1] = a
         /\ \A a, b, d \in S : <<a, b, d>> \in Seq(S) /\ Len(<<a, b, d>>) = 3
OBVIOUS

(* string_unescape goes through a string character by character.           *)
Keep(x, w) == IF w = BACKSLASH THEN x ELSE Append(x, w)

(* What string_unescape returns is reached one character at a time.        *)
LEMMA Unescaped ==
  ASSUME NEW s \in Strings
  PROVE  \E kept \in [0 .. Len(s) -> Strings] :
           /\ kept[0] = <<>> /\ string_unescape(s) = kept[Len(s)]
           /\ \A i \in 1 .. Len(s) : kept[i] = Keep(kept[i - 1], s[i])
<1> DEFINE N == Len(s)
           step == [i \in 1 .. N |-> [x \in Strings |-> Keep(x, s[i])]]
           Fits(g) == g = [i \in 0 .. N |-> IF i = 0 THEN <<>> ELSE
                             IF s[i] = BACKSLASH THEN g[i - 1]
                             ELSE Append(g[i - 1], s[i])]
           kept == CHOOSE g : Fits(g)
<1>0. N \in Nat /\ (\A i \in 1 .. N : s[i] \in Words) /\ <<>> \in Strings
  BY ShortSeq DEF Strings
<1>1. \A x \in Strings : \A i \in 1 .. N : Keep(x, s[i]) \in Strings
  BY <1>0, AppendProperties DEF Strings, Keep
<1>2. \A i \in 1 .. N : step[i] \in [Strings -> Strings]
  BY <1>1
<1>3. Solution(N, Strings, <<>>, step)
  <2> HIDE DEF step, N
  <2> QED BY <1>0, <1>2, Recursion
<1>4. PICK g \in [0 .. N -> Strings] :
        g[0] = <<>> /\ \A i \in 1 .. N : g[i] = step[i][g[i - 1]]
  BY <1>3 DEF Solution
<1>5. \A i \in 1 .. N : g[i] = Keep(g[i - 1], s[i])
  <2> TAKE i \in 1 .. N
  <2>1. g[i - 1] \in Strings
    BY <1>0, <1>4
  <2>2. step[i][g[i - 1]] = Keep(g[i - 1], s[i])
    BY <2>1
  <2> QED BY <1>4, <2>2
<1>6. Fits(g)
  <2>1. \A i \in 0 .. N : g[i] = IF i = 0 THEN <<>> ELSE
                             IF s[i] = BACKSLASH THEN g[i - 1]
                             ELSE Append(g[i - 1], s[i])
    <3>1. \A i \in 0 .. N : i = 0 \/ i \in 1 .. N
      BY <1>0
    <3> QED BY <1>4, <1>5, <3>1 DEF Keep
  <2>2. g = [i \in 0 .. N |-> g[i]]
    BY <1>4
  <2> QED BY <2>1, <2>2
<1>7. Fits(kept)
  <2> HIDE DEF Fits
  <2> QED BY <1>6
<1>8. string_unescape(s) = kept[N]
  BY DEF string_unescape
<1> HIDE DEF kept
<1>9. kept[0] = <<>> /\ \A i \in 1 .. N : kept[i] = Keep(kept[i - 1], s[i])
  <2>1. \A i \in 0 .. N : kept[i] = IF i = 0 THEN <<>> ELSE
                                     IF s[i] = BACKSLASH THEN kept[i - 1]
                                     ELSE Append(kept[i - 1], s[i])
    BY <1>7
  <2>2. \A i \in 1 .. N : i \in 0 .. N /\ i # 0
    BY <1>0
  <2> QED BY <1>0, <2>1, <2>2 DEF Keep
<1>10. \A i \in 0 .. N : kept[i] \in Strings
  <2> DEFINE S == {i \in 0 .. N : kept[i] \in Strings}
  <2>1. 0 \in S
    BY <1>0, <1>9
  <2>2. ASSUME NEW i \in 0 .. N, i \in S, i < N
        PROVE  i + 1 \in S
    <3>1. i + 1 \in 1 .. N /\ i + 1 \in 0 .. N /\ (i + 1) - 1 = i
      BY <1>0, <2>2
    <3>2. kept[i + 1] = Keep(kept[i], s[i + 1])
      BY <1>9, <3>1
    <3> QED BY <1>1, <2>2, <3>1, <3>2
  <2>3. \A i \in 0 .. N : i \in S
    <3> HIDE DEF S, N
    <3> QED BY <1>0, <2>1, <2>2, Induction
  <2> QED BY <2>3
<1>11. kept \in [0 .. N -> Strings]
  <2>1. kept = [i \in 0 .. N |-> kept[i]]
    BY <1>7
  <2> QED BY <1>10, <2>1
<1> QED BY <1>8, <1>9, <1>11

(* So it takes the backslash from between two other words.                 *)
LEMMA ShortUnescaped ==
  /\ \A a \in Words : a # BACKSLASH => string_unescape(<<a>>) = <<a>>
  /\ \A a, b, d \in Words : a # BACKSLASH /\ d # BACKSLASH =>
       string_unescape(<<a, b, d>>) =
         IF b = BACKSLASH THEN <<a, d>> ELSE <<a, b, d>>
<1> USE DEF Strings
<1>1. ASSUME NEW a \in Words, a # BACKSLASH
      PROVE  string_unescape(<<a>>) = <<a>>
  <2> DEFINE s == <<a>>
  <2>0. s \in Strings /\ Len(s) = 1 /\ s[1] = a
    BY ShortSeq
  <2> HIDE DEF s
  <2>1. PICK kept \in [0 .. 1 -> Strings] :
          /\ kept[0] = <<>> /\ string_unescape(s) = kept[1]
          /\ \A i \in 1 .. 1 : kept[i] = Keep(kept[i - 1], s[i])
    BY <2>0, Unescaped
  <2>2. kept[1] = Keep(<<>>, a)
    BY <2>0, <2>1
  <2>3. kept[1] = Append(<<>>, a)
    BY <1>1, <2>2 DEF Keep
  <2> QED BY <2>1, <2>3 DEF s
<1>2. ASSUME NEW a \in Words, NEW b \in Words, NEW d \in Words,
             a # BACKSLASH, d # BACKSLASH
      PROVE  string_unescape(<<a, b, d>>) =
               IF b = BACKSLASH THEN <<a, d>> ELSE <<a, b, d>>
  <2> DEFINE s == <<a, b, d>>
  <2>0. s \in Strings /\ Len(s) = 3 /\ s[1] = a /\ s[2] = b /\ s[3] = d
    BY ShortSeq
  <2> HIDE DEF s
  <2>1. PICK kept \in [0 .. 3 -> Strings] :
          /\ kept[0] = <<>> /\ string_unescape(s) = kept[3]
          /\ \A i \in 1 .. 3 : kept[i] = Keep(kept[i - 1], s[i])
    BY <2>0, Unescaped
  <2>2. /\ kept[1] = Keep(<<>>, a)
        /\ kept[2] = Keep(kept[1], b) /\ kept[3] = Keep(kept[2], d)
    BY <2>0, <2>1
  <2>3. kept[1] = <<a>>
    BY <1>2, <2>2 DEF Keep
  <2>4. kept[2] \in Seq(Words) /\ kept[3] = Append(kept[2], d)
    BY <1>2, <2>1, <2>2 DEF Keep
  <2>5. kept[3] \in Seq(Words) /\ Len(kept[3]) = Len(kept[2]) + 1
        /\ kept[3][Len(kept[2]) + 1] = d
        /\ \A i \in 1 .. Len(kept[2]) : kept[3][i] = kept[2][i]
    BY <2>4, AppendProperties
  <2>6. CASE b = BACKSLASH
    <3>1. kept[2] = <<a>>
      BY <2>2, <2>3, <2>6 DEF Keep
    <3>2. Len(kept[3]) = 2 /\ kept[3][1] = a /\ kept[3][2] = d
      BY <2>5, <3>1, ShortSeq
    <3> QED BY <2>1, <2>5, <2>6, <3>2, Spelled DEF s
  <2>7. CASE b # BACKSLASH
    <3>1. kept[2] = Append(<<a>>, b)
      BY <2>2, <2>3, <2>7 DEF Keep
    <3>2. Len(kept[2]) = 2 /\ kept[2][1] = a /\ kept[2][2] = b
      BY <3>1, AppendProperties, ShortSeq
    <3>3. Len(kept[3]) = 3 /\ kept[3][1] = a /\ kept[3][2] = b /\ kept[3][3] = d
      BY <2>5, <3>2
    <3> QED BY <2>1, <2>5, <2>7, <3>3, Spelled DEF s
  <2> QED BY <2>6, <2>7
<1> QED BY <1>1, <1>2

(* What strstrip leaves of short strings.                                  *)
LEMMA ShortStripped ==
  /\ \A a \in Words : a \notin Blank => strstrip(<<a>>) = <<a>>
  /\ \A a \in Words : a \notin Blank => strstrip(<<a, SP>>) = <<a>>
  /\ \A a, b, d \in Words : d \notin Blank => strstrip(<<a, b, d>>) = <<a, b, d>>
<1> USE DEF Strings
<1>1. ASSUME NEW a \in Words, a \notin Blank
      PROVE  strstrip(<<a>>) = <<a>>
  <2> DEFINE s == <<a>>
  <2>0. s \in Strings /\ Len(s) = 1 /\ s[1] = a
    BY ShortSeq
  <2> HIDE DEF s
  <2>1. strstrip(s) = SubSeq(s, 1, 1)
    <3>1. \A i \in 1 + 1 .. Len(s) : s[i] \in Blank
      BY <2>0
    <3> QED BY <1>1, <2>0, <3>1, Stripped
  <2>2. SubSeq(s, 1, 1) = s
    BY <2>0, SubSeqFull
  <2> QED BY <2>1, <2>2 DEF s
<1>2. ASSUME NEW a \in Words, a \notin Blank
      PROVE  strstrip(<<a, SP>>) = <<a>>
  <2> DEFINE s == <<a, SP>>
  <2>0. s \in Strings /\ Len(s) = 2 /\ s[1] = a /\ s[2] = SP
    BY ShortSeq DEF Words
  <2> HIDE DEF s
  <2>1. strstrip(s) = SubSeq(s, 1, 1)
    <3>1. \A i \in 1 + 1 .. Len(s) : s[i] \in Blank
      BY <2>0 DEF Blank
    <3>2. 1 \in 1 .. Len(s) /\ s[1] \notin Blank
      BY <1>2, <2>0
    <3> HIDE DEF Strings
    <3> QED BY <2>0, <3>1, <3>2, Stripped
  <2>2. /\ SubSeq(s, 1, 1) \in Seq(Words) /\ Len(SubSeq(s, 1, 1)) = 1
        /\ SubSeq(s, 1, 1)[1] = a
    BY <2>0
  <2> QED BY <2>1, <2>2, Spelled DEF s
<1>3. ASSUME NEW a \in Words, NEW b \in Words, NEW d \in Words, d \notin Blank
      PROVE  strstrip(<<a, b, d>>) = <<a, b, d>>
  <2> DEFINE s == <<a, b, d>>
  <2>0. s \in Strings /\ Len(s) = 3 /\ s[3] = d
    BY ShortSeq
  <2> HIDE DEF s
  <2>1. strstrip(s) = SubSeq(s, 1, 3)
    <3>1. \A i \in 3 + 1 .. Len(s) : s[i] \in Blank
      BY <2>0
    <3>2. 3 \in 1 .. Len(s) /\ s[3] \notin Blank
      BY <1>3, <2>0
    <3> HIDE DEF Strings
    <3> QED BY <2>0, <3>1, <3>2, Stripped
  <2>2. SubSeq(s, 1, 3) = s
    BY <2>0, SubSeqFull
  <2> QED BY <2>1, <2>2 DEF s
<1> QED BY <1>1, <1>2, <1>3

(* The characters of the lines.                                            *)
LEMMA LineText ==
  ASSUME NEW L \in Lines
  PROVE  /\ L.text \in Strings /\ Len(L.text) \in Nat /\ Len(L.text) >= 1
         /\ L.text[Len(L.text)] = EOL
         /\ \A i \in 1 .. Len(L.text) - 1 : L.text[i] # EOL
         /\ "section" \in DOMAIN L =>
              /\ L.section \in Words \ Blank
              /\ L.text = <<"[", L.section, "]", EOL>>
         /\ "key" \in DOMAIN L => L.key \in Strings /\ L.value \in Strings
         /\ ~("key" \in DOMAIN L /\ "section" \in DOMAIN L)
         /\ "key" \notin DOMAIN L /\ "section" \notin DOMAIN L => L.text = <<EOL>>
<1> USE DEF Words, EOL, SP, QUOTE, BACKSLASH, Strings, Blank
<1> DEFINE Text == /\ L.text \in Seq(Words) /\ Len(L.text) \in Nat /\ Len(L.text) >= 1
                   /\ L.text[Len(L.text)] = EOL
                   /\ \A i \in 1 .. Len(L.text) - 1 : L.text[i] # EOL
           IsKey == "key" \in DOMAIN L /\ "section" \notin DOMAIN L
                    /\ L.key \in Seq(Words) /\ L.value \in Seq(Words)
<1>1. CASE L = [text |-> <<EOL>>]
  BY <1>1
<1>2. ASSUME NEW s \in {"sink", "source"}, L = SectionLine(s)
      PROVE  /\ Text /\ L.text = <<"[", s, "]", EOL>> /\ L.section = s
             /\ "section" \in DOMAIN L /\ "key" \notin DOMAIN L
  BY <1>2 DEF SectionLine
<1>3. CASE L = EntryLine(<<"port", "=", EOL>>, "port", <<>>)
  <2>1. Text /\ IsKey
    BY <1>3 DEF EntryLine
  <2> QED BY <2>1
<1>4. CASE L = EntryLine(<<"port", "=", "21500", EOL>>, "port", <<"21500">>)
  <2>1. Text /\ IsKey
    BY <1>4 DEF EntryLine
  <2> QED BY <2>1
<1>5. CASE L = EntryLine(<<SP, "host", SP, "=", SP, "sink", SP, EOL>>, "host",
                         <<"sink">>)
  <2>1. Text /\ IsKey
    BY <1>5 DEF EntryLine
  <2> QED BY <2>1
<1>6. CASE L = EntryLine(<<"device", "=", QUOTE, "CABLE", SP, "Input", QUOTE, SP,
                           EOL>>, "device", <<"CABLE", SP, "Input">>)
  <2>1. Text /\ IsKey
    BY <1>6 DEF EntryLine
  <2> QED BY <2>1
<1>7. CASE L = EntryLine(<<"device", "=", "VB", BACKSLASH, "Cable", EOL>>, "device",
                         <<"VB", "Cable">>)
  <2>1. Text /\ IsKey
    BY <1>7 DEF EntryLine
  <2> QED BY <2>1
<1>8. CASE L \in {SectionLine("sink"), SectionLine("source")}
  <2>1. PICK s \in {"sink", "source"} : L = SectionLine(s)
    BY <1>8
  <2> QED BY <1>2, <2>1
<1> QED BY <1>1, <1>3, <1>4, <1>5, <1>6, <1>7, <1>8 DEF Lines

-----------------------------------------------------------------------------
(* Lines of keys.                                                          *)

(* A part of one, two or three characters of a line.                       *)
LEMMA Part ==
  ASSUME NEW t \in Strings, NEW i \in 1 .. Len(t), NEW j \in 1 .. Len(t), i <= j
  PROVE  /\ j = i => SubSeq(t, i, j) = <<t[i]>>
         /\ j = i + 1 => SubSeq(t, i, j) = <<t[i], t[i + 1]>>
         /\ j = i + 2 => SubSeq(t, i, j) = <<t[i], t[i + 1], t[i + 2]>>
<1> DEFINE s == SubSeq(t, i, j)
<1>1. /\ Len(t) \in Nat /\ i \in Int /\ j \in Int /\ i <= j
      /\ \A m \in i .. j : t[m] \in Words
  BY DEF Strings
<1>2. /\ s \in Seq(Words) /\ Len(s) = j - i + 1
      /\ \A m \in 1 .. j - i + 1 : s[m] = t[i + m - 1]
  BY <1>1, SubSeqProperties
<1> HIDE DEF s
<1>3. CASE j = i
  <2>1. Len(s) = 1 /\ s[1] = t[i]
    BY <1>1, <1>2, <1>3
  <2>2. s = <<s[1]>>
    BY <1>2, <2>1, Spelled
  <2> QED BY <1>3, <2>1, <2>2 DEF s
<1>4. CASE j = i + 1
  <2>0. /\ 1 \in 1 .. j - i + 1 /\ i + 1 - 1 = i
        /\ 2 \in 1 .. j - i + 1 /\ i + 2 - 1 = i + 1
    BY <1>1, <1>4
  <2>1. Len(s) = 2 /\ s[1] = t[i] /\ s[2] = t[i + 1]
    <3>1. Len(s) = 2
      BY <1>1, <1>2, <1>4
    <3>2. s[1] = t[i + 1 - 1] /\ s[2] = t[i + 2 - 1]
      BY <1>2, <2>0
    <3> QED BY <2>0, <3>1, <3>2
  <2>2. s = <<s[1], s[2]>>
    BY <1>2, <2>1, Spelled
  <2> QED BY <1>4, <2>1, <2>2 DEF s
<1>5. CASE j = i + 2
  <2>0. /\ 1 \in 1 .. j - i + 1 /\ i + 1 - 1 = i
        /\ 2 \in 1 .. j - i + 1 /\ i + 2 - 1 = i + 1
        /\ 3 \in 1 .. j - i + 1 /\ i + 3 - 1 = i + 2
    BY <1>1, <1>5
  <2>1. Len(s) = 3 /\ s[1] = t[i] /\ s[2] = t[i + 1] /\ s[3] = t[i + 2]
    BY <1>1, <1>2, <1>5, <2>0
  <2>2. s = <<s[1], s[2], s[3]>>
    BY <1>2, <2>1, Spelled
  <2> QED BY <1>5, <2>1, <2>2 DEF s
<1> QED BY <1>3, <1>4, <1>5 DEF s

(* The words that are parts of strings.                                    *)
Plain == Words \ {"[", "]", "=", EOL, SP, QUOTE, BACKSLASH}

(* None of them is a blank or a backslash.                                 *)
LEMMA PlainWords ==
  /\ {"port", "21500", "host", "sink", "device", "CABLE", "Input", "VB", "Cable"}
       \subseteq Plain
  /\ Plain \subseteq Words /\ Plain \cap Blank = {} /\ BACKSLASH \notin Plain
  /\ SP \in Words /\ BACKSLASH \in Words
BY DEF Plain, Words, Blank, EOL, SP, QUOTE, BACKSLASH

(* Their strings, as the parser takes them.                                *)
LEMMA PlainStrings ==
  ASSUME NEW a \in Plain, NEW b \in {SP, BACKSLASH}, NEW d \in Plain
  PROVE  /\ strstrip(<<a>>) = <<a>> /\ strstrip(<<a, SP>>) = <<a>>
         /\ strstrip(<<a, b, d>>) = <<a, b, d>>
         /\ string_unescape(<<a>>) = <<a>>
         /\ string_unescape(<<a, SP, d>>) = <<a, SP, d>>
         /\ string_unescape(<<a, BACKSLASH, d>>) = <<a, d>>
<1>1. /\ a \in Words /\ b \in Words /\ d \in Words /\ SP \in Words /\ BACKSLASH \in Words
      /\ a \notin Blank /\ d \notin Blank /\ a # BACKSLASH /\ d # BACKSLASH
      /\ SP # BACKSLASH
  BY PlainWords DEF SP, BACKSLASH
<1> QED BY <1>1, ShortStripped, ShortUnescaped

(* Every line with a key has its landmarks.                                *)
LEMMA KeyLine ==
  ASSUME NEW L \in Lines, "key" \in DOMAIN L
  PROVE  \E b, e, v, w \in 1 .. Len(L.text) + 1 : Landmarks(L, b, e, v, w)
<1> DEFINE t == L.text
<1>0. t \in Strings
  BY LineText
<1>1. CASE L = EntryLine(<<"port", "=", EOL>>, "port", <<>>)
  <2>1. /\ Len(t) = 3 /\ t[1] = "port" /\ t[2] = "=" /\ t[3] = EOL
        /\ L.key = <<"port">> /\ L.value = <<>>
    BY <1>1 DEF EntryLine
  <2> HIDE DEF t
  <2>2. strstrip(SubSeq(t, 1, 1)) = <<"port">>
    <3>1. SubSeq(t, 1, 1) = <<"port">>
      <4>1. 1 \in 1 .. Len(t) /\ 1 \in 1 .. Len(t)
        BY <2>1
      <4>2. SubSeq(t, 1, 1) = <<t[1]>>
        BY <1>0, <4>1, Part
      <4> QED BY <2>1, <4>2
    <3> QED BY <3>1, PlainWords, PlainStrings
  <2>3. Landmarks(L, 1, 2, 3, 4)
    BY <2>1, <2>2 DEF Landmarks, Blank, SP, EOL, t
  <2> QED BY <2>1, <2>3 DEF t
<1>2. CASE L = EntryLine(<<"port", "=", "21500", EOL>>, "port", <<"21500">>)
  <2>1. /\ Len(t) = 4 /\ t[1] = "port" /\ t[2] = "=" /\ t[3] = "21500" /\ t[4] = EOL
        /\ L.key = <<"port">> /\ L.value = <<"21500">>
    BY <1>2 DEF EntryLine
  <2> HIDE DEF t
  <2>2. strstrip(SubSeq(t, 1, 1)) = <<"port">>
    <3>1. SubSeq(t, 1, 1) = <<"port">>
      <4>1. 1 \in 1 .. Len(t) /\ 1 \in 1 .. Len(t)
        BY <2>1
      <4>2. SubSeq(t, 1, 1) = <<t[1]>>
        BY <1>0, <4>1, Part
      <4> QED BY <2>1, <4>2
    <3> QED BY <3>1, PlainWords, PlainStrings
  <2>3. string_unescape(strstrip(SubSeq(t, 3, 3))) = <<"21500">>
    <3>1. strstrip(SubSeq(t, 3, 3)) = <<"21500">>
      <4>1. SubSeq(t, 3, 3) = <<"21500">>
        <5>1. 3 \in 1 .. Len(t) /\ 3 \in 1 .. Len(t)
          BY <2>1
        <5>2. SubSeq(t, 3, 3) = <<t[3]>>
          BY <1>0, <5>1, Part
        <5> QED BY <2>1, <5>2
      <4> QED BY <4>1, PlainWords, PlainStrings
    <3> QED BY <3>1, PlainWords, PlainStrings
  <2>4. Landmarks(L, 1, 2, 3, 4)
    BY <2>1, <2>2, <2>3 DEF Landmarks, StartOf, EndOf, Blank, SP, EOL, QUOTE, t
  <2> QED BY <2>1, <2>4 DEF t
<1>3. CASE L = EntryLine(<<SP, "host", SP, "=", SP, "sink", SP, EOL>>, "host",
                         <<"sink">>)
  <2>1. /\ Len(t) = 8 /\ t[1] = SP /\ t[2] = "host" /\ t[3] = SP /\ t[4] = "="
        /\ t[5] = SP /\ t[6] = "sink" /\ t[7] = SP /\ t[8] = EOL
        /\ L.key = <<"host">> /\ L.value = <<"sink">>
    BY <1>3 DEF EntryLine
  <2> HIDE DEF t
  <2>2. strstrip(SubSeq(t, 2, 3)) = <<"host">>
    <3>1. SubSeq(t, 2, 3) = <<"host", SP>>
      <4>1. 2 \in 1 .. Len(t) /\ 3 \in 1 .. Len(t) /\ 3 = 2 + 1
        BY <2>1
      <4>2. SubSeq(t, 2, 3) = <<t[2], t[2 + 1]>>
        BY <1>0, <4>1, Part
      <4> QED BY <2>1, <4>2
    <3> QED BY <3>1, PlainWords, PlainStrings
  <2>3. string_unescape(strstrip(SubSeq(t, 6, 7))) = <<"sink">>
    <3>1. strstrip(SubSeq(t, 6, 7)) = <<"sink">>
      <4>1. SubSeq(t, 6, 7) = <<"sink", SP>>
        <5>1. 6 \in 1 .. Len(t) /\ 7 \in 1 .. Len(t) /\ 7 = 6 + 1
          BY <2>1
        <5>2. SubSeq(t, 6, 7) = <<t[6], t[6 + 1]>>
          BY <1>0, <5>1, Part
        <5> QED BY <2>1, <5>2
      <4> QED BY <4>1, PlainWords, PlainStrings
    <3> QED BY <3>1, PlainWords, PlainStrings
  <2>4. Landmarks(L, 2, 4, 6, 8)
    BY <2>1, <2>2, <2>3 DEF Landmarks, StartOf, EndOf, Blank, SP, EOL, QUOTE, t
  <2> QED BY <2>1, <2>4 DEF t
<1>4. CASE L = EntryLine(<<"device", "=", QUOTE, "CABLE", SP, "Input", QUOTE, SP,
                           EOL>>, "device", <<"CABLE", SP, "Input">>)
  <2>1. /\ Len(t) = 9 /\ t[1] = "device" /\ t[2] = "=" /\ t[3] = QUOTE
        /\ t[4] = "CABLE" /\ t[5] = SP /\ t[6] = "Input" /\ t[7] = QUOTE
        /\ t[8] = SP /\ t[9] = EOL
        /\ L.key = <<"device">> /\ L.value = <<"CABLE", SP, "Input">>
    BY <1>4 DEF EntryLine
  <2> HIDE DEF t
  <2>2. strstrip(SubSeq(t, 1, 1)) = <<"device">>
    <3>1. SubSeq(t, 1, 1) = <<"device">>
      <4>1. 1 \in 1 .. Len(t) /\ 1 \in 1 .. Len(t)
        BY <2>1
      <4>2. SubSeq(t, 1, 1) = <<t[1]>>
        BY <1>0, <4>1, Part
      <4> QED BY <2>1, <4>2
    <3> QED BY <3>1, PlainWords, PlainStrings
  <2>3. string_unescape(strstrip(SubSeq(t, 4, 6))) = <<"CABLE", SP, "Input">>
    <3>1. SubSeq(t, 4, 6) = <<"CABLE", SP, "Input">>
      <4>1. 4 \in 1 .. Len(t) /\ 6 \in 1 .. Len(t) /\ 6 = 4 + 2
        BY <2>1
      <4>2. SubSeq(t, 4, 6) = <<t[4], t[4 + 1], t[4 + 2]>>
        BY <1>0, <4>1, Part
      <4> QED BY <2>1, <4>2
    <3>2. strstrip(<<"CABLE", SP, "Input">>) = <<"CABLE", SP, "Input">>
      BY PlainWords, PlainStrings
    <3>3. string_unescape(<<"CABLE", SP, "Input">>) = L.value
      BY <2>1, PlainWords, PlainStrings
    <3> QED BY <2>1, <3>1, <3>2, <3>3
  <2>4. Landmarks(L, 1, 2, 3, 7)
    BY <2>1, <2>2, <2>3 DEF Landmarks, StartOf, EndOf, Blank, SP, EOL, QUOTE, t
  <2> QED BY <2>1, <2>4 DEF t
<1>5. CASE L = EntryLine(<<"device", "=", "VB", BACKSLASH, "Cable", EOL>>, "device",
                         <<"VB", "Cable">>)
  <2>1. /\ Len(t) = 6 /\ t[1] = "device" /\ t[2] = "=" /\ t[3] = "VB"
        /\ t[4] = BACKSLASH /\ t[5] = "Cable" /\ t[6] = EOL
        /\ L.key = <<"device">> /\ L.value = <<"VB", "Cable">>
    BY <1>5 DEF EntryLine
  <2> HIDE DEF t
  <2>2. strstrip(SubSeq(t, 1, 1)) = <<"device">>
    <3>1. SubSeq(t, 1, 1) = <<"device">>
      <4>1. 1 \in 1 .. Len(t) /\ 1 \in 1 .. Len(t)
        BY <2>1
      <4>2. SubSeq(t, 1, 1) = <<t[1]>>
        BY <1>0, <4>1, Part
      <4> QED BY <2>1, <4>2
    <3> QED BY <3>1, PlainWords, PlainStrings
  <2>3. string_unescape(strstrip(SubSeq(t, 3, 5))) = <<"VB", "Cable">>
    <3>1. SubSeq(t, 3, 5) = <<"VB", BACKSLASH, "Cable">>
      <4>1. 3 \in 1 .. Len(t) /\ 5 \in 1 .. Len(t) /\ 5 = 3 + 2
        BY <2>1
      <4>2. SubSeq(t, 3, 5) = <<t[3], t[3 + 1], t[3 + 2]>>
        BY <1>0, <4>1, Part
      <4> QED BY <2>1, <4>2
    <3>2. strstrip(<<"VB", BACKSLASH, "Cable">>) = <<"VB", BACKSLASH, "Cable">>
      BY PlainWords, PlainStrings
    <3>3. string_unescape(<<"VB", BACKSLASH, "Cable">>) = L.value
      BY <2>1, PlainWords, PlainStrings
    <3> QED BY <2>1, <3>1, <3>2, <3>3
  <2>4. Landmarks(L, 1, 2, 3, 6)
    BY <2>1, <2>2, <2>3
       DEF Landmarks, StartOf, EndOf, Blank, SP, EOL, QUOTE, BACKSLASH, t
  <2> QED BY <2>1, <2>4 DEF t
<1>6. "key" \notin DOMAIN [text |-> <<EOL>>]
  OBVIOUS
<1>7. \A s \in {"sink", "source"} : "key" \notin DOMAIN SectionLine(s)
  BY DEF SectionLine
<1> QED BY <1>1, <1>2, <1>3, <1>4, <1>5, <1>6, <1>7 DEF Lines

-----------------------------------------------------------------------------
(* The text of the file and where its lines end.                           *)

(* A file is a sequence of lines, of which each has characters.            *)
LEMMA FileLines ==
  ASSUME file \in Files
  PROVE  /\ Len(file) \in Nat /\ DOMAIN file = 1 .. Len(file)
         /\ \A n \in 1 .. Len(file) :
              /\ file[n] \in Lines /\ file[n].text \in Strings
              /\ Len(file[n].text) \in Nat /\ Len(file[n].text) >= 1
<1>1. PICK m \in 0 .. MaxLines : file \in [1 .. m -> Lines]
  BY DEF Files
<1>2. m \in Nat
  BY ConfigAssumption
<1>3. Len(file) = m /\ DOMAIN file = 1 .. m
  BY <1>1, <1>2
<1>4. \A n \in 1 .. m : file[n] \in Lines
  BY <1>1
<1> QED BY <1>2, <1>3, <1>4, LineText

(* The numbers that the recursive definition gives.                        *)
LEMMA EndsDef ==
  ASSUME file \in Files
  PROVE  /\ Ends[0] = 0 /\ \A n \in 0 .. Len(file) : Ends[n] \in Nat
         /\ \A n \in 1 .. Len(file) :
              Ends[n] = Ends[n - 1] + Len(file[n].text)
<1> DEFINE N == Len(file)
           step == [n \in 1 .. N |-> [x \in Nat |-> x + Len(file[n].text)]]
           Fits(g) == g = [n \in 0 .. N |-> IF n = 0 THEN 0 ELSE
                                              g[n - 1] + Len(file[n].text)]
<1>0. N \in Nat /\ \A n \in 1 .. N : Len(file[n].text) \in Nat
  BY FileLines
<1>1. \A n \in 1 .. N : step[n] \in [Nat -> Nat]
  BY <1>0
<1>2. Solution(N, Nat, 0, step)
  <2> HIDE DEF step, N
  <2> QED BY <1>0, <1>1, Recursion
<1>3. PICK g \in [0 .. N -> Nat] :
        g[0] = 0 /\ \A n \in 1 .. N : g[n] = step[n][g[n - 1]]
  BY <1>2 DEF Solution
<1>4. \A n \in 1 .. N : g[n] = g[n - 1] + Len(file[n].text)
  <2> TAKE n \in 1 .. N
  <2>0. n - 1 \in 0 .. N
    BY <1>0
  <2>1. g[n - 1] \in Nat
    BY <1>3, <2>0
  <2>2. step[n][g[n - 1]] = g[n - 1] + Len(file[n].text)
    BY <2>1
  <2> QED BY <1>3, <2>2
<1>5. Fits(g)
  <2>1. \A n \in 0 .. N : n = 0 \/ n \in 1 .. N
    BY <1>0
  <2>2. \A n \in 0 .. N : g[n] = IF n = 0 THEN 0 ELSE g[n - 1] + Len(file[n].text)
    BY <1>3, <1>4, <2>1
  <2>3. g = [n \in 0 .. N |-> g[n]]
    BY <1>3
  <2> QED BY <2>2, <2>3
<1>6. Fits(Ends)
  <2>1. Ends = CHOOSE f : Fits(f)
    BY DEF Ends
  <2> HIDE DEF Fits
  <2> QED BY <1>5, <2>1
<1>7. \A n \in 0 .. N : Ends[n] = IF n = 0 THEN 0
                                  ELSE Ends[n - 1] + Len(file[n].text)
  BY <1>6
<1>8. Ends[0] = 0 /\ \A n \in 1 .. N : Ends[n] = Ends[n - 1] + Len(file[n].text)
  <2>1. \A n \in 1 .. N : n \in 0 .. N /\ n # 0
    BY <1>0
  <2> QED BY <1>0, <1>7, <2>1
<1>9. \A n \in 0 .. N : Ends[n] \in Nat
  <2> DEFINE S == {n \in 0 .. N : Ends[n] \in Nat}
  <2>1. 0 \in S
    BY <1>0, <1>8
  <2>2. ASSUME NEW n \in 0 .. N, n \in S, n < N
        PROVE  n + 1 \in S
    <3>1. n + 1 \in 1 .. N /\ n + 1 \in 0 .. N /\ (n + 1) - 1 = n
      BY <1>0, <2>2
    <3>2. Ends[n + 1] = Ends[n] + Len(file[n + 1].text)
      BY <1>8, <3>1
    <3> QED BY <1>0, <2>2, <3>1, <3>2
  <2>3. \A n \in 0 .. N : n \in S
    <3> HIDE DEF S, N
    <3> QED BY <1>0, <2>1, <2>2, Induction
  <2> QED BY <2>3
<1> QED BY <1>8, <1>9

(* Later lines end later.                                                  *)
LEMMA EndsMonotonic ==
  ASSUME file \in Files, NEW n \in 0 .. Len(file), NEW m \in 0 .. n
  PROVE  Ends[m] <= Ends[n]
<1> DEFINE N == Len(file)
           S == {i \in 0 .. N : m <= i => Ends[m] <= Ends[i]}
<1>0. /\ N \in Nat /\ Ends[0] = 0 /\ \A i \in 0 .. N : Ends[i] \in Nat
      /\ \A i \in 1 .. N : /\ Ends[i] = Ends[i - 1] + Len(file[i].text)
                           /\ Len(file[i].text) \in Nat
  BY FileLines, EndsDef
<1>1. 0 \in S
  BY <1>0
<1>2. ASSUME NEW i \in 0 .. N, i \in S, i < N
      PROVE  i + 1 \in S
  <2>1. i + 1 \in 1 .. N /\ i + 1 \in 0 .. N /\ (i + 1) - 1 = i
    BY <1>0, <1>2
  <2>2. Ends[i + 1] = Ends[i] + Len(file[i + 1].text) /\ Len(file[i + 1].text) \in Nat
    BY <1>0, <2>1
  <2>3. Ends[i] \in Nat /\ Ends[i + 1] \in Nat /\ Ends[m] \in Nat
    BY <1>0, <2>1
  <2>4. CASE m = i + 1
    BY <2>1, <2>3, <2>4
  <2>5. CASE m # i + 1
    BY <1>2, <2>1, <2>2, <2>3, <2>5
  <2> QED BY <2>4, <2>5
<1>3. \A i \in 0 .. N : i \in S
  <2> HIDE DEF S, N
  <2> QED BY <1>0, <1>1, <1>2, Induction
<1> QED BY <1>0, <1>3

(* Every line moves the end on by its own length.                          *)
LEMMA EndsGrow ==
  ASSUME file \in Files, NEW n \in 0 .. Len(file), NEW m \in 0 .. n, m < n
  PROVE  Ends[m] + Len(file[m + 1].text) <= Ends[n]
<1>1. Len(file) \in Nat
  BY FileLines
<1>2. m + 1 \in 1 .. Len(file) /\ (m + 1) - 1 = m /\ m + 1 \in 0 .. n
  BY <1>1
<1>3. Ends[m + 1] = Ends[m] + Len(file[m + 1].text)
  BY <1>2, EndsDef
<1>4. Ends[m + 1] <= Ends[n]
  BY <1>2, EndsMonotonic
<1> QED BY <1>3, <1>4

(* The text of a file has the characters of its lines one after another.   *)
TextInv ==
  /\ file \in Files
  /\ text \in Strings /\ Len(text) = Ends[Len(file)]
  /\ \A n \in 1 .. Len(file) : \A k \in 1 .. Len(file[n].text) :
       text[Ends[n - 1] + k] = file[n].text[k]

(* The text that ParserInit puts together is that of the lines.            *)
LEMMA TextInit ==
  ASSUME ParserInit
  PROVE  TextInv
<1> DEFINE N == Len(file)
           ss == [i \in DOMAIN file |-> file[i].text]
           step == [n \in 1 .. N |-> [x \in Strings |-> x \o ss[n]]]
           Fits(f) == f = [i \in 1 .. Len(ss) |-> IF i = 1 THEN ss[i]
                                                 ELSE f[i - 1] \o ss[i]]
           flatten == CHOOSE f : Fits(f)
<1>0. /\ file \in Files /\ N \in Nat /\ DOMAIN file = 1 .. N
      /\ \A n \in 1 .. N : file[n].text \in Strings /\ Len(file[n].text) \in Nat
      /\ Ends[0] = 0 /\ \A n \in 0 .. N : Ends[n] \in Nat
      /\ \A n \in 1 .. N : Ends[n] = Ends[n - 1] + Len(file[n].text)
  BY FileLines, EndsDef DEF ParserInit
<1>1. Len(ss) = N /\ \A n \in 1 .. N : ss[n] = file[n].text
  BY <1>0
<1>2. text = FlattenSeq(ss)
  BY DEF ParserInit
<1>3. CASE N = 0
  <2>1. text = ss
    BY <1>1, <1>2, <1>3 DEF FlattenSeq
  <2>2. ss = <<>>
    BY <1>0, <1>3
  <2>3. text \in Strings /\ Len(text) = 0
    BY <2>1, <2>2, ShortSeq DEF Strings
  <2> QED BY <1>0, <1>3, <2>3 DEF TextInv
<1>4. CASE N # 0
  <2>1. text = flatten[N]
    BY <1>1, <1>2, <1>4 DEF FlattenSeq
  <2> HIDE DEF ss
  <2>2. Solution(N, Strings, <<>>, step)
    <3>1. \A n \in 1 .. N : \A x \in Strings : x \o ss[n] \in Strings
      BY <1>0, <1>1, ConcatProperties DEF Strings
    <3>2. \A n \in 1 .. N : step[n] \in [Strings -> Strings]
      BY <3>1
    <3>3. <<>> \in Strings
      BY ShortSeq DEF Strings
    <3> HIDE DEF step, N
    <3> QED BY <1>0, <3>2, <3>3, Recursion
  <2>3. PICK g \in [0 .. N -> Strings] :
          g[0] = <<>> /\ \A n \in 1 .. N : g[n] = step[n][g[n - 1]]
    BY <2>2 DEF Solution
  <2>4. \A n \in 1 .. N : g[n] = g[n - 1] \o ss[n]
    <3> TAKE n \in 1 .. N
    <3>1. n - 1 \in 0 .. N
      BY <1>0
    <3>2. g[n - 1] \in Strings
      BY <2>3, <3>1
    <3>3. step[n][g[n - 1]] = g[n - 1] \o ss[n]
      BY <3>2
    <3> QED BY <2>3, <3>3
  <2> DEFINE h == [n \in 1 .. N |-> g[n]]
  <2>5. Fits(h)
    <3>1. h[1] = ss[1]
      <4>1. 1 \in 1 .. N /\ 1 - 1 = 0
        BY <1>0, <1>4
      <4>2. g[1] = <<>> \o ss[1]
        BY <2>3, <2>4, <4>1
      <4> QED BY <1>0, <1>1, <4>1, <4>2, ConcatEmptySeq DEF Strings
    <3>2. ASSUME NEW n \in 1 .. N, n # 1
          PROVE  h[n] = h[n - 1] \o ss[n]
      <4>1. n - 1 \in 1 .. N
        BY <1>0, <3>2
      <4>2. h[n] = g[n] /\ h[n - 1] = g[n - 1]
        BY <4>1
      <4> QED BY <2>4, <4>2
    <3>3. \A n \in 1 .. N : h[n] = IF n = 1 THEN ss[n] ELSE h[n - 1] \o ss[n]
      BY <3>1, <3>2
    <3>4. h = [n \in 1 .. N |-> h[n]]
      OBVIOUS
    <3> HIDE DEF h
    <3> QED BY <1>1, <3>3, <3>4
  <2>6. Fits(flatten)
    <3> HIDE DEF Fits
    <3> QED BY <2>5
  <2> HIDE DEF flatten
  <2>7. \A n \in 1 .. N : flatten[n] = IF n = 1 THEN ss[n] ELSE flatten[n - 1] \o ss[n]
    BY <1>1, <2>6
  <2> HIDE DEF Fits
  <2> DEFINE Has(n) == \A i \in 1 .. n : \A k \in 1 .. Len(file[i].text) :
                         flatten[n][Ends[i - 1] + k] = file[i].text[k]
             S == {n \in 1 .. N : /\ flatten[n] \in Strings /\ Len(flatten[n]) = Ends[n]
                                  /\ Has(n)}
  <2>8. 1 \in S
    <3>1. 1 \in 1 .. N /\ 1 - 1 = 0
      BY <1>0, <1>4
    <3>2. flatten[1] = file[1].text
      BY <1>1, <2>7, <3>1
    <3>3. Ends[1] = Len(file[1].text)
      BY <1>0, <3>1
    <3>4. Has(1)
      <4>1. ASSUME NEW k \in 1 .. Len(file[1].text)
            PROVE  flatten[1][Ends[1 - 1] + k] = file[1].text[k]
        <5>1. Ends[1 - 1] + k = k
          BY <1>0
        <5> QED BY <3>2, <5>1
      <4>2. \A i \in 1 .. 1 : i = 1
        OBVIOUS
      <4> QED BY <4>1, <4>2
    <3> QED BY <1>0, <3>1, <3>2, <3>3, <3>4
  <2>9. ASSUME NEW n \in 1 .. N, n \in S, n < N
        PROVE  n + 1 \in S
    <3>1. n + 1 \in 1 .. N /\ n + 1 # 1 /\ (n + 1) - 1 = n /\ n \in 0 .. N
      BY <1>0, <2>9
    <3> DEFINE a == flatten[n]
               b == file[n + 1].text
    <3>2. /\ a \in Seq(Words) /\ Len(a) = Ends[n] /\ Ends[n] \in Nat
          /\ b \in Seq(Words) /\ Len(b) \in Nat
          /\ \A i \in 1 .. n : \A k \in 1 .. Len(file[i].text) :
               a[Ends[i - 1] + k] = file[i].text[k]
      BY <1>0, <2>9, <3>1 DEF Strings
    <3>3. flatten[n + 1] = a \o b
      BY <1>1, <2>7, <3>1
    <3>4. /\ flatten[n + 1] \in Seq(Words) /\ Len(flatten[n + 1]) = Len(a) + Len(b)
          /\ \A j \in 1 .. Len(a) + Len(b) :
               flatten[n + 1][j] = IF j <= Len(a) THEN a[j] ELSE b[j - Len(a)]
      <4> HIDE DEF a, b, flatten
      <4>1. /\ a \o b \in Seq(Words) /\ Len(a \o b) = Len(a) + Len(b)
            /\ \A j \in 1 .. Len(a) + Len(b) :
                 (a \o b)[j] = IF j <= Len(a) THEN a[j] ELSE b[j - Len(a)]
        BY <3>2, ConcatProperties
      <4> QED BY <3>3, <4>1
    <3>5. Len(flatten[n + 1]) = Ends[n + 1]
      BY <1>0, <3>1, <3>2, <3>4
    <3>6. ASSUME NEW i \in 1 .. n + 1, NEW k \in 1 .. Len(file[i].text)
          PROVE  flatten[n + 1][Ends[i - 1] + k] = file[i].text[k]
      <4> DEFINE j == Ends[i - 1] + k
      <4>1. i \in 1 .. N /\ i - 1 \in 0 .. N /\ Ends[i - 1] \in Nat
            /\ Len(file[i].text) \in Nat
        BY <1>0, <3>1
      <4>2. CASE i = n + 1
        <5>1. j = Len(a) + k /\ k \in 1 .. Len(b)
          BY <3>1, <3>2, <4>2
        <5>2. Len(a) \in Nat /\ Len(b) \in Nat
          BY <3>2
        <5> HIDE DEF a, b, j
        <5>4. j \in 1 .. Len(a) + Len(b) /\ ~(j <= Len(a)) /\ j - Len(a) = k
          BY <5>1, <5>2
        <5>3. flatten[n + 1][j] = b[k]
          BY <3>4, <5>4
        <5> QED BY <4>2, <5>3 DEF j, b
      <4>3. CASE i # n + 1
        <5>1. i \in 1 .. n /\ i - 1 \in 0 .. n /\ i - 1 < n /\ (i - 1) + 1 = i
          BY <3>1, <4>3
        <5>2. Ends[i - 1] + Len(file[i].text) <= Ends[n]
          <6>1. Ends[i - 1] + Len(file[(i - 1) + 1].text) <= Ends[n]
            BY <1>0, <3>1, <5>1, EndsGrow
          <6> QED BY <5>1, <6>1
        <5>3. j \in 1 .. Len(a) + Len(b) /\ j <= Len(a)
          <6>1. Len(a) = Ends[n] /\ Ends[n] \in Nat /\ Len(b) \in Nat
            BY <3>2
          <6>2. j \in Nat /\ j >= 1 /\ j <= Ends[n]
            <7>1. /\ k \in Nat /\ k >= 1 /\ k <= Len(file[i].text)
                  /\ Ends[i - 1] + k \in Nat /\ Ends[i - 1] + k >= 1
              BY <4>1
            <7>2. Ends[i - 1] + k <= Ends[i - 1] + Len(file[i].text)
              BY <4>1, <7>1
            <7> DEFINE x == Ends[i - 1] + k
                       y == Ends[i - 1] + Len(file[i].text)
                       z == Ends[n]
            <7>3. y \in Nat
              BY <4>1
            <7> HIDE DEF x, y, z
            <7>4. x \in Nat /\ x >= 1 /\ z \in Nat /\ x <= y /\ y <= z
              BY <5>2, <6>1, <7>1, <7>2 DEF x, y, z
            <7>5. x <= z
              BY <7>3, <7>4
            <7> QED BY <7>4, <7>5 DEF x, z
          <6> HIDE DEF a, b, j
          <6> QED BY <6>1, <6>2
        <5>4. a[j] = file[i].text[k]
          BY <3>2, <5>1
        <5> HIDE DEF j, a, b
        <5> QED BY <3>4, <5>3, <5>4 DEF j
      <4> QED BY <4>2, <4>3
    <3>7. Has(n + 1)
      BY <3>6
    <3> HIDE DEF Has
    <3> QED BY <3>1, <3>4, <3>5, <3>7 DEF Strings
  <2>10. \A n \in 1 .. N : n \in S
    <3> HIDE DEF S, N
    <3>1. N \in Nat /\ 1 \in Nat
      BY <1>0
    <3> QED BY <2>8, <2>9, <3>1, Induction
  <2>11. N \in 1 .. N
    BY <1>0, <1>4
  <2>12. flatten[N] \in Strings /\ Len(flatten[N]) = Ends[N] /\ Has(N)
    BY <2>10, <2>11
  <2> QED BY <1>0, <2>1, <2>12 DEF TextInv
<1> QED BY <1>3, <1>4

(* The character that is parsed next.                                      *)
LEMMA NextChar ==
  ASSUME TextInv, NEW n \in 0 .. Len(file), n < Len(file), NEW k \in Nat,
         k < Len(file[n + 1].text), p = Ends[n] + k
  PROVE  /\ c = file[n + 1].text[k + 1] /\ p < Len(text)
         /\ Ends[n] \in Nat /\ Ends[n] + Len(file[n + 1].text) <= Len(text)
         /\ Ends[n + 1] = Ends[n] + Len(file[n + 1].text)
<1>1. /\ Len(file) \in Nat /\ n + 1 \in 1 .. Len(file) /\ (n + 1) - 1 = n
      /\ Len(file[n + 1].text) \in Nat /\ Len(file) \in 0 .. Len(file)
      /\ n \in 0 .. Len(file) /\ Ends[n] \in Nat
  BY FileLines, EndsDef DEF TextInv
<1>2. k + 1 \in 1 .. Len(file[n + 1].text) /\ p + 1 = Ends[n] + (k + 1)
  BY <1>1
<1>3. c = file[n + 1].text[k + 1]
  <2> DEFINE m == n + 1
             j == k + 1
  <2>1. \A i \in 1 .. Len(file) : \A g \in 1 .. Len(file[i].text) :
          text[Ends[i - 1] + g] = file[i].text[g]
    BY DEF TextInv
  <2>2. m \in 1 .. Len(file) /\ j \in 1 .. Len(file[m].text) /\ m - 1 = n
    BY <1>1, <1>2
  <2>3. p + 1 = Ends[n] + j
    BY <1>2
  <2> HIDE DEF m, j
  <2>4. text[p + 1] = file[m].text[j]
    BY <2>1, <2>2, <2>3
  <2> QED BY <2>4 DEF c, m, j
<1>4. Ends[n] + Len(file[n + 1].text) <= Ends[Len(file)]
  BY <1>1, EndsGrow DEF TextInv
<1>5. Ends[n + 1] = Ends[n] + Len(file[n + 1].text)
  BY <1>1, EndsDef DEF TextInv
<1>6. Len(text) = Ends[Len(file)] /\ Ends[Len(file)] \in Nat
  BY <1>1, EndsDef DEF TextInv
<1> QED BY <1>1, <1>3, <1>4, <1>5, <1>6

(* A string that is taken from within a line is one of the line.           *)
LEMMA TakenFromLine ==
  ASSUME TextInv, NEW n \in 0 .. Len(file), n < Len(file),
         NEW b \in 1 .. Len(file[n + 1].text), NEW k \in b .. Len(file[n + 1].text),
         p = Ends[n] + k, q = Ends[n] + b
  PROVE  Taken = SubSeq(file[n + 1].text, b, k)
<1> DEFINE t == file[n + 1].text
           m == Ends[n]
<1>1. /\ Len(file) \in Nat /\ n + 1 \in 1 .. Len(file) /\ (n + 1) - 1 = n
      /\ t \in Seq(Words) /\ Len(t) \in Nat /\ m \in Nat
  BY FileLines, EndsDef DEF TextInv, Strings
<1>2. \A i \in 1 .. Len(t) : text[m + i] = t[i]
  <2>1. \A i \in 1 .. Len(t) : text[Ends[(n + 1) - 1] + i] = t[i]
    BY <1>1 DEF TextInv
  <2> QED BY <1>1, <2>1
<1> HIDE DEF t, m
<1>3. \A i \in 1 .. Len(t) : text[m + i] = t[i] /\ t[i] \in Words
  BY <1>1, <1>2, ElementOfSeq
<1>4. /\ b \in Nat /\ k \in Nat /\ 1 <= b /\ b <= k /\ k <= Len(t)
      /\ q \in Int /\ p \in Int /\ p - q = k - b /\ b \in Int /\ k \in Int
      /\ p = m + k /\ q = m + b /\ m \in Nat /\ q # 0 /\ Len(t) \in Nat
  <2>1. b \in 1 .. Len(t) /\ k \in b .. Len(t) /\ p = m + k /\ q = m + b
    BY DEF t, m
  <2>2. b \in Nat /\ k \in Nat /\ 1 <= b /\ b <= k /\ k <= Len(t)
    BY <1>1, <2>1
  <2> QED BY <1>1, <2>1, <2>2
<1>5. ASSUME NEW j \in q .. p
      PROVE  text[j] \in Words
  <2>1. j - m \in 1 .. Len(t) /\ m + (j - m) = j
    BY <1>4
  <2>2. text[m + (j - m)] = t[j - m] /\ t[j - m] \in Words
    BY <1>3, <2>1
  <2> QED BY <2>1, <2>2
<1>11. Taken = SubSeq(text, q, p)
  BY <1>4 DEF Taken
<1>6. \A j \in b .. k : t[j] \in Words
  <2>1. \A j \in b .. k : j \in 1 .. Len(t)
    BY <1>4
  <2> QED BY <1>3, <2>1
<1>7. /\ SubSeq(text, q, p) \in Seq(Words)
      /\ Len(SubSeq(text, q, p)) = k - b + 1
      /\ \A i \in 1 .. k - b + 1 : SubSeq(text, q, p)[i] = text[q + i - 1]
  <2>1. p - q + 1 = k - b + 1 /\ q <= p
    <3>1. q \in Int /\ p \in Int /\ b \in Int /\ k \in Int /\ p - q = k - b /\ b <= k
      BY <1>4
    <3> QED BY <3>1
  <2> DEFINE x == q
             y == p
  <2>2. x \in Int /\ y \in Int /\ \A j \in x .. y : text[j] \in Words
    BY <1>4, <1>5
  <2>3. x <= y
    BY <2>1
  <2> HIDE DEF x, y
  <2>4. /\ SubSeq(text, x, y) \in Seq(Words)
        /\ Len(SubSeq(text, x, y)) = y - x + 1
        /\ \A i \in 1 .. y - x + 1 : SubSeq(text, x, y)[i] = text[x + i - 1]
    BY <2>2, <2>3, SubSeqProperties
  <2> QED BY <2>1, <2>4 DEF x, y
<1>8. /\ SubSeq(t, b, k) \in Seq(Words)
      /\ Len(SubSeq(t, b, k)) = k - b + 1
      /\ \A i \in 1 .. k - b + 1 : SubSeq(t, b, k)[i] = t[b + i - 1]
  <2>1. b \in Int /\ k \in Int /\ b <= k
    BY <1>4
  <2> QED BY <1>6, <2>1, SubSeqProperties
<1>9. ASSUME NEW i \in 1 .. k - b + 1
      PROVE  SubSeq(text, q, p)[i] = SubSeq(t, b, k)[i]
  <2>1. b + i - 1 \in 1 .. Len(t) /\ m + (b + i - 1) = q + i - 1
    <3>1. /\ b \in Int /\ k \in Int /\ m \in Int /\ i \in Int /\ Len(t) \in Int
          /\ 1 <= b /\ k <= Len(t) /\ q = m + b /\ 1 <= i /\ i <= k - b + 1
      BY <1>4
    <3> QED BY <3>1
  <2>2. text[q + i - 1] = t[b + i - 1]
    BY <1>3, <2>1
  <2> QED BY <1>7, <1>8, <2>2
<1>10. SubSeq(text, q, p) = SubSeq(t, b, k)
  BY <1>7, <1>8, <1>9, SeqEqual
<1> QED BY <1>10, <1>11 DEF t

-----------------------------------------------------------------------------
(* An entry behind those of the last section, and the value of the last.   *)
Put(s, e) == [s EXCEPT ![Len(s)].entries = Append(@, e)]
SetValue(s, v) ==
  [s EXCEPT ![Len(s)].entries[Len(s[Len(s)].entries)].value = v]

(* The last section, with other entries.                                   *)
WithEntries(s, z) == [s EXCEPT ![Len(s)] = [name |-> s[Len(s)].name, entries |-> z]]

(* There is a last section.                                                *)
LEMMA LastSection ==
  ASSUME NEW s \in Sections, s # <<>>
  PROVE  /\ Len(s) \in Nat /\ Len(s) >= 1 /\ Len(s) \in 1 .. Len(s)
         /\ DOMAIN s = 1 .. Len(s)
         /\ s[Len(s)] \in Sec /\ s[Len(s)].name \in Strings
         /\ s[Len(s)].entries \in Seq(Entry)
<1>1. Len(s) \in Nat /\ Len(s) >= 1 /\ Len(s) \in 1 .. Len(s) /\ DOMAIN s = 1 .. Len(s)
  BY EmptySeq, LenProperties DEF Sections
<1>2. s[Len(s)] \in Sec
  BY <1>1, ElementOfSeq DEF Sections
<1> QED BY <1>1, <1>2 DEF Sec

(* Other entries make it another list of sections.                         *)
LEMMA WithEntriesFacts ==
  ASSUME NEW s \in Sections, s # <<>>, NEW z \in Seq(Entry)
  PROVE  /\ WithEntries(s, z) \in Sections /\ WithEntries(s, z) # <<>>
         /\ Len(WithEntries(s, z)) = Len(s)
         /\ WithEntries(s, z)[Len(s)].entries = z
         /\ WithEntries(s, z)[Len(s)].name = s[Len(s)].name
         /\ \A i \in 1 .. Len(s) : i # Len(s) => WithEntries(s, z)[i] = s[i]
<1> DEFINE y == [name |-> s[Len(s)].name, entries |-> z]
<1>1. y \in Sec /\ y.entries = z /\ y.name = s[Len(s)].name
  BY LastSection DEF Sec
<1>2. WithEntries(s, z) = [s EXCEPT ![Len(s)] = y]
  BY DEF WithEntries
<1> HIDE DEF y
<1>3. /\ [s EXCEPT ![Len(s)] = y] \in Seq(Sec) /\ Len([s EXCEPT ![Len(s)] = y]) = Len(s)
      /\ \A i \in 1 .. Len(s) :
           [s EXCEPT ![Len(s)] = y][i] = IF i = Len(s) THEN y ELSE s[i]
  BY <1>1, LastSection, ExceptSeq DEF Sections
<1>4. Len(s) \in 1 .. Len(s) /\ Len(s) >= 1
  BY LastSection
<1>5. [s EXCEPT ![Len(s)] = y] # <<>>
  BY <1>3, <1>4, EmptySeq
<1> QED BY <1>1, <1>2, <1>3, <1>4, <1>5 DEF Sections

(* The entries set last are those that count.                              *)
LEMMA WithEntriesTwice ==
  ASSUME NEW s \in Sections, s # <<>>, NEW y \in Seq(Entry), NEW z \in Seq(Entry)
  PROVE  WithEntries(WithEntries(s, y), z) = WithEntries(s, z)
<1> DEFINE P == WithEntries(s, y)
           r == [name |-> s[Len(s)].name, entries |-> z]
           r0 == [name |-> s[Len(s)].name, entries |-> y]
<1>1. Len(P) = Len(s) /\ P[Len(s)].name = s[Len(s)].name
  BY WithEntriesFacts
<1>2. P = [s EXCEPT ![Len(s)] = r0]
  BY DEF WithEntries
<1> HIDE DEF r0
<1>3. WithEntries(P, z) = [P EXCEPT ![Len(s)] = r]
  <2> HIDE DEF P
  <2> QED BY <1>1 DEF WithEntries
<1>4. WithEntries(s, z) = [s EXCEPT ![Len(s)] = r]
  BY DEF WithEntries
<1> HIDE DEF P, r
<1>5. [P EXCEPT ![Len(s)] = r] = [s EXCEPT ![Len(s)] = r]
  BY <1>2, LastSection
<1> QED BY <1>3, <1>4, <1>5 DEF P

(* A section with other entries in place is one.                           *)
LEMMA ExceptEntries ==
  ASSUME NEW x \in Sec, NEW z
  PROVE  [x EXCEPT !.entries = z] = [name |-> x.name, entries |-> z]
BY DEF Sec

(* What these make of the sections.                                        *)
LEMMA PutFacts ==
  ASSUME NEW s \in Sections, s # <<>>, NEW e \in Entry
  PROVE  /\ Put(s, e) = WithEntries(s, Append(s[Len(s)].entries, e))
         /\ Append(s[Len(s)].entries, e) \in Seq(Entry)
         /\ Put(s, e) \in Sections /\ Len(Put(s, e)) = Len(s) /\ Put(s, e) # <<>>
         /\ Put(s, e)[Len(s)].entries # <<>>
<1> DEFINE x == s[Len(s)]
           z == Append(x.entries, e)
<1>1. x \in Sec /\ x.entries \in Seq(Entry)
  BY LastSection
<1>2. z \in Seq(Entry) /\ z # <<>>
  BY <1>1, AppendProperties
<1>3. Put(s, e) = [s EXCEPT ![Len(s)] = [x EXCEPT !.entries = z]]
  BY LastSection DEF Put
<1>4. [x EXCEPT !.entries = z] = [name |-> x.name, entries |-> z]
  <2> HIDE DEF z, x
  <2> QED BY <1>1, ExceptEntries
<1>5. Put(s, e) = WithEntries(s, z)
  BY <1>3, <1>4 DEF WithEntries
<1>6. /\ WithEntries(s, z) \in Sections /\ WithEntries(s, z) # <<>>
      /\ Len(WithEntries(s, z)) = Len(s) /\ WithEntries(s, z)[Len(s)].entries = z
  <2> HIDE DEF z
  <2> QED BY <1>2, WithEntriesFacts
<1> HIDE DEF z
<1> QED BY <1>2, <1>5, <1>6 DEF z

(* Setting the value of the last entry changes nothing else.               *)
LEMMA SetValueFacts ==
  ASSUME NEW s \in Sections, s # <<>>, s[Len(s)].entries # <<>>, NEW v \in Strings
  PROVE  /\ SetValue(s, v) \in Sections /\ Len(SetValue(s, v)) = Len(s)
         /\ SetValue(s, v)[Len(s)].entries # <<>>
         /\ SetValue(s, v) = WithEntries(s, [s[Len(s)].entries EXCEPT
                                                ![Len(s[Len(s)].entries)].value = v])
<1> DEFINE x == s[Len(s)]
           y == x.entries
           m == Len(y)
           d == [y[m] EXCEPT !.value = v]
           z == [y EXCEPT ![m] = d]
<1>1. x \in Sec /\ y \in Seq(Entry)
  BY LastSection
<1>2. m \in Nat /\ m >= 1 /\ m \in 1 .. m /\ y[m] \in Entry
  <2> HIDE DEF y
  <2>1. m \in Nat /\ m >= 1 /\ m \in 1 .. m
    BY <1>1, EmptySeq DEF y
  <2> QED BY <1>1, <2>1, ElementOfSeq
<1>3. d \in Entry
  <2>1. y[m].key \in Strings
    BY <1>2 DEF Entry
  <2>2. d = [key |-> y[m].key, value |-> v]
    BY <1>2 DEF Entry
  <2> QED BY <2>1, <2>2 DEF Entry
<1>4. z \in Seq(Entry) /\ Len(z) = m /\ z # <<>>
  <2> HIDE DEF d, y
  <2>1. z \in Seq(Entry) /\ Len(z) = m
    BY <1>1, <1>2, <1>3, ExceptSeq
  <2> QED BY <1>2, <2>1, EmptySeq
<1>5. SetValue(s, v) = [s EXCEPT ![Len(s)] = [x EXCEPT !.entries = z]]
  BY LastSection, <1>2 DEF SetValue
<1>6. [x EXCEPT !.entries = z] = [name |-> x.name, entries |-> z]
  <2> HIDE DEF z, x
  <2> QED BY <1>1, ExceptEntries
<1>7. SetValue(s, v) = WithEntries(s, z)
  BY <1>5, <1>6 DEF WithEntries
<1>8. z = [y EXCEPT ![m].value = v]
  OBVIOUS
<1> HIDE DEF z
<1>9. /\ WithEntries(s, z) \in Sections /\ WithEntries(s, z) # <<>>
      /\ Len(WithEntries(s, z)) = Len(s) /\ WithEntries(s, z)[Len(s)].entries = z
  BY <1>4, WithEntriesFacts
<1> QED BY <1>4, <1>7, <1>8, <1>9

(* The value of an entry that was put with another one.                    *)
LEMMA ValueOfPut ==
  ASSUME NEW s \in Sections, s # <<>>, NEW k \in Strings, NEW u \in Strings,
         NEW v \in Strings
  PROVE  SetValue(Put(s, [key |-> k, value |-> u]), v)
           = Put(s, [key |-> k, value |-> v])
<1> DEFINE y == s[Len(s)].entries
           e == [key |-> k, value |-> u]
           f == [key |-> k, value |-> v]
           P == Put(s, e)
           m == Len(y) + 1
<1>1. e \in Entry /\ f \in Entry /\ y \in Seq(Entry) /\ Len(y) \in Nat
  <2>1. e \in Entry /\ f \in Entry
    BY DEF Entry
  <2>2. y \in Seq(Entry)
    BY LastSection
  <2> HIDE DEF y
  <2> QED BY <2>1, <2>2, LenProperties
<1>2. /\ P = WithEntries(s, Append(y, e)) /\ P \in Sections /\ Len(P) = Len(s)
      /\ P # <<>> /\ P[Len(s)].entries # <<>>
      /\ Append(y, e) \in Seq(Entry)
  BY <1>1, PutFacts
<1>3. Put(s, f) = WithEntries(s, Append(y, f)) /\ Append(y, f) \in Seq(Entry)
  BY <1>1, PutFacts
<1> HIDE DEF e, f
<1>4. P[Len(s)].entries = Append(y, e)
  <2> DEFINE a == Append(y, e)
  <2> HIDE DEF a
  <2>1. P = WithEntries(s, a) /\ a \in Seq(Entry)
    BY <1>2 DEF a
  <2>2. WithEntries(s, a)[Len(s)].entries = a
    BY <2>1, WithEntriesFacts
  <2> QED BY <2>1, <2>2 DEF a
<1>5. /\ Append(y, e) \in Seq(Entry) /\ Len(Append(y, e)) = m /\ Append(y, e)[m] = e
      /\ \A j \in 1 .. Len(y) : Append(y, e)[j] = y[j]
      /\ Append(y, f) \in Seq(Entry) /\ Len(Append(y, f)) = m /\ Append(y, f)[m] = f
      /\ \A j \in 1 .. Len(y) : Append(y, f)[j] = y[j]
  <2> HIDE DEF y
  <2> QED BY <1>1, AppendProperties
<1>6. [e EXCEPT !.value = v] = f
  BY DEF e, f
<1>7. [Append(y, e) EXCEPT ![m].value = v] = Append(y, f)
  <2> DEFINE a == Append(y, e)
             g == [a EXCEPT ![m] = f]
  <2> HIDE DEF y
  <2>1. [a EXCEPT ![m].value = v] = g
    BY <1>5, <1>6
  <2>2. m \in 1 .. Len(a)
    BY <1>1, <1>5
  <2>3. a \in Seq(Entry)
    BY <1>5
  <2> HIDE DEF a
  <2>4. /\ g \in Seq(Entry) /\ Len(g) = Len(a)
        /\ \A j \in 1 .. Len(a) : g[j] = IF j = m THEN f ELSE a[j]
    BY <1>1, <2>2, <2>3, ExceptSeq
  <2> HIDE DEF g
  <2>5. \A j \in 1 .. m : j = m \/ j \in 1 .. Len(y)
    BY <1>1
  <2>6. \A j \in 1 .. m : g[j] = Append(y, f)[j]
    BY <1>5, <2>4, <2>5 DEF a
  <2>7. g = Append(y, f)
    BY <1>5, <2>4, <2>6, SeqEqual DEF a
  <2> QED BY <2>1, <2>7 DEF a
<1>8. SetValue(P, v) = WithEntries(P, [P[Len(s)].entries EXCEPT
                                         ![Len(P[Len(s)].entries)].value = v])
  <2> HIDE DEF P
  <2>1. P \in Sections /\ P # <<>> /\ P[Len(P)].entries # <<>>
    BY <1>2
  <2>2. SetValue(P, v) = WithEntries(P, [P[Len(P)].entries EXCEPT
                                           ![Len(P[Len(P)].entries)].value = v])
    BY <2>1, SetValueFacts
  <2> QED BY <1>2, <2>2
<1>9. SetValue(P, v) = WithEntries(P, Append(y, f))
  BY <1>4, <1>5, <1>7, <1>8
<1>10. SetValue(P, v) = WithEntries(s, Append(y, f))
  <2> HIDE DEF y
  <2> QED BY <1>1, <1>2, <1>3, <1>9, WithEntriesTwice
<1> QED BY <1>3, <1>10 DEF e, f

-----------------------------------------------------------------------------
(* What lines mean.                                                        *)

(* New sections are sections.                                              *)
LEMMA SectionFacts ==
  ASSUME NEW name \in Strings
  PROVE  /\ Section(name) \in Sec
         /\ <<Section(name)>> \in Sections /\ <<Section(name)>> # <<>>
         /\ Len(<<Section(name)>>) = 1
         /\ \A s \in Sections : /\ Append(s, Section(name)) \in Sections
                                /\ Len(Append(s, Section(name))) = Len(s) + 1
<1>1. Section(name) \in Sec
  <2>1. <<>> \in Seq(Entry)
    BY ShortSeq
  <2> QED BY <2>1 DEF Section, Sec
<1> DEFINE x == Section(name)
<1> HIDE DEF x
<1>2. /\ <<x>> \in Seq(Sec) /\ Len(<<x>>) = 1 /\ <<x>> # <<>>
  BY <1>1, ShortSeq DEF x
<1>3. \A s \in Seq(Sec) : Append(s, x) \in Seq(Sec) /\ Len(Append(s, x)) = Len(s) + 1
  BY <1>1, AppendProperties DEF x
<1> QED BY <1>1, <1>2, <1>3 DEF x, Sections

(* The name of the default section is a string.                            *)
LEMMA DefaultName ==
  <<DEFAULT_SECTION>> \in Strings /\ NoString \in Strings /\ <<"?">> \in Strings
BY ShortSeq DEF Strings, Words, NoString

(* Where there is no section a default section is begun.                   *)
LEMMA BegunFacts ==
  ASSUME NEW s \in Sections
  PROVE  /\ Begun(s) \in Sections /\ Begun(s) # <<>>
         /\ Len(Begun(s)) = IF s = <<>> THEN 1 ELSE Len(s)
BY SectionFacts, DefaultName DEF Begun

(* What a line adds.                                                       *)
LEMMA ReadFacts ==
  ASSUME NEW s \in Sections, NEW L \in Lines
  PROVE  /\ Read(s, L) \in Sections
         /\ "section" \in DOMAIN L => Read(s, L) = Append(s, Section(<<L.section>>))
         /\ "key" \in DOMAIN L =>
              /\ [key |-> L.key, value |-> L.value] \in Entry
              /\ Read(s, L) = Put(Begun(s), [key |-> L.key, value |-> L.value])
         /\ "section" \notin DOMAIN L /\ "key" \notin DOMAIN L => Read(s, L) = s
<1>1. CASE "section" \in DOMAIN L
  <2>1. Read(s, L) = Append(s, Section(<<L.section>>)) /\ "key" \notin DOMAIN L
    BY <1>1, LineText DEF Read
  <2>2. <<L.section>> \in Strings
    BY <1>1, LineText, ShortSeq DEF Strings
  <2> QED BY <1>1, <2>1, <2>2, SectionFacts
<1>2. CASE "key" \in DOMAIN L
  <2> DEFINE e == [key |-> L.key, value |-> L.value]
  <2>1. "section" \notin DOMAIN L /\ L.key \in Strings /\ L.value \in Strings
    BY <1>2, LineText
  <2>2. e \in Entry
    BY <2>1 DEF Entry
  <2>3. Read(s, L) = Put(Begun(s), e)
    BY <1>2, <2>1 DEF Read, Put, Begun
  <2> HIDE DEF e
  <2>4. Read(s, L) \in Sections
    BY <2>2, <2>3, BegunFacts, PutFacts
  <2> QED BY <1>2, <2>1, <2>2, <2>3, <2>4 DEF e
<1>3. CASE "section" \notin DOMAIN L /\ "key" \notin DOMAIN L
  BY <1>3 DEF Read
<1> QED BY <1>1, <1>2, <1>3

(* The sections that the recursive definition gives.                       *)
LEMMA MeaningDef ==
  ASSUME file \in Files
  PROVE  /\ Meaning[0] = <<>> /\ \A n \in 0 .. Len(file) : Meaning[n] \in Sections
         /\ \A n \in 1 .. Len(file) : Meaning[n] = Read(Meaning[n - 1], file[n])
<1> DEFINE N == Len(file)
           step == [n \in 1 .. N |-> [s \in Sections |-> Read(s, file[n])]]
           Fits(g) == g = [n \in 0 .. N |-> IF n = 0 THEN <<>>
                                            ELSE Read(g[n - 1], file[n])]
<1>0. /\ N \in Nat /\ <<>> \in Sections
      /\ \A n \in 1 .. N : \A s \in Sections : Read(s, file[n]) \in Sections
  BY FileLines, ReadFacts, ShortSeq DEF Sections
<1>1. \A n \in 1 .. N : step[n] \in [Sections -> Sections]
  BY <1>0
<1>2. Solution(N, Sections, <<>>, step)
  <2> HIDE DEF step, N
  <2> QED BY <1>0, <1>1, Recursion
<1>3. PICK g \in [0 .. N -> Sections] :
        g[0] = <<>> /\ \A n \in 1 .. N : g[n] = step[n][g[n - 1]]
  BY <1>2 DEF Solution
<1>4. \A n \in 1 .. N : g[n] = Read(g[n - 1], file[n])
  <2> TAKE n \in 1 .. N
  <2>0. n - 1 \in 0 .. N
    BY <1>0
  <2>1. g[n - 1] \in Sections
    BY <1>3, <2>0
  <2>2. step[n][g[n - 1]] = Read(g[n - 1], file[n])
    BY <2>1
  <2> QED BY <1>3, <2>2
<1>5. Fits(g)
  <2>1. \A n \in 0 .. N : n = 0 \/ n \in 1 .. N
    BY <1>0
  <2>2. \A n \in 0 .. N : g[n] = IF n = 0 THEN <<>> ELSE Read(g[n - 1], file[n])
    BY <1>3, <1>4, <2>1
  <2>3. g = [n \in 0 .. N |-> g[n]]
    BY <1>3
  <2> QED BY <2>2, <2>3
<1>6. Fits(Meaning)
  <2>1. Meaning = CHOOSE f : Fits(f)
    BY DEF Meaning
  <2> HIDE DEF Fits
  <2> QED BY <1>5, <2>1
<1>7. \A n \in 0 .. N : Meaning[n] = IF n = 0 THEN <<>>
                                     ELSE Read(Meaning[n - 1], file[n])
  BY <1>6
<1>8. Meaning[0] = <<>> /\ \A n \in 1 .. N : Meaning[n] = Read(Meaning[n - 1], file[n])
  <2>1. \A n \in 1 .. N : n \in 0 .. N /\ n # 0
    BY <1>0
  <2> QED BY <1>0, <1>7, <2>1
<1>9. \A n \in 0 .. N : Meaning[n] \in Sections
  <2> DEFINE S == {n \in 0 .. N : Meaning[n] \in Sections}
  <2>1. 0 \in S
    BY <1>0, <1>8
  <2>2. ASSUME NEW n \in 0 .. N, n \in S, n < N
        PROVE  n + 1 \in S
    <3>1. n + 1 \in 1 .. N /\ n + 1 \in 0 .. N /\ (n + 1) - 1 = n
      BY <1>0, <2>2
    <3>2. Meaning[n + 1] = Read(Meaning[n], file[n + 1])
      BY <1>8, <3>1
    <3> QED BY <1>0, <2>2, <3>1, <3>2
  <2>3. \A n \in 0 .. N : n \in S
    <3> HIDE DEF S, N
    <3> QED BY <1>0, <2>1, <2>2, Induction
  <2> QED BY <2>3
<1> QED BY <1>8, <1>9

(* They are those of the file, which does not change.                      *)
LEMMA FileStays ==
  ASSUME file' = file
  PROVE  Ends' = Ends /\ Meaning' = Meaning
BY DEF Ends, Meaning, Read, Section

-----------------------------------------------------------------------------
(* The parser keeps its types, its text and its list of sections.          *)

(* What the parser takes for a string is one.                              *)
LEMMA TakenStrings ==
  ASSUME TextInv, ParserTypeOK, p < Len(text)
  PROVE  string_create \in Strings /\ value_create \in Strings
<1>1. Taken \in Strings
  <2>1. CASE q = 0
    BY <2>1, DefaultName DEF Taken
  <2>2. CASE q # 0
    <3>1. text \in Seq(Words) /\ Len(text) \in Nat
      BY LenProperties DEF TextInv, Strings
    <3>2. q \in Int /\ p \in Int /\ q >= 1
      BY <2>2, <3>1 DEF ParserTypeOK
    <3>3. \A j \in q .. p : text[j] \in Words
      <4> TAKE j \in q .. p
      <4>1. j \in 1 .. Len(text)
        BY <3>1, <3>2
      <4> QED BY <3>1, <4>1, ElementOfSeq
    <3>4. SubSeq(text, q, p) \in Seq(Words)
      <4> DEFINE x == q
                 y == p
      <4>1. x \in Int /\ y \in Int /\ \A j \in x .. y : text[j] \in Words
        BY <3>2, <3>3
      <4> HIDE DEF x, y
      <4>2. SubSeq(text, x, y) \in Seq(Words)
        BY <4>1, SubSeqProperties
      <4> QED BY <4>2 DEF x, y
    <3> QED BY <2>2, <3>4 DEF Taken, Strings
  <2> QED BY <2>1, <2>2
<1>2. string_create \in Strings
  BY <1>1, Stripped DEF string_create
<1>3. \A s \in Strings : string_unescape(s) \in Strings
  <2> TAKE s \in Strings
  <2>1. Len(s) \in Nat /\ Len(s) \in 0 .. Len(s)
    BY LenProperties DEF Strings
  <2> QED BY <2>1, Unescaped
<1> QED BY <1>2, <1>3 DEF value_create

(* The entry that is begun has no value yet.                               *)
LEMMA WithEntryFacts ==
  ASSUME NEW s \in Sections, s # <<>>, NEW k \in Strings
  PROVE  /\ WithEntry(s, k) = Put(s, [key |-> k, value |-> NoString])
         /\ [key |-> k, value |-> NoString] \in Entry
         /\ WithEntry(s, k) \in Sections /\ WithEntry(s, k) # <<>>
         /\ Len(WithEntry(s, k)) = Len(s)
         /\ WithEntry(s, k)[Len(s)].entries # <<>>
<1> DEFINE e == [key |-> k, value |-> NoString]
<1>1. e \in Entry
  BY DefaultName DEF Entry
<1>2. WithEntry(s, k) = Put(s, e)
  BY DEF WithEntry, Put
<1> HIDE DEF e
<1> QED BY <1>1, <1>2, PutFacts DEF e

(* The first of a list.                                                    *)
LEMMA AppendToNone ==
  ASSUME NEW x
  PROVE  Append(<<>>, x) = <<x>>
OBVIOUS

(* section_create and entry_create.                                        *)
LEMMA LinkedFacts ==
  ASSUME LinkInv, NEW name \in Strings
  PROVE  /\ Linked(Section(name)) \in Sections
         /\ Len(Linked(Section(name))) = prev + 1
         /\ prev \in Nat /\ Len(section) \in Nat
         /\ prev = Len(section) => Linked(Section(name)) = Append(section, Section(name))
         /\ prev = 0 => Linked(Section(name)) = <<Section(name)>>
<1>1. section \in Seq(Sec) /\ Len(section) \in Nat /\ prev \in {0, Len(section)}
  BY LenProperties DEF LinkInv, Sections
<1> DEFINE x == Section(name)
<1>2. x \in Sec
  BY SectionFacts
<1> HIDE DEF x
<1>3. CASE prev = Len(section)
  <2>1. SubSeq(section, 1, prev) = section
    BY <1>1, <1>3, SubSeqFull
  <2>2. Linked(x) = Append(section, x)
    BY <2>1 DEF Linked
  <2>3. /\ Append(section, x) \in Seq(Sec) /\ Len(Append(section, x)) = Len(section) + 1
        /\ Len(section) = 0 => Append(section, x) = <<x>>
    <3>1. Len(section) = 0 => section = <<>>
      BY <1>1, EmptySeq
    <3>2. /\ Append(section, x) \in Seq(Sec)
          /\ Len(Append(section, x)) = Len(section) + 1
      BY <1>1, <1>2, AppendProperties
    <3> QED BY <3>1, <3>2, AppendToNone
  <2> QED BY <1>1, <1>3, <2>2, <2>3 DEF x, Sections
<1>4. CASE prev = 0 /\ Len(section) # 0
  <2>1. SubSeq(section, 1, prev) = <<>>
    BY <1>4, SubSeqEmpty
  <2>2. Linked(x) = <<x>>
    BY <2>1, AppendToNone DEF Linked
  <2>3. <<x>> \in Seq(Sec) /\ Len(<<x>>) = 1
    BY <1>2, ShortSeq
  <2> QED BY <1>1, <1>4, <2>2, <2>3 DEF x, Sections
<1> QED BY <1>1, <1>3, <1>4

-----------------------------------------------------------------------------
(* The types of the parser's variables and the links of its lists.         *)
TypeInv == TextInv /\ ParserTypeOK /\ LinkInv

(* What no step changes, and what only chunks change.                      *)
LEMMA TextStays ==
  ASSUME TextInv, UNCHANGED <<file, text>>
  PROVE  TextInv'
BY FileStays DEF TextInv

(* A step of config_parse keeps the types, the text and the list.          *)
LEMMA TypeParses ==
  ASSUME TypeInv, config_parse
  PROVE  TypeInv'
<1>0. /\ UNCHANGED <<file, text, chunk, torn>> /\ TextInv /\ TextInv'
      /\ ParserTypeOK /\ LinkInv /\ p < Len(text) /\ Len(text) \in Nat
      /\ p \in Nat /\ file' \in Files
  BY TextStays, LenProperties DEF config_parse, TypeInv, TextInv, Strings, ParserTypeOK
<1>1. /\ section \in Sections /\ Len(section) \in Nat
      /\ prev \in {0, Len(section)} /\ prev \in Nat
      /\ string_create \in Strings /\ value_create \in Strings
  BY <1>0, TakenStrings, LenProperties DEF LinkInv, Sections
<1>2. CASE InitialState
  <2>1. /\ UNCHANGED <<section, tail, prev, entry>> /\ flag' \in {0, 1, 2}
        /\ p' \in 0 .. Len(text) + 1 /\ q' \in 0 .. Len(text) + 1
    BY <1>0, <1>2 DEF InitialState, Kept, ParserTypeOK
  <2>2. LinkInv'
    BY <1>0, <2>1 DEF LinkInv
  <2>3. ParserTypeOK'
    BY <1>0, <2>1 DEF ParserTypeOK
  <2> QED BY <1>0, <2>2, <2>3 DEF TypeInv
<1>3. CASE SectionReading
  <2>0. p' = p + 1 /\ q' = q /\ flag' \in {0, 1} /\ entry' = entry
    BY <1>3 DEF SectionReading, Kept
  <2>1. CASE UNCHANGED <<section, tail, prev>>
    <3>1. LinkInv'
      BY <1>0, <2>0, <2>1 DEF LinkInv
    <3>2. ParserTypeOK'
      BY <1>0, <2>0, <2>1 DEF ParserTypeOK
    <3> QED BY <1>0, <3>1, <3>2 DEF TypeInv
  <2>2. CASE ~UNCHANGED <<section, tail, prev>>
    <3>1. /\ section' = Linked(Section(string_create))
          /\ tail' = prev + 1 /\ prev' = prev + 1
      BY <1>3, <2>2 DEF SectionReading, Kept
    <3>2. section' \in Sections /\ Len(section') = prev + 1
      BY <1>0, <1>1, <3>1, LinkedFacts
    <3>3. LinkInv'
      BY <1>0, <1>1, <2>0, <3>1, <3>2 DEF LinkInv
    <3>4. ParserTypeOK'
      BY <1>0, <1>1, <2>0, <3>1, <3>2 DEF ParserTypeOK
    <3> QED BY <1>0, <3>3, <3>4 DEF TypeInv
  <2> QED BY <2>1, <2>2
<1>4. CASE KeyReading
  <2>0. p' = p + 1 /\ q' = q /\ tail' = tail
    BY <1>4 DEF KeyReading, Kept
  <2>1. CASE flag' = 2 /\ UNCHANGED <<section, prev, entry>>
    <3>1. LinkInv'
      BY <1>0, <2>0, <2>1 DEF LinkInv
    <3>2. ParserTypeOK'
      BY <1>0, <2>0, <2>1 DEF ParserTypeOK
    <3> QED BY <1>0, <3>1, <3>2 DEF TypeInv
  <2>2. CASE ~(flag' = 2 /\ UNCHANGED <<section, prev, entry>>)
    <3>1. /\ entry' = TRUE /\ flag' = 3
          /\ \/ /\ prev = 0 /\ prev' = 1
                /\ section' = WithEntry(Linked(Section(<<DEFAULT_SECTION>>)),
                                        string_create)
             \/ prev # 0 /\ prev' = prev /\ section' = WithEntry(section, string_create)
      BY <1>4, <2>2 DEF KeyReading, Kept
    <3>2. PICK s \in Sections :
            /\ s # <<>> /\ Len(s) = prev' /\ prev' # 0 /\ prev' \in Nat
            /\ tail \in {0, prev'} /\ section' = WithEntry(s, string_create)
      <4>1. CASE prev = 0
        <5> DEFINE s == Linked(Section(<<DEFAULT_SECTION>>))
        <5>1. s \in Sections /\ Len(s) = 1 /\ s = <<Section(<<DEFAULT_SECTION>>)>>
          BY <1>0, <4>1, DefaultName, LinkedFacts
        <5>2. s # <<>>
          BY <5>1, SectionFacts, DefaultName
        <5>3. tail = 0
          BY <1>0, <4>1 DEF ParserTypeOK
        <5> QED BY <3>1, <4>1, <5>1, <5>2, <5>3
      <4>2. CASE prev # 0
        <5>1. section # <<>> /\ prev = Len(section)
          BY <1>1, <4>2, EmptySeq
        <5>2. tail \in {0, prev}
          BY <1>0 DEF ParserTypeOK
        <5> QED BY <1>1, <3>1, <4>2, <5>1, <5>2
      <4> QED BY <4>1, <4>2
    <3>3. /\ section' \in Sections /\ Len(section') = prev'
          /\ section'[prev'].entries # <<>>
      BY <1>1, <3>2, WithEntryFacts
    <3>4. LinkInv'
      BY <1>0, <3>1, <3>2, <3>3 DEF LinkInv
    <3>5. ParserTypeOK'
      BY <1>0, <2>0, <3>1, <3>2, <3>3 DEF ParserTypeOK
    <3> QED BY <1>0, <3>4, <3>5 DEF TypeInv
  <2> QED BY <2>1, <2>2
<1>5. CASE ValueStart
  <2>1. /\ UNCHANGED <<section, tail, prev, entry>> /\ flag = 3 /\ flag' \in {3, 4, 5}
        /\ p' = p + 1 /\ q' \in 0 .. Len(text) + 1
    BY <1>0, <1>5 DEF ValueStart, Kept, ParserTypeOK
  <2>2. LinkInv'
    BY <1>0, <2>1 DEF LinkInv
  <2>3. ParserTypeOK'
    BY <1>0, <2>1 DEF ParserTypeOK
  <2> QED BY <1>0, <2>2, <2>3 DEF TypeInv
<1>6. ASSUME NEW f \in {4, 5}, NEW end, ValueReading(f, end)
      PROVE  TypeInv'
  <2>0. /\ p' = p + 1 /\ UNCHANGED <<q, tail, prev, entry>>
        /\ flag = f /\ flag' \in {0, f}
    BY <1>6 DEF ValueReading
  <2>1. CASE UNCHANGED section
    <3>1. LinkInv'
      BY <1>0, <2>0, <2>1 DEF LinkInv
    <3>2. ParserTypeOK'
      BY <1>0, <2>0, <2>1 DEF ParserTypeOK
    <3> QED BY <1>0, <3>1, <3>2 DEF TypeInv
  <2>2. CASE ~UNCHANGED section
    <3>1. entry /\ section' = [section EXCEPT ![prev].entries[PrevEntry].value =
                                 value_create]
      BY <1>6, <2>2 DEF ValueReading
    <3>2. prev # 0 /\ section[prev].entries # <<>> /\ prev = Len(section)
          /\ section # <<>>
      BY <1>0, <1>1, <2>0, <3>1, EmptySeq DEF LinkInv
    <3>3. section' = SetValue(section, value_create)
      BY <3>1, <3>2 DEF SetValue, PrevEntry
    <3>4. section' \in Sections /\ Len(section') = Len(section)
          /\ section'[prev].entries # <<>>
      BY <1>1, <3>2, <3>3, SetValueFacts
    <3>5. LinkInv'
      BY <1>0, <2>0, <3>2, <3>4 DEF LinkInv
    <3>6. ParserTypeOK'
      BY <1>0, <2>0, <3>4 DEF ParserTypeOK
    <3> QED BY <1>0, <3>5, <3>6 DEF TypeInv
  <2> QED BY <2>1, <2>2
<1> QED BY <1>2, <1>3, <1>4, <1>5, <1>6 DEF config_parse

(* So does a new chunk, which enters the list again.                       *)
LEMMA TypeChunk ==
  ASSUME TypeInv, NextChunk
  PROVE  TypeInv'
<1>1. /\ UNCHANGED <<file, text, p, flag, section, tail>> /\ TextInv /\ TextInv'
      /\ chunk < MaxChunks /\ chunk' = chunk + 1 /\ q' = 0 /\ prev' = tail
      /\ torn' = (torn \/ flag \notin {0, 3} \/ prev # tail)
      /\ entry' = (tail # 0 /\ section[tail].entries # <<>>)
  BY TextStays DEF NextChunk, TypeInv
<1>2. /\ section \in Sections /\ Len(section) \in Nat /\ tail \in {0, prev}
      /\ prev \in {0, Len(section)} /\ (~torn => prev = Len(section))
      /\ Len(text) \in Nat
  BY LenProperties DEF TypeInv, TextInv, LinkInv, Sections, ParserTypeOK, Strings
<1>3. LinkInv'
  BY <1>1, <1>2 DEF LinkInv
<1>4. chunk' \in 1 .. MaxChunks
  BY <1>1, ConfigAssumption DEF TypeInv, ParserTypeOK
<1>5. torn' \in BOOLEAN /\ entry' \in BOOLEAN
  BY <1>1
<1>6. ParserTypeOK'
  BY <1>1, <1>2, <1>4, <1>5 DEF TypeInv, ParserTypeOK
<1> QED BY <1>1, <1>3, <1>6 DEF TypeInv

(* And they hold when the parser starts.                                   *)
LEMMA TypeStarts ==
  ASSUME ParserInit
  PROVE  TypeInv
<1>1. TextInv
  BY TextInit
<1>2. Len(text) \in Nat
  BY <1>1, LenProperties DEF TextInv, Strings
<1>3. LinkInv
  BY ShortSeq DEF ParserInit, LinkInv, Sections
<1>4. ParserTypeOK
  <2>1. 1 \in 1 .. MaxChunks
    BY ConfigAssumption
  <2>2. Len(section) = 0
    BY EmptySeq DEF ParserInit
  <2>3. file \in Files /\ entry \in BOOLEAN /\ torn \in BOOLEAN
    BY DEF ParserInit
  <2>4. /\ p = 0 /\ q = 0 /\ flag = 0 /\ tail = 0 /\ prev = 0 /\ chunk = 1
    BY DEF ParserInit
  <2> QED BY <1>2, <2>1, <2>2, <2>3, <2>4 DEF ParserTypeOK
<1> QED BY <1>1, <1>3, <1>4 DEF TypeInv

-----------------------------------------------------------------------------
(* The place of the parser, from character to character.                   *)

(* What line n + 1 adds to the meaning of those before it, and to what     *)
(* must be sound.                                                          *)
LEMMA MeaningNext ==
  ASSUME file \in Files, NEW n \in 0 .. Len(file), n < Len(file)
  PROVE  /\ n + 1 \in 1 .. Len(file) /\ file[n + 1] \in Lines
         /\ Meaning[n] \in Sections
         /\ Meaning[n + 1] = Read(Meaning[n], file[n + 1])
         /\ Sound(n + 1) <=> Sound(n) /\ ~NoValue(n + 1)
<1>1. /\ Len(file) \in Nat /\ n + 1 \in 1 .. Len(file) /\ (n + 1) - 1 = n
      /\ file[n + 1] \in Lines
  BY FileLines
<1>2. Meaning[n + 1] = Read(Meaning[n], file[n + 1]) /\ Meaning[n] \in Sections
  BY <1>1, MeaningDef
<1>3. \A i \in 1 .. n + 1 : i \in 1 .. n \/ i = n + 1
  BY <1>1
<1>4. \A i \in 1 .. n : i \in 1 .. n + 1
  BY <1>1
<1>5. n + 1 \in 1 .. n + 1
  BY <1>1
<1>6. Sound(n + 1) <=> Sound(n) /\ ~NoValue(n + 1)
  <2> HIDE DEF NoValue
  <2> QED BY <1>3, <1>4, <1>5 DEF Sound
<1> QED BY <1>1, <1>2, <1>6

(* What is sound or meant does not change with the position.               *)
LEMMA MeansStays ==
  ASSUME UNCHANGED file, torn => torn', NEW n
  PROVE  /\ NoValue(n)' <=> NoValue(n)
         /\ Sound(n)' => Sound(n)
         /\ UNCHANGED section /\ Means(n) => Means(n)'
         /\ UNCHANGED <<section, entry>> /\ Keyed(n) => Keyed(n)'
<1>1. NoValue(n)' <=> NoValue(n)
  BY DEF NoValue
<1>2. Sound(n)' => Sound(n)
  BY DEF Sound, NoValue
<1>3. UNCHANGED section /\ Means(n) => Means(n)'
  BY <1>2, FileStays DEF Means
<1>4. UNCHANGED <<section, entry>> /\ Keyed(n) => Keyed(n)'
  BY <1>2, FileStays DEF Keyed
<1> QED BY <1>1, <1>3, <1>4, <1>2

(* The parser has come to the next place of the line, or to its end.       *)
LEMMA WithinLine ==
  ASSUME TypeInv, UNCHANGED file, NEW n \in 0 .. Len(file), n < Len(file),
         NEW j \in 1 .. Len(file[n + 1].text), p' = Ends[n] + j,
         j < Len(file[n + 1].text),
         \/ Swallows(n)' \/ InSection(n, j)'
         \/ /\ "key" \in DOMAIN file[n + 1]
            /\ \E b, e, v, w \in 1 .. Len(file[n + 1].text) + 1 :
                 Landmarks(file[n + 1], b, e, v, w) /\ InEntry(n, j, b, e, v, w)'
  PROVE  PlaceInv'
<1>1. j \in Nat /\ j # 0 /\ n \in (0 .. Len(file))'
  BY FileLines DEF TypeInv, TextInv
<1>2. Within(n, j)'
  BY DEF Within
<1>3. Place(n, j)'
  BY <1>1, <1>2, FileStays DEF Place
<1> QED BY <1>1, <1>3 DEF PlaceInv

(* At the end of a line the parser is at the start of the next.            *)
LEMMA AtLineEnd ==
  ASSUME TypeInv, UNCHANGED file, NEW n \in 0 .. Len(file), n < Len(file),
         p' = Ends[n] + Len(file[n + 1].text),
         \/ flag' = 0 /\ Means(n + 1)'
         \/ flag' = 4 /\ NoValue(n + 1)
  PROVE  PlaceInv'
<1>1. /\ n + 1 \in 0 .. Len(file) /\ n + 1 # 0 /\ n + 1 \in 1 .. Len(file)
      /\ (n + 1) - 1 = n /\ 0 \in Nat
  BY FileLines DEF TypeInv, TextInv
<1>2. Ends[n + 1] = Ends[n] + Len(file[n + 1].text) /\ Ends[n + 1] \in Nat
  BY <1>1, EndsDef DEF TypeInv, TextInv
<1>3. p' = Ends'[n + 1] + 0
  BY <1>2, FileStays
<1>4. Starts(n + 1, 0)' \/ Swallows(n + 1)'
  BY <1>1 DEF Starts, Swallows, NoValue
<1>5. Place(n + 1, 0)'
  BY <1>3, <1>4 DEF Place
<1>6. n + 1 \in (0 .. Len(file))'
  BY <1>1
<1> QED BY <1>1, <1>5, <1>6 DEF PlaceInv

(* Where the parser is, there is a line to parse.                          *)
LEMMA PlaceInLine ==
  ASSUME TypeInv, p < Len(text), NEW n \in 0 .. Len(file), NEW k \in Nat, Place(n, k)
  PROVE  /\ n < Len(file) /\ k < Len(file[n + 1].text)
         /\ c = file[n + 1].text[k + 1] /\ Ends[n] \in Nat
         /\ Len(file[n + 1].text) \in Nat /\ file[n + 1] \in Lines
         /\ \/ Starts(n, k)
            \/ Swallows(n)
            \/ InSection(n, k)
            \/ /\ "key" \in DOMAIN file[n + 1]
               /\ \E b, e, v, w \in 1 .. Len(file[n + 1].text) + 1 :
                    Landmarks(file[n + 1], b, e, v, w) /\ InEntry(n, k, b, e, v, w)
<1>1. n < Len(file)
  <2>1. ASSUME n = Len(file)
        PROVE  FALSE
    <3>1. k = 0
      BY <2>1, FileLines DEF Place, Starts, Within, TypeInv, TextInv
    <3>2. p = Len(text)
      BY <2>1, <3>1, FileLines, EndsDef DEF Place, TypeInv, TextInv
    <3> QED BY <3>2, LenProperties DEF TypeInv, TextInv, Strings
  <2>2. Len(file) \in Nat
    BY FileLines DEF TypeInv, TextInv
  <2> QED BY <2>1, <2>2
<1>2. /\ n + 1 \in 1 .. Len(file) /\ file[n + 1] \in Lines
      /\ Len(file[n + 1].text) \in Nat /\ Len(file[n + 1].text) >= 1
  BY <1>1, FileLines DEF TypeInv, TextInv
<1>3. k < Len(file[n + 1].text)
  BY <1>2 DEF Place, Starts, Within
<1>4. c = file[n + 1].text[k + 1] /\ Ends[n] \in Nat
  BY <1>1, <1>3, NextChar DEF Place, TypeInv
<1> QED BY <1>1, <1>2, <1>3, <1>4 DEF Place, Within

(* Where a step of the parser begins.                                      *)
LEMMA ParseStart ==
  ASSUME TypeInv, config_parse, NEW n \in 0 .. Len(file), n < Len(file),
         NEW k \in Nat, k < Len(file[n + 1].text), p = Ends[n] + k
  PROVE  /\ UNCHANGED <<file, text, torn>> /\ Len(file) \in Nat
         /\ n + 1 \in 1 .. Len(file) /\ file[n + 1] \in Lines
         /\ file[n + 1].text \in Strings /\ Len(file[n + 1].text) \in Nat
         /\ Ends[n] \in Nat /\ p \in Nat /\ p + 1 = Ends[n] + (k + 1)
         /\ p + 2 = Ends[n] + (k + 2)
         /\ c = file[n + 1].text[k + 1] /\ k + 1 \in 1 .. Len(file[n + 1].text)
         /\ k + 1 = Len(file[n + 1].text) \/ k + 1 < Len(file[n + 1].text)
<1>1. UNCHANGED <<file, text, torn>> /\ file \in Files
  BY DEF config_parse, TypeInv, TextInv
<1>2. Len(file) \in Nat /\ n + 1 \in 1 .. Len(file)
  BY <1>1, FileLines
<1>3. /\ file[n + 1] \in Lines
      /\ file[n + 1].text \in Strings /\ Len(file[n + 1].text) \in Nat
  BY <1>1, <1>2, FileLines
<1>4. c = file[n + 1].text[k + 1] /\ Ends[n] \in Nat
  BY NextChar DEF TypeInv
<1>5. p \in Nat /\ p + 1 = Ends[n] + (k + 1) /\ p + 2 = Ends[n] + (k + 2)
  BY <1>4
<1>6. /\ k + 1 \in 1 .. Len(file[n + 1].text)
      /\ k + 1 = Len(file[n + 1].text) \/ k + 1 < Len(file[n + 1].text)
  BY <1>3
<1> QED BY <1>1, <1>2, <1>3, <1>4, <1>5, <1>6

(* A line is swallowed for the value of the key before it.                 *)
LEMMA SwallowingStep ==
  ASSUME TypeInv, config_parse, NEW n \in 0 .. Len(file), n < Len(file),
         NEW k \in Nat, k < Len(file[n + 1].text), p = Ends[n] + k, Swallows(n)
  PROVE  PlaceInv'
<1> DEFINE t == file[n + 1].text
<1>0. /\ UNCHANGED <<file, text, torn>> /\ Len(file) \in Nat /\ n + 1 \in 1 .. Len(file)
      /\ file[n + 1] \in Lines /\ Len(t) \in Nat /\ Ends[n] \in Nat
      /\ c = t[k + 1] /\ k + 1 \in 1 .. Len(t) /\ p + 1 = Ends[n] + (k + 1)
      /\ k + 1 = Len(t) \/ k + 1 < Len(t)
  BY ParseStart
<1>1. flag = 4 /\ n # 0 /\ NoValue(n)
  BY DEF Swallows
<1>2. /\ p' = Ends[n] + (k + 1)
      /\ c # EOL => flag' = 4
      /\ c = EOL => flag' = 0
  <2>1. ValueReading(4, EOL)
    BY <1>1 DEF config_parse, InitialState, SectionReading, KeyReading, ValueStart,
                ValueReading
  <2> QED BY <1>0, <2>1 DEF ValueReading
<1>3. CASE k + 1 < Len(t)
  <2>1. c # EOL
    <3>1. \A i \in 1 .. Len(t) - 1 : t[i] # EOL
      BY <1>0, LineText
    <3> HIDE DEF t
    <3>2. k + 1 \in 1 .. Len(t) - 1
      BY <1>0, <1>3
    <3> QED BY <1>0, <3>1, <3>2
  <2>2. Swallows(n)'
    BY <1>0, <1>1, <1>2, <2>1 DEF Swallows, NoValue
  <2> QED BY <1>0, <1>2, <1>3, <2>2, WithinLine
<1>4. CASE k + 1 = Len(t)
  <2>1. c = EOL
    BY <1>0, <1>4, LineText
  <2>2. n \in 1 .. n + 1 /\ NoValue(n)'
    BY <1>0, <1>1 DEF NoValue
  <2>3. ~Sound(n + 1)'
    BY <2>2 DEF Sound
  <2>4. Means(n + 1)'
    BY <2>3 DEF Means
  <2> QED BY <1>0, <1>2, <1>4, <2>1, <2>4, AtLineEnd
<1> QED BY <1>0, <1>3, <1>4

(* A line without a key begins, and a section header is read.              *)
LEMMA HeaderStep ==
  ASSUME TypeInv, config_parse, NEW n \in 0 .. Len(file), n < Len(file),
         NEW k \in Nat, k < Len(file[n + 1].text), p = Ends[n] + k,
         (Starts(n, k) /\ "key" \notin DOMAIN file[n + 1]) \/ InSection(n, k)
  PROVE  PlaceInv'
<1> DEFINE t == file[n + 1].text
           L == file[n + 1]
<1>0. /\ UNCHANGED <<file, text, torn>> /\ Len(file) \in Nat /\ n + 1 \in 1 .. Len(file)
      /\ L \in Lines /\ Len(t) \in Nat /\ Ends[n] \in Nat
      /\ c = t[k + 1] /\ p + 1 = Ends[n] + (k + 1) /\ p + 2 = Ends[n] + (k + 2)
  BY ParseStart
<1>1. CASE Starts(n, k) /\ "key" \notin DOMAIN L /\ "section" \notin DOMAIN L
  <2>1. t = <<EOL>> /\ k = 0 /\ flag = 0
    BY <1>0, <1>1, LineText DEF Starts
  <2>2. c = EOL /\ Len(t) = 1
    BY <1>0, <2>1, ShortSeq
  <2>3. p' = p + 1 /\ flag' = 0 /\ section' = section
    BY <2>1, <2>2 DEF config_parse, InitialState, SectionReading, KeyReading,
                      ValueStart, ValueReading, Kept, Blank, EOL, SP
  <2>4. Means(n + 1)
    BY <1>0, <1>1, MeaningNext, ReadFacts DEF Starts, Means, TypeInv, TextInv
  <2>5. Means(n + 1)'
    BY <1>0, <2>3, <2>4, MeansStays
  <2>6. p' = Ends[n] + Len(t)
    BY <1>0, <2>1, <2>2, <2>3
  <2> QED BY <1>0, <2>3, <2>5, <2>6, AtLineEnd
<1>2. ASSUME "section" \in DOMAIN L
      PROVE  /\ Len(t) = 4 /\ t[1] = "[" /\ t[3] = "]" /\ t[4] = EOL /\ t \in Strings
             /\ t[2] = L.section /\ L.section \in Words /\ L.section \notin Blank
  <2>1. t = <<"[", L.section, "]", EOL>> /\ L.section \in Words \ Blank /\ t \in Strings
    BY <1>0, <1>2, LineText
  <2> HIDE DEF t, L
  <2>2. Len(t) = 4 /\ t[1] = "[" /\ t[2] = L.section /\ t[3] = "]" /\ t[4] = EOL
    BY <2>1
  <2> QED BY <2>1, <2>2
<1>3. CASE Starts(n, k) /\ "section" \in DOMAIN L
  <2>1. c = "[" /\ flag = 0 /\ k = 0
    BY <1>0, <1>2, <1>3 DEF Starts
  <2>2. p' = p + 2 /\ flag' = 1 /\ q' = p + 2 /\ section' = section
    BY <2>1 DEF config_parse, InitialState, SectionReading, KeyReading,
                ValueStart, ValueReading, Kept, Blank, EOL, SP
  <2>3. Means(n)'
    BY <1>0, <1>3, <2>2, MeansStays DEF Starts
  <2>4. InSection(n, 2)'
    BY <1>0, <1>3, <2>1, <2>2, <2>3, FileStays DEF InSection
  <2>5. 2 \in 1 .. Len(t) /\ 2 < Len(t) /\ p' = Ends[n] + 2
    <3>1. Len(t) = 4
      BY <1>2, <1>3
    <3>2. p + 2 = Ends[n] + (k + 2) /\ k + 2 = 2
      BY <1>0, <2>1
    <3> QED BY <2>2, <3>1, <3>2
  <2> QED BY <1>0, <2>4, <2>5, WithinLine
<1>4. CASE InSection(n, k) /\ k = 2
  <2>1. c = "]" /\ flag = 1 /\ "section" \in DOMAIN L
    BY <1>0, <1>2, <1>4 DEF InSection
  <2>2. p' = p + 1 /\ flag' = 0 /\ section' = Linked(Section(string_create))
    BY <2>1 DEF config_parse, InitialState, SectionReading, KeyReading,
                ValueStart, ValueReading, Kept
  <2>3. ASSUME Sound(n)
        PROVE  section' = Append(section, Section(<<L.section>>))
    <3>1. q = Ends[n] + 2 /\ ~torn
      BY <1>4, <2>3 DEF InSection, Sound
    <3>2. Taken = SubSeq(t, 2, 2)
      <4>1. 2 \in 1 .. Len(t) /\ 2 \in 2 .. Len(t) /\ p = Ends[n] + 2
        BY <1>2, <1>4, <2>1
      <4> QED BY <3>1, <4>1, TakenFromLine DEF TypeInv
    <3>3. SubSeq(t, 2, 2) = <<L.section>>
      <4>1. 2 \in 1 .. Len(t)
        BY <1>2, <2>1
      <4>2. SubSeq(t, 2, 2) = <<t[2]>>
        BY <1>2, <2>1, <4>1, Part
      <4> QED BY <1>2, <2>1, <4>2
    <3>4. string_create = <<L.section>>
      BY <1>2, <2>1, <3>2, <3>3, ShortStripped DEF string_create
    <3>5. <<L.section>> \in Strings
      BY <1>2, <2>1, ShortSeq DEF Strings
    <3>6. prev = Len(section) /\ LinkInv
      BY <3>1 DEF TypeInv, LinkInv
    <3> QED BY <2>2, <3>4, <3>5, <3>6, LinkedFacts
  <2>4. Means(n + 1)'
    <3>1. SUFFICES ASSUME Sound(n + 1)'
                   PROVE  section' = Meaning[n + 1]
      BY <1>0, FileStays DEF Means
    <3>2. Sound(n) /\ section = Meaning[n]
      BY <1>0, <1>4, <3>1, MeansStays, MeaningNext DEF InSection, Means, TypeInv, TextInv
    <3>3. Meaning[n + 1] = Append(Meaning[n], Section(<<L.section>>))
      BY <1>0, <2>1, MeaningNext, ReadFacts DEF TypeInv, TextInv
    <3> QED BY <2>3, <3>2, <3>3
  <2>5. InSection(n, 3)'
    BY <1>0, <2>1, <2>2, <2>4 DEF InSection
  <2>6. 3 \in 1 .. Len(t) /\ 3 < Len(t) /\ p' = Ends[n] + 3
    <3>1. Len(t) = 4
      BY <1>2, <2>1
    <3>2. p + 1 = Ends[n] + (k + 1) /\ k + 1 = 3
      BY <1>0, <1>4
    <3> QED BY <2>2, <3>1, <3>2
  <2> QED BY <1>0, <2>5, <2>6, WithinLine
<1>5. CASE InSection(n, k) /\ k = 3
  <2>1. c = EOL /\ flag = 0 /\ "section" \in DOMAIN L /\ Means(n + 1) /\ Len(t) = 4
    BY <1>0, <1>2, <1>5 DEF InSection
  <2>2. p' = p + 1 /\ flag' = 0 /\ section' = section
    BY <2>1 DEF config_parse, InitialState, SectionReading, KeyReading,
                ValueStart, ValueReading, Kept, Blank, EOL, SP
  <2>3. Means(n + 1)'
    BY <1>0, <2>1, <2>2, MeansStays
  <2>4. p' = Ends[n] + Len(t)
    BY <1>0, <1>5, <2>1, <2>2
  <2> QED BY <1>0, <2>2, <2>3, <2>4, AtLineEnd
<1>6. InSection(n, k) => k = 2 \/ k = 3
  BY DEF InSection
<1> QED BY <1>1, <1>3, <1>4, <1>5, <1>6

(* The next place of a line with a key, or its end.                        *)
LEMMA NextInEntry ==
  ASSUME TypeInv, UNCHANGED file, NEW n \in 0 .. Len(file), n < Len(file),
         "key" \in DOMAIN file[n + 1],
         NEW j \in 1 .. Len(file[n + 1].text), p' = Ends[n] + j,
         NEW b \in 1 .. Len(file[n + 1].text) + 1, NEW e \in 1 .. Len(file[n + 1].text) + 1,
         NEW v \in 1 .. Len(file[n + 1].text) + 1, NEW w \in 1 .. Len(file[n + 1].text) + 1,
         Landmarks(file[n + 1], b, e, v, w),
         \/ j < Len(file[n + 1].text) /\ InEntry(n, j, b, e, v, w)'
         \/ j = Len(file[n + 1].text) /\ flag' = 0 /\ Means(n + 1)'
         \/ j = Len(file[n + 1].text) /\ flag' = 4 /\ NoValue(n + 1)
  PROVE  PlaceInv'
<1>1. CASE j < Len(file[n + 1].text) /\ InEntry(n, j, b, e, v, w)'
  BY <1>1, WithinLine
<1>2. CASE j = Len(file[n + 1].text)
  <2>1. j \in Nat /\ ~(j < Len(file[n + 1].text))
    BY <1>2
  <2>2. p' = Ends[n] + Len(file[n + 1].text)
    BY <1>2
  <2>3. (flag' = 0 /\ Means(n + 1)') \/ (flag' = 4 /\ NoValue(n + 1))
    BY <2>1
  <2> QED BY <2>2, <2>3, AtLineEnd
<1> QED BY <1>1, <1>2

(* What the landmarks are.                                                 *)
LEMMA LandmarkFacts ==
  ASSUME NEW L \in Lines, "key" \in DOMAIN L,
         NEW b \in 1 .. Len(L.text) + 1, NEW e \in 1 .. Len(L.text) + 1,
         NEW v \in 1 .. Len(L.text) + 1, NEW w \in 1 .. Len(L.text) + 1,
         Landmarks(L, b, e, v, w)
  PROVE  /\ Len(L.text) \in Nat /\ b \in Nat /\ e \in Nat /\ v \in Nat /\ w \in Nat
         /\ 1 <= b /\ b < e /\ e < v /\ v < w /\ v <= Len(L.text)
         /\ L.value = <<>> <=> v = Len(L.text)
<1>1. Len(L.text) \in Nat /\ b \in Nat /\ e \in Nat /\ v \in Nat /\ w \in Nat
  BY LineText
<1> QED BY <1>1 DEF Landmarks

(* The line of a key is parsed, up to its key.                             *)
LEMMA IndentStep ==
  ASSUME TypeInv, config_parse, NEW n \in 0 .. Len(file), n < Len(file),
         NEW k \in Nat, k < Len(file[n + 1].text), p = Ends[n] + k,
         "key" \in DOMAIN file[n + 1],
         NEW b \in 1 .. Len(file[n + 1].text) + 1, NEW e \in 1 .. Len(file[n + 1].text) + 1,
         NEW v \in 1 .. Len(file[n + 1].text) + 1, NEW w \in 1 .. Len(file[n + 1].text) + 1,
         Landmarks(file[n + 1], b, e, v, w),
         k < b, flag = 0, Means(n)
  PROVE  PlaceInv'
<1> DEFINE t == file[n + 1].text
           j == k + 1
<1>0. /\ UNCHANGED <<file, text, torn>> /\ Len(t) \in Nat /\ c = t[j]
      /\ j \in 1 .. Len(t) /\ p + 1 = Ends[n] + j
      /\ file[n + 1] \in Lines
  BY ParseStart
<1>1. /\ b \in Nat /\ e \in Nat /\ v \in Nat /\ b < e /\ e < v /\ v <= Len(t)
  BY <1>0, LandmarkFacts
<1>2. j < Len(t) /\ (j < b \/ j = b)
  BY <1>0, <1>1
<1>3. /\ \A i \in 1 .. b - 1 : t[i] \in Blank
      /\ t[b] \notin Blank \cup {"["}
  BY DEF Landmarks
<1>4. CASE j < b
  <2>1. c \in Blank
    BY <1>0, <1>1, <1>3, <1>4
  <2>2. p' = p + 1 /\ flag' = 0 /\ section' = section
    BY <2>1 DEF config_parse, InitialState, SectionReading, KeyReading,
                ValueStart, ValueReading, Kept, Blank, EOL, SP
  <2>3. Means(n)'
    BY <1>0, <2>2, MeansStays
  <2>4. InEntry(n, j, b, e, v, w)'
    BY <1>4, <2>2, <2>3 DEF InEntry
  <2> QED BY <1>0, <1>2, <2>2, <2>4, NextInEntry
<1>5. CASE j = b
  <2>1. c \notin Blank \cup {"["}
    BY <1>0, <1>3, <1>5
  <2>2. p' = p + 1 /\ flag' = 2 /\ q' = p + 1 /\ section' = section
    BY <2>1 DEF config_parse, InitialState, SectionReading, KeyReading,
                ValueStart, ValueReading, Kept
  <2>3. Means(n)'
    BY <1>0, <2>2, MeansStays
  <2>4. InEntry(n, j, b, e, v, w)'
    BY <1>0, <1>1, <1>5, <2>2, <2>3, FileStays DEF InEntry
  <2> QED BY <1>0, <1>2, <2>2, <2>4, NextInEntry
<1> QED BY <1>2, <1>4, <1>5

(* The key is read, and its entry is begun.                                *)
LEMMA KeyStep ==
  ASSUME TypeInv, config_parse, NEW n \in 0 .. Len(file), n < Len(file),
         NEW k \in Nat, k < Len(file[n + 1].text), p = Ends[n] + k,
         "key" \in DOMAIN file[n + 1],
         NEW b \in 1 .. Len(file[n + 1].text) + 1, NEW e \in 1 .. Len(file[n + 1].text) + 1,
         NEW v \in 1 .. Len(file[n + 1].text) + 1, NEW w \in 1 .. Len(file[n + 1].text) + 1,
         Landmarks(file[n + 1], b, e, v, w),
         b <= k, k < e, flag = 2, torn \/ q = Ends[n] + b, Means(n)
  PROVE  PlaceInv'
<1> DEFINE t == file[n + 1].text
           j == k + 1
<1>0. /\ UNCHANGED <<file, text, torn>> /\ Len(t) \in Nat /\ c = t[j]
      /\ j \in 1 .. Len(t) /\ p + 1 = Ends[n] + j
      /\ file[n + 1] \in Lines
  BY ParseStart
<1>1. /\ b \in Nat /\ e \in Nat /\ v \in Nat /\ b < e /\ e < v /\ v <= Len(t) /\ 1 <= b
  BY <1>0, LandmarkFacts
<1>2. j < Len(t) /\ (j < e \/ j = e) /\ b <= j /\ j < v
  BY <1>0, <1>1
<1>3. /\ \A i \in b .. e - 1 : t[i] # "="
      /\ t[e] = "=" /\ strstrip(SubSeq(t, b, e - 1)) = file[n + 1].key
  BY DEF Landmarks
<1>4. CASE j < e
  <2>1. c # "="
    BY <1>0, <1>1, <1>2, <1>3, <1>4
  <2>2. p' = p + 1 /\ flag' = 2 /\ section' = section /\ q' = q
    BY <2>1 DEF config_parse, InitialState, SectionReading, KeyReading,
                ValueStart, ValueReading, Kept
  <2>3. Means(n)'
    BY <1>0, <2>2, MeansStays
  <2>4. InEntry(n, j, b, e, v, w)'
    BY <1>0, <1>2, <1>4, <2>2, <2>3, FileStays DEF InEntry
  <2> QED BY <1>0, <1>2, <2>2, <2>4, NextInEntry
<1>5. CASE j = e
  <2>1. c = "="
    BY <1>0, <1>3, <1>5
  <2>2. KeyReading
    BY DEF config_parse, InitialState, SectionReading, KeyReading, ValueStart,
           ValueReading
  <2>3. p' = p + 1 /\ flag' = 3 /\ entry' = TRUE
    BY <2>1, <2>2 DEF KeyReading
  <2>4. ASSUME Sound(n)
        PROVE  section' = WithEntry(Begun(Meaning[n]), file[n + 1].key)
    <3>1. q = Ends[n] + b /\ ~torn /\ section = Meaning[n]
      BY <2>4 DEF Sound, Means
    <3>2. Taken = SubSeq(t, b, k)
      <4>1. b \in 1 .. Len(t) /\ k \in b .. Len(t)
        <5>1. k \in Nat /\ b <= k /\ k < Len(t)
          OBVIOUS
        <5>2. b \in Nat /\ 1 <= b /\ Len(t) \in Nat
          BY <1>0, <1>1
        <5> HIDE DEF t
        <5> QED BY <5>1, <5>2
      <4> QED BY <3>1, <4>1, TakenFromLine DEF TypeInv
    <3>3. string_create = file[n + 1].key
      <4>1. k = e - 1
        BY <1>1, <1>5
      <4> QED BY <1>3, <3>2, <4>1 DEF string_create
    <3>4. /\ prev = Len(section) /\ LinkInv /\ section \in Sections
          /\ Len(section) = 0 <=> section = <<>>
      BY <3>1, EmptySeq DEF TypeInv, LinkInv, Sections
    <3>5. CASE prev = 0
      <4>1. section' = WithEntry(Linked(Section(<<DEFAULT_SECTION>>)), string_create)
        BY <2>1, <2>2, <3>5 DEF KeyReading
      <4>2. Linked(Section(<<DEFAULT_SECTION>>)) = <<Section(<<DEFAULT_SECTION>>)>>
        BY <3>4, <3>5, DefaultName, LinkedFacts
      <4> QED BY <3>1, <3>3, <3>4, <3>5, <4>1, <4>2 DEF Begun
    <3>6. CASE prev # 0
      <4>1. section' = WithEntry(section, string_create)
        BY <2>1, <2>2, <3>6 DEF KeyReading
      <4> QED BY <3>1, <3>3, <3>4, <3>6, <4>1 DEF Begun
    <3> QED BY <3>5, <3>6
  <2>5. Keyed(n)'
    BY <1>0, <2>3, <2>4, MeansStays, FileStays DEF Keyed
  <2>6. InEntry(n, j, b, e, v, w)'
    BY <1>2, <1>5, <2>3, <2>5 DEF InEntry
  <2> QED BY <1>0, <1>2, <2>3, <2>6, NextInEntry
<1> QED BY <1>2, <1>4, <1>5

(* What comes before the value is skipped; without a value the end of the  *)
(* line is taken for its start.                                            *)
LEMMA ValueStartStep ==
  ASSUME TypeInv, config_parse, NEW n \in 0 .. Len(file), n < Len(file),
         NEW k \in Nat, k < Len(file[n + 1].text), p = Ends[n] + k,
         "key" \in DOMAIN file[n + 1],
         NEW b \in 1 .. Len(file[n + 1].text) + 1, NEW e \in 1 .. Len(file[n + 1].text) + 1,
         NEW v \in 1 .. Len(file[n + 1].text) + 1, NEW w \in 1 .. Len(file[n + 1].text) + 1,
         Landmarks(file[n + 1], b, e, v, w),
         e <= k, k < v, flag = 3, Keyed(n)
  PROVE  PlaceInv'
<1> DEFINE t == file[n + 1].text
           j == k + 1
<1>0. /\ UNCHANGED <<file, text, torn>> /\ Len(t) \in Nat /\ c = t[j]
      /\ j \in 1 .. Len(t) /\ p + 1 = Ends[n] + j /\ p + 2 = Ends[n] + (k + 2)
      /\ file[n + 1] \in Lines /\ Ends[n] \in Nat
  BY ParseStart
<1>1. /\ b \in Nat /\ e \in Nat /\ v \in Nat /\ w \in Nat /\ b < e /\ e < v /\ v <= Len(t)
      /\ v < w
  BY <1>0, LandmarkFacts
<1>2. (j < v \/ j = v) /\ b <= j /\ e <= j
  <2>1. k \in Nat /\ k < v /\ e <= k
    OBVIOUS
  <2> QED BY <1>1, <2>1
<1>3. /\ \A i \in e + 1 .. v - 1 : t[i] = SP
      /\ t[v] # SP
      /\ v = Len(t) => file[n + 1].value = <<>> /\ t[v] = EOL
  BY <1>1 DEF Landmarks
<1>4. /\ p' = p + 1 /\ UNCHANGED <<section, entry>>
      /\ c = SP => flag' = 3
      /\ c = QUOTE => flag' = 5 /\ q' = p + 2
      /\ c \notin {SP, QUOTE} => flag' = 4 /\ q' = p + 1
  <2>1. ValueStart
    BY DEF config_parse, InitialState, SectionReading, KeyReading, ValueStart,
           ValueReading
  <2> QED BY <2>1 DEF ValueStart, Kept, SP, QUOTE
<1>5. Keyed(n)'
  BY <1>0, <1>4, MeansStays
<1>6. CASE j < v
  <2>1. c = SP
    <3>1. j \in e + 1 .. v - 1
      <4>1. k \in Nat /\ e <= k
        OBVIOUS
      <4>2. e \in Nat /\ v \in Nat /\ k + 1 < v
        BY <1>1, <1>6
      <4> QED BY <4>1, <4>2
    <3> QED BY <1>0, <1>3, <3>1
  <2>2. InEntry(n, j, b, e, v, w)'
    BY <1>2, <1>4, <1>5, <1>6, <2>1 DEF InEntry
  <2>3. j < Len(t)
    <3>1. j \in Nat /\ v \in Nat /\ Len(t) \in Nat
      BY <1>0, <1>1
    <3>2. j < v /\ v <= Len(t)
      BY <1>1, <1>6
    <3> HIDE DEF j, t
    <3> QED BY <3>1, <3>2
  <2> QED BY <1>0, <1>4, <2>2, <2>3, NextInEntry
<1>7. CASE j = v /\ v < Len(t)
  <2>1. /\ flag' = IF t[v] = QUOTE THEN 5 ELSE 4
        /\ q' = Ends[n] + StartOf(t, v)
    <3>1. c = t[v] /\ c # SP
      BY <1>0, <1>3, <1>7
    <3>2. p + 1 = Ends[n] + v /\ p + 2 = Ends[n] + (v + 1)
      <4>1. k + 1 = v /\ k + 2 = v + 1
        BY <1>1, <1>7
      <4> QED BY <1>0, <4>1
    <3>3. CASE c = QUOTE
      BY <1>4, <3>1, <3>2, <3>3 DEF StartOf
    <3>4. CASE c # QUOTE
      BY <1>4, <3>1, <3>2, <3>4 DEF StartOf
    <3> QED BY <3>3, <3>4
  <2>2. InEntry(n, j, b, e, v, w)'
    BY <1>0, <1>1, <1>5, <1>7, <2>1, FileStays DEF InEntry
  <2> QED BY <1>0, <1>4, <1>7, <2>2, NextInEntry
<1>8. CASE j = v /\ v = Len(t)
  <2>1. c = EOL /\ NoValue(n + 1)
    BY <1>0, <1>3, <1>8 DEF NoValue
  <2>2. flag' = 4
    BY <1>4, <2>1 DEF EOL, SP, QUOTE
  <2> QED BY <1>0, <1>4, <1>8, <2>1, <2>2, NextInEntry
<1> QED BY <1>1, <1>2, <1>6, <1>7, <1>8

(* The value is read, and its entry has it.                                *)
LEMMA ValueStep ==
  ASSUME TypeInv, config_parse, NEW n \in 0 .. Len(file), n < Len(file),
         NEW k \in Nat, k < Len(file[n + 1].text), p = Ends[n] + k,
         "key" \in DOMAIN file[n + 1],
         NEW b \in 1 .. Len(file[n + 1].text) + 1, NEW e \in 1 .. Len(file[n + 1].text) + 1,
         NEW v \in 1 .. Len(file[n + 1].text) + 1, NEW w \in 1 .. Len(file[n + 1].text) + 1,
         Landmarks(file[n + 1], b, e, v, w),
         v <= k, k < w, flag = (IF file[n + 1].text[v] = QUOTE THEN 5 ELSE 4),
         torn \/ q = Ends[n] + StartOf(file[n + 1].text, v), Keyed(n)
  PROVE  PlaceInv'
<1> DEFINE t == file[n + 1].text
           L == file[n + 1]
           j == k + 1
           start == StartOf(t, v)
<1>0. /\ UNCHANGED <<file, text, torn>> /\ Len(t) \in Nat /\ c = t[j] /\ L \in Lines
      /\ j \in 1 .. Len(t) /\ p + 1 = Ends[n] + j /\ Ends[n] \in Nat
      /\ j = Len(t) \/ j < Len(t)
  BY ParseStart
<1>1. /\ b \in Nat /\ e \in Nat /\ v \in Nat /\ w \in Nat /\ b < e /\ e < v /\ v < w
      /\ 1 <= b /\ v # Len(t) /\ L.value # <<>>
  <2>1. /\ b \in Nat /\ e \in Nat /\ v \in Nat /\ w \in Nat
        /\ 1 <= b /\ b < e /\ e < v /\ v < w
        /\ L.value = <<>> <=> v = Len(t)
    BY <1>0, LandmarkFacts
  <2>2. v # Len(t)
    <3>1. k \in Nat /\ v <= k /\ k < Len(t)
      OBVIOUS
    <3> QED BY <1>0, <2>1, <3>1
  <2> QED BY <2>1, <2>2
<1>2. /\ w <= Len(t) /\ start < w
      /\ \A i \in v + 1 .. w - 1 : t[i] # EndOf(t, v)
      /\ t[w] = EndOf(t, v)
      /\ string_unescape(strstrip(SubSeq(t, start, w - 1))) = L.value
  BY <1>1 DEF Landmarks
<1>3. start \in Nat /\ v <= start /\ (j < w \/ j = w) /\ v + 1 <= j
  <2>1. k \in Nat /\ v <= k /\ k < w
    OBVIOUS
  <2>2. start = v \/ start = v + 1
    BY DEF StartOf
  <2> HIDE DEF start
  <2>3. start \in Nat /\ v <= start
    BY <1>1, <2>2
  <2>4. (j < w \/ j = w) /\ v + 1 <= j
    BY <1>1, <2>1
  <2> QED BY <2>3, <2>4
<1>4. /\ p' = p + 1 /\ UNCHANGED <<q, prev, entry>>
      /\ c # EndOf(t, v) => flag' = flag /\ section' = section
      /\ c = EndOf(t, v) =>
           /\ flag' = 0
           /\ section' = IF entry
                         THEN [section EXCEPT ![prev].entries[PrevEntry].value =
                                 value_create]
                         ELSE section
  <2>1. CASE t[v] = QUOTE
    <3>1. ValueReading(5, QUOTE)
      BY <2>1 DEF config_parse, InitialState, SectionReading, KeyReading, ValueStart,
                  ValueReading
    <3> QED BY <2>1, <3>1 DEF ValueReading, EndOf
  <2>2. CASE t[v] # QUOTE
    <3>1. ValueReading(4, EOL)
      BY <2>2 DEF config_parse, InitialState, SectionReading, KeyReading, ValueStart,
                  ValueReading
    <3> QED BY <2>2, <3>1 DEF ValueReading, EndOf
  <2> QED BY <2>1, <2>2
<1>5. CASE j < w
  <2>1. c # EndOf(t, v)
    <3>1. j \in v + 1 .. w - 1
      <4>1. k \in Nat /\ v <= k
        OBVIOUS
      <4>2. v \in Nat /\ w \in Nat /\ k + 1 < w
        BY <1>1, <1>5
      <4> QED BY <4>1, <4>2
    <3> QED BY <1>0, <1>2, <3>1
  <2>2. Keyed(n)'
    BY <1>0, <1>4, <2>1, MeansStays
  <2>3. InEntry(n, j, b, e, v, w)'
    BY <1>0, <1>1, <1>3, <1>4, <1>5, <2>1, <2>2, FileStays DEF InEntry
  <2>4. j < Len(t)
    BY <1>0, <1>1, <1>2, <1>5
  <2> QED BY <1>0, <1>4, <2>3, <2>4, NextInEntry
<1>6. CASE j = w
  <2>1. c = EndOf(t, v)
    BY <1>0, <1>2, <1>6
  <2>2. ASSUME Sound(n + 1)'
        PROVE  section' = Meaning[n + 1]
    <3>1. Sound(n) /\ ~torn
      BY <1>0, <2>2, MeansStays, MeaningNext DEF TypeInv, TextInv, Sound
    <3>2. entry /\ section = WithEntry(Begun(Meaning[n]), L.key)
      BY <3>1 DEF Keyed
    <3>3. /\ Meaning[n] \in Sections /\ L.key \in Strings /\ L.value \in Strings
          /\ Meaning[n + 1] = Put(Begun(Meaning[n]),
                                  [key |-> L.key, value |-> L.value])
      <4>1. TextInv
        BY DEF TypeInv
      <4>2. /\ Meaning[n] \in Sections
            /\ Meaning[n + 1] = Read(Meaning[n], L)
        BY <4>1, MeaningNext DEF TextInv
      <4>3. L.key \in Strings /\ L.value \in Strings
        BY <1>0, LineText
      <4> HIDE DEF L
      <4> QED BY <1>0, <4>2, <4>3, ReadFacts DEF L
    <3>4. Taken = SubSeq(t, start, k)
      <4>1. q = Ends[n] + start
        BY <3>1
      <4>2. k \in Nat /\ k < Len(t) /\ k + 1 = w
        BY <1>6
      <4> HIDE DEF start, t, j
      <4>3. start \in 1 .. Len(t) /\ k \in start .. Len(t)
        <5>1. start \in Nat /\ v \in Nat /\ w \in Nat /\ Len(t) \in Nat
          BY <1>0, <1>1, <1>3
        <5>2. 1 <= v /\ v <= start /\ start < w /\ w <= Len(t)
          BY <1>1, <1>2, <1>3
        <5> QED BY <4>2, <5>1, <5>2
      <4> USE DEF t
      <4> QED BY <4>1, <4>3, TakenFromLine DEF TypeInv
    <3>5. value_create = L.value
      <4>1. k = w - 1
        BY <1>1, <1>6
      <4> QED BY <1>2, <3>4, <4>1 DEF value_create, string_create
    <3>6. prev = Len(section)
      BY <3>1 DEF TypeInv, LinkInv
    <3>7. section' = SetValue(section, L.value)
      BY <1>4, <2>1, <3>2, <3>5, <3>6 DEF SetValue, PrevEntry
    <3> DEFINE s == Begun(Meaning[n])
    <3>8. s \in Sections /\ s # <<>>
      BY <3>3, BegunFacts
    <3> HIDE DEF s
    <3>9. section = Put(s, [key |-> L.key, value |-> NoString])
      BY <3>2, <3>3, <3>8, WithEntryFacts DEF s
    <3>10. SetValue(Put(s, [key |-> L.key, value |-> NoString]), L.value)
             = Put(s, [key |-> L.key, value |-> L.value])
      BY <3>3, <3>8, DefaultName, ValueOfPut
    <3> QED BY <3>3, <3>7, <3>9, <3>10 DEF s
  <2>3. Means(n + 1)'
    BY <1>0, <2>2, FileStays DEF Means
  <2>4. InEntry(n, j, b, e, v, w)'
    BY <1>4, <1>6, <2>1, <2>3 DEF InEntry
  <2> QED BY <1>0, <1>4, <2>1, <2>3, <2>4, NextInEntry
<1> QED BY <1>3, <1>5, <1>6

(* What follows the value is skipped.                                      *)
LEMMA TrailingStep ==
  ASSUME TypeInv, config_parse, NEW n \in 0 .. Len(file), n < Len(file),
         NEW k \in Nat, k < Len(file[n + 1].text), p = Ends[n] + k,
         "key" \in DOMAIN file[n + 1],
         NEW b \in 1 .. Len(file[n + 1].text) + 1, NEW e \in 1 .. Len(file[n + 1].text) + 1,
         NEW v \in 1 .. Len(file[n + 1].text) + 1, NEW w \in 1 .. Len(file[n + 1].text) + 1,
         Landmarks(file[n + 1], b, e, v, w),
         w <= k, flag = 0, Means(n + 1)
  PROVE  PlaceInv'
<1> DEFINE t == file[n + 1].text
           j == k + 1
<1>0. /\ UNCHANGED <<file, text, torn>> /\ Len(t) \in Nat /\ c = t[j]
      /\ j \in 1 .. Len(t) /\ p + 1 = Ends[n] + j
      /\ file[n + 1] \in Lines /\ (j = Len(t) \/ j < Len(t))
  BY ParseStart
<1>1. w \in Nat /\ v \in Nat /\ v < w /\ v # Len(t) /\ file[n + 1].value # <<>>
  <2>1. w \in Nat /\ v \in Nat /\ v < w /\ (file[n + 1].value = <<>> <=> v = Len(t))
    BY <1>0, LandmarkFacts
  <2>2. k \in Nat /\ w <= k /\ k < Len(t)
    OBVIOUS
  <2>3. v # Len(t)
    BY <1>0, <2>1, <2>2
  <2> QED BY <2>1, <2>3
<1>2. \A i \in w + 1 .. Len(t) : t[i] \in Blank
  BY <1>1 DEF Landmarks
<1>3. j \in w + 1 .. Len(t)
  BY <1>0, <1>1
<1>4. c \in Blank
  BY <1>0, <1>2, <1>3
<1>5. p' = p + 1 /\ flag' = 0 /\ section' = section
  BY <1>4 DEF config_parse, InitialState, SectionReading, KeyReading,
              ValueStart, ValueReading, Kept, Blank, EOL, SP
<1>6. Means(n + 1)'
  BY <1>0, <1>5, MeansStays
<1>7. InEntry(n, j, b, e, v, w)'
  BY <1>1, <1>3, <1>5, <1>6 DEF InEntry
<1> QED BY <1>0, <1>5, <1>6, <1>7, NextInEntry

(* So every step of config_parse comes to a place.                         *)
LEMMA PlaceParses ==
  ASSUME TypeInv, PlaceInv, config_parse
  PROVE  PlaceInv'
<1>1. PICK n \in 0 .. Len(file), k \in Nat : Place(n, k)
  BY DEF PlaceInv
<1>2. p < Len(text)
  BY DEF config_parse
<1>3. /\ n < Len(file) /\ k < Len(file[n + 1].text) /\ p = Ends[n] + k
      /\ file[n + 1] \in Lines
      /\ \/ Starts(n, k)
         \/ Swallows(n)
         \/ InSection(n, k)
         \/ /\ "key" \in DOMAIN file[n + 1]
            /\ \E b, e, v, w \in 1 .. Len(file[n + 1].text) + 1 :
                 Landmarks(file[n + 1], b, e, v, w) /\ InEntry(n, k, b, e, v, w)
  BY <1>1, <1>2, PlaceInLine DEF Place
<1>4. CASE Swallows(n)
  BY <1>3, <1>4, SwallowingStep
<1>5. CASE (Starts(n, k) /\ "key" \notin DOMAIN file[n + 1]) \/ InSection(n, k)
  BY <1>3, <1>5, HeaderStep
<1>6. ASSUME "key" \in DOMAIN file[n + 1],
             NEW b \in 1 .. Len(file[n + 1].text) + 1,
             NEW e \in 1 .. Len(file[n + 1].text) + 1,
             NEW v \in 1 .. Len(file[n + 1].text) + 1,
             NEW w \in 1 .. Len(file[n + 1].text) + 1,
             Landmarks(file[n + 1], b, e, v, w), InEntry(n, k, b, e, v, w)
      PROVE  PlaceInv'
  <2>1. CASE k < b /\ flag = 0 /\ Means(n)
    BY <1>3, <1>6, <2>1, IndentStep
  <2>2. CASE b <= k /\ k < e /\ flag = 2 /\ (torn \/ q = Ends[n] + b) /\ Means(n)
    BY <1>3, <1>6, <2>2, KeyStep
  <2>3. CASE e <= k /\ k < v /\ flag = 3 /\ Keyed(n)
    BY <1>3, <1>6, <2>3, ValueStartStep
  <2>4. CASE /\ v <= k /\ k < w
             /\ flag = (IF file[n + 1].text[v] = QUOTE THEN 5 ELSE 4)
             /\ torn \/ q = Ends[n] + StartOf(file[n + 1].text, v)
             /\ Keyed(n)
    BY <1>3, <1>6, <2>4, ValueStep
  <2>5. CASE w <= k /\ flag = 0 /\ Means(n + 1)
    BY <1>3, <1>6, <2>5, TrailingStep
  <2> QED BY <1>6, <2>1, <2>2, <2>3, <2>4, <2>5 DEF InEntry
<1>7. CASE Starts(n, k) /\ "key" \in DOMAIN file[n + 1]
  <2>1. PICK b, e, v, w \in 1 .. Len(file[n + 1].text) + 1 :
               Landmarks(file[n + 1], b, e, v, w)
    BY <1>3, <1>7, KeyLine
  <2>2. InEntry(n, k, b, e, v, w)
    BY <1>7, <2>1 DEF InEntry, Starts, Landmarks
  <2> QED BY <1>6, <1>7, <2>1, <2>2
<1> QED BY <1>3, <1>4, <1>5, <1>6, <1>7

(* A new chunk stays where it is; what it tears is torn.                   *)
LEMMA PlaceChunk ==
  ASSUME TypeInv, PlaceInv, NextChunk
  PROVE  PlaceInv'
<1>0. /\ UNCHANGED <<file, text, p, flag, section, tail>> /\ prev' = tail
      /\ torn' = (torn \/ flag \notin {0, 3} \/ prev # tail)
      /\ entry' = (tail # 0 /\ section[tail].entries # <<>>)
      /\ Ends' = Ends /\ Meaning' = Meaning
  BY FileStays DEF NextChunk
<1>1. PICK n \in 0 .. Len(file), k \in Nat : Place(n, k)
  BY DEF PlaceInv
<1>2. (torn => torn') /\ (flag # 0 /\ flag # 3 => torn')
  BY <1>0
<1>3. \A m \in Nat : Means(m) => Means(m)'
  <2> TAKE m \in Nat
  <2> QED BY <1>0, <1>2, MeansStays
<1>4. n \in Nat /\ n + 1 \in Nat /\ n \in (0 .. Len(file))'
  BY <1>0, FileLines DEF TypeInv, TextInv
<1>5. flag = 3 /\ Keyed(n) /\ n < Len(file) /\ "key" \in DOMAIN file[n + 1] => Keyed(n)'
  <2> SUFFICES ASSUME flag = 3, Keyed(n), n < Len(file), Sound(n)',
                      "key" \in DOMAIN file[n + 1]
               PROVE  entry' /\ section' = WithEntry(Begun(Meaning[n]), file[n + 1].key)
    BY <1>0 DEF Keyed
  <2>1. Sound(n) /\ ~torn'
    BY <1>0, <1>2, MeansStays DEF Sound
  <2>2. entry /\ section = WithEntry(Begun(Meaning[n]), file[n + 1].key)
    BY <2>1 DEF Keyed
  <2>3. tail = prev
    BY <1>0, <2>1
  <2>4. prev # 0 /\ section[prev].entries # <<>>
    BY <2>2 DEF TypeInv, LinkInv
  <2> QED BY <1>0, <2>2, <2>3, <2>4
<1>6. Starts(n, k) => Starts(n, k)'
  BY <1>0, <1>3, <1>4 DEF Starts
<1>7. Swallows(n) => Swallows(n)'
  BY <1>0 DEF Swallows, NoValue
<1>8. InSection(n, k) => InSection(n, k)'
  <2>1. flag = 1 => flag # 0 /\ flag # 3
    OBVIOUS
  <2>2. flag = 1 => torn'
    BY <1>2, <2>1
  <2>3. flag = 1 => (flag = 1)'
    BY <1>0
  <2> QED BY <1>0, <1>3, <1>4, <2>2, <2>3 DEF InSection
<1>9. ASSUME n < Len(file), "key" \in DOMAIN file[n + 1], NEW b, NEW e, NEW v, NEW w,
             InEntry(n, k, b, e, v, w)
      PROVE  InEntry(n, k, b, e, v, w)'
  <2> DEFINE t == file[n + 1].text
  <2>1. t' = t /\ StartOf(t, v)' = StartOf(t, v)
    BY <1>0 DEF StartOf
  <2>2. CASE k < b /\ flag = 0 /\ Means(n)
    BY <1>0, <1>3, <1>4, <2>2 DEF InEntry
  <2>3. CASE b <= k /\ k < e /\ flag = 2 /\ (torn \/ q = Ends[n] + b) /\ Means(n)
    <3>0. flag # 0 /\ flag # 3
      BY <2>3
    <3>1. torn' /\ flag' = 2 /\ Means(n)'
      BY <1>0, <1>2, <1>3, <1>4, <2>3, <3>0
    <3> QED BY <2>3, <3>1 DEF InEntry
  <2>4. CASE e <= k /\ k < v /\ flag = 3 /\ Keyed(n)
    BY <1>0, <1>5, <1>9, <2>4 DEF InEntry
  <2>5. CASE /\ v <= k /\ k < w /\ flag = (IF t[v] = QUOTE THEN 5 ELSE 4)
             /\ (torn \/ q = Ends[n] + StartOf(t, v)) /\ Keyed(n)
    <3>1. flag # 0 /\ flag # 3
      BY <2>5
    <3>2. torn'
      BY <1>2, <3>1
    <3>3. flag' = (IF t[v] = QUOTE THEN 5 ELSE 4)
      BY <1>0, <2>5
    <3>4. Keyed(n)'
      BY <3>2 DEF Keyed, Sound
    <3> QED BY <2>1, <2>5, <3>2, <3>3, <3>4 DEF InEntry
  <2>6. CASE w <= k /\ flag = 0 /\ Means(n + 1)
    BY <1>0, <1>3, <1>4, <2>6 DEF InEntry
  <2> QED BY <1>9, <2>2, <2>3, <2>4, <2>5, <2>6 DEF InEntry
<1>10. Within(n, k) => Within(n, k)'
  BY <1>0, <1>7, <1>8, <1>9 DEF Within
<1>11. Place(n, k)'
  BY <1>0, <1>1, <1>6, <1>7, <1>10 DEF Place
<1> QED BY <1>4, <1>11 DEF PlaceInv

(* At the end of a line the place is there: ends of lines do not repeat,   *)
(* and none lies within a line.                                            *)
LEMMA AtEnd ==
  ASSUME file \in Files, NEW n \in 0 .. Len(file), LineEnd(n), PlaceInv
  PROVE  Starts(n, 0) \/ Swallows(n)
<1>1. PICK m \in 0 .. Len(file), k \in Nat : Place(m, k)
  BY DEF PlaceInv
<1>2. /\ Len(file) \in Nat /\ n \in Nat /\ m \in Nat
      /\ Ends[n] \in Nat /\ Ends[m] \in Nat
      /\ \A i \in 1 .. Len(file) : Len(file[i].text) \in Nat /\ Len(file[i].text) >= 1
  BY FileLines, EndsDef
<1>3. Ends[n] = Ends[m] + k
  BY <1>1 DEF LineEnd, Place
<1>4. m < n => Ends[m] + Len(file[m + 1].text) <= Ends[n]
  BY <1>2, EndsGrow
<1>5. n < m => Ends[n] + Len(file[n + 1].text) <= Ends[m]
  BY <1>2, EndsGrow
<1>6. m < n => m + 1 \in 1 .. Len(file)
  BY <1>2
<1>7. n < m => n + 1 \in 1 .. Len(file)
  BY <1>2
<1>8. k # 0 => k < Len(file[m + 1].text) /\ m + 1 \in 1 .. Len(file)
  <2>1. k # 0 => m < Len(file) /\ k < Len(file[m + 1].text)
    BY <1>1 DEF Place, Within, Starts
  <2>2. m < Len(file) => m + 1 \in 1 .. Len(file)
    BY <1>2
  <2> QED BY <2>1, <2>2
<1>9. ~(n < m)
  BY <1>2, <1>3, <1>5, <1>7
<1>10. ~(m < n)
  <2>1. ASSUME m < n PROVE FALSE
    <3>1. Len(file[m + 1].text) \in Nat /\ Len(file[m + 1].text) >= 1
      BY <1>2, <1>6, <2>1
    <3>2. Len(file[m + 1].text) <= k
      BY <1>2, <1>3, <1>4, <2>1, <3>1
    <3>3. k # 0 /\ k < Len(file[m + 1].text)
      BY <1>8, <3>1, <3>2
    <3> QED BY <3>1, <3>2, <3>3
  <2> QED BY <2>1
<1>11. m = n
  BY <1>2, <1>9, <1>10
<1>12. k = 0
  BY <1>2, <1>3, <1>11
<1> QED BY <1>1, <1>11, <1>12 DEF Place

-----------------------------------------------------------------------------
ParserInv == TypeInv /\ PlaceInv

(* The parser starts at the start of the first line.                       *)
LEMMA ParserStarts ==
  ASSUME ParserInit
  PROVE  ParserInv
<1>1. TypeInv
  BY TypeStarts
<1>2. 0 \in 0 .. Len(file) /\ Ends[0] = 0 /\ Meaning[0] = <<>>
  BY <1>1, FileLines, EndsDef, MeaningDef DEF TypeInv, TextInv
<1>3. Place(0, 0)
  BY <1>2 DEF Place, Starts, Means, ParserInit
<1> QED BY <1>1, <1>2, <1>3 DEF ParserInv, PlaceInv

(* A step that changes nothing keeps the invariant.                        *)
LEMMA ParserRests ==
  ASSUME ParserInv, UNCHANGED parserVars
  PROVE  ParserInv'
<1>1. UNCHANGED <<file, text, p, flag, q, section, tail, prev, entry, chunk, torn>>
  BY DEF parserVars
<1>2. Ends' = Ends /\ Meaning' = Meaning
  BY <1>1, FileStays
<1>3. TypeInv'
  BY <1>1, <1>2 DEF ParserInv, TypeInv, TextInv, LinkInv, ParserTypeOK
<1>4. PlaceInv'
  <2>1. PICK n \in 0 .. Len(file), k \in Nat : Place(n, k)
    BY DEF ParserInv, PlaceInv
  <2>2. \A m : Means(m) => Means(m)'
    BY <1>1, MeansStays
  <2>3. Keyed(n) => Keyed(n)'
    BY <1>1, MeansStays
  <2>4. Starts(n, k) => Starts(n, k)'
    BY <1>1, <2>2 DEF Starts
  <2>5. Swallows(n) => Swallows(n)'
    BY <1>1 DEF Swallows, NoValue
  <2>6. InSection(n, k) => InSection(n, k)'
    BY <1>1, <1>2, <2>2 DEF InSection
  <2>7. ASSUME NEW b, NEW e, NEW v, NEW w, InEntry(n, k, b, e, v, w)
        PROVE  InEntry(n, k, b, e, v, w)'
    <3>1. StartOf(file[n + 1].text, v)' = StartOf(file[n + 1].text, v)
      BY <1>1 DEF StartOf
    <3> QED BY <1>1, <1>2, <2>2, <2>3, <2>7, <3>1 DEF InEntry
  <2>8. Within(n, k) => Within(n, k)'
    <3>1. file' = file
      BY <1>1
    <3> HIDE <1>1
    <3> QED BY <2>5, <2>6, <2>7, <3>1 DEF Within
  <2>9. Place(n, k)'
    BY <1>1, <1>2, <2>1, <2>4, <2>5, <2>8 DEF Place
  <2> QED BY <1>1, <2>1, <2>9 DEF PlaceInv
<1> QED BY <1>3, <1>4 DEF ParserInv

(* Every step keeps it.                                                    *)
LEMMA ParserSteps ==
  ASSUME ParserInv, [ParserNext]_parserVars
  PROVE  ParserInv'
<1>1. CASE config_parse
  BY <1>1, TypeParses, PlaceParses DEF ParserInv
<1>2. CASE NextChunk
  BY <1>2, TypeChunk, PlaceChunk DEF ParserInv
<1>3. CASE EndOfFile
  BY <1>3, ParserRests DEF EndOfFile
<1>4. CASE UNCHANGED parserVars
  BY <1>4, ParserRests
<1> QED BY <1>1, <1>2, <1>3, <1>4 DEF ParserNext

(* What the invariant says at the end of a line.                           *)
LEMMA InvResync ==
  ASSUME ParserInv
  PROVE  LinesResync
<1> SUFFICES ASSUME NEW n \in 1 .. Len(file), LineEnd(n), flag # 0
             PROVE  NoValue(n)
  BY DEF LinesResync
<1>1. n \in 0 .. Len(file) /\ file \in Files
  BY FileLines DEF ParserInv, TypeInv, TextInv
<1> QED BY <1>1, AtEnd DEF ParserInv, Starts, Swallows

(* What it says there of the sections, if nothing was lost so far.         *)
LEMMA InvMeans ==
  ASSUME ParserInv, NEW n \in 0 .. Len(file), LineEnd(n), Sound(n)
  PROVE  section = Meaning[n]
<1>1. file \in Files /\ Len(file) \in Nat
  BY FileLines DEF ParserInv, TypeInv, TextInv
<1>2. Starts(n, 0) \/ Swallows(n)
  BY <1>1, AtEnd DEF ParserInv
<1>3. ~Swallows(n)
  <2>1. n # 0 => n \in 1 .. n
    BY <1>1
  <2> QED BY <2>1 DEF Swallows, Sound
<1> QED BY <1>2, <1>3 DEF Starts, Means

-----------------------------------------------------------------------------
(* The look-ups.                                                           *)

(* The first of some indexes.                                              *)
LEMMA FirstIndex ==
  ASSUME NEW S \in SUBSET Nat
  PROVE  /\ S # {} => FirstOf(S) \in S /\ \A i \in S : FirstOf(S) <= i
         /\ \A m \in S : (\A i \in S : m <= i) => FirstOf(S) = m
<1>1. ASSUME S # {}
      PROVE  FirstOf(S) \in S /\ \A i \in S : FirstOf(S) <= i
  <2>1. \E m \in S : \A i \in S : m <= i
    BY <1>1, Least
  <2> QED BY <2>1 DEF FirstOf, Min
<1>2. ASSUME NEW m \in S, \A i \in S : m <= i
      PROVE  FirstOf(S) = m
  <2>1. FirstOf(S) \in S /\ \A i \in S : FirstOf(S) <= i
    BY <1>1, <1>2
  <2>2. FirstOf(S) <= m /\ m <= FirstOf(S) /\ m \in Nat /\ FirstOf(S) \in Nat
    BY <1>2, <2>1
  <2> QED BY <2>2
<1> QED BY <1>1, <1>2

(* The look-ups of config.c in any list of sections.                       *)
SectionsNamed(s, name) == {i \in DOMAIN s : s[i].name = name}
Looked(s, name) ==
  IF SectionsNamed(s, name) = {} THEN <<>> ELSE s[FirstOf(SectionsNamed(s, name))].entries
Has(es, k) == \E i \in DOMAIN es : es[i].key = k

(* More sections behind it do not change what is looked up.                *)
LEMMA LookedBefore ==
  ASSUME NEW s \in Sections, NEW t \in Sections, NEW name, Len(s) <= Len(t),
         \A i \in 1 .. Len(s) : t[i] = s[i], SectionsNamed(s, name) # {}
  PROVE  Looked(t, name) = Looked(s, name)
<1> DEFINE m == FirstOf(SectionsNamed(s, name))
<1>1. /\ Len(s) \in Nat /\ Len(t) \in Nat
      /\ DOMAIN s = 1 .. Len(s) /\ DOMAIN t = 1 .. Len(t)
  BY LenProperties DEF Sections
<1>2. SectionsNamed(s, name) \in SUBSET Nat /\ SectionsNamed(t, name) \in SUBSET Nat
  BY <1>1 DEF SectionsNamed
<1>3. m \in SectionsNamed(s, name) /\ \A i \in SectionsNamed(s, name) : m <= i
  BY <1>2, FirstIndex
<1>4. m \in 1 .. Len(s) /\ s[m].name = name
  BY <1>1, <1>3 DEF SectionsNamed
<1> HIDE DEF m
<1>5. m \in SectionsNamed(t, name)
  BY <1>1, <1>4 DEF SectionsNamed
<1>6. ASSUME NEW i \in SectionsNamed(t, name) PROVE m <= i
  <2>1. i \in 1 .. Len(t) /\ t[i].name = name
    BY <1>1 DEF SectionsNamed
  <2>2. CASE i <= Len(s)
    <3>1. i \in 1 .. Len(s)
      BY <1>1, <2>1, <2>2
    <3>2. i \in SectionsNamed(s, name)
      BY <1>1, <2>1, <3>1 DEF SectionsNamed
    <3> QED BY <1>3, <3>2
  <2>3. CASE ~(i <= Len(s))
    BY <1>1, <1>4, <2>1, <2>3
  <2> QED BY <2>2, <2>3
<1>7. FirstOf(SectionsNamed(t, name)) = m
  BY <1>2, <1>5, <1>6, FirstIndex
<1> QED BY <1>4, <1>5, <1>7 DEF Looked, m

(* Nor does an empty one.                                                  *)
LEMMA LookedEmpty ==
  ASSUME NEW s \in Sections, NEW x \in Strings, NEW name
  PROVE  Looked(Append(s, Section(x)), name) = Looked(s, name)
<1> DEFINE t == Append(s, Section(x))
           m == FirstOf(SectionsNamed(t, name))
<1>1. /\ Section(x) \in Sec /\ t \in Sections /\ Len(t) = Len(s) + 1 /\ Len(s) \in Nat
      /\ Len(t) \in Nat /\ DOMAIN s = 1 .. Len(s) /\ DOMAIN t = 1 .. Len(t)
  BY SectionFacts, LenProperties DEF Sections
<1>2. (\A i \in 1 .. Len(s) : t[i] = s[i]) /\ t[Len(s) + 1] = Section(x)
  BY <1>1, AppendProperties DEF Sections
<1>3. CASE SectionsNamed(s, name) # {}
  <2> HIDE DEF t
  <2>1. Looked(t, name) = Looked(s, name)
    BY <1>1, <1>2, <1>3, LookedBefore
  <2> QED BY <2>1 DEF t
<1>4. CASE SectionsNamed(s, name) = {}
  <2> HIDE DEF t
  <2>1. \A i \in SectionsNamed(t, name) : i = Len(s) + 1
    <3> TAKE i \in SectionsNamed(t, name)
    <3>1. i \in 1 .. Len(t) /\ t[i].name = name
      BY <1>1 DEF SectionsNamed
    <3>2. i \notin 1 .. Len(s)
      BY <1>1, <1>2, <1>4, <3>1 DEF SectionsNamed
    <3> QED BY <1>1, <3>1, <3>2
  <2>2. SectionsNamed(t, name) # {} => m = Len(s) + 1
    BY <1>1, <2>1, FirstIndex DEF SectionsNamed
  <2>3. Section(x).entries = <<>>
    BY DEF Section
  <2> QED BY <1>2, <1>4, <2>2, <2>3 DEF Looked, t
<1> QED BY <1>3, <1>4

(* A default section that is begun is empty, so nothing more is found.     *)
LEMMA LookedBegun ==
  ASSUME NEW s \in Sections, NEW name
  PROVE  Looked(Begun(s), name) = Looked(s, name)
<1>1. CASE s # <<>>
  BY <1>1 DEF Begun
<1>2. CASE s = <<>>
  <2>1. Begun(s) = Append(s, Section(<<DEFAULT_SECTION>>))
    BY <1>2, AppendToNone DEF Begun
  <2> QED BY <2>1, DefaultName, LookedEmpty
<1> QED BY <1>1, <1>2

(* An entry is found in the last section if that is the first of its name. *)
IsFirst(s, name) ==
  s[Len(s)].name = name /\ \A i \in 1 .. Len(s) - 1 : s[i].name # name

(* What a look-up finds after an entry was put into the last section.      *)
LEMMA LookedPut ==
  ASSUME NEW s \in Sections, s # <<>>, NEW e \in Entry, NEW name
  PROVE  Looked(Put(s, e), name) = IF IsFirst(s, name) THEN Append(Looked(s, name), e)
                                   ELSE Looked(s, name)
<1> DEFINE t == Put(s, e)
           N == Len(s)
           m == FirstOf(SectionsNamed(s, name))
           old == s[N].entries
<1>1. /\ t = WithEntries(s, Append(old, e)) /\ Append(old, e) \in Seq(Entry)
      /\ t \in Sections /\ Len(t) = N
  BY PutFacts
<1>2. /\ t[N].entries = Append(old, e) /\ t[N].name = s[N].name
      /\ \A i \in 1 .. N : i # N => t[i] = s[i]
  <2> DEFINE z == Append(old, e)
  <2>1. z \in Seq(Entry) /\ t = WithEntries(s, z)
    BY <1>1
  <2> HIDE DEF z, t
  <2>2. /\ WithEntries(s, z)[N].entries = z /\ WithEntries(s, z)[N].name = s[N].name
        /\ \A i \in 1 .. N : i # N => WithEntries(s, z)[i] = s[i]
    BY <2>1, WithEntriesFacts
  <2> QED BY <2>1, <2>2 DEF z
<1>3. N \in Nat /\ N \in 1 .. N /\ DOMAIN s = 1 .. N /\ DOMAIN t = 1 .. N
  BY <1>1, LastSection, LenProperties DEF Sections
<1> HIDE DEF t, N, old
<1>4. SectionsNamed(t, name) = SectionsNamed(s, name) /\ SectionsNamed(s, name) \in SUBSET Nat
  BY <1>2, <1>3 DEF SectionsNamed
<1>5. IsFirst(s, name) <=> SectionsNamed(s, name) # {} /\ m = N
  <2>1. ASSUME IsFirst(s, name) PROVE SectionsNamed(s, name) # {} /\ m = N
    <3>1. s[N].name = name /\ \A i \in 1 .. N - 1 : s[i].name # name
      BY <2>1 DEF IsFirst, N
    <3>2. N \in SectionsNamed(s, name)
      BY <1>3, <3>1 DEF SectionsNamed
    <3>3. \A i \in SectionsNamed(s, name) : N <= i
      <4> TAKE i \in SectionsNamed(s, name)
      <4>1. i \in 1 .. N /\ i \notin 1 .. N - 1
        BY <1>3, <3>1 DEF SectionsNamed
      <4> QED BY <1>3, <4>1
    <3> QED BY <1>4, <3>2, <3>3, FirstIndex
  <2>2. ASSUME SectionsNamed(s, name) # {}, m = N PROVE IsFirst(s, name)
    <3>1. N \in SectionsNamed(s, name) /\ \A i \in SectionsNamed(s, name) : N <= i
      BY <1>4, <2>2, FirstIndex
    <3>2. s[N].name = name
      BY <3>1 DEF SectionsNamed
    <3>3. \A i \in 1 .. N - 1 : s[i].name # name
      <4> TAKE i \in 1 .. N - 1
      <4>1. i \in 1 .. N /\ ~(N <= i)
        BY <1>3
      <4> QED BY <1>3, <3>1, <4>1 DEF SectionsNamed
    <3> QED BY <3>2, <3>3 DEF IsFirst, N
  <2> QED BY <2>1, <2>2
<1>6. SectionsNamed(s, name) # {} => m \in 1 .. N
  BY <1>3, <1>4, FirstIndex DEF SectionsNamed
<1>7. CASE IsFirst(s, name)
  BY <1>2, <1>4, <1>5, <1>7 DEF Looked, t, old
<1>8. CASE ~IsFirst(s, name)
  BY <1>2, <1>4, <1>5, <1>6, <1>8 DEF Looked, t
<1> QED BY <1>7, <1>8

(* What is looked up are entries.                                          *)
LEMMA LookedEntries ==
  ASSUME NEW s \in Sections, NEW name
  PROVE  Looked(s, name) \in Seq(Entry)
<1>1. DOMAIN s = 1 .. Len(s) /\ Len(s) \in Nat /\ <<>> \in Seq(Entry)
  BY LenProperties, ShortSeq DEF Sections
<1>2. SectionsNamed(s, name) # {} => FirstOf(SectionsNamed(s, name)) \in 1 .. Len(s)
  BY <1>1, FirstIndex DEF SectionsNamed
<1>3. \A i \in 1 .. Len(s) : s[i].entries \in Seq(Entry)
  <2> TAKE i \in 1 .. Len(s)
  <2>1. s[i] \in Sec
    BY ElementOfSeq DEF Sections
  <2> QED BY <2>1 DEF Sec
<1> QED BY <1>1, <1>2, <1>3 DEF Looked

(* The first value of a key stays the one that is found.                   *)
LEMMA ValueAppended ==
  ASSUME NEW es \in Seq(Entry), NEW e \in Entry, NEW k
  PROVE  /\ Has(Append(es, e), k) <=> Has(es, k) \/ e.key = k
         /\ Has(es, k) =>
              ra_config_get_value(Append(es, e), k) = ra_config_get_value(es, k)
         /\ ~Has(es, k) /\ e.key = k => ra_config_get_value(Append(es, e), k) = e.value
<1> DEFINE t == Append(es, e)
           S == {i \in DOMAIN es : es[i].key = k}
           T == {i \in DOMAIN t : t[i].key = k}
           N == Len(es)
           m == FirstOf(S)
<1>1. /\ N \in Nat /\ DOMAIN es = 1 .. N /\ DOMAIN t = 1 .. N + 1
      /\ (\A i \in 1 .. N : t[i] = es[i]) /\ t[N + 1] = e
  BY AppendProperties, LenProperties
<1> HIDE DEF t, N
<1>2. S \in SUBSET Nat /\ T \in SUBSET Nat
  BY <1>1
<1>3. S \subseteq T /\ \A i \in T : i \in S \/ i = N + 1
  BY <1>1
<1>4. N + 1 \in T <=> e.key = k
  BY <1>1
<1>5. Has(t, k) <=> T # {}
  BY DEF Has
<1>6. Has(es, k) <=> S # {}
  BY DEF Has
<1>7. Has(t, k) <=> Has(es, k) \/ e.key = k
  BY <1>3, <1>4, <1>5, <1>6
<1>8. /\ ra_config_get_value(t, k) = IF T = {} THEN NoString ELSE t[FirstOf(T)].value
      /\ ra_config_get_value(es, k) = IF S = {} THEN NoString ELSE es[m].value
  BY DEF ra_config_get_value
<1>9. ASSUME S # {} PROVE ra_config_get_value(t, k) = ra_config_get_value(es, k)
  <2>1. m \in S /\ \A i \in S : m <= i
    <3> HIDE DEF S
    <3> QED BY <1>2, <1>9, FirstIndex
  <2>2. m \in 1 .. N
    BY <1>1, <2>1
  <2> HIDE DEF m
  <2>3. \A i \in T : m <= i
    BY <1>1, <1>3, <2>1, <2>2
  <2>4. FirstOf(T) = m
    <3> HIDE DEF S, T
    <3> QED BY <1>2, <1>3, <2>1, <2>3, FirstIndex
  <2> QED BY <1>1, <1>3, <1>8, <1>9, <2>2, <2>4 DEF m
<1>10. ASSUME S = {}, e.key = k PROVE ra_config_get_value(t, k) = e.value
  <2>1. T = {N + 1}
    BY <1>3, <1>4, <1>10
  <2>2. FirstOf(T) = N + 1
    <3>1. N + 1 \in T /\ \A i \in T : N + 1 <= i
      BY <1>1, <2>1
    <3> HIDE DEF T
    <3> QED BY <1>2, <3>1, FirstIndex
  <2> QED BY <1>1, <1>8, <2>1, <2>2
<1> QED BY <1>6, <1>7, <1>9, <1>10 DEF t

(* Without the key there is no value.                                      *)
LEMMA NoValueWithoutKey ==
  ASSUME NEW es, NEW k, ~Has(es, k)
  PROVE  ra_config_get_value(es, k) = NoString
BY DEF Has, ra_config_get_value

(* The header that line n is under is the last one up to it.               *)
LEMMA HeaderDef ==
  ASSUME file \in Files, NEW n \in 0 .. Len(file)
  PROVE  HeaderOf(n) \in Under(n) /\ \A h \in Under(n) : h <= HeaderOf(n)
<1>1. n \in Nat /\ Under(n) \in SUBSET (0 .. n) /\ Under(n) # {}
  BY FileLines DEF Under
<1>2. Max(Under(n)) \in Under(n) /\ \A h \in Under(n) : h <= Max(Under(n))
  BY <1>1, Greatest
<1> QED BY <1>2 DEF HeaderOf

(* From one line to the next.                                              *)
LEMMA HeaderNext ==
  ASSUME file \in Files, NEW n \in 0 .. Len(file), n < Len(file)
  PROVE  /\ IsHeader(n + 1) => HeaderOf(n + 1) = n + 1
         /\ ~IsHeader(n + 1) => HeaderOf(n + 1) = HeaderOf(n)
<1>1. n \in Nat /\ n + 1 \in 0 .. Len(file) /\ Len(file) \in Nat
  BY FileLines
<1>2. ASSUME IsHeader(n + 1) PROVE HeaderOf(n + 1) = n + 1
  <2>1. n + 1 \in Under(n + 1) /\ Under(n + 1) \subseteq 0 .. n + 1
    BY <1>1, <1>2 DEF Under
  <2>2. HeaderOf(n + 1) \in Under(n + 1) /\ n + 1 <= HeaderOf(n + 1)
    BY <1>1, <2>1, HeaderDef
  <2> QED BY <1>1, <2>1, <2>2
<1>3. ASSUME ~IsHeader(n + 1) PROVE HeaderOf(n + 1) = HeaderOf(n)
  <2>1. \A h \in 1 .. n + 1 : h \in 1 .. n \/ h = n + 1
    BY <1>1
  <2>2. 1 .. n \subseteq 1 .. n + 1
    BY <1>1
  <2>3. Under(n + 1) = Under(n)
    BY <1>3, <2>1, <2>2 DEF Under
  <2> QED BY <2>3 DEF HeaderOf
<1> QED BY <1>2, <1>3

(* No earlier header has the name of h.                                    *)
FirstHeader(h) ==
  \A g \in 1 .. h - 1 : ~(IsHeader(g) /\ file[g].section = NameOf(h))

(* Line n + 1 is one of those written for a key under a name.              *)
Counts(name, k, n) ==
  /\ "key" \in DOMAIN file[n + 1] /\ file[n + 1].key = k
  /\ NameOf(HeaderOf(n + 1)) = name /\ FirstHeader(HeaderOf(n + 1))

(* Which lines they are, from one line to the next.                        *)
LEMMA WrittenNext ==
  ASSUME file \in Files, NEW n \in 0 .. Len(file), n < Len(file), NEW name, NEW k
  PROVE  WrittenAt(name, k, n + 1) = IF Counts(name, k, n)
                                     THEN WrittenAt(name, k, n) \cup {n + 1}
                                     ELSE WrittenAt(name, k, n)
<1>1. n \in Nat
  BY FileLines
<1>2. \A i \in 1 .. n + 1 : i \in 1 .. n \/ i = n + 1
  BY <1>1
<1>3. 1 .. n \subseteq 1 .. n + 1 /\ n + 1 \in 1 .. n + 1
  BY <1>1
<1> DEFINE P(i) == /\ "key" \in DOMAIN file[i] /\ file[i].key = k
                   /\ NameOf(HeaderOf(i)) = name
                   /\ \A h \in 1 .. HeaderOf(i) - 1 :
                        ~(IsHeader(h) /\ file[h].section = name)
<1>4. \A m : WrittenAt(name, k, m) = {i \in 1 .. m : P(i)}
  BY DEF WrittenAt
<1>5. Counts(name, k, n) <=> P(n + 1)
  BY DEF Counts, FirstHeader
<1> HIDE DEF P
<1> QED BY <1>2, <1>3, <1>4, <1>5

(* The value that was written first stays the one that is read.            *)
LEMMA WrittenValueNext ==
  ASSUME file \in Files, NEW n \in 0 .. Len(file), n < Len(file), NEW name, NEW k
  PROVE  /\ ~Counts(name, k, n) => WrittenValue(name, k, n + 1) = WrittenValue(name, k, n)
         /\ WrittenAt(name, k, n) # {} =>
              WrittenValue(name, k, n + 1) = WrittenValue(name, k, n)
         /\ WrittenAt(name, k, n) = {} /\ Counts(name, k, n) =>
              WrittenValue(name, k, n + 1) = file[n + 1].value
<1> DEFINE S == WrittenAt(name, k, n)
           T == WrittenAt(name, k, n + 1)
           first(U) == CHOOSE i \in U : \A j \in U : i <= j
<1>1. T = IF Counts(name, k, n) THEN S \cup {n + 1} ELSE S
  BY WrittenNext
<1>2. n \in Nat /\ S \in SUBSET Nat /\ \A i \in S : i <= n
  BY FileLines DEF WrittenAt
<1>3. /\ WrittenValue(name, k, n) = IF S = {} THEN NoString ELSE file[first(S)].value
      /\ WrittenValue(name, k, n + 1) = IF T = {} THEN NoString ELSE file[first(T)].value
  BY DEF WrittenValue
<1> HIDE DEF S, T
<1>4. CASE ~Counts(name, k, n)
  BY <1>1, <1>3, <1>4 DEF S
<1>5. CASE Counts(name, k, n) /\ S # {}
  <2>1. \E m \in S : \A i \in S : m <= i
    BY <1>2, <1>5, Least
  <2>2. first(S) \in S /\ \A i \in S : first(S) <= i
    BY <2>1
  <2> DEFINE m == first(S)
             x == first(T)
  <2> HIDE DEF m, x
  <2>3. m \in T /\ \A i \in T : m <= i
    <3>1. m \in S /\ m \in Nat /\ m <= n /\ \A i \in S : m <= i
      BY <1>2, <2>2 DEF m
    <3> QED BY <1>1, <1>2, <1>5, <3>1
  <2>4. x \in T /\ \A i \in T : x <= i
    BY <2>3 DEF x
  <2>5. T \in SUBSET Nat
    BY <1>1, <1>2
  <2>6. x <= m /\ m <= x /\ x \in Nat /\ m \in Nat
    BY <2>3, <2>4, <2>5
  <2>7. x = m
    BY <2>6
  <2>8. T # {}
    BY <2>3
  <2> QED BY <1>3, <1>5, <2>7, <2>8 DEF S, x, m
<1>6. CASE Counts(name, k, n) /\ S = {}
  <2>1. T = {n + 1}
    BY <1>1, <1>6
  <2>2. \E i \in T : \A j \in T : i <= j
    BY <1>2, <2>1
  <2>3. first(T) \in T
    BY <2>2
  <2>4. first(T) = n + 1
    BY <2>1, <2>3
  <2> QED BY <1>3, <1>6, <2>1, <2>4 DEF S
<1> QED BY <1>4, <1>5, <1>6

(* What the sections of the first n lines have to do with the lines: the   *)
(* last one is the one that the next key goes to, it is the first of its   *)
(* name when its header is, and what is looked up in them is written.      *)
LastNamed(n) ==
  LET s == Meaning[n]
  IN IF s = <<>> THEN HeaderOf(n) = 0 ELSE s[Len(s)].name = <<NameOf(HeaderOf(n))>>
NoneNamed(n) == HeaderOf(n) = 0 => Len(Meaning[n]) <= 1
Named(n) ==
  \A name \in {"sink", "source"} :
    (\E i \in DOMAIN Meaning[n] : Meaning[n][i].name = <<name>>)
      <=> \E h \in 1 .. n : IsHeader(h) /\ file[h].section = name
FirstNamed(n) ==
  LET s == Meaning[n]
  IN (\A i \in 1 .. Len(s) - 1 : s[i].name # <<NameOf(HeaderOf(n))>>)
       <=> FirstHeader(HeaderOf(n))
FoundFor(n, name, k) ==
  LET es == Looked(Meaning[n], <<name>>)
  IN /\ Has(es, k) <=> WrittenAt(name, k, n) # {}
     /\ ra_config_get_value(es, k) = WrittenValue(name, k, n)

Reads(n) == /\ LastNamed(n) /\ NoneNamed(n) /\ Named(n) /\ FirstNamed(n)
            /\ \A name, k \in Strings \cup Words : FoundFor(n, name, k)

(* Names of one word are the same when their words are.                    *)
LEMMA OneWord ==
  ASSUME NEW a, NEW b, <<a>> = <<b>>
  PROVE  a = b
<1>1. <<a>>[1] = a /\ <<b>>[1] = b
  OBVIOUS
<1> QED BY <1>1

(* The names of the headers.                                               *)
LEMMA HeaderNames ==
  ASSUME NEW L \in Lines, "section" \in DOMAIN L
  PROVE  L.section \in {"sink", "source"} /\ <<L.section>> \in Strings
<1>1. L \in {SectionLine("sink"), SectionLine("source")}
  BY DEF Lines, EntryLine
<1>2. L.section \in {"sink", "source"}
  BY <1>1 DEF SectionLine
<1> QED BY <1>2, ShortSeq DEF Strings, Words

(* Before the first line nothing is written and nothing is found.          *)
LEMMA ReadsNothing ==
  ASSUME file \in Files
  PROVE  Reads(0)
<1>1. Meaning[0] = <<>> /\ HeaderOf(0) = 0 /\ DOMAIN <<>> = {} /\ Len(<<>>) = 0
  <2>1. 0 \in 0 .. Len(file) /\ Under(0) = {0}
    BY FileLines DEF Under
  <2> QED BY <2>1, HeaderDef, MeaningDef
<1>2. LastNamed(0) /\ NoneNamed(0) /\ Named(0) /\ FirstNamed(0)
  BY <1>1 DEF LastNamed, NoneNamed, Named, FirstNamed, FirstHeader
<1>3. ASSUME NEW name, NEW k PROVE FoundFor(0, name, k)
  <2>1. Looked(Meaning[0], <<name>>) = <<>>
    BY <1>1 DEF Looked, SectionsNamed
  <2>2. ~Has(<<>>, k) /\ ra_config_get_value(<<>>, k) = NoString
    BY <1>1, NoValueWithoutKey DEF Has
  <2>3. WrittenAt(name, k, 0) = {} /\ WrittenValue(name, k, 0) = NoString
    BY DEF WrittenAt, WrittenValue
  <2> QED BY <2>1, <2>2, <2>3 DEF FoundFor
<1> QED BY <1>2, <1>3 DEF Reads

(* A line that is not a key adds nothing that is found.                    *)
LEMMA FoundStays ==
  ASSUME file \in Files, NEW n \in 0 .. Len(file), n < Len(file), NEW name, NEW k,
         FoundFor(n, name, k), ~Counts(name, k, n),
         Looked(Meaning[n + 1], <<name>>) = Looked(Meaning[n], <<name>>)
  PROVE  FoundFor(n + 1, name, k)
BY WrittenNext, WrittenValueNext DEF FoundFor

(* A blank line.                                                           *)
LEMMA ReadsBlank ==
  ASSUME file \in Files, NEW n \in 0 .. Len(file), n < Len(file), Reads(n),
         "section" \notin DOMAIN file[n + 1], "key" \notin DOMAIN file[n + 1]
  PROVE  Reads(n + 1)
<1>1. Meaning[n + 1] = Meaning[n] /\ HeaderOf(n + 1) = HeaderOf(n) /\ n \in Nat
  <2>1. /\ file[n + 1] \in Lines /\ Meaning[n] \in Sections
        /\ Meaning[n + 1] = Read(Meaning[n], file[n + 1])
    BY MeaningNext
  <2>2. Read(Meaning[n], file[n + 1]) = Meaning[n]
    BY <2>1, ReadFacts
  <2>3. HeaderOf(n + 1) = HeaderOf(n)
    BY HeaderNext DEF IsHeader
  <2> QED BY <2>1, <2>2, <2>3, FileLines
<1>2. LastNamed(n + 1) /\ NoneNamed(n + 1) /\ FirstNamed(n + 1)
  BY <1>1 DEF Reads, LastNamed, NoneNamed, FirstNamed
<1>3. Named(n + 1)
  <2>1. \A h \in 1 .. n + 1 : IsHeader(h) => h \in 1 .. n
    <3>1. \A h \in 1 .. n + 1 : h \in 1 .. n \/ h = n + 1
      BY <1>1
    <3> QED BY <3>1 DEF IsHeader
  <2>2. 1 .. n \subseteq 1 .. n + 1
    BY <1>1
  <2> QED BY <1>1, <2>1, <2>2 DEF Named, Reads
<1>4. ASSUME NEW name \in Strings \cup Words, NEW k \in Strings \cup Words
      PROVE  FoundFor(n + 1, name, k)
  <2>1. FoundFor(n, name, k) /\ ~Counts(name, k, n)
    BY DEF Reads, Counts
  <2> QED BY <1>1, <2>1, FoundStays
<1> QED BY <1>2, <1>3, <1>4 DEF Reads

(* A header.                                                               *)
LEMMA ReadsHeader ==
  ASSUME file \in Files, NEW n \in 0 .. Len(file), n < Len(file), Reads(n),
         "section" \in DOMAIN file[n + 1]
  PROVE  Reads(n + 1)
<1> DEFINE L == file[n + 1]
           s == Meaning[n]
           t == Meaning[n + 1]
<1>1. /\ L \in Lines /\ s \in Sections /\ n \in Nat /\ n + 1 # 0
      /\ L.section \in {"sink", "source"} /\ <<L.section>> \in Strings
      /\ "key" \notin DOMAIN L
  BY MeaningNext, HeaderNames, LineText, FileLines
<1>2. t = Append(s, Section(<<L.section>>))
  BY <1>1, MeaningNext, ReadFacts
<1>3. HeaderOf(n + 1) = n + 1 /\ NameOf(n + 1) = L.section /\ n + 1 - 1 = n
  BY <1>1, HeaderNext DEF IsHeader, NameOf
<1> HIDE DEF s, t
<1>4. /\ Len(s) \in Nat /\ Len(t) = Len(s) + 1 /\ Len(t) \in Nat /\ t \in Sections
      /\ DOMAIN s = 1 .. Len(s) /\ DOMAIN t = 1 .. Len(t)
      /\ (\A i \in 1 .. Len(s) : t[i] = s[i])
      /\ t[Len(s) + 1] = Section(<<L.section>>)
  <2>1. Section(<<L.section>>) \in Sec /\ Append(s, Section(<<L.section>>)) \in Sections
    BY <1>1, SectionFacts
  <2> QED BY <1>1, <1>2, <2>1, AppendProperties, LenProperties DEF Sections
<1>5. t # <<>> /\ t[Len(t)].name = <<L.section>>
  BY <1>4, EmptySeq DEF Section
<1>6. LastNamed(n + 1) /\ NoneNamed(n + 1)
  BY <1>1, <1>3, <1>5 DEF LastNamed, NoneNamed, t
<1>7. ASSUME NEW name \in {"sink", "source"}
      PROVE  /\ (\E i \in DOMAIN s : s[i].name = <<name>>)
                  <=> \E h \in 1 .. n : IsHeader(h) /\ file[h].section = name
             /\ (\E i \in DOMAIN t : t[i].name = <<name>>)
                  <=> (\E i \in DOMAIN s : s[i].name = <<name>>) \/ name = L.section
  <2>1. \A i \in DOMAIN t : i \in DOMAIN s \/ i = Len(s) + 1
    BY <1>4
  <2>2. Len(s) + 1 \in DOMAIN t /\ DOMAIN s \subseteq DOMAIN t
    BY <1>4
  <2>3. t[Len(s) + 1].name = <<L.section>>
    BY <1>4 DEF Section
  <2>4. <<L.section>> = <<name>> => name = L.section
    BY OneWord
  <2>5. \A i \in DOMAIN s : t[i] = s[i]
    BY <1>4
  <2>6. (\E i \in DOMAIN s : s[i].name = <<name>>)
          <=> \E h \in 1 .. n : IsHeader(h) /\ file[h].section = name
    BY DEF Reads, Named, s
  <2>7. (\E i \in DOMAIN t : t[i].name = <<name>>)
          <=> (\E i \in DOMAIN s : s[i].name = <<name>>) \/ name = L.section
    BY <2>1, <2>2, <2>3, <2>4, <2>5
  <2> QED BY <2>6, <2>7
<1>8. Named(n + 1)
  <2>1. \A h \in 1 .. n + 1 : h \in 1 .. n \/ h = n + 1
    BY <1>1
  <2>2. 1 .. n \subseteq 1 .. n + 1 /\ n + 1 \in 1 .. n + 1
    BY <1>1
  <2>3. IsHeader(n + 1)
    BY DEF IsHeader
  <2> QED BY <1>7, <2>1, <2>2, <2>3 DEF Named, t
<1>9. FirstNamed(n + 1)
  <2>1. (\A i \in 1 .. Len(s) : s[i].name # <<L.section>>)
          <=> \A h \in 1 .. n : ~(IsHeader(h) /\ file[h].section = L.section)
    <3>1. (\E i \in DOMAIN s : s[i].name = <<L.section>>)
            <=> \E h \in 1 .. n : IsHeader(h) /\ file[h].section = L.section
      <4> HIDE DEF L
      <4> QED BY <1>1, <1>7
    <3> HIDE DEF L
    <3> QED BY <1>4, <3>1
  <2>2. (\A i \in 1 .. Len(t) - 1 : t[i].name # <<L.section>>)
          <=> \A i \in 1 .. Len(s) : s[i].name # <<L.section>>
    <3>1. Len(t) - 1 = Len(s)
      BY <1>4
    <3> QED BY <1>4, <3>1
  <2>3. FirstHeader(n + 1)
          <=> \A h \in 1 .. n : ~(IsHeader(h) /\ file[h].section = L.section)
    BY <1>3 DEF FirstHeader
  <2>4. FirstHeader(n + 1) <=> \A i \in 1 .. Len(t) - 1 : t[i].name # <<L.section>>
    BY <2>1, <2>2, <2>3
  <2> QED BY <1>3, <2>4 DEF FirstNamed, t
<1>10. ASSUME NEW name \in Strings \cup Words, NEW k \in Strings \cup Words
      PROVE  FoundFor(n + 1, name, k)
  <2>1. FoundFor(n, name, k) /\ ~Counts(name, k, n)
    BY <1>1 DEF Reads, Counts
  <2>2. Looked(t, <<name>>) = Looked(s, <<name>>)
    BY <1>1, <1>2, LookedEmpty
  <2> QED BY <2>1, <2>2, FoundStays DEF s, t
<1> QED BY <1>6, <1>8, <1>9, <1>10 DEF Reads

(* A key.                                                                  *)
LEMMA ReadsKey ==
  ASSUME file \in Files, NEW n \in 0 .. Len(file), n < Len(file), Reads(n),
         "key" \in DOMAIN file[n + 1]
  PROVE  Reads(n + 1)
<1> DEFINE L == file[n + 1]
           r == Meaning[n]
           s == Begun(r)
           e == [key |-> L.key, value |-> L.value]
           t == Meaning[n + 1]
           h == HeaderOf(n)
           last == NameOf(h)
<1>1. /\ L \in Lines /\ r \in Sections /\ n \in Nat /\ "section" \notin DOMAIN L
      /\ s \in Sections /\ s # <<>> /\ Len(s) = IF r = <<>> THEN 1 ELSE Len(r)
      /\ t = Put(s, e) /\ e \in Entry /\ e.key = L.key /\ e.value = L.value
  <2>1. L \in Lines /\ r \in Sections /\ t = Read(r, L)
    BY MeaningNext
  <2>2. n \in Nat /\ "section" \notin DOMAIN L
    BY <2>1, LineText, FileLines
  <2>3. e \in Entry /\ Read(r, L) = Put(s, e)
    <3> HIDE DEF L, r
    <3>1. "key" \in DOMAIN L
      BY DEF L
    <3> QED BY <2>1, <3>1, ReadFacts
  <2>4. s \in Sections /\ s # <<>> /\ Len(s) = IF r = <<>> THEN 1 ELSE Len(r)
    BY <2>1, BegunFacts
  <2> QED BY <2>1, <2>2, <2>3, <2>4
<1>2. HeaderOf(n + 1) = h /\ ~IsHeader(n + 1)
  BY <1>1, HeaderNext DEF IsHeader
<1>3. s[Len(s)].name = <<last>> /\ (h = 0 => Len(s) = 1)
      /\ ((\A i \in 1 .. Len(s) - 1 : s[i].name # <<last>>) <=> FirstHeader(h))
      /\ (Len(r) = 0 <=> r = <<>>) /\ Len(r) \in Nat
  <2>0. (Len(r) = 0 <=> r = <<>>) /\ Len(r) \in Nat
    BY <1>1, EmptySeq, LenProperties DEF Sections
  <2>1. CASE r = <<>>
    <3>1. h = 0 /\ last = DEFAULT_SECTION
      BY <2>1 DEF Reads, LastNamed, NameOf
    <3>2. s = <<Section(<<DEFAULT_SECTION>>)>> /\ Len(s) = 1
      BY <1>1, <2>1 DEF Begun
    <3>3. s[1] = Section(<<DEFAULT_SECTION>>)
      BY <3>2
    <3>4. s[Len(s)].name = <<last>>
      BY <3>1, <3>2, <3>3 DEF Section
    <3> HIDE DEF s, r, h
    <3>5. FirstHeader(h)
      BY <3>1 DEF FirstHeader
    <3>6. \A i \in 1 .. Len(s) - 1 : s[i].name # <<last>>
      BY <3>2
    <3> QED BY <2>0, <3>2, <3>4, <3>5, <3>6
  <2>2. CASE r # <<>>
    <3>1. s = r
      BY <2>2 DEF Begun
    <3>2. /\ r[Len(r)].name = <<last>> /\ (h = 0 => Len(r) <= 1)
          /\ ((\A i \in 1 .. Len(r) - 1 : r[i].name # <<last>>) <=> FirstHeader(h))
      BY <2>2 DEF Reads, LastNamed, NoneNamed, FirstNamed
    <3> HIDE DEF s, r, h, last
    <3>3. h = 0 => Len(r) = 1
      <4>1. Len(r) # 0
        BY <2>0, <2>2
      <4>2. Len(r) \in Nat
        BY <2>0
      <4>3. h = 0 => Len(r) <= 1
        BY <3>2
      <4> DEFINE x == Len(r)
      <4> HIDE DEF x
      <4>4. x # 0 /\ x \in Nat /\ (h = 0 => x <= 1)
        BY <4>1, <4>2, <4>3 DEF x
      <4>5. h = 0 => x = 1
        BY <4>4
      <4> QED BY <4>5 DEF x
    <3> QED BY <2>0, <3>1, <3>2, <3>3
  <2> QED BY <2>1, <2>2
<1>4. /\ Len(t) = Len(s) /\ t \in Sections /\ t # <<>>
      /\ \A i \in 1 .. Len(s) : t[i].name = s[i].name
      /\ Len(s) \in Nat /\ Len(s) \in 1 .. Len(s)
      /\ DOMAIN s = 1 .. Len(s) /\ DOMAIN t = 1 .. Len(t)
  <2> DEFINE z == Append(s[Len(s)].entries, e)
  <2> HIDE DEF s, e, t
  <2>1. /\ t = WithEntries(s, z) /\ z \in Seq(Entry)
        /\ t \in Sections /\ Len(t) = Len(s) /\ t # <<>>
    BY <1>1, PutFacts
  <2> HIDE DEF z
  <2>2. /\ t[Len(s)].name = s[Len(s)].name
        /\ \A i \in 1 .. Len(s) : i # Len(s) => t[i] = s[i]
    BY <1>1, <2>1, WithEntriesFacts
  <2>3. /\ Len(s) \in Nat /\ Len(s) \in 1 .. Len(s)
        /\ DOMAIN s = 1 .. Len(s) /\ DOMAIN t = 1 .. Len(t)
    BY <1>1, <2>1, LastSection
  <2> QED BY <2>1, <2>2, <2>3
<1>5. LastNamed(n + 1) /\ NoneNamed(n + 1)
  <2> HIDE DEF s
  <2>0. /\ s[Len(s)].name = <<last>> /\ (h = 0 => Len(s) = 1)
        /\ t[Len(s)].name = s[Len(s)].name
    BY <1>3, <1>4
  <2>1. t[Len(t)].name = <<last>> /\ (h = 0 => Len(t) <= 1)
    <3> HIDE DEF t, h, last
    <3> QED BY <1>4, <2>0
  <2> QED BY <1>2, <1>4, <2>1 DEF LastNamed, NoneNamed
<1>6. FirstNamed(n + 1)
  <2>1. (\A i \in 1 .. Len(t) - 1 : t[i].name # <<last>>)
          <=> \A i \in 1 .. Len(s) - 1 : s[i].name # <<last>>
    <3> HIDE DEF s, t, last
    <3>1. \A i \in 1 .. Len(s) - 1 : i \in 1 .. Len(s)
      BY <1>4
    <3> QED BY <1>4, <3>1
  <2> QED BY <1>2, <1>3, <2>1 DEF FirstNamed
<1>7. Named(n + 1)
  <2>1. \A g \in 1 .. n + 1 : IsHeader(g) => g \in 1 .. n
    <3>1. \A g \in 1 .. n + 1 : g \in 1 .. n \/ g = n + 1
      BY <1>1
    <3> QED BY <1>2, <3>1
  <2>2. 1 .. n \subseteq 1 .. n + 1
    BY <1>1
  <2>3. ASSUME NEW name \in {"sink", "source"}
        PROVE  (\E i \in DOMAIN t : t[i].name = <<name>>)
                 <=> \E i \in DOMAIN r : r[i].name = <<name>>
    <3>1. (\E i \in DOMAIN t : t[i].name = <<name>>)
            <=> \E i \in DOMAIN s : s[i].name = <<name>>
      <4> HIDE DEF s, t
      <4> QED BY <1>4
    <3>2. CASE r # <<>>
      BY <3>1, <3>2 DEF Begun
    <3>3. CASE r = <<>>
      <4>1. <<DEFAULT_SECTION>> # <<name>>
        BY OneWord DEF DEFAULT_SECTION
      <4>2. s = <<Section(<<DEFAULT_SECTION>>)>> /\ Len(s) = 1
        BY <1>1, <3>3 DEF Begun
      <4>3. s[1].name = <<DEFAULT_SECTION>>
        BY <4>2 DEF Section
      <4>4. DOMAIN r = {}
        BY <3>3
      <4> HIDE DEF s, r
      <4>5. \A i \in DOMAIN s : i = 1
        BY <1>4, <4>2
      <4> QED BY <3>1, <4>1, <4>3, <4>4, <4>5
    <3> QED BY <3>2, <3>3
  <2> QED BY <2>1, <2>2, <2>3 DEF Named, Reads
<1>8. ASSUME NEW name \in Strings \cup Words, NEW k \in Strings \cup Words
      PROVE  FoundFor(n + 1, name, k)
  <2> DEFINE es == Looked(r, <<name>>)
             new == Looked(t, <<name>>)
  <2>1. es \in Seq(Entry) /\ Looked(s, <<name>>) = es
    BY <1>1, LookedEntries, LookedBegun
  <2>2. new = IF IsFirst(s, <<name>>) THEN Append(es, e) ELSE es
    <3> HIDE DEF s, e, t, r
    <3> QED BY <1>1, <2>1, LookedPut
  <2>3. IsFirst(s, <<name>>) <=> name = last /\ FirstHeader(h)
    <3>1. <<last>> = <<name>> => name = last
      BY OneWord
    <3> HIDE DEF s, h, last
    <3> QED BY <1>3, <3>1 DEF IsFirst
  <2>4. Counts(name, k, n) <=> IsFirst(s, <<name>>) /\ L.key = k
    <3> HIDE DEF s
    <3> QED BY <1>2, <2>3 DEF Counts
  <2>5. FoundFor(n, name, k)
    BY DEF Reads
  <2>6. CASE ~IsFirst(s, <<name>>)
    BY <2>2, <2>4, <2>5, <2>6, FoundStays
  <2>7. CASE IsFirst(s, <<name>>)
    <3>0. new = Append(es, e)
      BY <2>2, <2>7
    <3> HIDE DEF es, new, e, s, r, t, h, last
    <3>1. /\ Has(new, k) <=> Has(es, k) \/ L.key = k
          /\ Has(es, k) => ra_config_get_value(new, k) = ra_config_get_value(es, k)
          /\ ~Has(es, k) /\ L.key = k => ra_config_get_value(new, k) = L.value
      BY <1>1, <2>1, <3>0, ValueAppended
    <3>2. /\ Has(es, k) <=> WrittenAt(name, k, n) # {}
          /\ ra_config_get_value(es, k) = WrittenValue(name, k, n)
      BY <2>5 DEF FoundFor, es, r
    <3>3. /\ Counts(name, k, n) <=> L.key = k
          /\ WrittenAt(name, k, n + 1) = IF Counts(name, k, n)
                                         THEN WrittenAt(name, k, n) \cup {n + 1}
                                         ELSE WrittenAt(name, k, n)
      BY <2>4, <2>7, WrittenNext
    <3>4. /\ ~Counts(name, k, n) => WrittenValue(name, k, n + 1) = WrittenValue(name, k, n)
          /\ WrittenAt(name, k, n) # {} =>
               WrittenValue(name, k, n + 1) = WrittenValue(name, k, n)
          /\ WrittenAt(name, k, n) = {} /\ Counts(name, k, n) =>
               WrittenValue(name, k, n + 1) = L.value
      BY WrittenValueNext
    <3>5. Has(new, k) <=> WrittenAt(name, k, n + 1) # {}
      BY <3>1, <3>2, <3>3
    <3>6. ra_config_get_value(new, k) = WrittenValue(name, k, n + 1)
      <4>1. CASE Has(es, k)
        BY <3>1, <3>2, <3>4, <4>1
      <4>2. CASE ~Has(es, k) /\ L.key = k
        BY <3>1, <3>2, <3>3, <3>4, <4>2
      <4>3. CASE ~Has(es, k) /\ L.key # k
        BY <3>1, <3>2, <3>3, <3>4, <4>3, NoValueWithoutKey
      <4> QED BY <4>1, <4>2, <4>3
    <3> QED BY <3>5, <3>6 DEF FoundFor, new, t
  <2> QED BY <2>6, <2>7
<1> QED BY <1>5, <1>6, <1>7, <1>8 DEF Reads

(* So what is looked up is what is written, by induction over the lines.   *)
LEMMA ReadsAll ==
  ASSUME file \in Files
  PROVE  \A n \in 0 .. Len(file) : Reads(n)
<1> DEFINE S == {n \in 0 .. Len(file) : Reads(n)}
<1>1. Len(file) \in Nat /\ 0 \in S
  BY FileLines, ReadsNothing
<1>2. ASSUME NEW n \in 0 .. Len(file), n \in S, n < Len(file)
      PROVE  n + 1 \in S
  <2>1. Reads(n) /\ n + 1 \in 0 .. Len(file)
    BY <1>1, <1>2
  <2>2. Reads(n + 1)
    BY <1>2, <2>1, ReadsBlank, ReadsHeader, ReadsKey
  <2> QED BY <2>1, <2>2
<1>3. \A n \in 0 .. Len(file) : n \in S
  <2> HIDE DEF S
  <2> QED BY <1>1, <1>2, Induction
<1> QED BY <1>3

(* What the invariant says of the look-ups at the end of a line.           *)
LEMMA InvWritten ==
  ASSUME ParserInv
  PROVE  ParsedAsWritten
<1> SUFFICES ASSUME NEW n \in 0 .. Len(file), LineEnd(n), Sound(n)
             PROVE  section = Meaning[n] /\ FoundAsWritten(n)
  BY DEF ParsedAsWritten
<1>1. section = Meaning[n]
  BY InvMeans
<1>2. Reads(n)
  BY ReadsAll DEF ParserInv, TypeInv, TextInv
<1>3. ASSUME NEW name \in {DEFAULT_SECTION, "sink", "source"},
             NEW k \in {"port", "host", "device"}
      PROVE  ra_config_get_value(ra_config_get_section(<<name>>), <<k>>)
               = WrittenValue(name, <<k>>, n)
  <2>1. name \in Words /\ k \in Words
    BY DEF Words
  <2>2. <<k>> \in Strings
    BY <2>1, ShortSeq DEF Strings
  <2>3. FoundFor(n, name, <<k>>)
    BY <1>2, <2>1, <2>2 DEF Reads
  <2>4. ra_config_get_section(<<name>>) = Looked(Meaning[n], <<name>>)
    BY <1>1 DEF ra_config_get_section, Looked, SectionsNamed
  <2> QED BY <2>3, <2>4 DEF FoundFor
<1> QED BY <1>1, <1>3 DEF FoundAsWritten

-----------------------------------------------------------------------------
(* Both in the module that TLC runs: the steps of the one leave the other  *)
(* alone.                                                                  *)
InputsInv == Inv /\ ParserInv

(* The invariants of both hold throughout.                                 *)
LEMMA InputsInvariance == InputsSpec => []InputsInv
<1>1. InputsInit => InputsInv
  BY DevicesInit, ParserStarts DEF InputsInit, InputsInv
<1>2. InputsInv /\ [InputsNext]_inputVars => InputsInv'
  <2> SUFFICES ASSUME InputsInv, [InputsNext]_inputVars PROVE InputsInv'
    OBVIOUS
  <2>1. [Next]_vars /\ [ParserNext]_parserVars
    BY DEF InputsNext, inputVars
  <2>2. Inv'
    BY <2>1, DevicesStep DEF InputsInv
  <2>3. ParserInv'
    BY <2>1, ParserSteps DEF InputsInv
  <2> QED BY <2>2, <2>3 DEF InputsInv
<1> QED BY <1>1, <1>2, PTL DEF InputsSpec

(* The variables of the devices and of the parser keep their types: no     *)
(* index of the parser leaves its text or its list of sections             *)
(* (config_parse).                                                         *)
THEOREM InputsTypeCorrect == InputsSpec => []InputsTypeOK
<1>1. InputsInv => InputsTypeOK
  BY DEF InputsInv, Inv, ParserInv, TypeInv, InputsTypeOK
<1> QED BY <1>1, InputsInvariance, PTL

(* However long the file is and however it is cut into chunks, at the end  *)
(* of a line the parser is in its initial state, unless the line is a key  *)
(* without a value (config_parse).                                         *)
THEOREM LinesResyncCorrect == InputsSpec => []LinesResync
<1>1. InputsInv => LinesResync
  BY InvResync DEF InputsInv
<1> QED BY <1>1, InputsInvariance, PTL

(* However long the file is, at the end of each line the sections, keys    *)
(* and values are those of the lines so far, and every look-up finds what  *)
(* was written first, unless a chunk ended in a string or before the first *)
(* section header, or a key had no value (config_parse,                    *)
(* ra_config_get_section, ra_config_get_value).                            *)
THEOREM ParsedAsWrittenCorrect == InputsSpec => []ParsedAsWritten
<1>1. InputsInv => ParsedAsWritten
  BY InvWritten DEF InputsInv
<1> QED BY <1>1, InputsInvariance, PTL
=============================================================================
