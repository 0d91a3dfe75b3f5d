# TG-voip-rate in TLA+

TG-voip-rate (`tgvoiprate`) estimates how much a speech signal was degraded: it
takes two Ogg Opus files, the original and the received one, decodes both to
16 kHz mono WAV files, and has the ITU-T P.862 (PESQ) reference code compare
them and compute a MOS score. This directory holds TLA+ models of the program's
own logic, the configurations that model-check them with TLC, and proofs checked
by TLAPS.

## 1. Inventory

| Component | Source | State | Operations |
|---|---|---|---|
| main | `pesqmain_adapter.cc` | derived file names, error flag | convert both inputs, `pesq_measure`, print, `remove` twice |
| Opus conversion | `opusfile_adapter.cc`, `resampler.cc` | the 48 kHz temporary, the mono output, stream state, sample counts | `opus_decode`, `resample`, `opus_decode_mono_16khz` |
| WAV header | `wav_file/wav_header.cc` | 44 bytes | `CheckWavParameters`, `WriteWavHeader`, `ReadWavHeader` |
| WAV file | `wav_file/wav_file.cc` | `num_samples_`, `num_samples_remaining_`, stdio buffer, file | constructors, `WriteSamples`, `ReadSamples`, `Close` |
| PESQ loading and results | `PESQ-MOS/pesqio.c`, `pesqmain.c` | signal buffers, error flag, `pesq_results.txt` | `load_src`, `alloc_other`, `pesq_measure` |
| Voice activity detection | `PESQ-MOS/pesqdsp.c` | `VAD`, `logVAD` rows | `apply_VAD` |
| Alignment and utterances | `PESQ-MOS/pesqmod.c`, `pesqdsp.c` | `ERROR_INFO`: 50 slots of limits and delays | `crude_align`, `time_align`, `split_align`, `id_searchwindows`, `id_utterances`, `utterance_split` |
| Perceptual model | `PESQ-MOS/pesqmod.c` | frames, disturbances, bad intervals | `pesq_psychoacoustic_model` |
| Signal processing | `PESQ-MOS/dsp.c` | global FFT tables | FFT, correlation, filters |
| Opus encoder wrapper | `opusfile_adapter.cc` | encoder, output stream | `opus_encode` (no caller) |
| Libraries | `FFmpeg/`, libopusfile, libopusenc | – | used through a few calls |

How they interact: everything is a synchronous call in one thread. `main` calls
the conversion for each input; the conversion writes a header and samples through
an `ofstream`, then reads the result back through `WavReader`, whose failures are
`RTC_CHECK`s that abort the process. The PESQ code reads the mono files by name,
ignores their headers, reports errors through a flag, and in some cases calls
`exit(1)`. Between two runs of the program the file system is shared state: all
file names derive from the inputs' names.

What is hard here, and a unit test would hardly reach:

* runs that overlap, or that follow a run that died, and share temporaries,
  outputs and `pesq_results.txt`;
* a process that dies between two file operations, and what a later reader makes
  of what is there;
* steps that fail in part: a hole in the stream, a header that declares more or
  less than is decoded, a stream whose close fails, an early return that is `true`;
* arithmetic at the limits of 16- and 32-bit fields, and what counts samples of
  one channel or of all;
* in-place sweeps over rows of windows, and index arithmetic that rounds towards
  zero, over slots of an array that is also used as scratch space.

What makes each component correct:

* WAV: an accepted header describes the samples behind it, whatever was killed
  when; what is closed can be read back; a short read is the end of the file.
* Conversion: it ends; only a whole decode is converted; its caller can rely on
  the shapes of the two files (the contract `Conversion`).
* main: inputs are never changed; outputs are removed by every run that returns;
  a score comes from the files of that input, and not from a run that was over.
* Voice activity: the sweeps mean what their definitions say, and speech is
  separated by silence that is long enough.
* PESQ loading: buffers hold what is read into them and are given back on every
  path; the results file has one row for a score, behind a heading.
* Perceptual model: bad intervals are neither lost nor mixed with one another, and
  looking at a frame again never makes it worse.
* Signal processing: a transform is exact whatever transforms came before it.
* Utterances: all the speech is found, limits do not overlap in the degraded
  signal, splits lose no utterance and end.

## 2. Modules

| Module | Models | Notes |
|---|---|---|
| `WavHeader` | `wav_header.cc` | pure operators; a field keeps its width, with `ByteBase` values to a byte (256 in the code) |
| `WavFile` | `wav_file.cc` | a writer and a reader of one name, stdio buffering, death at any point |
| `Conversion` | contract of `opus_decode_mono_16khz` | abstract specification over the shapes of two files |
| `OpusConvert` | `opusfile_adapter.cc`, `resampler.cc` | one call, block by block; implements `Conversion` |
| `VoipRate` | `pesqmain_adapter.cc`, `pesq_measure` | any number of runs over one directory |
| `SpeechRuns` | – | vocabulary for rows of windows, and what the passes are to do |
| `ApplyVad` | `apply_VAD` | one step per iteration of each pass |
| `Utterances` | `utterance_locate` | scans, alignment, limits, splits |
| `SplitAnswers` | – | what `utterance_split` and `split_align` expect of one another |
| `SplitCall` | contract of `split_align` | abstract specification: one call, one answer |
| `SplitAlign` | `split_align` | both loops over the break points, and the choice; implements `SplitCall` |
| `Measurement` | contract of `pesq_measure` | abstract specification: signals loaded, one answer, error flag |
| `PesqMeasure` | `load_src`, `alloc_other`, `pesq_measure` | runs that share the results file; implements `Measurement` |
| `BadIntervals` | `pesq_psychoacoustic_model` | frames, jumps of the delay, bad intervals |
| `Fft` | `dsp.c` | transforms step by step over a finite field, and the global tables |
| `WavProofs`, `VoipRateProofs`, `FftProofs`, `ApplyVadProofs`, `UtterancesProofs`, `SplitAlignProofs`, `PesqMeasureProofs`, `BadIntervalsProofs` | – | theorems, see section 4 |
| `MC*` | – | small instances |

`OpusConvert` uses the operators of `WavHeader` for every header it writes or
reads. `VoipRate` converts its inputs by the rules of `Conversion`, step for step
on the inode a run has open; `OpusConvert` is checked and proved to keep those
rules (`KeepsConversion`), so the two are tied together. In the same way `VoipRate`
loads and measures by the rules of `Measurement`, which `PesqMeasure` is checked and
proved to keep (`KeepsMeasurement`). `SplitCall` is the contract of `split_align`: an answer that is surer of both
parts than `time_align` was of the whole is `Usable`. `SplitAlign` is checked and proved
to keep it (`KeepsContract`), for every utterance that is `Splittable`; `Utterances`
splits at any `Usable` answer, and is proved to hand over nothing that is not
`Splittable` (`HandsOverSplittable`). So each module assumes of the other what the other
one is shown to do, and the loops of `split_align` need not run inside `Utterances`.
`BadIntervals` starts from any utterances. `Utterances` starts from the
rows `ApplyVad` is shown to produce (`SpeechIsSeparated`), and both use
`SpeechRuns`.

State and code:

* `WavFile`: `disk` is what another program finds; `writer` holds `num_samples_`,
  what stdio has not handed on, and what is left of a float write in chunks;
  `reader` holds `num_samples_remaining_` and what was handed out. `Die` stands
  for a failed `RTC_CHECK`, a full disk and a signal.
* `OpusConvert`: `input`, `todo`, `holes`, `broken` are what libopusfile will
  answer; `tmp` and `out` the two files; `failbit` the stream's state; `total`,
  `ret` the locals of `opus_decode`. `PrintedOver` is the effect of printing the
  new header as a C string: it stops at the first zero byte.
* `VoipRate`: `dir` maps names to inodes, because a run goes on writing a file
  another one has removed. `by` records whose bytes an output holds, `earlier`
  which runs had ended normally when a run started; the code has neither.
* `ApplyVad`: `vad` keeps of every `VAD[count]` whether it is positive, which is
  all the passes look at. `raw` and `kept` are history.
* `Utterances`: `utt` is the `Utt_*` and `UttSearch_*` arrays, one record for each
  slot; `at` is `Utt_num` or `Utt_id`, `n` is `Nutterances`. A scratch use of a slot
  leaves `Junk`. Which lag wins a correlation is left open within the range the
  code searches.
* `SplitAlign`: `ed1` to `dc2` are the arrays of the function, `bps` its break
  points, `from` is `estdelay`, and `h` the frames that H sums up at the moment.
  `sum1` and `sum2` are history: what a break point's delay and confidence rest on.
  A frame's correlation is not computed; what H says is any lag and confidence.
* `PesqMeasure`: `run[p]` is the local state of a process: `size` and `filled` are
  the room in `data` and how far `read_ptr` came, `heap` the buffers and files it
  holds. `wrong` and `loaded` are history. Lengths of files are inputs; another run
  may cut a file short while it is read. Every file is a `.wav`, as in `main`.
* `BadIntervals`: `level` is `frame_disturbance` in three steps, `tweaked` and `data`
  are `tweaked_deg` and `doubly_tweaked_deg`, each sample by the index it was copied
  from; `skipped` and `smeared` are the two arrays of flags as sets.
* `Fft`: `swap`, `butter` and `bitSwap` are the global tables, `x` the array, one
  complex number for two floats. cos and sin of 2 pi / N are a root of 1 in the field
  of 31 elements with i adjoined, so that a result is exact or wrong. `FFTButter`
  comes out of its recurrence; `FFTPhi` is looked up as powers of the root.

## 3. What the runs check

| Run | Question | Result |
|---|---|---|
| `wav_file` | `AcceptedIsComplete`, `ShortReadIsTheLast`, `ClosedIsReadable`, one channel | holds |
| `wav_file_stereo` | `AcceptedIsComplete`, two channels | violated: the header declares `num_samples` for each channel |
| `opus_convert` | `ConvertsWhatWasDecoded`, `Terminates`, `KeepsConversion` | holds |
| `opus_convert_count` | `InCountIsPerChannel` | violated: `swr_convert` is told of twice the samples |
| `voip_rate` | `LeftoversAreOwed`, `ScoreProvenance`, `InputsPreserved` | holds |
| `voip_rate_stale` | `ScoreNeedsDecode` | violated: `return 1` is `true`, so a failed decode is not noticed |
| `apply_vad` | `WholeRunsAreDropped`, `SweepsMeetTheDefinition`, `SpeechIsSeparated` | holds |
| `utterances` | `FindsTheSpeech`, `LiveSlotsAreKept`, `DegradedInOrder`, `LooksInsideTheRow`, `SplitKeepsOthers`, `Terminates` | holds |
| `split_align` | `SumsAreOwn`, `EvaluatedOnce`, `AnswerIsTheBest`, `KeepsContract`, `Terminates` | holds |
| `fft` | `ResultsAreExact` | holds |
| `pesq_measure` | `HeapInOrder`, `BuffersHold`, `ResultsInOrder`, `KeepsMeasurement` | holds |
| `bad_intervals` | `IntervalsAreRuns`, `OwnDelay`, `NeverWorse` | holds |

Each passing run also checks its module's `TypeOK`, and for every property the
modules hold a changed definition ("a slip, for a mutant") that breaks it.
The three violations are disagreements of the code with its own comments or
messages; `PROJECT.json` quotes them. Besides, the top-level `README.md` names
`.wav` files as arguments, while `main` hands both arguments to the Opus decoder.

Facts the runs bring out that the code does not say. A stream that cannot
seek, or one with a hole, is never converted: its declared length and what was
read differ, the rewritten header never reaches the data size, and the short read
in `resample` notices. And a score may rest on files of another run, but only of
one that overlapped with this one or that died (`ScoreProvenance`). In the
perceptual model frames near the end are never smeared, so that the interval without
an end, which the scan would lose, does not occur, and the limit of
`stop_frame_of_bad_interval` to `stop_frame` is never needed; two intervals are at
least three frames apart, which is just enough for their samples not to meet
although each is rewritten a frame past its end. A second heading in
`pesq_results.txt` is possible, but only from runs that overlapped. The limits that
`id_utterances` moves do not overlap in the degraded signal, except where one of them
falls in front of the reference: the division then rounds it up, and the two
neighbours share less than a window (`InOrder`). The proof of
`ConvertsWhatWasDecoded` needs one bound that the code does not check: from 2^30
stereo frames on, more than six hours, the size of the temporary's data wraps around,
and the reader is told of fewer samples than there are.

One case is left undefined by the code: for a file shorter than 44 bytes `load_src`
counts a negative number of samples, allocates less than the silence it writes, and
only then does `pesq_measure` see that the signal is below a quarter of a second.
`BuffersHold` is stated for all other files; the model lets such a run die or go on.

### Bounds

* `WavFile`: `ByteBase = 5`, so that a 32-bit field ends at 624 and the largest
  admitted file has 294 samples. `WriteSizes = {1, 3, 147}` and `MaxWritten = 296`
  reach one sample below, at and above that limit. `kChunksize = 2` makes float
  writes of 3 a full and a cut chunk. `ReadSizes = {2, 5}` are below and above it.
* `OpusConvert`: `ByteBase = 8` puts a zero byte at every place of the header's
  size where printing may stop. `MaxDuration = 8`, `MaxBlock = 3`, `MaxHoles = 2`:
  several blocks and holes in any order. `Faults` lets disk and resampler fail.
* `VoipRate`: two runs and two inputs, one shared; one may be killed
  (`Killable`), both may meet a full disk (`Faulty`). Provenance and ownership
  relate two runs at a time; the theorems cover any number.
* `ApplyVad`: `Nwindows = 12` and run and silence lengths of 1 and 4 for 4 and 50:
  every row, with three runs that are joined, or two that are not.
* `Utterances`: `RefWindows = 10`, windows of 2 samples, a buffer of 2 windows, 3
  slots, lags of -5, 0, 2, 4 windows (`Lags`), delays of -2, 0, 1 (`Crudes`), a
  degraded signal of 16 or 21 samples: two utterances that overlap in the degraded
  signal or do not, limits pushed in front of the reference, and splits up to the
  last slot.
* `SplitAlign`: an utterance with 20 windows of speech, which begins in the reference
  or in front of it (a limit an earlier split moved), frames of four windows that overlap
  by three quarters, three break points; estimates in every order of one in front
  of the degraded signal and one behind its end, a degraded signal of 36 or 60
  samples, three levels of confidence. With three break points a sum is carried
  over one that has another estimate.
* `PesqMeasure`: two runs; a header of 2 samples, chunks of 3, silence of 2, padding
  of 3, a quarter of a second of 3 samples. Files are missing, empty, shorter than a
  header, too short by a sample, of an odd length, of one chunk, of more, and the
  two signals are shorter, longer or as long as one another. Both runs may meet every
  fault and be killed at every step.
* `BadIntervals`: 19 frames of 2 samples each (`Half`), up to six bad frames out of
  the first fourteen, which is what two intervals of five need; jumps of the delay
  forward, back, back beyond the first frame and to beyond the last; two delays for
  each interval (`Delays`). A second computation gives all frames of an interval one
  level.
* `Fft`: transforms of 2 to 16 numbers, three calls in a row, signals of 1 to 8
  numbers and the units of length 4, from which every signal of that length is made.

### Fairness

Only `OpusConvert`, `Utterances` and `SplitAlign` assume fairness, `WF_vars(Step)`: each is a
call in a single thread that is never suspended for ever. That the stream in
`OpusConvert` ends is libopusfile's promise (a finite input, an error that is
repeated); it is in what the stream may answer, not in the fairness. Runs
of `VoipRate` may stop anywhere: nothing there is claimed to happen eventually.

### Assumptions

* No input is named like a derived file of another one (`NamesAssumption`), and
  paths fit the 512 bytes `pesqmain_adapter.cc` reserves.
* A signal has no more stretches of speech than there are slots: the code does not
  check (`UtteranceAssumption` and `SpeechRow` say so).
* What `VAD` holds outside its row, where limits of a split may lead, is anything.
* The files `PesqMeasure` loads end in `.wav`, and a row of the results file fits
  the buffer of stdio, so that it is written as one.
* `Fft` knows only lengths that are powers of two: its callers use no other.
* `Utterances` lets any lag win and any two delays fit: it does not know which
  correlations real speech has. A property it satisfies holds for all of them.

## 4. What is proved

TLAPS checks these for every value of the constants that the named assumptions
(`ByteBaseAssumption`, `WavFileAssumption`, `ConvertAssumption`, `NamesAssumption`,
`PesqMeasureAssumption`, `VadAssumption`, `UtteranceAssumption`, `SplitAssumption`,
`BadIntervalsAssumption`, `FftAssumption`) admit. Each names what the code defines or checks
elsewhere; the comment at it says where. In every module the theorems follow from
one inductive invariant, `IInv` or the name given below.

`WavProofs`, of `WavFile`:

* `HeaderRoundTrip`: what `WriteWavHeader` writes for parameters that
  `CheckWavParameters` admits is accepted and gives the count back, one channel.
* `FileTypeCorrect`, `CompletenessCorrect`, `ShortReadCorrect`, `ReadableCorrect`: the
  properties of the run `wav_file`. The inductive invariant `FileInv` is
  `TypeInv` (types and bounds on the counts), `Accounted` (what is on disk and
  what is buffered add up to `num_samples_`), `Described` (the header is blank
  while a writer is at work, and else blank or what Close wrote for the samples on
  disk) and `Reading` (what was handed out and what remains add up to what the
  header declared). `AcceptedIsComplete` alone is not inductive: it says nothing
  of a file whose header is still blank.

and of `OpusConvert`:

* `IInv` is `TypeOK`, `Sound` (no read and no write has failed so far), `Headed`
  (the temporary has the first header, or what a failed stream left of it),
  `Counted` (it has no more samples than were counted), `Opened` and `Handed` (what
  the reader let through and handed to the resampler). The argument: whatever is
  printed over the header later, its data size stays that of the length the stream
  declared (`PrintedKeeps`), so a reader that finds as many samples as the header
  declares has found the whole decode.
* `TypeCorrect`; `ConvertsCorrect` (`ConvertsWhatWasDecoded`, for streams whose data
  size fits its field); and `ImplementsConversion`: every step of `OpusConvert` is one
  of `Conversion`, or changes neither a file's shape nor the answer.
* `StepsUsedUp` (`UsesUpSteps`): a number, `StepsLeft`, bounds the steps of a call from
  every state, and each step makes it smaller: the steps behind the one that is due,
  and a round of the loop for each frame and hole the input still has.

`VoipRateProofs`:

* `Inductive`: `IInv`, the conjunction of `TypeOK`, `Linked` and `Opened` (a name,
  or a handle, refers to a file that was created for that input), `Owed` (a mono
  file is still to be removed by somebody), `Decoding` and `Written` (whoever has
  an output open, or wrote to one, had decoded its input), `History`, `Loading` and
  `Provenance`. `ScoreProvenance` needs the chain: the bytes loaded were written by
  a run that owed the file's removal, and a run that had ended owes nothing.
* `TypeCorrect`, `LeftoversCorrect`, `ScoreProvenanceCorrect`,
  `InputsPreservedCorrect` follow.

`ApplyVadProofs`:

* First the definitions alone: rows made of long runs, after silences were filled
  and runs widened, hold speech in long runs that are apart (`JoinedIsApart`,
  `WidenedIsSeparated`). Then the sweeps: `IInv` says of each pass that the row in
  front of the index is what the definition says and behind it what the pass started
  from (`ShortAt`, `InRun`, `JoinAt`, `WidenAt`). The last sweep is the subtle one:
  it looks at windows it has changed itself, steps over four windows behind a run,
  and sees a run that begins in the second window only at the third.
* `TypeCorrect`, `DropsWholeRuns`, `SweepsCorrect`, `SpeechSeparated` follow: the
  row `Utterances` starts from is the one `apply_VAD` hands on, for any signal.

`UtterancesProofs`:

* Three arguments carry `IInv`. (1) The scan: `Reading` says what the windows so far
  tell of the run the scan is in, `FoundRuns` and `Searching` that the runs which end
  in front of its window were counted, in order. As no more runs than slots exist,
  one that begins behind those counted has a slot, also where the code does not
  look (`RoomBehind`). (2) The second scan: `Identifying` says that slot k holds the
  limits of the (k+1)-th run found, and that what begins and is not counted has a
  slot to be written to; `Located` is how it ends. (3) The splits: the slot of the
  experiments lies behind the live ones (`SplitSlots`), and what is shifted is moved
  from slots no experiment touched.
* `DegradedInOrder` is arithmetic over divisions that round towards zero: what two
  neighbours' limits become, for any two delays (`NeighboursMeet`), and the outer
  ones (`OuterStartIs`, `OuterEndIs`); `LimitsAre` puts them together.
* `TypeCorrect`, `SpeechFound` (`FindsTheSpeech`), `LiveKept` (`LiveSlotsAreKept`),
  `OrderCorrect` (`DegradedInOrder`), `LooksInside` (`LooksInsideTheRow`) and
  `OthersKept` (`SplitKeepsOthers`) follow.
* `SplittableCorrect` (`HandsOverSplittable`): the loops for speech stop inside the
  limits, in whichever order those are, so that an utterance which is long enough has
  its speech inside them (`SpeechLimits`).
* `ProgressCorrect` (`UsesUpSteps`): a split looks at the same utterance again, but fills
  a slot, so that slots and utterances that are left add up to fewer each time.

`SplitAlignProofs`:

* The frames of an earlier break point are the beginning of a later one's, in either
  direction (`AheadGoesOn`, `BehindGoesOn`), so that a sum may be carried over
  (`Carried`). `IInv` adds where the break points lie (`Placed`), which of them have
  estimates and sums (`Estimated`, `FirstParts`, `SecondParts`) and what was chosen
  so far (`Chosen`).
* `TypeCorrect`, `SumsCorrect`, `EvaluatedOnceCorrect`, `AnswerCorrect`.
* `ContractCorrect` (`KeepsContract`): `IInv` says which frames a sum is made of, but
  not what follows from them. `Backed` adds that a confidence above 0 comes with a frame
  and a delay near the break point's own estimate; a sum is carried only between equal
  estimates, so it stays true. That there is a frame says where it lies
  (`FrameInFront`, `FrameBehind`), and the step that answers is the one of `SplitCall`
  (`AnswerIsUsable`); every other step is a stutter.
* `ProgressCorrect` (`UsesUpSteps`): a round takes one break point at least from those
  that wait (`NotedFirst`, `NotedSecond`), and has as many steps as there are break
  points and two more; so `StepsLeft` counts a round for each that waits.

`PesqMeasureProofs`:

* `RunsInv` speaks of one run at a time: its types and what it holds at each label
  (`RunType`, `Loading`, `Holding`, `Filling`). Nothing in it depends on other runs,
  whose steps leave it alone. `FileInv` relates the results file to all of them: a
  row for each run that ended without an error (`Rows`), a heading in front of them,
  and a second one only from a run that overlapped with the first's (`Headings`).
* `HeapCorrect`, `BuffersCorrect`, `ResultsCorrect`, `TypeCorrect`, and
  `ImplementsMeasurement`, step by step.

`BadIntervalsProofs`:

* Smearing marks a frame when there is a bad one within two frames on either side,
  so that an interval begins three frames past the end of the last, or later
  (`SmearSeparates`).
  Their samples do not meet then, although each is rewritten a frame past its end
  (`SamplesOfAnInterval`), and each gets its own delay only. `IInv` adds what the
  scan has counted (`Ordered`, `Scanned`), and what was copied where (`Copied`,
  `Rewritten`).
* `TypeCorrect`, `IntervalsCorrect`, `OwnDelayCorrect`, `NeverWorseCorrect`.

`FftProofs`:

* Over every field of integers modulo a prime that leaves 3 divided by 4, with -1's
  root adjoined, for every longest length and all signals. First the definitions:
  laws of remainders, of complex numbers and of finite sums (`TotalOfPairs`,
  `TotalSwapped`, `TotalReversed`), bits in reversed order (`ButterfliesDouble`,
  `ButterfliesTwice`), the roots of one and their sums (`RoundIsZero`), and from
  these the inverse transform (`Inversion`, `Convolution`, `CorrelationIs`).
* `IInv` says what the array holds at each label: what the transform was given
  (`Initialised`), the sums of every s-th number after the rounds so far (`Cycled`),
  what is in order and what is still to be swapped, with what is left of the
  permutation (`Sorted`); besides, that the tables are those of the length they are
  marked with (`TablesAreKept`) and what the earlier transforms of the call left
  (`ArgumentsAreFit`). `ResultsAreExact` alone says nothing of a call that runs.
* `TablesCorrect` (`TypeOK`) and `ResultsCorrect` (`ResultsAreExact`): in the code the
  same sums are formed over floats, where they hold up to rounding.

Only model-checked: `Terminates` (three times; liveness under fairness is out of the
prover's reach). What it rests on is proved for every size: every `Step`, also one that
could change nothing, makes `StepsLeft` smaller (`EveryStepCounts`); so no behaviour
takes more of them than that (`UsesUpSteps`). What is left to TLC is that a step can be
taken until the end is reached: the absence of deadlocks.

## 5. What is not modelled, and why

* Sample values, filters, the rounding of the FFT, loudness, disturbance and how
  they are weighted into a score: no states or orders to check; what later steps do depends on their
  results only through the choices the models leave open.
* The estimate of the noise level in `apply_VAD`: any row may come out of it.
* Logging, the WebRTC check and conversion templates, A-law and mu-law data.
* FFmpeg, libopusfile and libopusenc, beyond what their callers see of them.
* `opus_encode`, `make_stereo_file`, `file_exist`, `start_pesq_mos`: nothing calls them.

## 6. Plan

1. Done: WAV files, conversion, runs of the program, loading and results, voice
   activity, utterances, splitting, bad intervals, transforms; theorems about all of
   them; `SplitAlign` and `Utterances` tied together by a contract.
2. `BadIntervals` behind both, which starts from any utterances now.
