----------------------------- MODULE OpusConvert -----------------------------
(***************************************************************************)
(* One call of opus_decode_mono_16khz (opusfile_adapter.cc), with          *)
(* opus_decode and resample (resampler.cc) inlined: an Ogg Opus input is   *)
(* decoded block by block into a 48 kHz stereo temporary, the temporary is *)
(* read back by a WavReader, converted, and written as the mono output.    *)
(*                                                                         *)
(* A file is its header and the number of 16-bit samples behind it.  The   *)
(* input is what libopusfile reports of it; the samples themselves are not *)
(* modelled, only how many of them each step hands to the next.            *)
(***************************************************************************)
EXTENDS WavHeader

CONSTANTS
  DecodeRate,   \* 48000
  OutRate,      \* 16000
  MaxDuration,  \* bound: frames (samples per channel) in an input
  MaxBlock,     \* bound: frames op_read_stereo returns at once (5760)
  MaxHoles,     \* bound: holes in an input
  Faults        \* BOOLEAN: may the disk and the resampler fail?

channels == 2

\* The output has the lower rate, and a second of the temporary fits its header.
ASSUME ConvertAssumption ==
  /\ {DecodeRate, OutRate, MaxBlock} \subseteq Nat \ {0}
  /\ {MaxDuration, MaxHoles} \subseteq Nat
  /\ Faults \in BOOLEAN
  /\ OutRate <= DecodeRate
  /\ channels * DecodeRate * kBytesPerSample < U32

NoFile   == [there |-> FALSE, header |-> BlankHeader, samples |-> 0]
EmptyFile == [there |-> TRUE, header |-> BlankHeader, samples |-> 0]

VARIABLES
  input,     \* what libopusfile tells of the input: opens, seekable, duration
  todo,      \* frames op_read_stereo will still return
  holes,     \* holes it will still report
  broken,    \* it has reported an error, and reports it from then on
  pc,        \* the next step of the call
  tmp, out,  \* the files <input>_dec_48khz_tmp.wav and <input>_mono_16khz.wav
  failbit,   \* the output stream of opus_decode has failed
  total,     \* total_samples_read
  ret,       \* ret of opus_decode
  inCount,   \* in_count of swr_convert, 0 before it is called
  taken      \* samples the reader handed to the resampler

vars == <<input, todo, holes, broken, pc, tmp, out, failbit, total, ret,
          inCount, taken>>
stream == <<todo, holes, broken>>

Steps == {"call", "openin", "header", "loop", "finish", "resample", "read",
          "openout", "writeout", "remove", "returned", "aborted"}

\* What a stream loses when its tail never reaches the disk: the last samples,
\* or everything.
Cuts(f) == {EmptyFile} \cup {[f EXCEPT !.samples = n] : n \in 0 .. f.samples}

\* The files a destructor of std::ofstream may leave: it reports no error.
Closed(f) == IF Faults THEN Cuts(f) ELSE {f}

Put(f, h, n) == [f EXCEPT !.header = h, !.samples = n]

\* What a byte counts in a field of four, the lowest first.
Weight(k) == <<1, ByteBase, U16, ByteBase * U16, U32>>[k + 1]

\* The bytes of the RIFF size before the first zero byte.
LeadingBytes(n) ==
  CHOOSE k \in 0 .. 4 :
    /\ \A i \in 0 .. k - 1 : (n \div Weight(i)) % ByteBase # 0
    /\ k = 4 \/ (n \div Weight(k)) % ByteBase = 0

\* A slip, for a mutant: the whole header is written over the old one.
WrittenOver(old, new) == new

\* `wav_file << wav_header' prints the header as a C string: "RIFF", the bytes
\* of the RIFF size up to the first zero one, and, when there is none, the tags
\* and the format size that follow, which do not change.  The data size is
\* behind the zero bytes of the format size.
PrintedOver(old, new) ==
  LET k == Weight(LeadingBytes(new.riffSize))
  IN [old EXCEPT !.riffSize = (old.riffSize \div k) * k + (new.riffSize % k)]

Rescale(n) == (n * OutRate + DecodeRate - 1) \div DecodeRate

Return == pc' = "returned"
Abort  == pc' = "aborted"

-----------------------------------------------------------------------------
StaleFile ==
  [there   |-> TRUE,
   header  |-> WriteWavHeader(1, OutRate, kWavFormatPcm, kBytesPerSample, 2),
   samples |-> 2]

\* A stream that cannot seek has no known duration: it is declared as 0.
Init ==
  /\ input \in [opens: BOOLEAN, seekable: BOOLEAN, duration: 0 .. MaxDuration]
  /\ todo = input.duration
  /\ holes \in 0 .. MaxHoles
  /\ broken = FALSE
  /\ pc = "call"
  /\ tmp \in {NoFile, StaleFile}
  /\ out \in {NoFile, StaleFile}
  /\ failbit = FALSE
  /\ total = 0
  /\ ret = 0
  /\ inCount = 0 /\ taken = 0

Declared == IF input.seekable THEN input.duration ELSE 0

\* opus_decode: std::ofstream wav_file truncates what is there.
OpenOutput ==
  /\ pc = "call"
  /\ \/ pc' = "openin" /\ tmp' = EmptyFile
     \/ Faults /\ Return /\ UNCHANGED tmp
  /\ UNCHANGED <<input, stream, out, failbit, total, ret, inCount, taken>>

OpenInput ==
  /\ pc = "openin"
  /\ IF input.opens THEN pc' = "header" ELSE Return
  /\ UNCHANGED <<input, stream, tmp, out, failbit, total, ret, inCount, taken>>

HeaderFits(n) ==
  CheckWavParameters(channels, DecodeRate, kWavFormatPcm, kBytesPerSample, n)
NewHeader(n) ==
  WriteWavHeader(channels, DecodeRate, kWavFormatPcm, kBytesPerSample, n)

\* make_wav_header CHECKs the duration: an odd one aborts the program.
WriteHeader ==
  /\ pc = "header"
  /\ IF HeaderFits(Declared)
       THEN pc' = "loop" /\ tmp' = Put(tmp, NewHeader(Declared), 0)
       ELSE Abort /\ UNCHANGED tmp
  /\ UNCHANGED <<input, stream, out, failbit, total, ret, inCount, taken>>

-----------------------------------------------------------------------------
(* The loop of opus_decode: one disjunct for each answer of op_read_stereo. *)

\* OP_HOLE: some samples are skipped, and the code calls again.
ReadHole ==
  /\ pc = "loop" /\ holes > 0 /\ ~broken
  /\ holes' = holes - 1
  /\ todo' \in 0 .. todo
  /\ UNCHANGED <<input, broken, pc, tmp, out, failbit, total, ret, inCount, taken>>

\* A slip, for a mutant: an error is skipped like a hole.
SkipError ==
  /\ pc = "loop"
  /\ broken' = TRUE
  /\ UNCHANGED <<input, todo, holes, pc, tmp, out, failbit, total, ret, inCount,
                 taken>>

\* Any other negative answer ends the loop; the library repeats it if asked.
ReadError ==
  /\ pc = "loop"
  /\ broken' = TRUE
  /\ ret' = 1
  /\ pc' = "finish"
  /\ UNCHANGED <<input, todo, holes, tmp, out, failbit, total, inCount, taken>>

ReadEnd ==
  /\ pc = "loop" /\ todo = 0 /\ ~broken
  /\ ret' = 0
  /\ pc' = "finish"
  /\ UNCHANGED <<input, stream, tmp, out, failbit, total, inCount, taken>>

Grown(f, n) == [f EXCEPT !.samples = @ + channels * n]

\* A slip, for a mutant: the samples of both channels are counted.
CountBothChannels ==
  /\ pc = "loop" /\ ~broken
  /\ \E n \in 1 .. MaxBlock :
       /\ n <= todo
       /\ todo' = todo - n
       /\ tmp' = Grown(tmp, n)
       /\ total' = total + channels * n
  /\ UNCHANGED <<input, holes, broken, pc, out, failbit, ret, inCount, taken>>

ReadBlock ==
  /\ pc = "loop" /\ ~broken
  /\ \E n \in 1 .. MaxBlock :
       /\ n <= todo
       /\ todo' = todo - n
       /\ \/ /\ tmp' = Grown(tmp, n)
             /\ total' = total + n
             /\ UNCHANGED <<pc, failbit, ret>>
          \/ /\ Faults
             /\ tmp' \in Cuts(Grown(tmp, n))
             /\ failbit' = TRUE /\ ret' = 1 /\ pc' = "finish"
             /\ UNCHANGED total
  /\ UNCHANGED <<input, holes, broken, out, inCount, taken>>

\* Behind the loop: the header is rewritten when the count is not the declared
\* one, the stream is closed, and the caller goes on to resample on success.
FinishDecode ==
  /\ pc = "finish"
  /\ IF total # Declared /\ ~HeaderFits(total)
       THEN /\ Abort
            /\ tmp' \in Cuts(tmp)
            /\ UNCHANGED <<failbit, ret>>
       ELSE /\ \/ /\ total = Declared
                  /\ tmp' \in Closed(tmp)
                  /\ UNCHANGED <<failbit, ret>>
               \/ /\ total # Declared /\ ~failbit
                  /\ tmp' \in Closed([tmp EXCEPT
                                !.header = PrintedOver(@, NewHeader(total))])
                  /\ UNCHANGED <<failbit, ret>>
               \/ /\ total # Declared /\ (failbit \/ Faults)
                  /\ tmp' \in Closed(tmp)
                  /\ failbit' = TRUE /\ ret' = 1
            /\ IF ret' = 0 THEN pc' = "resample" ELSE Return
  /\ UNCHANGED <<input, stream, out, total, inCount, taken>>

-----------------------------------------------------------------------------
(* resample *)

\* A slip, for a mutant: a refused header makes resample return, as any other
\* failure does.
ForgivingOpenReader ==
  /\ pc = "resample"
  /\ IF ReaderAccepts(tmp.header) THEN pc' = "read" ELSE Return
  /\ UNCHANGED <<input, stream, tmp, out, failbit, total, ret, inCount, taken>>

\* WavReader's constructor aborts on a header it cannot use.
OpenReader ==
  /\ pc = "resample"
  /\ IF ~ReaderAccepts(tmp.header) THEN Abort
     ELSE IF ReadNumSamples(tmp.header) = 0 THEN Return
     ELSE pc' = "read"
  /\ UNCHANGED <<input, stream, tmp, out, failbit, total, ret, inCount, taken>>

\* src_nb_samples, the total over the channels, is asked for, has to be read in
\* full, and is passed to swr_convert as its in_count.
ReadAndConvert ==
  /\ pc = "read"
  /\ LET n == ReadNumSamples(tmp.header)
         read == IF n <= tmp.samples THEN n ELSE tmp.samples
     IN \/ /\ read = n
           /\ taken' = read /\ inCount' = n
           /\ pc' = "openout"
        \/ /\ read # n \/ Faults
           /\ Return
           /\ UNCHANGED <<inCount, taken>>
        \/ Faults /\ Abort /\ UNCHANGED <<inCount, taken>>
  /\ UNCHANGED <<input, stream, tmp, out, failbit, total, ret>>

OpenOut ==
  /\ pc = "openout"
  /\ \/ pc' = "writeout" /\ out' = EmptyFile
     \/ Faults /\ Return /\ UNCHANGED out
  /\ UNCHANGED <<input, stream, tmp, failbit, total, ret, inCount, taken>>

\* dst_nb_samples samples are written whatever swr_convert returned.
WriteOut ==
  /\ pc = "writeout"
  /\ LET n == Rescale(inCount)
         f == Put(out, WriteWavHeader(1, OutRate, kWavFormatPcm,
                                      kBytesPerSample, n), n)
     IN IF CheckWavParameters(1, OutRate, kWavFormatPcm, kBytesPerSample, n)
          THEN \/ pc' = "remove" /\ out' \in Closed(f)
               \/ Faults /\ Return /\ out' \in Cuts(f)
          ELSE Abort /\ UNCHANGED out
  /\ UNCHANGED <<input, stream, tmp, failbit, total, ret, inCount, taken>>

RemoveTmp ==
  /\ pc = "remove"
  /\ Return
  /\ tmp' = NoFile
  /\ UNCHANGED <<input, stream, out, failbit, total, ret, inCount, taken>>

Done ==
  /\ pc \in {"returned", "aborted"}
  /\ UNCHANGED vars

Step ==
  \/ OpenOutput \/ OpenInput \/ WriteHeader
  \/ ReadHole \/ ReadError \/ ReadEnd \/ ReadBlock \/ FinishDecode
  \/ OpenReader \/ ReadAndConvert \/ OpenOut \/ WriteOut \/ RemoveTmp

Next == Step \/ Done

\* A single thread that is never suspended for ever.
Spec == Init /\ [][Next]_vars /\ WF_vars(Step)

-----------------------------------------------------------------------------
File == [there: BOOLEAN, header: Header, samples: Nat]

\* Every variable has its type; a file that is not there is NoFile.
TypeOK ==
  /\ input \in [opens: BOOLEAN, seekable: BOOLEAN, duration: 0 .. MaxDuration]
  /\ todo \in 0 .. input.duration /\ holes \in 0 .. MaxHoles
  /\ broken \in BOOLEAN /\ failbit \in BOOLEAN
  /\ pc \in Steps
  /\ tmp \in File /\ out \in File
  /\ \A f \in {tmp, out} : f.there \/ f = NoFile
  /\ total \in 0 .. input.duration - todo
  /\ ret \in {0, 1}
  /\ inCount \in Nat /\ taken \in Nat

Converting == pc \in {"openout", "writeout", "remove"}

\* What is converted is all that was decoded, of an input that was decoded to
\* its end without losing a sample.  Nothing in the code says so: the return
\* value does not tell a complete decode from one with holes.  It follows from
\* the header written before the loop, from the rewrite that never reaches the
\* data size, and from the short read in resample.  A stream that cannot seek
\* is therefore never converted.
ConvertsWhatWasDecoded ==
  Converting => /\ ret = 0 /\ ~broken
                /\ total = input.duration
                /\ taken = channels * total
                /\ input.seekable

\* The call ends: holes are skipped for as long as the library reports them,
\* and it reports finitely many; an error is not retried.
Terminates == <>(pc \in {"returned", "aborted"})

\* libswresample (FFmpeg/libswresample/swresample.h:302) takes as in_count the
\* number of input samples available in ONE channel; the buffer behind it holds
\* `taken' samples over all channels.
InCountIsPerChannel == Converting => inCount * channels = taken

-----------------------------------------------------------------------------
ShapeOf(f) ==
  IF ~f.there THEN "absent"
  ELSE IF ~ReaderAccepts(f.header) THEN "invalid"
  ELSE IF ReadNumSamples(f.header) \in 1 .. f.samples THEN "whole"
  ELSE "nodata"

StageOf ==
  [s \in Steps |->
     CASE s \in {"openin", "header", "loop", "finish"} -> "decode"
       [] s \in {"resample", "read"} -> "decoded"
       [] s = "openout"  -> "convert"
       [] s = "writeout" -> "write"
       [] s = "remove"   -> "written"
       [] OTHER          -> s]

Abstract ==
  INSTANCE Conversion WITH stage <- StageOf[pc], tmp <- ShapeOf(tmp),
                           out <- ShapeOf(out)

\* The call keeps the contract its caller is modelled with.
KeepsConversion == Abstract!Spec
=============================================================================
