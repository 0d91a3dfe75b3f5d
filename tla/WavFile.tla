------------------------------- MODULE WavFile -------------------------------
(***************************************************************************)
(* WavWriter and WavReader of wav_file/wav_file.cc on one file name.  A    *)
(* program writes a file, may be killed at any point, and a program that   *)
(* starts later reads what is there.  All error handling of the two        *)
(* classes is RTC_CHECK: a failed check ends the process, which is the     *)
(* same step here as being killed.                                         *)
(*                                                                         *)
(* `disk' is what a reader finds; `buffered' counts the samples the writer *)
(* has handed to stdio and stdio has not handed to the system.  Samples    *)
(* reach the disk in order, and fseek flushes them before the header that  *)
(* Close writes is buffered.                                               *)
(***************************************************************************)
EXTENDS WavHeader

CONSTANTS
  Channels,    \* num_channels_ of the writer
  SampleRate,  \* sample_rate_ of the writer
  WriteSizes,  \* bound: the num_samples a caller passes at once
  MaxWritten,  \* bound: samples in a file
  kChunksize,  \* samples converted at once by the float overloads (2048)
  ReadSizes    \* bound: the num_samples a reader asks for

ASSUME WavFileAssumption ==
  /\ {Channels, SampleRate, kChunksize} \subseteq Nat \ {0}
  /\ WriteSizes \subseteq Nat /\ ReadSizes \subseteq Nat
  /\ MaxWritten \in Nat
  /\ CheckWavParameters(Channels, SampleRate, kWavFormatPcm, kBytesPerSample, 0)

VARIABLES
  disk,    \* [header, samples] of the file; an empty file is as unreadable
           \* as one with a blank header, and not told from it
  writer,  \* [open, numSamples, buffered, left]: left samples of a float
           \* WriteSamples that is still converting
  reader   \* [open, remaining, got, asked, missed]

fileVars == <<disk, writer, reader>>

Smaller(m, n) == IF m <= n THEN m ELSE n

NoWriter == [open |-> FALSE, numSamples |-> 0, buffered |-> 0, left |-> 0]
NoReader == [open |-> FALSE, remaining |-> 0, got |-> 0, asked |-> 0,
             missed |-> FALSE]
Truncated == [header |-> BlankHeader, samples |-> 0]

FileInit == disk = Truncated /\ writer = NoWriter /\ reader = NoReader

-----------------------------------------------------------------------------
\* A slip, for a mutant: the placeholder is a header for no samples.
OpenWithHeader ==
  /\ ~writer.open /\ ~reader.open
  /\ disk' = [header  |-> WriteWavHeader(Channels, SampleRate, kWavFormatPcm,
                                         kBytesPerSample, 0),
              samples |-> 0]
  /\ writer' = [NoWriter EXCEPT !.open = TRUE]
  /\ UNCHANGED reader

\* The constructor truncates the file and writes a blank header.  A program
\* does not open a file for writing that it is reading.
OpenWriter ==
  /\ ~writer.open /\ ~reader.open
  /\ disk' = Truncated
  /\ writer' = [NoWriter EXCEPT !.open = TRUE]
  /\ UNCHANGED reader

\* WriteSamples(const int16_t*, n).
WriteSamples ==
  /\ writer.open /\ writer.left = 0
  /\ \E n \in WriteSizes :
       /\ writer.numSamples + n <= MaxWritten
       /\ writer' = [writer EXCEPT !.numSamples = @ + n, !.buffered = @ + n]
  /\ UNCHANGED <<disk, reader>>

\* WriteSamples(const float*, n) passes n on in chunks.
WriteFloats ==
  /\ writer.open /\ writer.left = 0
  /\ \E n \in WriteSizes :
       /\ writer.numSamples + n <= MaxWritten
       /\ writer' = [writer EXCEPT !.left = n]
  /\ UNCHANGED <<disk, reader>>

\* A slip, for a mutant: the last chunk is not cut to what is left.
WriteFullChunk ==
  /\ writer.left > 0
  /\ writer' = [writer EXCEPT !.numSamples = @ + kChunksize,
                              !.buffered = @ + kChunksize, !.left = @ - kChunksize]
  /\ UNCHANGED <<disk, reader>>

WriteChunk ==
  /\ writer.left > 0
  /\ LET chunk == Smaller(kChunksize, writer.left)
     IN writer' = [writer EXCEPT !.numSamples = @ + chunk,
                                 !.buffered = @ + chunk, !.left = @ - chunk]
  /\ UNCHANGED <<disk, reader>>

\* stdio hands everything buffered, or one sample of it, to the system.
Flush ==
  /\ writer.open /\ writer.buffered > 0
  /\ \E n \in {1, writer.buffered} :
       /\ disk' = [disk EXCEPT !.samples = @ + n]
       /\ writer' = [writer EXCEPT !.buffered = @ - n]
  /\ UNCHANGED reader

\* Close: fseek flushes, WriteWavHeader CHECKs the count, the header is written
\* over the blank one and the file is closed.
CloseWriter ==
  /\ writer.open /\ writer.left = 0
  /\ CheckWavParameters(Channels, SampleRate, kWavFormatPcm, kBytesPerSample,
                        writer.numSamples)
  /\ disk' = [header  |-> WriteWavHeader(Channels, SampleRate, kWavFormatPcm,
                                         kBytesPerSample, writer.numSamples),
              samples |-> disk.samples + writer.buffered]
  /\ writer' = NoWriter
  /\ UNCHANGED reader

\* A failed RTC_CHECK, a full disk or a signal: what is buffered is lost.  In
\* Close the fseek may have flushed it.
Die ==
  /\ writer.open
  /\ disk' \in {disk, [disk EXCEPT !.samples = @ + writer.buffered]}
  /\ writer' = NoWriter
  /\ UNCHANGED reader

-----------------------------------------------------------------------------
\* A slip, for a mutant: bytes are taken for samples.
OpenWavReaderInBytes ==
  /\ ~reader.open
  /\ ReaderAccepts(disk.header)
  /\ reader' = [NoReader EXCEPT !.open = TRUE, !.remaining = disk.header.dataSize]
  /\ UNCHANGED <<disk, writer>>

\* The constructor returns only for a 16-bit PCM file; it aborts on others.
OpenWavReader ==
  /\ ~reader.open
  /\ ReaderAccepts(disk.header)
  /\ reader' = [NoReader EXCEPT !.open = TRUE,
                                !.remaining = ReadNumSamples(disk.header)]
  /\ UNCHANGED <<disk, writer>>

\* What one fread returns: no more than is left of the declared samples, and
\* no more than the file holds.
Fread(n) == Smaller(Smaller(n, reader.remaining), disk.samples - reader.got)

\* ReadSamples(n, int16_t*).
ReadSamples ==
  /\ reader.open /\ reader.asked = 0
  /\ \E n \in ReadSizes :
       LET read == Fread(n)
       IN reader' = [reader EXCEPT !.remaining = @ - read, !.got = @ + read,
                                   !.missed = read < n]
  /\ UNCHANGED <<disk, writer>>

\* ReadSamples(n, float*) asks for n in chunks, and goes on asking after one
\* that came short.
ReadFloats ==
  /\ reader.open /\ reader.asked = 0
  /\ \E n \in ReadSizes :
       reader' = [reader EXCEPT !.asked = n, !.missed = FALSE]
  /\ UNCHANGED <<disk, writer>>

ReadChunk ==
  /\ reader.asked > 0
  /\ LET chunk == Smaller(kChunksize, reader.asked)
         read  == Fread(chunk)
     IN reader' = [reader EXCEPT !.remaining = @ - read, !.got = @ + read,
                                 !.asked = @ - chunk,
                                 !.missed = @ \/ read < chunk]
  /\ UNCHANGED <<disk, writer>>

CloseReader ==
  /\ reader.open /\ reader.asked = 0
  /\ reader' = NoReader
  /\ UNCHANGED <<disk, writer>>

FileNext ==
  \/ OpenWriter \/ WriteSamples \/ WriteFloats \/ WriteChunk \/ Flush
  \/ CloseWriter \/ Die
  \/ OpenWavReader \/ ReadSamples \/ ReadFloats \/ ReadChunk \/ CloseReader

FileSpec == FileInit /\ [][FileNext]_fileVars

-----------------------------------------------------------------------------
\* Every variable has its type.
FileTypeOK ==
  /\ disk \in [header: Header, samples: Nat]
  /\ writer \in [open: BOOLEAN, numSamples: 0 .. MaxWritten,
                 buffered: 0 .. MaxWritten, left: 0 .. MaxWritten]
  /\ reader \in [open: BOOLEAN, remaining: Nat, got: Nat, asked: Nat,
                 missed: BOOLEAN]

\* num_samples_ of a reader is the "total number of samples in the file"
\* (wav_file/wav_file.h:93): whatever was killed when, a header that is
\* accepted declares the samples that are behind it.  The blank header and the
\* order of Close's steps are there for this.
AcceptedIsComplete ==
  ReaderAccepts(disk.header) => ReadNumSamples(disk.header) = disk.samples

\* Every file that Close finishes, up to the largest one WriteWavHeader admits,
\* is accepted by ReadWavHeader and read back with all its samples.
ClosedReadsBack ==
  CloseWriter => /\ ReaderAccepts(disk'.header)
                 /\ ReadNumSamples(disk'.header) = writer.numSamples
ClosedIsReadable == [][ClosedReadsBack]_fileVars

\* A reader that is handed fewer samples than it asked for has had them all:
\* "if this is less than requested, verifies that the end of the file was
\* reached" (wav_file/wav_file.h:80).
ShortReadIsTheLast ==
  reader.open /\ reader.missed
    => reader.remaining = 0 /\ reader.got = disk.samples
=============================================================================
