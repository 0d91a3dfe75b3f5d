------------------------------ MODULE WavHeader ------------------------------
(***************************************************************************)
(* The 44-byte WAV header of wav_file/wav_header.cc: which parameters make *)
(* a header (CheckWavParameters), what is written (WriteWavHeader) and     *)
(* what a reader accepts and understands (ReadWavHeader).                  *)
(*                                                                         *)
(* A header is the record of its numeric fields.  The four FourCC tags are *)
(* one BOOLEAN, `tags`: every writer of the repository writes all four of  *)
(* them or (the placeholder of WavWriter) none.  A field keeps its width:  *)
(* a 16-bit field is a number below U16, a 32-bit field one below U32.     *)
(* ByteBase is the number of values of a byte, 256 in the code; a smaller  *)
(* one keeps every overflow of the code in reach of a small instance.      *)
(***************************************************************************)
EXTENDS Integers

CONSTANT ByteBase

U16 == ByteBase * ByteBase
U32 == U16 * U16

\* The header must be able to describe itself: 16 bits per sample and a file
\* of 36 bytes after the first chunk header have to fit their fields.
ASSUME ByteBaseAssumption == ByteBase \in Nat /\ ByteBase > 4

kWavHeaderSize   == 44
ChunkHeaderSize  == 8
kFmtSubchunkSize == 16

kWavFormatPcm   == 1
kWavFormatALaw  == 6
kWavFormatMuLaw == 7

Header == [tags: BOOLEAN, riffSize: 0 .. U32 - 1, fmtSize: 0 .. U32 - 1,
           ext: 0 .. U16 - 1, format: 0 .. U16 - 1, channels: 0 .. U16 - 1,
           sampleRate: 0 .. U32 - 1, byteRate: 0 .. U32 - 1,
           blockAlign: 0 .. U16 - 1, bits: 0 .. U16 - 1,
           dataSize: 0 .. U32 - 1]

-----------------------------------------------------------------------------
\* format and bytes_per_sample must agree.
FormatAgrees(format, bytesPerSample) ==
  \/ format = kWavFormatPcm /\ bytesPerSample \in {1, 2}
  \/ format \in {kWavFormatALaw, kWavFormatMuLaw} /\ bytesPerSample = 1

MaxSamples(bytesPerSample) ==
  (U32 - 1 - (kWavHeaderSize - ChunkHeaderSize)) \div bytesPerSample

\* The channel count is checked for zero before it is used as a divisor.
CheckWavParameters(channels, sampleRate, format, bytesPerSample, numSamples) ==
  /\ channels > 0 /\ sampleRate > 0 /\ bytesPerSample > 0
  /\ sampleRate < U32
  /\ channels < U16
  /\ bytesPerSample * 8 < U16
  /\ sampleRate * channels * bytesPerSample < U32
  /\ FormatAgrees(format, bytesPerSample)
  /\ numSamples <= MaxSamples(bytesPerSample)
  /\ numSamples % channels = 0

RiffChunkSize(bytesInPayload) ==
  (bytesInPayload + kWavHeaderSize - ChunkHeaderSize) % U32

ByteRate(channels, sampleRate, bytesPerSample) ==
  (channels * sampleRate * bytesPerSample) % U32

BlockAlign(channels, bytesPerSample) == (channels * bytesPerSample) % U16

\* Only meaningful where CheckWavParameters holds: the code aborts elsewhere.
\* bytes_in_payload counts num_samples samples for EVERY channel.
WriteWavHeader(channels, sampleRate, format, bytesPerSample, numSamples) ==
  LET bytesInPayload == channels * bytesPerSample * numSamples IN
  [tags       |-> TRUE,
   riffSize   |-> RiffChunkSize(bytesInPayload),
   fmtSize    |-> kFmtSubchunkSize,
   ext        |-> 0,
   format     |-> format,
   channels   |-> channels,
   sampleRate |-> sampleRate,
   byteRate   |-> ByteRate(channels, sampleRate, bytesPerSample),
   blockAlign |-> BlockAlign(channels, bytesPerSample),
   bits       |-> 8 * bytesPerSample,
   dataSize   |-> bytesInPayload % U32]

-----------------------------------------------------------------------------
\* What the reader takes from the fields.  num_samples is the TOTAL over the
\* channels here; sample_rate is an int, so the upper half is negative.
ReadChannels(h)   == h.channels
ReadRate(h)       == IF h.sampleRate > (U32 - 1) \div 2
                       THEN h.sampleRate - U32 ELSE h.sampleRate
ReadBytes(h)      == h.bits \div 8
\* A slip, for a mutant: bytes are taken for samples.
ReadNumBytes(h)   == h.dataSize
ReadNumSamples(h) == h.dataSize \div ReadBytes(h)

\* The 16-byte format chunk, or the 18-byte one with an empty extension.
FmtChunkAccepted(h) ==
  \/ h.fmtSize = kFmtSubchunkSize
  \/ h.fmtSize = kFmtSubchunkSize + 2 /\ h.ext = 0

ReadWavHeader(h) ==
  /\ FmtChunkAccepted(h)
  /\ ReadBytes(h) # 0
  /\ h.tags
  /\ h.riffSize >= RiffChunkSize(h.dataSize)
  /\ h.byteRate = ByteRate(h.channels, ReadRate(h), ReadBytes(h))
  /\ h.blockAlign = BlockAlign(h.channels, ReadBytes(h))
  /\ CheckWavParameters(ReadChannels(h), ReadRate(h), h.format, ReadBytes(h),
                        ReadNumSamples(h))

\* WavReader takes 16-bit PCM and nothing else.
kBytesPerSample == 2
ReaderAccepts(h) ==
  ReadWavHeader(h) /\ h.format = kWavFormatPcm /\ ReadBytes(h) = kBytesPerSample

\* The placeholder of a file that is still being written: zeroes.
BlankHeader ==
  [tags |-> FALSE, riffSize |-> 0, fmtSize |-> 0, ext |-> 0, format |-> 0,
   channels |-> 0, sampleRate |-> 0, byteRate |-> 0, blockAlign |-> 0,
   bits |-> 0, dataSize |-> 0]
=============================================================================
