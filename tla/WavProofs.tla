------------------------------ MODULE WavProofs ------------------------------
(***************************************************************************)
(* The properties of WavFile and of OpusConvert, the two components that   *)
(* stand on WavHeader, for every width of a byte.                          *)
(*                                                                         *)
(* WavFile, for every file size and chunk size.  Those about sample counts *)
(* hold for one channel, and only for one: WriteWavHeader multiplies the   *)
(* count by the channels, and run wav_file_stereo shows what becomes of    *)
(* two.                                                                    *)
(*                                                                         *)
(* The argument: while a writer is open the header is blank and every      *)
(* sample is on the disk or buffered (Accounted); so when a header other   *)
(* than the blank one is there, it was written by Close for the samples    *)
(* that are there (Described), and it can be read back (HeaderRoundTrip).  *)
(* A reader then has the two ways to run out, the declared count and the   *)
(* end of the file, at the same sample (Reading).                          *)
(*                                                                         *)
(* OpusConvert, for inputs of any length, with or without faults, and that *)
(* a call implements Conversion, the contract VoipRate is modelled with.   *)
(*                                                                         *)
(* The argument: opus_decode never changes the data size it wrote first    *)
(* (Headed, PrintedKeeps), so a reader that finds all the samples the      *)
(* header declares finds no fewer than the duration declared; the          *)
(* temporary never has more than were counted (Counted), nor the count     *)
(* more than the duration (TypeOK).                                        *)
(***************************************************************************)
EXTENDS WavFile, OpusConvert, TLAPS

-----------------------------------------------------------------------------
(* Arithmetic. *)

LEMMA WidthIsNat == U16 \in Nat /\ U32 \in Nat /\ U16 > 16 /\ U32 > 600
<1>1. ByteBase \in Nat /\ ByteBase >= 5
  BY ByteBaseAssumption
<1>2. U16 \in Nat /\ U16 >= 25
  BY <1>1 DEF U16
<1> HIDE DEF U16
<1>3. U16 * U16 \in Nat /\ U16 * U16 >= 625
  <2>1. \A m \in Nat : m >= 25 => m * m \in Nat /\ m * m >= 625
    OBVIOUS
  <2> QED
    BY <1>2, <2>1
<1> QED
  BY <1>2, <1>3 DEF U32

LEMMA SmallRemainder ==
  ASSUME NEW n \in Nat, NEW m \in Nat, n < m
  PROVE  n % m = n
  OBVIOUS

LEMMA RemainderInRange ==
  ASSUME NEW n \in Nat, NEW m \in Nat, m > 0
  PROVE  n % m \in 0 .. m - 1
  OBVIOUS

LEMMA SmallerIsSmaller ==
  ASSUME NEW m \in Nat, NEW n \in Nat
  PROVE  /\ Smaller(m, n) \in Nat
         /\ Smaller(m, n) <= m /\ Smaller(m, n) <= n
         /\ Smaller(m, n) = m \/ Smaller(m, n) = n
  BY DEF Smaller

-----------------------------------------------------------------------------
(* Headers. *)

LEMMA BlankType == BlankHeader \in Header
  BY WidthIsNat DEF BlankHeader, Header

\* No reader accepts the blank header.
LEMMA BlankIsRefused == ~ReaderAccepts(BlankHeader)
  BY DEF ReaderAccepts, ReadWavHeader, BlankHeader

\* The fields of a 16-bit header have their widths, whatever overflows.
LEMMA WrittenType ==
  ASSUME NEW c \in Nat, c < U16, NEW r \in Nat, r < U32, NEW n \in Nat
  PROVE  WriteWavHeader(c, r, 1, kBytesPerSample, n) \in Header
<1>1. c * 2 * n \in Nat /\ c * r * 2 \in Nat /\ c * 2 \in Nat
  OBVIOUS
<1>2. /\ RiffChunkSize(c * 2 * n) \in 0 .. U32 - 1
      /\ (c * 2 * n) % U32 \in 0 .. U32 - 1
  BY <1>1, WidthIsNat, RemainderInRange
  DEF RiffChunkSize, kWavHeaderSize, ChunkHeaderSize
<1>3. ByteRate(c, r, 2) \in 0 .. U32 - 1
  BY <1>1, WidthIsNat, RemainderInRange DEF ByteRate
<1>4. BlockAlign(c, 2) \in 0 .. U16 - 1
  BY <1>1, WidthIsNat, RemainderInRange DEF BlockAlign
<1> HIDE DEF U16, U32
<1> QED
  BY <1>2, <1>3, <1>4, WidthIsNat
  DEF WriteWavHeader, Header, kBytesPerSample, kFmtSubchunkSize

\* The header Close writes for n samples.
Closing(n) ==
  WriteWavHeader(Channels, SampleRate, kWavFormatPcm, kBytesPerSample, n)
Admitted(n) ==
  CheckWavParameters(Channels, SampleRate, kWavFormatPcm, kBytesPerSample, n)

LEMMA HeaderType ==
  ASSUME NEW n \in Nat
  PROVE  Closing(n) \in Header /\ BlankHeader \in Header
<1>1. /\ Channels \in Nat /\ Channels < U16 /\ SampleRate \in Nat /\ SampleRate < U32
  BY WavFileAssumption DEF CheckWavParameters
<1> QED
  BY <1>1, WrittenType, BlankType DEF Closing, kWavFormatPcm

\* A mono header for n samples that WriteWavHeader admits is accepted by
\* ReadWavHeader, which reads n samples from it: the check of the parameters
\* keeps the four fields that are products from overflowing.
THEOREM HeaderRoundTrip ==
  ASSUME Channels = 1, NEW n \in Nat, Admitted(n)
  PROVE  ReaderAccepts(Closing(n)) /\ ReadNumSamples(Closing(n)) = n
<1> DEFINE h == Closing(n)
<1>0. /\ SampleRate \in Nat /\ SampleRate > 0 /\ SampleRate * 2 < U32
      /\ 2 * n + 36 < U32 /\ n <= MaxSamples(2)
  <2>1. SampleRate \in Nat /\ SampleRate > 0
    BY WavFileAssumption
  <2>2. SampleRate * 1 * 2 < U32 /\ n <= MaxSamples(2)
    BY DEF Admitted, CheckWavParameters, kBytesPerSample
  <2> QED
    BY <2>1, <2>2, WidthIsNat DEF MaxSamples, kWavHeaderSize, ChunkHeaderSize
<1>1. /\ h.tags /\ h.fmtSize = 16 /\ h.format = 1 /\ h.channels = 1
      /\ h.sampleRate = SampleRate /\ h.bits = 16
      /\ h.byteRate = ByteRate(1, SampleRate, 2)
      /\ h.blockAlign = BlockAlign(1, 2)
      /\ h.riffSize = RiffChunkSize(2 * n) /\ h.dataSize = (2 * n) % U32
  BY DEF Closing, WriteWavHeader, kBytesPerSample, kWavFormatPcm,
         kFmtSubchunkSize
<1>2. h.dataSize = 2 * n
  BY <1>0, <1>1, SmallRemainder, WidthIsNat
<1>3. ReadBytes(h) = 2 /\ ReadNumSamples(h) = n
  BY <1>1, <1>2 DEF ReadBytes, ReadNumSamples
<1>4. ReadRate(h) = SampleRate
  BY <1>0, <1>1, WidthIsNat DEF ReadRate
<1>5. RiffChunkSize(2 * n) \in 0 .. U32 - 1
  BY <1>0, WidthIsNat, RemainderInRange
  DEF RiffChunkSize, kWavHeaderSize, ChunkHeaderSize
<1>6. h.riffSize >= RiffChunkSize(h.dataSize)
  BY <1>1, <1>2, <1>5
<1>7. CheckWavParameters(1, SampleRate, 1, 2, n)
  BY DEF Admitted, kBytesPerSample, kWavFormatPcm
<1>8. ReadWavHeader(h)
  <2> HIDE DEF h
  <2> QED
    BY <1>1, <1>3, <1>4, <1>6, <1>7
    DEF ReadWavHeader, FmtChunkAccepted, kFmtSubchunkSize, ReadChannels
<1> QED
  BY <1>1, <1>3, <1>8 DEF ReaderAccepts, kWavFormatPcm, kBytesPerSample
-----------------------------------------------------------------------------
(* Types, for any number of channels. *)

\* The counts stay in their ranges.
Counts ==
  /\ writer.numSamples + writer.left <= MaxWritten
  /\ writer.buffered <= writer.numSamples
  /\ reader.got <= disk.samples
  /\ reader.open \/ (reader.got = 0 /\ reader.asked = 0)

TypeInv == FileTypeOK /\ Counts

\* What one fread returns.
LEMMA FreadType ==
  ASSUME TypeInv, NEW n \in Nat
  PROVE  /\ Fread(n) \in Nat
         /\ Fread(n) <= n /\ Fread(n) <= reader.remaining
         /\ Fread(n) <= disk.samples - reader.got
         /\ \/ Fread(n) = n \/ Fread(n) = reader.remaining
            \/ Fread(n) = disk.samples - reader.got
<1>1. /\ reader.remaining \in Nat /\ disk.samples - reader.got \in Nat
  BY DEF TypeInv, FileTypeOK, Counts
<1> DEFINE a == Smaller(n, reader.remaining)
           d == disk.samples - reader.got
<1>2. a \in Nat /\ a <= n /\ a <= reader.remaining
      /\ (a = n \/ a = reader.remaining)
  BY <1>1, SmallerIsSmaller
<1> HIDE DEF a
<1>3. /\ Smaller(a, d) \in Nat /\ Smaller(a, d) <= a /\ Smaller(a, d) <= d
      /\ Smaller(a, d) = a \/ Smaller(a, d) = d
  BY <1>1, <1>2, SmallerIsSmaller
<1>4. Fread(n) = Smaller(a, d)
  BY DEF Fread, a
<1> QED
  BY <1>1, <1>2, <1>3, <1>4

LEMMA TypeInitial == FileInit => TypeInv
  BY HeaderType, WavFileAssumption, SMTT(30)
  DEF FileInit, TypeInv, FileTypeOK, Counts, Truncated, NoWriter, NoReader

LEMMA TypeStep == TypeInv /\ [FileNext]_fileVars => TypeInv'
<1> SUFFICES ASSUME TypeInv, [FileNext]_fileVars PROVE TypeInv'
  OBVIOUS
<1> DEFINE Disks   == [header: Header, samples: Nat]
           Writers == [open: BOOLEAN, numSamples: 0 .. MaxWritten,
                       buffered: 0 .. MaxWritten, left: 0 .. MaxWritten]
           Readers == [open: BOOLEAN, remaining: Nat, got: Nat, asked: Nat,
                       missed: BOOLEAN]
<1>0. /\ WriteSizes \subseteq Nat /\ ReadSizes \subseteq Nat
      /\ MaxWritten \in Nat /\ kChunksize \in Nat /\ kChunksize > 0
  BY WavFileAssumption
<1>a. disk \in Disks /\ writer \in Writers /\ reader \in Readers /\ Counts
  BY DEF TypeInv, FileTypeOK
<1>b. ASSUME disk' \in Disks, writer' \in Writers, reader' \in Readers,
             Counts'
      PROVE  TypeInv'
  BY <1>b DEF TypeInv, FileTypeOK
<1>n. /\ writer.numSamples \in 0 .. MaxWritten /\ writer.left \in 0 .. MaxWritten
      /\ writer.buffered \in 0 .. MaxWritten /\ writer.open \in BOOLEAN
      /\ reader.asked \in Nat /\ disk.samples \in Nat
  BY <1>a
<1>c. NoWriter \in Writers /\ NoReader \in Readers /\ Truncated \in Disks
  BY <1>0, HeaderType, WavFileAssumption DEF NoWriter, NoReader, Truncated
<1> USE DEF Counts
<1>1. CASE OpenWriter
  <2>1. disk' = Truncated /\ writer' = [NoWriter EXCEPT !.open = TRUE]
        /\ reader' = reader
    BY <1>1 DEF OpenWriter
  <2>2. writer' \in Writers /\ writer'.numSamples = 0 /\ writer'.left = 0
        /\ writer'.buffered = 0
    <3>1. writer' = [open |-> TRUE, numSamples |-> 0, buffered |-> 0, left |-> 0]
      BY <2>1 DEF NoWriter
    <3> QED
      BY <1>0, <3>1
  <2>3. reader.got = 0 /\ reader.asked = 0
    BY <1>a, <1>1 DEF OpenWriter
  <2> QED
    BY <1>0, <1>a, <1>b, <1>c, <2>1, <2>2, <2>3 DEF Truncated
<1>2. CASE WriteSamples \/ WriteFloats
  <2>1. disk' = disk /\ reader' = reader
    BY <1>2 DEF WriteSamples, WriteFloats
  <2>2. PICK n \in Nat :
          /\ writer.left = 0 /\ writer.numSamples + n <= MaxWritten
          /\ \/ writer' = [writer EXCEPT !.numSamples = @ + n, !.buffered = @ + n]
             \/ writer' = [writer EXCEPT !.left = n]
    BY <1>0, <1>2 DEF WriteSamples, WriteFloats
  <2>3. writer' \in Writers /\ writer'.numSamples + writer'.left <= MaxWritten
        /\ writer'.buffered <= writer'.numSamples
    <3>1. CASE writer' = [writer EXCEPT !.numSamples = @ + n, !.buffered = @ + n]
      <4>1. /\ writer.numSamples + n \in 0 .. MaxWritten
            /\ writer.buffered + n \in 0 .. MaxWritten
            /\ writer.buffered + n <= writer.numSamples + n
        BY <1>0, <1>a, <1>n, <2>2
      <4>2. /\ writer' \in Writers /\ writer'.left = 0
            /\ writer'.numSamples = writer.numSamples + n
            /\ writer'.buffered = writer.buffered + n
        BY <1>a, <2>2, <3>1, <4>1
      <4> QED
        BY <1>0, <2>2, <4>1, <4>2
    <3>2. CASE writer' = [writer EXCEPT !.left = n]
      BY <1>0, <1>a, <2>2, <3>2
    <3> QED
      BY <2>2, <3>1, <3>2
  <2> QED
    BY <1>a, <1>b, <2>1, <2>3
<1>3. CASE WriteChunk
  <2> DEFINE c == Smaller(kChunksize, writer.left)
  <2>1. c \in Nat /\ c <= writer.left
    <3>1. writer.left \in Nat
      BY <1>0, <1>n
    <3> QED
      BY <1>0, <3>1, SmallerIsSmaller
  <2>2. disk' = disk /\ reader' = reader
        /\ writer' = [writer EXCEPT !.numSamples = @ + c, !.buffered = @ + c,
                                    !.left = @ - c]
    BY <1>3 DEF WriteChunk
  <2> HIDE DEF c
  <2>3. writer' \in Writers /\ writer'.numSamples + writer'.left <= MaxWritten
        /\ writer'.buffered <= writer'.numSamples
    <3>1. /\ writer.numSamples + c \in 0 .. MaxWritten
          /\ writer.buffered + c \in 0 .. MaxWritten
          /\ writer.left - c \in 0 .. MaxWritten
          /\ (writer.numSamples + c) + (writer.left - c) <= MaxWritten
          /\ writer.buffered + c <= writer.numSamples + c
      BY <1>0, <1>a, <1>n, <2>1
    <3>2. /\ writer' \in Writers /\ writer'.left = writer.left - c
          /\ writer'.numSamples = writer.numSamples + c
          /\ writer'.buffered = writer.buffered + c
      BY <1>a, <2>2, <3>1
    <3> QED
      BY <3>1, <3>2
  <2> QED
    BY <1>a, <1>b, <2>2, <2>3
<1>4. CASE Flush
  <2>1. reader' = reader
    BY <1>4 DEF Flush
  <2>2. PICK n \in {1, writer.buffered} :
          /\ disk' = [disk EXCEPT !.samples = @ + n]
          /\ writer' = [writer EXCEPT !.buffered = @ - n]
    BY <1>4 DEF Flush
  <2>3. n \in Nat /\ n <= writer.buffered
    BY <1>0, <1>4, <1>a DEF Flush
  <2>4. writer' \in Writers /\ writer'.numSamples = writer.numSamples
        /\ writer'.left = writer.left /\ writer'.buffered <= writer.buffered
    BY <1>0, <1>a, <2>2, <2>3
  <2>5. disk' \in Disks /\ disk'.samples >= disk.samples
    BY <1>a, <2>2, <2>3
  <2> QED
    BY <1>0, <1>a, <1>b, <2>1, <2>4, <2>5
<1>5. CASE CloseWriter \/ Die
  <2>1. writer' = NoWriter /\ reader' = reader
    BY <1>5 DEF CloseWriter, Die
  <2>2. disk' \in Disks /\ disk'.samples >= disk.samples
    <3>1. CASE CloseWriter
      <4>1. disk' = [header |-> Closing(writer.numSamples),
                     samples |-> disk.samples + writer.buffered]
        BY <3>1 DEF CloseWriter, Closing
      <4>2. Closing(writer.numSamples) \in Header
        BY <1>0, <1>a, HeaderType
      <4> QED
        BY <1>0, <1>a, <4>1, <4>2
    <3>2. CASE Die
      BY <1>0, <1>a, <3>2 DEF Die
    <3> QED
      BY <1>5, <3>1, <3>2
  <2> QED
    BY <1>0, <1>a, <1>b, <1>c, <2>1, <2>2 DEF NoWriter
<1>6. CASE OpenWavReader
  <2>1. disk' = disk /\ writer' = writer
        /\ reader' = [NoReader EXCEPT !.open = TRUE,
                        !.remaining = ReadNumSamples(disk.header)]
    BY <1>6 DEF OpenWavReader
  <2>2. ReadNumSamples(disk.header) \in Nat
    <3>1. disk.header.dataSize \in Nat
      BY <1>a, WidthIsNat DEF Header
    <3>2. ReadBytes(disk.header) = 2
      BY <1>6 DEF OpenWavReader, ReaderAccepts, kBytesPerSample
    <3> QED
      BY <3>1, <3>2 DEF ReadNumSamples
  <2>3. reader' \in Readers /\ reader'.got = 0
    BY <1>c, <2>1, <2>2 DEF NoReader
  <2> QED
    BY <1>a, <1>b, <2>1, <2>3
<1>7. CASE ReadSamples
  <2>1. PICK n \in ReadSizes :
          reader' = [reader EXCEPT !.remaining = @ - Fread(n),
                                   !.got = @ + Fread(n),
                                   !.missed = Fread(n) < n]
    BY <1>7 DEF ReadSamples
  <2>2. disk' = disk /\ writer' = writer /\ reader.open
    BY <1>7 DEF ReadSamples
  <2>3. /\ reader.remaining - Fread(n) \in Nat
        /\ reader.got + Fread(n) \in Nat
        /\ reader.got + Fread(n) <= disk.samples
    BY <1>0, <1>a, FreadType
  <2>4. reader' \in Readers /\ reader'.got <= disk.samples /\ reader'.open
    <3>1. (Fread(n) < n) \in BOOLEAN
      OBVIOUS
    <3> QED
      BY <1>a, <2>1, <2>2, <2>3, <3>1
  <2> QED
    BY <1>a, <1>b, <2>2, <2>4
<1>8. CASE ReadChunk
  <2> DEFINE c == Smaller(kChunksize, reader.asked)
  <2>1. c \in Nat /\ c <= reader.asked
    BY <1>0, <1>a, SmallerIsSmaller
  <2>2. reader' = [reader EXCEPT !.remaining = @ - Fread(c),
                                 !.got = @ + Fread(c), !.asked = @ - c,
                                 !.missed = @ \/ Fread(c) < c]
    BY <1>8 DEF ReadChunk
  <2>3. disk' = disk /\ writer' = writer
    BY <1>8 DEF ReadChunk
  <2>4. /\ reader.remaining - Fread(c) \in Nat
        /\ reader.got + Fread(c) \in Nat
        /\ reader.got + Fread(c) <= disk.samples
    BY <1>a, <2>1, FreadType
  <2> HIDE DEF c
  <2>5. reader' \in Readers /\ reader'.got <= disk.samples
        /\ reader'.open = reader.open /\ reader.got <= reader'.got
    <3>1. reader.asked - c \in Nat /\ Fread(c) \in Nat
      BY <1>a, <1>n, <2>1, FreadType
    <3>2. (reader.missed \/ Fread(c) < c) \in BOOLEAN
      OBVIOUS
    <3>3. /\ reader' \in Readers /\ reader'.got = reader.got + Fread(c)
          /\ reader'.open = reader.open
      BY <1>a, <2>2, <2>4, <3>1, <3>2
    <3> QED
      BY <1>a, <2>4, <3>1, <3>3
  <2>6. reader.open
    BY <1>a, <1>8 DEF ReadChunk
  <2> QED
    BY <1>a, <1>b, <2>3, <2>5, <2>6
<1>9. CASE ReadFloats
  <2>1. PICK n \in Nat :
          reader' = [reader EXCEPT !.asked = n, !.missed = FALSE]
    BY <1>0, <1>9 DEF ReadFloats
  <2>2. disk' = disk /\ writer' = writer /\ reader.open
    BY <1>9 DEF ReadFloats
  <2>3. reader' \in Readers /\ reader'.got = reader.got
        /\ reader'.open = reader.open
    BY <1>a, <2>1
  <2> QED
    BY <1>a, <1>b, <2>2, <2>3
<1>10. CASE CloseReader
  <2>1. disk' = disk /\ writer' = writer /\ reader' = NoReader
    BY <1>10 DEF CloseReader
  <2> QED
    BY <1>a, <1>b, <1>c, <2>1 DEF NoReader
<1>11. CASE UNCHANGED fileVars
  BY <1>a, <1>b, <1>11 DEF fileVars
<1> QED
  BY <1>1, <1>2, <1>3, <1>4, <1>5, <1>6, <1>7, <1>8, <1>9, <1>10, <1>11 DEF FileNext

\* The types and counts hold in every state, whatever the number of channels.
THEOREM FileTypeCorrect == FileSpec => []FileTypeOK
<1>1. TypeInv => FileTypeOK
  BY DEF TypeInv
<1> QED
  BY <1>1, TypeInitial, TypeStep, PTL DEF FileSpec

-----------------------------------------------------------------------------
(* Completeness, for one channel. *)

Accounted ==
  /\ writer.open => /\ disk.header = BlankHeader
                    /\ disk.samples + writer.buffered = writer.numSamples
  /\ ~writer.open => writer.left = 0

Described ==
  ~writer.open =>
    \/ disk.header = BlankHeader
    \/ Admitted(disk.samples) /\ disk.header = Closing(disk.samples)

Reading ==
  reader.open => /\ ~writer.open /\ ReaderAccepts(disk.header)
                 /\ reader.remaining + reader.got = disk.samples
                 /\ reader.missed => reader.remaining = 0

FileInv == TypeInv /\ Accounted /\ Described /\ Reading

\* A header that is accepted is one that Close wrote for what is there.
LEMMA AcceptedWasClosed ==
  ASSUME Channels = 1, TypeInv, Accounted, Described, ReaderAccepts(disk.header)
  PROVE  ~writer.open /\ ReadNumSamples(disk.header) = disk.samples
<1>1. disk.header # BlankHeader
  BY BlankIsRefused
<1>2. ~writer.open /\ Admitted(disk.samples)
      /\ disk.header = Closing(disk.samples)
  BY <1>1 DEF Accounted, Described
<1>3. disk.samples \in Nat
  BY DEF TypeInv, FileTypeOK
<1> QED
  BY <1>2, <1>3, HeaderRoundTrip

\* Accounted and Described are kept by every step.
LEMMA DescribedStep ==
  ASSUME TypeInv, Accounted, Described, [FileNext]_fileVars
  PROVE  Accounted' /\ Described'
<1>0. /\ writer.numSamples \in Nat /\ writer.left \in Nat
      /\ writer.buffered \in Nat /\ disk.samples \in Nat
      /\ writer \in [open: BOOLEAN, numSamples: 0 .. MaxWritten,
                     buffered: 0 .. MaxWritten, left: 0 .. MaxWritten]
      /\ disk \in [header: Header, samples: Nat]
  BY WavFileAssumption DEF TypeInv, FileTypeOK
<1>a. ASSUME disk' = disk, writer' = writer PROVE Accounted' /\ Described'
  BY <1>a DEF Accounted, Described
<1>1. CASE OpenWriter
  BY <1>1 DEF OpenWriter, Truncated, NoWriter, Accounted, Described
<1>2. CASE WriteSamples \/ WriteFloats
  <2>1. PICK n \in Nat :
          \/ writer' = [writer EXCEPT !.numSamples = @ + n, !.buffered = @ + n]
          \/ writer' = [writer EXCEPT !.left = n]
    BY <1>2, WavFileAssumption DEF WriteSamples, WriteFloats
  <2>2. disk' = disk /\ writer.open
    BY <1>2 DEF WriteSamples, WriteFloats
  <2>3. /\ writer'.open
        /\ writer'.numSamples - writer'.buffered
             = writer.numSamples - writer.buffered
        /\ writer'.numSamples \in Nat /\ writer'.buffered \in Nat
    <3>1. CASE writer' = [writer EXCEPT !.left = n]
      BY <1>0, <2>2, <3>1
    <3>2. CASE writer' = [writer EXCEPT !.numSamples = @ + n, !.buffered = @ + n]
      BY <1>0, <2>2, <3>2
    <3> QED
      BY <2>1, <3>1, <3>2
  <2> QED
    BY <1>0, <2>2, <2>3 DEF Accounted, Described
<1>3. CASE WriteChunk
  <2> DEFINE c == Smaller(kChunksize, writer.left)
  <2>1. c \in Nat
    BY <1>0, WavFileAssumption, SmallerIsSmaller
  <2>2. disk' = disk /\ writer.left > 0
        /\ writer' = [writer EXCEPT !.numSamples = @ + c, !.buffered = @ + c,
                                    !.left = @ - c]
    BY <1>3 DEF WriteChunk
  <2> HIDE DEF c
  <2> QED
    BY <1>0, <2>1, <2>2 DEF Accounted, Described
<1>4. CASE Flush
  <2>1. PICK n \in {1, writer.buffered} :
          /\ disk' = [disk EXCEPT !.samples = @ + n]
          /\ writer' = [writer EXCEPT !.buffered = @ - n]
    BY <1>4 DEF Flush
  <2>2. writer.open
    BY <1>4 DEF Flush
  <2> QED
    BY <1>0, <2>1, <2>2 DEF Accounted, Described
<1>5. CASE CloseWriter
  <2>1. /\ writer.open /\ Admitted(writer.numSamples) /\ writer' = NoWriter
        /\ disk' = [header  |-> Closing(writer.numSamples),
                    samples |-> disk.samples + writer.buffered]
    BY <1>5 DEF CloseWriter, Admitted, Closing
  <2>2. disk'.samples = writer.numSamples
        /\ disk'.header = Closing(writer.numSamples)
    BY <2>1 DEF Accounted
  <2> QED
    BY <2>1, <2>2 DEF Accounted, Described, NoWriter, Admitted, Closing
<1>6. CASE Die
  BY <1>0, <1>6 DEF Die, NoWriter, Accounted, Described
<1>7. CASE OpenWavReader \/ ReadSamples \/ ReadFloats \/ ReadChunk \/ CloseReader
  BY <1>a, <1>7 DEF OpenWavReader, ReadSamples, ReadFloats, ReadChunk, CloseReader
<1>8. CASE UNCHANGED fileVars
  BY <1>a, <1>8 DEF fileVars
<1> QED
  BY <1>1, <1>2, <1>3, <1>4, <1>5, <1>6, <1>7, <1>8 DEF FileNext

\* What an open reader has read and what it still expects make up the file.
LEMMA ReadingStep ==
  ASSUME Channels = 1, FileInv, [FileNext]_fileVars
  PROVE  Reading'
<1>0. /\ TypeInv /\ Accounted /\ Described /\ Reading
      /\ reader \in [open: BOOLEAN, remaining: Nat, got: Nat, asked: Nat,
                     missed: BOOLEAN]
      /\ disk.samples \in Nat /\ reader.got <= disk.samples
      /\ ~reader.open => reader.asked = 0
      /\ ReadSizes \subseteq Nat /\ kChunksize \in Nat /\ kChunksize > 0
  BY WavFileAssumption DEF FileInv, TypeInv, FileTypeOK, Counts
<1>a. ASSUME NEW n \in Nat, reader.open, disk' = disk, writer' = writer,
             reader'.remaining = reader.remaining - Fread(n),
             reader'.got = reader.got + Fread(n),
             (reader'.missed => (reader.missed \/ Fread(n) < n))
      PROVE  Reading'
  <2>1. /\ reader.remaining \in Nat /\ reader.got \in Nat
        /\ reader.remaining + reader.got = disk.samples
        /\ reader.missed => reader.remaining = 0
        /\ ~writer.open /\ ReaderAccepts(disk.header)
    BY <1>0, <1>a DEF Reading
  <2>2. /\ Fread(n) \in Nat /\ Fread(n) <= reader.remaining
        /\ Fread(n) < n => Fread(n) = reader.remaining
    BY <1>0, <1>a, <2>1, FreadType
  <2>3. reader'.missed => reader'.remaining = 0
    BY <1>a, <2>1, <2>2
  <2>4. reader'.remaining + reader'.got = disk'.samples
    BY <1>a, <2>1, <2>2
  <2> QED
    BY <1>a, <2>1, <2>3, <2>4 DEF Reading
<1>1. CASE OpenWriter
  BY <1>1 DEF OpenWriter, Reading
<1>2. CASE WriteSamples \/ WriteFloats \/ Flush \/ CloseWriter \/ Die
  BY <1>0, <1>2 DEF WriteSamples, WriteFloats, Flush, CloseWriter, Die, Reading
<1>3. CASE WriteChunk
  BY <1>0, <1>3 DEF WriteChunk, Accounted, Reading
<1>4. CASE OpenWavReader
  <2>1. ~writer.open /\ ReadNumSamples(disk.header) = disk.samples
    BY <1>0, <1>4, AcceptedWasClosed DEF OpenWavReader
  <2>2. /\ ReaderAccepts(disk.header) /\ disk' = disk /\ writer' = writer
        /\ reader' = [NoReader EXCEPT !.open = TRUE,
                                      !.remaining = ReadNumSamples(disk.header)]
    BY <1>4 DEF OpenWavReader
  <2> QED
    BY <1>0, <2>1, <2>2 DEF NoReader, Reading
<1>5. CASE ReadSamples
  <2>1. PICK n \in ReadSizes :
          reader' = [reader EXCEPT !.remaining = @ - Fread(n),
                                   !.got = @ + Fread(n),
                                   !.missed = Fread(n) < n]
    BY <1>5 DEF ReadSamples
  <2>2. reader.open /\ disk' = disk /\ writer' = writer /\ n \in Nat
    BY <1>0, <1>5 DEF ReadSamples
  <2>3. /\ reader'.remaining = reader.remaining - Fread(n)
        /\ reader'.got = reader.got + Fread(n)
        /\ reader'.missed => Fread(n) < n
    BY <1>0, <2>1
  <2> QED
    BY <1>a, <2>2, <2>3
<1>6. CASE ReadChunk
  <2> DEFINE c == Smaller(kChunksize, reader.asked)
  <2>1. reader' = [reader EXCEPT !.remaining = @ - Fread(c),
                                 !.got = @ + Fread(c), !.asked = @ - c,
                                 !.missed = @ \/ Fread(c) < c]
    BY <1>6 DEF ReadChunk
  <2>2. reader.open /\ disk' = disk /\ writer' = writer
    BY <1>0, <1>6 DEF ReadChunk
  <2>3. c \in Nat
    BY <1>0, SmallerIsSmaller
  <2> HIDE DEF c
  <2>4. /\ reader'.remaining = reader.remaining - Fread(c)
        /\ reader'.got = reader.got + Fread(c)
        /\ reader'.missed => reader.missed \/ Fread(c) < c
    BY <1>0, <2>1
  <2> QED
    BY <1>a, <2>2, <2>3, <2>4
<1>7. CASE ReadFloats
  <2>1. PICK n \in ReadSizes :
          reader' = [reader EXCEPT !.asked = n, !.missed = FALSE]
    BY <1>7 DEF ReadFloats
  <2> QED
    BY <1>0, <1>7, <2>1 DEF ReadFloats, Reading
<1>8. CASE CloseReader
  BY <1>8 DEF CloseReader, NoReader, Reading
<1>9. CASE UNCHANGED fileVars
  BY <1>0, <1>9 DEF fileVars, Reading
<1> QED
  BY <1>1, <1>2, <1>3, <1>4, <1>5, <1>6, <1>7, <1>8, <1>9 DEF FileNext

LEMMA FileInductive ==
  ASSUME Channels = 1
  PROVE  (FileInit => FileInv) /\ (FileInv /\ [FileNext]_fileVars => FileInv')
<1>1. FileInit => FileInv
  BY TypeInitial
  DEF FileInit, FileInv, Accounted, Described, Reading, NoWriter, NoReader,
      Truncated
<1>2. FileInv /\ [FileNext]_fileVars => FileInv'
  BY TypeStep, DescribedStep, ReadingStep DEF FileInv
<1> QED
  BY <1>1, <1>2

\* A mono file whose header is accepted holds the samples the header declares,
\* wherever the program that wrote it was killed.
THEOREM CompletenessCorrect ==
  ASSUME Channels = 1 PROVE FileSpec => []AcceptedIsComplete
<1>1. FileInv => AcceptedIsComplete
  BY AcceptedWasClosed DEF FileInv, AcceptedIsComplete
<1> QED
  BY <1>1, FileInductive, PTL DEF FileSpec

\* A short read of a mono file is its last: the declared samples and the
\* samples of the file run out together.
THEOREM ShortReadCorrect ==
  ASSUME Channels = 1 PROVE FileSpec => []ShortReadIsTheLast
<1>1. FileInv => ShortReadIsTheLast
  BY DEF FileInv, Reading, ShortReadIsTheLast, TypeInv, FileTypeOK
<1> QED
  BY <1>1, FileInductive, PTL DEF FileSpec

\* Every mono file that Close finishes is accepted by a reader, with all its
\* samples, up to the largest file that WriteWavHeader admits.
THEOREM ReadableCorrect ==
  ASSUME Channels = 1 PROVE FileSpec => ClosedIsReadable
<1>1. FileInv /\ [FileNext]_fileVars => [ClosedReadsBack]_fileVars
  <2> SUFFICES ASSUME FileInv, CloseWriter PROVE ClosedReadsBack
    BY DEF ClosedReadsBack
  <2>1. writer.numSamples \in Nat
    BY WavFileAssumption DEF FileInv, TypeInv, FileTypeOK
  <2>2. Admitted(writer.numSamples)
        /\ disk'.header = Closing(writer.numSamples)
    BY DEF CloseWriter, Admitted, Closing
  <2> QED
    BY <2>1, <2>2, HeaderRoundTrip DEF ClosedReadsBack
<1> QED
  BY <1>1, FileInductive, PTL DEF FileSpec, ClosedIsReadable

-----------------------------------------------------------------------------
(* A header that is printed over another one. *)

\* The weights of the bytes divide the range of a field.
LEMMA WeightDivides ==
  ASSUME NEW k \in 0 .. 4
  PROVE  Weight(k) \in Nat \ {0} /\ \E q \in Nat : Weight(k) * q = U32
<1>1. ByteBase \in Nat \ {0} /\ U16 \in Nat \ {0} /\ U32 \in Nat \ {0}
  BY WidthIsNat, ByteBaseAssumption
<1>2. U16 * U16 = U32 /\ ByteBase * (ByteBase * U16) = U32
  BY <1>1 DEF U16, U32
<1> DEFINE m == ByteBase * U16
<1>3. m \in Nat \ {0} /\ ByteBase * m = U32 /\ m * ByteBase = U32
  BY <1>1, <1>2
<1>4. Weight(k) = CASE k = 0 -> 1 [] k = 1 -> ByteBase [] k = 2 -> U16
                    [] k = 3 -> m [] OTHER -> U32
  BY DEF Weight
<1> HIDE DEF m, U16, U32
<1> QED  BY <1>1, <1>2, <1>3, <1>4

LEMMA LeadingBytesInRange ==
  ASSUME NEW n \in Nat
  PROVE  LeadingBytes(n) \in 0 .. 4
<1> DEFINE Zero(i) == (n \div Weight(i)) % ByteBase = 0
           Stops(k) == (\A i \in 0 .. k - 1 : ~Zero(i)) /\ (k = 4 \/ Zero(k))
<1>1. \E k \in 0 .. 4 : Stops(k)
  <2> HIDE DEF Zero
  <2>1. CASE Zero(0)  BY <2>1
  <2>2. CASE ~Zero(0) /\ Zero(1)  BY <2>2
  <2>3. CASE ~Zero(0) /\ ~Zero(1) /\ Zero(2)  BY <2>3
  <2>4. CASE ~Zero(0) /\ ~Zero(1) /\ ~Zero(2)
    <3>1. CASE Zero(3)  BY <2>4, <3>1
    <3>2. CASE ~Zero(3)
      <4>1. \A i \in 0 .. 4 - 1 : i = 0 \/ i = 1 \/ i = 2 \/ i = 3
        OBVIOUS
      <4>2. Stops(4)  BY <2>4, <3>2, <4>1
      <4> QED  BY <4>2
    <3> QED  BY <3>1, <3>2
  <2> QED  BY <2>1, <2>2, <2>3, <2>4
<1>2. LeadingBytes(n) = CHOOSE k \in 0 .. 4 : Stops(k)
  BY DEF LeadingBytes
<1> HIDE DEF Stops
<1> QED  BY <1>1, <1>2

\* The low digits of a number are replaced: it stays in its field.
LEMMA LowDigitsReplaced ==
  ASSUME NEW w \in Nat \ {0}, NEW q \in Nat, NEW a \in Nat, NEW b \in Nat,
         a < w * q
  PROVE  ((a \div w) * w) + (b % w) \in 0 .. w * q - 1
<1> DEFINE d == a \div w
<1>1. d \in Nat /\ d * w <= a /\ b % w \in 0 .. w - 1
  OBVIOUS
<1> HIDE DEF d
<1>2. d + 1 <= q
  <2>1. CASE d >= q
    <3>1. d * w >= q * w  BY <1>1, <2>1
    <3> QED  BY <1>1, <3>1
  <2> QED  BY <1>1, <2>1
<1>3. (d + 1) * w <= q * w  BY <1>1, <1>2
<1>4. d * w + w <= w * q /\ d * w \in Nat  BY <1>1, <1>3
<1>5. (d * w) + (b % w) \in 0 .. w * q - 1
  <2> DEFINE r == b % w  x == d * w  y == w * q
  <2>1. r \in 0 .. w - 1 /\ x \in Nat /\ y \in Nat /\ x + w <= y
    BY <1>1, <1>4
  <2> HIDE DEF r, x, y
  <2>2. x + r \in 0 .. y - 1  BY <2>1
  <2> QED  BY <2>2 DEF r, x, y
<1> QED  BY <1>5 DEF d

\* Of the header nothing but the RIFF size changes.
LEMMA PrintedKeeps ==
  ASSUME NEW old \in Header, NEW new \in Header
  PROVE  /\ PrintedOver(old, new) \in Header
         /\ PrintedOver(old, new).dataSize = old.dataSize
         /\ PrintedOver(old, new).bits = old.bits
<1> DEFINE w == Weight(LeadingBytes(new.riffSize))
           r == ((old.riffSize \div w) * w) + (new.riffSize % w)
<1>1. /\ old.riffSize \in 0 .. U32 - 1 /\ new.riffSize \in 0 .. U32 - 1
      /\ U32 \in Nat
  BY WidthIsNat DEF Header
<1>2. LeadingBytes(new.riffSize) \in 0 .. 4
  BY <1>1, LeadingBytesInRange
<1>3. w \in Nat \ {0} /\ \E q \in Nat : w * q = U32
  BY <1>2, WeightDivides
<1> HIDE DEF w
<1>4. r \in 0 .. U32 - 1
  <2>1. PICK q \in Nat : w * q = U32  BY <1>3
  <2>2. old.riffSize \in Nat /\ new.riffSize \in Nat /\ old.riffSize < w * q
    BY <1>1, <2>1
  <2> QED  BY <1>3, <2>1, <2>2, LowDigitsReplaced
<1>5. PrintedOver(old, new) = [old EXCEPT !.riffSize = r]
  BY DEF PrintedOver, w
<1> HIDE DEF r, U32, U16
<1> QED  BY <1>4, <1>5 DEF Header
-----------------------------------------------------------------------------
(* The inductive invariant. *)

Behind == {"resample", "read"} \cup {"openout", "writeout", "remove"}

\* The data size of the header that is written before the loop.
Declares(h) ==
  h.bits = 16 /\ h.dataSize = (channels * kBytesPerSample * Declared) % U32

\* What is read of an input that has not failed so far.
Sound ==
  /\ pc \in {"call", "openin", "header", "loop"} =>
       ~broken /\ ~failbit /\ ret = 0
  /\ pc = "finish" /\ ret = 0 => ~broken /\ ~failbit
  /\ pc \in Behind => ret = 0 /\ ~broken

\* The temporary is there and has the first header, or what a failed stream
\* left of it.
Headed ==
  /\ pc \notin {"call", "returned", "aborted"} => tmp.there
  /\ pc = "loop" \/ (pc = "finish" /\ ~failbit) => Declares(tmp.header)
  /\ pc \in Behind => tmp.header = BlankHeader \/ Declares(tmp.header)

\* It has no more samples than were counted.
Counted ==
  pc \in {"loop", "finish"} \cup Behind /\ ret = 0 =>
    tmp.samples <= channels * total

\* The output is there while it is written to.
Opened == pc = "writeout" => out.there

\* What the reader let through and handed to the resampler.
Handed ==
  /\ pc = "read" \/ Converting =>
       ReaderAccepts(tmp.header) /\ ReadNumSamples(tmp.header) # 0
  /\ Converting => /\ inCount = ReadNumSamples(tmp.header)
                   /\ taken = inCount /\ taken <= tmp.samples

IInv == TypeOK /\ Sound /\ Headed /\ Counted /\ Opened /\ Handed

-----------------------------------------------------------------------------
(* Files and headers. *)

LEMMA Lengths ==
  ASSUME TypeOK
  PROVE  /\ Declared \in Nat /\ Declared <= input.duration
         /\ input.duration \in Nat /\ total \in Nat /\ todo \in Nat
         /\ MaxDuration \in Nat /\ input.duration <= MaxDuration
  BY ConvertAssumption DEF TypeOK, Declared

LEMMA FilesType == NoFile \in File /\ EmptyFile \in File /\ EmptyFile.there
  BY BlankType DEF NoFile, EmptyFile, File

LEMMA PutType ==
  ASSUME NEW f \in File, f.there, NEW h \in Header, NEW n \in Nat
  PROVE  /\ Put(f, h, n) \in File /\ Put(f, h, n).there
         /\ Put(f, h, n).header = h /\ Put(f, h, n).samples = n
<1> HIDE DEF Header
<1> QED  BY DEF Put, File

\* What a failed stream leaves has the header, or none, and no more samples.
Left(f, g) ==
  /\ g \in File /\ g.there /\ g.samples <= f.samples
  /\ g.header = f.header \/ g.header = BlankHeader

LEMMA CutFiles ==
  ASSUME NEW f \in File, f.there
  PROVE  (\A g \in Cuts(f) : Left(f, g)) /\ (\A g \in Closed(f) : Left(f, g))
<1>1. ASSUME NEW g \in Cuts(f) PROVE Left(f, g)
  <2>1. CASE g = EmptyFile
    BY <2>1, FilesType DEF Left, EmptyFile, File
  <2>2. CASE \E n \in 0 .. f.samples : g = [f EXCEPT !.samples = n]
    BY <2>2 DEF Left, File
  <2> QED  BY <1>1, <2>1, <2>2 DEF Cuts
<1>2. Left(f, f)  BY DEF Left, File
<1> QED  BY <1>1, <1>2 DEF Closed

LEMMA NewHeaderType ==
  ASSUME NEW n \in Nat
  PROVE  NewHeader(n) \in Header
<1>1. /\ channels \in Nat /\ channels < U16
      /\ DecodeRate \in Nat /\ DecodeRate < U32
  BY ConvertAssumption, WidthIsNat DEF channels, kBytesPerSample
<1> QED  BY <1>1, WrittenType DEF NewHeader, kWavFormatPcm

LEMMA FirstHeader == Declares(NewHeader(Declared))
  BY DEF Declares, NewHeader, WriteWavHeader, kBytesPerSample

LEMMA AcceptedCount ==
  ASSUME NEW h \in Header, ReaderAccepts(h)
  PROVE  /\ ReadNumSamples(h) = h.dataSize \div 2
         /\ ReadNumSamples(h) \in Nat /\ ReadNumSamples(h) <= MaxSamples(2)
<1>1. ReadBytes(h) = 2 /\ ReadNumSamples(h) <= MaxSamples(2)
  BY DEF ReaderAccepts, ReadWavHeader, CheckWavParameters, kBytesPerSample
<1>2. h.dataSize \in Nat  BY WidthIsNat DEF Header
<1> QED  BY <1>1, <1>2 DEF ReadNumSamples

\* Resampling to the lower rate gives no more samples.
LEMMA RescaleIsSmaller ==
  ASSUME NEW n \in Nat
  PROVE  Rescale(n) \in Nat /\ Rescale(n) <= n
<1>1. OutRate \in Nat /\ DecodeRate \in Nat \ {0} /\ OutRate <= DecodeRate
  BY ConvertAssumption
<1>2. n * OutRate <= n * DecodeRate /\ n * OutRate \in Nat
  BY <1>1
<1> DEFINE x == n * OutRate + DecodeRate - 1
<1>3. x \in Nat /\ x < (n + 1) * DecodeRate  BY <1>1, <1>2
<1> HIDE DEF x
<1>4. x \div DecodeRate \in Nat /\ (x \div DecodeRate) * DecodeRate <= x
  BY <1>1, <1>3
<1>5. x \div DecodeRate <= n
  <2> DEFINE d == x \div DecodeRate
  <2> HIDE DEF d
  <2>1. CASE d >= n + 1
    <3>1. d * DecodeRate >= (n + 1) * DecodeRate
      BY <1>1, <1>4, <2>1 DEF d
    <3> QED  BY <1>1, <1>3, <1>4, <3>1 DEF d
  <2> QED  BY <1>4, <2>1 DEF d
<1> QED  BY <1>4, <1>5 DEF Rescale, x

\* The output's header passes its check: a mono header holds what the reader
\* let through.
LEMMA OutputFits ==
  ASSUME NEW n \in Nat, n <= MaxSamples(2)
  PROVE  /\ CheckWavParameters(1, OutRate, kWavFormatPcm, kBytesPerSample,
                               Rescale(n))
         /\ WriteWavHeader(1, OutRate, kWavFormatPcm, kBytesPerSample,
                           Rescale(n)) \in Header
<1>1. /\ OutRate \in Nat \ {0} /\ OutRate < U32 /\ OutRate * 1 * 2 < U32
      /\ 1 < U16 /\ 2 * 8 < U16
  BY ConvertAssumption, WidthIsNat DEF channels, kBytesPerSample
<1>2. Rescale(n) \in Nat /\ Rescale(n) <= MaxSamples(2)
  <2>1. MaxSamples(2) \in Int
    BY WidthIsNat DEF MaxSamples, kWavHeaderSize, ChunkHeaderSize
  <2> QED  BY <2>1, RescaleIsSmaller
<1>3. Rescale(n) % 1 = 0  BY <1>2
<1> HIDE DEF MaxSamples, Rescale, U16, U32
<1>4. CheckWavParameters(1, OutRate, kWavFormatPcm, kBytesPerSample, Rescale(n))
  BY <1>1, <1>2, <1>3 DEF CheckWavParameters, FormatAgrees, kWavFormatPcm,
                          kBytesPerSample
<1>5. WriteWavHeader(1, OutRate, kWavFormatPcm, kBytesPerSample, Rescale(n))
        \in Header
  BY <1>1, <1>2, WrittenType DEF kWavFormatPcm
<1> QED  BY <1>4, <1>5

-----------------------------------------------------------------------------
(* Every step keeps the invariant. *)

LEMMA Initially == Init => IInv
<1> SUFFICES ASSUME Init PROVE IInv
  OBVIOUS
<1>1. StaleFile \in File /\ StaleFile.there
  <2>1. 1 < U16 /\ OutRate \in Nat /\ OutRate < U32
    BY ConvertAssumption, WidthIsNat DEF channels, kBytesPerSample
  <2>2. WriteWavHeader(1, OutRate, kWavFormatPcm, kBytesPerSample, 2) \in Header
    BY <2>1, WrittenType DEF kWavFormatPcm
  <2> QED  BY <2>2 DEF StaleFile, File
<1>2. TypeOK
  <2>1. input.duration \in Nat  BY ConvertAssumption DEF Init
  <2>2. /\ tmp \in File /\ out \in File
        /\ \A f \in {tmp, out} : f.there \/ f = NoFile
    BY <1>1, FilesType DEF Init
  <2>3. todo \in 0 .. input.duration /\ total \in 0 .. input.duration - todo
    BY <2>1 DEF Init
  <2>4. /\ broken \in BOOLEAN /\ failbit \in BOOLEAN /\ pc \in Steps
        /\ ret \in {0, 1} /\ inCount \in Nat /\ taken \in Nat
    BY DEF Init, Steps
  <2> QED  BY <2>2, <2>3, <2>4 DEF Init, TypeOK
<1> QED
  BY <1>2
  DEF Init, IInv, Sound, Headed, Counted, Opened, Handed, Behind, Converting

LEMMA OpenOutputKeeps == ASSUME IInv, OpenOutput PROVE IInv'
<1>1. TypeOK'
  BY FilesType DEF IInv, TypeOK, OpenOutput, Return, Steps, stream
<1> QED
  BY <1>1, FilesType
  DEF IInv, Sound, Headed, Counted, Opened, Handed, Behind, Converting,
      OpenOutput, Return, stream, Declares, Declared

LEMMA OpenInputKeeps == ASSUME IInv, OpenInput PROVE IInv'
<1>1. TypeOK'
  BY DEF IInv, TypeOK, OpenInput, Return, Steps, stream
<1> QED
  BY <1>1
  DEF IInv, Sound, Headed, Counted, Opened, Handed, Behind, Converting,
      OpenInput, Return, stream, Declares, Declared

LEMMA WriteHeaderKeeps == ASSUME IInv, WriteHeader PROVE IInv'
<1>1. tmp \in File /\ tmp.there /\ Declared \in Nat /\ total \in Nat
  BY Lengths DEF IInv, TypeOK, Headed, WriteHeader
<1> DEFINE g == Put(tmp, NewHeader(Declared), 0)
<1>2. g \in File /\ g.there /\ g.header = NewHeader(Declared) /\ g.samples = 0
  BY <1>1, NewHeaderType, PutType
<1>3. (tmp' = g /\ pc' = "loop") \/ (tmp' = tmp /\ pc' = "aborted")
  BY DEF WriteHeader, Abort, HeaderFits, CheckWavParameters
<1> HIDE DEF g
<1>4. TypeOK'
  BY <1>2, <1>3 DEF IInv, TypeOK, WriteHeader, Steps, stream
<1>5. Declared' = Declared  BY DEF Declared, WriteHeader
<1>6. pc' = "loop" => Declares(tmp.header)'
  BY <1>2, <1>3, <1>5, FirstHeader DEF Declares
<1> QED
  BY <1>1, <1>2, <1>3, <1>4, <1>6
  DEF IInv, Sound, Headed, Counted, Opened, Handed, Behind, Converting,
      WriteHeader, stream, channels

LEMMA ReadHoleKeeps == ASSUME IInv, ReadHole PROVE IInv'
<1>1. TypeOK'
  BY Lengths, ConvertAssumption DEF IInv, TypeOK, ReadHole
<1> QED
  BY <1>1
  DEF IInv, Sound, Headed, Counted, Opened, Handed, Behind, Converting,
      ReadHole, Declares, Declared

LEMMA ReadErrorKeeps == ASSUME IInv, ReadError PROVE IInv'
<1>1. TypeOK'
  BY DEF IInv, TypeOK, ReadError, Steps
<1> QED
  BY <1>1
  DEF IInv, Sound, Headed, Counted, Opened, Handed, Behind, Converting,
      ReadError, Declares, Declared

LEMMA ReadEndKeeps == ASSUME IInv, ReadEnd PROVE IInv'
<1>1. TypeOK'
  BY DEF IInv, TypeOK, ReadEnd, Steps, stream
<1> QED
  BY <1>1
  DEF IInv, Sound, Headed, Counted, Opened, Handed, Behind, Converting,
      ReadEnd, stream, Declares, Declared

LEMMA ReadBlockKeeps == ASSUME IInv, ReadBlock PROVE IInv'
<1>1. tmp \in File /\ tmp.there /\ total \in Nat /\ todo \in Nat
      /\ tmp.samples <= 2 * total /\ tmp.samples \in Nat
  BY Lengths DEF IInv, TypeOK, Headed, ReadBlock, Counted, Sound, channels, File
<1>2. PICK n \in 1 .. MaxBlock :
        /\ n <= todo /\ todo' = todo - n
        /\ \/ /\ tmp' = Grown(tmp, n) /\ total' = total + n
              /\ UNCHANGED <<pc, failbit, ret>>
           \/ /\ Faults /\ tmp' \in Cuts(Grown(tmp, n))
              /\ failbit' = TRUE /\ ret' = 1 /\ pc' = "finish"
              /\ UNCHANGED total
  BY DEF ReadBlock
<1> DEFINE g == Grown(tmp, n)
<1>3. n \in Nat  BY <1>2, ConvertAssumption
<1>4. g \in File /\ g.there /\ g.header = tmp.header
      /\ g.samples = tmp.samples + 2 * n
  <2> HIDE DEF Header
  <2> QED  BY <1>1, <1>3 DEF Grown, File, channels
<1> HIDE DEF g
<1>5. tmp' \in File /\ tmp'.there
      /\ (tmp'.header = tmp.header
          \/ (tmp'.header = BlankHeader /\ pc' = "finish" /\ failbit'))
  BY <1>2, <1>4, CutFiles DEF Left, g
<1>6. ret' = 0 => /\ tmp'.samples <= 2 * total' /\ pc' = "loop"
                  /\ tmp'.header = tmp.header
  BY <1>1, <1>2, <1>3, <1>4 DEF ReadBlock, g
<1>7. TypeOK'
  <2>1. /\ todo' \in 0 .. input.duration
        /\ total' \in 0 .. input.duration - todo'
    BY <1>2, <1>3, Lengths DEF IInv, TypeOK
  <2>2. /\ pc' \in Steps /\ failbit' \in BOOLEAN /\ ret' \in {0, 1}
    BY <1>2 DEF IInv, TypeOK, Steps
  <2> QED  BY <1>5, <2>1, <2>2 DEF IInv, TypeOK, ReadBlock
<1>8. Declares(tmp.header)' = Declares(tmp'.header)
  BY DEF Declares, Declared, ReadBlock
<1> QED
  BY <1>2, <1>5, <1>6, <1>7, <1>8
  DEF IInv, Sound, Headed, Counted, Opened, Handed, Behind, Converting,
      ReadBlock, channels

\* What FinishDecode leaves of the temporary, whichever way it ends.
LEMMA FinishedFile ==
  ASSUME IInv, FinishDecode
  PROVE  /\ tmp' \in File /\ tmp'.there /\ tmp'.samples <= tmp.samples
         /\ pc' # "aborted" /\ ret' = 0 =>
              tmp'.header = BlankHeader \/ Declares(tmp'.header)
<1>1. tmp \in File /\ tmp.there /\ total \in Nat
  BY Lengths DEF IInv, TypeOK, Headed, FinishDecode
<1> DEFINE h == PrintedOver(tmp.header, NewHeader(total))
           f == [tmp EXCEPT !.header = h]
<1>2. /\ h \in Header
      /\ h.dataSize = tmp.header.dataSize /\ h.bits = tmp.header.bits
  BY <1>1, NewHeaderType, PrintedKeeps DEF File
<1> HIDE DEF h
<1>3. /\ f \in File /\ f.there /\ f.samples = tmp.samples /\ f.header = h
  BY <1>1, <1>2 DEF File
<1>4. ~failbit => Declares(tmp.header) /\ Declares(h)
  BY <1>2 DEF IInv, Headed, FinishDecode, Declares
<1>5. /\ \A g \in Cuts(tmp) : Left(tmp, g)
      /\ \A g \in Closed(tmp) : Left(tmp, g)
      /\ \A g \in Closed(f) : Left(f, g)
  BY <1>1, <1>3, CutFiles
<1>6. \/ tmp' \in Cuts(tmp) /\ pc' = "aborted"
      \/ tmp' \in Closed(tmp) /\ UNCHANGED <<failbit, ret>>
      \/ tmp' \in Closed(f) /\ ~failbit
      \/ tmp' \in Closed(tmp) /\ ret' = 1
  BY DEF FinishDecode, Abort, HeaderFits, CheckWavParameters, h
<1> HIDE DEF f
<1>7. failbit => ret = 1
  BY DEF IInv, TypeOK, FinishDecode, Sound
<1> QED  BY <1>3, <1>4, <1>5, <1>6, <1>7 DEF Left

LEMMA FinishDecodeKeeps == ASSUME IInv, FinishDecode PROVE IInv'
<1>1. TypeOK'
  <2>1. failbit' \in BOOLEAN /\ ret' \in {0, 1}
    BY DEF IInv, TypeOK, FinishDecode
  <2>2. pc' \in Steps
    BY DEF FinishDecode, Return, Abort, Steps
  <2> QED
    BY <2>1, <2>2, FinishedFile DEF IInv, TypeOK, FinishDecode, stream
<1>2. /\ pc' \in {"resample", "returned", "aborted"}
      /\ pc' = "resample" => ret' = 0
  BY DEF FinishDecode, Return, Abort
<1>3. ret' = 0 => ret = 0
  BY DEF IInv, TypeOK, FinishDecode
<1>4. pc' = "resample" => tmp'.samples <= channels * total
  BY <1>2, <1>3, FinishedFile, Lengths
  DEF IInv, Counted, FinishDecode, channels, TypeOK, File
<1>5. Declares(tmp.header)' <=> Declares(tmp'.header)
  BY DEF Declares, Declared, FinishDecode
<1> QED
  BY <1>1, <1>2, <1>3, <1>4, <1>5, FinishedFile
  DEF IInv, Sound, Headed, Counted, Opened, Handed, Behind, Converting,
      FinishDecode, stream, channels

LEMMA OpenReaderKeeps == ASSUME IInv, OpenReader PROVE IInv'
<1>1. \/ pc' \in {"aborted", "returned"}
      \/ /\ pc' = "read" /\ ReaderAccepts(tmp.header)
         /\ ReadNumSamples(tmp.header) # 0
  BY DEF OpenReader, Return, Abort
<1>2. TypeOK'
  BY <1>1 DEF IInv, TypeOK, OpenReader, Steps, stream
<1> QED
  BY <1>1, <1>2
  DEF IInv, Sound, Headed, Counted, Opened, Handed, Behind, Converting,
      OpenReader, stream, Declares, Declared

LEMMA ReadAndConvertKeeps == ASSUME IInv, ReadAndConvert PROVE IInv'
<1> DEFINE n == ReadNumSamples(tmp.header)
<1>1. n \in Nat /\ tmp.samples \in Nat
  BY AcceptedCount DEF IInv, TypeOK, Handed, ReadAndConvert, File
<1>2. \/ /\ pc' = "openout" /\ n <= tmp.samples /\ taken' = n /\ inCount' = n
      \/ pc' \in {"returned", "aborted"} /\ UNCHANGED <<inCount, taken>>
  <2> HIDE DEF n
  <2>1. ReadAndConvert =>
          LET read == IF n <= tmp.samples THEN n ELSE tmp.samples
          IN \/ read = n /\ taken' = read /\ inCount' = n /\ pc' = "openout"
             \/ pc' \in {"returned", "aborted"} /\ UNCHANGED <<inCount, taken>>
    BY DEF ReadAndConvert, Return, Abort, n
  <2> QED  BY <1>1, <2>1
<1>3. TypeOK'
  BY <1>1, <1>2 DEF IInv, TypeOK, ReadAndConvert, Steps, stream
<1> QED
  BY <1>1, <1>2, <1>3
  DEF IInv, Sound, Headed, Counted, Opened, Handed, Behind, Converting,
      ReadAndConvert, stream, Declares, Declared

LEMMA OpenOutKeeps == ASSUME IInv, OpenOut PROVE IInv'
<1>1. TypeOK'
  BY FilesType DEF IInv, TypeOK, OpenOut, Return, Steps, stream
<1> QED
  BY <1>1, FilesType
  DEF IInv, Sound, Headed, Counted, Opened, Handed, Behind, Converting,
      OpenOut, Return, stream, Declares, Declared

\* What WriteOut leaves of the output.
LEMMA WrittenOut ==
  ASSUME IInv, WriteOut
  PROVE  out' \in File /\ out'.there /\ pc' \in {"remove", "returned"}
<1> DEFINE n == Rescale(inCount)
           f == Put(out, WriteWavHeader(1, OutRate, kWavFormatPcm,
                                        kBytesPerSample, n), n)
<1>1. inCount \in Nat /\ inCount <= MaxSamples(2)
  BY AcceptedCount DEF IInv, TypeOK, Handed, Converting, WriteOut, File
<1>2. f \in File /\ f.there
  BY <1>1, OutputFits, RescaleIsSmaller, PutType
  DEF IInv, TypeOK, Opened, WriteOut
<1>3. CheckWavParameters(1, OutRate, kWavFormatPcm, kBytesPerSample, n)
  BY <1>1, OutputFits
<1>4. \/ pc' = "remove" /\ out' \in Closed(f)
      \/ pc' = "returned" /\ out' \in Cuts(f)
  <2> HIDE DEF n
  <2> QED  BY <1>3 DEF WriteOut, Return, n
<1> HIDE DEF f
<1> QED  BY <1>2, <1>4, CutFiles DEF Left

LEMMA WriteOutKeeps == ASSUME IInv, WriteOut PROVE IInv'
<1>1. TypeOK'
  BY WrittenOut DEF IInv, TypeOK, WriteOut, Steps, stream
<1> QED
  BY <1>1, WrittenOut
  DEF IInv, Sound, Headed, Counted, Opened, Handed, Behind, Converting,
      WriteOut, stream, Declares, Declared

LEMMA RemoveTmpKeeps == ASSUME IInv, RemoveTmp PROVE IInv'
<1>1. TypeOK'
  BY FilesType DEF IInv, TypeOK, RemoveTmp, Return, Steps, stream
<1> QED
  BY <1>1
  DEF IInv, Sound, Headed, Counted, Opened, Handed, Behind, Converting,
      RemoveTmp, Return, stream, Declares, Declared

THEOREM Inductive == Spec => []IInv
<1>1. ASSUME IInv, [Next]_vars PROVE IInv'
  <2>1. CASE Step
    BY <1>1, <2>1, OpenOutputKeeps, OpenInputKeeps, WriteHeaderKeeps,
       ReadHoleKeeps, ReadErrorKeeps, ReadEndKeeps, ReadBlockKeeps,
       FinishDecodeKeeps, OpenReaderKeeps, ReadAndConvertKeeps, OpenOutKeeps,
       WriteOutKeeps, RemoveTmpKeeps
    DEF Step
  <2>2. CASE UNCHANGED vars
    <3>1. TypeOK'  BY <1>1, <2>2 DEF vars, IInv, TypeOK
    <3> QED
      BY <1>1, <2>2, <3>1
      DEF vars, IInv, Sound, Headed, Counted, Opened, Handed, Behind,
          Converting, Declares, Declared
  <2> QED  BY <1>1, <2>1, <2>2 DEF Next, Done
<1> QED  BY Initially, <1>1, PTL DEF Spec

-----------------------------------------------------------------------------
(* The theorems. *)

\* Every variable keeps its type; no header field overflows its width, and the
\* samples counted and still to come are no more than the duration
\* (opusfile_adapter.cc:161-219).
THEOREM TypeCorrect == Spec => []TypeOK
<1>1. IInv => TypeOK  BY DEF IInv
<1> QED  BY <1>1, Inductive, PTL

\* What is converted is all that was decoded of an input that was decoded to its
\* end, as long as the bytes of the longest input fit the data size
\* (opusfile_adapter.cc:220-257, resampler.cc:31-63): a longer one declares what
\* is left of its size modulo 2^32, of which a part of the input may be enough.
THEOREM ConvertsCorrect ==
  ASSUME channels * kBytesPerSample * MaxDuration < U32
  PROVE  Spec => []ConvertsWhatWasDecoded
<1>1. IInv => ConvertsWhatWasDecoded
  <2> SUFFICES ASSUME IInv, Converting
               PROVE  /\ ret = 0 /\ ~broken /\ total = input.duration
                      /\ taken = channels * total /\ input.seekable
    BY DEF ConvertsWhatWasDecoded
  <2> DEFINE n == ReadNumSamples(tmp.header)
  <2>1. ret = 0 /\ ~broken /\ tmp.samples <= 2 * total /\ tmp.samples \in Nat
    BY DEF IInv, Converting, Behind, Sound, Counted, channels, TypeOK, File
  <2>2. /\ ReaderAccepts(tmp.header) /\ n # 0 /\ taken = n /\ n <= tmp.samples
    BY DEF IInv, Handed
  <2>3. Declares(tmp.header)
    BY <2>2, BlankIsRefused DEF IInv, Headed, Converting, Behind
  <2>4. /\ Declared \in Nat /\ Declared <= input.duration
        /\ input.duration \in Nat /\ input.duration <= MaxDuration
        /\ total \in Nat /\ total <= input.duration /\ MaxDuration \in Nat
    BY Lengths DEF IInv, TypeOK
  <2>5. 4 * Declared \in Nat /\ 4 * Declared < U32 /\ U32 \in Nat
    BY <2>4, WidthIsNat DEF channels, kBytesPerSample
  <2>6. tmp.header.dataSize = 4 * Declared
    BY <2>3, <2>5, SmallRemainder DEF Declares, channels, kBytesPerSample
  <2>7. n = (4 * Declared) \div 2
    BY <2>2, <2>6, AcceptedCount DEF IInv, TypeOK, File
  <2>8. n = 2 * Declared  BY <2>4, <2>7
  <2> HIDE DEF n
  <2>9. Declared = input.duration /\ input.seekable
    BY <2>2, <2>8 DEF Declared
  <2> QED  BY <2>1, <2>2, <2>4, <2>8, <2>9 DEF channels
<1> QED  BY <1>1, Inductive, PTL

-----------------------------------------------------------------------------
(* The refinement. *)

Shapes == {"invalid", "nodata", "whole"}

LEMMA ShapesAre ==
  ASSUME NEW f
  PROVE  /\ ShapeOf(f) \in Shapes \cup {"absent"}
         /\ f.there => ShapeOf(f) \in Shapes
         /\ ShapeOf(EmptyFile) = "invalid" /\ ShapeOf(NoFile) = "absent"
  BY BlankIsRefused DEF ShapeOf, Shapes, EmptyFile, NoFile

LEMMA StageIs ==
  /\ StageOf["call"] = "call"
  /\ \A s \in {"openin", "header", "loop", "finish"} : StageOf[s] = "decode"
  /\ StageOf["resample"] = "decoded" /\ StageOf["read"] = "decoded"
  /\ StageOf["openout"] = "convert" /\ StageOf["writeout"] = "write"
  /\ StageOf["remove"] = "written"
  /\ StageOf["returned"] = "returned" /\ StageOf["aborted"] = "aborted"
<1>1. \A s \in Steps :
        StageOf[s] =
          CASE s \in {"openin", "header", "loop", "finish"} -> "decode"
            [] s \in {"resample", "read"} -> "decoded"
            [] s = "openout"  -> "convert"
            [] s = "writeout" -> "write"
            [] s = "remove"   -> "written"
            [] OTHER          -> s
  BY Zenon DEF StageOf
<1> QED  BY <1>1 DEF Steps

\* The shape of the file a call reads tells whether it may be converted.
LEMMA AcceptedShape ==
  ASSUME IInv, pc = "read"
  PROVE  /\ ShapeOf(tmp) # "invalid"
         /\ ReadNumSamples(tmp.header) <= tmp.samples => ShapeOf(tmp) = "whole"
<1>1. /\ ReadNumSamples(tmp.header) \in Nat /\ ReadNumSamples(tmp.header) # 0
      /\ tmp.samples \in Nat /\ tmp.there /\ ReaderAccepts(tmp.header)
  BY AcceptedCount DEF IInv, TypeOK, Handed, Headed, File
<1> QED  BY <1>1 DEF ShapeOf

LEMMA DecodeSteps ==
  ASSUME IInv, IInv', NEW from \in {"openin", "header", "loop", "finish"},
         pc = from, UNCHANGED out,
         pc' \in {"openin", "header", "loop", "finish", "resample", "returned",
                  "aborted"},
         tmp'.there
  PROVE  Abstract!Decode
  BY ShapesAre, StageIs DEF Abstract!Decode, Abstract!Shape, Shapes

LEMMA StepRefines ==
  ASSUME IInv, IInv', Step
  PROVE  [Abstract!Next]_(Abstract!vars)
<1>1. CASE OpenOutput
  BY <1>1, ShapesAre, StageIs
  DEF OpenOutput, Return, Abstract!Next, Abstract!Open
<1>2. CASE OpenInput \/ WriteHeader \/ ReadHole \/ ReadError \/ ReadEnd
  <2>1. /\ pc \in {"openin", "header", "loop"} /\ UNCHANGED out
        /\ pc' \in {"openin", "header", "loop", "finish", "returned", "aborted"}
    BY <1>2
    DEF OpenInput, WriteHeader, ReadHole, ReadError, ReadEnd, Return, Abort
  <2>2. tmp'.there
    BY <1>2 DEF IInv, Headed, TypeOK, File, OpenInput, WriteHeader, ReadHole,
                ReadError, ReadEnd, Put
  <2> QED  BY <2>1, <2>2, DecodeSteps DEF Abstract!Next
<1>3. CASE ReadBlock
  <2>1. pc = "loop" /\ UNCHANGED out /\ pc' \in {"loop", "finish"}
    BY <1>3 DEF ReadBlock
  <2>2. tmp'.there  BY <2>1 DEF IInv, Headed
  <2> QED  BY <2>1, <2>2, DecodeSteps DEF Abstract!Next
<1>4. CASE FinishDecode
  <2>1. /\ pc = "finish" /\ UNCHANGED out
        /\ pc' \in {"resample", "returned", "aborted"}
    BY <1>4 DEF FinishDecode, Return, Abort
  <2>2. tmp'.there  BY <1>4, FinishedFile
  <2> QED  BY <2>1, <2>2, DecodeSteps DEF Abstract!Next
<1>5. CASE OpenReader
  <2>1. pc = "resample" /\ tmp.there /\ UNCHANGED <<tmp, out>>
    BY <1>5 DEF OpenReader, IInv, Headed
  <2>2. \/ pc' = "aborted" /\ ~ReaderAccepts(tmp.header)
        \/ pc' = "returned" /\ ReaderAccepts(tmp.header)
        \/ pc' = "read"
    BY <1>5 DEF OpenReader, Return, Abort
  <2>3. ShapeOf(tmp) = "invalid" <=> ~ReaderAccepts(tmp.header)
    BY <2>1 DEF ShapeOf
  <2> QED
    BY <2>1, <2>2, <2>3, StageIs
    DEF Abstract!Next, Abstract!Resample, Abstract!vars
<1>6. CASE ReadAndConvert
  <2>1. pc = "read" /\ UNCHANGED <<tmp, out>>
    BY <1>6 DEF ReadAndConvert
  <2>2. \/ pc' = "openout" /\ ReadNumSamples(tmp.header) <= tmp.samples
        \/ pc' \in {"returned", "aborted"}
    <3>1. CASE pc' = "openout"
      <4>1. taken' <= tmp'.samples /\ taken' = ReadNumSamples(tmp'.header)
        BY <3>1 DEF IInv, Handed, Converting
      <4> QED  BY <2>1, <3>1, <4>1
    <3> QED  BY <1>6, <3>1 DEF ReadAndConvert, Return, Abort
  <2> QED
    BY <2>1, <2>2, AcceptedShape, StageIs DEF Abstract!Next, Abstract!Resample
<1>7. CASE OpenOut
  BY <1>7, ShapesAre, StageIs
  DEF OpenOut, Return, Abstract!Next, Abstract!OpenOut
<1>8. CASE WriteOut
  <2>1. pc = "writeout" /\ UNCHANGED tmp  BY <1>8 DEF WriteOut
  <2>2. out'.there /\ pc' \in {"remove", "returned"}  BY <1>8, WrittenOut
  <2>3. ShapeOf(out') \in Shapes  BY <2>2, ShapesAre
  <2> QED
    BY <2>1, <2>2, <2>3, StageIs
    DEF Abstract!Next, Abstract!WriteOut, Abstract!Shape, Shapes
<1>9. CASE RemoveTmp
  BY <1>9, ShapesAre, StageIs
  DEF RemoveTmp, Return, Abstract!Next, Abstract!Remove
<1> QED
  BY <1>1, <1>2, <1>3, <1>4, <1>5, <1>6, <1>7, <1>8, <1>9 DEF Step

\* A call does to its two files what module Conversion says, step for step, for
\* inputs of any length: the contract that VoipRate's runs convert by
\* (opusfile_adapter.cc:102-257, resampler.cc:24-148).
THEOREM ImplementsConversion == Spec => KeepsConversion
<1>1. Init => Abstract!Init
  BY ShapesAre, StageIs
  DEF Init, Abstract!Init, Abstract!FileShape, Abstract!Shape, Shapes
<1>2. IInv /\ IInv' /\ [Next]_vars => [Abstract!Next]_(Abstract!vars)
  <2> SUFFICES ASSUME IInv, IInv', [Next]_vars
               PROVE  [Abstract!Next]_(Abstract!vars)
    OBVIOUS
  <2>1. CASE Step  BY <2>1, StepRefines
  <2>2. CASE UNCHANGED vars  BY <2>2 DEF vars, Abstract!vars
  <2> QED  BY <2>1, <2>2 DEF Next, Done
<1> QED  BY <1>1, <1>2, Inductive, PTL DEF Spec, KeepsConversion, Abstract!Spec

-----------------------------------------------------------------------------
(* The steps that are left. *)

\* An upper bound of the steps that are left: those behind the one that is due,
\* and a round of the loop of opus_decode for each frame and each hole.
StepsLeft ==
  LET rank == [call |-> 10, openin |-> 9, header |-> 8, loop |-> 7, finish |-> 6,
               resample |-> 5, read |-> 4, openout |-> 3, writeout |-> 2,
               remove |-> 1, returned |-> 0, aborted |-> 0]
  IN rank[pc] + todo + holes

\* Every step uses up one of them at least: a round of the loop of opus_decode
\* takes frames or a hole from the input or leaves the loop, an error that the
\* library repeats included, and no other step of the call is taken up again.
UsesUpSteps == [][StepsLeft' \in 0 .. StepsLeft - 1]_vars

\* The steps behind the one that is due.
Rank(p) ==
  CASE p = "call"     -> 10
    [] p = "openin"   -> 9
    [] p = "header"   -> 8
    [] p = "loop"     -> 7
    [] p = "finish"   -> 6
    [] p = "resample" -> 5
    [] p = "read"     -> 4
    [] p = "openout"  -> 3
    [] p = "writeout" -> 2
    [] p = "remove"   -> 1
    [] OTHER          -> 0

LEMMA StepsLeftIs ==
  /\ pc \in Steps => StepsLeft = Rank(pc) + todo + holes
  /\ pc' \in Steps => StepsLeft' = Rank(pc') + todo' + holes'
<1>1. ASSUME pc \in Steps PROVE StepsLeft = Rank(pc) + todo + holes
  BY <1>1 DEF StepsLeft, Rank, Steps
<1>2. ASSUME pc' \in Steps PROVE StepsLeft' = Rank(pc') + todo' + holes'
  BY <1>2 DEF StepsLeft, Rank, Steps
<1> QED  BY <1>1, <1>2

LEMMA EveryStepCounts ==
  ASSUME IInv, Step
  PROVE  StepsLeft' \in 0 .. StepsLeft - 1
<1>1. todo \in Nat /\ holes \in Nat
  BY ConvertAssumption DEF IInv, TypeOK
<1>2. CASE ReadHole
  <2>1. pc = "loop" /\ pc' = "loop" /\ holes > 0 /\ holes' = holes - 1
    BY <1>2 DEF ReadHole
  <2>2. PICK t \in 0 .. todo : t = todo'  BY <1>2 DEF ReadHole
  <2>3. StepsLeft = 7 + todo + holes /\ StepsLeft' = 7 + t + (holes - 1)
    BY <2>1, <2>2, StepsLeftIs DEF Steps, Rank
  <2> QED  BY <1>1, <2>1, <2>3
<1>3. CASE ReadBlock
  <2>1. /\ pc = "loop" /\ pc' \in {"loop", "finish"} /\ holes' = holes
        /\ todo' \in 0 .. todo - 1
    <3>1. \E k \in 1 .. MaxBlock : k <= todo /\ todo' = todo - k
      BY <1>3 DEF ReadBlock
    <3>2. todo' \in 0 .. todo - 1  BY <1>1, <3>1, ConvertAssumption
    <3> QED  BY <1>3, <3>2 DEF ReadBlock
  <2>2. /\ StepsLeft = 7 + todo + holes
        /\ \/ StepsLeft' = 7 + todo' + holes \/ StepsLeft' = 6 + todo' + holes
    BY <2>1, StepsLeftIs DEF Steps, Rank
  <2> QED  BY <1>1, <2>1, <2>2
<1>4. CASE ~ReadHole /\ ~ReadBlock
  <2>1. /\ todo' = todo /\ holes' = holes
        /\ pc' \in Steps /\ pc \in Steps
        /\ \/ pc = "call" /\ pc' \in {"openin", "returned"}
           \/ pc = "openin" /\ pc' \in {"header", "returned"}
           \/ pc = "header" /\ pc' \in {"loop", "aborted"}
           \/ pc = "loop" /\ pc' = "finish"
           \/ pc = "finish" /\ pc' \in {"resample", "returned", "aborted"}
           \/ pc = "resample" /\ pc' \in {"read", "returned", "aborted"}
           \/ pc = "read" /\ pc' \in {"openout", "returned", "aborted"}
           \/ pc = "openout" /\ pc' \in {"writeout", "returned"}
           \/ pc = "writeout" /\ pc' \in {"remove", "returned", "aborted"}
           \/ pc = "remove" /\ pc' = "returned"
    BY <1>4
    DEF Step, OpenOutput, OpenInput, WriteHeader, ReadError, ReadEnd,
        FinishDecode, OpenReader, ReadAndConvert, OpenOut, WriteOut, RemoveTmp,
        Return, Abort, stream, Steps
  <2>2. Rank(pc') \in 0 .. Rank(pc) - 1
    BY <2>1 DEF Rank
  <2>3. Rank(pc) \in Nat  BY DEF Rank
  <2>4. StepsLeft = Rank(pc) + todo + holes /\ StepsLeft' = Rank(pc') + todo + holes
    BY <2>1, StepsLeftIs
  <2> QED  BY <1>1, <2>2, <2>3, <2>4
<1> QED  BY <1>2, <1>3, <1>4

\* UsesUpSteps: opus_decode_mono_16khz comes to an end whatever the library and
\* the disk answer: a round of the loop of opus_decode (opusfile_adapter.cc:172)
\* takes frames or a hole from the input or leaves it, and every other step is
\* taken once at most.
THEOREM StepsUsedUp == Spec => UsesUpSteps
<1>1. ASSUME IInv, [Next]_vars PROVE [StepsLeft' \in 0 .. StepsLeft - 1]_vars
  BY <1>1, EveryStepCounts DEF Next, Done
<1> QED  BY <1>1, Inductive, PTL DEF Spec, UsesUpSteps
=============================================================================
