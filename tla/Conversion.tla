----------------------------- MODULE Conversion ------------------------------
(***************************************************************************)
(* What one call of opus_decode_mono_16khz does to the two WAV files it    *)
(* names, as its caller can rely on it: the 48 kHz temporary and the mono  *)
(* 16 kHz output, each seen only by its shape.  OpusConvert is shown to    *)
(* implement this specification, and the processes of VoipRate convert     *)
(* their inputs by its rules.                                              *)
(*                                                                         *)
(*   absent   no such file                                                 *)
(*   invalid  a reader would abort on it: empty, or a header that          *)
(*            ReadWavHeader refuses                                        *)
(*   nodata   a valid header that declares no samples, or more than the    *)
(*            file holds                                                   *)
(*   whole    a valid header and all the samples it declares               *)
(***************************************************************************)

Shape     == {"invalid", "nodata", "whole"}
FileShape == Shape \cup {"absent"}
Stages    == {"call", "decode", "decoded", "convert", "write", "written",
              "returned", "aborted"}

VARIABLES stage, tmp, out

vars == <<stage, tmp, out>>

TypeOK == stage \in Stages /\ tmp \in FileShape /\ out \in FileShape

\* The directory may hold files of an earlier run under both names.
Init == stage = "call" /\ tmp \in FileShape /\ out \in FileShape

\* Opening the temporary truncates it; it may also fail.
Open ==
  /\ stage = "call"
  /\ \/ stage' = "decode" /\ tmp' = "invalid"
     \/ stage' = "returned" /\ UNCHANGED tmp
  /\ UNCHANGED out

\* The file grows, and may end with any shape whatever is returned: the
\* header is written first and from the declared duration.
Decode ==
  /\ stage = "decode"
  /\ stage' \in {"decode", "decoded", "returned", "aborted"}
  /\ tmp' \in Shape
  /\ UNCHANGED out

\* Only a whole temporary is ever converted.
Resample ==
  /\ stage = "decoded"
  /\ \/ tmp = "invalid" /\ stage' = "aborted"
     \/ tmp # "invalid" /\ stage' \in {"returned", "aborted"}
     \/ tmp = "whole" /\ stage' = "convert"
  /\ UNCHANGED <<tmp, out>>

\* The output is left alone until there is something to write to it.
OpenOut ==
  /\ stage = "convert"
  /\ \/ stage' = "write" /\ out' = "invalid"
     \/ stage' = "returned" /\ UNCHANGED out
  /\ UNCHANGED tmp

\* Bytes that are lost when the stream is closed are not reported.  The CHECK
\* of the output's header cannot fail: a mono header holds what a reader let
\* through.
WriteOut ==
  /\ stage = "write"
  /\ stage' \in {"written", "returned"}
  /\ out' \in Shape
  /\ UNCHANGED tmp

Remove ==
  /\ stage = "written"
  /\ stage' = "returned"
  /\ tmp' = "absent"
  /\ UNCHANGED out

Next == Open \/ Decode \/ Resample \/ OpenOut \/ WriteOut \/ Remove

Spec == Init /\ [][Next]_vars
=============================================================================
