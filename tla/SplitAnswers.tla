---------------------------- MODULE SplitAnswers -----------------------------
(***************************************************************************)
(* What utterance_split of PESQ-MOS/pesqmod.c and split_align of pesqdsp.c *)
(* expect of one another: which utterances the one hands to the other, and *)
(* what an answer that is trusted has to be.                               *)
(*                                                                         *)
(* An utterance is given by its limits and by those of its speech, all in  *)
(* windows; an answer is the break point, the estimates ed1 and ed2 of     *)
(* crude_align for the two parts, and their delays d1 and d2, in samples.  *)
(***************************************************************************)
EXTENDS Integers

CONSTANTS
  Downsample,  \* samples of a window
  Align_Nfft,  \* samples of a frame
  Pad          \* 75: windows a break point keeps from either end

Greater(a, b) == IF a > b THEN a ELSE b
Lesser(a, b)  == IF a < b THEN a ELSE b

\* Speech inside the utterance, with room for a pad on either side.
Splittable(u) ==
  /\ u.start <= u.speechStart /\ u.speechEnd <= u.end + 1
  /\ u.speechEnd - u.speechStart > 2 * Pad

\* What a histogram of a frame's samples may add to an estimate.
Fine == -(Align_Nfft \div 2) .. (Align_Nfft \div 2) - 1

\* There is a frame to compare in front of the break point, looked for from the
\* start of the utterance, and one behind it, looked for from its end.
HasFramesBefore(u, degraded, bp, est) ==
  LET startr == Greater(u.start * Downsample, -est)
  IN /\ startr + est + Align_Nfft <= degraded
     /\ startr + Align_Nfft <= bp * Downsample
HasFramesBehind(u, degraded, bp, est) ==
  LET startr == Lesser(u.end * Downsample, degraded - est) - Align_Nfft
  IN startr + est >= 0 /\ startr >= bp * Downsample

\* Two delays a window apart at least, either found in frames of its own part.
Usable(u, degraded, a) ==
  /\ a.bp \in u.speechStart + Pad .. u.speechEnd - Pad
  /\ HasFramesBefore(u, degraded, a.bp, a.ed1) /\ a.d1 - a.ed1 \in Fine
  /\ HasFramesBehind(u, degraded, a.bp, a.ed2) /\ a.d2 - a.ed2 \in Fine
  /\ a.d2 - a.d1 >= Downsample \/ a.d1 - a.d2 >= Downsample
=============================================================================
