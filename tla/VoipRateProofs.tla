--------------------------- MODULE VoipRateProofs ----------------------------
(***************************************************************************)
(* The safety properties of VoipRate, for any number of runs on any        *)
(* inputs, any of which may be killed or meet a full disk.                 *)
(*                                                                         *)
(* IInv is the inductive invariant.  Its middle is the link between a name *)
(* and the file behind it: a file called Mono[n] was created by a run on   *)
(* n, so that a run that has such a file open, linked or not, works on n   *)
(* (Linked, Opened).  From it follows that every run whose bytes are in a  *)
(* file that still has its name owes the removal of that name (Owed), and  *)
(* so cannot have ended normally: what a run loads is never the work of a  *)
(* run that had ended before it started (Loading).                         *)
(***************************************************************************)
EXTENDS VoipRate, TLAPS

\* The file i was created under the name that conversion of n gives it.
FileOf(i, n, kind) ==
  \E q \in Proc, s \in Slot : Arg[q][s] = n /\ i = <<q, s, kind>>

Linked ==
  \A n \in Input :
    /\ dir[n] = n
    /\ dir[Tmp[n]] = None \/ FileOf(dir[Tmp[n]], n, "tmp")
    /\ dir[Mono[n]] = None \/ FileOf(dir[Mono[n]], n, "mono")

Opened ==
  \A p \in Proc :
    /\ pc[p] \in {"openin", "decode"} => FileOf(handle[p], In(p), "tmp")
    /\ pc[p] = "write" => FileOf(handle[p], In(p), "mono")

\* Every writer of a file that has its name, and its creator, owe its removal.
Owed ==
  \A n \in Input : dir[Mono[n]] # None =>
    /\ \E p \in Proc : Owes(p, n)
    /\ \A q \in by[dir[Mono[n]]] : Owes(q, n)

Decoding ==
  \A p \in Proc :
    pc[p] \in {"resample", "read", "openout", "write", "remove"}
      => slot[p] \in decoded[p]

\* Only runs that have decoded input n write to its outputs.
Written ==
  \A n \in Input, i \in Inode :
    FileOf(i, n, "mono") =>
      \A q \in by[i] : \E t \in decoded[q] : Arg[q][t] = n

History == \A p \in Proc : \A q \in earlier[p] : pc[q] = "end"

Loading ==
  \A p \in Proc :
    /\ pc[p] = "start" => \A s \in Slot : s \notin loaded[p]
    /\ pc[p] = "load" /\ slot[p] = "B" => "A" \in loaded[p]
    /\ pc[p] = "measure" \/ (pc[p] = "report" /\ err[p] = 0) \/ printed[p]
         => \A s \in Slot : s \in loaded[p]

Provenance ==
  \A p \in Proc, s \in Slot :
    s \in loaded[p] =>
      \A q \in source[p][s] :
        /\ \E t \in decoded[q] : Arg[q][t] = Arg[p][s]
        /\ q # p => q \notin earlier[p]

IInv == /\ TypeOK /\ Linked /\ Opened /\ Owed /\ Decoding /\ Written
        /\ History /\ Loading /\ Provenance

-----------------------------------------------------------------------------
(* Facts about names and files. *)

\* An input and the files its conversion makes are names.
LEMMA InputNames ==
  \A p \in Proc, s \in Slot :
    /\ Arg[p][s] \in Input /\ Arg[p][s] \in Name
    /\ Tmp[Arg[p][s]] \in Name /\ Mono[Arg[p][s]] \in Name
<1> SUFFICES ASSUME NEW p \in Proc, NEW s \in Slot
             PROVE  /\ Arg[p][s] \in Input /\ Arg[p][s] \in Name
                    /\ Tmp[Arg[p][s]] \in Name /\ Mono[Arg[p][s]] \in Name
  OBVIOUS
<1>1. Arg[p][s] \in Input
  BY DEF Input
<1>2. Arg \in [Proc -> [Slot -> Name]] /\ Tmp \in [Input -> Name]
      /\ Mono \in [Input -> Name]
  BY NamesAssumption
<1>3. Arg[p] \in [Slot -> Name]
  BY <1>2
<1>4. Arg[p][s] \in Name
  BY <1>3
<1>5. Tmp[Arg[p][s]] \in Name /\ Mono[Arg[p][s]] \in Name
  BY <1>1, <1>2
<1> QED
  BY <1>1, <1>4, <1>5

\* The input a run works on.
LEMMA WorkingNames ==
  ASSUME TypeOK, NEW p \in Proc
  PROVE  /\ In(p) \in Input /\ In(p) \in Name
         /\ Tmp[In(p)] \in Name /\ Mono[In(p)] \in Name
  BY InputNames DEF TypeOK, In

\* None is not a file, and a file a run creates is not a file of a user.
LEMMA NoneIsNoFile ==
  /\ None \notin Inode /\ None \notin Name
  /\ \A i, n : \A k \in {"tmp", "mono"} :
       FileOf(i, n, k) => i \in Inode /\ i \notin Name
<1>1. None \notin Name /\ None \notin Inode
  BY NamesAssumption, Zenon DEF Inode
<1>2. ASSUME NEW i, NEW n, NEW k \in {"tmp", "mono"}, FileOf(i, n, k)
      PROVE  i \in Inode /\ i \notin Name
  <2>1. PICK q \in Proc, s \in Slot : i = <<q, s, k>>
    BY <1>2, Zenon DEF FileOf
  <2>2. <<q, s, k>> \notin Name
    BY NamesAssumption, Zenon
  <2>3. <<q, s, k>> \in Proc \X Slot \X {"tmp", "mono"}
    BY SMT
  <2> QED
    BY <2>1, <2>2, <2>3, Zenon DEF Inode
<1> QED
  BY <1>1, <1>2, Zenon

\* A file is created for one input, under one of its names.
LEMMA FileIsOfOneInput ==
  ASSUME NEW i, NEW m, NEW n, NEW k, NEW l, FileOf(i, m, k), FileOf(i, n, l)
  PROVE  m = n /\ k = l
  BY DEF FileOf

\* A run opens a file that was created under the name it opens.
LEMMA CreatedForName ==
  ASSUME NEW p \in Proc, NEW k, TypeOK
  PROVE  FileOf(<<p, slot[p], k>>, In(p), k)
  BY DEF FileOf, In, TypeOK

-----------------------------------------------------------------------------
(* Types. *)

\* What OpenTruncated does to the types.
LEMMA OpenTruncatedType ==
  ASSUME TypeOK, NEW p \in Proc, NEW n \in Name, NEW k \in {"tmp", "mono"},
         OpenTruncated(p, n, k)
  PROVE  /\ dir' \in [Name -> Inode \cup {None}]
         /\ shape' \in [Inode -> Shape]
         /\ by' \in [Inode -> SUBSET Proc]
         /\ handle' \in [Proc -> Inode \cup {None}]
         /\ handle'[p] # None
         /\ \A q \in Proc : q # p => handle'[q] = handle[q]
<1> DEFINE i == IF dir[n] = None THEN <<p, slot[p], k>> ELSE dir[n]
<1>1. i \in Inode
  BY DEF TypeOK, Inode
<1>2. i # None
  BY <1>1, NoneIsNoFile
<1> QED
  BY <1>1, <1>2 DEF TypeOK, OpenTruncated, Shape

\* What belongs to one run.
Own(q) == <<pc[q], slot[q], handle[q], decoded[q], loaded[q], source[q],
            err[q], printed[q], earlier[q]>>

\* A step of a run changes nothing that belongs to another.
LEMMA OwnStep ==
  ASSUME TypeOK, NEW p \in Proc, Run(p) \/ Kill(p)
  PROVE  \A q \in Proc : q # p => Own(q)' = Own(q)
<1> USE DEF Own, Goto, Close, ConvertReturns, TypeOK
<1>1. CASE Start(p)
  BY <1>1 DEF Start
<1>2. CASE OpenTmp(p)
  BY <1>2 DEF OpenTmp, OpenTruncated
<1>3. CASE OpenInput(p)
  BY <1>3 DEF OpenInput
<1>4. CASE Decode(p)
  BY <1>4 DEF Decode
<1>5. CASE OpenReader(p)
  BY <1>5 DEF OpenReader
<1>6. CASE ReadTmp(p)
  BY <1>6 DEF ReadTmp
<1>7. CASE OpenOut(p)
  BY <1>7 DEF OpenOut, OpenTruncated
<1>8. CASE WriteOut(p)
  BY <1>8 DEF WriteOut
<1>9. CASE RemoveTmp(p)
  BY <1>9 DEF RemoveTmp
<1>10. CASE Load(p)
  BY <1>10 DEF Load
<1>11. CASE Measure(p)
  BY <1>11 DEF Measure
<1>12. CASE Report(p)
  BY <1>12 DEF Report
<1>13. CASE RemoveA(p)
  BY <1>13 DEF RemoveA
<1>14. CASE RemoveB(p)
  BY <1>14 DEF RemoveB
<1>15. CASE Kill(p)
  BY <1>15 DEF Kill
<1> QED
  BY <1>1, <1>2, <1>3, <1>4, <1>5, <1>6, <1>7, <1>8,
     <1>9, <1>10, <1>11, <1>12, <1>13, <1>14, <1>15 DEF Run

\* A run that goes on has a file open exactly when its next step needs one.
LEMMA HandleStep ==
  ASSUME TypeOK, NEW p \in Proc, Run(p) \/ Kill(p)
  PROVE  \A q \in Proc :
           handle'[q] # None <=>
             pc'[q] \in {"openin", "decode", "read", "write"}
<1> USE DEF Goto, Close, ConvertReturns
<1>0. /\ pc \in [Proc -> Steps] /\ handle \in [Proc -> Inode \cup {None}]
      /\ \A q \in Proc : handle[q] # None <=>
           pc[q] \in {"openin", "decode", "read", "write"}
  BY DEF TypeOK
<1> SUFFICES handle'[p] # None <=>
               pc'[p] \in {"openin", "decode", "read", "write"}
  BY <1>0, OwnStep DEF Own
<1>1. CASE Start(p)
  BY <1>0, <1>1 DEF Start
<1>2. CASE OpenTmp(p)
  <2>1. CASE OpenTruncated(p, Tmp[In(p)], "tmp") /\ Goto(p, "openin")
    <3>1. handle'[p] # None
      BY <2>1, OpenTruncatedType, WorkingNames
    <3> QED
      BY <1>0, <2>1, <3>1
  <2>2. CASE p \in Faulty /\ ConvertReturns(p) /\ UNCHANGED handle
    BY <1>0, <1>2, <2>2 DEF OpenTmp
  <2> QED
    BY <1>2, <2>1, <2>2 DEF OpenTmp
<1>3. CASE OpenInput(p)
  BY <1>0, <1>3 DEF OpenInput
<1>4. CASE Decode(p)
  BY <1>0, <1>4 DEF Decode
<1>5. CASE OpenReader(p)
  BY <1>0, <1>5, WorkingNames, NoneIsNoFile DEF OpenReader
<1>6. CASE ReadTmp(p)
  BY <1>0, <1>6 DEF ReadTmp
<1>7. CASE OpenOut(p)
  <2>1. CASE OpenTruncated(p, Mono[In(p)], "mono") /\ Goto(p, "write")
    <3>1. handle'[p] # None
      BY <2>1, OpenTruncatedType, WorkingNames
    <3> QED
      BY <1>0, <2>1, <3>1
  <2>2. CASE p \in Faulty /\ ConvertReturns(p) /\ UNCHANGED handle
    BY <1>0, <1>7, <2>2 DEF OpenOut
  <2> QED
    BY <1>7, <2>1, <2>2 DEF OpenOut
<1>8. CASE WriteOut(p)
  BY <1>0, <1>8 DEF WriteOut
<1>9. CASE RemoveTmp(p)
  BY <1>0, <1>9 DEF RemoveTmp
<1>10. CASE Load(p)
  BY <1>0, <1>10 DEF Load
<1>11. CASE Measure(p)
  BY <1>0, <1>11 DEF Measure
<1>12. CASE Report(p)
  BY <1>0, <1>12 DEF Report
<1>13. CASE RemoveA(p)
  BY <1>0, <1>13 DEF RemoveA
<1>14. CASE RemoveB(p)
  BY <1>0, <1>14 DEF RemoveB
<1>15. CASE Kill(p)
  BY <1>0, <1>15 DEF Kill
<1> QED
  BY <1>1, <1>2, <1>3, <1>4, <1>5, <1>6, <1>7, <1>8,
     <1>9, <1>10, <1>11, <1>12, <1>13, <1>14, <1>15 DEF Run

\* TypeOK is inductive on its own.
LEMMA TypeStep == TypeOK /\ [Next]_vars => TypeOK'
<1> SUFFICES ASSUME TypeOK, [Next]_vars PROVE TypeOK'
  OBVIOUS
<1>0. CASE UNCHANGED vars
  BY <1>0 DEF TypeOK, vars
<1> SUFFICES ASSUME NEW p \in Proc, Run(p) \/ Kill(p) PROVE TypeOK'
  BY <1>0 DEF Next, Done
<1>a. \A q \in Proc : handle'[q] # None <=>
        pc'[q] \in {"openin", "decode", "read", "write"}
  BY HandleStep
<1> USE DEF Goto, Close, Unlink, ConvertReturns
<1>1. CASE Start(p)
  <2>1. pc' \in [Proc -> Steps]
    BY <1>1 DEF Start, TypeOK, Steps
  <2>2. earlier' \in [Proc -> SUBSET Proc]
    BY <1>1 DEF Start, TypeOK
  <2>3. UNCHANGED <<dir, shape, by, slot, handle, decoded, loaded, source,
                    err, printed>>
    BY <1>1 DEF Start, files
  <2> QED
    BY <1>a, <2>1, <2>2, <2>3 DEF TypeOK
<1>2. CASE OpenTmp(p)
  <2>1. CASE /\ OpenTruncated(p, Tmp[In(p)], "tmp")
             /\ Goto(p, "openin") /\ UNCHANGED slot
    BY <1>a, <1>2, <2>1, OpenTruncatedType, WorkingNames
    DEF OpenTmp, TypeOK, Steps
  <2>2. CASE p \in Faulty /\ ConvertReturns(p) /\ UNCHANGED <<files, handle>>
    BY <1>a, <1>2, <2>2 DEF OpenTmp, TypeOK, Steps, Slot, files
  <2> QED
    BY <1>2, <2>1, <2>2 DEF OpenTmp
<1>3. CASE OpenInput(p)
  <2>1. pc' \in [Proc -> Steps]
    BY <1>3 DEF OpenInput, TypeOK, Steps
  <2>2. slot' \in [Proc -> Slot]
    BY <1>3 DEF OpenInput, TypeOK, Slot
  <2>3. handle' \in [Proc -> Inode \cup {None}]
    BY <1>3 DEF OpenInput, TypeOK
  <2>4. UNCHANGED <<dir, shape, by, decoded, loaded, source, err, printed,
                    earlier>>
    BY <1>3 DEF OpenInput, files
  <2> QED
    BY <1>a, <2>1, <2>2, <2>3, <2>4 DEF TypeOK
<1>4. CASE Decode(p)
  <2>1. shape' \in [Inode -> Shape]
    BY <1>4 DEF Decode, TypeOK, Shape
  <2>2. pc' \in [Proc -> Steps]
    BY <1>4 DEF Decode, TypeOK, Steps
  <2>3. slot' \in [Proc -> Slot]
    BY <1>4 DEF Decode, TypeOK, Slot
  <2>4. handle' \in [Proc -> Inode \cup {None}]
    BY <1>4 DEF Decode, TypeOK
  <2>5. decoded' \in [Proc -> SUBSET Slot]
    BY <1>4 DEF Decode, TypeOK
  <2>6. UNCHANGED <<dir, by, loaded, source, err, printed, earlier>>
    BY <1>4 DEF Decode, files
  <2> QED
    BY <1>a, <2>1, <2>2, <2>3, <2>4, <2>5, <2>6 DEF TypeOK
<1>5. CASE OpenReader(p)
  <2>1. pc' \in [Proc -> Steps]
    BY <1>5 DEF OpenReader, TypeOK, Steps
  <2>2. slot' \in [Proc -> Slot]
    BY <1>5 DEF OpenReader, TypeOK, Slot
  <2>3. handle' \in [Proc -> Inode \cup {None}]
    BY <1>5, WorkingNames DEF OpenReader, TypeOK
  <2>4. UNCHANGED <<dir, shape, by, decoded, loaded, source, err, printed,
                    earlier>>
    BY <1>5 DEF OpenReader, files
  <2> QED
    BY <1>a, <2>1, <2>2, <2>3, <2>4 DEF TypeOK
<1>6. CASE ReadTmp(p)
  <2>1. pc' \in [Proc -> Steps]
    BY <1>6 DEF ReadTmp, TypeOK, Steps
  <2>2. slot' \in [Proc -> Slot]
    BY <1>6 DEF ReadTmp, TypeOK, Slot
  <2>3. handle' \in [Proc -> Inode \cup {None}]
    BY <1>6 DEF ReadTmp, TypeOK
  <2>4. UNCHANGED <<dir, shape, by, decoded, loaded, source, err, printed,
                    earlier>>
    BY <1>6 DEF ReadTmp, files
  <2> QED
    BY <1>a, <2>1, <2>2, <2>3, <2>4 DEF TypeOK
<1>7. CASE OpenOut(p)
  <2>1. CASE /\ OpenTruncated(p, Mono[In(p)], "mono")
             /\ Goto(p, "write") /\ UNCHANGED slot
    BY <1>a, <1>7, <2>1, OpenTruncatedType, WorkingNames
    DEF OpenOut, TypeOK, Steps
  <2>2. CASE p \in Faulty /\ ConvertReturns(p) /\ UNCHANGED <<files, handle>>
    BY <1>a, <1>7, <2>2 DEF OpenOut, TypeOK, Steps, Slot, files
  <2> QED
    BY <1>7, <2>1, <2>2 DEF OpenOut
<1>8. CASE WriteOut(p)
  <2>1. by' \in [Inode -> SUBSET Proc]
    BY <1>8 DEF WriteOut, TypeOK
  <2>2. pc' \in [Proc -> Steps]
    BY <1>8 DEF WriteOut, TypeOK, Steps
  <2>3. slot' \in [Proc -> Slot]
    BY <1>8 DEF WriteOut, TypeOK, Slot
  <2>4. handle' \in [Proc -> Inode \cup {None}]
    BY <1>8 DEF WriteOut, TypeOK
  <2>5. UNCHANGED <<dir, shape, decoded, loaded, source, err, printed,
                    earlier>>
    BY <1>8 DEF WriteOut, files
  <2> QED
    BY <1>a, <2>1, <2>2, <2>3, <2>4, <2>5 DEF TypeOK
<1>9. CASE RemoveTmp(p)
  <2>1. dir' \in [Name -> Inode \cup {None}]
    BY <1>9, InputNames, WorkingNames DEF RemoveTmp, TypeOK
  <2>2. pc' \in [Proc -> Steps]
    BY <1>9 DEF RemoveTmp, TypeOK, Steps
  <2>3. slot' \in [Proc -> Slot]
    BY <1>9 DEF RemoveTmp, TypeOK, Slot
  <2>4. UNCHANGED <<shape, by, handle, decoded, loaded, source, err, printed,
                    earlier>>
    BY <1>9 DEF RemoveTmp, files
  <2> QED
    BY <1>a, <2>1, <2>2, <2>3, <2>4 DEF TypeOK
<1>10. CASE Load(p)
  <2>1. pc' \in [Proc -> Steps]
    BY <1>10 DEF Load, TypeOK, Steps
  <2>2. CASE UNCHANGED <<slot, loaded, source>> /\ err' = [err EXCEPT ![p] = 1]
    BY <1>a, <1>10, <2>1, <2>2 DEF Load, TypeOK, files
  <2>3. CASE /\ dir[Mono[In(p)]] # None
             /\ loaded' = [loaded EXCEPT ![p] = @ \cup {slot[p]}]
             /\ source' = [source EXCEPT ![p][slot[p]] = by[dir[Mono[In(p)]]]]
             /\ slot' = [slot EXCEPT ![p] = "B"] /\ UNCHANGED err
    <3>1. by[dir[Mono[In(p)]]] \in SUBSET Proc
      BY <2>3, WorkingNames DEF TypeOK
    <3>2. source' \in [Proc -> [Slot -> SUBSET Proc]]
      BY <2>3, <3>1 DEF TypeOK
    <3>3. slot' \in [Proc -> Slot]
      BY <2>3 DEF TypeOK, Slot
    <3>4. loaded' \in [Proc -> SUBSET Slot]
      BY <2>3 DEF TypeOK
    <3>5. UNCHANGED <<dir, shape, by, handle, decoded, err, printed, earlier>>
      BY <1>10, <2>3 DEF Load, files
    <3> QED
      BY <1>a, <2>1, <3>2, <3>3, <3>4, <3>5 DEF TypeOK
  <2>4. CASE UNCHANGED <<slot, loaded, source, err>>
    BY <1>a, <1>10, <2>1, <2>4 DEF Load, TypeOK, files
  <2> QED
    BY <1>10, <2>2, <2>3, <2>4 DEF Load
<1>11. CASE Measure(p)
  <2>1. pc' \in [Proc -> Steps]
    BY <1>11 DEF Measure, TypeOK, Steps
  <2>2. err' \in [Proc -> 0 .. 2]
    <3>1. CASE err' = err
      BY <3>1 DEF TypeOK
    <3>2. CASE err' = [err EXCEPT ![p] = 2]
      BY <3>2 DEF TypeOK
    <3> QED
      BY <1>11, <3>1, <3>2, Zenon DEF Measure
  <2>3. UNCHANGED <<dir, shape, by, slot, handle, decoded, loaded, source,
                    printed, earlier>>
    BY <1>11 DEF Measure, files
  <2> QED
    BY <1>a, <2>1, <2>2, <2>3 DEF TypeOK
<1>12. CASE Report(p)
  <2>1. pc' \in [Proc -> Steps]
    BY <1>12 DEF Report, TypeOK, Steps
  <2>2. printed' \in [Proc -> BOOLEAN]
    BY <1>12, Zenon DEF Report, TypeOK
  <2>3. UNCHANGED <<dir, shape, by, slot, handle, decoded, loaded, source,
                    err, earlier>>
    BY <1>12 DEF Report, files
  <2> QED
    BY <1>a, <2>1, <2>2, <2>3 DEF TypeOK
<1>13. CASE RemoveA(p)
  <2>1. dir' \in [Name -> Inode \cup {None}]
    BY <1>13, InputNames, WorkingNames DEF RemoveA, TypeOK, Slot
  <2>2. pc' \in [Proc -> Steps]
    BY <1>13 DEF RemoveA, TypeOK, Steps
  <2>3. UNCHANGED <<shape, by, slot, handle, decoded, loaded, source, err,
                    printed, earlier>>
    BY <1>13 DEF RemoveA, files
  <2> QED
    BY <1>a, <2>1, <2>2, <2>3 DEF TypeOK
<1>14. CASE RemoveB(p)
  <2>1. dir' \in [Name -> Inode \cup {None}]
    BY <1>14, InputNames, WorkingNames DEF RemoveB, TypeOK, Slot
  <2>2. pc' \in [Proc -> Steps]
    BY <1>14 DEF RemoveB, TypeOK, Steps
  <2>3. UNCHANGED <<shape, by, slot, handle, decoded, loaded, source, err,
                    printed, earlier>>
    BY <1>14 DEF RemoveB, files
  <2> QED
    BY <1>a, <2>1, <2>2, <2>3 DEF TypeOK
<1>15. CASE Kill(p)
  <2>1. pc' \in [Proc -> Steps]
    BY <1>15 DEF Kill, TypeOK, Steps
  <2>2. handle' \in [Proc -> Inode \cup {None}]
    BY <1>15 DEF Kill, TypeOK
  <2>3. UNCHANGED <<dir, shape, by, slot, decoded, loaded, source, err,
                    printed, earlier>>
    BY <1>15 DEF Kill, files
  <2> QED
    BY <1>a, <2>1, <2>2, <2>3 DEF TypeOK
<1> QED
  BY <1>1, <1>2, <1>3, <1>4, <1>5, <1>6, <1>7, <1>8,
     <1>9, <1>10, <1>11, <1>12, <1>13, <1>14, <1>15 DEF Run

-----------------------------------------------------------------------------
(* What the steps do to files. *)

\* OpenTruncated opens a file that was created for this input, and that file is
\* the one that now has the name.
LEMMA OpenTruncatedFile ==
  ASSUME TypeOK, Linked, NEW p \in Proc,
         NEW k \in {"tmp", "mono"}, NEW m,
         m = (IF k = "tmp" THEN Tmp[In(p)] ELSE Mono[In(p)]),
         OpenTruncated(p, m, k)
  PROVE  /\ FileOf(handle'[p], In(p), k)
         /\ dir' = [dir EXCEPT ![m] = handle'[p]]
         /\ dir[m] = None \/ handle'[p] = dir[m]
         /\ shape' = [shape EXCEPT ![handle'[p]] = "invalid"]
         /\ by' = [by EXCEPT ![handle'[p]] = {}]
<1> DEFINE i == IF dir[m] = None THEN <<p, slot[p], k>> ELSE dir[m]
<1>1. handle' = [handle EXCEPT ![p] = i]
  BY DEF OpenTruncated
<1>2. handle'[p] = i
  BY <1>1 DEF TypeOK
<1>3. FileOf(i, In(p), k)
  <2>1. CASE dir[m] = None
    BY <2>1, CreatedForName
  <2>2. CASE dir[m] # None
    BY <2>2, WorkingNames DEF Linked
  <2> QED
    BY <2>1, <2>2
<1> QED
  BY <1>2, <1>3 DEF OpenTruncated

\* Linked only asks that what gets a derived name was created under it.
LEMMA LinkedKept ==
  ASSUME TypeOK, Linked, NEW m \in Input, NEW v,
         \/ dir' = [dir EXCEPT ![Tmp[m]] = v] /\ (v = None \/ FileOf(v, m, "tmp"))
         \/ dir' = [dir EXCEPT ![Mono[m]] = v] /\ (v = None \/ FileOf(v, m, "mono"))
  PROVE  Linked'
<1> SUFFICES ASSUME NEW n \in Input
             PROVE  /\ dir'[n] = n
                    /\ dir'[Tmp[n]] = None \/ FileOf(dir'[Tmp[n]], n, "tmp")
                    /\ dir'[Mono[n]] = None \/ FileOf(dir'[Mono[n]], n, "mono")
  BY DEF Linked, FileOf
<1>1. /\ dir[n] = n
      /\ dir[Tmp[n]] = None \/ FileOf(dir[Tmp[n]], n, "tmp")
      /\ dir[Mono[n]] = None \/ FileOf(dir[Mono[n]], n, "mono")
  BY DEF Linked
<1>2. /\ Tmp[m] # n /\ Mono[m] # n /\ Tmp[m] # Mono[n] /\ Tmp[n] # Mono[m]
      /\ m # n => Tmp[m] # Tmp[n] /\ Mono[m] # Mono[n]
      /\ {n, m, Tmp[n], Mono[n], Tmp[m], Mono[m]} \subseteq Name
  <2>1. /\ Tmp[m] \notin Input /\ Mono[m] \notin Input
        /\ Tmp[m] # Mono[n] /\ Tmp[n] # Mono[m]
        /\ m # n => Tmp[m] # Tmp[n] /\ Mono[m] # Mono[n]
    BY NamesAssumption, Zenon
  <2>2. {n, m, Tmp[n], Mono[n], Tmp[m], Mono[m]} \subseteq Name
    <3>1. \A o \in Input : {o, Tmp[o], Mono[o]} \subseteq Name
      <4> SUFFICES ASSUME NEW o \in Input
                   PROVE  {o, Tmp[o], Mono[o]} \subseteq Name
        OBVIOUS
      <4>1. PICK q \in Proc, s \in Slot : o = Arg[q][s]
        BY DEF Input
      <4> QED
        BY <4>1, InputNames
    <3> QED
      BY <3>1
  <2> QED
    BY <2>1, <2>2
<1>3. dir \in [Name -> Inode \cup {None}]
  BY DEF TypeOK
<1> QED
  BY <1>1, <1>2, <1>3

\* Names stay linked to files that were created under them.
LEMMA LinkedStep ==
  ASSUME TypeOK, Linked, NEW p \in Proc, Run(p) \/ Kill(p)
  PROVE  Linked'
<1>a. ASSUME UNCHANGED dir PROVE Linked'
  BY <1>a, Zenon DEF Linked, FileOf
<1>1. CASE OpenTmp(p)
  <2>1. CASE OpenTruncated(p, Tmp[In(p)], "tmp")
    BY <2>1, OpenTruncatedFile, LinkedKept, WorkingNames
  <2> QED
    BY <1>a, <1>1, <2>1 DEF OpenTmp, files
<1>2. CASE OpenOut(p)
  <2>1. CASE OpenTruncated(p, Mono[In(p)], "mono")
    BY <2>1, OpenTruncatedFile, LinkedKept, WorkingNames
  <2> QED
    BY <1>a, <1>2, <2>1 DEF OpenOut, files
<1>3. CASE RemoveTmp(p)
  BY <1>3, LinkedKept, WorkingNames DEF RemoveTmp, Unlink
<1>4. CASE RemoveA(p)
  BY <1>4, LinkedKept, InputNames DEF RemoveA, Unlink, Slot
<1>5. CASE RemoveB(p)
  BY <1>5, LinkedKept, InputNames DEF RemoveB, Unlink, Slot
<1>6. CASE Start(p) \/ OpenInput(p) \/ Decode(p) \/ OpenReader(p)
           \/ ReadTmp(p) \/ WriteOut(p)
  BY <1>a, <1>6 DEF Start, OpenInput, Decode, OpenReader, ReadTmp, WriteOut, files
<1>7. CASE Load(p) \/ Measure(p) \/ Report(p) \/ Kill(p)
  BY <1>a, <1>7 DEF Load, Measure, Report, Kill, files
<1> QED
  BY <1>1, <1>2, <1>3, <1>4, <1>5, <1>6, <1>7 DEF Run

\* A run has no file open but the one its conversion made.
LEMMA OpenedStep ==
  ASSUME TypeOK, Linked, Opened, NEW p \in Proc, Run(p) \/ Kill(p)
  PROVE  Opened'
<1> USE DEF Goto, Close, ConvertReturns
<1> DEFINE Has(q) == /\ pc[q] \in {"openin", "decode"} =>
                          FileOf(handle[q], In(q), "tmp")
                     /\ pc[q] = "write" => FileOf(handle[q], In(q), "mono")
<1>a. Opened' <=> \A q \in Proc : Has(q)'
  BY DEF Opened
<1>b. \A q \in Proc : Has(q)
  BY DEF Opened
<1>c. ASSUME NEW q \in Proc, q # p PROVE Has(q)'
  BY <1>b, <1>c, OwnStep DEF Own, In, FileOf
<1>d. pc \in [Proc -> Steps] /\ slot \in [Proc -> Slot]
      /\ handle \in [Proc -> Inode \cup {None}]
  BY DEF TypeOK
<1>e. pc'[p] \notin {"openin", "decode", "write"} => Has(p)'
  OBVIOUS
<1>1. CASE OpenTmp(p)
  <2>1. CASE OpenTruncated(p, Tmp[In(p)], "tmp") /\ Goto(p, "openin")
             /\ UNCHANGED slot
    <3>1. FileOf(handle'[p], In(p), "tmp")
      BY <2>1, OpenTruncatedFile
    <3>2. pc'[p] = "openin" /\ slot'[p] = slot[p]
      BY <1>d, <2>1
    <3>3. Has(p)'
      BY <3>1, <3>2 DEF In, FileOf
    <3> QED
      BY <1>a, <1>c, <3>3
  <2> QED
    BY <1>a, <1>c, <1>d, <1>e, <1>1, <2>1 DEF OpenTmp
<1>2. CASE OpenOut(p)
  <2>1. CASE OpenTruncated(p, Mono[In(p)], "mono") /\ Goto(p, "write")
             /\ UNCHANGED slot
    <3>1. FileOf(handle'[p], In(p), "mono")
      BY <2>1, OpenTruncatedFile
    <3>2. pc'[p] = "write" /\ slot'[p] = slot[p]
      BY <1>d, <2>1
    <3>3. Has(p)'
      BY <3>1, <3>2 DEF In, FileOf
    <3> QED
      BY <1>a, <1>c, <3>3
  <2> QED
    BY <1>a, <1>c, <1>d, <1>e, <1>2, <2>1 DEF OpenOut
<1>3. CASE OpenInput(p)
  <2>1. CASE Goto(p, "decode") /\ UNCHANGED <<slot, handle>>
    BY <1>a, <1>b, <1>c, <1>d, <1>3, <2>1 DEF OpenInput, In, FileOf
  <2> QED
    BY <1>a, <1>c, <1>d, <1>e, <1>3, <2>1 DEF OpenInput
<1>4. pc'[p] \notin {"openin", "decode", "write"} => Opened'
  BY <1>a, <1>c, <1>e
<1>5. CASE Start(p) \/ Decode(p) \/ OpenReader(p) \/ ReadTmp(p)
  BY <1>4, <1>5, <1>d DEF Start, Decode, OpenReader, ReadTmp
<1>6. CASE WriteOut(p) \/ RemoveTmp(p) \/ Load(p) \/ Measure(p)
  BY <1>4, <1>6, <1>d DEF WriteOut, RemoveTmp, Load, Measure
<1>7. CASE Report(p) \/ RemoveA(p) \/ RemoveB(p) \/ Kill(p)
  BY <1>4, <1>7, <1>d DEF Report, RemoveA, RemoveB, Kill
<1> QED
  BY <1>1, <1>2, <1>3, <1>5, <1>6, <1>7 DEF Run

-----------------------------------------------------------------------------
(* What a run owes. *)

\* Only the step that removes a file discharges the debt.
LEMMA OwesStep ==
  ASSUME TypeOK, NEW p \in Proc, Run(p) \/ Kill(p),
         NEW q \in Proc, NEW n, Owes(q, n)
  PROVE  \/ Owes(q, n)'
         \/ q = p /\ RemoveA(p) /\ n = Arg[p]["A"]
         \/ q = p /\ RemoveB(p) /\ n = Arg[p]["B"]
<1>0. pc \in [Proc -> Steps]
  BY DEF TypeOK
<1>1. CASE q # p
  BY <1>1, OwnStep DEF Own, Owes
<1>2. CASE q = p /\ RemoveA(p)
  BY <1>0, <1>2 DEF RemoveA, Goto, Owes
<1>3. CASE q = p /\ RemoveB(p)
  BY <1>0, <1>3 DEF RemoveB, Goto, Owes
<1>4. CASE q = p /\ ~RemoveA(p) /\ ~RemoveB(p)
  <2>1. pc[p] # "start" /\ pc[p] # "end" /\ (pc[p] = "removeB" => n = Arg[p]["B"])
    BY <1>4 DEF Owes
  <2>2. pc'[p] \notin {"start", "removeB", "end"}
    <3> USE DEF Goto, ConvertReturns
    <3>1. CASE OpenTmp(p) \/ OpenInput(p) \/ Decode(p) \/ OpenReader(p)
      BY <1>0, <3>1 DEF OpenTmp, OpenInput, Decode, OpenReader
    <3>2. CASE ReadTmp(p) \/ OpenOut(p) \/ WriteOut(p) \/ RemoveTmp(p)
      BY <1>0, <3>2 DEF ReadTmp, OpenOut, WriteOut, RemoveTmp
    <3>3. CASE Load(p) \/ Measure(p) \/ Report(p) \/ Kill(p) \/ Start(p)
      BY <1>0, <3>3 DEF Load, Measure, Report, Kill, Start
    <3> QED
      BY <1>4, <3>1, <3>2, <3>3 DEF Run
  <2> QED
    BY <1>4, <2>2 DEF Owes
<1> QED
  BY <1>1, <1>2, <1>3, <1>4

\* The run that is working on an input owes the removal of its mono file.
LEMMA WorkerOwes ==
  ASSUME TypeOK, NEW p \in Proc, pc[p] \notin {"start", "removeB", "end"}
  PROVE  Owes(p, In(p))
  BY DEF TypeOK, Owes, In, Slot

\* A mono file that is created was not there, and one that keeps its name gets
\* no writer but the run that has it open.
LEMMA MonoStep ==
  ASSUME TypeOK, Linked, Opened, NEW p \in Proc, Run(p) \/ Kill(p),
         NEW n \in Input, dir'[Mono[n]] # None
  PROVE  /\ \/ dir'[Mono[n]] = dir[Mono[n]]
            \/ OpenOut(p) /\ n = In(p) /\ by'[dir'[Mono[n]]] = {}
         /\ ~(RemoveA(p) /\ n = Arg[p]["A"])
         /\ ~(RemoveB(p) /\ n = Arg[p]["B"])
<1> USE DEF Unlink
<1>0. dir \in [Name -> Inode \cup {None}] /\ Mono[n] \in Name
      /\ by \in [Inode -> SUBSET Proc]
  <2>1. PICK q \in Proc, s \in Slot : n = Arg[q][s]
    BY DEF Input
  <2> QED
    BY <2>1, InputNames DEF TypeOK
<1>a. ~(RemoveA(p) /\ n = Arg[p]["A"]) /\ ~(RemoveB(p) /\ n = Arg[p]["B"])
  BY <1>0 DEF RemoveA, RemoveB
<1> DEFINE Kept == dir'[Mono[n]] = dir[Mono[n]]
           Made == OpenOut(p) /\ n = In(p) /\ by'[dir'[Mono[n]]] = {}
<1> SUFFICES Kept \/ Made
  BY <1>a
<1>1. CASE OpenTmp(p)
  <2>1. CASE OpenTruncated(p, Tmp[In(p)], "tmp")
    <3>1. dir' = [dir EXCEPT ![Tmp[In(p)]] = handle'[p]]
      BY <2>1, OpenTruncatedFile
    <3>2. Tmp[In(p)] # Mono[n]
      BY NamesAssumption, WorkingNames, Zenon
    <3> QED
      BY <1>0, <3>1, <3>2
  <2> QED
    BY <1>1, <2>1 DEF OpenTmp, files
<1>2. CASE OpenOut(p)
  <2>1. CASE OpenTruncated(p, Mono[In(p)], "mono")
    <3>1. /\ dir' = [dir EXCEPT ![Mono[In(p)]] = handle'[p]]
          /\ by' = [by EXCEPT ![handle'[p]] = {}]
          /\ FileOf(handle'[p], In(p), "mono")
      BY <2>1, OpenTruncatedFile
    <3>2. n # In(p) => Mono[n] # Mono[In(p)]
      BY NamesAssumption, WorkingNames, Zenon
    <3>3. handle'[p] \in Inode
      BY <3>1, NoneIsNoFile
    <3>4. CASE n # In(p)
      BY <1>0, <3>1, <3>2, <3>4
    <3>5. CASE n = In(p)
      BY <1>0, <1>2, <3>1, <3>3, <3>5
    <3> QED
      BY <3>4, <3>5
  <2> QED
    BY <1>2, <2>1 DEF OpenOut, files
<1>3. CASE RemoveTmp(p) \/ RemoveA(p) \/ RemoveB(p)
  BY <1>0, <1>3 DEF RemoveTmp, RemoveA, RemoveB
<1>4. CASE Start(p) \/ OpenInput(p) \/ Decode(p) \/ OpenReader(p)
           \/ ReadTmp(p) \/ WriteOut(p)
  BY <1>4 DEF Start, OpenInput, Decode, OpenReader, ReadTmp, WriteOut, files
<1>5. CASE Load(p) \/ Measure(p) \/ Report(p) \/ Kill(p)
  BY <1>5 DEF Load, Measure, Report, Kill, files
<1> QED
  BY <1>1, <1>2, <1>3, <1>4, <1>5 DEF Run

\* A file gets no writer but the run that is writing to it.
LEMMA WritersStep ==
  ASSUME TypeOK, Linked, NEW p \in Proc, Run(p) \/ Kill(p),
         NEW i \in Inode, NEW q \in by'[i]
  PROVE  q \in by[i] \/ (q = p /\ pc[p] = "write" /\ i = handle[p])
<1>0. by \in [Inode -> SUBSET Proc]
  BY DEF TypeOK
<1>1. CASE OpenTmp(p)
  <2>1. CASE OpenTruncated(p, Tmp[In(p)], "tmp")
    BY <1>0, <2>1, OpenTruncatedFile
  <2> QED
    BY <1>1, <2>1 DEF OpenTmp, files
<1>2. CASE OpenOut(p)
  <2>1. CASE OpenTruncated(p, Mono[In(p)], "mono")
    BY <1>0, <2>1, OpenTruncatedFile
  <2> QED
    BY <1>2, <2>1 DEF OpenOut, files
<1>3. CASE WriteOut(p)
  BY <1>0, <1>3 DEF WriteOut
<1>4. CASE Start(p) \/ OpenInput(p) \/ Decode(p) \/ OpenReader(p)
           \/ ReadTmp(p) \/ RemoveTmp(p)
  BY <1>4 DEF Start, OpenInput, Decode, OpenReader, ReadTmp, RemoveTmp, files
<1>5. CASE Load(p) \/ Measure(p) \/ Report(p) \/ Kill(p) \/ RemoveA(p) \/ RemoveB(p)
  BY <1>5 DEF Load, Measure, Report, Kill, RemoveA, RemoveB, files
<1> QED
  BY <1>1, <1>2, <1>3, <1>4, <1>5 DEF Run

\* Creator and writers of a file that has its name owe its removal.
LEMMA OwedStep ==
  ASSUME TypeOK, Linked, Opened, Owed, NEW p \in Proc, Run(p) \/ Kill(p)
  PROVE  Owed'
<1> SUFFICES ASSUME NEW n \in Input, dir'[Mono[n]] # None
             PROVE  /\ \E q \in Proc : Owes(q, n)'
                    /\ \A q \in by'[dir'[Mono[n]]] : Owes(q, n)'
  BY DEF Owed
<1>1. \A q \in Proc : Owes(q, n) => Owes(q, n)'
  BY OwesStep, MonoStep
<1>2. CASE OpenOut(p) /\ n = In(p) /\ by'[dir'[Mono[n]]] = {}
  BY <1>1, <1>2, WorkerOwes DEF OpenOut
<1>3. CASE dir'[Mono[n]] = dir[Mono[n]]
  <2>1. (\E q \in Proc : Owes(q, n)) /\ \A q \in by[dir[Mono[n]]] : Owes(q, n)
    BY <1>3 DEF Owed
  <2>2. FileOf(dir[Mono[n]], n, "mono")
    BY <1>3 DEF Linked
  <2>3. dir[Mono[n]] \in Inode
    BY <2>2, NoneIsNoFile
  <2>4. ASSUME NEW q \in by'[dir[Mono[n]]] PROVE Owes(q, n) /\ q \in Proc
    <3>1. CASE q \in by[dir[Mono[n]]]
      BY <2>1, <2>3, <3>1 DEF TypeOK
    <3>2. CASE q = p /\ pc[p] = "write" /\ dir[Mono[n]] = handle[p]
      <4>1. FileOf(handle[p], In(p), "mono")
        BY <3>2 DEF Opened
      <4>2. n = In(p)
        BY <2>2, <3>2, <4>1, FileIsOfOneInput
      <4> QED
        BY <3>2, <4>2, WorkerOwes
    <3> QED
      BY <2>3, <2>4, <3>1, <3>2, WritersStep
  <2> QED
    BY <1>1, <1>3, <2>1, <2>4
<1> QED
  BY <1>2, <1>3, MonoStep

-----------------------------------------------------------------------------
(* What a run has decoded, loaded and seen. *)

\* A decoded input stays decoded, a loaded slot loaded, and an ended run ended.
LEMMA GrowingStep ==
  ASSUME TypeOK, NEW p \in Proc, Run(p) \/ Kill(p), NEW q \in Proc
  PROVE  /\ decoded[q] \subseteq decoded'[q]
         /\ pc[q] = "end" => pc'[q] = "end"
         /\ loaded[q] \subseteq loaded'[q]
<1>0. /\ decoded \in [Proc -> SUBSET Slot] /\ loaded \in [Proc -> SUBSET Slot]
      /\ pc \in [Proc -> Steps]
  BY DEF TypeOK
<1>a. CASE q # p
  BY <1>a, OwnStep DEF Own
<1> SUFFICES /\ decoded[p] \subseteq decoded'[p]
             /\ pc[p] # "end"
             /\ loaded[p] \subseteq loaded'[p]
  BY <1>a
<1>1. CASE Decode(p)
  BY <1>0, <1>1 DEF Decode
<1>2. CASE Load(p)
  BY <1>0, <1>2 DEF Load
<1>3. CASE Start(p) \/ OpenTmp(p) \/ OpenInput(p) \/ OpenReader(p) \/ ReadTmp(p)
  BY <1>3 DEF Start, OpenTmp, OpenInput, OpenReader, ReadTmp
<1>4. CASE OpenOut(p) \/ WriteOut(p) \/ RemoveTmp(p) \/ Measure(p)
  BY <1>4 DEF OpenOut, WriteOut, RemoveTmp, Measure
<1>5. CASE Report(p) \/ RemoveA(p) \/ RemoveB(p) \/ Kill(p)
  BY <1>5 DEF Report, RemoveA, RemoveB, Kill, Over
<1> QED
  BY <1>1, <1>2, <1>3, <1>4, <1>5 DEF Run

\* resample is reached only by a successful decode.
LEMMA DecodingStep ==
  ASSUME TypeOK, Decoding, NEW p \in Proc, Run(p) \/ Kill(p)
  PROVE  Decoding'
<1> USE DEF Goto, ConvertReturns
<1> DEFINE L == {"resample", "read", "openout", "write", "remove"}
<1>0. /\ decoded \in [Proc -> SUBSET Slot] /\ slot \in [Proc -> Slot]
      /\ pc \in [Proc -> Steps]
  BY DEF TypeOK
<1>a. \A q \in Proc : q # p /\ pc'[q] \in L => slot'[q] \in decoded'[q]
  BY OwnStep DEF Own, Decoding
<1> SUFFICES ASSUME pc'[p] \in L PROVE slot'[p] \in decoded'[p]
  BY <1>a DEF Decoding
<1>b. pc[p] \in L => slot[p] \in decoded[p]
  BY DEF Decoding
<1>1. CASE Decode(p)
  BY <1>0, <1>1 DEF Decode
<1>2. CASE OpenReader(p) \/ ReadTmp(p)
  BY <1>0, <1>b, <1>2 DEF OpenReader, ReadTmp
<1>3. CASE OpenOut(p) \/ WriteOut(p) \/ RemoveTmp(p)
  BY <1>0, <1>b, <1>3 DEF OpenOut, WriteOut, RemoveTmp
<1>4. CASE Start(p) \/ OpenTmp(p) \/ OpenInput(p) \/ Load(p) \/ Measure(p)
  BY <1>0, <1>4 DEF Start, OpenTmp, OpenInput, Load, Measure
<1>5. CASE Report(p) \/ RemoveA(p) \/ RemoveB(p) \/ Kill(p)
  BY <1>0, <1>5 DEF Report, RemoveA, RemoveB, Kill
<1> QED
  BY <1>1, <1>2, <1>3, <1>4, <1>5 DEF Run

\* Every writer of an output had decoded its input.
LEMMA WrittenStep ==
  ASSUME TypeOK, Linked, Opened, Decoding, Written,
         NEW p \in Proc, Run(p) \/ Kill(p)
  PROVE  Written'
<1> SUFFICES ASSUME NEW n \in Input, NEW i \in Inode, FileOf(i, n, "mono"),
                    NEW q \in by'[i]
             PROVE  \E t \in decoded'[q] : Arg[q][t] = n
  BY DEF Written, FileOf
<1>1. CASE q \in by[i]
  <2>1. q \in Proc
    BY <1>1 DEF TypeOK
  <2>2. PICK t \in decoded[q] : Arg[q][t] = n
    BY <1>1 DEF Written
  <2> QED
    BY <2>1, <2>2, GrowingStep
<1>2. CASE q = p /\ pc[p] = "write" /\ i = handle[p]
  <2>1. FileOf(i, In(p), "mono")
    BY <1>2 DEF Opened
  <2>2. n = In(p)
    BY <2>1, FileIsOfOneInput
  <2>3. slot[p] \in decoded[p]
    BY <1>2 DEF Decoding
  <2> QED
    BY <1>2, <2>2, <2>3, GrowingStep DEF In
<1> QED
  BY <1>1, <1>2, WritersStep

\* The runs that had ended when another started are still at their end.
LEMMA HistoryStep ==
  ASSUME TypeOK, History, NEW p \in Proc, Run(p) \/ Kill(p)
  PROVE  History'
<1> SUFFICES ASSUME NEW r \in Proc, NEW q \in earlier'[r]
             PROVE  pc'[q] = "end"
  BY DEF History
<1>1. earlier'[r] = earlier[r] \/ earlier'[r] = {o \in Proc : pc[o] = "end"}
  <2>1. CASE r # p
    BY <2>1, OwnStep DEF Own
  <2>2. CASE r = p /\ Start(p)
    BY <2>2 DEF Start, TypeOK
  <2>3. CASE r = p /\ ~Start(p)
    <3>1. CASE OpenTmp(p) \/ OpenInput(p) \/ Decode(p) \/ OpenReader(p)
               \/ ReadTmp(p) \/ OpenOut(p) \/ WriteOut(p)
      BY <3>1 DEF OpenTmp, OpenInput, Decode, OpenReader, ReadTmp, OpenOut,
                  WriteOut
    <3>2. CASE RemoveTmp(p) \/ Load(p) \/ Measure(p) \/ Report(p)
               \/ RemoveA(p) \/ RemoveB(p) \/ Kill(p)
      BY <3>2 DEF RemoveTmp, Load, Measure, Report, RemoveA, RemoveB, Kill
    <3> QED
      BY <2>3, <3>1, <3>2 DEF Run
  <2> QED
    BY <2>1, <2>2, <2>3
<1>2. q \in Proc /\ pc[q] = "end"
  BY <1>1 DEF History, TypeOK
<1> QED
  BY <1>2, GrowingStep

\* A score is computed from two loaded files.
LEMMA LoadingStep ==
  ASSUME TypeOK, Loading, NEW p \in Proc, Run(p) \/ Kill(p)
  PROVE  Loading'
<1> USE DEF Goto, ConvertReturns
<1> DEFINE Fine(q) ==
      /\ pc[q] = "start" => \A s \in Slot : s \notin loaded[q]
      /\ pc[q] = "load" /\ slot[q] = "B" => "A" \in loaded[q]
      /\ pc[q] = "measure" \/ (pc[q] = "report" /\ err[q] = 0) \/ printed[q]
           => \A s \in Slot : s \in loaded[q]
<1>a. Loading' <=> \A q \in Proc : Fine(q)'
  BY DEF Loading
<1>b. \A q \in Proc : Fine(q)
  BY DEF Loading
<1>c. ASSUME NEW q \in Proc, q # p PROVE Fine(q)'
  BY <1>b, <1>c, OwnStep DEF Own
<1> SUFFICES Fine(p)'
  BY <1>a, <1>c
<1>d. Fine(p)
  BY <1>b
<1>0. /\ loaded \in [Proc -> SUBSET Slot] /\ slot \in [Proc -> Slot]
      /\ pc \in [Proc -> Steps] /\ err \in [Proc -> 0 .. 2]
      /\ printed \in [Proc -> BOOLEAN]
  BY DEF TypeOK
<1>1. CASE Load(p)
  BY <1>0, <1>1, <1>d DEF Load, Slot
<1>2. CASE Measure(p)
  BY <1>0, <1>2, <1>d DEF Measure
<1>3. CASE Report(p)
  BY <1>0, <1>3, <1>d DEF Report
<1>4. CASE Start(p) \/ OpenTmp(p) \/ OpenInput(p) \/ OpenReader(p) \/ ReadTmp(p)
  BY <1>0, <1>4, <1>d DEF Start, OpenTmp, OpenInput, OpenReader, ReadTmp
<1>5. CASE Decode(p) \/ OpenOut(p) \/ WriteOut(p) \/ RemoveTmp(p)
  BY <1>0, <1>5, <1>d DEF Decode, OpenOut, WriteOut, RemoveTmp
<1>6. CASE RemoveA(p) \/ RemoveB(p) \/ Kill(p)
  BY <1>0, <1>6, <1>d DEF RemoveA, RemoveB, Kill
<1> QED
  BY <1>1, <1>2, <1>3, <1>4, <1>5, <1>6 DEF Run

\* What is loaded was written by runs that had decoded the input and had not
\* ended when the loading run started.
LEMMA ProvenanceStep ==
  ASSUME IInv, NEW p \in Proc, Run(p) \/ Kill(p)
  PROVE  Provenance'
<1> USE DEF Goto
<1>0. /\ TypeOK /\ Linked /\ Owed /\ Written /\ History /\ Loading
      /\ Provenance
      /\ loaded \in [Proc -> SUBSET Slot] /\ slot \in [Proc -> Slot]
      /\ source \in [Proc -> [Slot -> SUBSET Proc]]
      /\ pc \in [Proc -> Steps] /\ earlier \in [Proc -> SUBSET Proc]
      /\ by \in [Inode -> SUBSET Proc]
  BY DEF IInv, TypeOK
<1> SUFFICES ASSUME NEW r \in Proc, NEW s \in Slot, s \in loaded'[r],
                    NEW q \in source'[r][s]
             PROVE  /\ \E t \in decoded'[q] : Arg[q][t] = Arg[r][s]
                    /\ q # r => q \notin earlier'[r]
  BY DEF Provenance
<1>a. ASSUME q \in Proc, \E t \in decoded[q] : Arg[q][t] = Arg[r][s]
      PROVE  \E t \in decoded'[q] : Arg[q][t] = Arg[r][s]
  BY <1>0, <1>a, GrowingStep
<1>b. ASSUME s \in loaded[r], source'[r] = source[r], earlier'[r] = earlier[r]
      PROVE  /\ \E t \in decoded'[q] : Arg[q][t] = Arg[r][s]
             /\ q # r => q \notin earlier'[r]
  <2>1. q \in Proc
    BY <1>0, <1>b
  <2>2. /\ \E t \in decoded[q] : Arg[q][t] = Arg[r][s]
        /\ q # r => q \notin earlier[r]
    BY <1>0, <1>b DEF Provenance
  <2> QED
    BY <1>a, <1>b, <2>1, <2>2
<1>1. CASE r # p
  BY <1>0, <1>b, <1>1, OwnStep DEF Own
<1>2. CASE r = p /\ Load(p)
  <2>1. earlier'[r] = earlier[r]
    BY <1>2 DEF Load
  <2>2. CASE s = slot[p] /\ dir[Mono[In(p)]] # None
             /\ source' = [source EXCEPT ![p][slot[p]] = by[dir[Mono[In(p)]]]]
    <3> DEFINE i == dir[Mono[In(p)]]
    <3>1. In(p) \in Input /\ Arg[r][s] = In(p)
      BY <1>0, <1>2, <2>2, WorkingNames DEF In
    <3>2. FileOf(i, In(p), "mono")
      BY <1>0, <2>2, <3>1 DEF Linked
    <3>3. i \in Inode
      BY <3>2, NoneIsNoFile
    <3>4. q \in by[i] /\ q \in Proc
      BY <1>0, <1>2, <2>2, <3>3
    <3>5. \E t \in decoded[q] : Arg[q][t] = In(p)
      BY <1>0, <3>1, <3>2, <3>3, <3>4 DEF Written
    <3>6. Owes(q, In(p))
      BY <1>0, <2>2, <3>1, <3>4 DEF Owed
    <3>7. q \notin earlier[r]
      BY <1>0, <3>6 DEF Owes, History
    <3> QED
      BY <1>a, <2>1, <3>1, <3>4, <3>5, <3>7
  <2>3. CASE s \in loaded[r] /\ source'[r][s] = source[r][s]
    <3>1. q \in Proc
      BY <1>0, <2>3
    <3>2. /\ \E t \in decoded[q] : Arg[q][t] = Arg[r][s]
          /\ q # r => q \notin earlier[r]
      BY <1>0, <2>3 DEF Provenance
    <3> QED
      BY <1>a, <2>1, <3>1, <3>2
  <2> QED
    <3>1. CASE UNCHANGED <<loaded, source>>
      BY <2>3, <3>1
    <3>2. CASE /\ dir[Mono[In(p)]] # None
               /\ loaded' = [loaded EXCEPT ![p] = @ \cup {slot[p]}]
               /\ source' = [source EXCEPT ![p][slot[p]] = by[dir[Mono[In(p)]]]]
      <4>1. s # slot[p] => s \in loaded[r] /\ source'[r][s] = source[r][s]
        BY <1>0, <1>2, <3>2
      <4> QED
        BY <2>2, <2>3, <3>2, <4>1
    <3> QED
      BY <1>2, <3>1, <3>2 DEF Load
<1>3. CASE r = p /\ Start(p)
  BY <1>0, <1>3 DEF Start, Loading
<1>4. CASE r = p /\ ~Load(p) /\ ~Start(p)
  <2>1. CASE OpenTmp(p) \/ OpenInput(p) \/ Decode(p) \/ OpenReader(p)
             \/ ReadTmp(p) \/ OpenOut(p) \/ WriteOut(p)
    BY <1>b, <2>1 DEF OpenTmp, OpenInput, Decode, OpenReader, ReadTmp,
                      OpenOut, WriteOut
  <2>2. CASE RemoveTmp(p) \/ Measure(p) \/ Report(p) \/ RemoveA(p)
             \/ RemoveB(p) \/ Kill(p)
    BY <1>b, <2>2 DEF RemoveTmp, Measure, Report, RemoveA, RemoveB, Kill
  <2> QED
    BY <1>4, <2>1, <2>2 DEF Run
<1> QED
  BY <1>1, <1>2, <1>3, <1>4

-----------------------------------------------------------------------------
(* The invariant, and what it implies. *)

\* IInv holds of the initial directory, in which only the inputs exist.
LEMMA InitInductive == Init => IInv
<1> SUFFICES ASSUME Init PROVE IInv
  OBVIOUS
<1>1. TypeOK
  <2>1. \A n \in Input : n \in Name
    BY InputNames DEF Input
  <2>2. dir \in [Name -> Inode \cup {None}]
    BY <2>1 DEF Init, Inode
  <2>3. \A p \in Proc : handle[p] # None <=>
           pc[p] \in {"openin", "decode", "read", "write"}
    BY DEF Init
  <2> QED
    BY <2>2, <2>3 DEF Init, TypeOK, Shape, Steps, Slot
<1>2. Linked
  <2> SUFFICES ASSUME NEW n \in Input
               PROVE dir[n] = n /\ dir[Tmp[n]] = None /\ dir[Mono[n]] = None
    BY DEF Linked
  <2>1. /\ n \in Name /\ Tmp[n] \in Name /\ Mono[n] \in Name
    <3>1. PICK q \in Proc, s \in Slot : n = Arg[q][s]
      BY DEF Input
    <3> QED
      BY <3>1, InputNames
  <2>2. Tmp[n] \notin Input /\ Mono[n] \notin Input
    BY NamesAssumption, Zenon
  <2> QED
    BY <2>1, <2>2 DEF Init
<1>3. Owed
  <2> SUFFICES ASSUME NEW n \in Input PROVE dir[Mono[n]] = None
    BY DEF Owed
  <2>1. Mono[n] \in Name /\ Mono[n] \notin Input
    BY NamesAssumption
  <2> QED
    BY <2>1 DEF Init
<1>4. Opened /\ Decoding /\ Written /\ History /\ Loading /\ Provenance
  BY DEF Init, Opened, Decoding, Written, History, Loading, Provenance
<1> QED
  BY <1>1, <1>2, <1>3, <1>4 DEF IInv

\* Every step keeps IInv.
LEMMA NextInductive == IInv /\ [Next]_vars => IInv'
<1> SUFFICES ASSUME IInv, [Next]_vars PROVE IInv'
  OBVIOUS
<1>0. /\ TypeOK /\ Linked /\ Opened /\ Owed /\ Decoding /\ Written
      /\ History /\ Loading /\ Provenance
  BY DEF IInv
<1>1. CASE UNCHANGED vars
  <2> USE <1>0, <1>1 DEF vars, FileOf
  <2>1. TypeOK'
    BY TypeStep
  <2>2. Linked'
    BY DEF Linked
  <2>3. Opened'
    BY DEF Opened, In
  <2>4. Owed'
    BY DEF Owed, Owes
  <2>5. Decoding'
    BY DEF Decoding
  <2>6. Written'
    BY DEF Written
  <2>7. History' /\ Loading'
    BY DEF History, Loading
  <2>8. Provenance'
    BY DEF Provenance
  <2> QED
    BY <2>1, <2>2, <2>3, <2>4, <2>5, <2>6, <2>7, <2>8 DEF IInv
<1>2. ASSUME NEW p \in Proc, Run(p) \/ Kill(p) PROVE IInv'
  <2>1. TypeOK'
    BY <1>0, TypeStep
  <2>2. Linked' /\ Opened' /\ Owed'
    BY <1>0, <1>2, LinkedStep, OpenedStep, OwedStep
  <2>3. Decoding' /\ Written'
    BY <1>0, <1>2, DecodingStep, WrittenStep
  <2>4. History' /\ Loading' /\ Provenance'
    BY <1>0, <1>2, HistoryStep, LoadingStep, ProvenanceStep
  <2> QED
    BY <2>1, <2>2, <2>3, <2>4 DEF IInv
<1> QED
  BY <1>1, <1>2 DEF Next, Done

\* IInv holds in every state of every execution.
THEOREM Inductive == Spec => []IInv
  BY InitInductive, NextInductive, PTL DEF Spec

\* Every variable keeps its type, and a run has a file open only in the steps
\* that use one: no path through main leaks a stream.
THEOREM TypeCorrect == Spec => []TypeOK
<1>1. IInv => TypeOK
  BY DEF IInv
<1> QED
  BY <1>1, Inductive, PTL

\* main's two remove() calls clean up after every run that returns, for any
\* number of runs in any interleaving: a mono file in the directory is one that
\* a run has still to remove, or one that a dead run left.
THEOREM LeftoversCorrect == Spec => []LeftoversAreOwed
<1>1. IInv => LeftoversAreOwed
  BY DEF IInv, Owed, LeftoversAreOwed
<1> QED
  BY <1>1, Inductive, PTL

\* A printed score was computed from bytes of runs that decoded the same
\* inputs, none of which had ended normally before this run started.
THEOREM ScoreProvenanceCorrect == Spec => []ScoreProvenance
<1>1. IInv => ScoreProvenance
  BY DEF IInv, Loading, Provenance, ScoreProvenance
<1> QED
  BY <1>1, Inductive, PTL

\* No step truncates, writes or removes a file the program was given.
THEOREM InputsPreservedCorrect == Spec => InputsPreserved
<1>1. IInv /\ [Next]_vars => [InputsKept]_vars
  <2> SUFFICES ASSUME IInv, NEW p \in Proc, Run(p) \/ Kill(p), NEW n \in Input
               PROVE  dir'[n] = dir[n] /\ shape'[n] = shape[n] /\ by'[n] = by[n]
    BY DEF Next, Done, InputsKept
  <2>0. /\ TypeOK /\ Linked /\ Opened
        /\ shape \in [Inode -> Shape] /\ by \in [Inode -> SUBSET Proc]
    BY DEF IInv, TypeOK
  <2>1. dir'[n] = dir[n]
    BY <2>0, LinkedStep DEF Linked
  <2>2. n \in Name /\ n \in Inode
    <3>1. PICK q \in Proc, s \in Slot : n = Arg[q][s]
      BY DEF Input
    <3> QED
      BY <3>1, InputNames DEF Inode
  <2>3. ASSUME NEW i, NEW m, NEW k \in {"tmp", "mono"}, FileOf(i, m, k)
        PROVE  i # n /\ i \in Inode
    BY <2>2, <2>3, NoneIsNoFile
  <2>4. shape'[n] = shape[n] /\ by'[n] = by[n]
    <3>1. CASE OpenTmp(p)
      <4>1. CASE OpenTruncated(p, Tmp[In(p)], "tmp")
        BY <2>0, <2>2, <2>3, <4>1, OpenTruncatedFile
      <4> QED
        BY <3>1, <4>1 DEF OpenTmp, files
    <3>2. CASE OpenOut(p)
      <4>1. CASE OpenTruncated(p, Mono[In(p)], "mono")
        BY <2>0, <2>2, <2>3, <4>1, OpenTruncatedFile
      <4> QED
        BY <3>2, <4>1 DEF OpenOut, files
    <3>3. CASE Decode(p)
      <4>1. FileOf(handle[p], In(p), "tmp")
        BY <2>0, <3>3 DEF Decode, Opened
      <4> QED
        BY <2>0, <2>2, <2>3, <3>3, <4>1 DEF Decode
    <3>4. CASE WriteOut(p)
      <4>1. FileOf(handle[p], In(p), "mono")
        BY <2>0, <3>4 DEF WriteOut, Opened
      <4> QED
        BY <2>0, <2>2, <2>3, <3>4, <4>1 DEF WriteOut
    <3>5. CASE Start(p) \/ OpenInput(p) \/ OpenReader(p) \/ ReadTmp(p)
               \/ RemoveTmp(p)
      BY <3>5 DEF Start, OpenInput, OpenReader, ReadTmp, RemoveTmp, files
    <3>6. CASE Load(p) \/ Measure(p) \/ Report(p) \/ RemoveA(p) \/ RemoveB(p)
               \/ Kill(p)
      BY <3>6 DEF Load, Measure, Report, RemoveA, RemoveB, Kill, files
    <3> QED
      BY <3>1, <3>2, <3>3, <3>4, <3>5, <3>6 DEF Run
  <2> QED
    BY <2>1, <2>4
<1> QED
  BY <1>1, Inductive, PTL DEF Spec, InputsPreserved

=============================================================================
