--------------------------- MODULE MediaCreateProofs ---------------------------
(***************************************************************************)
(* Proofs about MediaCreate, for every image, every length of the          *)
(* descriptors and every way the bytes may arrive.                         *)
(***************************************************************************)
EXTENDS MediaCreate, SequenceTheorems, TLAPS

-------------------------------------------------------------------------------
(* The inductive invariant                                                 *)

(* What the image has been found to be when the search begins.             *)
Described == /\ job.size \geq PvdOffset + PvdLen + SvdLen
             /\ job.named
             /\ ~job.tagged

(* Each struct is read from its own place, and there is more to read.      *)
InPlace ==
    /\ step = "pvd_read" => /\ pos = PvdOffset + offset
                            /\ length = PvdLen
                            /\ offset < length
    /\ step = "svd_read" => /\ pos = PvdOffset + PvdLen + offset
                            /\ length = SvdLen
                            /\ offset < length
                            /\ job.named
    /\ step = "extent_read" => /\ Described
                               /\ index \in 1..PathLen
                               /\ \A i \in 1..index - 1 : job.dirs[i].found
                               /\ pos = job.dirs[index].at + offset
                               /\ length = job.dirs[index].len
                               /\ offset < length

ExtentShort == \E i \in 1..PathLen : job.size < job.dirs[i].at + job.dirs[i].len

(* The search ends as the directories say.                                 *)
SearchJustified ==
    /\ step \in {"idle"} \cup Callbacks => step = "bootinfo" \/ inner = "none"
    /\ step = "bootinfo" =>
          /\ Described
          /\ inner \in {"io", "found", "not_bootable", "no_extent"}
          /\ inner = "found" => BootinfoFound
          /\ inner = "not_bootable" => ~BootinfoFound
          /\ inner = "no_extent" => ExtentShort

(* Nothing has happened before the request is made.                        *)
Fresh == step = "idle" => /\ answer = "none" /\ media = "none"
                          /\ stream = "none" /\ caller = "idle"

IInv == /\ TypeOK
        /\ Fresh
        /\ ReadsInBounds
        /\ AnsweredOnce
        /\ AnswerJustified
        /\ InPlace
        /\ SearchJustified

-------------------------------------------------------------------------------
(* Every job has the fields it should.                                     *)
LEMMA JobType ==
    ASSUME TypeOK
    PROVE  /\ job \in Job
           /\ job.size \in Nat
           /\ job.named \in BOOLEAN /\ job.tagged \in BOOLEAN
           /\ job.required \in BOOLEAN /\ job.seekable \in BOOLEAN
           /\ \A i \in 1..PathLen : /\ job.dirs[i].at \in Nat
                                    /\ job.dirs[i].len \in Nat
                                    /\ job.dirs[i].found \in BOOLEAN
<1>1. job \in Job
    BY JobsAssumption DEF TypeOK
<1>2. job.dirs \in [1..PathLen -> Extent]
    BY <1>1 DEF Job
<1>3. \A i \in 1..PathLen : job.dirs[i] \in Extent
    BY <1>2
<1>4. QED
    BY <1>1, <1>3 DEF Job, Extent

(* The bytes a read stores continue the run of bytes in the struct, and    *)
(* there is room for them.                                                 *)
LEMMA Stored ==
    ASSUME TypeOK, ReadsInBounds, step \in Reads, NEW n \in Bytes,
           NEW b, b = SubSeq(buf, 1, at) \o [i \in 1..n |-> pos + i - 1]
    PROVE  /\ n \in Nat \ {0}
           /\ b \in Seq(Nat)
           /\ Len(b) = offset + n
           /\ \A i \in 1..offset + n : b[i] = pos - offset + i - 1
           /\ offset + n \leq length
           /\ pos + n \leq job.size
<1>1. n \in 1..count /\ n \leq Available /\ count \in Nat
    BY DEF Bytes, TypeOK
<1>2. pos \in Nat /\ offset \in Nat /\ length \in Nat /\ job.size \in Nat
    BY JobType DEF TypeOK
<1>3. at = offset /\ at + count = length
    BY DEF ReadsInBounds
<1>4. pos + n \leq job.size
    BY <1>1, <1>2 DEF Available
<1> DEFINE s == SubSeq(buf, 1, offset)
           t == [i \in 1..n |-> pos + i - 1]
<1>5. \A i \in 1..n : pos + i - 1 \in Nat
    BY <1>1, <1>2
<1>6. t \in Seq(Nat) /\ Len(t) = n /\ \A i \in 1..n : t[i] = pos + i - 1
    BY <1>1, <1>5
<1>7. s \in Seq(Nat) /\ Len(s) = offset
      /\ \A i \in 1..offset : s[i] = pos - offset + i - 1
    <2>1. CASE offset = 0
        <3>1. s = <<>>
            BY <2>1, SubSeqEmpty
        <3>2. QED
            BY <2>1, <3>1, EmptySeq
    <2>2. CASE offset > 0
        <3>1. /\ Len(buf) = offset /\ buf \in Seq(Nat)
              /\ \A i \in 1..offset : buf[i] = pos - offset + i - 1
            BY <2>2 DEF ReadsInBounds, TypeOK
        <3>2. s = buf
            BY <3>1, SubSeqFull
        <3>3. QED
            BY <3>1, <3>2
    <2>3. QED
        BY <1>2, <2>1, <2>2
<1>8. b = s \o t
    BY <1>3
<1> HIDE DEF s, t
<1>9. /\ b \in Seq(Nat) /\ Len(b) = offset + n
      /\ \A i \in 1..offset + n : b[i] = IF i \leq offset THEN s[i] ELSE t[i - offset]
    <2>1. s \in Seq(Nat) /\ t \in Seq(Nat)
        BY <1>6, <1>7
    <2>2. /\ s \o t \in Seq(Nat)
          /\ Len(s \o t) = Len(s) + Len(t)
          /\ \A i \in 1..Len(s) + Len(t) :
                (s \o t)[i] = IF i \leq Len(s) THEN s[i] ELSE t[i - Len(s)]
        BY <2>1, ConcatProperties
    <2>3. Len(s) = offset /\ Len(t) = n
        BY <1>6, <1>7
    <2>4. QED
        BY <1>8, <2>2, <2>3
<1>10. ASSUME NEW i \in 1..offset + n
       PROVE  b[i] = pos - offset + i - 1
    <2>1. CASE i \leq offset
        <3>1. i \in 1..offset
            BY <1>2, <2>1
        <3>2. QED
            BY <1>7, <1>9, <2>1, <3>1
    <2>2. CASE ~(i \leq offset)
        <3>1. i - offset \in 1..n
            BY <1>1, <1>2, <2>2
        <3>2. b[i] = t[i - offset]
            BY <1>9, <2>2
        <3>3. t[i - offset] = pos + (i - offset) - 1
            BY <1>6, <3>1
        <3>4. i \in Int
            BY <1>1, <1>2
        <3>5. pos + (i - offset) - 1 = pos - offset + i - 1
            BY <1>2, <3>4
        <3>6. QED
            BY <3>2, <3>3, <3>5
    <2>3. QED
        BY <2>1, <2>2
<1>11. offset + n \leq length /\ n \in Nat \ {0}
    BY <1>1, <1>2, <1>3 DEF TypeOK
<1>12. QED
    BY <1>4, <1>9, <1>10, <1>11

-------------------------------------------------------------------------------
(* The steps preserve the inductive invariant                              *)

(* What is said of the image does not change while the job does not.       *)
LEMMA SameJob ==
    ASSUME job' = job
    PROVE  /\ Described' = Described
           /\ BootinfoFound' = BootinfoFound
           /\ ExtentShort' = ExtentShort
  BY DEF Described, BootinfoFound, ExtentShort

(* A request, and its cancellation.                                        *)
LEMMA CallerStep == IInv /\ (CreateFromLocation \/ Cancel) => IInv'
<1> SUFFICES ASSUME IInv, CreateFromLocation \/ Cancel PROVE IInv'
    OBVIOUS
<1> USE DEF CreateFromLocation, Cancel, readVars, ownVars
<1>1. TypeOK'
    BY DEF IInv, TypeOK, Callbacks
<1>2. ReadsInBounds'
    BY DEF IInv, ReadsInBounds, Reads
<1>3. AnsweredOnce'
    BY DEF IInv, Fresh, AnsweredOnce, Callbacks, Reads
<1>4. AnswerJustified'
    BY DEF IInv, AnswerJustified, BootinfoFound
<1>5. InPlace' /\ SearchJustified' /\ Fresh'
    BY SameJob DEF IInv, Fresh, InPlace, SearchJustified
<1>6. QED
    BY <1>1, <1>2, <1>3, <1>4, <1>5 DEF IInv

(* A callback that returns an error the image deserves.                    *)
LEMMA ReturnErrorStep ==
    ASSUME IInv, step \in Callbacks, NEW e \in Errors, ReturnError(e),
           stream' \in {"none", "held", "released"}, UNCHANGED job,
           bootable' \in BOOLEAN, pos' \in Nat, at' \in Nat, count' \in Nat,
           offset' \in Nat, length' \in Nat, buf' \in Seq(Nat),
           UNCHANGED <<index, inner, caller, cancelled>>,
           e = "not_bootable" => job.required /\ ~job.tagged /\ ~BootinfoFound,
           e = "no_pvd" => job.size < PvdOffset + PvdLen,
           e = "insufficient" => ~job.named,
           e = "no_svd" => job.size < PvdOffset + PvdLen + SvdLen,
           e = "no_extent" => ~job.tagged /\ ExtentShort
    PROVE  IInv'
<1> USE DEF ReturnError
<1>0. e # "none" /\ e # "media"
    BY DEF Errors
<1>1. TypeOK'
    BY DEF IInv, TypeOK
<1>2. ReadsInBounds' /\ InPlace' /\ SearchJustified' /\ Fresh'
    BY DEF IInv, ReadsInBounds, Reads, InPlace, SearchJustified, Fresh,
        Callbacks
<1>3. AnsweredOnce'
    BY <1>0 DEF IInv, AnsweredOnce, Callbacks, Reads
<1>4. AnswerJustified'
    BY <1>0 DEF AnswerJustified, BootinfoFound, ExtentShort
<1>5. QED
    BY <1>1, <1>2, <1>3, <1>4 DEF IInv

LEMMA OpenAndSkipStep == IInv /\ OpenAndSkip => IInv'
<1> SUFFICES ASSUME IInv, OpenAndSkip PROVE IInv'
    OBVIOUS
<1>1. CASE LocationRead
    <2> USE <1>1 DEF LocationRead, readVars
    <2>1. TypeOK'
        BY DEF IInv, TypeOK, Callbacks
    <2>2. ReadsInBounds' /\ InPlace' /\ SearchJustified' /\ Fresh'
        BY DEF IInv, ReadsInBounds, Reads, InPlace, SearchJustified, Fresh,
        Callbacks
    <2>3. AnsweredOnce' /\ AnswerJustified'
        BY DEF IInv, AnsweredOnce, AnswerJustified, Callbacks, Reads
    <2>4. QED
        BY <2>1, <2>2, <2>3 DEF IInv
<1>2. CASE LocationReadFails \/ LocationSkippedFails
    <2> USE <1>2 DEF LocationReadFails, LocationSkippedFails, readVars
    <2>1. step \in Callbacks /\ UNCHANGED job
        BY DEF Callbacks
    <2>2. PICK e \in {"io", "no_descriptors"} : ReturnError(e)
        OBVIOUS
    <2>3. stream' \in {"none", "held", "released"}
        BY DEF IInv, TypeOK
    <2>4. QED
        BY <2>1, <2>2, <2>3, ReturnErrorStep DEF IInv, TypeOK, Errors
<1>3. CASE LocationSkipped
    <2> USE <1>3 DEF LocationSkipped, StartRead, ownVars
    <2>1. TypeOK'
        BY LengthsAssumption DEF IInv, TypeOK, Callbacks, Reads
    <2>2. ReadsInBounds' /\ InPlace' /\ SearchJustified' /\ Fresh'
        BY LengthsAssumption DEF IInv, ReadsInBounds, Reads, InPlace, SearchJustified,
            Fresh, Callbacks
    <2>3. AnsweredOnce' /\ AnswerJustified'
        BY DEF IInv, AnsweredOnce, AnswerJustified, Callbacks, Reads
    <2>4. QED
        BY <2>1, <2>2, <2>3 DEF IInv
<1>4. QED
    BY <1>1, <1>2, <1>3 DEF OpenAndSkip

(* A read of part of a struct.                                             *)
LEMMA ReadContinuesStep ==
    ASSUME IInv, NEW callback \in Reads, ReadContinues(callback)
    PROVE  IInv'
<1> USE DEF ReadContinues, ReadOn
<1>1. PICK n \in Bytes : Store(n) /\ ReadOn(n)
    OBVIOUS
<1>2. step \in Reads
    OBVIOUS
<1>3. /\ n \in Nat \ {0}
      /\ buf' \in Seq(Nat)
      /\ Len(buf') = offset + n
      /\ \A i \in 1..offset + n : buf'[i] = pos - offset + i - 1
      /\ offset + n \leq length
    BY <1>1, <1>2, Stored DEF Store, IInv
<1>4. offset \in Nat /\ length \in Nat /\ pos \in Nat /\ offset + n < length
    BY <1>1 DEF IInv, TypeOK, Fills
<1>5. TypeOK'
    BY <1>1, <1>3, <1>4 DEF IInv, TypeOK, Store, ownVars
<1>6. ReadsInBounds'
    <2>1. \A i \in 1..offset' : buf'[i] = pos' - offset' + i - 1
        <3>1. pos' - offset' = pos - offset
            BY <1>1, <1>3, <1>4 DEF Store
        <3>2. QED
            BY <1>1, <1>3, <3>1
    <2>2. QED
        BY <1>1, <1>3, <1>4, <2>1 DEF ReadsInBounds
<1>7. InPlace'
    <2>1. step' = step /\ UNCHANGED <<job, length, index>>
          /\ pos' = pos + n /\ offset' = offset + n /\ offset' < length'
        BY <1>1, <1>4 DEF Store
    <2>2. \A i \in 1..PathLen : job.dirs[i].at \in Nat
        BY JobType DEF IInv
    <2>3. CASE step = "pvd_read"
        BY <1>3, <1>4, <2>1, <2>3, LengthsAssumption DEF IInv, InPlace
    <2>4. CASE step = "svd_read"
        BY <1>3, <1>4, <2>1, <2>4, LengthsAssumption DEF IInv, InPlace
    <2>5. CASE step = "extent_read"
        <3>1. PICK d \in Nat : d = job.dirs[index].at /\ pos = d + offset
            BY <2>2, <2>5 DEF IInv, InPlace
        <3>2. pos' = job.dirs[index].at + offset'
            <4>1. pos' = pos + n /\ offset' = offset + n /\ pos = d + offset
                BY <2>1, <3>1
            <4>2. n \in Nat /\ offset \in Nat
                BY <1>3, <1>4
            <4> HIDE DEF ReadContinues, ReadOn
            <4>3. pos' = d + offset'
                BY <4>1, <4>2
            <4>4. QED
                BY <3>1, <4>3
        <3>3. /\ Described'
              /\ index' \in 1..PathLen
              /\ \A i \in 1..index' - 1 : job'.dirs[i].found
              /\ length' = job'.dirs[index'].len
            BY <2>1, <2>5, SameJob DEF IInv, InPlace
        <3>4. pos' = job'.dirs[index'].at + offset'
            BY <2>1, <3>2
        <3>5. step' = "extent_read"
            BY <2>1, <2>5
        <3>6. QED
            BY <2>1, <3>3, <3>4, <3>5 DEF InPlace
    <2>6. QED
        BY <2>3, <2>4, <2>5 DEF Reads
<1>8. SearchJustified' /\ Fresh'
    BY <1>1 DEF IInv, SearchJustified, Fresh, Reads, Callbacks
<1>9. AnsweredOnce' /\ AnswerJustified'
    BY <1>1 DEF IInv, AnsweredOnce, AnswerJustified, Callbacks, Reads, ownVars
<1>10. QED
    BY <1>5, <1>6, <1>7, <1>8, <1>9 DEF IInv

(* A step that goes on to read a struct.                                   *)
LEMMA StartReadStep ==
    ASSUME IInv, NEW callback \in Reads, NEW len \in Nat \ {0},
           StartRead(callback, len), step \in Reads,
           UNCHANGED <<job, inner, bootable, ownVars, caller, cancelled>>,
           pos' \in Nat, buf' \in Seq(Nat), index' \in 1..PathLen + 1,
           InPlace'
    PROVE  IInv'
<1> USE DEF StartRead, ownVars
<1>1. TypeOK'
    BY DEF IInv, TypeOK, Callbacks
<1>2. ReadsInBounds'
    BY DEF ReadsInBounds
<1>3. SearchJustified' /\ Fresh'
    BY DEF IInv, SearchJustified, Fresh, Reads, Callbacks
<1>4. AnsweredOnce'
    BY DEF IInv, AnsweredOnce, Callbacks, Reads
<1>5. AnswerJustified'
    BY DEF IInv, AnswerJustified, BootinfoFound
<1>6. QED
    BY <1>1, <1>2, <1>3, <1>4, <1>5 DEF IInv

(* A step after which no callback is left to run: nothing is answered.     *)
LEMMA LostStep ==
    ASSUME IInv, step \in Reads, step' = "none",
           UNCHANGED <<job, inner, bootable, ownVars, caller, cancelled>>,
           pos' \in Nat, at' \in Nat, count' \in Nat, offset' \in Nat,
           length' \in Nat, buf' \in Seq(Nat), index' \in 1..PathLen + 1
    PROVE  IInv'
<1> USE DEF ownVars
<1>1. TypeOK'
    BY DEF IInv, TypeOK
<1>2. ReadsInBounds' /\ InPlace' /\ SearchJustified' /\ Fresh'
    BY DEF IInv, ReadsInBounds, Reads, InPlace, SearchJustified, Fresh, Callbacks
<1>3. AnsweredOnce'
    BY DEF IInv, AnsweredOnce, Callbacks, Reads
<1>4. AnswerJustified'
    BY DEF IInv, AnswerJustified, BootinfoFound
<1>5. QED
    BY <1>1, <1>2, <1>3, <1>4 DEF IInv

(* A directory that has no bytes is never read.                            *)
LEMMA EmptyExtentStep ==
    ASSUME IInv, step \in Reads, NEW dir, dir.len = 0, StartExtent(dir),
           UNCHANGED <<job, inner, bootable, ownVars, caller, cancelled>>,
           pos' \in Nat, buf' \in Seq(Nat), index' \in 1..PathLen + 1
    PROVE  IInv'
<1>1. step' = "none" /\ at' = 0 /\ count' = 0 /\ offset' = 0 /\ length' = 0
    BY DEF StartExtent, StartRead
<1>2. QED
    BY <1>1, LostStep

(* The last read of a struct makes it whole.                               *)
LEMMA LastBytes ==
    ASSUME IInv, step \in Reads, NEW n \in Bytes, Fills(n),
           buf' = SubSeq(buf, 1, at) \o [i \in 1..n |-> pos + i - 1]
    PROVE  /\ n \in Nat
           /\ buf' \in Seq(Nat)
           /\ offset + n = length
           /\ buf' = Span(pos - offset, length)
           /\ pos + n \in Nat
           /\ pos + n \leq job.size
<1>1. TypeOK /\ ReadsInBounds
    BY DEF IInv
<1>2. /\ n \in Nat \ {0}
      /\ buf' \in Seq(Nat)
      /\ Len(buf') = offset + n
      /\ \A i \in 1..offset + n : buf'[i] = pos - offset + i - 1
      /\ offset + n \leq length
      /\ pos + n \leq job.size
    BY <1>1, Stored
<1>3. n \in Nat /\ offset \in Nat /\ length \in Nat /\ pos \in Nat
    BY <1>1, <1>2 DEF TypeOK
<1>4. offset + n = length /\ pos + n \in Nat
    BY <1>2, <1>3 DEF Fills
<1>5. buf' = [i \in 1..length |-> buf'[i]]
    BY <1>2, <1>4
<1>6. \A i \in 1..length : buf'[i] = (pos - offset) + i - 1
    BY <1>2, <1>4
<1>7. buf' = Span(pos - offset, length)
    BY <1>5, <1>6 DEF Span
<1>8. QED
    BY <1>2, <1>3, <1>4, <1>7

LEMMA LastRead ==
    ASSUME IInv, step \in Reads, NEW n \in Bytes, Fills(n), Store(n)
    PROVE  /\ n \in Nat
           /\ buf' \in Seq(Nat) /\ pos' \in Nat
           /\ pos' = pos + n /\ offset + n = length
           /\ pos' \leq job.size
  BY LastBytes DEF Store

LEMMA ReadPvdStep == IInv /\ ReadPvd => IInv'
<1> SUFFICES ASSUME IInv, ReadPvd PROVE IInv'
    OBVIOUS
<1>1. CASE ReadContinues("pvd_read")
    BY <1>1, ReadContinuesStep DEF Reads
<1>2. CASE ReadFails("pvd_read", "no_pvd")
    <2> USE <1>2 DEF ReadFails, readVars
    <2>1. step \in Callbacks /\ UNCHANGED job /\ stream' = "released"
        BY DEF Callbacks, Reads
    <2>2. PICK e \in {"io", "no_pvd"} : ReturnError(e) /\ (e = "no_pvd" => AtEnd)
        OBVIOUS
    <2>3. AtEnd => job.size < PvdOffset + PvdLen
        <3>1. /\ pos = PvdOffset + offset /\ length = PvdLen /\ offset < length
              /\ at = offset /\ at + count = length
            BY DEF IInv, InPlace, ReadsInBounds, Reads
        <3>2. /\ pos \in Nat /\ offset \in Nat /\ count \in Nat
              /\ job.size \in Nat
            BY JobType DEF IInv, TypeOK
        <3>3. QED
            BY <3>1, <3>2, LengthsAssumption DEF AtEnd, Available
    <2>4. QED
        BY <2>1, <2>2, <2>3, ReturnErrorStep DEF IInv, TypeOK, Errors
<1>3. CASE PvdInsufficient
    <2> USE <1>3 DEF PvdInsufficient
    <2>1. PICK n \in Bytes : Fills(n) /\ Store(n) /\ StopReading(n)
        OBVIOUS
    <2>2. buf' \in Seq(Nat) /\ pos' \in Nat /\ n \in Nat
        BY <2>1, LastRead DEF Reads
    <2>3. offset' \in Nat /\ at' \in Nat /\ count' \in Nat /\ length' \in Nat
        BY <2>1, <2>2 DEF StopReading, IInv, TypeOK
    <2>4. step \in Callbacks
        BY DEF Callbacks, Reads
    <2>5. QED
        BY <2>2, <2>3, <2>4, ReturnErrorStep DEF IInv, TypeOK, Errors
<1>4. CASE PvdRead
    <2> USE <1>4 DEF PvdRead
    <2>1. PICK n \in Bytes : Fills(n) /\ Store(n)
        OBVIOUS
    <2>2. /\ buf' \in Seq(Nat) /\ pos' \in Nat
          /\ pos' = pos + n /\ offset + n = length /\ n \in Nat
        BY <2>1, LastRead DEF Reads
    <2>3. pos = PvdOffset + offset /\ length = PvdLen /\ offset \in Nat
        BY DEF IInv, InPlace, TypeOK
    <2>4. pos' = PvdOffset + PvdLen
        <3>1. pos' = PvdOffset + offset + n
            BY <2>2, <2>3
        <3>2. QED
            BY <2>2, <2>3, <3>1, LengthsAssumption
    <2>5. InPlace'
        BY <2>4, LengthsAssumption DEF InPlace, StartRead
    <2>6. QED
        BY <2>2, <2>5, StartReadStep, LengthsAssumption
        DEF IInv, TypeOK, Reads
<1>5. QED
    BY <1>1, <1>2, <1>3, <1>4 DEF ReadPvd

(* A search that ends before its callback.                                 *)
LEMMA SearchEndsStep ==
    ASSUME IInv, step \in {"svd_read", "extent_read"}, step' = "bootinfo",
           inner' \in {"io", "found", "not_bootable", "no_extent"},
           UNCHANGED <<job, bootable, ownVars, caller, cancelled>>,
           pos' \in Nat, at' \in Nat, count' \in Nat, offset' \in Nat,
           length' \in Nat, buf' \in Seq(Nat), index' \in 1..PathLen + 1,
           Described,
           inner' = "found" => BootinfoFound,
           inner' = "not_bootable" => ~BootinfoFound,
           inner' = "no_extent" => ExtentShort
    PROVE  IInv'
<1> USE DEF ownVars
<1>1. TypeOK'
    BY DEF IInv, TypeOK, Callbacks, Errors
<1>2. ReadsInBounds' /\ InPlace' /\ Fresh'
    BY DEF ReadsInBounds, Reads, InPlace, Fresh
<1>3. SearchJustified'
    BY SameJob DEF SearchJustified
<1>4. AnsweredOnce'
    BY DEF IInv, AnsweredOnce, Callbacks, Reads
<1>5. AnswerJustified'
    BY DEF IInv, AnswerJustified, BootinfoFound
<1>6. QED
    BY <1>1, <1>2, <1>3, <1>4, <1>5 DEF IInv

(* A callback that returns a media the image deserves.                     *)
LEMMA ReturnMediaStep ==
    ASSUME IInv, step \in Callbacks, ReturnMedia, stream' = "released",
           bootable' \in BOOLEAN, pos' \in Nat, at' \in Nat, count' \in Nat,
           offset' \in Nat, length' \in Nat, buf' \in Seq(Nat),
           UNCHANGED <<job, index, inner, caller, cancelled>>,
           job.size \geq PvdOffset + PvdLen + SvdLen, job.named,
           bootable' = (job.tagged \/ BootinfoFound),
           job.required => bootable'
    PROVE  IInv'
<1> USE DEF ReturnMedia
<1>1. TypeOK'
    BY DEF IInv, TypeOK
<1>2. ReadsInBounds' /\ InPlace' /\ SearchJustified' /\ Fresh'
    BY DEF IInv, ReadsInBounds, Reads, InPlace, SearchJustified, Fresh,
        Callbacks
<1>3. AnsweredOnce'
    BY DEF IInv, AnsweredOnce, Callbacks, Reads
<1>4. AnswerJustified'
    BY DEF AnswerJustified, BootinfoFound
<1>5. QED
    BY <1>1, <1>2, <1>3, <1>4 DEF IInv

(* When the supplementary descriptor is complete, so are both, and the     *)
(* volume has a name.                                                      *)
LEMMA DescriptorsRead ==
    ASSUME IInv, step = "svd_read", NEW n \in Nat,
           offset + n = length, pos + n \leq job.size
    PROVE  job.size \geq PvdOffset + PvdLen + SvdLen /\ job.named
<1>1. /\ pos = PvdOffset + PvdLen + offset /\ length = SvdLen
      /\ offset \in Nat /\ job.size \in Nat /\ job.named
    BY JobType DEF IInv, InPlace, TypeOK
<1>2. pos + n = PvdOffset + PvdLen + SvdLen
    BY <1>1, LengthsAssumption
<1>3. QED
    BY <1>1, <1>2, LengthsAssumption

(* The image's second descriptor is not bootable, and the search starts.   *)
LEMMA SvdSearchStep == IInv /\ SvdSearch => IInv'
<1> SUFFICES ASSUME IInv, SvdSearch PROVE IInv'
    OBVIOUS
<1> USE DEF SvdSearch
<1>1. PICK n \in Bytes :
         Fills(n) /\ buf' = SubSeq(buf, 1, at) \o [i \in 1..n |-> pos + i - 1]
    OBVIOUS
<1>2. buf' \in Seq(Nat) /\ n \in Nat /\ offset + n = length /\ pos + n \leq job.size
    BY <1>1, LastBytes DEF Reads
<1>3. Described
    BY <1>2, DescriptorsRead DEF Described
<1>4. job.dirs[1].at \in Nat /\ job.dirs[1].len \in Nat
    BY JobType DEF IInv, PathLen
<1>5. UNCHANGED job /\ StartExtent(job.dirs[1])
      /\ pos' = job.dirs[1].at /\ index' = 1
    OBVIOUS
<1>6. Described'
    BY <1>3, <1>5, SameJob
<1>7. index' \in 1..PathLen + 1 /\ pos' \in Nat
    BY <1>4, <1>5 DEF PathLen
<1>8. CASE job.dirs[1].len = 0
    BY <1>2, <1>5, <1>7, <1>8, EmptyExtentStep DEF Reads
<1>9. CASE job.dirs[1].len # 0
    <2>1. StartRead("extent_read", job.dirs[1].len)
        BY <1>5, <1>9 DEF StartExtent
    <2>2. pos' = job'.dirs[index'].at + offset'
        BY <1>4, <1>5, <2>1 DEF StartRead
    <2>3. offset' = 0 /\ length' = job'.dirs[index'].len /\ step' = "extent_read"
        BY <1>5, <2>1 DEF StartRead
    <2>4. offset' < length'
        BY <1>4, <1>5, <1>9, <2>3
    <2>5. index' \in 1..PathLen /\ \A i \in 1..index' - 1 : job'.dirs[i].found
        BY <1>5 DEF PathLen
    <2>6. InPlace'
        BY <1>6, <2>2, <2>3, <2>4, <2>5 DEF InPlace
    <2>7. QED
        BY <1>2, <1>4, <1>7, <1>9, <2>1, <2>6, StartReadStep DEF Reads
<1>10. QED
    BY <1>8, <1>9

LEMMA ReadSvdStep == IInv /\ ReadSvd => IInv'
<1> SUFFICES ASSUME IInv, ReadSvd PROVE IInv'
    OBVIOUS
<1>1. CASE ReadContinues("svd_read")
    BY <1>1, ReadContinuesStep DEF Reads
<1>2. CASE ReadFails("svd_read", "no_svd")
    <2> USE <1>2 DEF ReadFails, readVars
    <2>1. step \in Callbacks /\ UNCHANGED job /\ stream' = "released"
        BY DEF Callbacks, Reads
    <2>2. PICK e \in {"io", "no_svd"} : ReturnError(e) /\ (e = "no_svd" => AtEnd)
        OBVIOUS
    <2>3. AtEnd => job.size < PvdOffset + PvdLen + SvdLen
        <3>1. /\ pos = PvdOffset + PvdLen + offset /\ length = SvdLen
              /\ offset < length /\ at = offset /\ at + count = length
            BY DEF IInv, InPlace, ReadsInBounds, Reads
        <3>2. /\ pos \in Nat /\ offset \in Nat /\ count \in Nat
              /\ job.size \in Nat
            BY JobType DEF IInv, TypeOK
        <3>3. QED
            BY <3>1, <3>2, LengthsAssumption DEF AtEnd, Available
    <2>4. QED
        BY <2>1, <2>2, <2>3, ReturnErrorStep DEF IInv, TypeOK, Errors
<1>3. CASE SvdBootable \/ SvdSeekFails \/ SvdUnseekable
    <2>1. PICK n \in Bytes : Fills(n) /\ Store(n) /\ StopReading(n)
        BY <1>3 DEF SvdBootable, SvdSeekFails, SvdUnseekable
    <2>2. step = "svd_read" /\ UNCHANGED <<job, index, caller, cancelled>>
        BY <1>3 DEF SvdBootable, SvdSeekFails, SvdUnseekable
    <2>3. /\ n \in Nat /\ buf' \in Seq(Nat) /\ pos' \in Nat
          /\ offset + n = length /\ pos + n \leq job.size
        BY <2>1, <2>2, LastRead DEF Reads
    <2>4. offset' \in Nat /\ at' \in Nat /\ count' \in Nat /\ length' \in Nat
        BY <2>1, <2>3 DEF StopReading, IInv, TypeOK
    <2>5. job.size \geq PvdOffset + PvdLen + SvdLen /\ job.named
        BY <2>2, <2>3, DescriptorsRead
    <2>6. index \in 1..PathLen + 1 /\ index' = index
        BY <2>2 DEF IInv, TypeOK
    <2>7. CASE SvdBootable
        <3> USE <2>7 DEF SvdBootable
        <3>1. step \in Callbacks /\ UNCHANGED inner
            BY DEF Callbacks, Reads
        <3>2. QED
            BY <2>2, <2>3, <2>4, <2>5, <3>1, ReturnMediaStep
    <2>8. CASE SvdSeekFails
        <3> USE <2>8 DEF SvdSeekFails
        <3>1. Described
            BY <2>5 DEF Described
        <3>2. QED
            BY <2>3, <2>4, <2>6, <3>1, SearchEndsStep
    <2>9. CASE SvdUnseekable
        <3> USE <2>2, <2>9 DEF SvdUnseekable
        <3>1. QED
            BY <2>3, <2>4, <2>6, LostStep DEF Reads
    <2>10. QED
        BY <1>3, <2>7, <2>8, <2>9
<1>4. CASE SvdSearch
    BY <1>4, SvdSearchStep
<1>5. QED
    BY <1>1, <1>2, <1>3, <1>4 DEF ReadSvd

(* A directory's read that goes on to the next directory.                  *)
LEMMA ExtentNextStep == IInv /\ ExtentNext => IInv'
<1> SUFFICES ASSUME IInv, ExtentNext PROVE IInv'
    OBVIOUS
<1> USE DEF ExtentNext
<1>1. PICK n \in Bytes :
         Fills(n) /\ buf' = SubSeq(buf, 1, at) \o [i \in 1..n |-> pos + i - 1]
    OBVIOUS
<1>2. buf' \in Seq(Nat)
    BY <1>1, LastBytes DEF Reads
<1>3. /\ Described /\ index \in 1..PathLen /\ index < PathLen
      /\ \A i \in 1..index : job.dirs[i].found
    BY DEF IInv, InPlace
<1>4. index + 1 \in 1..PathLen
    BY <1>3 DEF PathLen
<1>5. job.dirs[index + 1].at \in Nat /\ job.dirs[index + 1].len \in Nat
    BY <1>4, JobType DEF IInv
<1>6. UNCHANGED job /\ StartExtent(job.dirs[index + 1])
      /\ pos' = job.dirs[index + 1].at /\ index' = index + 1
    OBVIOUS
<1>7. Described'
    BY <1>3, <1>6, SameJob
<1>8. index' \in 1..PathLen + 1 /\ pos' \in Nat
    BY <1>4, <1>5, <1>6 DEF PathLen
<1>9. CASE job.dirs[index + 1].len = 0
    BY <1>2, <1>6, <1>8, <1>9, EmptyExtentStep DEF Reads
<1>10. CASE job.dirs[index + 1].len # 0
    <2>1. StartRead("extent_read", job.dirs[index + 1].len)
        BY <1>6, <1>10 DEF StartExtent
    <2>2. pos' = job'.dirs[index'].at + offset'
        BY <1>5, <1>6, <2>1 DEF StartRead
    <2>3. offset' = 0 /\ length' = job'.dirs[index'].len /\ step' = "extent_read"
        BY <1>6, <2>1 DEF StartRead
    <2>4. offset' < length'
        BY <1>5, <1>6, <1>10, <2>3
    <2>5. index' \in 1..PathLen
        BY <1>4, <1>6
    <2>6. \A i \in 1..index' - 1 : job'.dirs[i].found
        BY <1>3, <1>6
    <2>7. InPlace'
        BY <1>7, <2>2, <2>3, <2>4, <2>5, <2>6 DEF InPlace
    <2>8. QED
        BY <1>2, <1>5, <1>8, <1>10, <2>1, <2>7, StartReadStep DEF Reads
<1>11. QED
    BY <1>9, <1>10

LEMMA ExtentStep ==
    ASSUME IInv, \/ ExtentFails \/ ExtentWithout
                 \/ ExtentLast \/ ExtentSeekFails
    PROVE  IInv'
<1>1. /\ step = "extent_read" /\ step' = "bootinfo"
      /\ UNCHANGED <<job, bootable, ownVars, caller, cancelled>>
    BY DEF ExtentFails, ExtentWithout, ExtentLast, ExtentSeekFails, SearchEnds
<1>2. /\ Described /\ index \in 1..PathLen
      /\ \A i \in 1..index - 1 : job.dirs[i].found
      /\ pos = job.dirs[index].at + offset
      /\ length = job.dirs[index].len
      /\ offset < length
    BY <1>1 DEF IInv, InPlace
<1>3. CASE ExtentFails
    <2> USE <1>3 DEF ExtentFails, SearchEnds, readVars
    <2>1. inner' \in {"io", "no_extent"} /\ (inner' = "no_extent" => AtEnd)
        OBVIOUS
    <2>2. AtEnd => ExtentShort
        <3>1. /\ pos \in Nat /\ offset \in Nat /\ count \in Nat
              /\ length \in Nat /\ job.size \in Nat
              /\ at = offset /\ at + count = length
            BY <1>1, JobType DEF IInv, TypeOK, ReadsInBounds, Reads
        <3>2. PICK d \in Nat : d = job.dirs[index].at /\ pos = d + offset
            BY <1>2, JobType DEF IInv
        <3>3. AtEnd => job.size < d + length
            BY <1>2, <3>1, <3>2 DEF AtEnd, Available
        <3>4. QED
            BY <1>2, <3>2, <3>3 DEF ExtentShort
    <2>3. /\ pos' \in Nat /\ at' \in Nat /\ count' \in Nat /\ offset' \in Nat
          /\ length' \in Nat /\ buf' \in Seq(Nat) /\ index' \in 1..PathLen + 1
        BY DEF IInv, TypeOK
    <2>4. QED
        BY <1>1, <1>2, <2>1, <2>2, <2>3, SearchEndsStep
<1>4. CASE ExtentWithout \/ ExtentLast \/ ExtentSeekFails
    <2>1. PICK n \in Bytes : Fills(n) /\ Store(n) /\ StopReading(n)
        BY <1>4 DEF ExtentWithout, ExtentLast, ExtentSeekFails
    <2>2. n \in Nat /\ buf' \in Seq(Nat) /\ pos' \in Nat
        BY <1>1, <2>1, LastRead DEF Reads
    <2>3. offset' \in Nat /\ at' \in Nat /\ count' \in Nat /\ length' \in Nat
        BY <2>1, <2>2 DEF StopReading, IInv, TypeOK
    <2>4. index' \in {index, index + 1}
        BY <1>4 DEF ExtentWithout, ExtentLast, ExtentSeekFails
    <2>5. index' \in 1..PathLen + 1
        BY <1>2, <2>4 DEF PathLen
    <2>6. inner' \in {"io", "found", "not_bootable"}
        BY <1>4 DEF ExtentWithout, ExtentLast, ExtentSeekFails, SearchEnds
    <2>7. inner' = "found" => BootinfoFound
        <3>1. inner' = "found" => index = PathLen /\ job.dirs[index].found
            BY <1>4 DEF ExtentWithout, ExtentLast, ExtentSeekFails, SearchEnds
        <3>2. QED
            BY <1>2, <3>1 DEF BootinfoFound, PathLen
    <2>8. inner' = "not_bootable" => ~BootinfoFound
        <3>1. inner' = "not_bootable" => ~job.dirs[index].found
            BY <1>4 DEF ExtentWithout, ExtentLast, ExtentSeekFails, SearchEnds
        <3>2. QED
            BY <1>2, <3>1 DEF BootinfoFound
    <2>9. QED
        BY <1>1, <1>2, <2>2, <2>3, <2>5, <2>6, <2>7, <2>8, SearchEndsStep
<1>5. QED
    BY <1>3, <1>4

(* The callback of the search.                                             *)
LEMMA BootinfoStep ==
    ASSUME IInv, BootinfoAccepted \/ BootinfoMissing \/ BootinfoFails
    PROVE  IInv'
<1>1. /\ step = "bootinfo" /\ stream' = "released"
      /\ UNCHANGED <<job, readVars, index, inner, caller, cancelled>>
    BY DEF BootinfoAccepted, BootinfoMissing, BootinfoFails
<1>2. /\ Described
      /\ inner \in {"io", "found", "not_bootable", "no_extent"}
      /\ inner = "found" => BootinfoFound
      /\ inner = "not_bootable" => ~BootinfoFound
      /\ inner = "no_extent" => ExtentShort
    BY <1>1 DEF IInv, SearchJustified
<1>3. /\ pos' \in Nat /\ at' \in Nat /\ count' \in Nat /\ offset' \in Nat
      /\ length' \in Nat /\ buf' \in Seq(Nat)
    BY <1>1 DEF IInv, TypeOK, readVars
<1>4. step \in Callbacks
    BY <1>1 DEF Callbacks
<1>5. CASE BootinfoAccepted
    <2> USE <1>5 DEF BootinfoAccepted
    <2>1. /\ bootable' \in BOOLEAN
          /\ SearchResult = "found" => bootable'
          /\ bootable' => SearchResult = "found"
          /\ SearchResult \in {"found", "not_bootable"}
          /\ job.required => SearchResult = "found"
        OBVIOUS
    <2>2. bootable' = BootinfoFound
        <3>1. BootinfoFound \in BOOLEAN
            BY DEF BootinfoFound
        <3>2. SearchResult = inner
            BY <2>1 DEF SearchResult
        <3>3. QED
            BY <1>2, <2>1, <3>1, <3>2
    <2>3. job.tagged = FALSE
        BY <1>2, JobType DEF IInv, Described
    <2>4. bootable' = (job.tagged \/ BootinfoFound)
        BY <2>2, <2>3 DEF BootinfoFound
    <2>5. QED
        BY <1>1, <1>2, <1>3, <1>4, <2>1, <2>4, ReturnMediaStep DEF Described
<1>6. CASE BootinfoMissing
    <2> USE <1>6 DEF BootinfoMissing
    <2>1. inner = "not_bootable"
        BY DEF SearchResult
    <2>2. QED
        BY <1>1, <1>2, <1>3, <1>4, <2>1, ReturnErrorStep DEF Described, Errors
<1>7. CASE BootinfoFails
    <2> USE <1>1, <1>7 DEF BootinfoFails
    <2>1. answer' \in {"io", "no_extent"} /\ (answer' = "no_extent" => inner = "no_extent")
        BY DEF SearchResult
    <2>2. TypeOK'
        BY <1>3, <2>1 DEF IInv, TypeOK, Errors
    <2>3. ReadsInBounds' /\ InPlace' /\ SearchJustified' /\ Fresh'
        BY DEF IInv, ReadsInBounds, Reads, InPlace, SearchJustified, Fresh,
        Callbacks
    <2>4. AnsweredOnce'
        BY <1>4, <2>1 DEF IInv, AnsweredOnce, Callbacks, Reads
    <2>5. AnswerJustified'
        BY <1>2, <2>1 DEF AnswerJustified, BootinfoFound, ExtentShort, Described
    <2>6. QED
        BY <2>2, <2>3, <2>4, <2>5 DEF IInv
<1>8. QED
    BY <1>5, <1>6, <1>7

LEMMA ReadyStep == IInv /\ Ready => IInv'
<1> SUFFICES ASSUME IInv, Ready PROVE IInv'
    OBVIOUS
<1> USE DEF Ready, readVars
<1>1. TypeOK'
    BY DEF IInv, TypeOK
<1>2. ReadsInBounds' /\ InPlace' /\ SearchJustified' /\ Fresh'
    BY DEF IInv, ReadsInBounds, Reads, InPlace, SearchJustified, Fresh,
        Callbacks
<1>3. AnsweredOnce'
    BY DEF IInv, AnsweredOnce, Callbacks, Reads
<1>4. AnswerJustified'
    BY DEF IInv, AnswerJustified, BootinfoFound
<1>5. QED
    BY <1>1, <1>2, <1>3, <1>4 DEF IInv

LEMMA StepIInv == IInv /\ [Next]_vars => IInv'
<1> SUFFICES ASSUME IInv, [Next]_vars PROVE IInv'
    OBVIOUS
<1>1. CASE CreateFromLocation \/ Cancel
    BY <1>1, CallerStep
<1>2. CASE OpenAndSkip
    BY <1>2, OpenAndSkipStep
<1>3. CASE ReadPvd
    BY <1>3, ReadPvdStep
<1>4. CASE ReadSvd
    BY <1>4, ReadSvdStep
<1>5. CASE SearchBootinfo
    <2>1. CASE ReadContinues("extent_read")
        BY <2>1, ReadContinuesStep DEF Reads
    <2>2. CASE ExtentNext
        BY <2>2, ExtentNextStep
    <2>3. CASE ExtentFails \/ ExtentWithout \/ ExtentLast \/ ExtentSeekFails
        BY <2>3, ExtentStep
    <2>4. CASE BootinfoAccepted \/ BootinfoMissing \/ BootinfoFails
        BY <2>4, BootinfoStep
    <2>5. QED
        BY <1>5, <2>1, <2>2, <2>3, <2>4 DEF SearchBootinfo
<1>6. CASE Ready
    BY <1>6, ReadyStep
<1>7. CASE UNCHANGED vars
    <2> USE <1>7 DEF vars, readVars, ownVars
    <2>1. TypeOK' /\ ReadsInBounds' /\ Fresh'
        BY DEF IInv, TypeOK, ReadsInBounds, Fresh
    <2>2. AnsweredOnce'
        BY DEF IInv, AnsweredOnce
    <2>3. AnswerJustified'
        BY DEF IInv, AnswerJustified, BootinfoFound
    <2>4. InPlace' /\ SearchJustified'
        BY SameJob DEF IInv, InPlace, SearchJustified
    <2>5. QED
        BY <2>1, <2>2, <2>3, <2>4 DEF IInv
<1>8. QED
    BY <1>1, <1>2, <1>3, <1>4, <1>5, <1>6, <1>7 DEF Next, Dispatch

-------------------------------------------------------------------------------
(* The theorems                                                            *)

LEMMA InitIInv == Init => IInv
<1> SUFFICES ASSUME Init PROVE IInv
    OBVIOUS
<1> USE DEF Init
<1>1. TypeOK
    <2>1. buf \in Seq(Nat)
        BY EmptySeq
    <2>2. job \in Jobs /\ index \in 1..PathLen + 1
        BY DEF PathLen
    <2>3. QED
        BY <2>1, <2>2 DEF TypeOK
<1>2. ReadsInBounds /\ InPlace /\ SearchJustified /\ Fresh
    BY DEF IInv, ReadsInBounds, Reads, InPlace, SearchJustified, Fresh,
        Callbacks
<1>3. AnsweredOnce /\ AnswerJustified
    BY DEF AnsweredOnce, AnswerJustified, Callbacks, Reads
<1>4. QED
    BY <1>1, <1>2, <1>3 DEF IInv

LEMMA Invariance == Spec => []IInv
<1>1. QED
    BY InitIInv, StepIInv, PTL DEF Spec

(* Every variable keeps its type: in particular no count handed to a read  *)
(* is ever negative, which as a gsize would be enormous.                   *)
THEOREM TypeCorrect == Spec => []TypeOK
<1>1. IInv => TypeOK
    BY DEF IInv
<1>2. QED
    BY <1>1, Invariance, PTL

(* However the bytes of a struct arrive, in any number of short reads, the *)
(* callback that reads it asks for what is missing and no more.            *)
THEOREM ReadsCorrect == Spec => []ReadsInBounds
<1>1. IInv => ReadsInBounds
    BY DEF IInv
<1>2. QED
    BY <1>1, Invariance, PTL

(* No callback of the chain returns to a task that was already answered,   *)
(* or uses the data or the stream after an earlier one released it.        *)
THEOREM AnsweredOnceCorrect == Spec => []AnsweredOnce
<1>1. IInv => AnsweredOnce
    BY DEF IInv
<1>2. QED
    BY <1>1, Invariance, PTL

(* The answer is the one the image calls for, whichever image it is.       *)
THEOREM AnswerCorrect == Spec => []AnswerJustified
<1>1. IInv => AnswerJustified
    BY DEF IInv
<1>2. QED
    BY <1>1, Invariance, PTL

LEMMA StepWhole ==
    ASSUME IInv, [Next]_vars
    PROVE  /\ step = "pvd_read" /\ (step' = "svd_read" \/ answer' = "insufficient")
                => buf' = Span(PvdOffset, PvdLen)
           /\ step = "svd_read" /\ (step' = "extent_read" \/ answer' = "media")
                => buf' = Span(PvdOffset + PvdLen, SvdLen)
           /\ step = "extent_read" /\ (index' # index \/ inner' = "not_bootable")
                => buf' = Span(job.dirs[index].at, job.dirs[index].len)
<1>1. ASSUME step = "pvd_read", step' = "svd_read" \/ answer' = "insufficient"
      PROVE  buf' = Span(PvdOffset, PvdLen)
    <2>1. answer = "none"
        BY <1>1 DEF IInv, AnsweredOnce, Callbacks, Reads
    <2>2. PvdInsufficient \/ PvdRead
        BY <1>1, <2>1 DEF Next, Dispatch, CreateFromLocation, Cancel, OpenAndSkip,
            LocationRead, LocationReadFails, LocationSkipped, LocationSkippedFails,
            ReadPvd, ReadFails, ReturnError, ReadContinues, ReadOn, ReadSvd,
            SvdBootable, SvdSearch, SvdSeekFails, SvdUnseekable, SearchBootinfo,
            ExtentFails, ExtentWithout, ExtentLast, ExtentNext, ExtentSeekFails,
            BootinfoAccepted, BootinfoMissing, BootinfoFails, Ready, vars, ownVars
    <2>3. PICK n \in Bytes : Fills(n) /\ Store(n)
        BY <2>2 DEF PvdInsufficient, PvdRead
    <2>4. buf' = Span(pos - offset, length)
        BY <1>1, <2>3, LastBytes DEF Store, Reads
    <2>5. /\ pos = PvdOffset + offset /\ length = PvdLen /\ offset \in Nat
        BY <1>1 DEF IInv, InPlace, TypeOK
    <2>6. pos - offset = PvdOffset
        BY <2>5, LengthsAssumption
    <2>7. QED
        BY <2>4, <2>5, <2>6
<1>2. ASSUME step = "svd_read", step' = "extent_read" \/ answer' = "media"
      PROVE  buf' = Span(PvdOffset + PvdLen, SvdLen)
    <2>1. answer = "none"
        BY <1>2 DEF IInv, AnsweredOnce, Callbacks, Reads
    <2>2. SvdBootable \/ SvdSearch
        BY <1>2, <2>1 DEF Next, Dispatch, CreateFromLocation, Cancel, OpenAndSkip,
            LocationRead, LocationReadFails, LocationSkipped, LocationSkippedFails,
            ReadPvd, ReadFails, ReturnError, ReadContinues, ReadOn, ReadSvd,
            PvdInsufficient, PvdRead, SvdSeekFails, SvdUnseekable, SearchBootinfo,
            ExtentFails, ExtentWithout, ExtentLast, ExtentNext, ExtentSeekFails,
            BootinfoAccepted, BootinfoMissing, BootinfoFails, Ready, vars, ownVars
    <2>3. PICK n \in Bytes : Fills(n)
             /\ buf' = SubSeq(buf, 1, at) \o [i \in 1..n |-> pos + i - 1]
        BY <2>2 DEF SvdBootable, SvdSearch, Store
    <2>4. buf' = Span(pos - offset, length)
        BY <1>2, <2>3, LastBytes DEF Reads
    <2>5. /\ pos = PvdOffset + PvdLen + offset /\ length = SvdLen /\ offset \in Nat
        BY <1>2 DEF IInv, InPlace, TypeOK
    <2>6. pos - offset = PvdOffset + PvdLen
        BY <2>5, LengthsAssumption
    <2>7. QED
        BY <2>4, <2>5, <2>6
<1>3. ASSUME step = "extent_read", index' # index \/ inner' = "not_bootable"
      PROVE  buf' = Span(job.dirs[index].at, job.dirs[index].len)
    <2>1. inner = "none"
        BY <1>3 DEF IInv, SearchJustified, Callbacks, Reads
    <2>2. ExtentWithout \/ ExtentLast \/ ExtentNext \/ ExtentSeekFails
        BY <1>3, <2>1 DEF Next, Dispatch, CreateFromLocation, Cancel, OpenAndSkip,
            LocationRead, LocationReadFails, LocationSkipped, LocationSkippedFails,
            ReadPvd, ReadFails, ReturnError, ReadContinues, ReadOn, ReadSvd,
            PvdInsufficient, PvdRead, SvdBootable, SvdSearch, SvdSeekFails,
            SvdUnseekable, SearchBootinfo, ExtentFails, SearchEnds,
            BootinfoAccepted, BootinfoMissing, BootinfoFails, Ready, vars
    <2>3. PICK n \in Bytes : Fills(n)
             /\ buf' = SubSeq(buf, 1, at) \o [i \in 1..n |-> pos + i - 1]
        BY <2>2 DEF ExtentWithout, ExtentLast, ExtentNext, ExtentSeekFails, Store
    <2>4. buf' = Span(pos - offset, length)
        BY <1>3, <2>3, LastBytes DEF Reads
    <2>5. /\ pos = job.dirs[index].at + offset /\ length = job.dirs[index].len
          /\ index \in 1..PathLen /\ offset \in Nat
        BY <1>3 DEF IInv, InPlace, TypeOK
    <2>6. PICK d \in Nat : d = job.dirs[index].at /\ pos = d + offset
        BY <2>5, JobType DEF IInv
    <2>7. pos - offset = job.dirs[index].at
        BY <2>5, <2>6
    <2>8. QED
        BY <2>4, <2>5, <2>7
<1>4. QED
    BY <1>1, <1>2, <1>3

(* The descriptors and the directories are looked at only when all their   *)
(* bytes have been read from their own place, however short the reads were.*)
THEOREM WholeStructsCorrect == Spec => WholeStructs
<1>1. IInv /\ [Next]_vars
        => [/\ step = "pvd_read" /\ (step' = "svd_read" \/ answer' = "insufficient")
                  => buf' = Span(PvdOffset, PvdLen)
            /\ step = "svd_read" /\ (step' = "extent_read" \/ answer' = "media")
                  => buf' = Span(PvdOffset + PvdLen, SvdLen)
            /\ step = "extent_read" /\ (index' # index \/ inner' = "not_bootable")
                  => buf' = Span(job.dirs[index].at, job.dirs[index].len)
           ]_vars
    BY StepWhole
<1>2. QED
    BY <1>1, Invariance, PTL DEF Spec, WholeStructs

(* Each step of the chain is, to the caller, a step of a request or none.  *)
LEMMA StepRequest == IInv /\ [Next]_vars => [Request!Next]_(Request!vars)
<1> SUFFICES ASSUME IInv, [Next]_vars PROVE [Request!Next]_(Request!vars)
    OBVIOUS
<1> USE DEF Request!Next, Request!vars
<1>1. CASE CreateFromLocation
    BY <1>1 DEF CreateFromLocation, Request!Submit, IInv, Fresh
<1>2. CASE Cancel
    BY <1>2 DEF Cancel, Request!Cancel
<1>3. CASE Ready
    BY <1>3 DEF Ready, Request!Answer, IInv, AnsweredOnce
<1>4. CASE \/ OpenAndSkip \/ ReadPvd \/ ReadSvd \/ SearchBootinfo
           \/ UNCHANGED vars
    <2>1. UNCHANGED <<caller, cancelled>>
        BY <1>4 DEF OpenAndSkip,
            LocationRead, LocationReadFails, LocationSkipped, LocationSkippedFails,
            ReadPvd, ReadFails, ReadContinues, ReadSvd,
            PvdInsufficient, PvdRead, SvdBootable, SvdSearch, SvdSeekFails,
            SvdUnseekable, SearchBootinfo, ExtentFails, SearchEnds, ExtentWithout,
            ExtentLast, ExtentNext, ExtentSeekFails,
            BootinfoAccepted, BootinfoMissing, BootinfoFails, vars
    <2>2. QED
        BY <2>1
<1>5. QED
    BY <1>1, <1>2, <1>3, <1>4 DEF Next, Dispatch

(* The chain of callbacks implements an asynchronous request: one answer,  *)
(* and no object for a caller who cancelled.                               *)
THEOREM RequestCorrect == Spec => RequestImplemented
<1>1. Init => Request!Init
    BY DEF Init, Request!Init
<1>2. QED
    BY <1>1, StepRequest, Invariance, PTL
    DEF Spec, RequestImplemented, Request!Spec
===============================================================================
