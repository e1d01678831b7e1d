--------------------------- MODULE InstallScriptProofs ---------------------------
(***************************************************************************)
(* Proofs about InstallScript, for any number of requests, any length of   *)
(* the script, and any number of changes and failures.                     *)
(***************************************************************************)
EXTENDS InstallScript, SequenceTheorems, TLAPS

-------------------------------------------------------------------------------
(* The inductive invariant                                                 *)

Early == {"idle", "template", "generated", "quit", "opening", "lost"}
Late == {"ready", "leaving", "none"}

(* A request is under way between its call and its answer.                 *)
AnsweredOf(r) ==
    /\ caller[r] = "idle" => step[r] = "idle"
    /\ step[r] = "idle" => caller[r] = "idle" \/ crashed
    /\ caller[r] \in {"object", "error"} <=> step[r] \in {"leaving", "none"}

(* As long as nothing failed, what was written is the beginning of the     *)
(* script.                                                                 *)
ProgressOf(r) ==
    /\ step[r] \in Early => pos[r] = 0 /\ content[r] = <<>>
    /\ failures[r] = 0 =>
          /\ pos[r] \in 0..Length
          /\ Len(content[r]) = pos[r]
          /\ \A i \in 1..pos[r] : content[r][i] = i
          /\ step[r] = "writing" => pos[r] < Length
          /\ step[r] \in {"closing"} \cup Late => pos[r] = Length

(* The script is of a configuration there was since the call.              *)
SeenOf(r) ==
    /\ step[r] = "template" => Document(params, map) \in seen[r]
    /\ failures[r] = 0 /\ step[r] \notin {"idle", "template"} => text[r] \in seen[r]

RequestInv(r) == AnsweredOf(r) /\ ProgressOf(r) /\ SeenOf(r)

(* There is a file once a request has succeeded, and a whole one if the    *)
(* last to close it had no failure.                                        *)
FileOK ==
    /\ \A r \in Requests : step[r] \in Late /\ failures[r] = 0 => disk.by # None
    /\ disk.by # None /\ failures[disk.by] = 0 => disk.written = Whole

IInv == /\ TypeOK
        /\ \A r \in Requests : RequestInv(r)
        /\ FileOK
        /\ DatamapsInverse

-------------------------------------------------------------------------------
(* Documents                                                               *)

LEMMA DocumentType ==
    ASSUME NEW p \in Documents, NEW m \in [Values -> Values \cup {None}]
    PROVE  Document(p, m) \in Documents
<1>1. ASSUME NEW k \in Keys
      PROVE  [i \in 1..Len(p[k]) |-> Lookup(m, p[k][i])] \in Seq(Values)
    <2>1. p[k] \in Seq(Values)
        BY DEF Documents
    <2>2. \A i \in 1..Len(p[k]) : p[k][i] \in Values
        BY <2>1
    <2>3. \A i \in 1..Len(p[k]) : Lookup(m, p[k][i]) \in Values
        BY <2>2 DEF Lookup
    <2>4. Len(p[k]) \in Nat
        BY <2>1
    <2>5. QED
        BY <2>3, <2>4
<1>2. ASSUME NEW k \in Keys PROVE p[k] \in Seq(Values)
    BY DEF Documents
<1>3. QED
    BY <1>1, <1>2 DEF Document, Documents

-------------------------------------------------------------------------------
(* The stack of loops                                                      *)

Elements(s) == {s[i] : i \in 1..Len(s)}
Distinct(s) == \A i, j \in 1..Len(s) : s[i] = s[j] => i = j

(* A loop is started inside the others.                                    *)
LEMMA Pushed ==
    ASSUME NEW s \in Seq(Requests), NEW r \in Requests, r \notin Elements(s), Distinct(s)
    PROVE  /\ Append(s, r) \in Seq(Requests)
           /\ Elements(Append(s, r)) = Elements(s) \cup {r}
           /\ Distinct(Append(s, r))
<1>1. /\ Append(s, r) \in Seq(Requests)
      /\ Len(Append(s, r)) = Len(s) + 1
      /\ \A i \in 1..Len(s) : Append(s, r)[i] = s[i]
      /\ Append(s, r)[Len(s) + 1] = r
      /\ Len(s) \in Nat
    OBVIOUS
<1> DEFINE t == Append(s, r)
<1>2. t \in Seq(Requests) /\ Len(t) = Len(s) + 1 /\ t[Len(s) + 1] = r
      /\ \A i \in 1..Len(s) : t[i] = s[i]
    BY <1>1
<1> HIDE DEF t
<1>3. Elements(t) = Elements(s) \cup {r}
    BY <1>1, <1>2 DEF Elements
<1>4. Distinct(t)
    BY <1>1, <1>2 DEF Elements, Distinct
<1>5. QED
    BY <1>1, <1>3, <1>4 DEF t

(* The innermost loop ends.                                                *)
LEMMA PoppedOff ==
    ASSUME NEW s \in Seq(Requests), s # <<>>, Distinct(s)
    PROVE  /\ SubSeq(s, 1, Len(s) - 1) \in Seq(Requests)
           /\ Elements(SubSeq(s, 1, Len(s) - 1)) = Elements(s) \ {s[Len(s)]}
           /\ Distinct(SubSeq(s, 1, Len(s) - 1))
<1> DEFINE t == SubSeq(s, 1, Len(s) - 1)
<1>1. Len(s) \in Nat /\ Len(s) > 0
    BY EmptySeq
<1>2. t \in Seq(Requests) /\ Len(t) = Len(s) - 1 /\ \A i \in 1..Len(s) - 1 : t[i] = s[i]
    <2>1. \A i \in 1..Len(s) - 1 : s[i] \in Requests
        BY <1>1
    <2>2. /\ t \in Seq(Requests)
          /\ Len(t) = IF 1 \leq Len(s) - 1 THEN Len(s) - 1 - 1 + 1 ELSE 0
          /\ \A i \in 1..Len(s) - 1 - 1 + 1 : t[i] = s[1 + i - 1]
        BY <1>1, <2>1, SubSeqProperties
    <2>3. \A i \in 1..Len(s) - 1 : 1 + i - 1 = i
        OBVIOUS
    <2>4. Len(s) - 1 - 1 + 1 = Len(s) - 1
        BY <1>1
    <2>5. QED
        BY <1>1, <2>2, <2>3, <2>4
<1> HIDE DEF t
<1>3. Elements(t) = Elements(s) \ {s[Len(s)]}
    BY <1>1, <1>2 DEF Elements, Distinct
<1>4. Distinct(t)
    BY <1>1, <1>2 DEF Distinct
<1>5. QED
    BY <1>2, <1>3, <1>4 DEF t

LEMMA StackIs == StackOK <=> /\ Elements(stack) = {r \in Requests : InLoop(r)}
                             /\ Distinct(stack)
BY DEF StackOK, Elements, Distinct

LEMMA StackStays ==
    ASSUME StackOK, UNCHANGED stack, \A q \in Requests : InLoop(q)' <=> InLoop(q)
    PROVE  StackOK'
BY DEF StackOK

(* Pushing the loops of a request that had none, and popping the innermost.*)
LEMMA StackPush ==
    ASSUME TypeOK, NEW r \in Requests, ~InLoop(r), InLoop(r)', stack' = Append(stack, r),
           \A q \in Requests \ {r} : InLoop(q)' <=> InLoop(q)
    PROVE  stack' \in Seq(Requests) /\ StackOK'
<1>1. /\ stack \in Seq(Requests) /\ Distinct(stack)
      /\ Elements(stack) = {q \in Requests : InLoop(q)}
    BY StackIs DEF TypeOK
<1>2. r \notin Elements(stack)
    BY <1>1
<1>3. /\ stack' \in Seq(Requests) /\ Elements(stack') = Elements(stack) \cup {r}
      /\ Distinct(stack')
    BY <1>1, <1>2, Pushed
<1>4. Elements(stack') = {q \in Requests : InLoop(q)'}
    BY <1>1, <1>3
<1>5. QED
    BY <1>3, <1>4 DEF StackOK, Elements, Distinct

LEMMA StackPop ==
    ASSUME TypeOK, NEW r \in Requests, Innermost(r), ~InLoop(r)', stack' = Popped,
           \A q \in Requests \ {r} : InLoop(q)' <=> InLoop(q)
    PROVE  stack' \in Seq(Requests) /\ StackOK'
<1>1. /\ stack \in Seq(Requests) /\ Distinct(stack)
      /\ Elements(stack) = {q \in Requests : InLoop(q)}
    BY StackIs DEF TypeOK
<1>2. stack # <<>> /\ stack[Len(stack)] = r
    BY DEF Innermost
<1>3. /\ stack' \in Seq(Requests) /\ Elements(stack') = Elements(stack) \ {r}
      /\ Distinct(stack')
    BY <1>1, <1>2, PoppedOff DEF Popped
<1>4. Elements(stack') = {q \in Requests : InLoop(q)'}
    BY <1>1, <1>3
<1>5. QED
    BY <1>3, <1>4 DEF StackOK, Elements, Distinct

(* A request whose loop is the innermost is in a loop.                     *)
LEMMA InnermostInLoop ==
    ASSUME TypeOK, NEW r \in Requests, Innermost(r)
    PROVE  InLoop(r)
<1>1. stack \in Seq(Requests) /\ Elements(stack) = {q \in Requests : InLoop(q)}
    BY StackIs DEF TypeOK
<1>2. Len(stack) \in Nat /\ Len(stack) > 0
    BY <1>1, EmptySeq DEF Innermost
<1>3. r \in Elements(stack)
    BY <1>2 DEF Innermost, Elements
<1>4. QED
    BY <1>1, <1>3

-------------------------------------------------------------------------------
(* Steps of one request                                                    *)

Own(r) == <<api[r], step[r], text[r], seen[r], pos[r], content[r], caller[r], failures[r]>>

(* What holds of a request is not disturbed by the others.                 *)
LEMMA OthersKeep ==
    ASSUME NEW q \in Requests, RequestInv(q), UNCHANGED Own(q), UNCHANGED <<params, map>>,
           crashed => crashed'
    PROVE  RequestInv(q)' /\ (InLoop(q)' <=> InLoop(q))
<1> USE DEF Own
<1>1. AnsweredOf(q)' /\ ProgressOf(q)'
    BY DEF RequestInv, AnsweredOf, ProgressOf
<1>2. Document(params, map)' = Document(params, map)
    BY DEF Document, Lookup
<1>3. SeenOf(q)'
    BY <1>2 DEF RequestInv, SeenOf
<1>4. InLoop(q)' <=> InLoop(q)
    BY DEF InLoop
<1>5. QED
    BY <1>1, <1>3, <1>4 DEF RequestInv

LEMMA OneRequestStep ==
    ASSUME IInv, NEW r \in Requests, TypeOK', RequestInv(r)',
           UNCHANGED <<params, map, reverse, stale>>,
           crashed => crashed',
           \A q \in Requests \ {r} : UNCHANGED Own(q),
           failures'[r] = 0 => failures[r] = 0,
           \/ UNCHANGED disk
           \/ disk'.by = r /\ (failures'[r] = 0 => disk'.written = Whole),
           step'[r] \in Late /\ failures'[r] = 0 => disk'.by # None
    PROVE  IInv'
<1>1. ASSUME NEW q \in Requests \ {r}
      PROVE  RequestInv(q)' /\ step'[q] = step[q] /\ failures'[q] = failures[q]
    BY <1>1, OthersKeep DEF IInv, Own
<1>2. \A q \in Requests : RequestInv(q)'
    BY <1>1
<1>3. \A q \in Requests : failures'[q] = 0 => failures[q] = 0
    BY <1>1
<1>4. Whole' = Whole
    BY DEF Whole
<1>5. disk'.by # None /\ failures'[disk'.by] = 0 => disk'.written = Whole
    <2>1. CASE UNCHANGED disk
        <3>1. disk.by # None => disk.by \in Requests
            BY DEF IInv, TypeOK
        <3>2. QED
            BY <1>3, <2>1, <3>1 DEF IInv, FileOK
    <2>2. CASE disk'.by = r /\ (failures'[r] = 0 => disk'.written = Whole)
        BY <2>2
    <2>3. QED
        BY <2>1, <2>2
<1>6. ASSUME NEW q \in Requests, step'[q] \in Late, failures'[q] = 0
      PROVE  disk'.by # None
    <2>1. CASE q = r
        BY <1>6, <2>1
    <2>2. CASE q # r
        <3>1. disk.by # None
            BY <1>1, <1>6, <2>2 DEF IInv, FileOK
        <3>2. QED
            BY <3>1, NoneAssumption
    <2>3. QED
        BY <2>1, <2>2
<1>7. FileOK'
    BY <1>4, <1>5, <1>6 DEF FileOK
<1>8. DatamapsInverse'
    BY DEF IInv, DatamapsInverse
<1>9. QED
    BY <1>2, <1>7, <1>8 DEF IInv

(* The loops are the same as long as none is entered or left.              *)
LEMMA StackKept ==
    ASSUME IInv, NEW r \in Requests, UNCHANGED <<stack, params, map>>,
           InLoop(r)' <=> InLoop(r), crashed => crashed',
           \A q \in Requests \ {r} : UNCHANGED Own(q)
    PROVE  StackOK'
<1>1. \A q \in Requests : InLoop(q)' <=> InLoop(q)
    BY OthersKeep DEF IInv
<1>2. QED
    BY <1>1, StackStays DEF IInv, TypeOK

LEMMA TemplateLoadedStep ==
    ASSUME IInv, NEW r \in Requests, TemplateLoaded(r)
    PROVE  IInv'
<1> USE DEF TemplateLoaded, At, Go, configVars, writeVars, ioVars
<1>1. \A q \in Requests \ {r} : UNCHANGED Own(q)
    BY DEF IInv, TypeOK, Own
<1>2. step[r] = "template" /\ step'[r] = "generated" /\ text'[r] = Document(params, map)
    BY DEF IInv, TypeOK
<1>3. StackOK'
    BY <1>1, <1>2, StackKept DEF InLoop
<1>4. Document(params, map) \in Documents
    BY DocumentType DEF IInv, TypeOK
<1>5. TypeOK'
    BY <1>3, <1>4 DEF IInv, TypeOK, Steps
<1>6. RequestInv(r)'
    BY <1>2 DEF IInv, RequestInv, AnsweredOf, ProgressOf, SeenOf, Early, Late
<1>7. QED
    BY <1>1, <1>2, <1>5, <1>6, OneRequestStep DEF Late

LEMMA TemplateFailsStep ==
    ASSUME IInv, NEW r \in Requests, TemplateFails(r)
    PROVE  IInv'
<1> USE DEF TemplateFails, At, Go, Fail, configVars, writeVars, ioVars
<1>1. \A q \in Requests \ {r} : UNCHANGED Own(q)
    BY DEF IInv, TypeOK, Own
<1>2. step[r] = "template" /\ step'[r] = "generated" /\ failures'[r] # 0
    BY DEF IInv, TypeOK
<1>3. StackOK'
    BY <1>1, <1>2, StackKept DEF InLoop
<1>4. TypeOK'
    BY <1>3 DEF IInv, TypeOK, Steps
<1>5. RequestInv(r)'
    BY <1>2 DEF IInv, RequestInv, AnsweredOf, ProgressOf, SeenOf, Early, Late
<1>6. QED
    BY <1>1, <1>2, <1>4, <1>5, OneRequestStep DEF Late

LEMMA GenerateDoneStep ==
    ASSUME IInv, NEW r \in Requests, GenerateDone(r)
    PROVE  IInv'
<1> USE DEF GenerateDone, At, Go, Fail, configVars, writeVars, ioVars
<1>1. \A q \in Requests \ {r} : UNCHANGED Own(q)
    BY DEF IInv, TypeOK, Own
<1>2. step[r] = "generated" /\ step'[r] = "quit"
    BY DEF IInv, TypeOK
<1>3. StackOK'
    BY <1>1, <1>2, StackKept DEF InLoop
<1>4. TypeOK'
    <2>1. text' \in [Requests -> Documents \cup {NoDocument}]
        BY DEF IInv, TypeOK
    <2>2. failures' \in [Requests -> Nat]
        <3>1. failures \in [Requests -> Nat] /\ failures[r] + 1 \in Nat
            BY DEF IInv, TypeOK
        <3>2. failures' \in {failures, [failures EXCEPT ![r] = failures[r] + 1]}
            OBVIOUS
        <3>3. QED
            BY <3>1, <3>2
    <2>3. QED
        BY <1>3, <2>1, <2>2 DEF IInv, TypeOK, Steps
<1>5. \/ failures'[r] # 0
      \/ failures'[r] = failures[r] /\ text'[r] = text[r]
    BY DEF IInv, TypeOK
<1>6. RequestInv(r)'
    BY <1>2, <1>5 DEF IInv, RequestInv, AnsweredOf, ProgressOf, SeenOf, Early, Late
<1>7. QED
    BY <1>1, <1>2, <1>4, <1>5, <1>6, OneRequestStep DEF Late

LEMMA GenerateReturnsStep ==
    ASSUME IInv, NEW r \in Requests, GenerateReturns(r)
    PROVE  IInv'
<1> USE DEF GenerateReturns, At, Go, configVars, writeVars
<1>1. \A q \in Requests \ {r} : UNCHANGED Own(q)
    BY DEF IInv, TypeOK, Own
<1>2. step[r] = "quit" /\ step'[r] = "opening"
    BY DEF IInv, TypeOK
<1>3. stack' \in Seq(Requests) /\ StackOK'
    <2>1. CASE api[r] = "sync"
        BY <1>1, <1>2, <2>1, StackKept DEF InLoop, IInv, TypeOK
    <2>2. CASE api[r] # "sync"
        <3>1. ~InLoop(r)'
            BY <1>2, <2>2 DEF InLoop
        <3>2. \A q \in Requests \ {r} : InLoop(q)' <=> InLoop(q)
            BY <1>1, OthersKeep DEF IInv
        <3>3. Innermost(r) /\ stack' = Popped
            BY <2>2
        <3>4. QED
            BY <3>1, <3>2, <3>3, StackPop DEF IInv
    <2>3. QED
        BY <2>1, <2>2
<1>4. TypeOK'
    BY <1>3 DEF IInv, TypeOK, Steps
<1>5. RequestInv(r)'
    BY <1>2 DEF IInv, RequestInv, AnsweredOf, ProgressOf, SeenOf, Early, Late
<1>6. QED
    BY <1>1, <1>2, <1>4, <1>5, OneRequestStep DEF Late

LEMMA StrlenOfNullStep ==
    ASSUME IInv, NEW r \in Requests, StrlenOfNull(r)
    PROVE  IInv'
<1> USE DEF StrlenOfNull, At, configVars, writeVars
<1>1. \A q \in Requests : UNCHANGED Own(q)
    BY DEF Own
<1>2. RequestInv(r)'
    BY <1>1, OthersKeep DEF IInv
<1>3. StackOK'
    BY <1>1, StackKept DEF InLoop
<1>4. TypeOK'
    BY <1>3 DEF IInv, TypeOK
<1>5. QED
    BY <1>1, <1>2, <1>4, OneRequestStep DEF IInv, FileOK
-------------------------------------------------------------------------------
(* Writing                                                                 *)

LEMMA OpenedStep ==
    ASSUME IInv, NEW r \in Requests, Opened(r)
    PROVE  IInv'
<1> USE DEF Opened, At, Go, configVars, writeVars, ioVars
<1>1. \A q \in Requests \ {r} : UNCHANGED Own(q)
    BY DEF IInv, TypeOK, Own
<1>2. step[r] = "opening" /\ step'[r] = AfterWrite(pos[r])
      /\ step'[r] \in {"writing", "closing"}
    BY DEF IInv, TypeOK, AfterWrite
<1>3. StackOK'
    BY <1>1, <1>2, StackKept DEF InLoop
<1>4. TypeOK'
    BY <1>2, <1>3 DEF IInv, TypeOK, Steps
<1>5. ProgressOf(r)'
    <2>1. pos[r] = 0
        BY <1>2 DEF IInv, RequestInv, ProgressOf, Early
    <2>2. step'[r] = "writing" <=> 0 < Length
        BY <1>2, <2>1 DEF AfterWrite
    <2>3. step'[r] = "closing" => 0 = Length
        BY <1>2, <2>2, BoundsAssumption
    <2>4. QED
        BY <1>2, <2>1, <2>2, <2>3 DEF IInv, RequestInv, ProgressOf, Early, Late
<1>6. RequestInv(r)'
    BY <1>2, <1>5 DEF IInv, RequestInv, AnsweredOf, SeenOf
<1>7. QED
    BY <1>1, <1>2, <1>4, <1>6, OneRequestStep DEF Late

LEMMA OpenFailsStep ==
    ASSUME IInv, NEW r \in Requests, OpenFails(r)
    PROVE  IInv'
<1> USE DEF OpenFails, At, Go, Fail, configVars, writeVars, ioVars
<1>1. \A q \in Requests \ {r} : UNCHANGED Own(q)
    BY DEF IInv, TypeOK, Own
<1>2. step[r] = "opening" /\ step'[r] = "lost" /\ failures'[r] # 0
    BY DEF IInv, TypeOK
<1>3. StackOK'
    BY <1>1, <1>2, StackKept DEF InLoop
<1>4. TypeOK'
    BY <1>3 DEF IInv, TypeOK, Steps
<1>5. RequestInv(r)'
    BY <1>2 DEF IInv, RequestInv, AnsweredOf, ProgressOf, SeenOf, Early, Late
<1>6. QED
    BY <1>1, <1>2, <1>4, <1>5, OneRequestStep DEF Late

(* The bytes a write accepts continue what was written.                    *)
LEMMA Continued ==
    ASSUME NEW c \in Seq(Int), NEW p \in Int, NEW n \in Nat
    PROVE  /\ c \o Piece(p, n) \in Seq(Int)
           /\ Len(c) = p => Len(c \o Piece(p, n)) = p + n
           /\ Len(c) = p /\ (\A i \in 1..p : c[i] = i)
                 => \A i \in 1..p + n : (c \o Piece(p, n))[i] = i
<1>1. /\ Piece(p, n) \in Seq(Int) /\ Len(Piece(p, n)) = n
      /\ \A i \in 1..n : Piece(p, n)[i] = p + i
    <2>1. \A i \in 1..n : p + i \in Int
        OBVIOUS
    <2>2. QED
        BY <2>1 DEF Piece
<1>2. /\ c \o Piece(p, n) \in Seq(Int)
      /\ Len(c \o Piece(p, n)) = Len(c) + Len(Piece(p, n))
      /\ \A i \in 1..Len(c) + Len(Piece(p, n)) : (c \o Piece(p, n))[i] =
            IF i \leq Len(c) THEN c[i] ELSE Piece(p, n)[i - Len(c)]
    BY <1>1, ConcatProperties
<1> DEFINE t == c \o Piece(p, n)
<1>3. /\ t \in Seq(Int)
      /\ Len(t) = Len(c) + n
      /\ \A i \in 1..Len(c) + n : t[i] =
            IF i \leq Len(c) THEN c[i] ELSE Piece(p, n)[i - Len(c)]
    BY <1>1, <1>2
<1> HIDE DEF t
<1>4. ASSUME Len(c) = p, \A i \in 1..p : c[i] = i, NEW i \in 1..p + n
      PROVE  t[i] = i
    <2>1. CASE i \leq p
        BY <1>3, <1>4, <2>1
    <2>2. CASE ~(i \leq p)
        <3>1. i - p \in 1..n
            BY <1>4, <2>2
        <3>2. t[i] = Piece(p, n)[i - p]
            BY <1>3, <1>4, <2>2
        <3>3. Piece(p, n)[i - p] = p + (i - p)
            BY <1>1, <3>1
        <3>4. p + (i - p) = i
            OBVIOUS
        <3>5. QED
            BY <3>2, <3>3, <3>4
    <2>3. QED
        BY <2>1, <2>2
<1>5. t \in Seq(Int) /\ (Len(c) = p => Len(t) = p + n)
    BY <1>3
<1>6. QED
    BY <1>4, <1>5 DEF t

(* What holds the whole script is the whole script.                        *)
LEMMA IsWhole ==
    ASSUME NEW c \in Seq(Int), Len(c) = Length, \A i \in 1..Length : c[i] = i
    PROVE  c = Whole
<1>1. c = [i \in 1..Len(c) |-> c[i]]
    OBVIOUS
<1>2. QED
    BY <1>1 DEF Whole

LEMMA WrittenStep ==
    ASSUME IInv, NEW r \in Requests, NEW n \in 1..Length - pos[r], Written(r, n)
    PROVE  IInv'
<1>0. n \in Nat /\ pos[r] \in Int /\ content[r] \in Seq(Int) /\ n \leq Length - pos[r]
      /\ n > 0
    BY BoundsAssumption DEF IInv, TypeOK
<1> DEFINE c == content[r] \o Piece(pos[r], n)
<1>1. \A q \in Requests \ {r} : UNCHANGED Own(q)
    BY DEF Written, Go, configVars, ioVars, IInv, TypeOK, Own
<1>2. /\ step[r] = "writing" /\ step'[r] = AfterWrite(pos[r] + n)
      /\ step'[r] \in {"writing", "closing"}
      /\ pos' = [pos EXCEPT ![r] = pos[r] + n] /\ pos'[r] = pos[r] + n
      /\ content' = [content EXCEPT ![r] = c] /\ content'[r] = c
      /\ failures' = failures /\ api' = api /\ caller' = caller /\ text' = text
      /\ seen' = seen /\ crashed' = crashed
      /\ UNCHANGED <<params, map, reverse, stale, changes, cancelled, stack, disk>>
    BY DEF Written, At, Go, AfterWrite, configVars, ioVars, IInv, TypeOK
<1>3. /\ c \in Seq(Int)
      /\ Len(content[r]) = pos[r] => Len(c) = pos[r] + n
      /\ Len(content[r]) = pos[r] /\ (\A i \in 1..pos[r] : content[r][i] = i)
            => \A i \in 1..pos[r] + n : c[i] = i
    BY <1>0, Continued
<1> HIDE DEF c
<1>4. step' = [step EXCEPT ![r] = AfterWrite(pos[r] + n)]
    BY DEF Written, Go
<1>5. StackOK'
    BY <1>1, <1>2, StackKept DEF InLoop
<1>6. TypeOK'
    <2>1. step' \in [Requests -> Steps]
        BY <1>2, <1>4 DEF IInv, TypeOK, Steps
    <2>2. pos' \in [Requests -> Int]
        BY <1>0, <1>2 DEF IInv, TypeOK
    <2>3. content' \in [Requests -> Seq(Int)]
        BY <1>2, <1>3 DEF IInv, TypeOK
    <2>4. QED
        BY <1>2, <1>5, <2>1, <2>2, <2>3 DEF IInv, TypeOK
<1>7. ProgressOf(r)'
    <2>1. step'[r] \notin Early \cup Late
        BY <1>2 DEF Early, Late
    <2>2. ASSUME failures[r] = 0
          PROVE  /\ pos[r] \in Nat /\ Len(content[r]) = pos[r]
                 /\ \A i \in 1..pos[r] : content[r][i] = i
        BY <2>2, BoundsAssumption DEF IInv, RequestInv, ProgressOf
    <2>3. step'[r] = "writing" => pos[r] + n < Length
        BY <1>2 DEF AfterWrite
    <2>4. step'[r] = "closing" => pos[r] + n = Length
        BY <1>0, <1>2, BoundsAssumption DEF AfterWrite
    <2>5. ASSUME failures[r] = 0
          PROVE  /\ pos[r] + n \in 0..Length /\ Len(c) = pos[r] + n
                 /\ \A i \in 1..pos[r] + n : c[i] = i
        <3>1. pos[r] + n \in 0..Length
            BY <1>0, <2>2, <2>5, BoundsAssumption
        <3>2. Len(content[r]) = pos[r] /\ \A i \in 1..pos[r] : content[r][i] = i
            BY <2>2, <2>5
        <3>3. QED
            BY <1>3, <3>1, <3>2
    <2>6. QED
        BY <1>2, <2>1, <2>3, <2>4, <2>5 DEF ProgressOf
<1>8. RequestInv(r)'
    BY <1>2, <1>7 DEF IInv, RequestInv, AnsweredOf, SeenOf
<1>9. step'[r] \notin Late
    BY <1>2 DEF Late
<1>10. QED
    BY <1>1, <1>2, <1>6, <1>8, <1>9, OneRequestStep

LEMMA WriteFailsStep ==
    ASSUME IInv, NEW r \in Requests, WriteFails(r)
    PROVE  IInv'
<1> USE DEF WriteFails, At, Fail, configVars, ioVars
<1>1. \A q \in Requests \ {r} : UNCHANGED Own(q)
    BY DEF IInv, TypeOK, Own
<1>2. step[r] = "writing" /\ step' = step /\ failures'[r] # 0
    BY DEF IInv, TypeOK
<1>3. StackOK'
    BY <1>1, <1>2, StackKept DEF InLoop
<1>4. TypeOK'
    BY <1>3 DEF IInv, TypeOK
<1>5. RequestInv(r)'
    BY <1>2 DEF IInv, RequestInv, AnsweredOf, ProgressOf, SeenOf, Early, Late
<1>6. QED
    BY <1>1, <1>2, <1>4, <1>5, OneRequestStep DEF Late

LEMMA ClosedStep ==
    ASSUME IInv, NEW r \in Requests, Closed(r)
    PROVE  IInv'
<1> USE DEF Closed, At, Go, configVars, writeVars
<1>1. \A q \in Requests \ {r} : UNCHANGED Own(q)
    BY DEF IInv, TypeOK, Own
<1>2. step[r] = "closing" /\ step'[r] = "ready" /\ failures' = failures
    BY DEF IInv, TypeOK
<1>3. StackOK'
    BY <1>1, <1>2, StackKept DEF InLoop
<1>4. disk'.by = r /\ disk'.written = content[r] /\ content[r] \in Seq(Int)
    BY DEF IInv, TypeOK
<1>5. TypeOK'
    BY <1>3, <1>4 DEF IInv, TypeOK, Steps
<1>6. RequestInv(r)'
    BY <1>2 DEF IInv, RequestInv, AnsweredOf, ProgressOf, SeenOf, Early, Late
<1>7. failures[r] = 0 => content[r] = Whole
    <2>1. ASSUME failures[r] = 0
          PROVE  Len(content[r]) = Length /\ \A i \in 1..Length : content[r][i] = i
        BY <1>2, <2>1 DEF IInv, RequestInv, ProgressOf, Late
    <2>2. QED
        BY <1>4, <2>1, IsWhole
<1>8. disk'.by # None
    BY <1>4, NoneAssumption
<1>9. QED
    BY <1>1, <1>2, <1>4, <1>5, <1>6, <1>7, <1>8, OneRequestStep

LEMMA CloseFailsStep ==
    ASSUME IInv, NEW r \in Requests, CloseFails(r)
    PROVE  IInv'
<1> USE DEF CloseFails, At, Go, Fail, configVars, writeVars, ioVars
<1>1. \A q \in Requests \ {r} : UNCHANGED Own(q)
    BY DEF IInv, TypeOK, Own
<1>2. step[r] = "closing" /\ step'[r] = "ready" /\ failures'[r] # 0
    BY DEF IInv, TypeOK
<1>3. StackOK'
    BY <1>1, <1>2, StackKept DEF InLoop
<1>4. TypeOK'
    BY <1>3 DEF IInv, TypeOK, Steps
<1>5. RequestInv(r)'
    BY <1>2 DEF IInv, RequestInv, AnsweredOf, ProgressOf, SeenOf, Early, Late
<1>6. QED
    BY <1>1, <1>2, <1>4, <1>5, OneRequestStep

LEMMA ReadyStep ==
    ASSUME IInv, NEW r \in Requests, Ready(r)
    PROVE  IInv'
<1> USE DEF Ready, At, Go, configVars, writeVars, ioVars
<1>1. \A q \in Requests \ {r} : UNCHANGED Own(q)
    BY DEF IInv, TypeOK, Own
<1>2. /\ step[r] = "ready" /\ failures' = failures
      /\ step'[r] = IF api[r] = "sync" THEN "leaving" ELSE "none"
      /\ caller'[r] \in {"object", "error"}
    BY DEF IInv, TypeOK
<1>3. StackOK'
    BY <1>1, <1>2, StackKept DEF InLoop
<1>4. TypeOK'
    BY <1>3 DEF IInv, TypeOK, Steps
<1>5. RequestInv(r)'
    BY <1>2 DEF IInv, RequestInv, AnsweredOf, ProgressOf, SeenOf, Early, Late
<1>6. failures[r] = 0 => disk.by # None
    BY <1>2 DEF IInv, FileOK, Late
<1>7. QED
    BY <1>1, <1>2, <1>4, <1>5, <1>6, OneRequestStep

LEMMA SyncReturnsStep ==
    ASSUME IInv, NEW r \in Requests, SyncReturns(r)
    PROVE  IInv'
<1> USE DEF SyncReturns, At, Go, configVars, writeVars
<1>1. \A q \in Requests \ {r} : UNCHANGED Own(q)
    BY DEF IInv, TypeOK, Own
<1>2. step[r] = "leaving" /\ step'[r] = "none" /\ failures' = failures
    BY DEF IInv, TypeOK
<1>3. stack' \in Seq(Requests) /\ StackOK'
    <2>1. ~InLoop(r)'
        BY <1>2 DEF InLoop
    <2>2. \A q \in Requests \ {r} : InLoop(q)' <=> InLoop(q)
        BY <1>1, OthersKeep DEF IInv
    <2>3. QED
        BY <2>1, <2>2, StackPop DEF IInv
<1>4. TypeOK'
    BY <1>3 DEF IInv, TypeOK, Steps
<1>5. RequestInv(r)'
    BY <1>2 DEF IInv, RequestInv, AnsweredOf, ProgressOf, SeenOf, Early, Late
<1>6. failures[r] = 0 => disk.by # None
    BY <1>2 DEF IInv, FileOK, Late
<1>7. QED
    BY <1>1, <1>2, <1>4, <1>5, <1>6, OneRequestStep

-------------------------------------------------------------------------------
(* The calls, and a cancellation                                           *)

(* A request that can be made has done nothing yet.                        *)
LEMMA Uncalled ==
    ASSUME IInv, NEW r \in Requests, caller[r] = "idle"
    PROVE  step[r] = "idle" /\ ~InLoop(r) /\ pos[r] = 0 /\ content[r] = <<>>
<1>1. step[r] = "idle"
    BY DEF IInv, RequestInv, AnsweredOf
<1>2. QED
    BY <1>1 DEF IInv, RequestInv, ProgressOf, Early, InLoop

LEMMA CallCrashesStep ==
    ASSUME IInv, NEW r \in Requests, NEW j \in Offered, CallCrashes(r, j)
    PROVE  IInv'
<1> USE DEF CallCrashes, Call, configVars, writeVars
<1>0. j.api \in {"sync", "async"}
    BY DEF Offered, Job
<1>1. \A q \in Requests \ {r} : UNCHANGED Own(q)
    BY DEF IInv, TypeOK, Own
<1>2. step[r] = "idle" /\ step' = step /\ caller'[r] = "waiting" /\ crashed'
      /\ failures' = failures
    BY Uncalled DEF IInv, TypeOK
<1>3. StackOK'
    BY <1>1, <1>2, StackKept DEF InLoop
<1>4. TypeOK'
    BY <1>0, <1>3 DEF IInv, TypeOK
<1>5. RequestInv(r)'
    BY <1>2 DEF IInv, RequestInv, AnsweredOf, ProgressOf, SeenOf, Early, Late
<1>6. QED
    BY <1>1, <1>2, <1>4, <1>5, OneRequestStep DEF Late

LEMMA CallDataStep ==
    ASSUME IInv, NEW r \in Requests, NEW j \in Offered, CallData(r, j)
    PROVE  IInv'
<1> USE DEF CallData, Call, Fail, configVars, writeVars
<1>0. j.api \in {"sync", "async"}
    BY DEF Offered, Job
<1>1. \A q \in Requests \ {r} : UNCHANGED Own(q)
    BY DEF IInv, TypeOK, Own
<1>2. /\ ~InLoop(r) /\ step[r] = "idle" /\ step'[r] = "generated"
      /\ caller'[r] = "waiting" /\ seen'[r] = {Document(params, map)}
      /\ pos'[r] = 0 /\ content'[r] = <<>>
    BY Uncalled DEF IInv, TypeOK
<1>3. \/ failures'[r] # 0
      \/ failures'[r] = failures[r] /\ text'[r] = Document(params, map)
    BY DEF IInv, TypeOK
<1>4. stack' \in Seq(Requests) /\ StackOK'
    <2>1. \A q \in Requests \ {r} : InLoop(q)' <=> InLoop(q)
        BY <1>1, OthersKeep DEF IInv
    <2>2. InLoop(r)'
        BY <1>2 DEF InLoop
    <2>3. QED
        BY <1>2, <2>1, <2>2, StackPush DEF IInv
<1>5. Document(params, map) \in Documents
    BY DocumentType DEF IInv, TypeOK
<1>6. TypeOK'
    <2>1. text' \in [Requests -> Documents \cup {NoDocument}]
        BY <1>5 DEF IInv, TypeOK
    <2>2. failures' \in [Requests -> Nat]
        <3>1. failures \in [Requests -> Nat] /\ failures[r] + 1 \in Nat
            BY DEF IInv, TypeOK
        <3>2. failures' \in {failures, [failures EXCEPT ![r] = failures[r] + 1]}
            OBVIOUS
        <3>3. QED
            BY <3>1, <3>2
    <2>3. seen' \in [Requests -> SUBSET Documents]
        BY <1>5 DEF IInv, TypeOK
    <2>4. QED
        BY <1>0, <1>4, <2>1, <2>2, <2>3 DEF IInv, TypeOK, Steps
<1>7. RequestInv(r)'
    <2>1. AnsweredOf(r)' /\ SeenOf(r)'
        BY <1>2, <1>3 DEF AnsweredOf, SeenOf
    <2>2. ProgressOf(r)'
        BY <1>2, BoundsAssumption DEF ProgressOf, Late
    <2>3. QED
        BY <2>1, <2>2 DEF RequestInv
<1>8. QED
    BY <1>1, <1>2, <1>3, <1>6, <1>7, OneRequestStep DEF Late

LEMMA CallUriStep ==
    ASSUME IInv, NEW r \in Requests, NEW j \in Offered, CallUri(r, j)
    PROVE  IInv'
<1> USE DEF CallUri, Call, configVars, writeVars
<1>0. j.api \in {"sync", "async"}
    BY DEF Offered, Job
<1>1. \A q \in Requests \ {r} : UNCHANGED Own(q)
    BY DEF IInv, TypeOK, Own
<1>2. /\ ~InLoop(r) /\ step[r] = "idle" /\ step'[r] = "template"
      /\ caller'[r] = "waiting" /\ seen'[r] = {Document(params, map)}
      /\ pos'[r] = 0 /\ content'[r] = <<>> /\ failures' = failures
    BY Uncalled DEF IInv, TypeOK
<1>3. stack' \in Seq(Requests) /\ StackOK'
    <2>1. \A q \in Requests \ {r} : InLoop(q)' <=> InLoop(q)
        BY <1>1, OthersKeep DEF IInv
    <2>2. InLoop(r)'
        BY <1>2 DEF InLoop
    <2>3. QED
        BY <1>2, <2>1, <2>2, StackPush DEF IInv
<1>4. Document(params, map) \in Documents
    BY DocumentType DEF IInv, TypeOK
<1>5. TypeOK'
    <2>1. seen' \in [Requests -> SUBSET Documents]
        BY <1>4 DEF IInv, TypeOK
    <2>2. QED
        BY <1>0, <1>3, <2>1 DEF IInv, TypeOK, Steps
<1>6. Document(params, map)' = Document(params, map)
    BY DEF Document, Lookup
<1>7. RequestInv(r)'
    <2>1. AnsweredOf(r)' /\ SeenOf(r)'
        BY <1>2, <1>6 DEF AnsweredOf, SeenOf
    <2>2. ProgressOf(r)'
        BY <1>2, BoundsAssumption DEF ProgressOf, Late
    <2>3. QED
        BY <2>1, <2>2 DEF RequestInv
<1>8. QED
    BY <1>1, <1>2, <1>5, <1>7, OneRequestStep DEF Late

LEMMA CancelStep ==
    ASSUME IInv, NEW r \in Requests, Cancel(r)
    PROVE  IInv'
<1> USE DEF Cancel, configVars, writeVars, ioVars
<1>1. \A q \in Requests : UNCHANGED Own(q)
    BY DEF Own
<1>2. RequestInv(r)'
    BY <1>1, OthersKeep DEF IInv
<1>3. StackOK'
    BY <1>1, StackKept DEF InLoop
<1>4. TypeOK'
    BY <1>3 DEF IInv, TypeOK
<1>5. QED
    BY <1>1, <1>2, <1>4, OneRequestStep DEF IInv, FileOK

-------------------------------------------------------------------------------
(* The configuration                                                       *)

(* The configuration or the datamap changes under the requests.            *)
LEMMA ChangeStep ==
    ASSUME IInv, Change, params' \in Documents, map' \in [Values -> Values \cup {None}],
           reverse' \in [Values -> Values \cup {None}], stale' \subseteq Values,
           DatamapsInverse'
    PROVE  IInv'
<1> USE DEF Change, writeVars, ioVars
<1>1. changes' \in 0..MaxChanges
    BY BoundsAssumption DEF IInv, TypeOK
<1>2. Document(params', map') \in Documents
    BY DocumentType
<1>3. seen' \in [Requests -> SUBSET Documents]
    BY <1>2 DEF IInv, TypeOK
<1>4. StackOK'
    BY StackStays DEF IInv, TypeOK, InLoop
<1>5. TypeOK'
    BY <1>1, <1>3, <1>4 DEF IInv, TypeOK
<1>6. ASSUME NEW r \in Requests
      PROVE  RequestInv(r)'
    <2>1. AnsweredOf(r)' /\ ProgressOf(r)'
        BY DEF IInv, RequestInv, AnsweredOf, ProgressOf
    <2>2. seen'[r] = IF step[r] = "template"
                     THEN seen[r] \cup {Document(params', map')} ELSE seen[r]
        OBVIOUS
    <2>3. Document(params, map)' = Document(params', map')
        BY DEF Document, Lookup
    <2>4. SeenOf(r)'
        BY <2>2, <2>3 DEF IInv, RequestInv, SeenOf
    <2>5. QED
        BY <2>1, <2>4 DEF RequestInv
<1>7. FileOK'
    BY DEF IInv, FileOK, Whole
<1>8. QED
    BY <1>5, <1>6, <1>7 DEF IInv

LEMMA ParamStep ==
    ASSUME IInv, NEW k \in Keys, NEW v \in Values,
           SetParam(k, v) \/ AddParam(k, v) \/ ClearParam(k)
    PROVE  IInv'
<1> USE DEF SetParam, AddParam, ClearParam
<1>1. params[k] \in Seq(Values)
    BY DEF IInv, TypeOK, Documents
<1>2. <<v>> \in Seq(Values) /\ <<>> \in Seq(Values) /\ Append(params[k], v) \in Seq(Values)
    BY <1>1
<1>3. PICK s \in Seq(Values) : params' = [params EXCEPT ![k] = s]
    BY <1>2
<1>4. params' \in Documents
    BY <1>3 DEF IInv, TypeOK, Documents
<1>5. UNCHANGED <<map, reverse, stale>> /\ Change
    OBVIOUS
<1>6. DatamapsInverse'
    BY <1>5 DEF IInv, DatamapsInverse
<1>7. QED
    BY <1>4, <1>5, <1>6, ChangeStep DEF IInv, TypeOK

(* ClearParam needs no value.                                              *)
LEMMA ClearStep ==
    ASSUME IInv, NEW k \in Keys, ClearParam(k)
    PROVE  IInv'
BY ParamStep, KeysAssumption

LEMMA InsertStep ==
    ASSUME IInv, NEW in \in Values, NEW out \in Values, Insert(in, out)
    PROVE  IInv'
<1> USE DEF Insert
<1>1. /\ map \in [Values -> Values \cup {None}]
      /\ reverse \in [Values -> Values \cup {None}]
      /\ stale \subseteq Values /\ params \in Documents
    BY DEF IInv, TypeOK
<1>2. map' \in [Values -> Values \cup {None}] /\ reverse' \in [Values -> Values \cup {None}]
    BY <1>1
<1>3. stale' \subseteq Values
    BY <1>1
<1>4. ASSUME NEW v \in Values, reverse'[v] # None, v \notin stale'
      PROVE  map'[reverse'[v]] = v
    <2>1. CASE v = out
        <3>1. reverse'[v] = in /\ map'[in] = out
            BY <1>1, <2>1
        <3>2. QED
            BY <2>1, <3>1
    <2>2. CASE v # out
        <3>1. reverse'[v] = reverse[v] /\ v \notin stale
            BY <1>1, <1>4, <2>2
        <3>2. reverse[v] \in Values /\ map[reverse[v]] = v
            BY <1>1, <1>4, <3>1 DEF IInv, DatamapsInverse
        <3>3. CASE reverse[v] = in
            <4>1. map[in] = v /\ v # None
                BY <3>2, <3>3, NoneAssumption
            <4>2. v \in stale'
                BY <4>1
            <4>3. QED
                BY <1>4, <4>2
        <3>4. CASE reverse[v] # in
            BY <1>1, <3>1, <3>2, <3>4
        <3>5. QED
            BY <3>3, <3>4
    <2>3. QED
        BY <2>1, <2>2
<1>5. DatamapsInverse'
    BY <1>4 DEF DatamapsInverse
<1>6. params' = params /\ Change
    OBVIOUS
<1>7. QED
    BY <1>1, <1>2, <1>3, <1>5, <1>6, ChangeStep

-------------------------------------------------------------------------------
(* The theorems                                                            *)

LEMMA InitIInv == Init => IInv
<1> SUFFICES ASSUME Init PROVE IInv
    OBVIOUS
<1> USE DEF Init
<1>1. StackOK
    <2>1. Len(stack) = 0
        OBVIOUS
    <2>2. \A r \in Requests : ~InLoop(r)
        BY DEF InLoop
    <2>3. QED
        BY <2>1, <2>2 DEF StackOK
<1>2. params \in Documents
    <2>1. <<Default>> \in Seq(Values) /\ <<>> \in Seq(Values)
        BY KeysAssumption
    <2>2. QED
        BY <2>1 DEF Documents
<1>3. ASSUME NEW v \in Values
      PROVE  /\ reverse[v] \in Values \cup {None}
             /\ reverse[v] # None => map[reverse[v]] = v
    <2>1. CASE \E w \in Values : Given[w] = v
        <3>1. (CHOOSE w \in Values : Given[w] = v) \in Values
              /\ Given[CHOOSE w \in Values : Given[w] = v] = v
            BY <2>1
        <3>2. reverse[v] = CHOOSE w \in Values : Given[w] = v
            BY <2>1
        <3>3. QED
            BY <3>1, <3>2
    <2>2. CASE ~(\E w \in Values : Given[w] = v)
        BY <2>2
    <2>3. QED
        BY <2>1, <2>2
<1>4. reverse \in [Values -> Values \cup {None}]
    BY <1>3
<1>5. content \in [Requests -> Seq(Int)] /\ stack \in Seq(Requests)
      /\ disk \in [by : Requests \cup {None}, written : Seq(Int)]
    <2>1. <<>> \in Seq(Int) /\ <<>> \in Seq(Requests)
        OBVIOUS
    <2>2. QED
        BY <2>1 DEF NoFile
<1>6. TypeOK
    <2>1. map \in [Values -> Values \cup {None}] /\ changes \in 0..MaxChanges
        BY GivenAssumption, BoundsAssumption
    <2>2. text \in [Requests -> Documents \cup {NoDocument}]
          /\ seen \in [Requests -> SUBSET Documents]
        OBVIOUS
    <2>3. pos \in [Requests -> Int] /\ failures \in [Requests -> Nat]
        OBVIOUS
    <2>4. step \in [Requests -> Steps]
        BY DEF Steps
    <2>5. QED
        BY <1>1, <1>2, <1>4, <1>5, <2>1, <2>2, <2>3, <2>4 DEF TypeOK
<1>7. ASSUME NEW r \in Requests
      PROVE  RequestInv(r)
    BY BoundsAssumption DEF RequestInv, AnsweredOf, ProgressOf, SeenOf, Late
<1>8. FileOK
    BY DEF FileOK, NoFile, Late
<1>9. DatamapsInverse
    BY <1>3 DEF DatamapsInverse
<1>10. QED
    BY <1>6, <1>7, <1>8, <1>9 DEF IInv

LEMMA StepIInv == IInv /\ [Next]_vars => IInv'
<1> SUFFICES ASSUME IInv, [Next]_vars PROVE IInv'
    OBVIOUS
<1>1. CASE Configure
    BY <1>1, ParamStep, ClearStep, InsertStep DEF Configure
<1>2. ASSUME NEW r \in Requests, NEW j \in Offered, Calls(r, j)
      PROVE  IInv'
    BY <1>2, CallCrashesStep, CallDataStep, CallUriStep DEF Calls
<1>3. ASSUME NEW r \in Requests, Cancel(r)
      PROVE  IInv'
    BY <1>3, CancelStep
<1>4. ASSUME NEW r \in Requests, Dispatch(r)
      PROVE  IInv'
    <2>1. CASE TemplateLoaded(r) \/ TemplateFails(r) \/ GenerateDone(r)
        BY <2>1, TemplateLoadedStep, TemplateFailsStep, GenerateDoneStep
    <2>2. CASE Opened(r) \/ OpenFails(r) \/ WriteFails(r)
        BY <2>2, OpenedStep, OpenFailsStep, WriteFailsStep
    <2>3. CASE \E n \in 1..Length - pos[r] : Written(r, n)
        BY <2>3, WrittenStep
    <2>4. CASE Closed(r) \/ CloseFails(r) \/ Ready(r)
        BY <2>4, ClosedStep, CloseFailsStep, ReadyStep
    <2>5. QED
        BY <1>4, <2>1, <2>2, <2>3, <2>4 DEF Dispatch
<1>5. ASSUME NEW r \in Requests, LoopReturns(r)
      PROVE  IInv'
    BY <1>5, GenerateReturnsStep, StrlenOfNullStep, SyncReturnsStep DEF LoopReturns
<1>6. CASE UNCHANGED vars
    <2> USE <1>6 DEF vars, configVars, writeVars, ioVars
    <2>1. StackOK'
        BY StackStays DEF IInv, TypeOK, InLoop
    <2>2. TypeOK'
        BY <2>1 DEF IInv, TypeOK
    <2>3. \A r \in Requests : RequestInv(r)'
        BY OthersKeep DEF IInv, Own
    <2>4. FileOK' /\ DatamapsInverse'
        BY DEF IInv, FileOK, Whole, DatamapsInverse
    <2>5. QED
        BY <2>2, <2>3, <2>4 DEF IInv
<1>7. QED
    BY <1>1, <1>2, <1>3, <1>4, <1>5, <1>6 DEF Next

LEMMA Invariance == Spec => []IInv
<1>1. QED
    BY InitIInv, StepIInv, PTL DEF Spec

(* Every variable keeps its type; in particular the loops that run are     *)
(* those of the requests that have not returned, each of them once.        *)
THEOREM TypeCorrect == Spec => []TypeOK
<1>1. IInv => TypeOK
    BY DEF IInv
<1>2. QED
    BY <1>1, Invariance, PTL

(* A caller who has a file for a request without a failure finds a whole   *)
(* script in it, for any number of requests and any pieces the writes of   *)
(* osinfo_install_script_generate_output_write_file accept.                *)
THEOREM WrittenWholeCorrect == Spec => []WrittenWhole
<1>1. IInv => WrittenWhole
    <2> SUFFICES ASSUME IInv PROVE WrittenWhole
        OBVIOUS
    <2>1. ASSUME NEW r \in Requests, caller[r] = "object", failures[r] = 0
          PROVE  content[r] = Whole /\ text[r] \in seen[r] /\ disk.by # None
        <3>1. step[r] \in {"leaving", "none"}
            BY <2>1 DEF IInv, RequestInv, AnsweredOf
        <3>2. Len(content[r]) = Length /\ \A i \in 1..Length : content[r][i] = i
            BY <2>1, <3>1 DEF IInv, RequestInv, ProgressOf, Late
        <3>3. content[r] \in Seq(Int)
            BY DEF IInv, TypeOK
        <3>4. content[r] = Whole
            BY <3>2, <3>3, IsWhole
        <3>5. text[r] \in seen[r] /\ disk.by # None
            BY <2>1, <3>1 DEF IInv, RequestInv, SeenOf, FileOK, Late
        <3>6. QED
            BY <3>4, <3>5
    <2>2. QED
        BY <2>1 DEF WrittenWhole, IInv, FileOK
<1>2. QED
    BY <1>1, Invariance, PTL

(* However often osinfo_datamap_insert is called, the reverse of the       *)
(* datamap is one for each string it has not lost.                         *)
THEOREM DatamapCorrect == Spec => []DatamapsInverse
<1>1. IInv => DatamapsInverse
    BY DEF IInv
<1>2. QED
    BY <1>1, Invariance, PTL

(* Each step is a step of at most one of the abstract requests.            *)
LEMMA StepRequests == IInv /\ [Next]_vars => [Abstract!Next]_(Abstract!vars)
<1> SUFFICES ASSUME IInv, [Next]_vars PROVE [Abstract!Next]_(Abstract!vars)
    OBVIOUS
<1> USE DEF Abstract!Next, Abstract!vars
<1>1. ASSUME NEW r \in Requests, NEW j \in Offered, Calls(r, j)
      PROVE  Abstract!Submit(r)
    BY <1>1 DEF Calls, CallCrashes, CallData, CallUri, Call, Abstract!Submit
<1>2. ASSUME NEW r \in Requests, Cancel(r)
      PROVE  Abstract!Cancel(r)
    BY <1>2 DEF Cancel, Abstract!Cancel
<1>3. ASSUME NEW r \in Requests, Ready(r)
      PROVE  Abstract!Answer(r)
    <2>1. caller[r] = "waiting"
        <3>1. step[r] = "ready"
            BY <1>3 DEF Ready, At
        <3>2. caller[r] \notin {"idle", "object", "error"}
            BY <3>1 DEF IInv, RequestInv, AnsweredOf
        <3>3. QED
            BY <3>2 DEF IInv, TypeOK
    <2>2. QED
        BY <1>3, <2>1 DEF Ready, Abstract!Answer
<1>4. ASSUME NEW r \in Requests, Dispatch(r) \/ LoopReturns(r), ~Ready(r)
      PROVE  UNCHANGED <<caller, cancelled>>
    BY <1>4 DEF Dispatch, LoopReturns, TemplateLoaded, TemplateFails, GenerateDone, Opened,
        OpenFails, Written, WriteFails, Closed, CloseFails, GenerateReturns, StrlenOfNull,
        SyncReturns
<1>5. CASE Configure \/ UNCHANGED vars
    BY <1>5 DEF Configure, SetParam, AddParam, ClearParam, Insert, Change, vars
<1>6. QED
    BY <1>1, <1>2, <1>3, <1>4, <1>5 DEF Next

(* The requests, nested as they may be, implement separate asynchronous    *)
(* ones: each is answered once, and with an error if it was cancelled.     *)
THEOREM RequestsCorrect == Spec => RequestImplemented
<1>1. Init => Abstract!Init
    BY DEF Init, Abstract!Init
<1>2. QED
    BY <1>1, StepRequests, Invariance, PTL
    DEF Spec, RequestImplemented, Abstract!Spec
===============================================================================
