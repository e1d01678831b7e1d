---------------------------- MODULE TreeCreateProofs ----------------------------
(***************************************************************************)
(* Proofs about TreeCreate, for all files, values of any length, and every *)
(* width of the index of is_str_empty.                                     *)
(***************************************************************************)
EXTENDS TreeCreate, TLAPS

-------------------------------------------------------------------------------
(* The inductive invariant                                                 *)

(* Nothing has happened before the request is made.                        *)
Fresh == step = "idle" => /\ answer = "none" /\ data = "none" /\ owner = "none"
                          /\ treeinfo = "none" /\ caller = "idle" /\ ~faulty

(* Why the second name is looked at.                                       *)
SecondTry == \/ treeinfo # "treeinfo" \/ faulty
             \/ job.files[".treeinfo"].state = "absent"

(* What the pending operation is, and of which file.                       *)
Pending ==
    /\ step \in Callbacks => job.protocol # "other"
    /\ step \in {"soup_read", "content_read"} => job.protocol = "http"
    /\ step = "local_read" => job.protocol = "file"
    /\ step = "content_read" => There.state # "absent" /\ content = Served
    /\ cancelled \/ SecondTry

ValuesOf(doc) == [k \in KeySet |-> IF k \in KeysRead(doc) THEN doc.values[k] ELSE Missing]

(* The keys before the one that is looked at have been dealt with, and of  *)
(* that one nothing but spaces has been seen.                              *)
Half == step = "scan" =>
    /\ There.state # "absent" /\ Loads(Served) /\ SecondTry
    /\ values = ValuesOf(Served)
    /\ \A k \in 1..Len(Keys) :
          tree.info[Keys[k]] = IF k < key THEN Shown(Served)[Keys[k]] ELSE Missing
    /\ key \leq Len(Keys) => i \leq values[Keys[key]].first

IInv == TypeOK /\ Fresh /\ AnsweredOnce /\ Pending /\ Half /\ AnswerJustified

-------------------------------------------------------------------------------
(* The keys are seven different ones.                                      *)
LEMMA SevenKeys ==
    /\ Len(Keys) = 7
    /\ \A k \in 1..7 : Keys[k] \in KeySet
    /\ \A k \in KeySet : \E j \in 1..7 : k = Keys[j]
    /\ \A j, k \in 1..7 : Keys[j] = Keys[k] => j = k
<1>1. Len(Keys) = 7
    BY DEF Keys
<1>2. \A k \in 1..7 : Keys[k] \in KeySet
    BY <1>1 DEF KeySet
<1>3. \A k \in KeySet : \E j \in 1..7 : k = Keys[j]
    BY <1>1 DEF KeySet
<1>4. \A j, k \in 1..7 : Keys[j] = Keys[k] => j = k
    BY DEF Keys
<1>5. QED
    BY <1>1, <1>2, <1>3, <1>4

(* What the fields of a request are.                                       *)
LEMMA JobType ==
    ASSUME TypeOK
    PROVE  /\ job \in Job
           /\ job.protocol \in {"http", "file", "other"}
           /\ job.chunked \in BOOLEAN
           /\ \A n \in Names : job.files[n] \in Doc
<1>1. job \in Job
    BY JobsAssumption DEF TypeOK
<1>2. QED
    BY <1>1 DEF Job

LEMMA MissingType == Missing \in Legible /\ EmptyDoc \in Doc
<1>1. Missing \in Value /\ Missing \in Legible
    BY DEF Missing, Value, Legible
<1>2. QED
    BY <1>1 DEF EmptyDoc, Doc

(* The file a tree is made of, and the values read and shown of a file.    *)
LEMMA DocType ==
    ASSUME TypeOK, treeinfo \in Names
    PROVE  There \in Doc /\ Served \in Doc
BY JobType, MissingType DEF There, Served

LEMMA ValuesType ==
    ASSUME NEW doc \in Doc
    PROVE  /\ Loads(doc) => ValuesOf(doc) \in [KeySet -> Legible]
           /\ Shown(doc) \in [KeySet -> Legible]
<1>1. doc.values \in [KeySet -> Value]
    BY DEF Doc
<1>2. ASSUME Loads(doc)
      PROVE  ValuesOf(doc) \in [KeySet -> Legible]
    <2>1. \A k \in KeysRead(doc) : doc.values[k] \in Legible
        BY <1>1, <1>2 DEF Loads, Legible, KeysRead
    <2>2. QED
        BY <2>1, MissingType DEF ValuesOf
<1>3. Shown(doc) \in [KeySet -> Legible]
    <2>1. \A k \in KeySet : doc.values[k].kind = "text" => doc.values[k] \in Legible
        BY <1>1 DEF Legible
    <2>2. QED
        BY <2>1, MissingType DEF Shown
<1>4. QED
    BY <1>2, <1>3

-------------------------------------------------------------------------------
(* The steps                                                               *)

LEMMA InitIInv == Init => IInv
<1> SUFFICES ASSUME Init PROVE IInv
    OBVIOUS
<1>1. TypeOK
    <2>1. values \in [KeySet -> Legible] /\ NoTree.info \in [KeySet -> Legible]
        BY MissingType DEF Init, NoTree
    <2>2. tree \in [arch : {"none", "i386", "named"}, info : [KeySet -> Legible]]
        BY <2>1 DEF Init, NoTree
    <2>3. content \in Doc /\ key \in 1..Len(Keys) + 1
        BY MissingType, SevenKeys DEF Init
    <2>4. i \in 0..Wrap - 1
        BY WrapAssumption DEF Init
    <2>5. QED
        BY <2>1, <2>2, <2>3, <2>4 DEF Init, TypeOK
<1>2. QED
    BY <1>1 DEF Init, IInv, Fresh, AnsweredOnce, Pending, Half, AnswerJustified,
        Callbacks, SecondTry

(* The application cancels.                                                *)
LEMMA CancelStep == IInv /\ Cancel => IInv'
<1> SUFFICES ASSUME IInv, Cancel PROVE IInv'
    OBVIOUS
<1> USE DEF IInv, Cancel, There, Served, scanVars, ownVars
<1>1. TypeOK'
    BY DEF TypeOK
<1>2. Fresh' /\ AnsweredOnce'
    BY DEF Fresh, AnsweredOnce
<1>3. Pending'
    BY DEF Pending, SecondTry
<1>4. Half'
    BY DEF Half, SecondTry
<1>5. AnswerJustified'
    BY DEF AnswerJustified
<1>6. QED
    BY <1>1, <1>2, <1>3, <1>4, <1>5

(* A name is asked for, or the location is not supported.                  *)
LEMMA HelperStep ==
    ASSUME IInv, NEW name \in Names, Helper(name), step \in {"idle"} \cup (Callbacks \ {"scan"}),
           UNCHANGED <<job, content, scanVars, cancelled>>,
           caller' = "waiting",
           faulty' \in BOOLEAN,
           name = "treeinfo" => \/ cancelled \/ faulty'
                                \/ job.files[".treeinfo"].state = "absent"
    PROVE  IInv'
<1> USE DEF IInv, scanVars
<1>1. TypeOK'
    BY DEF TypeOK, Helper, ReturnError, Callbacks, Errors, Names
<1>2. answer = "none" /\ owner = "none"
    BY DEF Fresh, AnsweredOnce, Callbacks
<1>3. CASE job.protocol = "other"
    <2>1. answer' = "protocol" /\ step' = "ready" /\ data' = "freed" /\ owner' = owner
          /\ treeinfo' = treeinfo
        BY <1>3 DEF Helper, ReturnError
    <2>2. step = "idle" /\ treeinfo = "none"
        BY <1>3 DEF Pending, Fresh
    <2>3. Fresh' /\ AnsweredOnce' /\ Half' /\ AnswerJustified'
        BY <1>2, <1>3, <2>1 DEF Fresh, AnsweredOnce, Half, AnswerJustified, Callbacks
    <2>4. Pending'
        BY <1>3, <2>1, <2>2 DEF Pending, SecondTry, Callbacks
    <2>5. QED
        BY <1>1, <2>3, <2>4
<1>4. CASE job.protocol # "other"
    <2>1. /\ treeinfo' = name /\ data' = "alive" /\ answer' = "none" /\ owner' = "none"
          /\ step' = IF job.protocol = "http" THEN "soup_read" ELSE "local_read"
        BY <1>2, <1>4 DEF Helper
    <2>2. Fresh' /\ AnsweredOnce' /\ Half' /\ AnswerJustified'
        BY <1>4, <2>1 DEF Fresh, AnsweredOnce, Half, AnswerJustified, Callbacks
    <2>3. Pending'
        BY <1>4, <2>1, JobType DEF Pending, SecondTry, Callbacks, Names
    <2>4. QED
        BY <1>1, <2>2, <2>3
<1>5. QED
    BY <1>3, <1>4

(* An error is returned, which the location calls for.                     *)
LEMMA ReturnErrorStep ==
    ASSUME IInv, NEW e \in Errors, ReturnError(e), step \in Callbacks \ {"scan"},
           UNCHANGED <<job, treeinfo, content, scanVars, cancelled, caller>>,
           faulty' \in BOOLEAN,
           faulty => faulty',
           e # "protocol",
           e = "no_treeinfo" =>
               /\ job.protocol = "http"
               /\ faulty' \/ \A n \in Names : job.files[n].state = "absent",
           e = "keyfile" => ~Loads(Served),
           e = "io" => \/ faulty' \/ cancelled
                       \/ \A n \in Names : job.files[n].state = "absent"
    PROVE  IInv'
<1> USE DEF IInv, scanVars, ReturnError
<1>1. TypeOK'
    BY DEF TypeOK
<1>2. Fresh' /\ AnsweredOnce' /\ Half'
    BY DEF Fresh, AnsweredOnce, Half, Callbacks, Errors
<1>3. Pending'
    BY DEF Pending, SecondTry, Callbacks
<1>4. AnswerJustified'
    <2>1. job.protocol # "other"
        BY DEF Pending, Callbacks
    <2>2. Served' = Served
        BY DEF Served, There
    <2>3. ~Loads(Served) => ~Loads(Served)'
        BY <2>2 DEF Loads, KeysRead
    <2>4. QED
        BY <2>1, <2>3 DEF AnswerJustified, Errors
<1>5. QED
    BY <1>1, <1>2, <1>3, <1>4

(* After a failure at the second name, neither file could be read.         *)
LEMMA LastFailure ==
    ASSUME IInv, LastTry, Fails, step \in Callbacks, ~cancelled
    PROVE  faulty' \/ \A n \in Names : job.files[n].state = "absent"
<1>1. treeinfo = "treeinfo"
    BY DEF IInv, AnsweredOnce, LastTry, Names
<1>2. QED
    BY <1>1 DEF IInv, Pending, SecondTry, Fails, There, Names

-------------------------------------------------------------------------------
(* The callbacks before the scan                                           *)

LEMMA CreateStep == IInv /\ CreateFromLocation => IInv'
<1> SUFFICES ASSUME IInv, CreateFromLocation PROVE IInv'
    OBVIOUS
<1>1. faulty' \in BOOLEAN
    BY DEF CreateFromLocation, IInv, TypeOK
<1>2. QED
    BY <1>1, HelperStep DEF CreateFromLocation, Names

(* A first answer that fails starts the second operation.                  *)
LEMMA TryAgainStep ==
    ASSUME IInv, step \in {"soup_read", "local_read"}, Fails, TryAgain,
           UNCHANGED <<job, content, scanVars, caller, cancelled>>
    PROVE  IInv'
<1>1. step \in {"idle"} \cup (Callbacks \ {"scan"}) /\ step \in Callbacks
    BY DEF Callbacks
<1>2. faulty' \in BOOLEAN
    BY DEF IInv, TypeOK, Fails
<1>3. caller' = "waiting"
    BY <1>1 DEF IInv, AnsweredOnce
<1>4. cancelled \/ faulty' \/ job.files[".treeinfo"].state = "absent"
    BY DEF TryAgain, Fails, There
<1>5. QED
    BY <1>1, <1>2, <1>3, <1>4, HelperStep DEF TryAgain, Names

LEMMA SoupFailsStep == IInv /\ SoupFails => IInv'
<1> SUFFICES ASSUME IInv, SoupFails PROVE IInv'
    OBVIOUS
<1>1. step = "soup_read" /\ Fails
      /\ UNCHANGED <<job, content, scanVars, caller, cancelled>>
    BY DEF SoupFails
<1>2. step \in Callbacks \ {"scan"} /\ step \in Callbacks
    BY <1>1 DEF Callbacks
<1>3. faulty' \in BOOLEAN /\ (faulty => faulty')
    BY <1>1 DEF IInv, TypeOK, Fails
<1>4. job.protocol = "http"
    BY <1>1 DEF IInv, Pending
<1>5. CASE TryAgain
    BY <1>1, <1>5, TryAgainStep
<1>6. CASE LastTry /\ ReturnError("io") /\ UNCHANGED treeinfo
    <2>1. faulty' \/ cancelled \/ \A n \in Names : job.files[n].state = "absent"
        BY <1>1, <1>2, <1>6, LastFailure
    <2>2. QED
        BY <1>1, <1>2, <1>3, <1>6, <2>1, ReturnErrorStep DEF Errors
<1>7. CASE LastTry /\ ~cancelled /\ ReturnError("no_treeinfo") /\ UNCHANGED treeinfo
    <2>1. faulty' \/ \A n \in Names : job.files[n].state = "absent"
        BY <1>1, <1>2, <1>7, LastFailure
    <2>2. QED
        BY <1>1, <1>2, <1>3, <1>4, <1>7, <2>1, ReturnErrorStep DEF Errors
<1>8. QED
    BY <1>5, <1>6, <1>7 DEF SoupFails

LEMMA LocalFailsStep == IInv /\ LocalFails => IInv'
<1> SUFFICES ASSUME IInv, LocalFails PROVE IInv'
    OBVIOUS
<1>1. step = "local_read" /\ Fails
      /\ UNCHANGED <<job, content, scanVars, caller, cancelled>>
    BY DEF LocalFails
<1>2. step \in Callbacks \ {"scan"} /\ step \in Callbacks
    BY <1>1 DEF Callbacks
<1>3. faulty' \in BOOLEAN /\ (faulty => faulty')
    BY <1>1 DEF IInv, TypeOK, Fails
<1>4. CASE TryAgain
    BY <1>1, <1>4, TryAgainStep
<1>5. CASE LastTry /\ ReturnError("io") /\ UNCHANGED treeinfo
    <2>1. faulty' \/ cancelled \/ \A n \in Names : job.files[n].state = "absent"
        BY <1>1, <1>2, <1>5, LastFailure
    <2>2. QED
        BY <1>1, <1>2, <1>3, <1>5, <2>1, ReturnErrorStep DEF Errors
<1>6. QED
    BY <1>4, <1>5 DEF LocalFails

LEMMA ContentFailsStep == IInv /\ ContentFails => IInv'
<1> SUFFICES ASSUME IInv, ContentFails PROVE IInv'
    OBVIOUS
<1>1. step = "content_read" /\ Fails /\ ReturnError("io")
      /\ UNCHANGED <<job, treeinfo, content, scanVars, caller, cancelled>>
    BY DEF ContentFails
<1>2. step \in Callbacks \ {"scan"}
    BY <1>1 DEF Callbacks
<1>3. faulty' \in BOOLEAN /\ (faulty => faulty')
    BY <1>1 DEF IInv, TypeOK, Fails
<1>4. faulty' \/ cancelled
    BY <1>1 DEF IInv, Pending, Fails
<1>5. QED
    BY <1>1, <1>2, <1>3, <1>4, ReturnErrorStep DEF Errors

LEMMA SoupReadStep == IInv /\ SoupRead => IInv'
<1> SUFFICES ASSUME IInv, SoupRead PROVE IInv'
    OBVIOUS
<1>1. job.protocol = "http" /\ treeinfo \in Names
    BY DEF SoupRead, IInv, Pending, AnsweredOnce, Callbacks
<1>2. There' = There /\ Served' = Served /\ content' = Served
    BY <1>1 DEF SoupRead, There, Served
<1>3. TypeOK'
    BY <1>1, <1>2, DocType DEF SoupRead, scanVars, ownVars, IInv, TypeOK, Callbacks
<1>4. Fresh' /\ AnsweredOnce' /\ Half'
    BY DEF SoupRead, ownVars, IInv, Fresh, AnsweredOnce, Half, Callbacks
<1>5. Pending'
    BY <1>1, <1>2 DEF SoupRead, IInv, Pending, SecondTry, Callbacks
<1>6. answer' = "none" /\ job' = job /\ job.protocol # "other"
    BY <1>1 DEF SoupRead, ownVars, IInv, AnsweredOnce, Callbacks
<1>7. AnswerJustified'
    BY <1>6 DEF AnswerJustified
<1>8. QED
    BY <1>3, <1>4, <1>5, <1>7 DEF IInv

-------------------------------------------------------------------------------
(* Loading the file and scanning its values                                *)

LEMMA LoadStep ==
    ASSUME IInv, step \in {"content_read", "local_read"}, ~cancelled,
           There.state # "absent", Load(Served),
           UNCHANGED <<job, treeinfo, content, caller, cancelled, faulty>>
    PROVE  IInv'
<1>1. treeinfo \in Names /\ answer = "none" /\ job.protocol # "other"
      /\ data = "alive" /\ caller = "waiting"
    BY DEF IInv, AnsweredOnce, Pending, Callbacks
<1>2. There' = There /\ Served' = Served
    BY DEF There, Served
<1>3. /\ values' = ValuesOf(Served) /\ tree'.info = NoTree.info
      /\ tree' \in [arch : {"none", "i386", "named"}, info : {NoTree.info}]
      /\ key' = 1 /\ i' = 0 /\ step' = "scan" /\ owner' = "local"
      /\ data' = "alive" /\ answer' = "none"
    BY <1>1 DEF Load, ValuesOf, NoTree
<1>4. TypeOK'
    <2>1. values' \in [KeySet -> Legible] /\ NoTree.info \in [KeySet -> Legible]
        BY <1>1, <1>3, DocType, ValuesType, MissingType DEF Load, IInv, NoTree
    <2>2. key' \in 1..Len(Keys) + 1
        BY <1>3, SevenKeys
    <2>3. i' \in 0..Wrap - 1
        BY <1>3, WrapAssumption
    <2>4. tree' \in [arch : {"none", "i386", "named"}, info : [KeySet -> Legible]]
        BY <1>3, <2>1
    <2>5. QED
        BY <1>3, <2>1, <2>2, <2>3, <2>4 DEF IInv, TypeOK, Callbacks
<1>5. Fresh' /\ AnsweredOnce'
    BY <1>1, <1>3 DEF Fresh, AnsweredOnce, Callbacks
<1>6. Pending'
    BY <1>1, <1>2, <1>3 DEF IInv, Pending, SecondTry, Callbacks
<1>7. AnswerJustified'
    BY <1>1, <1>3 DEF AnswerJustified
<1>8. Half'
    <2>1. SecondTry' /\ Loads(Served)' /\ There'.state # "absent"
        BY <1>2 DEF Load, Loads, KeysRead, IInv, Pending, SecondTry
    <2>2. values' = ValuesOf(Served)'
        BY <1>2, <1>3 DEF ValuesOf, KeysRead
    <2>3. ASSUME NEW k \in 1..Len(Keys)
          PROVE  tree'.info[Keys[k]] = Missing /\ ~(k < key')
        BY <1>3, <2>3, SevenKeys DEF NoTree
    <2>4. Len(Keys) \in Nat /\ Keys[1] \in KeySet
        BY SevenKeys
    <2>5. values'[Keys[1]].first \in Nat
        <3>1. values'[Keys[1]] \in Legible
            BY <1>4, <2>4 DEF TypeOK
        <3>2. QED
            BY <3>1 DEF Legible, Value
    <2>6. i' \leq values'[Keys[key']].first
        BY <1>3, <2>5
    <2>7. QED
        BY <1>2, <2>1, <2>2, <2>3, <2>6 DEF Half
<1>9. QED
    BY <1>4, <1>5, <1>6, <1>7, <1>8 DEF IInv

LEMMA ReadStep == IInv /\ (ContentRead \/ LocalRead) => IInv'
<1> SUFFICES ASSUME IInv, ContentRead \/ LocalRead PROVE IInv'
    OBVIOUS
<1>1. /\ step \in {"content_read", "local_read"} /\ ~cancelled
      /\ UNCHANGED <<job, treeinfo, content, caller, cancelled, faulty>>
    BY DEF ContentRead, LocalRead
<1>2. There.state # "absent"
    BY DEF ContentRead, LocalRead, IInv, Pending
<1>3. Load(Served) \/ LoadFails(Served)
    BY DEF ContentRead, LocalRead, IInv, Pending, Served
<1>4. CASE Load(Served)
    BY <1>1, <1>2, <1>4, LoadStep
<1>5. CASE LoadFails(Served)
    <2>1. step \in Callbacks \ {"scan"} /\ faulty' \in BOOLEAN
        BY <1>1 DEF Callbacks, IInv, TypeOK
    <2>2. QED
        BY <1>1, <1>5, <2>1, ReturnErrorStep DEF LoadFails, Errors
<1>6. QED
    BY <1>3, <1>4, <1>5

(* What holds of the value that is scanned.                                *)
LEMMA Scanned ==
    ASSUME IInv, Scanning
    PROVE  /\ key \in 1..7
           /\ Keys[key] \in KeySet
           /\ Looked \in Legible /\ Looked.first \in Nat /\ Looked.len \in Nat
           /\ i \in Nat /\ i \leq Looked.first
           /\ Looked = ValuesOf(Served)[Keys[key]]
<1>1. key \in 1..7
    BY SevenKeys DEF IInv, TypeOK, Scanning
<1>2. Keys[key] \in KeySet
    BY <1>1, SevenKeys
<1>3. Looked \in Legible
    BY <1>2 DEF IInv, TypeOK, Looked
<1>4. Looked.first \in Nat /\ Looked.len \in Nat
    BY <1>3 DEF Legible, Value
<1>5. i \in Nat
    BY WrapAssumption DEF IInv, TypeOK
<1>6. QED
    BY <1>1, <1>2, <1>3, <1>4, <1>5 DEF IInv, Half, Scanning, Looked

(* A step of the scan changes only the value looked at, the index and the  *)
(* tree.                                                                   *)
LEMMA ScanStep ==
    ASSUME IInv, Scanning, TypeOK',
           UNCHANGED <<job, step, treeinfo, content, values, ownVars, caller,
                       cancelled, faulty>>,
           key' \leq Len(Keys) => i' \leq values[Keys[key']].first,
           \A k \in 1..Len(Keys) : tree'.info[Keys[k]] =
               IF k < key' THEN Shown(Served)[Keys[k]] ELSE Missing
    PROVE  IInv'
<1>1. There' = There /\ Served' = Served
    BY DEF There, Served
<1>2. Fresh' /\ AnsweredOnce'
    BY DEF IInv, Fresh, AnsweredOnce, ownVars
<1>3. Pending'
    BY <1>1 DEF IInv, Pending, SecondTry
<1>4. step = "scan" /\ answer = "none" /\ job.protocol # "other"
    BY DEF IInv, AnsweredOnce, Pending, Callbacks, Scanning
<1>5. AnswerJustified'
    BY <1>4 DEF AnswerJustified, ownVars
<1>6. Half'
    <2>1. SecondTry' /\ Loads(Served)' /\ There'.state # "absent"
        BY <1>1, <1>4 DEF Loads, KeysRead, IInv, Half, SecondTry
    <2>2. values' = ValuesOf(Served)'
        BY <1>1, <1>4 DEF ValuesOf, KeysRead, IInv, Half
    <2>3. Shown(Served)' = Shown(Served)
        BY <1>1 DEF Shown, KeysRead
    <2>4. QED
        BY <1>1, <2>1, <2>2, <2>3 DEF Half
<1>7. QED
    BY <1>2, <1>3, <1>5, <1>6 DEF IInv

LEMMA ScanOnStep == IInv /\ ScanOn => IInv'
<1> SUFFICES ASSUME IInv, ScanOn PROVE IInv'
    OBVIOUS
<1>1. Scanning /\ i # Looked.first /\ UNCHANGED <<key, tree, values>>
      /\ i' = IF i + 1 = Wrap THEN 0 ELSE i + 1
    BY DEF ScanOn
<1>2. i' \in 0..Wrap - 1 /\ i' \leq Looked.first
    BY <1>1, Scanned, WrapAssumption DEF IInv, TypeOK
<1>3. TypeOK'
    BY <1>2 DEF ScanOn, ownVars, IInv, TypeOK
<1>4. key' \leq Len(Keys) => i' \leq values[Keys[key']].first
    BY <1>1, <1>2 DEF Looked
<1>5. \A k \in 1..Len(Keys) : tree'.info[Keys[k]] =
          IF k < key' THEN Shown(Served)[Keys[k]] ELSE Missing
    BY <1>1 DEF IInv, Half, Scanning
<1>6. QED
    BY <1>1, <1>3, <1>4, <1>5, ScanStep DEF ScanOn

(* Leaving a value behind: the next is at its beginning.                   *)
LEMMA NextKey ==
    ASSUME IInv, Scanning, key' = key + 1, i' = 0
    PROVE  /\ key' \in 1..Len(Keys) + 1
           /\ i' \in 0..Wrap - 1
           /\ key' \leq Len(Keys) => i' \leq values[Keys[key']].first
<1>1. key \in 1..7 /\ Len(Keys) = 7
    BY Scanned, SevenKeys
<1>2. i' \in 0..Wrap - 1
    BY WrapAssumption
<1>3. ASSUME key' \leq 7
      PROVE  i' \leq values[Keys[key']].first
    <2>1. Keys[key'] \in KeySet
        BY <1>1, <1>3, SevenKeys
    <2>2. values[Keys[key']] \in Legible
        BY <2>1 DEF IInv, TypeOK
    <2>3. QED
        BY <2>2 DEF Legible, Value
<1>4. QED
    BY <1>1, <1>2, <1>3

LEMMA ScanFoundStep == IInv /\ ScanFound => IInv'
<1> SUFFICES ASSUME IInv, ScanFound PROVE IInv'
    OBVIOUS
<1>1. /\ Scanning /\ InText /\ i = Looked.first
      /\ tree' = [tree EXCEPT !.info[Keys[key]] = Looked]
      /\ key' = key + 1 /\ i' = 0
    BY DEF ScanFound
<1>2. tree \in [arch : {"none", "i386", "named"}, info : [KeySet -> Legible]]
    BY DEF IInv, TypeOK
<1>3. /\ tree' \in [arch : {"none", "i386", "named"}, info : [KeySet -> Legible]]
      /\ tree'.info = [tree.info EXCEPT ![Keys[key]] = Looked]
    BY <1>1, <1>2, Scanned
<1>4. TypeOK'
    BY <1>1, <1>3, NextKey DEF ScanFound, ownVars, IInv, TypeOK
<1>5. Shown(Served)[Keys[key]] = Looked
    <2>1. Looked = ValuesOf(Served)[Keys[key]] /\ Keys[key] \in KeySet
        BY <1>1, Scanned
    <2>2. Looked.kind = "text" /\ Looked.first < Looked.len
        BY <1>1 DEF InText
    <2>3. Looked # Missing
        BY <2>2 DEF Missing
    <2>4. Keys[key] \in KeysRead(Served) /\ Looked = Served.values[Keys[key]]
        BY <2>1, <2>3 DEF ValuesOf
    <2>5. QED
        BY <2>1, <2>2, <2>4 DEF Shown
<1>6. ASSUME NEW k \in 1..Len(Keys)
      PROVE  tree'.info[Keys[k]] = IF k < key' THEN Shown(Served)[Keys[k]] ELSE Missing
    <2>1. k \in 1..7 /\ key \in 1..7 /\ Keys[k] \in KeySet /\ Keys[key] \in KeySet
        BY <1>1, Scanned, SevenKeys
    <2>2. tree.info[Keys[k]] = IF k < key THEN Shown(Served)[Keys[k]] ELSE Missing
        BY <1>1 DEF IInv, Half, Scanning
    <2>3. CASE k = key
        <3>1. tree'.info[Keys[k]] = Looked
            BY <1>2, <1>3, <2>1, <2>3
        <3>2. QED
            BY <1>1, <1>5, <2>1, <2>3, <3>1
    <2>4. CASE k # key
        <3>1. Keys[k] # Keys[key]
            BY <2>1, <2>4, SevenKeys
        <3>2. tree'.info[Keys[k]] = tree.info[Keys[k]]
            BY <1>2, <1>3, <2>1, <3>1
        <3>3. k < key' <=> k < key
            BY <1>1, <2>1, <2>4
        <3>4. QED
            BY <2>2, <3>2, <3>3
    <2>5. QED
        BY <2>3, <2>4
<1>7. QED
    BY <1>1, <1>4, <1>6, NextKey, ScanStep DEF ScanFound

LEMMA ScanEmptyStep == IInv /\ ScanEmpty => IInv'
<1> SUFFICES ASSUME IInv, ScanEmpty PROVE IInv'
    OBVIOUS
<1>1. Scanning /\ ~InText /\ key' = key + 1 /\ i' = 0 /\ tree' = tree
    BY DEF ScanEmpty
<1>2. TypeOK'
    BY <1>1, NextKey DEF ScanEmpty, ownVars, IInv, TypeOK
<1>3. Shown(Served)[Keys[key]] = Missing
    <2>1. Looked = ValuesOf(Served)[Keys[key]] /\ Keys[key] \in KeySet
          /\ i \in Nat /\ i \leq Looked.first /\ Looked.first \in Nat
          /\ Looked.len \in Nat
        BY <1>1, Scanned
    <2>2. ~(Looked.kind = "text" /\ Looked.first < Looked.len)
        BY <1>1, <2>1 DEF InText
    <2>3. Keys[key] \in KeysRead(Served) => Looked = Served.values[Keys[key]]
        BY <2>1 DEF ValuesOf
    <2>4. QED
        BY <2>1, <2>2, <2>3 DEF Shown
<1>4. ASSUME NEW k \in 1..Len(Keys)
      PROVE  tree'.info[Keys[k]] = IF k < key' THEN Shown(Served)[Keys[k]] ELSE Missing
    <2>1. k \in 1..7 /\ key \in 1..7
        BY <1>1, Scanned, SevenKeys
    <2>2. tree.info[Keys[k]] = IF k < key THEN Shown(Served)[Keys[k]] ELSE Missing
        BY <1>1 DEF IInv, Half, Scanning
    <2>3. k < key' <=> k < key \/ k = key
        BY <1>1, <2>1
    <2>4. QED
        BY <1>1, <1>3, <2>1, <2>2, <2>3
<1>5. QED
    BY <1>1, <1>2, <1>4, NextKey, ScanStep DEF ScanEmpty

LEMMA ReturnTreeStep == IInv /\ ReturnTree => IInv'
<1> SUFFICES ASSUME IInv, ReturnTree PROVE IInv'
    OBVIOUS
<1>1. /\ step = "scan" /\ key > Len(Keys) /\ answer' = "tree" /\ owner' = "task"
      /\ data' = "freed" /\ step' = "ready"
      /\ UNCHANGED <<job, treeinfo, content, values, key, i, tree, caller, cancelled,
                     faulty>>
    BY DEF ReturnTree, scanVars
<1>2. There' = There /\ Served' = Served
    BY <1>1 DEF There, Served
<1>3. TypeOK'
    BY <1>1 DEF IInv, TypeOK
<1>4. Fresh' /\ AnsweredOnce' /\ Half'
    BY <1>1 DEF IInv, Fresh, AnsweredOnce, Half, Callbacks
<1>5. Pending'
    BY <1>1, <1>2 DEF IInv, Pending, SecondTry, Callbacks
<1>6. tree.info = Shown(Served)
    <2>1. \A k \in KeySet : tree.info[k] = Shown(Served)[k]
        <3>1. key \in 1..8
            BY SevenKeys DEF IInv, TypeOK
        <3>2. \A k \in 1..7 : k < key /\ tree.info[Keys[k]] = Shown(Served)[Keys[k]]
            BY <1>1, <3>1, SevenKeys DEF IInv, Half
        <3>3. QED
            BY <3>2, SevenKeys
    <2>2. tree.info \in [KeySet -> Legible]
        BY DEF IInv, TypeOK
    <2>3. treeinfo \in Names
        BY <1>1 DEF IInv, AnsweredOnce, Callbacks
    <2>4. Shown(Served) \in [KeySet -> Legible]
        BY <2>3, DocType, ValuesType DEF IInv
    <2>5. QED
        BY <2>1, <2>2, <2>4
<1>7. AnswerJustified'
    <2>1. (tree.info = Shown(Served))' /\ Loads(Served)' /\ There'.state # "absent"
        BY <1>1, <1>2, <1>6 DEF Shown, KeysRead, Loads, IInv, Half
    <2>2. job.protocol # "other" /\ SecondTry
        BY <1>1 DEF IInv, Pending, Half, Callbacks
    <2>3. QED
        BY <1>1, <2>1, <2>2 DEF AnswerJustified, SecondTry
<1>8. QED
    BY <1>3, <1>4, <1>5, <1>7 DEF IInv

LEMMA ReadyStep == IInv /\ Ready => IInv'
<1> SUFFICES ASSUME IInv, Ready PROVE IInv'
    OBVIOUS
<1>1. /\ step = "ready" /\ step' = "none"
      /\ UNCHANGED <<job, treeinfo, content, values, key, i, tree, data, answer,
                     cancelled, faulty>>
      /\ caller' \in {"object", "error"}
      /\ owner' \in {"caller", "freed", owner} /\ owner' # "task"
    BY DEF Ready, scanVars, IInv, AnsweredOnce
<1>2. There' = There /\ Served' = Served
    BY <1>1 DEF There, Served
<1>3. TypeOK'
    BY <1>1 DEF IInv, TypeOK
<1>4. Fresh' /\ AnsweredOnce' /\ Half'
    BY <1>1 DEF IInv, Fresh, AnsweredOnce, Half, Callbacks
<1>5. Pending'
    BY <1>1, <1>2 DEF IInv, Pending, SecondTry, Callbacks
<1>6. AnswerJustified'
    BY <1>1, <1>2 DEF IInv, AnswerJustified, Shown, KeysRead, Loads
<1>7. QED
    BY <1>3, <1>4, <1>5, <1>6 DEF IInv

-------------------------------------------------------------------------------
(* The theorems                                                            *)

LEMMA StepIInv == IInv /\ [Next]_vars => IInv'
<1> SUFFICES ASSUME IInv, [Next]_vars PROVE IInv'
    OBVIOUS
<1>1. CASE CreateFromLocation \/ Cancel
    BY <1>1, CreateStep, CancelStep
<1>2. CASE Answers
    BY <1>2, SoupFailsStep, SoupReadStep, ContentFailsStep, LocalFailsStep DEF Answers
<1>3. CASE ContentRead \/ LocalRead
    BY <1>3, ReadStep
<1>4. CASE Scan
    BY <1>4, ScanOnStep, ScanFoundStep, ScanEmptyStep, ReturnTreeStep DEF Scan
<1>5. CASE Ready
    BY <1>5, ReadyStep
<1>6. CASE UNCHANGED vars
    <2> USE <1>6 DEF vars, scanVars, ownVars
    <2>1. There' = There /\ Served' = Served
        BY DEF There, Served
    <2>2. TypeOK' /\ Fresh' /\ AnsweredOnce'
        BY DEF IInv, TypeOK, Fresh, AnsweredOnce
    <2>3. Pending'
        BY <2>1 DEF IInv, Pending, SecondTry
    <2>4. Half'
        BY <2>1 DEF IInv, Half, SecondTry, Loads, KeysRead, ValuesOf, Shown
    <2>5. AnswerJustified'
        BY <2>1 DEF IInv, AnswerJustified, Shown, KeysRead, Loads
    <2>6. QED
        BY <2>2, <2>3, <2>4, <2>5 DEF IInv
<1>7. QED
    BY <1>1, <1>2, <1>3, <1>4, <1>5, <1>6 DEF Next, Dispatch

LEMMA Invariance == Spec => []IInv
<1>1. QED
    BY InitIInv, StepIInv, PTL DEF Spec

(* Every variable keeps its type: the index of is_str_empty stays within   *)
(* its guint8, whatever the length of a value.                             *)
THEOREM TypeCorrect == Spec => []TypeOK
<1>1. IInv => TypeOK
    BY DEF IInv
<1>2. QED
    BY <1>1, Invariance, PTL

(* No callback of the two tries answers a second time or uses the data     *)
(* that an earlier one freed, and a tree has one owner.                    *)
THEOREM AnsweredOnceCorrect == Spec => []AnsweredOnce
<1>1. IInv => AnsweredOnce
    BY DEF IInv
<1>2. QED
    BY <1>1, Invariance, PTL

(* The answer of on_location_read and load_keyinfo is the one the location *)
(* calls for, whatever the files say and whichever operations fail.        *)
THEOREM AnswerCorrect == Spec => []AnswerJustified
<1>1. IInv => AnswerJustified
    BY DEF IInv
<1>2. QED
    BY <1>1, Invariance, PTL

(* Each step of the chain is, to the caller, a step of a request or none.  *)
LEMMA StepRequest == IInv /\ [Next]_vars => [Request!Next]_(Request!vars)
<1> SUFFICES ASSUME IInv, [Next]_vars PROVE [Request!Next]_(Request!vars)
    OBVIOUS
<1> USE DEF Request!Next, Request!vars
<1>1. CASE CreateFromLocation
    BY <1>1 DEF CreateFromLocation, Request!Submit, IInv, Fresh
<1>2. CASE Cancel
    BY <1>2 DEF Cancel, Request!Cancel
<1>3. CASE Ready
    BY <1>3 DEF Ready, Request!Answer, IInv, AnsweredOnce
<1>4. CASE Answers \/ ContentRead \/ LocalRead \/ Scan \/ UNCHANGED vars
    <2>1. UNCHANGED <<caller, cancelled>>
        BY <1>4 DEF Answers, SoupFails, SoupRead, ContentFails, LocalFails, ContentRead,
            LocalRead, Scan, ScanOn, ScanFound, ScanEmpty, ReturnTree, vars
    <2>2. QED
        BY <2>1
<1>5. QED
    BY <1>1, <1>2, <1>3, <1>4 DEF Next, Dispatch

(* osinfo_tree_create_from_location_async implements an asynchronous       *)
(* request: one answer, and no tree for a caller who cancelled.            *)
THEOREM RequestCorrect == Spec => RequestImplemented
<1>1. Init => Request!Init
    BY DEF Init, Request!Init
<1>2. QED
    BY <1>1, StepRequest, Invariance, PTL
    DEF Spec, RequestImplemented, Request!Spec
===============================================================================
