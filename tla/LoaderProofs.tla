----------------------------- MODULE LoaderProofs -----------------------------
(***************************************************************************)
(* Proofs about Loader, for every set of entities, every scenario of calls *)
(* and every number of locations.                                          *)
(***************************************************************************)
EXTENDS Loader, SequenceTheorems, TLAPS

-------------------------------------------------------------------------------
(* What the operators of phase 1 return                                    *)

(* Entries of allentries made of the files in F only.                      *)
EntriesOf(F) == [master : F \cup {NoFile}, exts : Seq(F)]

LEMMA FoundType ==
    ASSUME NEW n \in Nat, NEW d \in Location, NEW F,
           \A f \in File : f.loc = n => f \in F
    PROVE  Found(n, d) \in [Key -> EntriesOf(F)]
<1> SUFFICES ASSUME NEW k \in Key PROVE Found(n, d)[k] \in EntriesOf(F)
    BY DEF Found
<1>1. \A name \in {Master} \cup Names : FileAt(n, k.id, name) \in F
    BY DEF FileAt, File, Key
<1>2. d.frags[k.id] \in Seq(Names)
    BY DEF Location, Key
<1>3. [i \in 1..Len(d.frags[k.id]) |-> FileAt(n, k.id, d.frags[k.id][i])]
        \in Seq(F)
    BY <1>1, <1>2
<1>4. NoEntry \in EntriesOf(F)
    BY DEF NoEntry, EntriesOf
<1>5. QED
    BY <1>1, <1>3, <1>4 DEF Found, EntriesOf

LEMMA MergeType ==
    ASSUME NEW F, NEW old \in [Key -> EntriesOf(F)],
           NEW new \in [Key -> EntriesOf(F)]
    PROVE  Merge(old, new) \in [Key -> EntriesOf(F)]
<1> SUFFICES ASSUME NEW k \in Key PROVE Merge(old, new)[k] \in EntriesOf(F)
    BY DEF Merge
<1>1. old[k] \in EntriesOf(F) /\ new[k] \in EntriesOf(F)
    OBVIOUS
<1>2. old[k].exts \o new[k].exts \in Seq(F)
    BY <1>1 DEF EntriesOf
<1>3. [old[k] EXCEPT !.exts = @ \o new[k].exts] \in EntriesOf(F)
    BY <1>1, <1>2 DEF EntriesOf
<1>4. QED
    BY <1>1, <1>3 DEF Merge

LEMMA FilesOfType ==
    ASSUME NEW F, NEW e \in EntriesOf(F)
    PROVE  FilesOf(e) \in Seq(F)
  BY DEF EntriesOf, FilesOf

LEMMA NoEntriesType ==
    ASSUME NEW F
    PROVE  NoEntries \in [Key -> EntriesOf(F)]
  BY DEF NoEntries, NoEntry, EntriesOf

(* Fewer files make fewer entries.                                         *)
LEMMA EntriesOfMonotonic ==
    ASSUME NEW F, NEW G, F \subseteq G
    PROVE  Seq(F) \subseteq Seq(G) /\ [Key -> EntriesOf(F)] \subseteq [Key -> EntriesOf(G)]
<1>1. Seq(F) \subseteq Seq(G)
    OBVIOUS
<1>2. EntriesOf(F) \subseteq EntriesOf(G)
    BY <1>1 DEF EntriesOf
<1>3. QED
    BY <1>1, <1>2

LEMMA EntryIsOfFiles == Entry = EntriesOf(File)
  BY DEF Entry, EntriesOf

-------------------------------------------------------------------------------
(* The inductive invariant                                                 *)

(* Files of the locations of the current call.                             *)
LiveFile == {f \in File : f.loc \in 1..Len(dirs)}

(* The tables of a call are empty between calls, and hold only files of    *)
(* the call's own locations during it.                                     *)
TablesLive ==
    /\ phase = "idle" => /\ entries = NoEntries
                         /\ queue = <<>>
                         /\ elems = <<>>
                         /\ refs = {}
    /\ phase # "idle" => /\ loc \geq 1
                         /\ entries \in [Key -> EntriesOf(LiveFile)]
                         /\ queue \in Seq(LiveFile)
                         /\ elems # <<>> => file \in LiveFile

(* entity_refs never holds a deployment, so a deployment need not strike   *)
(* its id; and the database only grows during a call.                      *)
RefsCanBeStruck ==
    /\ refs \cap Deployments = {}
    /\ before.db \subseteq db

IInv == TypeOK /\ TablesLive /\ RefsCanBeStruck /\ RefsAreUndefined

-------------------------------------------------------------------------------
(* The current call and its locations are well formed.                     *)
LEMMA CurrentCall ==
    ASSUME TypeOK, phase # "idle"
    PROVE  /\ dirs \in Seq(Location)
           /\ Len(dirs) \in Nat
           /\ \A n \in 1..Len(dirs) : dirs[n] \in Location
           /\ Tail(calls) \in Seq(Call)
<1>1. calls \in Seq(Call) /\ calls # <<>>
    BY DEF TypeOK
<1>2. Head(calls) \in Call /\ Tail(calls) \in Seq(Call)
    BY <1>1, HeadTailProperties
<1>3. dirs \in Seq(Location)
    BY <1>2 DEF Call, dirs
<1>4. QED
    BY <1>2, <1>3, ElementOfSeq, LenProperties

(* What EndCall leaves is well formed.                                     *)
LEMMA EndCallType ==
    ASSUME IInv, phase # "idle", NEW result \in {"ok", "error"},
           NEW undefined \in SUBSET Ids, EndCall(result, undefined),
           db' \subseteq Ids, content' \in [Ids -> Seq(Part)],
           dangling' \subseteq Ids
    PROVE  TypeOK' /\ TablesLive' /\ refs' = {} /\ phase' = "idle"
           /\ before' = before
<1>1. Tail(calls) \in Seq(Call)
    BY CurrentCall DEF IInv
<1>2. TypeOK'
    BY <1>1, NoEntriesType, EntryIsOfFiles DEF EndCall, IInv, TypeOK
<1>3. TablesLive'
    BY DEF EndCall, TablesLive
<1>4. QED
    BY <1>2, <1>3 DEF EndCall

(* Records of an ids file keep the database well formed.                   *)
LEMMA IdsRecordsType ==
    ASSUME TypeOK, NEW D \in SUBSET Ids, AddIdsRecords(D)
    PROVE  /\ db' = db \cup D
           /\ db' \subseteq Ids
           /\ content' \in [Ids -> Seq(Part)]
           /\ \A id \in D : content'[id] # <<>>
           /\ \A id \in Ids \ D : content'[id] = content[id]
<1>1. IdsPart(loc) \in Part
    BY DEF IdsPart, Part, Master, TypeOK
<1>2. \A id \in Ids : /\ Append(content[id], IdsPart(loc)) \in Seq(Part)
                      /\ Append(content[id], IdsPart(loc)) # <<>>
    BY <1>1, AppendProperties DEF TypeOK
<1>3. QED
    BY <1>2 DEF AddIdsRecords, TypeOK

(* The element being handled, its file and the part it adds.               *)
LEMMA ElementType ==
    ASSUME IInv, phase = "load", elems # <<>>
    PROVE  /\ elem \in Elem
           /\ elem.id \in Ids
           /\ elem.refs \in SUBSET (Ids \ Deployments)
           /\ Tail(elems) \in Seq(Elem)
           /\ file \in LiveFile
           /\ PartOf(file, elem) \in Part
<1>1. elem \in Elem /\ Tail(elems) \in Seq(Elem)
    BY HeadTailProperties DEF IInv, TypeOK, elem
<1>2. file \in LiveFile
    BY DEF IInv, TablesLive
<1>3. elem.id \in Ids /\ elem.refs \in SUBSET (Ids \ Deployments)
    BY <1>1 DEF Elem
<1>4. file.loc \in Nat /\ file.name \in Nat
    <2>1. file \in File
        BY <1>2 DEF LiveFile
    <2>2. file.loc \in Nat /\ file.name \in {Master} \cup Names
        BY <2>1 DEF File
    <2>3. {Master} \cup Names \subseteq Nat
        BY NamesAssumption DEF Master
    <2>4. QED
        BY <2>2, <2>3
<1>5. elem.media \in Nat /\ (elem.fail = "none") \in BOOLEAN
    BY <1>1 DEF Elem
<1>6. PartOf(file, elem) \in Part
    BY <1>4, <1>5 DEF PartOf, Part
<1>7. QED
    BY <1>1, <1>2, <1>3, <1>6

(* Adding a part to an entity.                                             *)
LEMMA ApplyType ==
    ASSUME TypeOK, NEW id \in Ids, NEW part \in Part, Apply(id, part)
    PROVE  /\ content' \in [Ids -> Seq(Part)]
           /\ content'[id] # <<>>
           /\ \A other \in Ids \ {id} : content'[other] = content[other]
<1>1. content \in [Ids -> Seq(Part)]
    BY DEF TypeOK
<1>2. /\ Append(content[id], part) \in Seq(Part)
      /\ Append(content[id], part) # <<>>
    BY <1>1, AppendProperties
<1>3. QED
    BY <1>1, <1>2 DEF Apply

(* An element in its place leaves the tables of the call well formed.      *)
LEMMA ProceedType ==
    ASSUME IInv, phase = "load", elems # <<>>, Proceed,
           db' \subseteq Ids, content' \in [Ids -> Seq(Part)],
           refs' \subseteq Ids, dangling' \subseteq Ids
    PROVE  TypeOK' /\ TablesLive' /\ phase' = phase /\ before' = before
<1>1. Tail(elems) \in Seq(Elem)
    BY ElementType
<1>2. TypeOK'
    BY <1>1 DEF IInv, TypeOK, Proceed, callVars
<1>3. dirs' = dirs
    BY DEF Proceed, callVars, dirs
<1>4. LiveFile' = LiveFile
    BY <1>3 DEF LiveFile
<1>5. TablesLive'
    BY <1>4 DEF IInv, TablesLive, Proceed, callVars
<1>6. QED
    BY <1>2, <1>5 DEF Proceed, callVars

LEMMA InitIInv == Init => IInv
<1> SUFFICES ASSUME Init PROVE IInv
    OBVIOUS
<1>1. calls \in Seq(Call)
    BY ScenariosAssumption DEF Init
<1>2. TypeOK
    BY <1>1, NoEntriesType, EntryIsOfFiles DEF Init, TypeOK
<1>3. TablesLive /\ RefsCanBeStruck /\ RefsAreUndefined
    BY DEF Init, TablesLive, RefsCanBeStruck, RefsAreUndefined
<1>4. QED
    BY <1>2, <1>3 DEF IInv

-------------------------------------------------------------------------------
(* The steps preserve the inductive invariant                              *)

(* A step that leaves the database alone, within a call.                   *)
LEMMA DataUnchanged ==
    ASSUME IInv, phase # "idle", phase' # "idle", UNCHANGED dataVars,
           UNCHANGED callVars
    PROVE  RefsCanBeStruck' /\ RefsAreUndefined'
  BY DEF IInv, dataVars, callVars, RefsCanBeStruck, RefsAreUndefined

LEMMA StartCallStep == IInv /\ StartCall => IInv'
<1> SUFFICES ASSUME IInv, StartCall PROVE IInv'
    OBVIOUS
<1> USE DEF StartCall, iterVars, dataVars
<1>1. TypeOK'
    BY DEF IInv, TypeOK
<1>2. phase' # "idle" /\ entries' = NoEntries /\ queue' = <<>> /\ elems' = <<>>
    BY DEF IInv, TablesLive
<1>3. TablesLive'
    BY <1>2, NoEntriesType DEF TablesLive
<1>4. RefsCanBeStruck'
    BY DEF IInv, RefsCanBeStruck
<1>5. refs' = {} /\ db' \ before'.db = {}
    BY DEF IInv, TablesLive
<1>6. RefsAreUndefined'
    BY <1>5 DEF IInv, RefsAreUndefined
<1>7. QED
    BY <1>1, <1>3, <1>4, <1>6 DEF IInv

LEMMA GatherStep == IInv /\ Gather => IInv'
<1> SUFFICES ASSUME IInv, Gather PROVE IInv'
    OBVIOUS
<1> phase = "gather"
    BY DEF Gather, GatherNative, GatherFails, GatherSkipsIds, GatherDone
<1>1. CASE GatherNative
    <2> USE <1>1
    <2>1. loc \in 1..Len(dirs) /\ dirs[loc] \in Location /\ loc \in Nat
        BY CurrentCall DEF IInv, TypeOK, TablesLive, GatherNative
    <2>2. dirs' = dirs /\ LiveFile' = LiveFile
        BY DEF GatherNative, callVars, dirs, LiveFile
    <2>3. Found(loc, dirs[loc]) \in [Key -> EntriesOf(LiveFile)]
        BY <2>1, FoundType DEF LiveFile
    <2>4. entries \in [Key -> EntriesOf(LiveFile)]
        BY DEF IInv, TablesLive
    <2>5. entries' \in [Key -> EntriesOf(LiveFile)]
        BY <2>3, <2>4, MergeType DEF GatherNative
    <2>6. entries' \in [Key -> Entry]
        BY <2>5, EntriesOfMonotonic, EntryIsOfFiles DEF LiveFile
    <2>7. TypeOK'
        BY <2>6 DEF IInv, TypeOK, GatherNative, callVars, iterVars, dataVars
    <2>8. TablesLive'
        BY <2>1, <2>2, <2>5
        DEF IInv, TablesLive, GatherNative, callVars, iterVars, dataVars
    <2>9. RefsCanBeStruck' /\ RefsAreUndefined'
        BY DataUnchanged DEF GatherNative
    <2>10. QED
        BY <2>7, <2>8, <2>9 DEF IInv
<1>2. CASE GatherFails
    <2> USE <1>2
    <2>1. TypeOK' /\ TablesLive' /\ refs' = {} /\ phase' = "idle"
          /\ before' = before
        BY EndCallType DEF GatherFails, Fail, IInv, TypeOK
    <2>2. RefsCanBeStruck' /\ RefsAreUndefined'
        BY <2>1 DEF IInv, RefsCanBeStruck, RefsAreUndefined, GatherFails
    <2>3. QED
        BY <2>1, <2>2 DEF IInv
<1>3. CASE GatherSkipsIds \/ GatherDone
    <2> USE <1>3 DEF GatherSkipsIds, GatherDone
    <2>1. TypeOK'
        BY DEF IInv, TypeOK, callVars, iterVars, dataVars
    <2>2. dirs' = dirs /\ LiveFile' = LiveFile
        BY DEF callVars, dirs, LiveFile
    <2>3. TablesLive'
        BY <2>2 DEF IInv, TypeOK, TablesLive, callVars, iterVars, dataVars
    <2>4. RefsCanBeStruck' /\ RefsAreUndefined'
        BY DataUnchanged
    <2>5. QED
        BY <2>1, <2>3, <2>4 DEF IInv
<1>4. QED
    BY <1>1, <1>2, <1>3 DEF Gather

LEMMA ReadIdsStep == IInv /\ ReadIds => IInv'
<1> SUFFICES ASSUME IInv, ReadIds PROVE IInv'
    OBVIOUS
<1> phase = "ids"
    BY DEF ReadIds, IdsFile, IdsFails, IdsSkipsNative, IdsDone
<1>1. CASE IdsFile
    <2> USE <1>1
    <2> DEFINE D == {id \in dirs[loc].masters : ~Overridden(id)}
    <2>1. loc \in 1..Len(dirs) /\ dirs[loc] \in Location
        BY CurrentCall DEF IInv, TypeOK, TablesLive, IdsFile
    <2>2. D \in SUBSET Ids
        BY <2>1 DEF Location
    <2>3. AddIdsRecords(D) /\ refs' = refs \ D
        BY DEF IdsFile
    <2> HIDE DEF D
    <2>4. /\ db' = db \cup D
          /\ db' \subseteq Ids
          /\ content' \in [Ids -> Seq(Part)]
          /\ \A id \in D : content'[id] # <<>>
          /\ \A id \in Ids \ D : content'[id] = content[id]
        BY <2>2, <2>3, IdsRecordsType DEF IInv
    <2>5. TypeOK'
        BY <2>3, <2>4 DEF IInv, TypeOK, IdsFile, callVars, iterVars
    <2>6. dirs' = dirs /\ LiveFile' = LiveFile
        BY DEF IdsFile, callVars, dirs, LiveFile
    <2>7. TablesLive'
        BY <2>6 DEF IInv, TypeOK, TablesLive, IdsFile, callVars, iterVars
    <2>8. RefsCanBeStruck'
        BY <2>3, <2>4 DEF IInv, RefsCanBeStruck, IdsFile, callVars
    <2>9. before' = before /\ db \subseteq Ids
        BY DEF IInv, TypeOK, IdsFile, callVars
    <2>10. RefsAreUndefined'
        BY <2>2, <2>3, <2>4, <2>9 DEF IInv, RefsAreUndefined
    <2>11. QED
        BY <2>5, <2>7, <2>8, <2>10 DEF IInv
<1>2. CASE IdsFails
    <2> USE <1>2
    <2>1. loc \in 1..Len(dirs) /\ dirs[loc] \in Location
        BY CurrentCall DEF IInv, TypeOK, TablesLive, IdsFails
    <2>2. PICK R \in SUBSET dirs[loc].masters :
              AddIdsRecords({id \in R : ~Overridden(id)})
        BY DEF IdsFails
    <2> DEFINE D == {id \in R : ~Overridden(id)}
    <2>3. D \in SUBSET Ids
        BY <2>1 DEF Location
    <2>4. AddIdsRecords(D)
        BY <2>2
    <2> HIDE DEF D
    <2>5. /\ db' = db \cup D
          /\ db' \subseteq Ids
          /\ content' \in [Ids -> Seq(Part)]
          /\ \A id \in D : content'[id] # <<>>
          /\ \A id \in Ids \ D : content'[id] = content[id]
        BY <2>3, <2>4, IdsRecordsType DEF IInv
    <2>6. TypeOK' /\ TablesLive' /\ refs' = {} /\ phase' = "idle"
          /\ before' = before
        BY <2>5, EndCallType DEF IdsFails, Fail, IInv, TypeOK
    <2>7. RefsCanBeStruck' /\ RefsAreUndefined'
        BY <2>5, <2>6 DEF IInv, RefsCanBeStruck, RefsAreUndefined
    <2>8. QED
        BY <2>6, <2>7 DEF IInv
<1>3. CASE IdsSkipsNative \/ IdsDone
    <2> USE <1>3 DEF IdsSkipsNative, IdsDone
    <2>1. TypeOK'
        BY DEF IInv, TypeOK, callVars, iterVars, dataVars
    <2>2. dirs' = dirs /\ LiveFile' = LiveFile
        BY DEF callVars, dirs, LiveFile
    <2>3. TablesLive'
        BY <2>2 DEF IInv, TypeOK, TablesLive, callVars, iterVars, dataVars
    <2>4. RefsCanBeStruck' /\ RefsAreUndefined'
        BY DataUnchanged
    <2>5. QED
        BY <2>1, <2>3, <2>4 DEF IInv
<1>4. QED
    BY <1>1, <1>2, <1>3 DEF ReadIds

(* The steps of phase 3 that leave the database alone.                     *)
LEMMA IterationStep ==
    IInv /\ (NextEntry \/ OpenFile \/ ElementMisplaced) => IInv'
<1> SUFFICES ASSUME IInv, NextEntry \/ OpenFile \/ ElementMisplaced PROVE IInv'
    OBVIOUS
<1> phase = "load"
    BY DEF NextEntry, OpenFile, ElementMisplaced
<1>1. CASE NextEntry
    <2> USE <1>1
    <2>1. PICK k \in todo : todo' = todo \ {k} /\ queue' = FilesOf(entries[k])
        BY DEF NextEntry
    <2>2. k \in Key /\ entries[k] \in EntriesOf(LiveFile)
        BY DEF IInv, TypeOK, TablesLive
    <2>3. queue' \in Seq(LiveFile)
        BY <2>1, <2>2, FilesOfType
    <2>4. queue' \in Seq(File)
        BY <2>3, EntriesOfMonotonic DEF LiveFile
    <2>5. TypeOK'
        BY <2>1, <2>4 DEF IInv, TypeOK, NextEntry, callVars, dataVars
    <2>6. dirs' = dirs /\ LiveFile' = LiveFile
        BY DEF NextEntry, callVars, dirs, LiveFile
    <2>7. TablesLive'
        BY <2>3, <2>6 DEF IInv, TablesLive, NextEntry, callVars, dataVars
    <2>8. RefsCanBeStruck' /\ RefsAreUndefined'
        BY DataUnchanged DEF NextEntry
    <2>9. QED
        BY <2>5, <2>7, <2>8 DEF IInv
<1>2. CASE OpenFile
    <2> USE <1>2
    <2>1. queue \in Seq(LiveFile) /\ queue # <<>>
        BY DEF IInv, TablesLive, OpenFile
    <2>2. Head(queue) \in LiveFile /\ Tail(queue) \in Seq(LiveFile)
        BY <2>1, HeadTailProperties
    <2>3. Head(queue) \in File /\ Head(queue).loc \in 1..Len(dirs)
        BY <2>2 DEF LiveFile
    <2>4. dirs[Head(queue).loc] \in Location
        BY <2>3, CurrentCall DEF IInv
    <2>5. Body(Head(queue)) \in Seq(Elem)
        BY <2>3, <2>4 DEF Body, Location, File
    <2>6. Tail(queue) \in Seq(File)
        BY <2>2, EntriesOfMonotonic DEF LiveFile
    <2>7. TypeOK'
        BY <2>3, <2>5, <2>6 DEF IInv, TypeOK, OpenFile, callVars, dataVars
    <2>8. dirs' = dirs /\ LiveFile' = LiveFile
        BY DEF OpenFile, callVars, dirs, LiveFile
    <2>9. TablesLive'
        BY <2>2, <2>8 DEF IInv, TablesLive, OpenFile, callVars, dataVars
    <2>10. RefsCanBeStruck' /\ RefsAreUndefined'
        BY DataUnchanged DEF OpenFile
    <2>11. QED
        BY <2>7, <2>9, <2>10 DEF IInv
<1>3. CASE ElementMisplaced
    <2> USE <1>3
    <2>1. TypeOK' /\ TablesLive'
        BY ProceedType DEF IInv, TypeOK, ElementMisplaced, dataVars
    <2>2. RefsCanBeStruck' /\ RefsAreUndefined'
        BY DataUnchanged DEF ElementMisplaced, Proceed
    <2>3. QED
        BY <2>1, <2>2 DEF IInv
<1>4. QED
    BY <1>1, <1>2, <1>3

(* A definition that succeeds, of a product or of a script.                *)
LEMMA DefinitionStep ==
    ASSUME IInv, NEW kind, kind \cap Deployments = {}, Handles(kind),
           Resolve({elem.id}, elem.refs),
           Apply(elem.id, PartOf(file, elem)), Proceed, UNCHANGED dangling
    PROVE  IInv'
<1>1. /\ elem.id \in Ids \ Deployments
      /\ elem.refs \in SUBSET (Ids \ Deployments)
      /\ PartOf(file, elem) \in Part
    BY ElementType DEF Handles
<1>2. /\ content' \in [Ids -> Seq(Part)]
      /\ content'[elem.id] # <<>>
      /\ \A other \in Ids \ {elem.id} : content'[other] = content[other]
    BY <1>1, ApplyType DEF IInv
<1>3. db' \subseteq Ids /\ refs' \subseteq Ids /\ dangling' \subseteq Ids
    BY <1>1 DEF IInv, TypeOK, Resolve
<1>4. TypeOK' /\ TablesLive' /\ phase' = phase /\ before' = before
    BY <1>2, <1>3, ProceedType DEF Handles
<1>5. RefsCanBeStruck'
    BY <1>1, <1>4 DEF IInv, RefsCanBeStruck, Resolve
<1>6. db \subseteq Ids
    BY DEF IInv, TypeOK
<1>7. phase # "idle"
    BY DEF Handles
<1>8. refs' = {id \in db' \ before'.db : content'[id] = <<>>}
    BY <1>1, <1>2, <1>4, <1>6, <1>7
    DEF IInv, RefsCanBeStruck, RefsAreUndefined, Resolve
<1>9. \A id \in Ids : content'[id] # <<>> => id \in db'
    BY <1>1, <1>2 DEF IInv, RefsAreUndefined, Resolve
<1>10. RefsAreUndefined'
    BY <1>8, <1>9 DEF RefsAreUndefined
<1>11. QED
    BY <1>4, <1>5, <1>10 DEF IInv

LEMMA DefineDeploymentStep == IInv /\ DefineDeployment => IInv'
<1> SUFFICES ASSUME IInv, DefineDeployment PROVE IInv'
    OBVIOUS
<1> USE DEF DefineDeployment
<1>1. /\ elem.id \in Deployments /\ elem.id \in Ids
      /\ elem.refs \in SUBSET (Ids \ Deployments)
      /\ PartOf(file, elem) \in Part
    BY ElementType DEF Handles
<1>2. /\ <<PartOf(file, elem)>> \in Seq(Part)
      /\ <<PartOf(file, elem)>> # <<>>
    BY <1>1
<1>3. content \in [Ids -> Seq(Part)]
    BY DEF IInv, TypeOK
<1>4. /\ content' \in [Ids -> Seq(Part)]
      /\ content'[elem.id] # <<>>
      /\ \A other \in Ids \ {elem.id} : content'[other] = content[other]
    BY <1>1, <1>2, <1>3
<1>5. db' \subseteq Ids /\ refs' \subseteq Ids /\ dangling' \subseteq Ids
    BY <1>1 DEF IInv, TypeOK
<1>6. TypeOK' /\ TablesLive' /\ phase' = phase /\ before' = before
    BY <1>4, <1>5, ProceedType DEF Handles
<1>7. RefsCanBeStruck'
    BY <1>1, <1>6 DEF IInv, RefsCanBeStruck
<1>8. db \subseteq Ids /\ phase # "idle"
    BY DEF IInv, TypeOK, Handles
<1>9. elem.id \notin refs
    BY <1>1 DEF IInv, RefsCanBeStruck
<1>10. refs' = {id \in db' \ before'.db : content'[id] = <<>>}
    BY <1>1, <1>4, <1>6, <1>8, <1>9 DEF IInv, RefsCanBeStruck, RefsAreUndefined
<1>11. \A id \in Ids : content'[id] # <<>> => id \in db'
    BY <1>1, <1>4 DEF IInv, RefsAreUndefined
<1>12. RefsAreUndefined'
    BY <1>10, <1>11 DEF RefsAreUndefined
<1>13. QED
    BY <1>6, <1>7, <1>12 DEF IInv

(* A step that ends the call, having added to the database.                *)
LEMMA EndingStep ==
    ASSUME IInv, phase # "idle", NEW result \in {"ok", "error"},
           NEW undefined \in SUBSET Ids, EndCall(result, undefined),
           db \subseteq db', db' \subseteq Ids, dangling' \subseteq Ids,
           content' \in [Ids -> Seq(Part)],
           \A id \in Ids : content'[id] # content[id] => id \in db'
    PROVE  IInv'
<1>1. TypeOK' /\ TablesLive' /\ refs' = {} /\ phase' = "idle"
      /\ before' = before
    BY EndCallType
<1>2. RefsCanBeStruck' /\ RefsAreUndefined'
    BY <1>1 DEF IInv, RefsCanBeStruck, RefsAreUndefined
<1>3. QED
    BY <1>1, <1>2 DEF IInv

(* The steps of phase 3 that end the call.                                 *)
LEMMA LoadEndsStep ==
    IInv /\ (\/ ElementInvalid \/ DefineProductFails \/ DefineScriptFails
             \/ DefineDeploymentFails \/ Finish) => IInv'
<1> SUFFICES ASSUME IInv,
                    \/ ElementInvalid \/ DefineProductFails
                    \/ DefineScriptFails \/ DefineDeploymentFails \/ Finish
             PROVE  IInv'
    OBVIOUS
<1>1. /\ db \subseteq Ids /\ dangling \subseteq Ids /\ refs \subseteq Ids
      /\ content \in [Ids -> Seq(Part)]
    BY DEF IInv, TypeOK
<1>2. CASE ElementInvalid \/ Finish
    BY <1>1, <1>2, EndingStep DEF ElementInvalid, Finish, Fail
<1>3. CASE DefineProductFails \/ DefineScriptFails
    <2>1. phase = "load" /\ elems # <<>>
        BY <1>3 DEF DefineProductFails, DefineScriptFails, Handles
    <2>2. /\ elem.id \in Ids /\ elem.refs \subseteq Ids
          /\ PartOf(file, elem) \in Part
        BY <2>1, ElementType
    <2>3. Apply(elem.id, PartOf(file, elem))
        BY <1>3 DEF DefineProductFails, DefineScriptFails
    <2>4. /\ content' \in [Ids -> Seq(Part)]
          /\ \A other \in Ids \ {elem.id} : content'[other] = content[other]
        BY <2>2, <2>3, ApplyType DEF IInv
    <2>5. db \subseteq db' /\ db' \subseteq Ids /\ elem.id \in db'
        BY <1>1, <1>3, <2>2 DEF DefineProductFails, DefineScriptFails
    <2>6. dangling' \subseteq Ids
        BY <1>1, <1>3, <2>2 DEF DefineProductFails, DefineScriptFails
    <2>7. EndCall("error", {})
        BY <1>3 DEF DefineProductFails, DefineScriptFails, Fail
    <2>8. QED
        BY <2>1, <2>4, <2>5, <2>6, <2>7, EndingStep
<1>4. CASE DefineDeploymentFails
    <2>1. phase = "load" /\ elems # <<>>
        BY <1>4 DEF DefineDeploymentFails, Handles
    <2>2. elem.refs \subseteq Ids
        BY <2>1, ElementType
    <2>3. db \subseteq db' /\ db' \subseteq Ids
        BY <1>1, <1>4, <2>2 DEF DefineDeploymentFails
    <2>4. QED
        BY <1>1, <1>4, <2>1, <2>3, EndingStep DEF DefineDeploymentFails, Fail
<1>5. QED
    BY <1>2, <1>3, <1>4

LEMMA StepIInv == IInv /\ [Next]_vars => IInv'
<1> SUFFICES ASSUME IInv, [Next]_vars PROVE IInv'
    OBVIOUS
<1>1. CASE StartCall
    BY <1>1, StartCallStep
<1>2. CASE Gather
    BY <1>2, GatherStep
<1>3. CASE ReadIds
    BY <1>3, ReadIdsStep
<1>4. CASE NextEntry \/ OpenFile \/ ElementMisplaced
    BY <1>4, IterationStep
<1>5. CASE DefineProduct
    BY <1>5, DefinitionStep DEF DefineProduct, Products
<1>6. CASE DefineScript
    BY <1>6, DefinitionStep, KindsAssumption DEF DefineScript
<1>7. CASE DefineDeployment
    BY <1>7, DefineDeploymentStep
<1>8. CASE \/ ElementInvalid \/ DefineProductFails \/ DefineScriptFails
           \/ DefineDeploymentFails \/ Finish
    BY <1>8, LoadEndsStep
<1>9. CASE UNCHANGED vars
    BY <1>9 DEF vars, IInv, TypeOK, TablesLive, RefsCanBeStruck,
                RefsAreUndefined, LiveFile, dirs
<1>10. QED
    BY <1>1, <1>2, <1>3, <1>4, <1>5, <1>6, <1>7, <1>8, <1>9 DEF Next, Load

-------------------------------------------------------------------------------
(* The properties of the database                                          *)

LEMMA Invariance == Spec => []IInv
<1>1. Init => IInv
    BY InitIInv
<1>2. IInv /\ [Next]_vars => IInv'
    BY StepIInv
<1>3. QED
    BY <1>1, <1>2, PTL DEF Spec

(* Every variable keeps its type: phase 3 only parses files of locations   *)
(* of the current call, and only elements of those files.                  *)
THEOREM TypeCorrect == Spec => []TypeOK
<1>1. IInv => TypeOK
    BY DEF IInv
<1>2. QED
    BY <1>1, Invariance, PTL

(* While a call runs, entity_refs is exactly what the call has added and   *)
(* nothing has defined.                                                    *)
THEOREM RefsCorrect == Spec => []RefsAreUndefined
<1>1. IInv => RefsAreUndefined
    BY DEF IInv
<1>2. QED
    BY <1>1, Invariance, PTL

(* Only Finish ends a call successfully.                                   *)
LEMMA SuccessIsFinish ==
    ASSUME IInv, Next, phase' = "idle", outcome' = "ok"
    PROVE  Finish
<1>1. ~StartCall
    BY DEF StartCall
<1>2. ~Gather
    BY DEF Gather, GatherNative, GatherFails, GatherSkipsIds, GatherDone,
           Fail, EndCall
<1>3. ~ReadIds
    BY DEF ReadIds, IdsFile, IdsFails, IdsSkipsNative, IdsDone, Fail, EndCall
<1>4. ~(\/ NextEntry \/ OpenFile \/ ElementMisplaced
        \/ DefineProduct \/ DefineScript \/ DefineDeployment)
    BY DEF NextEntry, OpenFile, ElementMisplaced, DefineProduct, DefineScript,
           DefineDeployment, Handles, Proceed
<1>5. ~(\/ ElementInvalid \/ DefineProductFails \/ DefineScriptFails
        \/ DefineDeploymentFails)
    BY DEF ElementInvalid, DefineProductFails, DefineScriptFails,
           DefineDeploymentFails, Fail, EndCall
<1>6. QED
    BY <1>1, <1>2, <1>3, <1>4, <1>5 DEF Next, Load

(* A successful call reports exactly the entities it left undefined.       *)
THEOREM ReportCorrect == Spec => []UndefinedReported
<1>1. Init => UndefinedReported
    BY DEF Init, UndefinedReported
<1>2. UndefinedReported /\ IInv /\ [Next]_vars => UndefinedReported'
    <2> SUFFICES ASSUME UndefinedReported, IInv, [Next]_vars,
                        phase' = "idle", outcome' = "ok"
                 PROVE  warned' = {id \in db' \ before'.db : content'[id] = <<>>}
        BY DEF UndefinedReported
    <2>1. CASE Next
        <3>1. Finish
            BY <2>1, SuccessIsFinish
        <3>2. refs = {id \in db \ before.db : content[id] = <<>>}
            BY <3>1 DEF Finish, IInv, RefsAreUndefined
        <3>3. QED
            BY <3>1, <3>2 DEF Finish, EndCall
    <2>2. CASE UNCHANGED vars
        BY <2>2 DEF vars, UndefinedReported
    <2>3. QED
        BY <2>1, <2>2
<1>3. QED
    BY <1>1, <1>2, Invariance, PTL DEF Spec

(* Appending keeps what was there.                                         *)
LEMMA AppendKeeps ==
    ASSUME NEW S, NEW q \in Seq(S), NEW e \in S
    PROVE  SubSeq(Append(q, e), 1, Len(q)) = q
<1>1. Append(q, e) = q \o <<e>>
    BY AppendIsConcat
<1>2. Len(q) \in Nat
    BY LenProperties
<1>3. CASE q = <<>>
    BY <1>3, EmptySeq, SubSeqEmpty, AppendProperties
<1>4. CASE q # <<>>
    <2>1. Len(q) \in 1..Len(q)
        BY <1>2, <1>4, EmptySeq
    <2>2. SubSeq(q \o <<e>>, 1, Len(q)) = SubSeq(q, 1, Len(q))
        BY <2>1, SubSeqOfConcat1
    <2>3. QED
        BY <1>1, <2>2, SubSeqFull
<1>5. QED
    BY <1>3, <1>4

(* Loading never takes an entity away or undoes a definition.              *)
THEOREM NothingForgotten == Spec => NeverForgets
<1> DEFINE Kept == /\ db \subseteq db'
                   /\ \A id \in Ids \ Deployments :
                        SubSeq(content'[id], 1, Len(content[id])) = content[id]
<1>1. ASSUME IInv, [Next]_vars PROVE Kept
    <2>0. content \in [Ids -> Seq(Part)]
        BY <1>1 DEF IInv, TypeOK
    <2>1. ASSUME \A id \in Ids \ Deployments : content'[id] = content[id]
          PROVE  \A id \in Ids \ Deployments :
                    SubSeq(content'[id], 1, Len(content[id])) = content[id]
        BY <2>0, <2>1, SubSeqFull
    <2>2. ASSUME NEW id \in Ids, NEW part \in Part, Apply(id, part)
          PROVE  \A other \in Ids \ Deployments :
                    SubSeq(content'[other], 1, Len(content[other])) = content[other]
        BY <2>0, <2>2, AppendKeeps, SubSeqFull DEF Apply
    <2>3. ASSUME NEW D \in SUBSET Ids, AddIdsRecords(D)
          PROVE  Kept
        <3>1. IdsPart(loc) \in Part
            BY <1>1 DEF IInv, TypeOK, IdsPart, Part, Master
        <3>2. QED
            BY <2>0, <2>3, <3>1, AppendKeeps, SubSeqFull DEF AddIdsRecords
    <2>4. CASE \/ StartCall \/ Gather \/ IdsSkipsNative \/ IdsDone \/ NextEntry
               \/ OpenFile \/ ElementInvalid \/ ElementMisplaced \/ Finish
               \/ UNCHANGED vars
        <3>1. UNCHANGED <<db, content>>
            BY <2>4 DEF StartCall, Gather, GatherNative, GatherFails,
                GatherSkipsIds, GatherDone, IdsSkipsNative, IdsDone, NextEntry,
                OpenFile, ElementInvalid, ElementMisplaced, Finish, dataVars, vars
        <3>2. QED
            BY <2>1, <3>1
    <2>5. CASE IdsFile \/ IdsFails
        <3>1. loc \in 1..Len(dirs) /\ dirs[loc] \in Location
            BY <1>1, <2>5, CurrentCall
            DEF IInv, TypeOK, TablesLive, IdsFile, IdsFails
        <3>2. dirs[loc].masters \subseteq Ids
            BY <3>1 DEF Location
        <3>3. PICK R \in SUBSET Ids : AddIdsRecords(R)
            <4>1. CASE IdsFile
                BY <3>2, <4>1 DEF IdsFile
            <4>2. CASE IdsFails
                <5>1. PICK R \in SUBSET dirs[loc].masters :
                          AddIdsRecords({id \in R : ~Overridden(id)})
                    BY <4>2 DEF IdsFails
                <5>2. {id \in R : ~Overridden(id)} \in SUBSET Ids
                    BY <3>2
                <5>3. QED
                    BY <5>1, <5>2
            <4>3. QED
                BY <2>5, <4>1, <4>2
        <3>4. QED
            BY <2>3, <3>3
    <2>6. CASE \/ DefineProduct \/ DefineProductFails
               \/ DefineScript \/ DefineScriptFails
        <3>1. elem.id \in Ids /\ PartOf(file, elem) \in Part
            BY <1>1, <2>6, ElementType DEF Handles, DefineProduct,
               DefineProductFails, DefineScript, DefineScriptFails
        <3>2. Apply(elem.id, PartOf(file, elem)) /\ db \subseteq db'
            BY <2>6 DEF DefineProduct, DefineProductFails, DefineScript,
                        DefineScriptFails, Resolve
        <3>3. QED
            BY <2>2, <3>1, <3>2
    <2>7. CASE DefineDeployment \/ DefineDeploymentFails
        <3>1. elem.id \in Deployments /\ db \subseteq db'
            BY <2>7 DEF DefineDeployment, DefineDeploymentFails, Handles
        <3>2. \A id \in Ids \ Deployments : content'[id] = content[id]
            BY <2>0, <2>7, <3>1 DEF DefineDeployment, DefineDeploymentFails
        <3>3. QED
            BY <2>1, <3>1, <3>2
    <2>8. QED
        BY <1>1, <2>4, <2>5, <2>6, <2>7 DEF Next, ReadIds, Load
<1>2. IInv /\ [Next]_vars => [Kept]_vars
    BY <1>1
<1>3. QED
    BY <1>2, Invariance, PTL DEF Spec, NeverForgets

-------------------------------------------------------------------------------
(* Phase 1 gives each entry what the priorities of the locations prescribe *)

(* What phase 1 needs of the calls: their listings are sorted. And it      *)
(* leaves the locations one at a time.                                     *)
ListingsSorted ==
    \A c \in 1..Len(calls) : \A n \in 1..Len(calls[c].dirs) : \A id \in Ids :
        SortedListing(calls[c].dirs[n].frags[id])

GatherInRange == phase = "gather" => loc \leq Len(dirs) + 1

PriorityInv == ListingsSorted /\ GatherInRange /\ LaterLocationWins

(* What location n contributes to the entry of id.                         *)
LEMMA FoundEntry ==
    ASSUME NEW n \in Nat \ {0}, NEW d \in Location, NEW id \in Ids
    PROVE  Found(n, d)[DirKey(id)] =
              IF d.access = "dir"
              THEN [master |-> IF id \in d.masters THEN FileAt(n, id, Master)
                                                   ELSE NoFile,
                    exts   |-> [i \in 1..Len(d.frags[id]) |->
                                    FileAt(n, id, d.frags[id][i])]]
              ELSE NoEntry
<1>1. DirKey(id) \in Key
    BY MaxDirsAssumption DEF DirKey, Key
<1>2. DirKey(id).root = 0 /\ DirKey(id).id = id
    BY DEF DirKey
<1>3. QED
    BY <1>1, <1>2 DEF Found

(* The empty entry, and the first file names.                              *)
LEMMA MasterIsFile ==
    ASSUME NEW n \in Nat, NEW id \in Ids
    PROVE  FileAt(n, id, Master) # NoFile
  BY NoFileAssumption DEF FileAt, File

(* A location without a layer for id does not change what the priorities   *)
(* prescribe.                                                              *)
LEMMA NoLayerKeepsPriority ==
    ASSUME NEW n \in Nat, NEW id \in Ids, NEW e \in Entry, ~Layer(n + 1),
           Prioritised(e, n, id)
    PROVE  Prioritised(e, n + 1, id)
<1>1. \A m \in 1..n + 1 : Layer(m) => m \in 1..n
    OBVIOUS
<1>2. TopMaster(e, n + 1, id)
    <2>1. \A m \in 1..n + 1 : HasMaster(m, id) => m \in 1..n
        BY <1>1 DEF HasMaster
    <2>2. QED
        BY <2>1 DEF Prioritised, TopMaster
<1>3. OnlyLiveExts(e, n + 1, id)
    BY DEF Prioritised, OnlyLiveExts
<1>4. AllLiveExts(e, n + 1, id)
    BY <1>1 DEF Prioritised, AllLiveExts
<1>5. QED
    BY <1>2, <1>3, <1>4 DEF Prioritised

(* The entry of a single layer: its own master file and extensions.        *)
LEMMA LayerEntry ==
    ASSUME NEW n \in Nat, NEW id \in Ids, Layer(n + 1),
           dirs[n + 1] \in Location,
           SortedListing(dirs[n + 1].frags[id]),
           NEW new, new = Found(n + 1, dirs[n + 1])[DirKey(id)]
    PROVE  /\ new.master = IF HasMaster(n + 1, id)
                           THEN FileAt(n + 1, id, Master) ELSE NoFile
           /\ new.exts \in Seq(File)
           /\ \A i \in 1..Len(new.exts) : /\ new.exts[i].loc = n + 1
                                          /\ new.exts[i] \in ExtsAt(n + 1, id)
           /\ \A f \in ExtsAt(n + 1, id) :
                 \E i \in 1..Len(new.exts) : new.exts[i] = f
           /\ InOrder(new.exts)
<1> DEFINE d == dirs[n + 1]
           s == d.frags[id]
<1>1. s \in Seq(Names)
    BY DEF Location
<1>2. new = [master |-> IF id \in d.masters THEN FileAt(n + 1, id, Master)
                                            ELSE NoFile,
             exts   |-> [i \in 1..Len(s) |-> FileAt(n + 1, id, s[i])]]
    BY FoundEntry DEF Layer
<1>3. /\ new.master = IF id \in d.masters THEN FileAt(n + 1, id, Master)
                                          ELSE NoFile
      /\ new.exts = [i \in 1..Len(s) |-> FileAt(n + 1, id, s[i])]
    BY <1>2
<1>4. \A i \in 1..Len(s) : FileAt(n + 1, id, s[i]) \in File
    BY <1>1 DEF FileAt, File
<1>5. new.exts \in Seq(File) /\ Len(new.exts) = Len(s) /\ Len(s) \in Nat
    BY <1>1, <1>3, <1>4
<1>6. \A i \in 1..Len(new.exts) : /\ new.exts[i].loc = n + 1
                                  /\ new.exts[i].name = s[i]
                                  /\ new.exts[i] \in ExtsAt(n + 1, id)
    BY <1>3, <1>5 DEF FileAt, ExtsAt
<1>7. \A f \in ExtsAt(n + 1, id) : \E i \in 1..Len(new.exts) : new.exts[i] = f
    BY <1>3, <1>5 DEF ExtsAt
<1>8. InOrder(new.exts)
    BY <1>5, <1>6 DEF InOrder, Precedes, SortedListing
<1>9. QED
    BY <1>3, <1>5, <1>6, <1>7, <1>8 DEF HasMaster

(* The entry of the new layer alone is right when it has a master file, or *)
(* when no earlier layer had any file.                                     *)
LEMMA NewLayerWins ==
    ASSUME NEW n \in Nat, NEW id \in Ids, Layer(n + 1),
           dirs[n + 1] \in Location,
           SortedListing(dirs[n + 1].frags[id]),
           NEW old \in Entry, Prioritised(old, n, id),
           NEW new, new = Found(n + 1, dirs[n + 1])[DirKey(id)],
           old = NoEntry \/ new.master # NoFile
    PROVE  Prioritised(new, n + 1, id)
<1>1. /\ new.master = IF HasMaster(n + 1, id)
                      THEN FileAt(n + 1, id, Master) ELSE NoFile
      /\ new.exts \in Seq(File)
      /\ \A i \in 1..Len(new.exts) : /\ new.exts[i].loc = n + 1
                                     /\ new.exts[i] \in ExtsAt(n + 1, id)
      /\ \A f \in ExtsAt(n + 1, id) :
            \E i \in 1..Len(new.exts) : new.exts[i] = f
      /\ InOrder(new.exts)
    BY LayerEntry
<1>2. CASE new.master # NoFile
    <2>1. new.master = FileAt(n + 1, id, Master) /\ HasMaster(n + 1, id)
          /\ new.master.loc = n + 1
        BY <1>1, <1>2 DEF FileAt
    <2>2. TopMaster(new, n + 1, id)
        BY <1>2, <2>1 DEF TopMaster
    <2>3. OnlyLiveExts(new, n + 1, id)
        BY <1>1, <2>1 DEF OnlyLiveExts, NotBelow
    <2>4. AllLiveExts(new, n + 1, id)
        BY <1>1, <1>2, <2>1 DEF AllLiveExts, NotBelow
    <2>5. QED
        BY <1>1, <2>2, <2>3, <2>4 DEF Prioritised
<1>3. CASE new.master = NoFile
    <2>1. ~HasMaster(n + 1, id)
        BY <1>1, <1>3, MasterIsFile
    <2>2. old.master = NoFile /\ old.exts = <<>> /\ Len(old.exts) = 0
        BY <1>3 DEF NoEntry
    <2>3. \A m \in 1..n : ~HasMaster(m, id)
        BY <2>2 DEF Prioritised, TopMaster
    <2>4. TopMaster(new, n + 1, id)
        BY <1>3, <2>1, <2>3 DEF TopMaster
    <2>5. OnlyLiveExts(new, n + 1, id)
        BY <1>1, <1>3 DEF OnlyLiveExts, NotBelow
    <2>6. \A m \in 1..n : Layer(m) => ExtsAt(m, id) = {}
        BY <2>2 DEF Prioritised, AllLiveExts, NotBelow
    <2>7. AllLiveExts(new, n + 1, id)
        BY <1>1, <2>6 DEF AllLiveExts
    <2>8. QED
        BY <1>1, <2>4, <2>5, <2>7 DEF Prioritised
<1>4. QED
    BY <1>2, <1>3

(* Entry e has the extensions of old and then those that new, an entry of  *)
(* location n + 1 without a master file, has.                              *)
Extended(e, old, new) ==
    /\ e.master = old.master
    /\ Len(e.exts) = Len(old.exts) + Len(new.exts)
    /\ \A i \in 1..Len(old.exts) : e.exts[i] = old.exts[i]
    /\ \A i \in 1..Len(new.exts) : e.exts[i + Len(old.exts)] = new.exts[i]

(* Then e is what the first n + 1 locations prescribe.                     *)
LEMMA ExtendedEntry ==
    ASSUME NEW n \in Nat, NEW id \in Ids, Layer(n + 1), ~HasMaster(n + 1, id),
           NEW old \in Entry, NEW new \in Entry, NEW e \in Entry,
           Prioritised(old, n, id),
           \A i \in 1..Len(new.exts) : new.exts[i].loc = n + 1,
           \A i \in 1..Len(new.exts) : new.exts[i] \in ExtsAt(n + 1, id),
           \A f \in ExtsAt(n + 1, id) :
               \E i \in 1..Len(new.exts) : new.exts[i] = f,
           InOrder(new.exts),
           Extended(e, old, new)
    PROVE  Prioritised(e, n + 1, id)
<1>1. PICK a \in Nat, b \in Nat : a = Len(old.exts) /\ b = Len(new.exts)
    BY LenProperties DEF Entry
<1>2. /\ e.master = old.master
      /\ Len(e.exts) = a + b
      /\ \A i \in 1..a : e.exts[i] = old.exts[i]
      /\ \A i \in 1..b : e.exts[i + a] = new.exts[i]
    BY <1>1 DEF Extended
<1>3. TopMaster(old, n, id) /\ OnlyLiveExts(old, n, id)
      /\ AllLiveExts(old, n, id) /\ InOrder(old.exts)
    BY DEF Prioritised
<1>4. TopMaster(e, n + 1, id)
    <2>1. \A m \in 1..n + 1 : HasMaster(m, id) => m \in 1..n
        OBVIOUS
    <2>2. QED
        BY <1>2, <1>3, <2>1 DEF TopMaster
<1>5. old.master # NoFile => old.master.loc \in 1..n
    BY <1>3 DEF TopMaster
<1>6. \A i \in 1..a + b : i \notin 1..a => /\ i - a \in 1..b
                                           /\ e.exts[i] = new.exts[i - a]
    <2> SUFFICES ASSUME NEW i \in 1..a + b, i \notin 1..a
                 PROVE  i - a \in 1..b /\ e.exts[i] = new.exts[i - a]
        OBVIOUS
    <2>1. i - a \in 1..b /\ (i - a) + a = i
        OBVIOUS
    <2>2. e.exts[(i - a) + a] = new.exts[i - a]
        BY <1>2, <2>1
    <2>3. QED
        BY <2>1, <2>2
<1>7. \A i \in 1..a + b : i \notin 1..a =>
          e.exts[i].loc = n + 1 /\ e.exts[i] \in ExtsAt(n + 1, id)
    <2> SUFFICES ASSUME NEW i \in 1..a + b, i \notin 1..a
                 PROVE  e.exts[i].loc = n + 1 /\ e.exts[i] \in ExtsAt(n + 1, id)
        OBVIOUS
    <2>1. i - a \in 1..Len(new.exts)
        BY <1>1, <1>6
    <2>2. e.exts[i] = new.exts[i - a]
        BY <1>6
    <2>3. new.exts[i - a].loc = n + 1 /\ new.exts[i - a] \in ExtsAt(n + 1, id)
        BY <2>1
    <2>4. QED
        BY <2>2, <2>3
<1>8. \A i \in 1..a : /\ old.exts[i].loc \in 1..n
                      /\ Layer(old.exts[i].loc)
                      /\ old.exts[i] \in ExtsAt(old.exts[i].loc, id)
                      /\ NotBelow(old, old.exts[i].loc)
    BY <1>1, <1>3 DEF OnlyLiveExts
<1>9. \A m : NotBelow(e, m) <=> NotBelow(old, m)
    BY <1>2 DEF NotBelow
<1>10. OnlyLiveExts(e, n + 1, id)
    <2> SUFFICES ASSUME NEW i \in 1..a + b
                 PROVE  /\ e.exts[i].loc \in 1..n + 1
                        /\ Layer(e.exts[i].loc)
                        /\ e.exts[i] \in ExtsAt(e.exts[i].loc, id)
                        /\ NotBelow(e, e.exts[i].loc)
        BY <1>2 DEF OnlyLiveExts
    <2>1. CASE i \in 1..a
        <3>1. e.exts[i] = old.exts[i]
            BY <1>2, <2>1
        <3>2. QED
            BY <1>8, <1>9, <2>1, <3>1
    <2>2. CASE i \notin 1..a
        <3>1. e.exts[i].loc = n + 1 /\ e.exts[i] \in ExtsAt(n + 1, id)
            BY <1>7, <2>2
        <3>2. NotBelow(old, n + 1)
            BY <1>5 DEF NotBelow
        <3>3. QED
            BY <1>9, <3>1, <3>2
    <2>3. QED
        BY <2>1, <2>2
<1>11. AllLiveExts(e, n + 1, id)
    <2> SUFFICES ASSUME NEW m \in 1..n + 1, Layer(m), NotBelow(e, m),
                        NEW f \in ExtsAt(m, id)
                 PROVE  \E i \in 1..a + b : e.exts[i] = f
        BY <1>2 DEF AllLiveExts
    <2>1. CASE m \in 1..n
        <3>1. PICK i \in 1..a : old.exts[i] = f
            BY <1>1, <1>3, <1>9, <2>1 DEF AllLiveExts
        <3>2. i \in 1..a + b /\ e.exts[i] = f
            BY <1>2, <3>1
        <3>3. QED
            BY <3>2
    <2>2. CASE m = n + 1
        <3>1. PICK i \in 1..b : new.exts[i] = f
            BY <1>1, <2>2
        <3>2. i + a \in 1..a + b /\ e.exts[i + a] = f
            BY <1>2, <3>1
        <3>3. QED
            BY <3>2
    <2>3. QED
        BY <2>1, <2>2
<1>12. InOrder(e.exts)
    <2> SUFFICES ASSUME NEW i \in 1..a + b, NEW j \in 1..a + b, i < j
                 PROVE  Precedes(e.exts[i], e.exts[j])
        BY <1>2 DEF InOrder
    <2>1. CASE j \in 1..a
        <3>1. i \in 1..a
            BY <2>1
        <3>2. Precedes(old.exts[i], old.exts[j])
            BY <1>1, <1>3, <2>1, <3>1 DEF InOrder
        <3>3. QED
            BY <1>2, <2>1, <3>1, <3>2
    <2>2. CASE i \in 1..a /\ j \notin 1..a
        <3>1. e.exts[i].loc \in 1..n
            BY <1>2, <1>8, <2>2
        <3>2. e.exts[j].loc = n + 1
            BY <1>7, <2>2
        <3>3. QED
            BY <3>1, <3>2 DEF Precedes
    <2>3. CASE i \notin 1..a /\ j \notin 1..a
        <3>1. i - a \in 1..b /\ j - a \in 1..b /\ i - a < j - a
            BY <1>6, <2>3
        <3>2. Precedes(new.exts[i - a], new.exts[j - a])
            BY <1>1, <3>1 DEF InOrder
        <3>3. QED
            BY <1>6, <2>3, <3>2
    <2>4. QED
        BY <2>1, <2>2, <2>3
<1>13. QED
    BY <1>4, <1>10, <1>11, <1>12 DEF Prioritised

(* What a concatenation of extensions is.                                  *)
LEMMA ConcatExtends ==
    ASSUME NEW old \in Entry, NEW new \in Entry
    PROVE  LET e == [old EXCEPT !.exts = old.exts \o new.exts]
           IN  e \in Entry /\ Extended(e, old, new)
<1> DEFINE e == [old EXCEPT !.exts = old.exts \o new.exts]
<1>1. old.exts \in Seq(File) /\ new.exts \in Seq(File)
    BY DEF Entry
<1>2. /\ old.exts \o new.exts \in Seq(File)
      /\ Len(old.exts \o new.exts) = Len(old.exts) + Len(new.exts)
      /\ \A i \in 1..Len(old.exts) + Len(new.exts) :
            (old.exts \o new.exts)[i] =
               IF i \leq Len(old.exts) THEN old.exts[i]
                                       ELSE new.exts[i - Len(old.exts)]
    BY <1>1, ConcatProperties
<1>3. Len(old.exts) \in Nat /\ Len(new.exts) \in Nat
    BY <1>1, LenProperties
<1>4. e.master = old.master /\ e.exts = old.exts \o new.exts /\ e \in Entry
    BY <1>2 DEF Entry
<1> DEFINE a == Len(old.exts)
           b == Len(new.exts)
           s == old.exts \o new.exts
<1> HIDE DEF a, b, s
<1>5. a \in Nat /\ b \in Nat
    BY <1>3 DEF a, b
<1>6. \A i \in 1..a + b : s[i] = IF i \leq a THEN old.exts[i]
                                             ELSE new.exts[i - a]
    BY <1>2 DEF a, b, s
<1>7. \A i \in 1..a : s[i] = old.exts[i]
    <2>1. \A i \in 1..a : i \in 1..a + b /\ i \leq a
        BY <1>5
    <2>2. QED
        BY <1>6, <2>1
<1>8. \A i \in 1..b : s[i + a] = new.exts[i]
    <2>1. ASSUME NEW i \in 1..b
          PROVE  i + a \in 1..a + b /\ ~(i + a \leq a) /\ (i + a) - a = i
        BY <1>5
    <2>2. QED
        BY <1>6, <2>1
<1>9. \A i \in 1..a : e.exts[i] = old.exts[i]
    BY <1>4, <1>7 DEF s
<1>10. \A i \in 1..b : e.exts[i + a] = new.exts[i]
    BY <1>4, <1>8 DEF s
<1>11. QED
    BY <1>2, <1>4, <1>9, <1>10 DEF Extended, a, b

(* One step of phase 1 on the entry of id.                                 *)
LEMMA MergeKeepsPriority ==
    ASSUME NEW n \in Nat, NEW id \in Ids, dirs[n + 1] \in Location,
           dirs[n + 1].fmt = "native",
           SortedListing(dirs[n + 1].frags[id]),
           entries \in [Key -> Entry],
           Prioritised(entries[DirKey(id)], n, id)
    PROVE  Prioritised(Merge(entries, Found(n + 1, dirs[n + 1]))[DirKey(id)],
                       n + 1, id)
<1> DEFINE old == entries[DirKey(id)]
           new == Found(n + 1, dirs[n + 1])[DirKey(id)]
           e == Merge(entries, Found(n + 1, dirs[n + 1]))[DirKey(id)]
<1>1. DirKey(id) \in Key
    BY MaxDirsAssumption DEF DirKey, Key
<1>2. n + 1 \in Nat \ {0}
    OBVIOUS
<1>3. Found(n + 1, dirs[n + 1]) \in [Key -> Entry]
    BY <1>2, FoundType, EntryIsOfFiles
<1>4. old \in Entry /\ new \in Entry
    BY <1>1, <1>3
<1>5. e = IF old = NoEntry \/ new.master # NoFile THEN new
          ELSE [old EXCEPT !.exts = old.exts \o new.exts]
    BY <1>1 DEF Merge
<1> HIDE DEF old, e
<1>6. CASE ~Layer(n + 1)
    <2>1. dirs[n + 1].access # "dir"
        BY <1>6 DEF Layer
    <2>2. new = NoEntry
        BY <1>2, <2>1, FoundEntry
    <2>3. new.master = NoFile /\ new.exts = <<>>
        BY <2>2 DEF NoEntry
    <2>4. old \in [master : File \cup {NoFile}, exts : Seq(File)]
        BY <1>4 DEF Entry
    <2>5. [old EXCEPT !.exts = old.exts \o <<>>] = old
        <3>1. old.exts \o <<>> = old.exts
            BY <2>4, ConcatEmptySeq
        <3>2. QED
            BY <2>4, <3>1
    <2>6. e = old
        BY <1>5, <2>2, <2>3, <2>5
    <2>7. QED
        BY <1>4, <1>6, <2>6, NoLayerKeepsPriority DEF old, e
<1>7. CASE Layer(n + 1) /\ (old = NoEntry \/ new.master # NoFile)
    <2>1. e = new
        BY <1>5, <1>7
    <2>2. Prioritised(new, n + 1, id)
        BY <1>4, <1>7, NewLayerWins DEF old
    <2>3. QED
        BY <2>1, <2>2 DEF e
<1>8. CASE Layer(n + 1) /\ old # NoEntry /\ new.master = NoFile
    <2>1. e = [old EXCEPT !.exts = old.exts \o new.exts]
        BY <1>5, <1>8
    <2> HIDE DEF new
    <2>2. e \in Entry /\ Extended(e, old, new)
        BY <1>4, <2>1, ConcatExtends
    <2>3. /\ new.master = IF HasMaster(n + 1, id)
                          THEN FileAt(n + 1, id, Master) ELSE NoFile
          /\ \A i \in 1..Len(new.exts) : new.exts[i].loc = n + 1
          /\ \A i \in 1..Len(new.exts) : new.exts[i] \in ExtsAt(n + 1, id)
          /\ \A f \in ExtsAt(n + 1, id) :
                \E i \in 1..Len(new.exts) : new.exts[i] = f
          /\ InOrder(new.exts)
        BY <1>8, LayerEntry DEF new
    <2>4. ~HasMaster(n + 1, id)
        BY <1>2, <1>8, <2>3, MasterIsFile
    <2>5. Prioritised(old, n, id)
        BY DEF old
    <2>6. Prioritised(e, n + 1, id)
        BY <1>4, <1>8, <2>2, <2>3, <2>4, <2>5, ExtendedEntry
    <2>7. QED
        BY <2>6 DEF e
<1>9. QED
    BY <1>6, <1>7, <1>8

(* What is prescribed depends on the locations only.                       *)
LEMMA SamePriorities ==
    ASSUME dirs' = dirs, NEW e, NEW n, NEW id, Prioritised(e, n, id)
    PROVE  (Prioritised(e, n, id))'
<1>1. \A m : Layer(m)' = Layer(m) /\ ExtsAt(m, id)' = ExtsAt(m, id)
    BY DEF Layer, ExtsAt
<1>2. \A m : HasMaster(m, id)' = HasMaster(m, id)
    BY <1>1 DEF HasMaster
<1>3. TopMaster(e, n, id)'
    BY <1>2 DEF Prioritised, TopMaster
<1>4. OnlyLiveExts(e, n, id)' /\ AllLiveExts(e, n, id)'
    BY <1>1 DEF Prioritised, OnlyLiveExts, AllLiveExts, NotBelow
<1>5. QED
    BY <1>3, <1>4 DEF Prioritised, InOrder

(* The remaining calls keep their sorted listings.                         *)
LEMMA SortedStep ==
    ASSUME TypeOK, ListingsSorted, [Next]_vars
    PROVE  ListingsSorted'
<1>1. CASE UNCHANGED calls
    BY <1>1 DEF ListingsSorted
<1>2. CASE phase # "idle" /\ calls' = Tail(calls)
    <2>1. calls \in Seq(Call) /\ calls # <<>>
        BY <1>2 DEF TypeOK
    <2>2. /\ Len(calls) \in Nat /\ Len(calls') \in Nat
          /\ Len(calls') = Len(calls) - 1
          /\ \A c \in 1..Len(calls') : calls'[c] = calls[c + 1]
        BY <1>2, <2>1, HeadTailProperties, LenProperties
    <2>3. \A c \in 1..Len(calls') : c + 1 \in 1..Len(calls)
        BY <2>2
    <2>4. QED
        BY <2>2, <2>3 DEF ListingsSorted
<1>3. UNCHANGED calls \/ (phase # "idle" /\ calls' = Tail(calls))
    <2>1. CASE StartCall \/ UNCHANGED vars
        BY <2>1 DEF StartCall, vars
    <2>2. CASE Gather
        BY <2>2 DEF Gather, GatherNative, GatherFails, GatherSkipsIds,
                    GatherDone, Fail, EndCall, callVars
    <2>3. CASE ReadIds
        BY <2>3 DEF ReadIds, IdsFile, IdsFails, IdsSkipsNative, IdsDone, Fail,
                    EndCall, callVars
    <2>4. CASE Load
        BY <2>4 DEF Load, NextEntry, OpenFile, ElementInvalid, ElementMisplaced,
                    DefineProduct, DefineProductFails, DefineScript,
                    DefineScriptFails, DefineDeployment, DefineDeploymentFails,
                    Finish, Handles, Proceed, Fail, EndCall, callVars
    <2>5. QED
        BY <2>1, <2>2, <2>3, <2>4 DEF Next
<1>4. QED
    BY <1>1, <1>2, <1>3

(* Outside phase 1 allentries and the locations stay, or the call ends.    *)
LEMMA EntriesSettled ==
    ASSUME [Next]_vars, ~StartCall, ~Gather
    PROVE  \/ phase' = "idle"
           \/ UNCHANGED <<entries, calls>> /\ phase' # "gather" /\ phase # "gather"
           \/ UNCHANGED vars
<1>1. CASE ReadIds
    BY <1>1 DEF ReadIds, IdsFile, IdsFails, IdsSkipsNative, IdsDone, Fail,
                EndCall, callVars
<1>2. CASE Load
    BY <1>2 DEF Load, NextEntry, OpenFile, ElementInvalid, ElementMisplaced,
                DefineProduct, DefineProductFails, DefineScript,
                DefineScriptFails, DefineDeployment, DefineDeploymentFails,
                Finish, Handles, Proceed, Fail, EndCall, callVars
<1>3. QED
    BY <1>1, <1>2 DEF Next

LEMMA PriorityStep ==
    ASSUME IInv, PriorityInv, [Next]_vars
    PROVE  PriorityInv'
<1>1. ListingsSorted'
    BY SortedStep DEF IInv, PriorityInv
<1>2. CASE StartCall
    <2>1. phase' = "gather" /\ loc' = 1 /\ entries' = NoEntries /\ calls' = calls
        BY <1>2 DEF StartCall, IInv, TablesLive
    <2>2. dirs' = dirs /\ calls # <<>>
        BY <1>2, <2>1 DEF dirs, StartCall
    <2>3. Len(dirs) \in Nat
        <3>1. Head(calls) \in Call
            BY <2>2, HeadTailProperties DEF IInv, TypeOK
        <3>2. QED
            BY <3>1, LenProperties DEF Call, dirs
    <2>4. GatherInRange'
        BY <2>1, <2>2, <2>3 DEF GatherInRange
    <2>5. Gathered' = 0
        BY <2>1 DEF Gathered
    <2>6. ASSUME NEW id \in Ids
          PROVE  Prioritised(entries[DirKey(id)], Gathered, id)'
        <3>1. NoEntries[DirKey(id)] = NoEntry
            BY MaxDirsAssumption DEF NoEntries, DirKey, Key
        <3>2. entries'[DirKey(id)].master = NoFile
              /\ entries'[DirKey(id)].exts = <<>>
            BY <2>1, <3>1 DEF NoEntry
        <3>3. QED
            BY <2>5, <3>2, EmptySeq
            DEF Prioritised, TopMaster, OnlyLiveExts, AllLiveExts, InOrder
    <2>7. QED
        BY <1>1, <2>4, <2>6 DEF PriorityInv, LaterLocationWins
<1>3. CASE GatherNative \/ GatherSkipsIds
    <2>1. /\ phase = "gather" /\ phase' = "gather" /\ calls' = calls
          /\ loc' = loc + 1 /\ loc \leq Len(dirs) /\ dirs' = dirs
        BY <1>3 DEF GatherNative, GatherSkipsIds, callVars, dirs
    <2>2. loc \in Nat \ {0} /\ loc \in 1..Len(dirs) /\ Len(dirs) \in Nat
          /\ dirs[loc] \in Location
        BY <2>1, CurrentCall DEF IInv, TypeOK, TablesLive
    <2>3. GatherInRange'
        BY <2>1, <2>2 DEF GatherInRange
    <2>4. PICK n \in Nat : loc = n + 1
        <3>1. loc - 1 \in Nat /\ loc = (loc - 1) + 1
            BY <2>2
        <3>2. QED
            BY <3>1
    <2>5. Gathered = n /\ Gathered' = n + 1
        BY <2>1, <2>4 DEF Gathered
    <2>6. ASSUME NEW id \in Ids
          PROVE  Prioritised(entries'[DirKey(id)], n + 1, id)
        <3>1. Prioritised(entries[DirKey(id)], n, id)
            BY <2>1, <2>5 DEF PriorityInv, LaterLocationWins
        <3>2. entries \in [Key -> Entry] /\ entries[DirKey(id)] \in Entry
            <4>1. DirKey(id) \in Key
                BY MaxDirsAssumption DEF DirKey, Key
            <4>2. entries \in [Key -> Entry]
                BY DEF IInv, TypeOK
            <4>3. QED
                BY <4>1, <4>2
        <3>3. CASE GatherNative
            <4>1. SortedListing(dirs[n + 1].frags[id])
                <5>1. 1 \in 1..Len(calls)
                    <6>1. calls \in Seq(Call) /\ calls # <<>>
                        BY <2>1 DEF IInv, TypeOK
                    <6>2. QED
                        BY <6>1
                <5>2. dirs = calls[1].dirs
                    BY <5>1 DEF dirs
                <5>3. QED
                    BY <2>2, <2>4, <5>1, <5>2 DEF PriorityInv, ListingsSorted
            <4>2. dirs[n + 1] \in Location /\ dirs[n + 1].fmt = "native"
                BY <2>2, <2>4, <3>3 DEF GatherNative
            <4>3. entries' = Merge(entries, Found(n + 1, dirs[n + 1]))
                BY <2>4, <3>3 DEF GatherNative
            <4>4. QED
                BY <3>1, <3>2, <4>1, <4>2, <4>3, MergeKeepsPriority
        <3>4. CASE GatherSkipsIds
            <4>1. entries' = entries /\ dirs[n + 1].fmt = "ids"
                BY <2>4, <3>4 DEF GatherSkipsIds
            <4>2. ~Layer(n + 1)
                BY <4>1 DEF Layer
            <4>3. QED
                BY <3>1, <3>2, <4>1, <4>2, NoLayerKeepsPriority
        <3>5. QED
            BY <1>3, <3>3, <3>4
    <2>7. ASSUME NEW id \in Ids
          PROVE  Prioritised(entries[DirKey(id)], Gathered, id)'
        <3>1. PICK e : e = entries'[DirKey(id)]
            OBVIOUS
        <3>2. Prioritised(e, n + 1, id)
            BY <2>6, <3>1
        <3>3. Prioritised(e, n + 1, id)'
            BY <2>1, <3>2, SamePriorities
        <3>4. DirKey(id)' = DirKey(id)
            BY DEF DirKey
        <3>5. QED
            BY <2>5, <3>1, <3>3, <3>4
    <2>8. QED
        BY <1>1, <2>3, <2>7 DEF PriorityInv, LaterLocationWins
<1>4. CASE GatherDone
    <2>1. /\ phase = "gather" /\ phase' = "ids" /\ calls' = calls
          /\ entries' = entries /\ loc > Len(dirs) /\ dirs' = dirs
        BY <1>4 DEF GatherDone, callVars, dirs
    <2>2. loc \in Nat /\ Len(dirs) \in Nat
        BY <2>1, CurrentCall DEF IInv, TypeOK
    <2>3. Gathered' = Gathered
        BY <2>1, <2>2 DEF PriorityInv, GatherInRange, Gathered
    <2>4. QED
        BY <1>1, <2>1, <2>3, SamePriorities
        DEF PriorityInv, LaterLocationWins, GatherInRange
<1>5. CASE phase' = "idle"
    BY <1>1, <1>5 DEF PriorityInv, LaterLocationWins, GatherInRange
<1>6. CASE /\ UNCHANGED <<entries, calls>>
           /\ phase' # "gather" /\ phase # "gather" /\ phase # "idle"
    <2>1. dirs' = dirs
        BY <1>6 DEF dirs
    <2>2. Gathered' = Gathered
        BY <1>6, <2>1 DEF Gathered
    <2>3. QED
        BY <1>1, <1>6, <2>1, <2>2, SamePriorities
        DEF PriorityInv, LaterLocationWins, GatherInRange
<1>7. CASE UNCHANGED vars
    <2>1. dirs' = dirs /\ Gathered' = Gathered
        BY <1>7 DEF vars, dirs, Gathered
    <2>2. QED
        BY <1>1, <1>7, <2>1, SamePriorities
        DEF PriorityInv, LaterLocationWins, GatherInRange, vars
<1>8. QED
    <2>1. CASE Gather
        <3>1. CASE GatherFails
            BY <1>5, <3>1 DEF GatherFails, Fail, EndCall
        <3>2. QED
            BY <1>3, <1>4, <2>1, <3>1 DEF Gather
    <2>2. CASE ~StartCall /\ ~Gather
        <3>1. phase # "idle" \/ UNCHANGED vars
            BY <2>2 DEF Next, ReadIds, IdsFile, IdsFails, IdsSkipsNative,
                IdsDone, Load, NextEntry, OpenFile, ElementInvalid,
                ElementMisplaced, DefineProduct, DefineProductFails,
                DefineScript, DefineScriptFails, DefineDeployment,
                DefineDeploymentFails, Finish, Handles
        <3>2. QED
            BY <1>5, <1>6, <1>7, <2>2, <3>1, EntriesSettled
    <2>3. QED
        BY <1>2, <2>1, <2>2

(* However many locations overlap, phase 1 leaves each entity the files    *)
(* its priorities prescribe.                                               *)
THEOREM PriorityCorrect == Spec => []LaterLocationWins
<1>1. Init => PriorityInv
    <2> SUFFICES ASSUME Init PROVE PriorityInv
        OBVIOUS
    <2>1. ListingsSorted
        BY ScenariosAssumption DEF Init, ListingsSorted
    <2>2. QED
        BY <2>1 DEF Init, PriorityInv, GatherInRange, LaterLocationWins
<1>2. IInv /\ PriorityInv /\ [Next]_vars => PriorityInv'
    BY PriorityStep
<1>3. PriorityInv => LaterLocationWins
    BY DEF PriorityInv
<1>4. QED
    BY <1>1, <1>2, <1>3, Invariance, PTL DEF Spec
===============================================================================
