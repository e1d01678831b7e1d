-------------------------------- MODULE Loader --------------------------------
(***************************************************************************)
(* OsinfoLoader (osinfo/osinfo_loader.c): populating an OsinfoDb from a    *)
(* list of database locations.                                             *)
(*                                                                         *)
(* An application hands the loader a list of locations, lowest priority    *)
(* first, by one of the osinfo_loader_process_* functions; each such call  *)
(* runs osinfo_loader_process_list, in three phases:                       *)
(*   gather  list the files of each native location and merge them into    *)
(*           allentries, one entry per entity file name;                   *)
(*   ids     read the pci.ids / usb.ids locations, skipping the devices    *)
(*           that a native location overrides;                             *)
(*   load    parse the surviving files, entry by entry in the order of the *)
(*           hash table, which is no order a caller can know.              *)
(* An error in any phase abandons the call and keeps what was loaded.      *)
(*                                                                         *)
(* The content of an entity is kept as the sequence of the XML elements    *)
(* applied to it, its Parts: setting, adding and listing operations on     *)
(* OsinfoEntity are functions of that sequence (see MediaOf).              *)
(***************************************************************************)
EXTENDS Integers, Sequences, FiniteSets

CONSTANTS
    Ids,          \* the entities: their ids, and the file names derived from them
    Scripts,      \* those that are install scripts
    Deployments,  \* those that are deployments
    Names,        \* names of files in ENTITY-NAME.d, in the order of strcmp
    Scenarios,    \* sequences of process_* calls an application makes
    MaxDirs,      \* no call lists more locations (process_default_path: 5)
    NoFile        \* the NULL GFile

Master == 0       \* the name of the ENTITY-NAME.xml file

(* One element below <libosinfo>: the entity it defines, the ids it refers *)
(* to, its number of <media> children, and whether parsing it fails before *)
(* or after the entity was looked up.                                      *)
Elem == [id : Ids, refs : SUBSET (Ids \ Deployments), media : Nat,
         fail : {"none", "early", "late"}]

(* A location. For a native directory: its master files, the listing of    *)
(* each .d directory, and the elements in each file (none if the file is   *)
(* zero-length, which blacks the entity out). For an .ids file, masters    *)
(* are the devices it lists.                                               *)
Location == [fmt     : {"native", "ids"},
             access  : {"dir", "file", "missing", "noaccess", "broken"},
             masters : SUBSET Ids,
             frags   : [Ids -> Seq(Names)],
             body    : [Ids \X ({Master} \cup Names) -> Seq(Elem)]]

(* A call of osinfo_loader_process_list.                                   *)
Call == [dirs : Seq(Location), skipMissing : BOOLEAN]

(* osinfo_sort_files leaves each listing in strictly increasing order.     *)
SortedListing(s) == \A i, j \in 1..Len(s) : i < j => s[i] < s[j]

ASSUME MaxDirsAssumption == MaxDirs \in Nat
ASSUME ScenariosAssumption ==
    /\ Scenarios \subseteq Seq(Call)
    /\ \A cs \in Scenarios : \A c \in 1..Len(cs) :
          /\ Len(cs[c].dirs) \leq MaxDirs
          /\ \A n \in 1..Len(cs[c].dirs) : \A id \in Ids :
                SortedListing(cs[c].dirs[n].frags[id])
ASSUME KindsAssumption == /\ Scripts \subseteq Ids
                          /\ Deployments \subseteq Ids
                          /\ Scripts \cap Deployments = {}
ASSUME NamesAssumption == Names \subseteq Nat \ {Master}

(* A file found in location loc for the entity file name id.               *)
File == [loc : Nat, id : Ids, name : {Master} \cup Names]
ASSUME NoFileAssumption == NoFile \notin File

(* Keys of allentries. A file below a location directory is keyed by its   *)
(* path relative to the directory, the same in every location (root 0); a  *)
(* location that is itself a file is keyed by its full path.               *)
Key == [root : 0..MaxDirs, id : Ids]
DirKey(id) == [root |-> 0, id |-> id]

Entry == [master : File \cup {NoFile}, exts : Seq(File)]
NoEntry == [master |-> NoFile, exts |-> <<>>]

(* One element as applied to an entity: the file it came from, its media,  *)
(* and whether all of it was applied. An ids record has neither.           *)
Part == [loc : Nat, name : Nat, media : Nat, whole : BOOLEAN]

VARIABLES
    calls,     \* the calls still to be made, Head(calls) the current one
    phase,     \* of the current call
    loc,       \* the location the gather or ids phase has reached
    entries,   \* allentries
    todo,      \* keys the iteration over allentries has not reached
    queue,     \* files left of the entry the iteration has reached
    file,      \* the file being parsed
    elems,     \* its elements left to process
    db,        \* ids of the entities in the database
    content,   \* what has been applied to each entity
    refs,      \* entity_refs: ids referenced but not defined so far
    dangling,  \* entities in db whose only reference was released
    outcome,   \* how the last call ended
    warned,    \* the ids it reported as "referenced but not defined"
    before     \* db and content when the current call began (history)

callVars == <<calls, outcome, warned, before>>
iterVars == <<todo, queue, file, elems>>
dataVars == <<db, content, refs, dangling>>
vars == <<calls, phase, loc, entries, todo, queue, file, elems,
          db, content, refs, dangling, outcome, warned, before>>

dirs == Head(calls).dirs
skipMissing == Head(calls).skipMissing

-------------------------------------------------------------------------------
(* Which files a location holds, and how they merge                        *)

FileAt(n, id, name) == [loc |-> n, id |-> id, name |-> name]

(* osinfo_loader_find_files and entity_files_add_path on location n: the   *)
(* entries it contributes, none if it is skipped.                          *)
Found(n, d) ==
    [k \in Key |->
        IF d.access = "dir" /\ k.root = 0
        THEN [master |-> IF k.id \in d.masters THEN FileAt(n, k.id, Master)
                                               ELSE NoFile,
              exts   |-> [i \in 1..Len(d.frags[k.id]) |->
                              FileAt(n, k.id, d.frags[k.id][i])]]
        ELSE IF d.access = "file" /\ k.root = n /\ k.id \in d.masters
        THEN [master |-> FileAt(n, k.id, Master), exts |-> <<>>]
        ELSE NoEntry]

(* A location that cannot be listed fails the call, unless it is missing   *)
(* or inaccessible and such locations are skipped.                         *)
Unlistable(d) == \/ d.access = "broken"
                 \/ (d.access \in {"missing", "noaccess"} /\ ~skipMissing)

(* Mutant of Merge: a new master file does not drop the old extensions.    *)
MergeKeepingExts(old, new) ==
    [k \in Key |->
        IF new[k].master # NoFile
        THEN [new[k] EXCEPT !.exts = old[k].exts \o new[k].exts]
        ELSE [old[k] EXCEPT !.exts = @ \o new[k].exts]]

(* Phase 1 of process_list: a location with a master file replaces the     *)
(* whole entry of the earlier ones, one without adds its extensions.       *)
Merge(old, new) ==
    [k \in Key |->
        IF old[k] = NoEntry \/ new[k].master # NoFile
        THEN new[k]
        ELSE [old[k] EXCEPT !.exts = @ \o new[k].exts]]

(* Mutant of FilesOf: the test of files->master is forgotten.              *)
FilesOfAnyEntry(e) == <<e.master>> \o e.exts

(* The files of an entry in the order phase 3 processes them.              *)
FilesOf(e) == (IF e.master = NoFile THEN <<>> ELSE <<e.master>>) \o e.exts

NoEntries == [k \in Key |-> NoEntry]

Body(f) == dirs[f.loc].body[<<f.id, f.name>>]

(* Mutant of CheckId: an element is accepted in any file.                  *)
CheckNothing(f, e) == TRUE

(* osinfo_loader_check_id: an element must be in the file its id names;    *)
(* a location that is itself a file has no relative path to check.         *)
CheckId(f, e) == dirs[f.loc].access = "file" \/ e.id = f.id

-------------------------------------------------------------------------------
(* The media of an OS, a list keyed by internal id                         *)

(* osinfo_build_internal_id: the n-th element of the master file, or of    *)
(* the fragment of a given name.                                           *)
InternalId(name, n) == <<name, n>>

(* osinfo_list_add: a present id is removed from its place first.          *)
ListAdd(list, m) == Append(SelectSeq(list, LAMBDA x : x.mid # m.mid), m)

(* osinfo_list_add of the media of one part, in document order.            *)
MediaOfPart(list, p) ==
    LET add[n \in 0..p.media] ==
            IF n = 0 THEN list
            ELSE ListAdd(add[n - 1],
                         [mid |-> InternalId(p.name, n - 1), loc |-> p.loc])
    IN  add[p.media]

MediaOf(parts) ==
    LET upTo[n \in 0..Len(parts)] ==
            IF n = 0 THEN <<>> ELSE MediaOfPart(upTo[n - 1], parts[n])
    IN  upTo[Len(parts)]

-------------------------------------------------------------------------------
Init ==
    /\ calls \in Scenarios
    /\ phase = "idle"
    /\ loc = 0
    /\ entries = NoEntries
    /\ todo = {}
    /\ queue = <<>>
    /\ file = NoFile
    /\ elems = <<>>
    /\ db = {}
    /\ content = [id \in Ids |-> <<>>]
    /\ refs = {}
    /\ dangling = {}
    /\ outcome = "none"
    /\ warned = {}
    /\ before = [db |-> {}, content |-> [id \in Ids |-> <<>>]]

(* The application calls one of osinfo_loader_process_*. Once an entity    *)
(* dangles, any further use of the database is undefined.                  *)
StartCall ==
    /\ phase = "idle"
    /\ calls # <<>>
    /\ dangling = {}
    /\ phase' = "gather"
    /\ loc' = 1
    /\ before' = [db |-> db, content |-> content]
    /\ UNCHANGED <<calls, entries, outcome, warned, iterVars, dataVars>>

(* The cleanup label of process_list: allentries is dropped and            *)
(* entity_refs emptied, whatever the outcome.                              *)
EndCall(result, undefined) ==
    /\ calls' = Tail(calls)
    /\ phase' = "idle"
    /\ loc' = 0
    /\ entries' = NoEntries
    /\ todo' = {}
    /\ queue' = <<>>
    /\ file' = NoFile
    /\ elems' = <<>>
    /\ refs' = {}
    /\ outcome' = result
    /\ warned' = undefined
    /\ UNCHANGED before

Fail == EndCall("error", {})

-------------------------------------------------------------------------------
(* Phase 1                                                                 *)

GatherNative ==
    /\ phase = "gather"
    /\ loc \leq Len(dirs)
    /\ dirs[loc].fmt = "native"
    /\ ~Unlistable(dirs[loc])
    /\ entries' = Merge(entries, Found(loc, dirs[loc]))
    /\ loc' = loc + 1
    /\ UNCHANGED <<phase, callVars, iterVars, dataVars>>

GatherFails ==
    /\ phase = "gather"
    /\ loc \leq Len(dirs)
    /\ dirs[loc].fmt = "native"
    /\ Unlistable(dirs[loc])
    /\ Fail
    /\ UNCHANGED <<db, content, dangling>>

GatherSkipsIds ==
    /\ phase = "gather"
    /\ loc \leq Len(dirs)
    /\ dirs[loc].fmt = "ids"
    /\ loc' = loc + 1
    /\ UNCHANGED <<phase, entries, callVars, iterVars, dataVars>>

GatherDone ==
    /\ phase = "gather"
    /\ loc > Len(dirs)
    /\ phase' = "ids"
    /\ loc' = 1
    /\ UNCHANGED <<entries, callVars, iterVars, dataVars>>

-------------------------------------------------------------------------------
(* Phase 2                                                                 *)

(* A native master file, even an empty one, replaces the ids record.       *)
Overridden(id) == entries[DirKey(id)].master # NoFile

IdsPart(n) == [loc |-> n, name |-> Master, media |-> 0, whole |-> TRUE]

(* The records of the devices in D become, or update, devices.             *)
AddIdsRecords(D) ==
    /\ db' = db \cup D
    /\ content' = [id \in Ids |-> IF id \in D
                                  THEN Append(content[id], IdsPart(loc))
                                  ELSE content[id]]

IdsFile ==
    /\ phase = "ids"
    /\ loc \leq Len(dirs)
    /\ dirs[loc].fmt = "ids"
    /\ dirs[loc].access = "file"
    /\ LET D == {id \in dirs[loc].masters : ~Overridden(id)}
       IN  /\ AddIdsRecords(D)
           /\ refs' = refs \ D
    /\ loc' = loc + 1
    /\ UNCHANGED <<phase, entries, dangling, callVars, iterVars>>

(* The file cannot be opened, whether or not missing locations are         *)
(* skipped, or a read fails after some of its lines.                       *)
IdsFails ==
    /\ phase = "ids"
    /\ loc \leq Len(dirs)
    /\ dirs[loc].fmt = "ids"
    /\ dirs[loc].access # "file"
    /\ \E R \in SUBSET (IF dirs[loc].access = "broken" THEN dirs[loc].masters
                                                       ELSE {}) :
          AddIdsRecords({id \in R : ~Overridden(id)})
    /\ Fail
    /\ UNCHANGED dangling

IdsSkipsNative ==
    /\ phase = "ids"
    /\ loc \leq Len(dirs)
    /\ dirs[loc].fmt = "native"
    /\ loc' = loc + 1
    /\ UNCHANGED <<phase, entries, callVars, iterVars, dataVars>>

IdsDone ==
    /\ phase = "ids"
    /\ loc > Len(dirs)
    /\ phase' = "load"
    /\ todo' = {k \in Key : entries[k] # NoEntry}
    /\ UNCHANGED <<loc, entries, queue, file, elems, callVars, dataVars>>

-------------------------------------------------------------------------------
(* Phase 3                                                                 *)

(* The iteration reaches an entry, in whatever order the table has.        *)
NextEntry ==
    /\ phase = "load"
    /\ queue = <<>>
    /\ elems = <<>>
    /\ \E k \in todo : /\ todo' = todo \ {k}
                       /\ queue' = FilesOf(entries[k])
    /\ UNCHANGED <<phase, loc, entries, file, elems, callVars, dataVars>>

(* osinfo_loader_process_file_reg_xml; a zero-length file has no elements. *)
OpenFile ==
    /\ phase = "load"
    /\ elems = <<>>
    /\ queue # <<>>
    /\ file' = Head(queue)
    /\ queue' = Tail(queue)
    /\ elems' = Body(Head(queue))
    /\ UNCHANGED <<phase, loc, entries, todo, callVars, dataVars>>

elem == Head(elems)

(* The file cannot be read or parsed, or the element has no id: nothing    *)
(* of it is applied.                                                       *)
ElementInvalid ==
    /\ phase = "load"
    /\ elems # <<>>
    /\ elem.fail = "early"
    /\ Fail
    /\ UNCHANGED <<db, content, dangling>>

(* osinfo_loader_root goes on to the next element.                         *)
Proceed == /\ elems' = Tail(elems)
           /\ UNCHANGED <<phase, loc, entries, todo, queue, file, callVars>>

(* An element in the wrong file is reported and skipped.                   *)
ElementMisplaced ==
    /\ phase = "load"
    /\ elems # <<>>
    /\ elem.fail # "early"
    /\ ~CheckId(file, elem)
    /\ Proceed
    /\ UNCHANGED dataVars

PartOf(f, e) == [loc |-> f.loc, name |-> f.name, media |-> e.media,
                 whole |-> e.fail = "none"]

(* The element to process is one of the given kind, in the right file.     *)
Handles(kind) ==
    /\ phase = "load"
    /\ elems # <<>>
    /\ elem.fail # "early"
    /\ CheckId(file, elem)
    /\ elem.id \in kind

(* Mutant of Resolve: a definition leaves its id in entity_refs.           *)
ResolveKeepingRef(defined, R) ==
    /\ db' = db \cup defined \cup R
    /\ refs' = refs \cup (R \ (db \cup defined))

(* Mutant of Resolve: a placeholder is not remembered in entity_refs.      *)
ResolveForgetting(defined, R) ==
    /\ db' = db \cup defined \cup R
    /\ refs' = refs \ defined

(* osinfo_loader_get_datamap, _device, _os, _platform, _install_script on  *)
(* the ids an element refers to: an unknown one is added to the database   *)
(* as a placeholder and remembered in entity_refs. The entity the element  *)
(* defines is looked up first, and struck from entity_refs.                *)
Resolve(defined, R) ==
    /\ db' = db \cup defined \cup R
    /\ refs' = (refs \ defined) \cup (R \ (db \cup defined))

(* Mutant of Apply: a second definition replaces the first.                *)
ApplyAfresh(id, part) == content' = [content EXCEPT ![id] = <<part>>]

(* A definition adds to what the entity, in the database or new, has.      *)
Apply(id, part) ==
    content' = [content EXCEPT ![id] = Append(@, part)]

Products == Ids \ (Scripts \cup Deployments)

(* osinfo_loader_os, _platform, _device, _datamap.                         *)
DefineProduct ==
    /\ Handles(Products)
    /\ elem.fail = "none"
    /\ Resolve({elem.id}, elem.refs)
    /\ Apply(elem.id, PartOf(file, elem))
    /\ Proceed
    /\ UNCHANGED dangling

(* The error comes after some of the references were followed.             *)
DefineProductFails ==
    /\ Handles(Products)
    /\ elem.fail = "late"
    /\ \E R \in SUBSET elem.refs : db' = db \cup {elem.id} \cup R
    /\ Apply(elem.id, PartOf(file, elem))
    /\ Fail
    /\ UNCHANGED dangling

(* osinfo_loader_install_script.                                           *)
DefineScript ==
    /\ Handles(Scripts)
    /\ elem.fail = "none"
    /\ Resolve({elem.id}, elem.refs)
    /\ Apply(elem.id, PartOf(file, elem))
    /\ Proceed
    /\ UNCHANGED dangling

(* Its error label releases the script, whose only reference the database  *)
(* holds.                                                                  *)
DefineScriptFails ==
    /\ Handles(Scripts)
    /\ elem.fail = "late"
    /\ \E R \in SUBSET elem.refs : db' = db \cup {elem.id} \cup R
    /\ Apply(elem.id, PartOf(file, elem))
    /\ dangling' = dangling \cup {elem.id}
    /\ Fail

(* osinfo_loader_deployment: the OS and the platform are looked up first,  *)
(* a new deployment is built apart and added last, replacing one of the    *)
(* same id.                                                                *)
DefineDeployment ==
    /\ Handles(Deployments)
    /\ elem.fail = "none"
    /\ db' = db \cup elem.refs \cup {elem.id}
    /\ refs' = refs \cup (elem.refs \ db)
    /\ content' = [content EXCEPT ![elem.id] = <<PartOf(file, elem)>>]
    /\ Proceed
    /\ UNCHANGED dangling

DefineDeploymentFails ==
    /\ Handles(Deployments)
    /\ elem.fail = "late"
    /\ \E R \in SUBSET elem.refs : db' = db \cup R
    /\ Fail
    /\ UNCHANGED <<content, dangling>>

(* The iteration is over; what is still in entity_refs is reported.        *)
Finish ==
    /\ phase = "load"
    /\ todo = {}
    /\ queue = <<>>
    /\ elems = <<>>
    /\ EndCall("ok", refs)
    /\ UNCHANGED <<db, content, dangling>>

-------------------------------------------------------------------------------
Gather == GatherNative \/ GatherFails \/ GatherSkipsIds \/ GatherDone

ReadIds == IdsFile \/ IdsFails \/ IdsSkipsNative \/ IdsDone

Load == \/ NextEntry \/ OpenFile \/ ElementInvalid \/ ElementMisplaced
        \/ DefineProduct \/ DefineProductFails
        \/ DefineScript \/ DefineScriptFails
        \/ DefineDeployment \/ DefineDeploymentFails
        \/ Finish

Next == StartCall \/ Gather \/ ReadIds \/ Load

Spec == Init /\ [][Next]_vars

-------------------------------------------------------------------------------
(* Properties                                                              *)

TypeOK ==
    /\ calls \in Seq(Call)
    /\ phase \in {"idle", "gather", "ids", "load"}
    /\ phase # "idle" => calls # <<>>
    /\ loc \in Nat
    /\ entries \in [Key -> Entry]
    /\ todo \subseteq Key
    /\ queue \in Seq(File)
    /\ file \in File \cup {NoFile}
    /\ elems \in Seq(Elem)
    /\ db \subseteq Ids
    /\ content \in [Ids -> Seq(Part)]
    /\ refs \subseteq Ids
    /\ dangling \subseteq Ids
    /\ outcome \in {"none", "ok", "error"}
    /\ warned \subseteq Ids
    /\ before \in [db : SUBSET Ids, content : [Ids -> Seq(Part)]]

(* While a call runs, entity_refs holds exactly the entities the call has  *)
(* added to the database and nothing has defined yet: no definition fails  *)
(* to strike its id, no reference adds an id that is already defined, and  *)
(* no entity has content without being in the database.                    *)
RefsAreUndefined ==
    /\ phase # "idle" =>
          refs = {id \in db \ before.db : content[id] = <<>>}
    /\ \A id \in Ids : content[id] # <<>> => id \in db

(* A call that succeeds reports exactly the entities it left referenced    *)
(* but not defined (the g_warning at the end of process_list).             *)
UndefinedReported ==
    phase = "idle" /\ outcome = "ok" =>
        warned = {id \in db \ before.db : content[id] = <<>>}

(* How many locations phase 1 has been through.                            *)
Gathered == IF phase = "gather" THEN loc - 1 ELSE Len(dirs)

Layer(n) == dirs[n].fmt = "native" /\ dirs[n].access = "dir"
HasMaster(n, id) == Layer(n) /\ id \in dirs[n].masters

(* The extensions of an entity found in location n.                        *)
ExtsAt(n, id) == {FileAt(n, id, dirs[n].frags[id][i]) :
                     i \in 1..Len(dirs[n].frags[id])}

(* f comes before g in the order of priority.                              *)
Precedes(f, g) == f.loc < g.loc \/ (f.loc = g.loc /\ f.name < g.name)

(* The master file of entry e is that of the last of the first n locations *)
(* that has one.                                                           *)
TopMaster(e, n, id) ==
    /\ e.master = NoFile => \A m \in 1..n : ~HasMaster(m, id)
    /\ e.master # NoFile =>
          /\ e.master.loc \in 1..n
          /\ HasMaster(e.master.loc, id)
          /\ e.master = FileAt(e.master.loc, id, Master)
          /\ \A m \in e.master.loc + 1..n : ~HasMaster(m, id)

(* Location m is not below the one whose master file entry e has.          *)
NotBelow(e, m) == e.master # NoFile => m \geq e.master.loc

(* Its extensions are some of those such locations have,                   *)
OnlyLiveExts(e, n, id) ==
    \A i \in 1..Len(e.exts) :
        /\ e.exts[i].loc \in 1..n
        /\ Layer(e.exts[i].loc)
        /\ e.exts[i] \in ExtsAt(e.exts[i].loc, id)
        /\ NotBelow(e, e.exts[i].loc)

(* all of them,                                                            *)
AllLiveExts(e, n, id) ==
    \A m \in 1..n : Layer(m) /\ NotBelow(e, m) =>
        \A f \in ExtsAt(m, id) : \E i \in 1..Len(e.exts) : e.exts[i] = f

(* by location and then by name.                                           *)
InOrder(exts) ==
    \A i, j \in 1..Len(exts) : i < j => Precedes(exts[i], exts[j])

Prioritised(e, n, id) ==
    /\ TopMaster(e, n, id)
    /\ OnlyLiveExts(e, n, id)
    /\ AllLiveExts(e, n, id)
    /\ InOrder(e.exts)

(* However the locations overlap, merging them one by one leaves the entry *)
(* their priorities prescribe (docs/database-layout.txt: "the entity found *)
(* in the later location MUST take priority").                             *)
LaterLocationWins ==
    phase # "idle" =>
        \A id \in Ids : Prioritised(entries[DirKey(id)], Gathered, id)

(* Nothing the loader does, failing or not, takes an entity out of the     *)
(* database or undoes what was applied to it, except that a deployment     *)
(* replaces the one of the same id.                                        *)
NeverForgets ==
    [][/\ db \subseteq db'
       /\ \A id \in Ids \ Deployments :
             SubSeq(content'[id], 1, Len(content[id])) = content[id]
      ]_vars

(* A caller sees the database between calls.                               *)
Layers == INSTANCE LayeredDb
            WITH content <- IF phase = "idle" THEN content ELSE before.content

(* Seen between calls, loading implements LayeredDb: the merge, the ids    *)
(* filter, the hash order of the entries, the element handlers and the     *)
(* error exits together give each entity exactly the parts its layers      *)
(* prescribe, or on an error a first section of them.                      *)
LayersImplemented == Layers!Spec

-------------------------------------------------------------------------------
(* What the documentation says and the code does not do                    *)

(* docs/database-layout.txt: "The contents of each FILE-NAME.xml found are *)
(* used to augment information associated with the entity". So after a     *)
(* call that succeeds every fragment's media are in the media list.        *)
FragmentsAugment ==
    [][phase = "load" /\ phase' = "idle" /\ outcome' = "ok" =>
          \A n \in 1..Len(dirs) : \A id \in Products :
            \A i \in 1..Len(dirs[n].frags[id]) :
              LET f == FileAt(n, id, dirs[n].frags[id][i])
                  list == MediaOf(content[id])
              IN  Layer(n) =>
                    \A j \in 1..Len(Body(f)) :
                      Body(f)[j].id = id /\ Body(f)[j].media > 0 =>
                        \E k \in 1..Len(list) :
                          list[k].loc = n /\ list[k].mid = InternalId(f.name, 0)
      ]_vars

(* osinfo_db_get_install_script returns its script "(transfer none)": the  *)
(* caller has no reference to release, and what the database lists stays   *)
(* alive.                                                                  *)
ListedScriptsAlive == dangling \cap db = {}
===============================================================================
