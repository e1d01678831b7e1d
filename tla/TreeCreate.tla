------------------------------- MODULE TreeCreate -------------------------------
(***************************************************************************)
(* osinfo_tree_create_from_location_async (osinfo_tree.c): describing an   *)
(* installation tree from the file .treeinfo, or else treeinfo, at its     *)
(* location.                                                               *)
(*                                                                         *)
(* The operation is a chain of callbacks run by the main loop:             *)
(*   soup_read     the HTTP answer has begun: read its body                *)
(*   content_read  the body is read: load it as a key file                 *)
(*   local_read    a local file has been loaded: load it as a key file     *)
(*   ready         the caller's callback                                   *)
(* A first callback that has failed starts over with the other file name.  *)
(* "scan" is load_keyinfo between two characters of a value it looks at:   *)
(* is_str_empty counts them with a guint8.                                 *)
(***************************************************************************)
EXTENDS Integers, Sequences

CONSTANTS
    Wrap,   \* the number of values of a guint8
    Jobs    \* the requests an application makes

ASSUME WrapAssumption == Wrap \in Nat \ {0}

Names == {".treeinfo", "treeinfo"}

(* The keys load_keyinfo reads, in the order in which it looks at them;    *)
(* the last three are of the group named for the architecture.             *)
Keys == <<"family", "variant", "version", "arch", "kernel", "initrd", "boot.iso">>
KeySet == {Keys[k] : k \in 1..Len(Keys)}
ImageKeys == {"kernel", "initrd", "boot.iso"}

(* The value of a key: not there, not valid UTF-8, or a text, of which     *)
(* matter its length and where its first character that is no space is.    *)
Value == [kind : {"missing", "broken", "text"}, len : Nat, first : Nat]
Missing == [kind |-> "missing", len |-> 0, first |-> 0]

Doc == [state : {"absent", "garbage", "keyfile"}, values : [KeySet -> Value]]
EmptyDoc == [state |-> "keyfile", values |-> [k \in KeySet |-> Missing]]

(* A request: the protocol of its location, what is there under each name, *)
(* and whether the server sends bodies in chunks, without their length.    *)
Job == [protocol : {"http", "file", "other"}, files : [Names -> Doc],
        chunked : BOOLEAN]
ASSUME JobsAssumption == Jobs \subseteq Job

Errors == {"protocol", "no_treeinfo", "io", "keyfile"}

(* The OsinfoTree: its architecture, and the properties set from keys.     *)
NoTree == [arch |-> "none", info |-> [k \in KeySet |-> Missing]]

VARIABLES
    job,        \* the request
    step,       \* the callback the pending operation will call
    treeinfo,   \* data->treeinfo, the name asked for
    content,    \* data->content
    values,     \* the strings load_keyinfo has read
    key,        \* the string it looks at
    i,          \* is_str_empty's index
    tree,       \* the OsinfoTree made
    owner,      \* who has it
    data,       \* the CreateFromLocationAsyncData
    answer,     \* what was returned to the task
    caller,     \* what the caller has
    cancelled,  \* the caller's GCancellable
    faulty      \* an operation failed on a file that is there (history)

scanVars == <<values, key, i, tree>>
ownVars == <<owner, data, answer>>
vars == <<job, step, treeinfo, content, scanVars, ownVars, caller, cancelled, faulty>>

Init ==
    /\ job \in Jobs
    /\ step = "idle"
    /\ treeinfo = "none"
    /\ content = EmptyDoc
    /\ values = [k \in KeySet |-> Missing]
    /\ key = 1
    /\ i = 0
    /\ tree = NoTree
    /\ owner = "none"
    /\ data = "none"
    /\ answer = "none"
    /\ caller = "idle"
    /\ cancelled = FALSE
    /\ faulty = FALSE

-------------------------------------------------------------------------------
(* g_task_return_error, and create_from_location_async_data_free.          *)
ReturnError(e) ==
    /\ answer' = e
    /\ data' = "freed"
    /\ step' = "ready"
    /\ UNCHANGED owner

(* osinfo_tree_create_from_location_async_helper: only HTTP, FTP and local *)
(* files are supported.                                                    *)
Helper(name) ==
    \/ /\ job.protocol = "other"
       /\ ReturnError("protocol")
       /\ UNCHANGED treeinfo
    \/ /\ job.protocol # "other"
       /\ treeinfo' = name
       /\ step' = IF job.protocol = "http" THEN "soup_read" ELSE "local_read"
       /\ data' = "alive"
       /\ UNCHANGED <<owner, answer>>

CreateFromLocation ==
    /\ step = "idle"
    /\ caller' = "waiting"
    /\ Helper(".treeinfo")
    /\ UNCHANGED <<job, content, scanVars, cancelled, faulty>>

(* The application, perhaps from another thread, cancels.                  *)
Cancel ==
    /\ ~cancelled
    /\ cancelled' = TRUE
    /\ UNCHANGED <<job, step, treeinfo, content, scanVars, ownVars, caller, faulty>>

There == job.files[treeinfo]

(* An operation of GIO or libsoup ends in an error when the file is not    *)
(* there, when it was cancelled, and at any time for another reason.       *)
Fails == faulty' = (faulty \/ (There.state # "absent" /\ ~cancelled))

(* Mutant of TryAgain: the data is freed after the second operation began. *)
TryAgainAndFree ==
    /\ treeinfo = ".treeinfo"
    /\ treeinfo' = "treeinfo"
    /\ UNCHANGED <<step, answer, owner>>
    /\ data' = "freed"

(* The name is tried that has not been, if there is one.                   *)
TryAgain == treeinfo = ".treeinfo" /\ Helper("treeinfo")
LastTry == treeinfo # ".treeinfo"

(* Mutant of SoupFails: the second name is tried again and again.          *)
SoupFailsForEver ==
    /\ step = "soup_read"
    /\ Fails
    /\ Helper("treeinfo")
    /\ UNCHANGED <<job, content, scanVars, caller, cancelled>>

(* on_soup_location_read, without a stream or with a status that is no     *)
(* success.                                                                *)
SoupFails ==
    /\ step = "soup_read"
    /\ Fails
    /\ \/ TryAgain
       \/ /\ LastTry
          /\ \/ ReturnError("io")
             \/ ~cancelled /\ ReturnError("no_treeinfo")
          /\ UNCHANGED treeinfo
    /\ UNCHANGED <<job, content, scanVars, caller, cancelled>>

(* The length of the body is that of the header, 0 if there is none.       *)
SoupRead ==
    /\ step = "soup_read"
    /\ There.state # "absent"
    /\ ~cancelled
    /\ content' = IF job.chunked THEN EmptyDoc ELSE There
    /\ step' = "content_read"
    /\ UNCHANGED <<job, treeinfo, scanVars, ownVars, caller, cancelled, faulty>>

(* on_content_read, and on_local_location_read at the second name.         *)
ContentFails ==
    /\ step = "content_read"
    /\ Fails
    /\ ReturnError("io")
    /\ UNCHANGED <<job, treeinfo, content, scanVars, caller, cancelled>>

LocalFails ==
    /\ step = "local_read"
    /\ Fails
    /\ \/ TryAgain
       \/ LastTry /\ ReturnError("io") /\ UNCHANGED treeinfo
    /\ UNCHANGED <<job, content, scanVars, caller, cancelled>>

-------------------------------------------------------------------------------
(* load_keyinfo                                                            *)

(* The keys read of a file: without an architecture there is no group to   *)
(* read the last three from.                                               *)
KeysRead(doc) ==
    IF doc.values["arch"].kind = "text" THEN KeySet ELSE KeySet \ ImageKeys

(* Mutant of Loads: the errors of single values are not looked at.         *)
LoadsAnyValue(doc) == doc.state = "keyfile"

Loads(doc) ==
    /\ doc.state = "keyfile"
    /\ \A k \in KeysRead(doc) : doc.values[k].kind # "broken"

(* Mutant of Load: the strings of a file that does not load are kept.      *)
LoadAnything(doc) ==
    /\ values' = [k \in KeySet |-> IF k \in KeysRead(doc) THEN doc.values[k] ELSE Missing]
    /\ tree' = [NoTree EXCEPT !.arch = "i386"]
    /\ owner' = "local"
    /\ key' = 1
    /\ i' = 0
    /\ step' = "scan"
    /\ UNCHANGED <<data, answer>>

(* The file loads: the tree is made, with the architecture it names or     *)
(* i386.                                                                   *)
Load(doc) ==
    /\ Loads(doc)
    /\ values' = [k \in KeySet |-> IF k \in KeysRead(doc) THEN doc.values[k] ELSE Missing]
    /\ tree' = [NoTree EXCEPT
                  !.arch = IF doc.values["arch"].kind = "text" THEN "named" ELSE "i386"]
    /\ owner' = "local"
    /\ key' = 1
    /\ i' = 0
    /\ step' = "scan"
    /\ UNCHANGED <<data, answer>>

(* or it does not, and the error is returned.                              *)
LoadFails(doc) ==
    /\ ~Loads(doc)
    /\ ReturnError("keyfile")
    /\ UNCHANGED scanVars

ContentRead ==
    /\ step = "content_read"
    /\ ~cancelled
    /\ Load(content) \/ LoadFails(content)
    /\ UNCHANGED <<job, treeinfo, content, caller, cancelled, faulty>>

LocalRead ==
    /\ step = "local_read"
    /\ There.state # "absent"
    /\ ~cancelled
    /\ Load(There) \/ LoadFails(There)
    /\ UNCHANGED <<job, treeinfo, content, caller, cancelled, faulty>>

Scanning == step = "scan" /\ key \leq Len(Keys)
Looked == values[Keys[key]]
InText == Looked.kind = "text" /\ i < Looked.len

(* is_str_empty: the character is a space.                                 *)
ScanOn ==
    /\ Scanning
    /\ InText
    /\ i # Looked.first
    /\ i' = IF i + 1 = Wrap THEN 0 ELSE i + 1
    /\ UNCHANGED <<job, step, treeinfo, content, values, key, tree, ownVars, caller,
                   cancelled, faulty>>

(* It is none, and the property is set.                                    *)
ScanFound ==
    /\ Scanning
    /\ InText
    /\ i = Looked.first
    /\ tree' = [tree EXCEPT !.info[Keys[key]] = Looked]
    /\ key' = key + 1
    /\ i' = 0
    /\ UNCHANGED <<job, step, treeinfo, content, values, ownVars, caller, cancelled,
                   faulty>>

(* There is no value or it has ended.                                      *)
ScanEmpty ==
    /\ Scanning
    /\ ~InText
    /\ key' = key + 1
    /\ i' = 0
    /\ UNCHANGED <<job, step, treeinfo, content, values, tree, ownVars, caller,
                   cancelled, faulty>>

(* g_task_return_pointer.                                                  *)
ReturnTree ==
    /\ step = "scan"
    /\ key > Len(Keys)
    /\ answer' = "tree"
    /\ owner' = "task"
    /\ data' = "freed"
    /\ step' = "ready"
    /\ UNCHANGED <<job, treeinfo, content, scanVars, caller, cancelled, faulty>>

(* Mutant of Ready: the task was made without the caller's cancellable.    *)
ReadyAnyway ==
    /\ step = "ready"
    /\ step' = "none"
    /\ caller' = IF answer = "tree" THEN "object" ELSE "error"
    /\ owner' = IF answer = "tree" THEN "caller" ELSE owner
    /\ UNCHANGED <<job, treeinfo, content, scanVars, data, answer, cancelled, faulty>>

(* The caller's callback, and osinfo_tree_create_from_location_finish. The *)
(* task of a cancelled request has an error, whatever was returned to it.  *)
Ready ==
    /\ step = "ready"
    /\ step' = "none"
    /\ IF answer = "tree" /\ ~cancelled
       THEN caller' = "object" /\ owner' = "caller"
       ELSE caller' = "error" /\ owner' = IF owner = "task" THEN "freed" ELSE owner
    /\ UNCHANGED <<job, treeinfo, content, scanVars, data, answer, cancelled, faulty>>

-------------------------------------------------------------------------------
Answers == SoupFails \/ SoupRead \/ ContentFails \/ LocalFails
Scan == ScanOn \/ ScanFound \/ ScanEmpty \/ ReturnTree

(* The main loop dispatches the pending operation's callback, or the       *)
(* callback that runs goes on.                                             *)
Dispatch == Answers \/ ContentRead \/ LocalRead \/ Scan \/ Ready

Next == CreateFromLocation \/ Cancel \/ Dispatch

Spec == Init /\ [][Next]_vars

(* Every operation that GIO or libsoup has accepted ends, and the caller   *)
(* runs the main loop.                                                     *)
FairSpec == Spec /\ WF_vars(Dispatch)

-------------------------------------------------------------------------------
(* Properties                                                              *)

Callbacks == {"soup_read", "content_read", "local_read", "scan"}

(* What a key that was read may hold.                                      *)
Legible == {v \in Value : v.kind # "broken"}

TypeOK ==
    /\ job \in Jobs
    /\ step \in {"idle", "ready", "none"} \cup Callbacks
    /\ treeinfo \in {"none"} \cup Names
    /\ content \in Doc
    /\ values \in [KeySet -> Legible]
    /\ key \in 1..Len(Keys) + 1
    /\ i \in 0..Wrap - 1
    /\ tree \in [arch : {"none", "i386", "named"}, info : [KeySet -> Legible]]
    /\ owner \in {"none", "local", "task", "caller", "freed"}
    /\ data \in {"none", "alive", "freed"}
    /\ answer \in {"none", "tree"} \cup Errors
    /\ caller \in {"idle", "waiting", "object", "error"}
    /\ cancelled \in BOOLEAN
    /\ faulty \in BOOLEAN

(* While a callback is to come, after a first answer or a second, the data *)
(* it uses is alive and nothing has been answered; once answered the data  *)
(* is gone, and a tree that was made has exactly one owner. So no callback *)
(* of the two tries answers twice or uses what an earlier one freed.       *)
AnsweredOnce ==
    /\ step \in Callbacks => /\ data = "alive"
                             /\ answer = "none"
                             /\ caller = "waiting"
                             /\ treeinfo \in Names
                             /\ owner = IF step = "scan" THEN "local" ELSE "none"
    /\ step = "ready" <=> answer # "none" /\ caller = "waiting"
    /\ answer # "none" => data = "freed"
    /\ owner = "task" <=> step = "ready" /\ answer = "tree"

(* What a tree says for a file: the keys whose value is not blank.         *)
Shown(doc) ==
    [k \in KeySet |->
        IF /\ k \in KeysRead(doc)
           /\ doc.values[k].kind = "text" /\ doc.values[k].first < doc.values[k].len
        THEN doc.values[k] ELSE Missing]

(* The file a tree is made of: without a length, an empty one. (So that a  *)
(* tree made of the body of a chunked answer shows nothing of the file at  *)
(* the location is taken here as the code has it, and not objected to.)    *)
Served == IF job.protocol = "http" /\ job.chunked THEN EmptyDoc ELSE There

(* Each answer is one the location calls for: a tree says what the file    *)
(* says, all of it; that file is .treeinfo unless it is not there or could *)
(* not be read; and each error is for a location that has that fault.      *)
AnswerJustified ==
    /\ answer = "tree" =>
          /\ There.state # "absent" /\ Loads(Served)
          /\ tree.info = Shown(Served)
          /\ treeinfo = "treeinfo" =>
                faulty \/ job.files[".treeinfo"].state = "absent"
    /\ answer = "protocol" <=> job.protocol = "other" /\ step # "idle"
    /\ answer = "no_treeinfo" =>
          /\ job.protocol = "http"
          /\ faulty \/ \A n \in Names : job.files[n].state = "absent"
    /\ answer = "keyfile" => ~Loads(Served)
    /\ answer = "io" => \/ faulty \/ cancelled
                        \/ \A n \in Names : job.files[n].state = "absent"

(* To its caller the chain of callbacks is one asynchronous request.       *)
Request == INSTANCE AsyncRequest
RequestImplemented == Request!Spec

(* is_str_empty ends on a value if the first character that is no space,   *)
(* or the end, is at an index a guint8 holds.                              *)
Scannable ==
    \A n \in Names, k \in KeySet : job.files[n].values[k].first < Wrap

(* The caller is answered, with one file there, both, or none, and however *)
(* many operations fail, unless a value of the file has as many spaces in  *)
(* front as a guint8 has values.                                           *)
AnsweredWhenScannable ==
    (caller = "waiting" /\ Scannable) ~> (caller \in {"object", "error"})
===============================================================================
