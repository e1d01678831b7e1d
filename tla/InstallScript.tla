------------------------------ MODULE InstallScript ------------------------------
(***************************************************************************)
(* osinfo_install_script_generate_output and its variants                  *)
(* (osinfo_install_script.c): a script is generated from a template and a  *)
(* configuration (osinfo_install_config.c, osinfo_datamap.c), and written  *)
(* to a file.                                                              *)
(*                                                                         *)
(* The asynchronous function generates the script with the synchronous     *)
(* one, so in a main loop of its own: other callbacks run meanwhile, and   *)
(* one of them may make another request, whose loops run inside; then the  *)
(* outer loop cannot return before the inner ones. "stack" has the request *)
(* of each loop that runs, innermost last. The file is then opened,        *)
(* written piece by piece, and closed, in a chain of callbacks.            *)
(***************************************************************************)
EXTENDS Integers, Sequences, FiniteSets

CONSTANTS
    Requests,    \* requests of an application, for one script, file and config
    Keys,        \* parameters of the configuration
    Mapped,      \* those for which the script has a datamap
    Values,      \* their values
    Default,     \* the value those have that a new configuration has
    Given,       \* the datamap the database has for them
    Length,      \* the length of a script
    MaxChanges,  \* how often configuration and datamap are changed
    MaxFailures, \* how often writing goes on after a write that failed
    None

(* The parameters osinfo_install_config.c has functions for.               *)
TargetKeys == {"hardware-arch", "l10n-keyboard", "l10n-language", "l10n-timezone"}
AccountKeys == {"admin-password", "user-login", "user-password", "user-realname",
                "user-autologin", "user-admin"}
HostKeys == {"reg-login", "reg-password", "reg-product-key", "hostname"}
DiskKeys == {"target-disk", "script-disk", "avatar-location", "avatar-disk"}
DriverKeys == {"pre-install-drivers-disk", "pre-install-drivers-location",
               "post-install-drivers-disk", "post-install-drivers-location"}
SourceKeys == {"driver-signing", "installation-url"}
ConfigKeys == TargetKeys \cup AccountKeys \cup HostKeys \cup DiskKeys
              \cup DriverKeys \cup SourceKeys

(* Those that are "true" or "false", and those a new configuration has.    *)
FlagKeys == {"user-autologin", "user-admin", "driver-signing"}
DefaultKeys == {"l10n-keyboard", "l10n-timezone", "l10n-language", "admin-password"}

ASSUME KeysAssumption ==
    Keys \subseteq ConfigKeys /\ Mapped \subseteq Keys /\ Default \in Values
ASSUME BoundsAssumption ==
    Length \in Nat /\ MaxChanges \in Nat /\ MaxFailures \in Nat
ASSUME GivenAssumption ==
    /\ Given \in [Values -> Values \cup {None}]
    /\ \A v, w \in Values : Given[v] # None /\ Given[v] = Given[w] => v = w
ASSUME NoneAssumption == None \notin Values /\ None \notin Requests

(* A request: the function called, whether the template is in the database *)
(* or at a URI, and whether the caller's user_data may be read as if it    *)
(* were that of the synchronous function.                                  *)
Job == [api : {"sync", "async"}, template : {"data", "uri"},
        userdata : {"readable", "null"}]
Offered == {j \in Job : j.api = "sync" => j.userdata = "readable"}

Documents == [Keys -> Seq(Values)]
NoDocument == [k \in Keys |-> <<None>>]

VARIABLES
    params,     \* the params of the OsinfoInstallConfig
    map,        \* the map of the OsinfoDatamap,
    reverse,    \* its reverse_map, and
    stale,      \* the keys of that whose strings may have been freed
    changes,    \* how often they were changed (history)
    api,        \* the function called
    step,       \* what a request waits for
    text,       \* data->output, what the template was applied to
    seen,       \* what it may be of (history)
    pos,        \* data->output_pos
    content,    \* what was written, as positions in the script
    caller,     \* what the caller has
    cancelled,  \* its GCancellable
    failures,   \* how many of its operations failed (history)
    stack,      \* the loops
    disk,       \* the file
    crashed

configVars == <<params, map, reverse, stale, changes>>
writeVars == <<pos, content>>
ioVars == <<stack, disk, crashed>>
vars == <<configVars, api, step, text, seen, writeVars, caller, cancelled, failures, ioVars>>

NoFile == [by |-> None, written |-> <<>>]

Init ==
    /\ params = [k \in Keys |-> IF k \in DefaultKeys THEN <<Default>> ELSE <<>>]
    /\ map = Given
    /\ reverse = [v \in Values |-> IF \E w \in Values : Given[w] = v
                                  THEN CHOOSE w \in Values : Given[w] = v ELSE None]
    /\ stale = {}
    /\ changes = 0
    /\ api = [r \in Requests |-> "async"]
    /\ step = [r \in Requests |-> "idle"]
    /\ text = [r \in Requests |-> NoDocument]
    /\ seen = [r \in Requests |-> {}]
    /\ pos = [r \in Requests |-> 0]
    /\ content = [r \in Requests |-> <<>>]
    /\ caller = [r \in Requests |-> "idle"]
    /\ cancelled = [r \in Requests |-> FALSE]
    /\ failures = [r \in Requests |-> 0]
    /\ stack = <<>>
    /\ disk = NoFile
    /\ crashed = FALSE

-------------------------------------------------------------------------------
(* The configuration                                                       *)

Lookup(m, v) == IF m[v] = None THEN v ELSE m[v]

(* osinfo_install_script_generate_entity_xml of the configuration: a value *)
(* with an entry in the datamap of its parameter is replaced.              *)
Document(p, m) ==
    [k \in Keys |->
       IF k \in Mapped THEN [i \in 1..Len(p[k]) |-> Lookup(m, p[k][i])] ELSE p[k]]

(* The configuration or the datamap is changed, while a script may yet be  *)
(* generated of it.                                                        *)
Change ==
    /\ ~crashed
    /\ \E r \in Requests : step[r] \in {"idle", "template"}
    /\ changes < MaxChanges
    /\ changes' = changes + 1
    /\ seen' = [r \in Requests |-> IF step[r] = "template"
                                   THEN seen[r] \cup {Document(params', map')} ELSE seen[r]]
    /\ UNCHANGED <<api, step, text, writeVars, caller, cancelled, failures, ioVars>>

(* osinfo_entity_set_param, add_param and clear_param.                     *)
SetParam(k, v) == /\ k \in FlagKeys => v \in {"true", "false"}
                  /\ params' = [params EXCEPT ![k] = <<v>>]
                  /\ UNCHANGED <<map, reverse, stale>>
                  /\ Change
AddParam(k, v) == /\ params' = [params EXCEPT ![k] = Append(@, v)]
                  /\ UNCHANGED <<map, reverse, stale>>
                  /\ Change
ClearParam(k) == /\ params' = [params EXCEPT ![k] = <<>>]
                 /\ UNCHANGED <<map, reverse, stale>>
                 /\ Change

(* Mutant of Insert: the arguments are swapped.                            *)
InsertSwapped(in, out) ==
    /\ map' = [map EXCEPT ![in] = out]
    /\ reverse' = [reverse EXCEPT ![in] = out]
    /\ stale' = IF map[in] = None THEN stale ELSE stale \cup {out, map[in]}
    /\ UNCHANGED params
    /\ Change

(* osinfo_datamap_insert: the two maps share their strings, and those that *)
(* were there for the same key are freed by the one, and kept by the other.*)
Insert(in, out) ==
    /\ map' = [map EXCEPT ![in] = out]
    /\ reverse' = [reverse EXCEPT ![out] = in]
    /\ stale' = IF map[in] = None THEN stale ELSE stale \cup {out, map[in]}
    /\ UNCHANGED params
    /\ Change

-------------------------------------------------------------------------------
(* Generating                                                              *)

At(r, s) == ~crashed /\ step[r] = s
Go(r, s) == step' = [step EXCEPT ![r] = s]
Fail(r) == failures' = [failures EXCEPT ![r] = @ + 1]

Innermost(r) == stack # <<>> /\ stack[Len(stack)] = r
Popped == SubSeq(stack, 1, Len(stack) - 1)

(* The application calls, perhaps from a callback inside another loop.     *)
Call(r, j) ==
    /\ ~crashed
    /\ caller[r] = "idle"
    /\ api' = [api EXCEPT ![r] = j.api]
    /\ caller' = [caller EXCEPT ![r] = "waiting"]
    /\ UNCHANGED <<configVars, writeVars, cancelled, disk>>

(* The asynchronous function reads user_data.                              *)
CallCrashes(r, j) ==
    /\ j.userdata = "null"
    /\ Call(r, j)
    /\ crashed' = TRUE
    /\ UNCHANGED <<step, text, seen, failures, stack>>

(* A template in the database is applied at once, or cannot be applied; a  *)
(* template at a URI is loaded.                                            *)
CallData(r, j) ==
    /\ j.userdata = "readable" /\ j.template = "data"
    /\ Call(r, j)
    /\ step' = [step EXCEPT ![r] = "generated"]
    /\ seen' = [seen EXCEPT ![r] = {Document(params, map)}]
    /\ \/ text' = [text EXCEPT ![r] = Document(params, map)] /\ UNCHANGED failures
       \/ Fail(r) /\ UNCHANGED text
    /\ stack' = Append(stack, r)
    /\ UNCHANGED crashed

CallUri(r, j) ==
    /\ j.userdata = "readable" /\ j.template = "uri"
    /\ Call(r, j)
    /\ step' = [step EXCEPT ![r] = "template"]
    /\ seen' = [seen EXCEPT ![r] = {Document(params, map)}]
    /\ stack' = Append(stack, r)
    /\ UNCHANGED <<text, failures, crashed>>

(* Once the caller has an answer, cancelling does nothing.                 *)
Cancel(r) ==
    /\ ~crashed /\ ~cancelled[r]
    /\ caller[r] \in {"idle", "waiting"}
    /\ cancelled' = [cancelled EXCEPT ![r] = TRUE]
    /\ UNCHANGED <<configVars, api, step, text, seen, writeVars, caller, failures, ioVars>>

(* osinfo_install_script_template_loaded.                                  *)
TemplateLoaded(r) ==
    /\ At(r, "template")
    /\ ~cancelled[r]
    /\ text' = [text EXCEPT ![r] = Document(params, map)]
    /\ Go(r, "generated")
    /\ UNCHANGED <<configVars, api, seen, writeVars, caller, cancelled, failures, ioVars>>

TemplateFails(r) ==
    /\ At(r, "template")
    /\ Fail(r)
    /\ Go(r, "generated")
    /\ UNCHANGED <<configVars, api, text, seen, writeVars, caller, cancelled, ioVars>>

(* osinfo_install_script_generate_done: the loop is to end. The task of a  *)
(* cancelled request has no script.                                        *)
GenerateDone(r) ==
    /\ At(r, "generated")
    /\ Go(r, "quit")
    /\ IF cancelled[r]
       THEN Fail(r) /\ text' = [text EXCEPT ![r] = NoDocument]
       ELSE UNCHANGED <<failures, text>>
    /\ UNCHANGED <<configVars, api, seen, writeVars, caller, cancelled, ioVars>>

(* Mutant of GenerateReturns: the asynchronous function also runs a loop   *)
(* for the output.                                                         *)
GenerateReturnsToLoop(r) ==
    /\ At(r, "quit")
    /\ Innermost(r)
    /\ text[r] # NoDocument
    /\ Go(r, "opening")
    /\ UNCHANGED <<configVars, api, text, seen, writeVars, caller, cancelled, failures,
                   stack, disk, crashed>>

(* The loop of the generation ends, and the file is opened; the synchronous*)
(* function then runs a loop until it is written.                          *)
GenerateReturns(r) ==
    /\ At(r, "quit")
    /\ Innermost(r)
    /\ text[r] # NoDocument
    /\ Go(r, "opening")
    /\ stack' = IF api[r] = "sync" THEN stack ELSE Popped
    /\ UNCHANGED <<configVars, api, text, seen, writeVars, caller, cancelled, failures,
                   disk, crashed>>

(* strlen of no script.                                                    *)
StrlenOfNull(r) ==
    /\ At(r, "quit")
    /\ Innermost(r)
    /\ text[r] = NoDocument
    /\ crashed' = TRUE
    /\ UNCHANGED <<configVars, api, step, text, seen, writeVars, caller, cancelled,
                   failures, stack, disk>>

-------------------------------------------------------------------------------
(* Writing                                                                 *)

AfterWrite(p) == IF p < Length THEN "writing" ELSE "closing"

(* osinfo_install_script_generate_output_write_file, after the open.       *)
Opened(r) ==
    /\ At(r, "opening")
    /\ ~cancelled[r]
    /\ Go(r, AfterWrite(pos[r]))
    /\ UNCHANGED <<configVars, api, text, seen, writeVars, caller, cancelled, failures, ioVars>>

(* Without a stream, the write or close is refused, and calls nothing back.*)
OpenFails(r) ==
    /\ At(r, "opening")
    /\ Fail(r)
    /\ Go(r, "lost")
    /\ UNCHANGED <<configVars, api, text, seen, writeVars, caller, cancelled, ioVars>>

Piece(p, n) == [i \in 1..n |-> p + i]

(* Mutant of Written: what was not written is forgotten.                   *)
WrittenOnce(r, n) ==
    /\ At(r, "writing")
    /\ ~cancelled[r]
    /\ content' = [content EXCEPT ![r] = @ \o Piece(pos[r], n)]
    /\ pos' = [pos EXCEPT ![r] = @ + n]
    /\ Go(r, "closing")
    /\ UNCHANGED <<configVars, api, text, seen, caller, cancelled, failures, ioVars>>

(* Some of what is left was written.                                       *)
Written(r, n) ==
    /\ At(r, "writing")
    /\ ~cancelled[r]
    /\ content' = [content EXCEPT ![r] = @ \o Piece(pos[r], n)]
    /\ pos' = [pos EXCEPT ![r] = @ + n]
    /\ Go(r, AfterWrite(pos[r] + n))
    /\ UNCHANGED <<configVars, api, text, seen, caller, cancelled, failures, ioVars>>

(* The -1 of a write that failed is added, and there is another write.     *)
WriteFails(r) ==
    /\ At(r, "writing")
    /\ failures[r] < MaxFailures
    /\ pos' = [pos EXCEPT ![r] = @ - 1]
    /\ Fail(r)
    /\ UNCHANGED <<configVars, api, step, text, seen, content, caller, cancelled, ioVars>>

(* osinfo_install_script_generate_output_close_file. The file is replaced  *)
(* when the stream is closed; the task has the file even if that failed.   *)
Closed(r) ==
    /\ At(r, "closing")
    /\ ~cancelled[r]
    /\ disk' = [by |-> r, written |-> content[r]]
    /\ Go(r, "ready")
    /\ UNCHANGED <<configVars, api, text, seen, writeVars, caller, cancelled, failures,
                   stack, crashed>>

CloseFails(r) ==
    /\ At(r, "closing")
    /\ Fail(r)
    /\ Go(r, "ready")
    /\ UNCHANGED <<configVars, api, text, seen, writeVars, caller, cancelled, ioVars>>

(* Mutant of Ready: the task was made without the cancellable.             *)
ReadyAnyway(r) ==
    /\ At(r, "ready")
    /\ caller' = [caller EXCEPT ![r] = "object"]
    /\ Go(r, IF api[r] = "sync" THEN "leaving" ELSE "none")
    /\ UNCHANGED <<configVars, api, text, seen, writeVars, cancelled, failures, ioVars>>

(* Mutant of Ready: the loop is not told to end.                           *)
ReadyWithoutQuitting(r) ==
    /\ At(r, "ready")
    /\ caller' = [caller EXCEPT ![r] = IF cancelled[r] THEN "error" ELSE "object"]
    /\ Go(r, "none")
    /\ UNCHANGED <<configVars, api, text, seen, writeVars, cancelled, failures, ioVars>>

(* The caller's callback, or that of the synchronous function.             *)
Ready(r) ==
    /\ At(r, "ready")
    /\ caller' = [caller EXCEPT ![r] = IF cancelled[r] THEN "error" ELSE "object"]
    /\ Go(r, IF api[r] = "sync" THEN "leaving" ELSE "none")
    /\ UNCHANGED <<configVars, api, text, seen, writeVars, cancelled, failures, ioVars>>

(* osinfo_install_script_generate_output returns.                          *)
SyncReturns(r) ==
    /\ At(r, "leaving")
    /\ Innermost(r)
    /\ Go(r, "none")
    /\ stack' = Popped
    /\ UNCHANGED <<configVars, api, text, seen, writeVars, caller, cancelled, failures,
                   disk, crashed>>

-------------------------------------------------------------------------------
Calls(r, j) == CallCrashes(r, j) \/ CallData(r, j) \/ CallUri(r, j)

(* A callback is dispatched by the innermost loop, or it returns.          *)
Dispatch(r) ==
    \/ TemplateLoaded(r) \/ TemplateFails(r) \/ GenerateDone(r)
    \/ Opened(r) \/ OpenFails(r)
    \/ (\E n \in 1..Length - pos[r] : Written(r, n)) \/ WriteFails(r)
    \/ Closed(r) \/ CloseFails(r) \/ Ready(r)

LoopReturns(r) == GenerateReturns(r) \/ StrlenOfNull(r) \/ SyncReturns(r)

Configure ==
    \/ \E k \in Keys : ClearParam(k) \/ \E v \in Values : SetParam(k, v) \/ AddParam(k, v)
    \/ \E in, out \in Values : Insert(in, out)

Next ==
    \/ Configure
    \/ \E r \in Requests : (\E j \in Offered : Calls(r, j)) \/ Cancel(r)
                           \/ Dispatch(r) \/ LoopReturns(r)

Spec == Init /\ [][Next]_vars

(* Each operation that GIO has accepted ends, the loops dispatch what has  *)
(* ended, and the application runs one when no loop of the library runs.   *)
FairSpec == Spec /\ \A r \in Requests : WF_vars(Dispatch(r)) /\ WF_vars(LoopReturns(r))

-------------------------------------------------------------------------------
(* Properties                                                              *)

InLoop(r) == \/ step[r] \in {"template", "generated", "quit"}
             \/ /\ api[r] = "sync"
                /\ step[r] \in {"opening", "lost", "writing", "closing", "ready", "leaving"}

Steps == {"idle", "template", "generated", "quit", "opening", "lost", "writing",
          "closing", "ready", "leaving", "none"}

(* The loops that run are those of the requests that are to return, each   *)
(* once.                                                                   *)
StackOK ==
    /\ {stack[i] : i \in 1..Len(stack)} = {r \in Requests : InLoop(r)}
    /\ \A i, j \in 1..Len(stack) : stack[i] = stack[j] => i = j

TypeOK ==
    /\ params \in Documents
    /\ map \in [Values -> Values \cup {None}]
    /\ reverse \in [Values -> Values \cup {None}]
    /\ stale \subseteq Values
    /\ changes \in 0..MaxChanges
    /\ api \in [Requests -> {"sync", "async"}]
    /\ step \in [Requests -> Steps]
    /\ text \in [Requests -> Documents \cup {NoDocument}]
    /\ seen \in [Requests -> SUBSET Documents]
    /\ pos \in [Requests -> Int]
    /\ content \in [Requests -> Seq(Int)]
    /\ caller \in [Requests -> {"idle", "waiting", "object", "error"}]
    /\ cancelled \in [Requests -> BOOLEAN]
    /\ failures \in [Requests -> Nat]
    /\ stack \in Seq(Requests)
    /\ disk \in [by : Requests \cup {None}, written : Seq(Int)]
    /\ crashed \in BOOLEAN
    /\ StackOK

Whole == [i \in 1..Length |-> i]

(* Whatever pieces the writes accept, and whatever other requests do       *)
(* meanwhile to the same file, a caller who has a file for a request of    *)
(* which no operation failed finds a whole script in it, its own or that   *)
(* of a later request, unless of that one an operation failed; and its own *)
(* is of the configuration as it was at one time since the call.           *)
WrittenWhole ==
    /\ \A r \in Requests : caller[r] = "object" /\ failures[r] = 0 =>
          content[r] = Whole /\ text[r] \in seen[r] /\ disk.by # None
    /\ disk.by # None /\ failures[disk.by] = 0 => disk.written = Whole

(* To its caller each request is one asynchronous request: answered once,  *)
(* and with an error when it was cancelled first, whatever the others do.  *)
Abstract == INSTANCE AsyncRequests
RequestImplemented == Abstract!Spec

(* A request of which no operation fails is answered, and its call returns,*)
(* although its loop cannot end before those started inside it: only a     *)
(* failed synchronous request keeps the others from returning.             *)
NestedReturn ==
    \A r \in Requests :
       caller[r] = "waiting" ~>
          \/ step[r] = "none"
          \/ crashed
          \/ failures[r] > 0
          \/ \E q \in Requests : failures[q] > 0 /\ api[q] = "sync"

(* The reverse of a datamap is one, for all strings that no second entry   *)
(* for the same value has freed.                                           *)
DatamapsInverse ==
    \A v \in Values : reverse[v] # None /\ v \notin stale => map[reverse[v]] = v
-------------------------------------------------------------------------------
(* What the documentation says and the code does not do                    *)

===============================================================================
