------------------------------ MODULE MediaCreate ------------------------------
(***************************************************************************)
(* osinfo_media_create_from_location_with_flags_async (osinfo_media.c):    *)
(* identifying an ISO image by reading its volume descriptors.             *)
(*                                                                         *)
(* The operation is a chain of callbacks run by the main loop, each at the *)
(* end of one asynchronous I/O operation:                                  *)
(*   location_read     the stream is open: skip to the descriptors         *)
(*   location_skipped  read the primary volume descriptor                  *)
(*   pvd_read          read the supplementary one                          *)
(*   svd_read          bootable, or search for /ppc/bootinfo.txt           *)
(*   extent_read       a directory of that path has been read              *)
(*   bootinfo          the search, a task within the task, has ended       *)
(*   ready             the caller's callback                               *)
(* `step` is the callback the pending operation will call. A read may      *)
(* return less than was asked for, so three of them may repeat. The caller *)
(* may cancel between any two.                                             *)
(*                                                                         *)
(* The bytes of a stream are their positions in it; what the descriptors   *)
(* say is given with the image.                                            *)
(***************************************************************************)
EXTENDS Integers, Sequences

CONSTANTS
    PvdOffset,  \* PVD_OFFSET, where the descriptors begin
    PvdLen,     \* the size of a PrimaryVolumeDescriptor
    SvdLen,     \* the size of a SupplementaryVolumeDescriptor
    Jobs        \* the requests an application makes

(* A directory on the way to the boot information: its extent, and whether *)
(* the next component of the path is in it.                                *)
Extent == [at : Nat, len : Nat, found : BOOLEAN]

PathLen == 2    \* directories searched for /ppc/bootinfo.txt

(* A request: the location, the stream it opens as, its number of bytes,   *)
(* whether the primary descriptor names the volume and the supplementary   *)
(* one has BOOTABLE_TAG, and whether the caller set                        *)
(* OSINFO_MEDIA_DETECT_REQUIRE_BOOTABLE.                                   *)
Job == [http : BOOLEAN, seekable : BOOLEAN, size : Nat, named : BOOLEAN,
        tagged : BOOLEAN, dirs : [1..PathLen -> Extent], required : BOOLEAN]

ASSUME LengthsAssumption == /\ PvdOffset \in Nat
                            /\ PvdLen \in Nat \ {0}
                            /\ SvdLen \in Nat \ {0}
ASSUME JobsAssumption == Jobs \subseteq Job

Errors == {"io", "no_descriptors", "no_pvd", "insufficient", "no_svd",
           "no_extent", "not_bootable"}

VARIABLES
    job,       \* the request
    step,      \* the callback the pending operation will call
    pos,       \* the position of the stream
    at,        \* where in the struct the pending read stores its bytes
    count,     \* how many it asks for
    offset,    \* data->offset
    length,    \* data->length
    buf,       \* the bytes in the struct being read
    index,     \* filepath_index: the directory being searched
    inner,     \* how the search ended
    bootable,  \* data->bootable
    stream,    \* the reference to the stream
    data,      \* the CreateFromLocationAsyncData
    media,     \* who owns the OsinfoMedia made
    answer,    \* what was returned to the task
    caller,    \* what the caller has
    cancelled  \* the caller's GCancellable

readVars == <<pos, at, count, offset, length, buf>>
ownVars == <<stream, data, media, answer>>
vars == <<job, step, readVars, index, inner, bootable, ownVars, caller, cancelled>>

-------------------------------------------------------------------------------
Init ==
    /\ job \in Jobs
    /\ step = "idle"
    /\ pos = 0
    /\ at = 0
    /\ count = 0
    /\ offset = 0
    /\ length = 0
    /\ buf = <<>>
    /\ index = 1
    /\ inner = "none"
    /\ bootable = FALSE
    /\ stream = "none"
    /\ data = "none"
    /\ media = "none"
    /\ answer = "none"
    /\ caller = "idle"
    /\ cancelled = FALSE

(* osinfo_media_create_from_location_with_flags_async.                     *)
CreateFromLocation ==
    /\ step = "idle"
    /\ caller' = "waiting"
    /\ data' = "alive"
    /\ step' = "location_read"
    /\ UNCHANGED <<job, readVars, index, inner, bootable, stream, media, answer,
                   cancelled>>

(* The application, perhaps from another thread, cancels.                  *)
Cancel ==
    /\ ~cancelled
    /\ cancelled' = TRUE
    /\ UNCHANGED <<job, step, readVars, index, inner, bootable, ownVars, caller>>

-------------------------------------------------------------------------------
(* How a callback ends                                                     *)

(* Mutant of ReturnError: the task is dropped without being answered.      *)
FreeData(e) ==
    /\ data' = "freed"
    /\ step' = "none"
    /\ UNCHANGED <<answer, media>>

(* g_task_return_error, and create_from_location_async_data_free.          *)
ReturnError(e) ==
    /\ answer' = e
    /\ data' = "freed"
    /\ step' = "ready"
    /\ UNCHANGED media

(* create_from_location_async_data makes an OsinfoMedia, which is given to *)
(* the task with g_task_return_pointer.                                    *)
ReturnMedia ==
    /\ media' = "task"
    /\ answer' = "media"
    /\ data' = "freed"
    /\ step' = "ready"

(* What a read may return: no bytes at the end of the stream, otherwise    *)
(* any number up to count.                                                 *)
Available == IF pos < job.size THEN job.size - pos ELSE 0
AtEnd == Available = 0
Bytes == IF AtEnd THEN {} ELSE {n \in 1..count : n \leq Available}

(* n bytes have been stored in the struct.                                 *)
Store(n) ==
    /\ buf' = SubSeq(buf, 1, at) \o [i \in 1..n |-> pos + i - 1]
    /\ pos' = pos + n

Fills(n) == offset + n \geq length

(* Mutant of ReadOn: the rest is asked for at its full length.             *)
ReadOnTooMuch(n) ==
    /\ ~Fills(n)
    /\ offset' = offset + n
    /\ at' = offset + n
    /\ count' = length
    /\ UNCHANGED <<length, step>>

(* Mutant of ReadOn: what was read is subtracted twice.                    *)
ReadOnTwice(n) ==
    /\ ~Fills(n)
    /\ offset' = offset + n
    /\ at' = offset + n
    /\ count' = length - (offset + n) - n
    /\ UNCHANGED <<length, step>>

(* The struct is not full: the rest is asked for.                          *)
ReadOn(n) ==
    /\ ~Fills(n)
    /\ offset' = offset + n
    /\ at' = offset + n
    /\ count' = length - (offset + n)
    /\ UNCHANGED <<length, step>>

(* Mutant of StartRead: data->offset keeps its value.                      *)
StartReadFromOffset(callback, len) ==
    /\ offset' = offset
    /\ length' = len
    /\ at' = 0
    /\ count' = len
    /\ step' = callback

(* A struct of len bytes is asked for.                                     *)
StartRead(callback, len) ==
    /\ offset' = 0
    /\ length' = len
    /\ at' = 0
    /\ count' = len
    /\ step' = callback

(* A directory is asked for. For one of no bytes there is no memory to     *)
(* read into (g_malloc0(0) is NULL): g_input_stream_read_async refuses it, *)
(* and no callback is left to run.                                         *)
StartExtent(dir) == StartRead(IF dir.len = 0 THEN "none" ELSE "extent_read", dir.len)

(* The last struct is full, and nothing more is asked for.                 *)
StopReading(n) == offset' = offset + n /\ UNCHANGED <<at, count, length>>

-------------------------------------------------------------------------------
(* The callbacks                                                           *)

(* on_location_read, when the file or the HTTP response is open.           *)
LocationRead ==
    /\ step = "location_read"
    /\ stream' = "held"
    /\ step' = "location_skipped"
    /\ UNCHANGED <<job, readVars, index, inner, bootable, data, media, answer,
                   caller, cancelled>>

(* Mutant of LocationReadFails: the chain goes on after the error.         *)
LocationReadGoesOn ==
    /\ step = "location_read"
    /\ job.http
    /\ answer' = "no_descriptors"
    /\ stream' = "held"
    /\ step' = "location_skipped"
    /\ UNCHANGED <<job, readVars, index, inner, bootable, data, media, caller,
                   cancelled>>

(* It cannot be opened; or the response has a status that is no success,   *)
(* and its body, a stream too, is dropped.                                 *)
LocationReadFails ==
    /\ step = "location_read"
    /\ \/ ReturnError("io") /\ UNCHANGED stream
       \/ job.http /\ ReturnError("no_descriptors") /\ stream' = "held"
    /\ UNCHANGED <<job, readVars, index, inner, bootable, caller, cancelled>>

(* on_location_skipped.                                                    *)
LocationSkipped ==
    /\ step = "location_skipped"
    /\ job.size \geq PvdOffset
    /\ pos' = PvdOffset
    /\ StartRead("pvd_read", PvdLen)
    /\ UNCHANGED <<job, buf, index, inner, bootable, ownVars, caller, cancelled>>

(* The skip fails, or skips fewer bytes.                                   *)
LocationSkippedFails ==
    /\ step = "location_skipped"
    /\ stream' = "released"
    /\ \/ ReturnError("io")
       \/ PvdOffset > 0 /\ ReturnError("no_descriptors")
    /\ UNCHANGED <<job, readVars, index, inner, bootable, caller, cancelled>>

(* A callback of a read releases the stream and returns an error.          *)
ReadFails(callback, truncated) ==
    /\ step = callback
    /\ stream' = "released"
    /\ ReturnError("io") \/ (AtEnd /\ ReturnError(truncated))
    /\ UNCHANGED <<job, readVars, index, inner, bootable, caller, cancelled>>

ReadContinues(callback) ==
    /\ step = callback
    /\ \E n \in Bytes : Store(n) /\ ReadOn(n)
    /\ UNCHANGED <<job, index, inner, bootable, ownVars, caller, cancelled>>

(* on_pvd_read, of a volume without a name.                                *)
PvdInsufficient ==
    /\ step = "pvd_read"
    /\ \E n \in Bytes : Fills(n) /\ Store(n) /\ StopReading(n)
    /\ ~job.named
    /\ stream' = "released"
    /\ ReturnError("insufficient")
    /\ UNCHANGED <<job, index, inner, bootable, caller, cancelled>>

PvdRead ==
    /\ step = "pvd_read"
    /\ \E n \in Bytes : Fills(n) /\ Store(n)
    /\ job.named
    /\ StartRead("svd_read", SvdLen)
    /\ UNCHANGED <<job, index, inner, bootable, ownVars, caller, cancelled>>

(* on_svd_read, of a volume with BOOTABLE_TAG.                             *)
SvdBootable ==
    /\ step = "svd_read"
    /\ \E n \in Bytes : Fills(n) /\ Store(n) /\ StopReading(n)
    /\ job.tagged
    /\ bootable' = TRUE
    /\ stream' = "released"
    /\ ReturnMedia
    /\ UNCHANGED <<job, index, inner, caller, cancelled>>

(* Otherwise search_ppc_bootinfo_async: the root directory is sought,      *)
SvdSearch ==
    /\ step = "svd_read"
    /\ ~job.tagged
    /\ job.seekable
    /\ \E n \in Bytes :
          Fills(n) /\ buf' = SubSeq(buf, 1, at) \o [i \in 1..n |-> pos + i - 1]
    /\ pos' = job.dirs[1].at
    /\ StartExtent(job.dirs[1])
    /\ index' = 1
    /\ UNCHANGED <<job, inner, bootable, ownVars, caller, cancelled>>

(* which may fail,                                                         *)
SvdSeekFails ==
    /\ step = "svd_read"
    /\ ~job.tagged
    /\ job.seekable
    /\ \E n \in Bytes : Fills(n) /\ Store(n) /\ StopReading(n)
    /\ inner' = "io"
    /\ step' = "bootinfo"
    /\ UNCHANGED <<job, index, bootable, ownVars, caller, cancelled>>

(* or the stream cannot seek. Then the error is NULL, g_task_return_error  *)
(* refuses it, and no callback is left to run.                             *)
SvdUnseekable ==
    /\ step = "svd_read"
    /\ ~job.tagged
    /\ ~job.seekable
    /\ \E n \in Bytes : Fills(n) /\ Store(n) /\ StopReading(n)
    /\ step' = "none"
    /\ UNCHANGED <<job, index, inner, bootable, ownVars, caller, cancelled>>

(* on_directory_record_extent_read ends the search with a result r.        *)
SearchEnds(r) ==
    /\ inner' = r
    /\ step' = "bootinfo"
    /\ UNCHANGED <<job, bootable, ownVars, caller, cancelled>>

ExtentFails ==
    /\ step = "extent_read"
    /\ SearchEnds("io") \/ (AtEnd /\ SearchEnds("no_extent"))
    /\ UNCHANGED <<readVars, index>>

(* The directory is complete, and the component is not in it,              *)
ExtentWithout ==
    /\ step = "extent_read"
    /\ \E n \in Bytes : Fills(n) /\ Store(n) /\ StopReading(n)
    /\ ~job.dirs[index].found
    /\ SearchEnds("not_bootable")
    /\ UNCHANGED index

(* or it is and was the last one,                                          *)
ExtentLast ==
    /\ step = "extent_read"
    /\ \E n \in Bytes : Fills(n) /\ Store(n) /\ StopReading(n)
    /\ job.dirs[index].found
    /\ index = PathLen
    /\ SearchEnds("found")
    /\ index' = index + 1

(* or its own directory is sought,                                         *)
ExtentNext ==
    /\ step = "extent_read"
    /\ index < PathLen
    /\ job.dirs[index].found
    /\ \E n \in Bytes :
          Fills(n) /\ buf' = SubSeq(buf, 1, at) \o [i \in 1..n |-> pos + i - 1]
    /\ index' = index + 1
    /\ pos' = job.dirs[index + 1].at
    /\ StartExtent(job.dirs[index + 1])
    /\ UNCHANGED <<job, inner, bootable, ownVars, caller, cancelled>>

(* which may fail.                                                         *)
ExtentSeekFails ==
    /\ step = "extent_read"
    /\ index < PathLen
    /\ job.dirs[index].found
    /\ \E n \in Bytes : Fills(n) /\ Store(n) /\ StopReading(n)
    /\ index' = index + 1
    /\ SearchEnds("io")

(* g_task_propagate_boolean: a cancelled task has an error, whatever was   *)
(* returned to it.                                                         *)
SearchResult == IF cancelled THEN "io" ELSE inner

(* Mutant of BootinfoAccepted: data->bootable stays TRUE.                  *)
BootinfoAcceptedAsBootable ==
    /\ step = "bootinfo"
    /\ SearchResult = "found" \/ (SearchResult = "not_bootable" /\ ~job.required)
    /\ bootable' = TRUE
    /\ ReturnMedia
    /\ stream' = "released"
    /\ UNCHANGED <<job, readVars, index, inner, caller, cancelled>>

(* search_ppc_bootinfo_callback: the image is bootable, or need not be,    *)
BootinfoAccepted ==
    /\ step = "bootinfo"
    /\ \/ SearchResult = "found" /\ bootable' = TRUE
       \/ SearchResult = "not_bootable" /\ ~job.required /\ bootable' = FALSE
    /\ ReturnMedia
    /\ stream' = "released"
    /\ UNCHANGED <<job, readVars, index, inner, caller, cancelled>>

(* or it must be and is not,                                               *)
BootinfoMissing ==
    /\ step = "bootinfo"
    /\ SearchResult = "not_bootable" /\ job.required
    /\ bootable' = TRUE
    /\ ReturnError("not_bootable")
    /\ stream' = "released"
    /\ UNCHANGED <<job, readVars, index, inner, caller, cancelled>>

(* or the search failed: a media is made that nobody is given.             *)
BootinfoFails ==
    /\ step = "bootinfo"
    /\ SearchResult \in {"io", "no_extent"}
    /\ bootable' = TRUE
    /\ media' = "nobody"
    /\ answer' = SearchResult
    /\ data' = "freed"
    /\ step' = "ready"
    /\ stream' = "released"
    /\ UNCHANGED <<job, readVars, index, inner, caller, cancelled>>

(* Mutant of Ready: the task was made without the caller's cancellable.    *)
ReadyAnyway ==
    /\ step = "ready"
    /\ step' = "none"
    /\ caller' = IF answer = "media" THEN "object" ELSE "error"
    /\ media' = IF answer = "media" THEN "caller" ELSE media
    /\ UNCHANGED <<job, readVars, index, inner, bootable, stream, data, answer,
                   cancelled>>

(* The caller's callback, and osinfo_media_create_from_location_with_flags *)
(* _finish in it or after it. If the request was cancelled the task keeps  *)
(* its media and releases it in the end.                                   *)
Ready ==
    /\ step = "ready"
    /\ step' = "none"
    /\ IF answer = "media" /\ ~cancelled
       THEN caller' = "object" /\ media' = "caller"
       ELSE /\ caller' = "error"
            /\ media' = IF media = "task" THEN "freed" ELSE media
    /\ UNCHANGED <<job, readVars, index, inner, bootable, stream, data, answer,
                   cancelled>>

-------------------------------------------------------------------------------
OpenAndSkip == \/ LocationRead \/ LocationReadFails
               \/ LocationSkipped \/ LocationSkippedFails

ReadPvd == \/ ReadFails("pvd_read", "no_pvd") \/ ReadContinues("pvd_read")
           \/ PvdInsufficient \/ PvdRead

ReadSvd == \/ ReadFails("svd_read", "no_svd") \/ ReadContinues("svd_read")
           \/ SvdBootable \/ SvdSearch \/ SvdSeekFails \/ SvdUnseekable

SearchBootinfo == \/ ReadContinues("extent_read")
                  \/ ExtentFails \/ ExtentWithout \/ ExtentLast
                  \/ ExtentNext \/ ExtentSeekFails
                  \/ BootinfoAccepted \/ BootinfoMissing \/ BootinfoFails

(* The main loop dispatches the pending operation's callback.              *)
Dispatch == OpenAndSkip \/ ReadPvd \/ ReadSvd \/ SearchBootinfo \/ Ready

Next == CreateFromLocation \/ Cancel \/ Dispatch

Spec == Init /\ [][Next]_vars

(* Every operation that GIO or libsoup has accepted ends, and the caller   *)
(* runs the main loop.                                                     *)
FairSpec == Spec /\ WF_vars(Dispatch)

-------------------------------------------------------------------------------
(* Properties                                                              *)

Reads == {"pvd_read", "svd_read", "extent_read"}
Callbacks == {"location_read", "location_skipped", "bootinfo"} \cup Reads

TypeOK ==
    /\ job \in Jobs
    /\ step \in {"idle", "ready", "none"} \cup Callbacks
    /\ pos \in Nat
    /\ at \in Nat
    /\ count \in Nat
    /\ offset \in Nat
    /\ length \in Nat
    /\ buf \in Seq(Nat)
    /\ index \in 1..PathLen + 1
    /\ inner \in {"none", "found"} \cup Errors
    /\ bootable \in BOOLEAN
    /\ stream \in {"none", "held", "released"}
    /\ data \in {"none", "alive", "freed"}
    /\ media \in {"none", "task", "nobody", "caller", "freed"}
    /\ answer \in {"none", "media"} \cup Errors
    /\ caller \in {"idle", "waiting", "object", "error"}
    /\ cancelled \in BOOLEAN

(* However the bytes arrive, a read asks for what is missing of its struct *)
(* and no more, never for nothing (0 bytes would look like the end of the  *)
(* stream), and what is in the struct so far is one run of bytes.          *)
ReadsInBounds ==
    step \in Reads =>
        /\ at = offset
        /\ at + count = length
        /\ count > 0
        /\ offset > 0 => /\ Len(buf) = offset
                         /\ \A i \in 1..offset : buf[i] = pos - offset + i - 1

Span(first, len) == [i \in 1..len |-> first + i - 1]

(* A descriptor or a directory is looked at only when all of it has been   *)
(* read, from its own place.                                               *)
WholeStructs ==
    [][/\ step = "pvd_read" /\ (step' = "svd_read" \/ answer' = "insufficient")
             => buf' = Span(PvdOffset, PvdLen)
       /\ step = "svd_read" /\ (step' = "extent_read" \/ answer' = "media")
             => buf' = Span(PvdOffset + PvdLen, SvdLen)
       /\ step = "extent_read" /\ (index' # index \/ inner' = "not_bootable")
             => buf' = Span(job.dirs[index].at, job.dirs[index].len)
      ]_vars

(* While a callback is to come the data it uses is alive, the stream it    *)
(* reads is held and nothing has been answered; once answered the data is  *)
(* gone. So no callback answers twice or uses what an earlier one freed.   *)
AnsweredOnce ==
    /\ step \in Callbacks =>
          /\ data = "alive"
          /\ answer = "none"
          /\ media = "none"
          /\ caller = "waiting"
          /\ stream = IF step = "location_read" THEN "none" ELSE "held"
    /\ step = "ready" <=> answer # "none" /\ caller = "waiting"
    /\ answer # "none" => data = "freed"

BootinfoFound == \A i \in 1..PathLen : job.dirs[i].found

(* The answer is what the image calls for: a media only for one with a     *)
(* name and complete descriptors, with the right bootable flag, and each   *)
(* error only for an image that has that fault.                            *)
AnswerJustified ==
    /\ answer = "media" =>
          /\ job.size \geq PvdOffset + PvdLen + SvdLen
          /\ job.named
          /\ bootable = (job.tagged \/ BootinfoFound)
          /\ job.required => bootable
    /\ answer = "not_bootable" => job.required /\ ~job.tagged /\ ~BootinfoFound
    /\ answer = "no_pvd" => job.size < PvdOffset + PvdLen
    /\ answer = "insufficient" => ~job.named
    /\ answer = "no_svd" => job.size < PvdOffset + PvdLen + SvdLen
    /\ answer = "no_extent" =>
          /\ ~job.tagged
          /\ \E i \in 1..PathLen : job.size < job.dirs[i].at + job.dirs[i].len

(* To its caller the chain of callbacks is one asynchronous request.       *)
Request == INSTANCE AsyncRequest
RequestImplemented == Request!Spec

(* The search for the boot information can be made, when there is one: the *)
(* stream can seek, and no directory it comes to is empty.                 *)
SearchPossible ==
    \/ job.tagged
    \/ /\ job.seekable
       /\ \A i \in 1..PathLen :
             (\A k \in 1..i - 1 : job.dirs[k].found) => job.dirs[i].len > 0

(* The caller is answered, unless the search for the boot information      *)
(* finds that the stream cannot seek or comes to an empty directory.       *)
AnsweredWhenSearchable ==
    (caller = "waiting" /\ SearchPossible) ~> (caller \in {"object", "error"})

-------------------------------------------------------------------------------
(* What the documentation says and the code does not do                    *)

(* osinfo_media_create_from_location_with_flags: "Loop till we get a reply *)
(* (or time out)". So the loop, once entered, ends.                        *)
AlwaysAnswered == caller = "waiting" ~> caller \in {"object", "error"}
===============================================================================
