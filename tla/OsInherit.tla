------------------------------- MODULE OsInherit -------------------------------
(***************************************************************************)
(* What an OS inherits from the OSes it derives from or clones             *)
(* (osinfo_os.c), by osinfo_product_foreach_related (osinfo_product.c),    *)
(* and how the loader gives an OS its relations, devices, firmwares and    *)
(* resources (osinfo_loader.c).                                            *)
(*                                                                         *)
(* foreach_related calls a callback for a product and then itself for each *)
(* related one, without a note of where it has been: a product may be      *)
(* visited once for each way that leads to it, and of a cycle the          *)
(* recursion has no end but that of the C stack. A step is one visit.      *)
(*                                                                         *)
(* The getters of resources fill the fields an OsinfoResources inherits in *)
(* the object itself, which the OS and the lists of all callers share.     *)
(***************************************************************************)
EXTENDS Integers, Sequences, FiniteSets, SequencesExt, Selections

CONSTANTS
    Oses,
    Files,     \* files of the database, each describing an OS or a part of one
    File,      \* what each says
    Filters,   \* filters an application may use, as the entities they match
    MaxDepth,  \* the calls of foreach_related the C stack has room for
    None

Relations == {"derives-from", "upgrades", "clones"}
Kinds == {"minimum", "recommended", "maximum", "network-install"}
Fields == {"n-cpus", "cpu", "ram", "storage"}

(* The elements of a file in their order, as the loader reads them. An     *)
(* attribute that is not given is None, and a field -1. A link has the id  *)
(* of its device; a firmware or resources one made of the OS, of the name  *)
(* of the file and of a number.                                            *)
Attribute == STRING \cup {None}
Relation == [rel : Relations, os : Oses]
Link == [id : STRING, supported : Attribute]
Firmware == [id : STRING, arch : STRING, type : STRING, supported : Attribute]
Resources == [id : STRING, kind : Kinds, arch : STRING, inherit : BOOLEAN,
              fields : [Fields -> Int]]

FileRecord == [os : Oses, relations : Seq(Relation), username : Attribute,
               links : Seq(Link), firmwares : Seq(Firmware),
               resources : Seq(Resources)]

(* What osinfo_resources holds: its id, what the file said and what its    *)
(* fields are now.                                                         *)
Held == [id : Kinds \X STRING, of : Resources, now : [Fields -> Int]]

ASSUME FileAssumption == File \in [Files -> FileRecord]
ASSUME DepthAssumption ==
    IsFiniteSet(Oses) /\ MaxDepth \in Nat /\ MaxDepth >= Cardinality(Oses)

(* osinfo_build_internal_id starts the id of a firmware with its OS's.     *)
ASSUME FirmwareAssumption ==
    \A f, g \in Files : File[f].os # File[g].os =>
        \A x \in ToSet(File[f].firmwares), y \in ToSet(File[g].firmwares) : x.id # y.id

(* A device and a link to it have only the id in common, so a filter that  *)
(* matches both asks for no more, and matches every link to that device.   *)
ASSUME FiltersAssumption ==
    LET Links == UNION {ToSet(File[f].links) : f \in Files}
    IN  \A filter \in Filters : \A l, m \in Links :
           {l, [id |-> l.id]} \subseteq filter /\ m.id = l.id => m \in filter

VARIABLES
    related,    \* productLinks of each OS
    username,   \* its cloud-image-username
    links,      \* its deviceLinks
    firmwares,  \* its firmwares
    resources,  \* its resources, the four lists as one
    unread,     \* the files the loader has not read
    call,       \* the getter that runs: its name, OS, kind and filter
    stack,      \* for each foreach_related that runs, the related_list left
    list,       \* the list it collects
    other,      \* unsupported firmwares; device links, in the second walk
    crashed,
    answer,     \* the last answer, until more is loaded
    asked       \* whether resources were asked for, and more loaded then (history)

osVars == <<related, username, links, firmwares, unread>>
vars == <<osVars, resources, call, stack, list, other, crashed, answer, asked>>

Getters == {"devices", "links", "firmwares", "complete", "username", "resources"}
Call == [get : Getters, os : Oses, kind : Kinds \cup {None},
         filter : Filters \cup {None}, walk : {1, 2}]

NoCall == [get |-> "nothing"]
NoAnswer == [get |-> "nothing"]

Init ==
    /\ related = [os \in Oses |-> <<>>]
    /\ username = [os \in Oses |-> None]
    /\ links = [os \in Oses |-> <<>>]
    /\ firmwares = [os \in Oses |-> <<>>]
    /\ resources = [os \in Oses |-> <<>>]
    /\ unread = Files
    /\ call = NoCall
    /\ stack = <<>>
    /\ list = <<>>
    /\ other = <<>>
    /\ crashed = FALSE
    /\ answer = NoAnswer
    /\ asked = "not"

-------------------------------------------------------------------------------
(* Lists                                                                   *)

(* osinfo_list_add: e is last, in place of one of its id.                  *)
Add(s, e) == Append(Select(s, LAMBDA x : x.id # e.id), e)

AddEach(s, t) == FoldLeft(Add, s, t)

(* osinfo_list_new_union: of an id, that of s.                             *)
Union(s, t) == s \o Select(t, LAMBDA x : \A i \in 1..Len(s) : s[i].id # x.id)

-------------------------------------------------------------------------------
(* Loading                                                                 *)

(* osinfo_product_add_related puts a relation first.                       *)
AddRelated(s, t) == Reverse(t) \o s

(* An OsinfoResources as the loader makes it.                              *)
NewResources(r) == [id |-> <<r.kind, r.id>>, of |-> r, now |-> r.fields]

(* osinfo_loader_resources: nothing is made of an element that is empty,   *)
(* unless it says that it inherits.                                        *)
Made(r) == r.inherit \/ \E f \in Fields : r.fields[f] # -1

ResourcesIn(f) ==
    LET made == Select(f.resources, Made)
    IN  [i \in 1..Len(made) |-> NewResources(made[i])]

Idle == call = NoCall /\ ~crashed

(* osinfo_loader_os. The OSes it is related to may be loaded later.        *)
LoadOs(file) ==
    LET f == File[file]
    IN  /\ Idle
        /\ file \in unread
        /\ unread' = unread \ {file}
        /\ related' = [related EXCEPT ![f.os] = AddRelated(@, f.relations)]
        /\ username' = [username EXCEPT ![f.os] = IF f.username = None THEN @ ELSE f.username]
        /\ links' = [links EXCEPT ![f.os] = @ \o f.links]
        /\ firmwares' = [firmwares EXCEPT ![f.os] = AddEach(@, f.firmwares)]
        /\ resources' = [resources EXCEPT ![f.os] = AddEach(@, ResourcesIn(f))]
        /\ asked' = IF asked = "not" THEN "not" ELSE "loaded then"
        /\ answer' = NoAnswer
        /\ UNCHANGED <<call, stack, list, other, crashed>>

-------------------------------------------------------------------------------
(* osinfo_product_foreach_related                                          *)
(* osinfo_product_get_related.                                             *)
GetRelated(os, rel) ==
    LET of == Select(related[os], LAMBDA x : x.rel = rel)
    IN  AddEach(<<>>, [i \in 1..Len(of) |-> [id |-> of[i].os]])

(* The related OSes in the order in which they are visited. The getters of *)
(* an OS never follow an upgrade.                                          *)
RelatedList(os) ==
    LET both == Union(GetRelated(os, "derives-from"), GetRelated(os, "clones"))
    IN  [i \in 1..Len(both) |-> both[i].id]

-------------------------------------------------------------------------------
(* Callbacks                                                               *)

Matches(x) == call.filter = None \/ x \in call.filter

(* A link or a firmware says whether it is supported: a link is unless it  *)
(* says "false", a firmware if it says nothing or "true".                  *)
LinkSupported(l) == l.supported # "false"
FirmwareSupported(f) == f.supported \in {None, "true"}

Device(l) == [id |-> l.id]

(* Mutant of DevicesOf: the links are listed, and not what they lead to.   *)
DevicesOfAsLinks(os) == AddEach(<<>>, Select(links[os], LAMBDA l : Matches(Device(l))))

(* osinfo_os_get_devices_internal and osinfo_os_get_device_links_internal, *)
(* with the unsupported ones.                                              *)
DevicesOf(os) ==
    LET of == Select(links[os], LAMBDA l : Matches(Device(l)))
    IN  AddEach(<<>>, [i \in 1..Len(of) |-> Device(of[i])])

LinksOf(os) == AddEach(<<>>, Select(links[os], Matches))

GetAllDevices(os) ==
    /\ call.get = "devices"
    /\ IF call.walk = 1
       THEN list' = Union(list, DevicesOf(os)) /\ UNCHANGED other
       ELSE other' = Union(other, LinksOf(os)) /\ UNCHANGED list
    /\ UNCHANGED resources

(* Mutant of GetAllDeviceLinks: the link of the last OS visited is kept.   *)
GetAllDeviceLinksLast(os) ==
    /\ call.get = "links"
    /\ list' = Union(LinksOf(os), list)
    /\ UNCHANGED <<other, resources>>

GetAllDeviceLinks(os) ==
    /\ call.get = "links"
    /\ list' = Union(list, LinksOf(os))
    /\ UNCHANGED <<other, resources>>

Alike(f, g) == f.arch = g.arch /\ f.type = g.type
Lacks(s, f) == \A i \in 1..Len(s) : ~Alike(s[i], f)

UnsupportedOf(os) == Select(firmwares[os], LAMBDA f : ~FirmwareSupported(f))

(* The firmwares of an OS that hidden has none like.                       *)
FirmwaresOf(os, hidden) ==
    Select(firmwares[os], LAMBDA f : Matches(f) /\ Lacks(hidden, f))

(* Mutant of GetAllSupportedFirmwares: what an earlier OS does not support *)
(* is forgotten.                                                           *)
GetAllSupportedFirmwaresOfOne(os) ==
    /\ call.get = "firmwares"
    /\ other' = UnsupportedOf(os)
    /\ list' = AddEach(list, FirmwaresOf(os, UnsupportedOf(os)))
    /\ UNCHANGED resources

(* The unsupported firmwares of an OS hide those like them of the OS, and  *)
(* of all that are visited later.                                          *)
GetAllSupportedFirmwares(os) ==
    LET unsupported == Union(UnsupportedOf(os), other)
    IN  /\ call.get = "firmwares"
        /\ other' = unsupported
        /\ list' = AddEach(list, FirmwaresOf(os, unsupported))
        /\ UNCHANGED resources

(* A firmware is listed unless an OS visited earlier had one like it.      *)
GetAllFirmwares(os) ==
    /\ call.get = "complete"
    /\ list' = AddEach(list, FirmwaresOf(os, list))
    /\ UNCHANGED <<other, resources>>

(* So is the kernel URL argument found.                                    *)
GetCloudImageUsername(os) ==
    /\ call.get = "username"
    /\ list' = IF list = <<>> /\ username[os] # None THEN <<username[os]>> ELSE list
    /\ UNCHANGED <<other, resources>>

-------------------------------------------------------------------------------
(* Resources                                                               *)

SameArch(os, r) ==
    Select(resources[os], LAMBDA x : x.of.kind = r.of.kind /\ x.of.arch = r.of.arch)

(* Mutant of Inherited: what does not inherit is filled as well.           *)
InheritedAlways(r, os) ==
    IF SameArch(os, r) = <<>> THEN r.now
    ELSE [f \in Fields |-> IF r.now[f] = -1 THEN Last(SameArch(os, r)).now[f] ELSE r.now[f]]

(* The fields of r after a visit of os: those it had not are set for each  *)
(* of its architecture, so to those of the last.                           *)
Inherited(r, os) ==
    IF ~r.of.inherit \/ SameArch(os, r) = <<>> THEN r.now
    ELSE [f \in Fields |-> IF r.now[f] = -1 THEN Last(SameArch(os, r)).now[f] ELSE r.now[f]]

GetAllResources(os) ==
    /\ call.get = "resources"
    /\ IF os = call.os
       THEN UNCHANGED resources
       ELSE resources' =
              LET Filled(r) == IF r.of.kind = call.kind
                               THEN [r EXCEPT !.now = Inherited(r, os)] ELSE r
                  own == resources[call.os]
              IN  [resources EXCEPT ![call.os] = [i \in 1..Len(own) |-> Filled(own[i])]]
    /\ UNCHANGED <<list, other>>

Callback(os) ==
    \/ GetAllDevices(os)
    \/ GetAllDeviceLinks(os)
    \/ GetAllSupportedFirmwares(os)
    \/ GetAllFirmwares(os)
    \/ GetCloudImageUsername(os)
    \/ GetAllResources(os)

-------------------------------------------------------------------------------
(* Getters                                                                 *)

Get(get, os, kind, filter) ==
    /\ Idle
    /\ call' = [get |-> get, os |-> os, kind |-> kind, filter |-> filter, walk |-> 1]
    /\ stack' = <<<<os>>>>
    /\ list' = <<>>
    /\ other' = <<>>
    /\ answer' = NoAnswer
    /\ UNCHANGED <<osVars, resources, crashed, asked>>

Running == call # NoCall /\ ~crashed
ToVisit == Running /\ Last(stack) # <<>>

(* Mutant of Visit: the related OSes are found from the OS of the call.    *)
VisitAround ==
    LET os == Head(Last(stack))
    IN  /\ ToVisit
        /\ Len(stack) \leq MaxDepth
        /\ Callback(os)
        /\ stack' = Append([stack EXCEPT ![Len(stack)] = Tail(@)], RelatedList(call.os))
        /\ UNCHANGED <<osVars, call, crashed, answer, asked>>

(* foreach_related is called for the next related OS of the innermost call *)
(* that runs.                                                              *)
Visit ==
    LET os == Head(Last(stack))
    IN  /\ ToVisit
        /\ Len(stack) \leq MaxDepth
        /\ Callback(os)
        /\ stack' = Append([stack EXCEPT ![Len(stack)] = Tail(@)], RelatedList(os))
        /\ UNCHANGED <<osVars, call, crashed, answer, asked>>

(* There is no room for one more call.                                     *)
Overflow ==
    /\ ToVisit
    /\ Len(stack) > MaxDepth
    /\ crashed' = TRUE
    /\ UNCHANGED <<osVars, resources, call, stack, list, other, answer, asked>>

(* The innermost call returns.                                             *)
Leave ==
    /\ Running
    /\ Last(stack) = <<>>
    /\ Len(stack) > 1
    /\ stack' = Front(stack)
    /\ UNCHANGED <<osVars, resources, call, list, other, crashed, answer, asked>>

WalkEnded == Running /\ stack = <<<<>>>>

SecondWalk ==
    /\ WalkEnded
    /\ call.get = "devices"
    /\ call.walk = 1
    /\ call' = [call EXCEPT !.walk = 2]
    /\ stack' = <<<<call.os>>>>
    /\ UNCHANGED <<osVars, resources, list, other, crashed, answer, asked>>

(* What the getter returns.                                                *)
Result ==
    CASE call.get = "devices" ->
           Select(list, LAMBDA d : \A i \in 1..Len(other) :
                                         other[i].id = d.id => LinkSupported(other[i]))
      [] call.get = "links" -> Select(list, LinkSupported)
      [] call.get = "resources" ->
           Select(resources[call.os], LAMBDA r : r.of.kind = call.kind)
      [] OTHER -> list

Return ==
    /\ WalkEnded
    /\ call.get = "devices" => call.walk = 2
    /\ answer' = [get |-> call.get, os |-> call.os, filter |-> call.filter, list |-> Result]
    /\ asked' = IF call.get = "resources" /\ asked = "not" THEN "asked" ELSE asked
    /\ call' = NoCall
    /\ stack' = <<>>
    /\ list' = <<>>
    /\ other' = <<>>
    /\ UNCHANGED <<osVars, resources, crashed>>

-------------------------------------------------------------------------------
Walk == Visit \/ Overflow \/ Leave \/ SecondWalk \/ Return

Next ==
    \/ \E file \in Files : LoadOs(file)
    \/ \E os \in Oses :
          \/ \E get \in {"devices", "links", "firmwares", "complete"},
                filter \in Filters \cup {None} : Get(get, os, None, filter)
          \/ Get("username", os, None, None)
          \/ \E kind \in Kinds : Get("resources", os, kind, None)
    \/ Walk

Spec == Init /\ [][Next]_vars

(* A getter that was called runs.                                          *)
FairSpec == Spec /\ WF_vars(Walk)

-------------------------------------------------------------------------------
(* Properties                                                              *)

(* What a getter collects: in its list, and beside it.                     *)
Collected(get) ==
    CASE get = "devices"  -> [id : STRING]
      [] get = "links"    -> Link
      [] get = "username" -> STRING
      [] OTHER            -> Firmware
Beside(get) == IF get = "devices" THEN Link ELSE Firmware

TypeOK ==
    /\ related \in [Oses -> Seq(Relation)]
    /\ username \in [Oses -> Attribute]
    /\ links \in [Oses -> Seq(Link)]
    /\ firmwares \in [Oses -> Seq(Firmware)]
    /\ resources \in [Oses -> Seq(Held)]
    /\ unread \subseteq Files
    /\ call \in Call \cup {NoCall}
    /\ stack \in Seq(Seq(Oses))
    /\ Len(stack) \leq MaxDepth + 1
    /\ call = NoCall <=> stack = <<>>
    /\ list \in Seq(Collected(call.get))
    /\ other \in Seq(Beside(call.get))
    /\ call = NoCall => list = <<>> /\ other = <<>> /\ ~crashed
    /\ asked \in {"not", "asked", "loaded then"}

(* The OSes an OS inherits from directly, and the ways from it to itself   *)
(* and to those it inherits from in turn.                                  *)
Parents(os) == {related[os][i].os : i \in {j \in 1..Len(related[os]) :
                                             related[os][j].rel # "upgrades"}}

Ways(os) ==
    LET W[n \in Nat] == IF n = 0 THEN {<<os>>}
                        ELSE UNION {{Append(w, p) : p \in Parents(Last(w))} : w \in W[n - 1]}
    IN  [n \in 1..Cardinality(Oses) + 1 |-> W[n - 1]]

WaysFrom(os) == UNION {Ways(os)[n] : n \in 1..Cardinality(Oses)}

(* No way comes back to an OS that is on it.                               *)
Acyclic(os) == Ways(os)[Cardinality(Oses) + 1] = {}

(* The getters return, whatever files are loaded and in whatever order,    *)
(* for every OS from which no way comes back to itself: also where two     *)
(* ways lead to one OS, or there is a cycle elsewhere.                     *)
GettersReturn ==
    (call # NoCall /\ Acyclic(call.os)) ~> (call = NoCall)

(* The calls of foreach_related outgrow the C stack only if a way comes    *)
(* back: no relations without a cycle are too deep.                        *)
StackSuffices == crashed => ~Acyclic(call.os)

Answered(get) == answer.get = get
AcyclicAnswer == answer # NoAnswer /\ Acyclic(answer.os)
Elements == ToSet(answer.list)

(* The links to d an OS has, of those the getter looks at.                 *)
LinksTo(os, d) ==
    Select(links[os], LAMBDA l : /\ l.id = d
                                    /\ \/ answer.get = "devices"
                                       \/ answer.filter = None
                                       \/ l \in answer.filter)

(* On some way, l is the link to d of the first OS that has one.           *)
Nearest(l, d) ==
    \E w \in WaysFrom(answer.os) :
       /\ LinksTo(Last(w), d) # <<>>
       /\ l = Last(LinksTo(Last(w), d))
       /\ \A i \in 1..Len(w) - 1 : LinksTo(w[i], d) = <<>>

Devices == UNION {{links[os][i].id : i \in 1..Len(links[os])} : os \in Oses}

(* What is nearest on a way counts: an OS has the user name of the nearest *)
(* that has one, and a device, or the link to it, if the nearest that has  *)
(* a link to it supports it. It lacks one only if on some way the nearest  *)
(* does not support it, or none has it. So the two walks of the getter of  *)
(* devices agree, and with the one of the getter of links. (A filter by    *)
(* what only devices have matches no link: unsupported devices are listed.)*)
NearestInherited ==
    AcyclicAnswer =>
    /\ Answered("username") =>
          LET Unnamed(w) == \A i \in 1..Len(w) - 1 : username[w[i]] = None
          IN  IF answer.list = <<>>
              THEN \A w \in WaysFrom(answer.os) : username[Last(w)] = None
              ELSE \E w \in WaysFrom(answer.os) :
                      Unnamed(w) /\ username[Last(w)] = answer.list[1]
    /\ Answered("links") =>
          /\ \A l \in Elements : LinkSupported(l) /\ Nearest(l, l.id)
          /\ \A d \in Devices :
                \/ \E l \in Elements : l.id = d
                \/ \E l \in UNION {ToSet(links[os]) : os \in Oses} :
                      Nearest(l, d) /\ ~LinkSupported(l)
                \/ \A w \in WaysFrom(answer.os) : LinksTo(Last(w), d) = <<>>
    /\ Answered("devices") =>
          \A d \in Devices :
             LET Is(supported) == \E l \in UNION {ToSet(links[os]) : os \in Oses} :
                                     Nearest(l, d) /\ LinkSupported(l) = supported
             IN  IF [id |-> d] \in Elements
                 THEN IF answer.filter = None THEN Is(TRUE) ELSE Is(TRUE) \/ Is(FALSE)
                 ELSE \/ answer.filter # None /\ [id |-> d] \notin answer.filter
                      \/ Is(FALSE)
                      \/ ~Is(TRUE)

(* A firmware is listed only if on some way to its OS none declares one    *)
(* like it unsupported, and left out only if some OS inherited from does.  *)
(* "We iterate through the latest child all the way back to the parent":   *)
(* a firmware in the complete list is, on some way, the first of its kind, *)
(* and every kind there is is listed.                                      *)
FirmwaresInherited ==
    LET Unsupported(os, f) == \E u \in ToSet(firmwares[os]) : ~FirmwareSupported(u) /\ Alike(u, f)
        Matching(os) == {f \in ToSet(firmwares[os]) :
                            answer.filter = None \/ f \in answer.filter}
        Has(os, f) == \E g \in Matching(os) : Alike(f, g)
    IN  AcyclicAnswer =>
        /\ Answered("firmwares") =>
              /\ \A f \in Elements : \E w \in WaysFrom(answer.os) :
                    f \in Matching(Last(w)) /\ \A i \in 1..Len(w) : ~Unsupported(w[i], f)
              /\ \A w \in WaysFrom(answer.os) : \A f \in Matching(Last(w)) :
                    \/ f \in Elements
                    \/ \E v \in WaysFrom(answer.os) : Unsupported(Last(v), f)
        /\ Answered("complete") =>
              /\ \A f \in Elements : \E w \in WaysFrom(answer.os) :
                    f \in Matching(Last(w)) /\ \A i \in 1..Len(w) - 1 : ~Has(w[i], f)
              /\ \A w \in WaysFrom(answer.os) : \A f \in Matching(Last(w)) :
                    \E g \in Elements : Alike(f, g)

(* What an OS offers for a field of r: what the file says of its last      *)
(* resources for that architecture.                                        *)
Offer(os, r, f) ==
    IF SameArch(os, r) = <<>> THEN -1 ELSE Last(SameArch(os, r)).of.fields[f]

(* The resources of an OS are what its files say, and what they lack, if   *)
(* they inherit, is what the nearest OS on some way offers: the same as of *)
(* objects in which nothing was inherited before, by whatever getters were *)
(* called for the OS or for others, as long as nothing more was loaded.    *)
ResourcesAsFresh ==
    Answered("resources") /\ AcyclicAnswer /\ asked # "loaded then" =>
        \A r \in Elements, f \in Fields :
           IF r.of.fields[f] # -1 \/ ~r.of.inherit
           THEN r.now[f] = r.of.fields[f]
           ELSE LET above == {w \in WaysFrom(answer.os) : Len(w) > 1}
                IN  IF r.now[f] = -1
                    THEN \A w \in above : Offer(Last(w), r, f) = -1
                    ELSE \E w \in above :
                            /\ Offer(Last(w), r, f) = r.now[f]
                            /\ \A i \in 2..Len(w) - 1 : Offer(w[i], r, f) = -1
===============================================================================
