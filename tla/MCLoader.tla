------------------------------- MODULE MCLoader -------------------------------
(* Instances of Loader for TLC: an OS, an install script and a deployment, *)
(* each in up to two directories, with .ids files, locations that are      *)
(* files, and faulty ones.                                                 *)
EXTENDS Loader

CONSTANTS o, s, d

(* The OS refers to its script, the deployment to its OS.                  *)
RefsOf(id) == IF id = o THEN {s} ELSE IF id = d THEN {o} ELSE {}

Good(id) == [id |-> id, refs |-> RefsOf(id),
             media |-> IF id = o THEN 1 ELSE 0, fail |-> "none"]
Bad(id, how) == [Good(id) EXCEPT !.fail = how]

(* Every file holds its own entity, except those black-listed or replaced. *)
GoodBody == [f \in Ids \X {0, 1, 2} |-> <<Good(f[1])>>]

Dir(masters, frags, body) ==
    [fmt |-> "native", access |-> "dir", masters |-> masters,
     frags |-> frags, body |-> body]

NoFrags == [id \in Ids |-> <<>>]
Frags(id, list) == [NoFrags EXCEPT ![id] = list]

WithAccess(l, access) == [l EXCEPT !.access = access]
WithBody(l, f, b) == [l EXCEPT !.body[f] = b]

DirOf(masters, list) == Dir(masters, Frags(o, list), GoodBody)
Empty == DirOf({}, <<>>)
IdsLoc(devices) == [Empty EXCEPT !.fmt = "ids", !.access = "file",
                                 !.masters = devices]
LooseFile(id, b) == WithBody(WithAccess(DirOf({id}, <<>>), "file"), <<id, 0>>, b)

CallOf(ds, skip) == [dirs |-> ds, skipMissing |-> skip]

(* Directories that do or do not override each other's OS, script and      *)
(* deployment, with and without a black-out of the OS.                     *)
SomeDirs ==
    {WithBody(DirOf(m, l), <<o, 0>>, b) :
        m \in SUBSET Ids, l \in {<<>>, <<1>>, <<1, 2>>},
        b \in {<<>>, <<Good(o)>>}}

FewDirs == {DirOf(m, l) : m \in {{}, {o}, {o, d}}, l \in {<<>>, <<1>>}}

Layering ==
    {<<CallOf(<<IdsLoc({o}), l1, l2>>, TRUE)>> : l1 \in FewDirs, l2 \in SomeDirs}
    \cup {<<CallOf(<<l1, l2>>, FALSE)>> : l1 \in SomeDirs, l2 \in FewDirs}

(* One location with a file that is malformed, fails half way, or holds an *)
(* entity that belongs elsewhere, below one that may hide the file.        *)
FaultyDirs ==
    {WithBody(DirOf({id, o}, <<1>>), f, b) :
        id \in {s, d},
        f \in {<<o, 0>>, <<o, 1>>, <<s, 0>>, <<d, 0>>},
        b \in {<<Bad(o, "early")>>, <<Good(o), Bad(o, "late")>>,
               <<Bad(s, "late")>>, <<Bad(d, "late")>>,
               <<Good(s), Good(o)>>, <<Bad(s, "late"), Good(d)>>}}

Faults ==
    {<<CallOf(<<IdsLoc({o}), l1, l2>>, TRUE)>> :
        l1 \in FaultyDirs, l2 \in {Empty, DirOf({o}, <<>>)}}
    \cup {<<CallOf(<<WithAccess(l1, a), DirOf({o}, <<>>)>>, b)>> :
        l1 \in {IdsLoc({o, s}), DirOf({o}, <<1>>)},
        a \in {"missing", "noaccess", "broken", "dir"}, b \in BOOLEAN}

(* Locations that are files: two define the OS, with a directory.          *)
Loose ==
    {<<CallOf(<<l0, LooseFile(o, b1), LooseFile(id, b2)>>, FALSE)>> :
        l0 \in {Empty, DirOf({o}, <<1>>)}, id \in {o, s},
        b1 \in {<<Good(o)>>, <<Good(s), Good(o)>>},
        b2 \in {<<Good(o)>>, <<Good(d), Bad(o, "late")>>}}

(* Two calls on one loader.                                                *)
OneOf == {CallOf(<<l>>, FALSE) :
             l \in FewDirs \cup {IdsLoc({o}), WithAccess(Empty, "broken"),
                                 DirOf({d}, <<>>),
                                 WithBody(DirOf({o}, <<1>>), <<o, 1>>,
                                          <<Bad(o, "late")>>)}}
Twice == {<<c1, c2>> : c1 \in OneOf, c2 \in OneOf}

MCScenarios == Layering \cup Faults \cup Loose \cup Twice

(* Two directories with fragments of the OS, of one name or of two, where  *)
(* the later directory has a master file or not.                           *)
FragmentScenarios ==
    {<<CallOf(<<DirOf({o, s, d}, l1), DirOf(m, l2)>>, TRUE)>> :
        l1 \in {<<1>>, <<1, 2>>}, l2 \in {<<>>, <<1>>, <<2>>},
        m \in {{}, {d}}}

(* An install script that fails half way.                                  *)
ScriptScenarios == {<<CallOf(<<l1, l2>>, TRUE)>> :
                       l1 \in FaultyDirs, l2 \in {Empty, DirOf({o}, <<>>)}}
===============================================================================
