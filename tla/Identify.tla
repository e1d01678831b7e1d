-------------------------------- MODULE Identify --------------------------------
(***************************************************************************)
(* osinfo_db_identify_media and _tree, and their _medialist and _treelist  *)
(* (osinfo_db.c): finding the OS an installation medium or tree is of, by  *)
(* comparing it with the media or trees of each OS in the database.        *)
(*                                                                         *)
(* compare_media walks the OSes twice: first it skips the references for   *)
(* any architecture and those of rolling releases, and keeps the OSes that *)
(* had one and matched nothing else; then it looks at all the references   *)
(* of those. A step is one turn of a loop. compare_tree is the same but    *)
(* for rolling releases and the order of the references.                   *)
(*                                                                         *)
(* What is identified is filled from the reference it matched, and may be  *)
(* identified again, also when the database has got more OSes.             *)
(***************************************************************************)
EXTENDS Integers, Sequences, FiniteSets

CONSTANTS
    Oses,      \* OSes that may be in the database
    Rolling,   \* those whose release status is rolling
    Refs,      \* their media and trees
    Ref,       \* what the database says of each
    Chars,     \* the characters of names and patterns
    Things,    \* what may be identified
    MaxFills,  \* how often it may be
    None       \* no reference, no architecture

(* A name, or a pattern: some characters, or these between ^ and $. The    *)
(* empty one is NULL.                                                      *)
Pattern == [text : Seq(Chars), anchored : BOOLEAN]
Null == [text |-> <<>>, anchored |-> FALSE]

VolumeKeys == {"volume", "system", "publisher", "application"}
TreeinfoKeys == {"family", "variant", "version", "arch"}
IdKeys == VolumeKeys \cup TreeinfoKeys

MediaFields == {"id", "os", "url", "kernel", "initrd", "installer", "reboots",
                "languages", "scripts"}
TreeFields == {"id", "os", "url", "kernel", "initrd", "boot-iso", "treeinfo"}
Fields == MediaFields \cup TreeFields

(* What the database says of a medium or a tree: the OS it is of, its      *)
(* architecture, its patterns, the size of a medium (-1 if not given), and *)
(* which other fields it has.                                              *)
MediaRecord == [kind : {"media"}, os : Oses, arch : STRING, ids : [IdKeys -> Pattern],
                size : Int, has : SUBSET MediaFields]
TreeRecord == [kind : {"tree"}, os : Oses, arch : STRING, ids : [IdKeys -> Pattern],
               size : {-1}, has : SUBSET TreeFields]
RefRecord == MediaRecord \cup TreeRecord

(* What is identified: the same, and where each field is from, and the     *)
(* references whose variants it was given.                                 *)
Thing == [kind : {"media", "tree"}, arch : STRING, ids : [IdKeys -> Pattern],
          size : Int, from : [Fields -> Refs \cup {None}], variants : Seq(Refs)]

(* Before it is identified, nothing of it is from a reference.             *)
Unfilled(t) == t.variants = <<>> /\ \A f \in Fields : t.from[f] = None

ASSUME OsesAssumption == IsFiniteSet(Oses) /\ Rolling \subseteq Oses
ASSUME RefsAssumption == IsFiniteSet(Refs) /\ Ref \in [Refs -> RefRecord] /\ None \notin Refs
ASSUME ThingsAssumption == Things \subseteq {t \in Thing : Unfilled(t)} /\ MaxFills \in Nat

VARIABLES
    db,        \* the OSes of the database, as osinfo_list_get_elements gives them
    order,     \* so the references of each OS
    thing,     \* what is identified
    call,      \* the call that runs
    pass,      \* which of the two calls of compare_media
    oses,      \* the OSes its loop has left
    refs,      \* the references the inner loop has left
    inside,    \* it is in the inner loop
    have,      \* haveFallback
    use,       \* useFallback
    matched,   \* matched_media
    fallback,  \* fallback_oss
    last,      \* the reference last filled from (history)
    grown      \* OSes were added since the thing was first filled (history)

loopVars == <<pass, oses, refs, inside, have, use, matched, fallback>>
vars == <<db, order, thing, call, loopVars, last, grown>>

Arrangements(S) == {s \in [1..Cardinality(S) -> S] : \A x \in S : \E i \in DOMAIN s : s[i] = x}

RefsOf(os, kind) == {r \in Refs : Ref[r].os = os /\ Ref[r].kind = kind}

Init ==
    /\ thing \in Things
    /\ db = <<>>
    /\ order \in [Oses -> UNION {Arrangements(RefsOf(os, thing.kind)) : os \in Oses}]
    /\ \A os \in Oses : order[os] \in Arrangements(RefsOf(os, thing.kind))
    /\ call = "none"
    /\ pass = 1
    /\ oses = <<>>
    /\ refs = <<>>
    /\ inside = FALSE
    /\ have = FALSE
    /\ use = TRUE
    /\ matched = <<>>
    /\ fallback = <<>>
    /\ last = None
    /\ grown = FALSE

-------------------------------------------------------------------------------
(* Comparing                                                               *)

Contains(t, u) == \E i \in 0..Len(t) - Len(u) : u = SubSeq(t, i + 1, i + Len(u))

(* strstr: u is found in t.                                                *)
Strstr(t, u) == IF u.anchored THEN t = u ELSE Contains(t.text, u.text)

(* match_regex: ^ and $ match the ends, and not the characters themselves. *)
MatchRegex(p, s) ==
    \/ p = Null
    \/ /\ s # Null
       /\ IF p.anchored THEN s = [p EXCEPT !.anchored = FALSE]
                        ELSE Contains(s.text, p.text)

ArchMatches(t, r) == t.arch = "none" \/ r.arch = t.arch \/ r.arch = "all"

(* osinfo_media_matches and osinfo_tree_matches.                           *)
MediaMatches(t, r) ==
    /\ r.size > 0 \/ \E k \in VolumeKeys : r.ids[k] # Null
    /\ ArchMatches(t, r)
    /\ \A k \in VolumeKeys : MatchRegex(r.ids[k], t.ids[k])
    /\ r.size > 0 => r.size = t.size

TreeMatches(t, r) ==
    /\ "treeinfo" \in r.has
    /\ ArchMatches(t, r)
    /\ \A k \in TreeinfoKeys : MatchRegex(r.ids[k], t.ids[k])

Matches(t, ref) ==
    IF t.kind = "media" THEN MediaMatches(t, Ref[ref]) ELSE TreeMatches(t, Ref[ref])

(* media_volume_compare: which of two media comes first.                   *)
VolumeCompare(a, b) ==
    LET va == Ref[a].ids["volume"]
        vb == Ref[b].ids["volume"]
    IN  IF va = Null \/ vb = Null THEN 0
        ELSE IF ~Strstr(va, vb) THEN 1
        ELSE IF Ref[b].size # -1 /\ Ref[a].size = -1 THEN 1 ELSE -1

(* g_list_sort: a merge sort that halves the list.                         *)
Merge[p \in Seq(Refs) \X Seq(Refs)] ==
    LET s == p[1]
        t == p[2]
    IN  IF s = <<>> THEN t
        ELSE IF t = <<>> THEN s
        ELSE IF VolumeCompare(Head(s), Head(t)) \leq 0
             THEN <<Head(s)>> \o Merge[<<Tail(s), t>>]
             ELSE <<Head(t)>> \o Merge[<<s, Tail(t)>>]

Sort[s \in Seq(Refs)] ==
    IF Len(s) \leq 1 THEN s
    ELSE LET half == Len(s) \div 2
         IN  Merge[<<Sort[SubSeq(s, 1, half)], Sort[SubSeq(s, half + 1, Len(s))]>>]

(* Mutant of Examined: the media are not sorted.                           *)
ExaminedUnsorted(os) == order[os]

(* The references of an OS in the order in which they are compared.        *)
Examined(os) == IF thing.kind = "media" THEN Sort[order[os]] ELSE order[os]

(* A reference the first pass leaves for the second.                       *)
IsFallback(ref) ==
    \/ Ref[ref].arch = "all"
    \/ thing.kind = "media" /\ Ref[ref].os \in Rolling

-------------------------------------------------------------------------------
Idle == call = "none"
OnlyFirst == call = "identify"

(* osinfo_db_add_os: the order of the elements may be another.             *)
AddOs(os) ==
    /\ Idle
    /\ \A i \in 1..Len(db) : db[i] # os
    /\ db' \in Arrangements({db[i] : i \in 1..Len(db)} \cup {os})
    /\ grown' = (last # None)
    /\ UNCHANGED <<order, thing, call, loopVars, last>>

(* osinfo_db_identify_media or _medialist: the first pass begins.          *)
Begin(c) ==
    /\ Idle
    /\ c = "identify" => Len(thing.variants) < MaxFills
    /\ call' = c
    /\ pass' = 1
    /\ oses' = db
    /\ matched' = <<>>
    /\ fallback' = <<>>
    /\ UNCHANGED <<db, order, thing, refs, inside, have, use, last, grown>>

OuterLoop == ~Idle /\ ~inside
InnerLoop == ~Idle /\ inside /\ refs # <<>>

TakeOs ==
    /\ OuterLoop
    /\ oses # <<>>
    /\ refs' = Examined(Head(oses))
    /\ inside' = TRUE
    /\ have' = FALSE
    /\ use' = TRUE
    /\ UNCHANGED <<db, order, thing, call, pass, oses, matched, fallback, last, grown>>

(* The first pass is over a reference of any architecture, or of a rolling *)
(* release.                                                                *)
Defer ==
    /\ InnerLoop
    /\ pass = 1
    /\ IsFallback(Head(refs))
    /\ have' = TRUE
    /\ refs' = Tail(refs)
    /\ UNCHANGED <<db, order, thing, call, pass, oses, inside, use, matched, fallback,
                   last, grown>>

(* Mutant of Compared: a reference that is deferred is compared as well.   *)
ComparedAlways == InnerLoop

Compared == InnerLoop /\ (pass = 2 \/ ~IsFallback(Head(refs)))

Differs ==
    /\ Compared
    /\ ~Matches(thing, Head(refs))
    /\ refs' = Tail(refs)
    /\ UNCHANGED <<db, order, thing, call, pass, oses, inside, have, use, matched,
                   fallback, last, grown>>

(* Mutant of Hit: an OS with a match is kept for the second pass too.      *)
HitKeepingFallback ==
    /\ Compared
    /\ Matches(thing, Head(refs))
    /\ matched' = Append(matched, Head(refs))
    /\ refs' = IF OnlyFirst THEN <<>> ELSE Tail(refs)
    /\ UNCHANGED <<db, order, thing, call, pass, oses, inside, have, use, fallback,
                   last, grown>>

Hit ==
    /\ Compared
    /\ Matches(thing, Head(refs))
    /\ matched' = Append(matched, Head(refs))
    /\ use' = FALSE
    /\ refs' = IF OnlyFirst THEN <<>> ELSE Tail(refs)
    /\ UNCHANGED <<db, order, thing, call, pass, oses, inside, have, fallback, last,
                   grown>>

(* Mutant of LeaveOs: the OSes with fallbacks are forgotten.               *)
LeaveOsOnly ==
    /\ ~Idle
    /\ inside
    /\ refs = <<>>
    /\ inside' = FALSE
    /\ fallback' = fallback
    /\ oses' = IF OnlyFirst /\ matched # <<>> THEN <<>> ELSE Tail(oses)
    /\ UNCHANGED <<db, order, thing, call, pass, refs, have, use, matched, last, grown>>

(* The OS may be a fallback. After a match for identify the loop ends.     *)
LeaveOs ==
    /\ ~Idle
    /\ inside
    /\ refs = <<>>
    /\ inside' = FALSE
    /\ fallback' = IF use /\ have THEN <<Head(oses)>> \o fallback ELSE fallback
    /\ oses' = IF OnlyFirst /\ matched # <<>> THEN <<>> ELSE Tail(oses)
    /\ UNCHANGED <<db, order, thing, call, pass, refs, have, use, matched, last, grown>>

Ended == OuterLoop /\ oses = <<>>
Again == pass = 1 /\ (~OnlyFirst \/ matched = <<>>)

SecondPass ==
    /\ Ended
    /\ Again
    /\ pass' = 2
    /\ oses' = fallback
    /\ UNCHANGED <<db, order, thing, call, refs, inside, have, use, matched, fallback,
                   last, grown>>

-------------------------------------------------------------------------------
(* Filling: fill_media, set_languages_for_media and fill_tree              *)

(* The fields that are set only if the reference has them; the others of a *)
(* medium are always set. A reference whose languages are a pattern has    *)
(* them for a medium with a name.                                          *)
FieldsSet(t, ref) ==
    {"id", "os"}
    \cup (IF t.kind = "media" THEN {"installer"} ELSE {})
    \cup (Ref[ref].has \ (IF t.ids["volume"] = Null THEN {"languages"} ELSE {}))

(* Mutant of Filled: the architecture of the thing is left as it was, and  *)
(* its name is replaced.                                                   *)
FilledWithPatterns(t, ref) ==
    [t EXCEPT !.ids = [k \in IdKeys |->
                         IF Ref[ref].ids[k] = Null THEN @[k] ELSE Ref[ref].ids[k]],
              !.from = [f \in Fields |-> IF f \in FieldsSet(t, ref) THEN ref ELSE @[f]],
              !.variants = Append(@, ref)]

(* Mutant of Filled: a field is taken over only where there was none.      *)
FilledWhereEmpty(t, ref) ==
    [t EXCEPT !.arch = Ref[ref].arch,
              !.from = [f \in Fields |->
                          IF f \in FieldsSet(t, ref) \ {"url"} THEN ref ELSE @[f]],
              !.variants = Append(@, ref)]

(* Mutant of Filled: the id is the one of the OS.                          *)
FilledWithOs(t, ref) ==
    [t EXCEPT !.arch = Ref[ref].arch,
              !.from = [f \in Fields |-> IF f = "id" THEN Ref[ref].os
                                        ELSE IF f \in FieldsSet(t, ref) THEN ref ELSE @[f]],
              !.variants = Append(@, ref)]

(* A tree is given the patterns of the reference for its treeinfo, and has *)
(* them as its own from then on. The variants are added to those it has.   *)
Filled(t, ref) ==
    [t EXCEPT !.arch = Ref[ref].arch,
              !.ids = [k \in IdKeys |->
                         IF t.kind = "media" \/ Ref[ref].ids[k] = Null
                         THEN @[k] ELSE Ref[ref].ids[k]],
              !.from = [f \in Fields |-> IF f \in FieldsSet(t, ref) THEN ref ELSE @[f]],
              !.variants = Append(@, ref)]

(* The calls return; the list of all matches changes nothing.              *)
Return ==
    /\ Ended
    /\ ~Again
    /\ call' = "none"
    /\ IF OnlyFirst /\ matched # <<>>
       THEN /\ thing' = Filled(thing, matched[1])
            /\ last' = matched[1]
       ELSE UNCHANGED <<thing, last>>
    /\ UNCHANGED <<db, order, loopVars, grown>>

-------------------------------------------------------------------------------
Search == TakeOs \/ Defer \/ Differs \/ Hit \/ LeaveOs \/ SecondPass \/ Return

Next == \/ \E os \in Oses : AddOs(os)
        \/ Begin("identify") \/ Begin("list")
        \/ Search

Spec == Init /\ [][Next]_vars

-------------------------------------------------------------------------------
(* Properties                                                              *)

TypeOK ==
    /\ db \in Seq(Oses)
    /\ order \in [Oses -> Seq(Refs)]
    /\ thing \in Thing
    /\ call \in {"none", "identify", "list"}
    /\ pass \in {1, 2}
    /\ oses \in Seq(Oses)
    /\ refs \in Seq(Refs)
    /\ {inside, have, use, grown} \subseteq BOOLEAN
    /\ matched \in Seq(Refs)
    /\ fallback \in Seq(Oses)
    /\ last \in Refs \cup {None}

InDb(os) == \E i \in 1..Len(db) : db[i] = os
IsMatched(ref) == \E i \in 1..Len(matched) : matched[i] = ref
Returns == Ended /\ ~Again

(* The references of the database that match what is identified.           *)
Candidates ==
    {r \in Refs : Ref[r].kind = thing.kind /\ InDb(Ref[r].os) /\ Matches(thing, r)}

(* "This ensures that if the caller requests all matches but then blindly  *)
(* picks the first match, they will not accidentally get a fallback match  *)
(* when a preferred match was available": in whatever order the OSes come, *)
(* no fallback is before a preferred match, and the first match is a       *)
(* preferred one if the database has one.                                  *)
PreferredFirst ==
    /\ \A i, j \in 1..Len(matched) :
          i < j /\ IsFallback(matched[i]) => IsFallback(matched[j])
    /\ Returns /\ (\E r \in Candidates : ~IsFallback(r)) =>
          matched # <<>> /\ ~IsFallback(matched[1])

(* "@fallback_os ... will never contain any OsinfoOs that had media added  *)
(* to @matched_media", in the first pass; so no reference is compared, or  *)
(* listed, twice.                                                          *)
FallbackApart ==
    /\ pass = 1 => \A i \in 1..Len(fallback), j \in 1..Len(matched) :
                      fallback[i] # Ref[matched[j]].os
    /\ \A i, j \in 1..Len(matched) : i # j => matched[i] # matched[j]

(* What is found, for every order: only references that match; all the     *)
(* preferred ones, in a list; and none of an OS is found only when there   *)
(* is none. A fallback is left out of a list if its OS has another match.  *)
NothingMissed ==
    Returns =>
        /\ \A i \in 1..Len(matched) : matched[i] \in Candidates
        /\ matched = <<>> => Candidates = {}
        /\ call = "list" =>
              \A r \in Candidates :
                 \/ IsMatched(r)
                 \/ IsFallback(r) /\ \E s \in Candidates :
                                        /\ Ref[s].os = Ref[r].os
                                        /\ ~IsFallback(s)
                                        /\ IsMatched(s)

(* The media of an OS that has two: the one whose volume pattern contains  *)
(* the other's is found first, whichever comes first in the list, or of    *)
(* equal patterns the one with a size. (Of three or more it may not be:    *)
(* media_volume_compare is no order, and the sort compares only some.)     *)
Twins(r, s) == /\ r # s
               /\ Ref[r].os = Ref[s].os
               /\ RefsOf(Ref[r].os, "media") = {r, s}
               /\ Ref[s].ids["volume"] # Null

MoreSpecific(r, s) ==
    LET vr == Ref[r].ids["volume"]
        vs == Ref[s].ids["volume"]
    IN  /\ Strstr(vr, vs)
        /\ IF Strstr(vs, vr) THEN Ref[r].size # -1 /\ Ref[s].size = -1
                             ELSE Ref[r].size # -1 \/ Ref[s].size = -1

SpecificFirst ==
    Returns /\ thing.kind = "media" =>
        \A r, s \in Candidates :
           Twins(r, s) /\ MoreSpecific(r, s) /\ IsFallback(r) = IsFallback(s) =>
              \A j \in 1..Len(matched) :
                 matched[j] = s => \E i \in 1..j : matched[i] = r

(* The patterns of the database's trees match a name made of their text.   *)
Literal == \A r \in Refs, k \in TreeinfoKeys :
              InDb(Ref[r].os) => ~Ref[r].ids[k].anchored

(* A medium identified again, by a database that has not grown, is         *)
(* identified as the same, although it now has the architecture and the    *)
(* other fields of what it was identified as; so is a tree, whose treeinfo *)
(* was replaced by patterns, if no pattern is anchored.                    *)
IdentifiedAgain ==
    [][Return /\ OnlyFirst /\ last # None /\ ~grown /\ (thing.kind = "media" \/ Literal)
         => matched # <<>> /\ last' = last]_vars

(* The fields of what was identified are those of one reference, and it    *)
(* lacks none that the reference has, as long as the database has not      *)
(* grown: nothing is left of another reference.                            *)
DescribedByOne ==
    last # None /\ ~grown /\ (thing.kind = "media" \/ Literal) =>
        /\ thing.arch = Ref[last].arch
        /\ \A f \in Fields : thing.from[f] \in {None, last}
        /\ \A f \in FieldsSet(thing, last) : thing.from[f] = last
===============================================================================
