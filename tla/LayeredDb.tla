------------------------------- MODULE LayeredDb -------------------------------
(***************************************************************************)
(* What loading a list of locations promises, by the merge rules stated at *)
(* osinfo_loader.c:2446-2454 (see also docs/database-layout.txt), with no  *)
(* trace of how it is done: a call is one step, which gives every entity   *)
(* the parts its layers prescribe or, when some file that counts is        *)
(* faulty, a first section of them. Files that a later location overrides  *)
(* do not count.                                                           *)
(*                                                                         *)
(* Nothing depends on the order in which entities are loaded, except for   *)
(* locations that are themselves files (deprecated): the order of several  *)
(* sources of one entity is then unspecified.                              *)
(***************************************************************************)
EXTENDS Integers, Sequences, FiniteSets, SequencesExt

CONSTANTS Ids, Deployments, Scenarios

VARIABLES calls,    \* the calls still to be made
          content,  \* the parts of each entity
          outcome   \* how the last call ended

vars == <<calls, content, outcome>>

Native(c, n) == c.dirs[n].fmt = "native"
IsDir(c, n) == Native(c, n) /\ c.dirs[n].access = "dir"
IsFile(c, n) == Native(c, n) /\ c.dirs[n].access = "file"

Locations(c) == 1..Len(c.dirs)

(* The location whose master file counts for id, 0 if none has one.        *)
Top(c, id) ==
    LET L == {n \in Locations(c) : IsDir(c, n) /\ id \in c.dirs[n].masters}
    IN  IF L = {} THEN 0 ELSE CHOOSE n \in L : \A m \in L : m \leq n

(* The names of the files of location n that count for id, in order.       *)
LiveNames(c, n, id) ==
    IF ~IsDir(c, n) \/ n < Top(c, id) THEN <<>>
    ELSE (IF n = Top(c, id) THEN <<0>> ELSE <<>>) \o c.dirs[n].frags[id]

(* The parts that file <<id, name>> of location n gives to entity `to`. A  *)
(* deployment that fails is never entered.                                 *)
FileParts(c, n, id, name, to) ==
    LET mine == SelectSeq(c.dirs[n].body[<<id, name>>],
                          LAMBDA e : /\ e.id = to
                                     /\ e.fail # "early"
                                     /\ to \in Deployments => e.fail = "none")
    IN  [i \in 1..Len(mine) |->
            [loc |-> n, name |-> name, media |-> mine[i].media,
             whole |-> mine[i].fail = "none"]]

(* The parts the location directories give to id: those of the master file *)
(* that counts, then those of the fragments that count.                    *)
DirParts(c, id) ==
    FlattenSeq([n \in Locations(c) |->
        FlattenSeq([i \in 1..Len(LiveNames(c, n, id)) |->
            FileParts(c, n, id, LiveNames(c, n, id)[i], id)])])

(* A location that is a file gives parts to any entity defined in it.      *)
LooseParts(c, n, id) ==
    FileParts(c, n, CHOOSE k \in c.dirs[n].masters : TRUE, 0, id)

(* The pci.ids and usb.ids records count where no native master file does. *)
IdsParts(c, id) ==
    IF Top(c, id) # 0 THEN <<>>
    ELSE LET at == SelectSeq([n \in Locations(c) |-> n],
                             LAMBDA n : ~Native(c, n) /\ id \in c.dirs[n].masters)
         IN  [i \in 1..Len(at) |->
                 [loc |-> at[i], name |-> 0, media |-> 0, whole |-> TRUE]]

(* Everything a call gives to id, in each order the sources may be read.   *)
Layered(c, id) ==
    LET sources == {DirParts(c, id)} \cup
                   {LooseParts(c, n, id) : n \in {m \in Locations(c) : IsFile(c, m)}}
    IN  {IdsParts(c, id) \o FlattenSeq(s) : s \in SetToSeqs(sources)}

Augment(id, old, new) ==
    IF id \in Deployments /\ new # <<>> THEN <<Last(new)>> ELSE old \o new

(* Some element that counts, in a file that counts, is faulty.             *)
FaultyDirElems(c) ==
    \E n \in Locations(c), id \in Ids :
        \E i \in 1..Len(LiveNames(c, n, id)) :
            LET b == c.dirs[n].body[<<id, LiveNames(c, n, id)[i]>>]
            IN  \E j \in 1..Len(b) : \/ b[j].fail = "early"
                                     \/ (b[j].fail = "late" /\ b[j].id = id)

FaultyLooseFile(c) ==
    \E n \in Locations(c) :
        /\ IsFile(c, n)
        /\ \E k \in c.dirs[n].masters :
              LET b == c.dirs[n].body[<<k, 0>>]
              IN  \E j \in 1..Len(b) : b[j].fail # "none"

Unreadable(c) ==
    \E n \in Locations(c) :
        IF Native(c, n)
        THEN \/ c.dirs[n].access = "broken"
             \/ (c.dirs[n].access \in {"missing", "noaccess"} /\ ~c.skipMissing)
        ELSE c.dirs[n].access # "file"

Faulty(c) == Unreadable(c) \/ FaultyDirElems(c) \/ FaultyLooseFile(c)

Init == /\ calls \in Scenarios
        /\ content = [id \in Ids |-> <<>>]
        /\ outcome = "none"

LoadAll ==
    /\ calls # <<>>
    /\ ~Faulty(Head(calls))
    /\ \A id \in Ids : \E new \in Layered(Head(calls), id) :
          content'[id] = Augment(id, content[id], new)
    /\ outcome' = "ok"
    /\ calls' = Tail(calls)

LoadSome ==
    /\ calls # <<>>
    /\ Faulty(Head(calls))
    /\ \A id \in Ids : \E new \in Layered(Head(calls), id) : \E n \in 0..Len(new) :
          /\ content'[id] = Augment(id, content[id], SubSeq(new, 1, n))
          /\ \A i \in 1..n - 1 : new[i].whole
    /\ outcome' = "error"
    /\ calls' = Tail(calls)

Next == LoadAll \/ LoadSome

Spec == Init /\ [][Next]_vars
===============================================================================
