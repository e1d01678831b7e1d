----------------------------- MODULE MCMediaCreate -----------------------------
(* Instances of MediaCreate for TLC: images of every length from none to   *)
(* all, with one unit before the descriptors and two in each, so that a    *)
(* read may be partial, with directories in and beyond the image, and      *)
(* empty ones.                                                             *)
EXTENDS MediaCreate

(* The root directory follows the descriptors, and the ppc directory lies  *)
(* before or after it; either may have no bytes, and then nothing in it.   *)
Root == {[at |-> 5, len |-> 2, found |-> f] : f \in BOOLEAN}
Ppc == {[at |-> p, len |-> 3, found |-> f] : p \in {0, 7}, f \in BOOLEAN}
Empty == [at |-> 5, len |-> 0, found |-> FALSE]
Dirs == {[i \in 1..PathLen |-> IF i = 1 THEN d ELSE e] :
            d \in Root \cup {Empty}, e \in Ppc \cup {Empty}}

SomeJobs(access) ==
    {[http |-> a[1], seekable |-> a[2], size |-> n, named |-> v, tagged |-> t,
      dirs |-> d, required |-> r] :
        a \in access, n \in {0, 1, 2, 4, 5, 6, 7, 9, 10}, v \in BOOLEAN,
        t \in BOOLEAN, d \in Dirs, r \in BOOLEAN}

(* Files can seek, HTTP responses cannot.                                  *)
File == <<FALSE, TRUE>>
Http == <<TRUE, FALSE>>

MCJobs == SomeJobs({File, Http})
HttpJobs == SomeJobs({Http})
===============================================================================
