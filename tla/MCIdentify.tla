------------------------------- MODULE MCIdentify -------------------------------
(* An instance of Identify for TLC: an OS with two media whose patterns    *)
(* contain one another, one for an architecture and one for any; one with  *)
(* two media of the same architecture; a rolling release; and trees.       *)
EXTENDS Identify

CONSTANTS fedora, ubuntu, gentoo, f1, f2, u1, u2, g1, t1, t2, t3, t4, a, b

Plain(s) == [text |-> s, anchored |-> FALSE]
Anchored(s) == [text |-> s, anchored |-> TRUE]

Ids(key, p) == [k \in IdKeys |-> IF k = key THEN p ELSE Null]

Media(os, arch, volume, size, has) ==
    [kind |-> "media", os |-> os, arch |-> arch, ids |-> Ids("volume", volume),
     size |-> size, has |-> has]

Tree(os, arch, family, has) ==
    [kind |-> "tree", os |-> os, arch |-> arch, ids |-> Ids("family", family),
     size |-> -1, has |-> has]

MCOses == {fedora, ubuntu, gentoo}
MCRefs == {f1, f2, u1, u2, g1, t1, t2, t3, t4}
MCChars == {a, b}

MCRef ==
    [r \in MCRefs |->
        CASE r = f1 -> Media(fedora, "x86_64", Plain(<<a>>), -1, {"url", "kernel"})
          [] r = f2 -> Media(fedora, "all", Plain(<<a, b>>), -1, {"kernel"})
          [] r = u1 -> Media(ubuntu, "x86_64", Anchored(<<a, b>>), -1, {"url", "languages"})
          [] r = u2 -> Media(ubuntu, "x86_64", Plain(<<a>>), -1, {"initrd", "reboots"})
          [] r = g1 -> Media(gentoo, "x86_64", Null, 7, {"scripts"})
          [] r = t1 -> Tree(fedora, "x86_64", Plain(<<a>>), {"treeinfo", "kernel"})
          [] r = t2 -> Tree(ubuntu, "all", Plain(<<a, b>>), {"treeinfo", "boot-iso", "url"})
          [] r = t3 -> Tree(gentoo, "x86_64", Null, {"url"})
          [] r = t4 -> Tree(gentoo, "x86_64", Anchored(<<a>>), {"treeinfo", "initrd"})]

New(kind, arch, ids, size) ==
    [kind |-> kind, arch |-> arch, ids |-> ids, size |-> size,
     from |-> [f \in Fields |-> None], variants |-> <<>>]

MCThings ==
    {New("media", arch, Ids("volume", v), size) :
        arch \in {"none", "x86_64", "i686"}, size \in {7, 9},
        v \in {Null, Plain(<<a>>), Plain(<<a, b>>)}}
    \cup {New("tree", arch, Ids("family", v), -1) :
        arch \in {"x86_64", "i386"}, v \in {Plain(<<a>>), Plain(<<a, b>>)}}

===============================================================================
