------------------------------ MODULE MCOsInherit ------------------------------
(* An instance of OsInherit for TLC: an OS derived from one and cloned     *)
(* from another, which derive from a third; a second file for one of them, *)
(* and an extension that closes a cycle.                                   *)
EXTENDS OsInherit

CONSTANTS child, mid, twin, base, fChild, fMid, fTwin, fBase, fMore, fLoop

MCOses == {child, mid, twin, base}

From(rel, os) == [rel |-> rel, os |-> os]

Net(device, supported) == [id |-> device, supported |-> supported]
Efi(id, supported) == [id |-> id, arch |-> "x86_64", type |-> "efi", supported |-> supported]
Bios(id, supported) == [id |-> id, arch |-> "x86_64", type |-> "bios", supported |-> supported]

Res(id, arch, inherit, ram, cpu) ==
    [id |-> id, kind |-> "minimum", arch |-> arch, inherit |-> inherit,
     fields |-> [f \in Fields |-> CASE f = "ram" -> ram [] f = "cpu" -> cpu [] OTHER -> -1]]

Desc(os, rels, user, ls, fs, rs) ==
    [os |-> os, relations |-> rels, username |-> user, links |-> ls, firmwares |-> fs,
     resources |-> rs]

MCFile ==
    [f \in Files |->
       CASE f = fChild -> Desc(child, <<From("upgrades", base), From("derives-from", mid),
                                        From("clones", twin)>>, None,
                               <<Net("virtio", "false"), Net("virtio", None)>>,
                               <<Efi("child:0", "true")>>,
                               <<Res("child:0", "x86_64", TRUE, -1, -1),
                                 Res("child:1", "i686", FALSE, -1, 2)>>)
         [] f = fMid -> Desc(mid, <<From("derives-from", base)>>, None,
                             <<Net("e1000", "false")>>,
                             <<Bios("mid:0", "false")>>,
                             <<Res("mid:0", "x86_64", TRUE, 1, -1),
                               Res("mid:1", "x86_64", TRUE, -1, 3),
                               Res("mid:2", "i686", FALSE, -1, -1)>>)
         [] f = fTwin -> Desc(twin, <<From("derives-from", base)>>, "root",
                              <<Net("e1000", None)>>,
                              <<Efi("twin:0", "false")>>,
                              <<Res("twin:0", "x86_64", FALSE, 4, -1)>>)
         [] f = fBase -> Desc(base, <<>>, "admin",
                              <<Net("virtio", "false"), Net("e1000", "true")>>,
                              <<Bios("base:0", None), Efi("base:1", "true")>>,
                              <<Res("base:0", "x86_64", FALSE, 5, 6),
                                Res("base:1", "i686", TRUE, 7, -1)>>)
         [] f = fMore -> Desc(mid, <<From("derives-from", twin)>>, "guest", <<>>,
                              <<Bios("mid:more.xml:0", "true")>>,
                              <<Res("mid:0", "x86_64", TRUE, -1, 8)>>)
         [] f = fLoop -> Desc(base, <<From("clones", mid)>>, None, <<>>, <<>>, <<>>)]

(* By what only devices, only links and only firmwares have.               *)
MCFilters == {{[id |-> "e1000"], Net("virtio", "false"), Bios("base:0", None),
               Bios("mid:more.xml:0", "true"), Efi("twin:0", "false")}}
===============================================================================
