------------------------------ MODULE MCTreeCreate ------------------------------
(* An instance of TreeCreate for TLC: locations with none, one or both of  *)
(* the two files, among them files that are no key files, that lack keys,  *)
(* and whose values have more spaces in front than the index can count,    *)
(* which here has two bits.                                                *)
EXTENDS TreeCreate

Text(first, len) == [kind |-> "text", len |-> len, first |-> first]
Broken == [kind |-> "broken", len |-> 0, first |-> 0]

File(family, arch, kernel) ==
    [state |-> "keyfile",
     values |-> [k \in KeySet |-> CASE k = "family" -> family
                                    [] k = "arch" -> arch
                                    [] k = "kernel" -> kernel
                                    [] OTHER -> Missing]]

Docs ==
    {[EmptyDoc EXCEPT !.state = "absent"], [EmptyDoc EXCEPT !.state = "garbage"]}
    \cup {File(f, a, k) : f \in {Text(1, 2), Text(3, 3), Text(4, 5)},
                          a \in {Missing, Text(0, 1)},
                          k \in {Text(0, 2), Text(4, 4), Broken}}

MCJobs == [protocol : {"http", "file"}, files : [Names -> Docs], chunked : BOOLEAN]
          \cup [protocol : {"other"}, files : [Names -> {EmptyDoc}], chunked : {FALSE}]
===============================================================================
