-------------------------- MODULE MCStructurePass --------------------------
(***************************************************************************)
(* Instances of StructurePass for TLC: the volumes of its run.             *)
(***************************************************************************)
EXTENDS StructurePass

Pair(length, offset) == [ length |-> length, offset |-> offset ]

Rec(in_use, is_dir, parent, name, data, size, pairs) ==
    [ in_use |-> in_use, is_dir |-> is_dir, parent |-> parent,
      name |-> name, data |-> data, size |-> size, pairs |-> pairs ]

Mft == << Rec(TRUE, FALSE, 1, "$", "runs", 1, << Pair(1, 1) >>),
          Rec(TRUE, TRUE, 1, ".", "none", 0, << >>) >>

NtfsVolume(records, allocated, content, filter) ==
    [ fs |-> "ntfs", opens |-> TRUE, records |-> Mft \o records, mft_runs |-> << RunOf(0, 1, 1) >>,
      allocated |-> allocated, content |-> content, filter |-> filter,
      bad |-> {}, splits |-> {} ]

Plain == [ c \in 0 .. NClusters - 1 |-> "a" ]

\* A deleted and an existing file of one name over each other's clusters.
Overlaid(data, size, pairs, there, bitmap, other, same) ==
    NtfsVolume(<< Rec(FALSE, FALSE, 1, "x", data, size, pairs),
                  Rec(TRUE, FALSE, 1, "x", "runs", 1, << Pair(1, there) >>) >>,
               IF bitmap THEN { 1, there } \cup other ELSE None,
               [ c \in 0 .. NClusters - 1 |->
                   IF c \in same THEN "a" ELSE IF c = 1 THEN "mft" ELSE "magic" ], None)

DataVolumes ==
    { Overlaid(data, size, pairs, there, bitmap, other, same) :
        data \in { "runs", "compressed" }, size \in { 1, 2 },
        pairs \in { << Pair(2, 3) >>, << Pair(3, 3) >>, << Pair(1, 3), Pair(1, 2) >>, << Pair(1, 5), Pair(1, -2) >>,
                    << Pair(1, 3), Pair(1, NoOffset) >>, << Pair(1, 3), Pair(-1, NoOffset) >>,
                    << Pair(1, 3), Pair(1, -4) >> },
        there \in { 4, 5, 6 }, bitmap \in BOOLEAN, other \in SUBSET { 3 },
        same \in { { 3, 4, 5, 6 }, { 3, 7 }, { 5, 6, 7 }, { } } }

\* The same with bad sectors: in the file, in its head, in its copies.
BadVolumes ==
    { [ Overlaid("runs", 2, pairs, there, TRUE, {}, same) EXCEPT !.bad = bad ] :
        pairs \in { << Pair(2, 3) >>, << Pair(1, 3), Pair(1, 2) >> }, there \in { 4, 5 },
        same \in { { 3, 4, 5, 6 }, { 3, 6, 7 }, { 5, 6, 7 } }, bad \in { { 3 }, { 4 }, { 5 }, { 6 }, { 7 } } }

Names2 == { "a", "b" }

\* Two records that are directories or deleted ones, and the file of a third
\* and a fourth somewhere above or below them.
PathVolumes ==
    { NtfsVolume(<< r2, r3, Rec(TRUE, FALSE, p4, n4, "runs", 1, << Pair(1, 4) >>),
                    Rec(in_use, FALSE, 2, "b", "resident", 1, << >>) >>,
                 { 1, 4 }, Plain, filter) :
        r2 \in { Rec(TRUE, TRUE, p, n, "none", 0, << >>) : p \in { 1, 3 }, n \in Names2 } \cup { None },
        r3 \in { Rec(TRUE, TRUE, p, n, "none", 0, << >>) : p \in { 1, 2 }, n \in Names2 }
                 \cup { Rec(FALSE, FALSE, p, "a", "resident", 1, << >>) : p \in { 1, 2 } },
        p4 \in { 1, 2, 3 }, n4 \in { "a", "b" }, in_use \in BOOLEAN,
        filter \in { None, << "a" >>, << "a", "b" >> } }

\* Files in and beside the directory of the filter, one of them with a name that is
\* split inside a character.
SplitVolumes ==
    { [ NtfsVolume(<< Rec(TRUE, TRUE, 1, "a", "none", 0, << >>),
                      Rec(TRUE, FALSE, p, n, "runs", 1, << Pair(1, 5) >>),
                      Rec(TRUE, FALSE, q, m, "runs", 1, << Pair(1, 4) >>),
                      Rec(TRUE, FALSE, 2, "d", "resident", 1, << >>) >>, { 1, 4, 5 }, Plain, << "a" >>)
        EXCEPT !.splits = { << "b" >> } ] :
        p \in { 1, 2 }, q \in { 1, 2 }, n \in { "b", "c" }, m \in { "b", "c" } }

\* A directory without a name on the way to a file, and a root that is a file.
OddNames ==
    { NtfsVolume(<< Rec(TRUE, TRUE, 1, n2, "none", 0, << >>), Rec(TRUE, TRUE, 2, n3, "none", 0, << >>),
                    Rec(TRUE, FALSE, p4, "x", "resident", 1, << >>) >>, { 1 }, Plain, filter) :
        n2 \in { "a", "" }, n3 \in { "b", "" }, p4 \in { 2, 3 }, filter \in { None, << "a" >> } }
    \cup { [ NtfsVolume(<< >>, { 1 }, Plain, None) EXCEPT !.records =
              << Mft[1], Rec(TRUE, FALSE, 1, "x", "resident", 1, << >>) >> ] }

NoNtfs == { [ NtfsVolume(<< >>, { }, Plain, None) EXCEPT !.opens = FALSE ] }

-----------------------------------------------------------------------------
Item(name, kind, ino, size) == [ name |-> name, kind |-> kind, ino |-> ino, size |-> size ]
End == << Item("", "end", 0, 0) >>
Dots(n) == << Item(".", "dir", n, 0), Item("..", "dir", 0, 0) >>

FatVolume(start, dirs) == [ fs |-> "fat", start_data |-> start, dirs |-> dirs ]

\* One or two directories anywhere in the data area, with files anywhere.
FatVolumes ==
    { FatVolume(start, d :> (Dots(d) \o << Item("x", "file", i, s), Item("y", "file", j, 1) >> \o tail)) :
        start \in { 6 }, d \in 2 .. 7, i \in 0 .. 7, s \in 0 .. 2, j \in { 3, 6, 7 },
        tail \in { End, << >>, << Item("z", "dir", 4, 0) >> \o End } }
    \cup { FatVolume(6, (d :> (Dots(d) \o << Item("x", "file", i, 2) >>))
                         @@ (g :> (Dots(g) \o << Item("x", "file", i, 1), Item("x", "file", 5, 1) >> \o End))) :
             d \in { 2, 3, 4 }, g \in { 5, 6, 7 }, i \in 2 .. 7 }
    \cup { FatVolume(None, 2 :> Dots(2)), FatVolume(4, 2 :> (Dots(2) \o End)), FatVolume(18, 2 :> Dots(2)) }

-----------------------------------------------------------------------------
TreeVolume(opens, root, fat, dirs, filter) ==
    [ fs |-> "fatdir", opens |-> opens, start_data |-> 6, root_cluster |-> root,
      fat |-> fat, dirs |-> dirs, filter |-> filter ]

Chains == { [ n \in 2 .. 7 |-> IF n = 3 THEN a ELSE IF n = 6 THEN b ELSE EOC ] :
              a \in { EOC, 4, 3, 0 }, b \in { EOC, 7, 6, 0, 5 } }

\* A root with a file and two directories, which may contain each other.
TreeVolumes ==
    { TreeVolume(opens, root, fat,
        (root :> (<< Item("a", "dir", 3, 0), Item("f", "file", 6, s), Item("b", "dir", q, 0) >> \o End))
          @@ (3 :> (Dots(3) \o << sub >> \o (IF fat[3] = 4 THEN << >> ELSE End)))
          @@ (4 :> (<< Item("f", "file", 6, 1), Item("f", "file", 5, 1) >> \o End))
          @@ (5 :> (Dots(5) \o << Item("f", "file", 7, 2), Item("b", "dir", 3, 0) >> \o End)), filter) :
        opens \in { TRUE }, root \in { 0, 2 }, fat \in Chains, s \in { 0, 2, 3 }, q \in { 0, 5 },
        sub \in { Item("b", "dir", 5, 0), Item("b", "dir", 3, 0), Item("f", "file", 7, 1), Item("f", "dir", 5, 0) },
        filter \in { << >>, << "a" >>, << "a", "b" >>, << "c" >> } }
    \cup { TreeVolume(FALSE, 0, << >>, << >>, << "a" >>),
           TreeVolume(TRUE, 9, << >>, << >>, << "a" >>),
           TreeVolume(TRUE, 0, 5 :> 7, 0 :> (<< Item("f", "file", 6, 1), Item("f", "file", 5, 2),
                                                Item("f", "file", 0, 0), Item("f", "file", 5, 1) >> \o End), << >>),
           TreeVolume(TRUE, 0, << >>, 0 :> (<< Item("f", "file", 6, 1), Item("f", "dir", 3, 0) >> \o End)
                            @@ 3 :> (<< Item("g", "file", 7, 1) >> \o End), << >>) }

\* The hypotheses of the theorems about the passes; the volumes meet them.
ASSUME VolumesAreFit == PartitionOnDisk /\ VolumesFit /\ NamesSuffice

AllVolumes == DataVolumes \cup BadVolumes \cup SplitVolumes \cup PathVolumes \cup OddNames \cup NoNtfs \cup FatVolumes \cup TreeVolumes
=============================================================================
