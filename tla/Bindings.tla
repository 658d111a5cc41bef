------------------------------ MODULE Bindings ------------------------------
(***************************************************************************)
(* getbindinglist of the command line client: the targets to bind, either  *)
(* from the plot files in given directories (offline) or from the spaces   *)
(* of a running miner (online), which found the same files in the          *)
(* directories of its configuration.  A directory is a sequence of files,  *)
(* or not readable; a file has the plot its header is of, and whether its  *)
(* name is regular, the name agrees with the header and the wallet, the    *)
(* header can be read and the plot is complete.                            *)
(***************************************************************************)
EXTENDS Sequences, SequencesExt, FiniteSets

\* what cannot be read or has another suffix is not listed
Readable(dirs) == SelectSeq(dirs, LAMBDA d : d.ok)
FilesIn(dirs) == FoldLeft(LAMBDA s, d : s \o d.files, <<>>, dirs)

\* generateInitialIndex, both: the first readable file of a plot is its space
IndexOfFiles(files) ==
    FoldLeft(LAMBDA s, f : IF f.whole /\ \A i \in DOMAIN s : s[i].plot # f.plot
                           THEN Append(s, f) ELSE s, <<>>, files)

\* the index of v1: the wallet has the key the file is named after, under the ordinal of the
\* name, and the header has the key and the bit length of the name
SpacesV1(dirs, owned) ==
    IndexOfFiles(SelectSeq(FilesIn(Readable(dirs)),
                           LAMBDA f : f.regular /\ f.named /\ f.plot \in owned))

\* the index of v2: any name, any key
SpacesV2(dirs) == IndexOfFiles(FilesIn(Readable(dirs)))

\* list.RemoveDuplicate
Targets(files) == {f.plot : f \in ToSet(files)}

\* getOnlineBindingListV1: the spaces in state ready or mining, or all; after
\* ConfigureByFlags every space is in use, and ready or mining if it is plotted
OnlineV1(dirs, owned, all) ==
    Targets(SelectSeq(SpacesV1(dirs, owned), LAMBDA f : all \/ f.plotted))

\* getOnlineBindingListV2: every space
OnlineV2(dirs) == Targets(SpacesV2(dirs))

\* Bug: the plots that are not complete
OfflineV1Swapped(dirs, all) ==
    Targets(SelectSeq(FilesIn(dirs), LAMBDA f : f.regular /\ f.whole /\ (all \/ ~f.plotted)))

\* getOfflineBindingListV1: of the name only its form
OfflineV1(dirs, all) ==
    Targets(SelectSeq(FilesIn(dirs), LAMBDA f : f.regular /\ f.whole /\ (all \/ f.plotted)))

\* getOfflineBindingListV2: those the keystore can farm, if one is given
OfflineV2(dirs, keystore, owned) ==
    Targets(SelectSeq(FilesIn(dirs),
                      LAMBDA f : f.regular /\ f.whole /\ (keystore => f.plot \in owned)))

\* a directory that cannot be read ends the search with an error
OfflineFails(dirs) == \E d \in ToSet(dirs) : ~d.ok
=============================================================================
