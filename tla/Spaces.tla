------------------------------- MODULE Spaces -------------------------------
(***************************************************************************)
(* The work spaces as both keepers list them and as the API names them.    *)
(* A space is [key, ord, bl, state, using]; what a client calls a space is *)
(* the text between the dashes of its id, a sequence of words              *)
(* [is, of, form]: a public key, a plot id, a number or something else,    *)
(* written as the keeper writes it ("own"), in another form that means the *)
(* same ("other": upper case, leading zeros) or too long for an id.        *)
(***************************************************************************)
EXTENDS Bytes, Bitwise

CONSTANTS Tie(_)  \* the first bytes of a key's hash as a fraction: 0, 1 or 2 quarters

-----------------------------------------------------------------------------
(* States and flags *)

Registered == 0
Plotting == 1
Ready == 2
Mining == 3
FirstState == Registered
LastState == Mining

Flag(s) == 2^s

SFAll == Flag(Registered) + Flag(Plotting) + Flag(Ready) + Flag(Mining)

ContainsFlag(flags, flag) == (flags & flag) = flag

\* States, in ascending order
StatesOf(flags) ==
    SelectSeq([i \in 1..(LastState - FirstState + 1) |-> FirstState + i - 1],
              LAMBDA s : ContainsFlag(flags, Flag(s)))

\* getWsByFlags
WsByFlags(spaces, flags) == SelectSeq(spaces, LAMBDA w : w.state \in ToSet(StatesOf(flags)))

\* WorkSpaceIDs, WorkSpaceInfos: all of the list without looking at states if all are asked
WorkSpaceInfos(spaces, flags) ==
    IF ContainsFlag(flags, SFAll) THEN spaces ELSE WsByFlags(spaces, flags)

-----------------------------------------------------------------------------
(* Ids *)

Word(is, of) == [is |-> is, of |-> of, form |-> "own"]

\* SpaceID.String of v1: the key and the bit length
Sid(w) == <<Word("key", w.key), Word("number", w.bl)>>

\* SpaceID.String of v2: the hash of the keys of the pool and the plot
SidV2(w) == <<Word("plot id", w.key), Word("number", w.bl)>>

\* getBindingTarget: Hash160 of the key or plot id, the type of proof, the bit length
BindingTarget(pub, proofType, bl) == <<pub, proofType, bl>>

\* workSpaceInfo2ProtoWorkSpace
ProtoWorkSpace(w) ==
    [space_id |-> Sid(w), ordinal |-> w.ord, public_key |-> w.key, bit_length |-> w.bl,
     state |-> w.state, target |-> BindingTarget(w.key, "default", w.bl)]

\* workSpaceInfo2ProtoWorkSpaceV2
ProtoWorkSpaceV2(w) ==
    [space_id |-> SidV2(w), plot_id |-> w.key, k |-> w.bl,
     target |-> BindingTarget(w.key, "chia", w.bl)]

\* getWorkSpaceInfos, getCapacitySpaces
GetCapacitySpaces(spaces, flags) ==
    LET infos == WorkSpaceInfos(spaces, flags)
    IN  [i \in DOMAIN infos |-> ProtoWorkSpace(infos[i])]

\* WorkSpaceInfos of v2's keeper, which is v1's
WorkSpaceInfosV2(spaces, flags) == WorkSpaceInfos(spaces, flags)

\* deleteFromSlice: the first with that id
DeleteFromSlice(spaces, sid) ==
    LET at == {i \in DOMAIN spaces : Sid(spaces[i]) = sid}
    IN  IF at = {} THEN spaces
        ELSE RemoveAt(spaces, CHOOSE i \in at : \A j \in at : i <= j)

\* checkSpaceIDLen, decodeAPISpaceID, decodeAPISpaceIDV2: the text itself is the result
Decode(sid, is) ==
    IF /\ \A i \in DOMAIN sid : sid[i].form # "long"
       /\ Len(sid) = 2 /\ sid[1].is = is /\ sid[2].is = "number"
    THEN OK(sid) ELSE Err

\* getWorkSpaceInfo, getWorkSpaceInfoV2: an invalid id, an unknown one, or the space
FindSpace(infos, sid, is) ==
    LET found == SelectSeq(infos, LAMBDA w : sid = IF is = "key" THEN Sid(w) ELSE SidV2(w))
    IN  IF Decode(sid, is).ok /\ found # <<>> THEN OK(found[1]) ELSE Err

\* getCapacitySpace, GetCapacitySpace
GetCapacitySpace(spaces, sid) ==
    LET r == FindSpace(WorkSpaceInfos(spaces, SFAll), sid, "key")
    IN  IF r.ok THEN OK(ProtoWorkSpace(r.value)) ELSE Err

\* getCapacitySpaceV2, GetCapacitySpaceV2
GetCapacitySpaceV2(spaces, sid) ==
    LET r == FindSpace(WorkSpaceInfosV2(spaces, SFAll), sid, "plot id")
    IN  IF r.ok THEN OK(ProtoWorkSpaceV2(r.value)) ELSE Err

-----------------------------------------------------------------------------
(* The spaces of a directory *)

\* queuedWorkSpace.priority in quarters
Priority(w) == Tie(w.key) - 4 * w.ord

\* WorkSpacePath.Add: a space it has stays; else in front of the first of lower priority
PathAdd(spaces, w) ==
    LET lower == {i \in DOMAIN spaces : Priority(w) > Priority(spaces[i])}
        at == IF lower = {} THEN Len(spaces) + 1
              ELSE CHOOSE i \in lower : \A j \in lower : i <= j
    IN  IF \E i \in DOMAIN spaces : Sid(spaces[i]) = Sid(w) THEN spaces
        ELSE InsertAt(spaces, at, w)

PathOf(found) == FoldLeft(PathAdd, <<>>, found)

\* WorkSpaceInfosByDirs, for one directory
InUse(path) == SelectSeq(path, LAMBDA w : w.using)
=============================================================================
