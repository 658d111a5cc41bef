------------------------------- MODULE Codec -------------------------------
(***************************************************************************)
(* The messages between a superior and its collectors as data on the wire  *)
(* (fractal/protocol): two bytes of type, then a JSON object whose fields  *)
(* are written in hex.  A layout gives for every field of the object how   *)
(* it is written; a message is a record with the same names, of byte       *)
(* sequences and numbers, and what the object leaves out.                  *)
(***************************************************************************)
EXTENDS Bytes

CONSTANTS
    Half,     \* values of a hex digit: 16 in the code
    HashLen,  \* bytes of a hash, and of an identifier
    G1Len, G2Len  \* bytes of a public key and of a signature

-----------------------------------------------------------------------------
(* Layouts *)

RequestQualities == [task_id |-> "hash", challenge |-> "hash", parent_target |-> "int",
                     parent_slot |-> "plain", height |-> "plain"]

Quality == [space_id |-> "plain", public_key |-> "g1", pool_public_key |-> "g1",
            index |-> "plain", k_size |-> "plain", quality |-> "bytes", plot_id |-> "hash",
            slot |-> "plain"]

ReportQualities == [task_id |-> "hash", qualities |-> "qualities"]

RequestProof == [task_id |-> "hash", height |-> "plain", space_id |-> "plain",
                 challenge |-> "hash", index |-> "plain"]

Proof == [space_id |-> "plain", challenge |-> "hash", pool_public_key |-> "g1",
          plot_public_key |-> "g1", k_size |-> "plain", proof |-> "bytes"]

ReportProof == [task_id |-> "hash", proof |-> "proof"]

RequestSignature == [task_id |-> "hash", height |-> "plain", space_id |-> "plain",
                     hash |-> "hash"]

ReportSignature == [task_id |-> "hash", space_id |-> "plain", hash |-> "hash",
                    signature |-> "g2"]

\* MsgType: a message's number is its place
Layouts == <<RequestQualities, ReportQualities, RequestProof, ReportProof, RequestSignature,
             ReportSignature>>

-----------------------------------------------------------------------------
(* Writing *)

WriteField(how, v) ==
    CASE how = "plain" -> v
      [] how = "int" -> Hex(Digits(v, Half * Half), Half)
      [] OTHER -> Hex(v, Half)

\* Quality.Msg, Proof.Msg: the fields of the layout, and no others
WriteObject(layout, m) == [f \in DOMAIN layout |-> WriteField(layout[f], m[f])]

\* the Msg of each kind
Msg(layout, m) ==
    [f \in DOMAIN layout |->
        CASE layout[f] = "qualities" -> [i \in DOMAIN m[f] |-> WriteObject(Quality, m[f][i])]
          [] layout[f] = "proof" -> WriteObject(Proof, m[f])
          [] OTHER -> WriteField(layout[f], m[f])]

\* msgTypeToBytes, msgTypeFromBytes
MsgTypeToBytes(t) == << t \div (Half * Half), t % (Half * Half) >>

MsgTypeFromBytes(bs) == bs[1] * Half * Half + bs[2]

EncodeMessage(t, m) == [type |-> MsgTypeToBytes(t), body |-> Msg(Layouts[t], m)]

-----------------------------------------------------------------------------
(* Reading *)

\* hex.DecodeString, then a length that must fit; an "int" or "bytes" has any
ReadHex(text, len) ==
    IF Len(text) % 2 # 0 \/ (len # 0 /\ Len(text) # 2 * len) THEN Err ELSE OK(Unhex(text, Half))

ReadField(how, v) ==
    CASE how = "plain" -> OK(v)
      [] how = "int" -> LET r == ReadHex(v, 0) IN IF r.ok THEN OK(Number(r.value, Half * Half)) ELSE Err
      [] how = "bytes" -> ReadHex(v, 0)
      [] how = "hash" -> ReadHex(v, HashLen)
      [] how = "g1" -> ReadHex(v, G1Len)
      [] how = "g2" -> ReadHex(v, G2Len)

\* json.Unmarshal: a field that is missing is the zero of its kind, one too many is ignored
Zero(how) == CASE how = "plain" -> 0 [] OTHER -> <<>>

Unmarshal(layout, object) ==
    [f \in DOMAIN layout |-> IF f \in DOMAIN object THEN object[f] ELSE Zero(layout[f])]

\* the values of a function of results, or an error
All(results) ==
    IF \A i \in DOMAIN results : results[i].ok THEN OK([i \in DOMAIN results |-> results[i].value])
    ELSE Err

ReadObject(layout, object) ==
    LET o == Unmarshal(layout, object)
    IN  All([f \in DOMAIN layout |-> ReadField(layout[f], o[f])])

\* NewQuality: the error is not sent
NewQuality(object) ==
    LET r == ReadObject(Quality, object)
    IN  IF r.ok THEN OK([f \in DOMAIN r.value \cup {"error"} |->
                            IF f = "error" THEN "nil" ELSE r.value[f]])
        ELSE Err

\* Proof.SetMsg: the ordinal is not sent, and the public key is the plot's
NewProof(object) ==
    LET r == ReadObject(Proof, object)
    IN  IF r.ok THEN OK([f \in DOMAIN r.value \cup {"public_key", "ordinal"} |->
                            CASE f = "public_key" -> r.value.plot_public_key
                              [] f = "ordinal" -> "unknown"
                              [] OTHER -> r.value[f]])
        ELSE Err

\* the SetMsg of each kind
SetMsg(layout, object) ==
    LET o == Unmarshal(layout, object)
    IN  All([f \in DOMAIN layout |->
            CASE layout[f] = "qualities" -> All([i \in DOMAIN o[f] |-> NewQuality(o[f][i])])
              [] layout[f] = "proof" -> NewProof(o[f])
              [] OTHER -> ReadField(layout[f], o[f])])

DecodeMessage(data) ==
    IF Len(data.type) < 2 THEN Err
    ELSE LET t == MsgTypeFromBytes(data.type)
             r == SetMsg(Layouts[t], data.body)
         IN  IF t \notin DOMAIN Layouts \/ ~r.ok THEN Err ELSE OK([type |-> t, m |-> r.value])

=============================================================================
