---------------------------- MODULE OnDemandReason ----------------------------
(***************************************************************************)
(* Why an SA is started, stopped, idled or activated: the reason, from the *)
(* JSON of the event (JsonToOnDemandReason) over the extra data that samgr *)
(* keeps for a common event (GetOnDemandReasonExtraData, Marshalling) to   *)
(* an SA written in Rust (rust/src/wrapper.rs and its C++ side).  A JSON   *)
(* object and a map are functions, a parcel is the sequence of what was    *)
(* written to it, and a pointer that may be null is a sequence of at most  *)
(* one element.                                                            *)
(***************************************************************************)
EXTENDS Integers, Sequences, FiniteSets, Functions

CONSTANT INT_MAX   \* the largest int

AnyInt == -INT_MAX - 1 .. INT_MAX

COMMON_EVENT == 4   \* of enum OnDemandReasonId, 0..6

NoEvent == <<>>     \* the JSON null

NoExtraData == [code |-> -1, data |-> <<>>, want |-> <<>>]

Field(json, key, default) == IF key \in DOMAIN json THEN json[key] ELSE default

\* Copies the fields that are there.  reasonId_ has no initializer: without an
\* event it may hold anything.
JsonToOnDemandReason(json) ==
  {[id |-> id, name |-> Field(json, "name", <<>>), value |-> Field(json, "value", <<>>),
    extraDataId |-> Field(json, "extraDataId", -1), extraData |-> NoExtraData] :
     id \in IF "eventId" \in DOMAIN json THEN {json["eventId"]} ELSE AnyInt}

Marshalling(data) == <<data.code, data.data, data.want>>

\* Null if code or text cannot be read; without a third string there is no want.
Unmarshalling(parcel) ==
  IF Len(parcel) < 2 THEN <<>>
  ELSE <<[code |-> parcel[1], data |-> parcel[2],
          want |-> IF Len(parcel) < 3 THEN <<>> ELSE parcel[3]]>>

HasExtraData(reason) == reason.id = COMMON_EVENT

\* samgr's reply is the parcel of the extra data, or empty if the call failed.
GetOnDemandReasonExtraData(reason, reply) ==
  IF HasExtraData(reason) /\ Unmarshalling(reply) # <<>>
  THEN [reason EXCEPT !.extraData = Unmarshalling(reply)[1]] ELSE reason

-----------------------------------------------------------------------------
(* The bindings for Rust, which holds a want as the list of its keys and values *)

\* The keys as the iterator of the map comes to them.
Keys(want) == CHOOSE keys \in Bijection(1..Cardinality(DOMAIN want), DOMAIN want) : TRUE

\* Every key is followed by its value.
WantList(want) ==
  [i \in 1..2 * Cardinality(DOMAIN want) |->
     IF i % 2 = 1 THEN Keys(want)[(i + 1) \div 2] ELSE want[Keys(want)[i \div 2]]]

\* Mutant: the last pair is taken for a key without a value.
KeyPlacesShort(list) == {i \in 1..Len(list) - 2 : i % 2 = 1}

\* The places of the keys in a list; a key without a value is dropped.
KeyPlaces(list) == {i \in 1..Len(list) - 1 : i % 2 = 1}

BuildReasonWrapper(reason) ==
  [name |-> reason.name, value |-> reason.value, reason_id |-> reason.id,
   extra_data |-> [data |-> reason.extraData.data, code |-> reason.extraData.code,
                   want |-> WantList(reason.extraData.want)],
   extra_data_id |-> reason.extraDataId]

\* OnDemandReasonExtraData::want: of equal keys the last one counts.
Want(list) ==
  [key \in {list[i] : i \in KeyPlaces(list)} |->
     list[CHOOSE i \in {j + 1 : j \in KeyPlaces(list)} :
            /\ list[i - 1] = key
            /\ \A j \in KeyPlaces(list) : list[j] = key => j < i]]

\* The pairs are inserted into a map: of equal keys the first one counts.
InsertedWant(list) ==
  [key \in {list[i] : i \in KeyPlaces(list)} |->
     list[CHOOSE i \in {j + 1 : j \in KeyPlaces(list)} :
            /\ list[i - 1] = key
            /\ \A j \in KeyPlaces(list) : list[j] = key => j >= i - 1]]

SerializeOnDemandReasonExtraData(extra) ==
  Marshalling([code |-> extra.code, data |-> extra.data, want |-> InsertedWant(extra.want)])

DeserializeOnDemandReasonExtraData(parcel) ==
  LET read == Unmarshalling(parcel)
  IN IF read = <<>> THEN [data |-> <<>>, code |-> 0, want |-> <<>>]
     ELSE [data |-> read[1].data, code |-> read[1].code, want |-> WantList(read[1].want)]

serialize(reason) ==
  <<reason.name, reason.value, reason.reason_id,
    SerializeOnDemandReasonExtraData(reason.extra_data), reason.extra_data_id>>

RustReasonId == 0..5   \* the enumeration of the bindings ends with TIMED_EVENT

\* Empty if the reason id is none of the enumeration.
deserialize(parcel) ==
  IF parcel[3] \notin RustReasonId THEN <<>>
  ELSE <<[name |-> parcel[1], value |-> parcel[2], reason_id |-> parcel[3],
          extra_data |-> DeserializeOnDemandReasonExtraData(parcel[4]),
          extra_data_id |-> parcel[5]]>>
=============================================================================
