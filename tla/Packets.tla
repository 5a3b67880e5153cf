------------------------------ MODULE Packets ------------------------------
(***************************************************************************)
(* The packet bodies of crates/protocol/src/packets, written and read back *)
(* or supplied by a peer byte by byte, and the answers of connection.rs to *)
(* them: the status document, the pong, and a LoginSuccess with the        *)
(* identity of crates/net/src/offline.rs or a refusal of the name.         *)
(***************************************************************************)
EXTENDS Fields

LOCAL INSTANCE SequencesExt

CONSTANTS
    MAX_SERVER_ADDRESS_CHARS, MAX_STATUS_JSON_CHARS, MAX_DISCONNECT_REASON_CHARS,
    MAX_USERNAME_CHARS, MAX_PROPERTY_NAME_CHARS, MAX_PROPERTY_VALUE_CHARS,
    MAX_SIGNATURE_CHARS, MAX_PROFILE_PROPERTIES,
    NameBytes,                  \* the bytes of [a-zA-Z0-9_]
    Md5(_),                     \* the digest of OfflinePlayer:<name>, W128 bytes
    to_string(_),               \* serde_json: the JSON of a document
    VERSION_NAME, PROTOCOL_VERSION,
    InvalidUsernameText,        \* what a refused client is told
    Configs,                    \* of ServerConfig: motd and max_players
    VersionByte, VariantByte,   \* where a UUID keeps them: 7 and 9, counted from 1
    Samples,                    \* the packets of each kind that are encoded
    InputBytes, MaxBytes        \* bytes a peer sends as a packet of each kind, and
                                \* the bound on how many

VARIABLES
    kind,      \* the type of the packet
    packet,    \* the one encoded, if any: a sequence of at most one
    src,       \* the bytes of its body
    result     \* what decode makes of src

vars == <<kind, packet, src, result>>

-----------------------------------------------------------------------------
(***************************************************************************)
(* encode.                                                                 *)
(***************************************************************************)
code(next_state) == CHOOSE i \in DOMAIN NextState : NextState[i] = next_state

encode_property(p) ==
    write_string(p.name) \o write_string(p.value)
        \o write_prefixed_optional([i \in DOMAIN p.signature |-> write_string(p.signature[i])])

encode_profile(p) ==
    write_uuid(p.uuid) \o write_string(p.username)
        \o write_prefixed_array([i \in DOMAIN p.properties |-> encode_property(p.properties[i])])

encode_Handshake(p) ==
    write_varint(p.protocol_version) \o write_string(p.server_address)
        \o write_u16(p.server_port) \o write_varint(code(p.next_state))

encode_StatusResponse(p) == write_string(p.json)
encode_PingRequest(p) == write_i64(p.payload)
encode_PongResponse(p) == write_i64(p.payload)
encode_LoginDisconnect(p) == write_string(p.reason)
encode_LoginStart(p) == write_string(p.name) \o write_uuid(p.uuid)
encode_SetCompression(p) == write_varint(p.threshold)
encode_LoginSuccess(p) == encode_profile(p.profile) \o write_uuid(p.session_id)

encode(k, p) ==
    CASE k = "Handshake" -> encode_Handshake(p)
      [] k = "StatusResponse" -> encode_StatusResponse(p)
      [] k = "PingRequest" -> encode_PingRequest(p)
      [] k = "PongResponse" -> encode_PongResponse(p)
      [] k = "LoginDisconnect" -> encode_LoginDisconnect(p)
      [] k = "LoginStart" -> encode_LoginStart(p)
      [] k = "SetCompression" -> encode_SetCompression(p)
      [] k = "LoginSuccess" -> encode_LoginSuccess(p)
      [] k \in {"StatusRequest", "LoginAcknowledged"} -> <<>>

(***************************************************************************)
(* decode.                                                                 *)
(***************************************************************************)
Handshake ==
    StructField(<<<<"protocol_version", VarIntField>>,
                  <<"server_address", StringField(MAX_SERVER_ADDRESS_CHARS)>>,
                  <<"server_port", U16Field>>, <<"next_state", NextStateField>>>>)

StatusRequest == StructField(<<>>)
StatusResponse == StructField(<<<<"json", StringField(MAX_STATUS_JSON_CHARS)>>>>)
PingRequest == StructField(<<<<"payload", I64Field>>>>)
PongResponse == StructField(<<<<"payload", I64Field>>>>)

LoginDisconnect == StructField(<<<<"reason", StringField(MAX_DISCONNECT_REASON_CHARS)>>>>)

ProfileProperty ==
    StructField(<<<<"name", StringField(MAX_PROPERTY_NAME_CHARS)>>,
                  <<"value", StringField(MAX_PROPERTY_VALUE_CHARS)>>,
                  <<"signature", OptionalField(StringField(MAX_SIGNATURE_CHARS))>>>>)

GameProfile ==
    StructField(<<<<"uuid", UuidField>>, <<"username", StringField(MAX_USERNAME_CHARS)>>,
                  <<"properties", ArrayField(MAX_PROFILE_PROPERTIES, ProfileProperty)>>>>)

LoginStart ==
    StructField(<<<<"name", StringField(MAX_USERNAME_CHARS)>>, <<"uuid", UuidField>>>>)

SetCompression == StructField(<<<<"threshold", VarIntField>>>>)
LoginSuccess == StructField(<<<<"profile", GameProfile>>, <<"session_id", UuidField>>>>)
LoginAcknowledged == StructField(<<>>)

Packet == [Handshake |-> Handshake, StatusRequest |-> StatusRequest,
           StatusResponse |-> StatusResponse, PingRequest |-> PingRequest,
           PongResponse |-> PongResponse, LoginDisconnect |-> LoginDisconnect,
           LoginStart |-> LoginStart, SetCompression |-> SetCompression,
           LoginSuccess |-> LoginSuccess, LoginAcknowledged |-> LoginAcknowledged]

decode(k, bytes) == read(Packet[k], bytes)

-----------------------------------------------------------------------------
(***************************************************************************)
(* Documents, offline identity, and the answers of handle_status_request,  *)
(* handle_ping and handle_login_start.                                     *)
(***************************************************************************)
TextComponent(text) ==
    [text |-> text, color |-> <<>>, bold |-> <<>>, italic |-> <<>>, extra |-> <<>>]

StatusResponseJson(description, max_players, online_players) ==
    [version |-> [name |-> VERSION_NAME, protocol |-> PROTOCOL_VERSION],
     players |-> [max |-> max_players, online |-> online_players, sample |-> <<>>],
     description |-> description, favicon |-> <<>>, enforces_secure_chat |-> FALSE]

from_component(reason) == [reason |-> to_string(reason)]

validate_username(name) ==
    /\ name # <<>>
    /\ Chars(name) <= MAX_USERNAME_CHARS
    /\ \A i \in DOMAIN name : name[i] \in NameBytes

\* The high half of a byte, and its two top bits.
HalfByte == 2 ^ ((PayloadBits + 1) \div 2)
QuarterByte == Base \div 2

offline_uuid(name) ==
    FromBigEndian([Md5(name) EXCEPT ![VersionByte] = (@ % HalfByte) + 3 * HalfByte,
                                    ![VariantByte] = (@ % QuarterByte) + 2 * QuarterByte])

\* Fault: the identity the client claims is granted.
Granted_Claimed(start) ==
    [profile |-> [uuid |-> start.uuid, username |-> start.name, properties |-> <<>>],
     session_id |-> start.uuid]

Granted(start) ==
    LET uuid == offline_uuid(start.name)
    IN  [profile |-> [uuid |-> uuid, username |-> start.name, properties |-> <<>>],
         session_id |-> uuid]

\* RawPacket::decode_as leaves nothing over.
Whole == result.result = "ok" /\ result.rest = <<>>

Becomes(k, p) ==
    /\ kind' = k
    /\ packet' = <<p>>
    /\ src' = encode(k, p)
    /\ result' = decode(k, src')

\* The body of the request is not looked at.
AnswerStatus(config) ==
    /\ kind = "StatusRequest"
    /\ Becomes("StatusResponse",
               [json |-> to_string(StatusResponseJson(TextComponent(config.motd),
                                                      config.max_players, 0))])

AnswerPing ==
    /\ kind = "PingRequest" /\ Whole
    /\ Becomes("PongResponse", [payload |-> result.value.payload])

AnswerLogin ==
    /\ kind = "LoginStart" /\ Whole
    /\ IF validate_username(result.value.name)
       THEN Becomes("LoginSuccess", Granted(result.value))
       ELSE Becomes("LoginDisconnect", from_component(TextComponent(InvalidUsernameText)))

-----------------------------------------------------------------------------
(***************************************************************************)
(* Packets encoded here, and bytes from a peer.                            *)
(***************************************************************************)
Encode(p) == packet = <<>> /\ src = <<>> /\ Becomes(kind, p)

\* The peer's bytes, or bytes that follow an encoded packet.
Receive(byte) ==
    /\ packet = <<>> => result.result = "UnexpectedEof" /\ Len(src) < MaxBytes[kind]
    /\ packet # <<>> => Len(src) = Len(encode(kind, packet[1]))
    /\ src' = Append(src, byte)
    /\ result' = decode(kind, src')
    /\ UNCHANGED <<kind, packet>>

Init ==
    /\ kind \in DOMAIN Packet
    /\ packet = <<>>
    /\ src = <<>>
    /\ result = decode(kind, <<>>)

Next ==
    \/ \E p \in Samples[kind] : Encode(p)
    \/ \E byte \in InputBytes[kind] : Receive(byte)
    \/ \E config \in Configs : AnswerStatus(config)
    \/ AnswerPing
    \/ AnswerLogin

Spec == Init /\ [][Next]_vars

-----------------------------------------------------------------------------
(***************************************************************************)
(* Properties.                                                             *)
(***************************************************************************)

\* Every string and array of a value, with its limit, counted by `measure`.
RECURSIVE WithinLimits(_, _, _)
WithinLimits(field, value, measure) ==
    CASE field.kind = "string" ->
            field.max >= IF measure = "units" THEN Utf16Units(value) ELSE Chars(value)
      [] field.kind = "array" ->
            Len(value) <= field.max /\ \A i \in DOMAIN value : WithinLimits(field.of, value[i], measure)
      [] field.kind = "optional" -> \A i \in DOMAIN value : WithinLimits(field.of, value[i], measure)
      [] field.kind = "struct" ->
            \A i \in DOMAIN field.of :
                WithinLimits(field.of[i][2], value[field.of[i][1]], measure)
      [] OTHER -> TRUE

Reads(verdict, value, rest) ==
    verdict.result = "ok" /\ verdict.value = value /\ verdict.rest = rest

\* A packet whose strings keep to their limit as the protocol counts it, in
\* UTF-16 code units, is read back as it was whatever characters they hold, and
\* decode leaves what follows it alone (MAX_BYTES_PER_CHAR; packets/mod.rs).
EncodedReadsBack ==
    packet # <<>> /\ WithinLimits(Packet[kind], packet[1], "units") =>
        Reads(result, packet[1], Drop(src, Len(encode(kind, packet[1]))))

\* Two bodies read as the same packet differ only in the spelling of a VarInt:
\* what encode makes of a packet that was read is no longer than what was
\* consumed, reads as the same packet, and, if it is as long, differs at most in
\* the spare bits of a VarInt of full length.  So presence tags, characters and
\* counts leave no choice (read_prefixed_optional, read_string).
AcceptedCanonical ==
    result.result = "ok" =>
        LET consumed == Take(src, Len(src) - Len(result.rest))
            again == encode(kind, result.value)
        IN  /\ Reads(decode(kind, again), result.value, <<>>)
            /\ Len(again) <= Len(consumed)
            /\ Len(again) = Len(consumed) =>
                   \A i \in DOMAIN again :
                       \/ again[i] = consumed[i]
                       \/ i >= MaxLen /\ \A j \in 1..(MaxLen - 1) : Continues(consumed[i - j])

\* A verdict does not depend on what follows the packet: once decode has
\* accepted or refused for a reason other than the end of its input, one more
\* byte changes nothing but the rest.  So a body cut short is always reported
\* as cut short, and decode reads nothing beyond its own fields.
VerdictFinal ==
    result.result # "UnexpectedEof" =>
        \A byte \in InputBytes[kind] :
            LET next == decode(kind, Append(src, byte))
            IN  /\ next.result = result.result
                /\ result.result = "ok" => next = [result EXCEPT !.rest = Append(@, byte)]

AllowedNames == BoundedSeq(NameBytes, MAX_USERNAME_CHARS) \ {<<>>}

\* The client can read every answer: the pong carries the payload bit for bit,
\* and the granted profile the very name that was validated.  The identity is
\* the same whatever UUID the client claims, and is a version 3 UUID of the
\* RFC 4122 variant; a login is granted exactly when the name has only
\* characters of the class, at least one and not too many, and otherwise refused
\* with a reason the client can read (handle_login_start, offline_uuid,
\* validate_username).
AnswersReadBack ==
    [][/\ kind = "PingRequest" /\ kind' = "PongResponse" =>
              src' = src /\ result'.value = result.value
       /\ kind = "LoginStart" /\ kind' = "LoginDisconnect" =>
              result'.result = "ok" /\ result.value.name \notin AllowedNames
       /\ kind = "LoginStart" /\ kind' = "LoginSuccess" =>
              LET uuid == BigEndian(result'.value.session_id, W128)
              IN  /\ result'.result = "ok" /\ result.value.name \in AllowedNames
                  /\ result'.value.profile.username = result.value.name
                  /\ result'.value.profile.uuid = result'.value.session_id
                  /\ uuid[VersionByte] \div HalfByte = 3
                  /\ uuid[VariantByte] \div QuarterByte = 2
                  /\ \A byte \in InputBytes[kind] :
                        Granted([result.value EXCEPT !.uuid = byte]) = result'.value]_vars

\* The VarInt readers and the writer agree on every byte sequence (the body of a
\* SetCompression is one VarInt) and whatever byte follows it.  The slice reader of the framing codec
\* returns what read_varint does and consumes the bytes it says, None where the
\* other reports the end of the input.  What write_varint makes of the value is
\* its shortest form, as long as varint_len says, the full length for every
\* negative value, and every proper prefix of it is incomplete, never an error.
VarIntsAgree ==
    kind = "SetCompression" =>
        \A more \in {<<>>} \cup {<<byte>> : byte \in InputBytes[kind]} :
            LET input == src \o more
                slice == read_varint_slice(input)
                taken == read_varint(input)
                bytes == write_varint(slice.value)
            IN  /\ slice.result = "none" <=> taken.result = "UnexpectedEof"
                /\ slice.result = "VarIntTooLong" <=> taken.result = "VarIntTooLong"
                /\ slice.result = "some" =>
                      /\ Reads(taken, slice.value, Drop(input, slice.width))
                      /\ slice.value \in Int_
                      /\ Len(bytes) = varint_len(slice.value) /\ Len(bytes) <= slice.width
                      /\ slice.value < 0 => Len(bytes) = MaxLen
                      /\ \A n \in 0..(Len(bytes) - 1) :
                            read_varint_slice(Take(bytes, n)).result = "none"

\* buf.rs: read_string reads a string "rejecting anything longer than
\* `max_chars` characters".
StringsWithinLimit ==
    result.result = "ok" => WithinLimits(Packet[kind], result.value, "chars")
=============================================================================
