SPECIFICATION Spec
CONSTANTS
    PayloadBits = 3
    Width = 7
    MaxLen = 3
    W16 = 1
    W64 = 2
    W128 = 2
    Utf8Width <- MCUtf8Width
    Continuations = {8, 9, 10, 11}
    MAX_SERVER_ADDRESS_CHARS = 2
    MAX_STATUS_JSON_CHARS = 2
    MAX_DISCONNECT_REASON_CHARS = 2
    MAX_USERNAME_CHARS = 2
    MAX_PROPERTY_NAME_CHARS = 1
    MAX_PROPERTY_VALUE_CHARS = 1
    MAX_SIGNATURE_CHARS = 1
    MAX_PROFILE_PROPERTIES = 2
    NameBytes = {1, 2, 3, 4}
    Md5 <- MCMd5
    to_string <- MCto_string
    VERSION_NAME = "26.2"
    PROTOCOL_VERSION = 776
    InvalidUsernameText <- MCText
    Configs <- MCConfigs
    VersionByte = 1
    VariantByte = 2
    Samples <- MCSamples
    InputBytes <- MCInputBytes
    MaxBytes <- MCMaxBytes
INVARIANTS
    StringsWithinLimit
CHECK_DEADLOCK FALSE
