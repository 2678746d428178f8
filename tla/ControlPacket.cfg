SPECIFICATION TextsSpec
CONSTANTS
    NULL = NULL
    Payloads <- MCPayloads
INVARIANTS
    PacketOwned
    FieldsAgree
    ErrorTellsFailure
    TextsReadable
